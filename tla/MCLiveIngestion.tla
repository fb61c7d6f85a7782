---------------------------- MODULE MCLiveIngestion ----------------------------
(* Two threads, two retries with backoffs of one and two ticks, against a   *)
(* recovery timeout of three: a call's sleeps outlast a whole open period.  *)
EXTENDS LiveIngestion
=============================================================================
