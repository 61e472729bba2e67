---------------------------- MODULE MCNatsStream ----------------------------
(* NatsStream on small instances: see the MCNatsStream_*.cfg files.         *)
EXTENDS NatsStream
=============================================================================
