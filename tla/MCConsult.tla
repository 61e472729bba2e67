------------------------------ MODULE MCConsult ------------------------------
(* Both clients of a streaming session: see MCConsult_lossy.cfg.            *)
EXTENDS Consult
=============================================================================
