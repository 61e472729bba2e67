----------------------------- MODULE MCPgMemory -----------------------------
(* PgMemory on small instances: see the MCPgMemory_*.cfg files.             *)
EXTENDS PgMemory
=============================================================================
