------------------------------ MODULE MCMemories -----------------------------
(* Both memories on small instances: see MCMemories_appends.cfg.            *)
EXTENDS Memories
=============================================================================
