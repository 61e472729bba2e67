---------------------------- MODULE MCChatRequest -----------------------------
(* ChatRequest on a small instance: see MCChatRequest_default.cfg.           *)
EXTENDS ChatRequest
=============================================================================
