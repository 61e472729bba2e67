---------------------------- MODULE MCWebBridge -----------------------------
(* WebBridge on small instances: see the MCWebBridge_*.cfg files.           *)
EXTENDS WebBridge
=============================================================================
