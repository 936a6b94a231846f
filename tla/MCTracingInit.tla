---------------------------- MODULE MCTracingInit -----------------------------
(* Instance of TracingInit for TLC; the cfg files name the threads. *)
EXTENDS TracingInit
===============================================================================
