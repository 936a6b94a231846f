----------------------------- MODULE MCSingleton ------------------------------
(* Instance of Singleton for TLC. *)
EXTENDS Singleton
===============================================================================
