--------------------------- MODULE MCAsyncTCPClient ---------------------------
(* Instance of AsyncTCPClient for TLC: the first and the last request use   *)
(* the same id, one after the other.                                        *)
EXTENDS AsyncTCPClient

CONSTANTS r2, idA, idB, Cancels

MCMaxCancels == [r \in Requests |-> Cancels]

MCRequestId == [r \in Requests |-> IF r = r2 THEN idB ELSE idA]
===============================================================================
