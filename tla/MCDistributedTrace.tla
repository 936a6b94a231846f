-------------------------- MODULE MCDistributedTrace --------------------------
(* Instance of DistributedTrace for TLC: ids of one or two nibbles, and an   *)
(* alphabet with a letter in both cases.                                     *)
EXTENDS DistributedTrace

CONSTANTS r1, r2, idA, idB

MCRequestId == [r \in Requests |-> idA]

MCMaxCancels == [r \in Requests |-> IF r = r1 THEN 1 ELSE 0]

MCChar == {"0", "1", "a", "A", "-", "NL", "C"}

MCToHex == [n \in Nibbles |-> CASE n = 0 -> "0" [] n = 1 -> "1" [] n = 10 -> "a"]

MCFromHex == [ch \in {"0", "1", "a", "A"} |->
                CASE ch = "0" -> 0 [] ch = "1" -> 1 [] OTHER -> 10]

(* The SDK's decoder sets a flag for the single characters "1" and "d" only; *)
(* a field of as many digits as the encoder writes gives no flags.           *)
MCTraceFlagsFromHex(field) == Zeros(FLAGS_SIZE)

MCSpanIdOf == [r \in Requests |-> IF r = r1 THEN <<1, 0>> ELSE <<1, 10>>]

MCTraceId == <<10>>

MCCmd == <<"C">>

MCDuration == <<"1", "1">>
==============================================================================
