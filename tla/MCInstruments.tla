---------------------------- MODULE MCInstruments -----------------------------
(* Instance of Instruments for TLC: an instrument of each kind and a second *)
(* gauge, over two filter classes.                                          *)
EXTENDS Instruments

CONSTANTS c1, h1, g1, g2, k1, k2

MCKind == [i \in Instruments |-> CASE i = c1 -> "counter"
                                   [] i = h1 -> "histogram"
                                   [] OTHER -> "gauge"]

MCClassOf == [i \in Instruments |-> IF i \in {c1, h1, g1} THEN k1 ELSE k2]
===============================================================================
