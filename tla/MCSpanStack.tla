----------------------------- MODULE MCSpanStack -----------------------------
(* Instance of SpanStack for TLC; spans and threads are interchangeable. *)
EXTENDS SpanStack, TLC

SpanSymmetry == Permutations(Spans) \cup Permutations(Threads)
=============================================================================
