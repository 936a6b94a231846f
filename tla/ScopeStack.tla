----------------------------- MODULE ScopeStack ------------------------------
(***************************************************************************)
(* What zil::trace2 promises its callers: every thread has a stack of open *)
(* scopes; a new scope is a child of the innermost open one of its thread, *)
(* or of a parent named explicitly; the innermost scope is the one that    *)
(* closes; a closed scope never comes back.                                *)
(***************************************************************************)
EXTENDS Sequences, SequencesExt

CONSTANTS Threads, Spans, Remote, NoSpan

VARIABLES
    open,        \* the open scopes of each thread, innermost last
    closed,      \* the scopes that have been closed
    up,          \* the parent of each scope
    adopted      \* the scopes opened under an explicit parent

scopeVars == <<open, closed, up, adopted>>

Innermost(t) == IF open[t] = <<>> THEN NoSpan ELSE Last(open[t])

ScopeInit ==
    /\ open = [t \in Threads |-> <<>>]
    /\ closed = {}
    /\ up = [s \in Spans |-> NoSpan]
    /\ adopted = {}

Unused(s) == s \notin closed /\ \A t \in Threads : s \notin ToSet(open[t])

Open(t, s, p) ==
    /\ Unused(s)
    /\ open' = [open EXCEPT ![t] = Append(@, s)]
    /\ up' = [up EXCEPT ![s] = p]
    /\ UNCHANGED closed

OpenEnclosed(t, s) == Open(t, s, Innermost(t)) /\ UNCHANGED adopted

OpenAdopted(t, s, p) == Open(t, s, p) /\ adopted' = adopted \cup {s}

Close(t) ==
    /\ open[t] # <<>>
    /\ closed' = closed \cup {Last(open[t])}
    /\ open' = [open EXCEPT ![t] = Front(@)]
    /\ UNCHANGED <<up, adopted>>

ScopeNext ==
    \E t \in Threads :
      \/ \E s \in Spans : OpenEnclosed(t, s)
      \/ \E s \in Spans, p \in Spans \cup Remote : OpenAdopted(t, s, p)
      \/ Close(t)

ScopeSpec == ScopeInit /\ [][ScopeNext]_scopeVars
=============================================================================
