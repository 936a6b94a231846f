-------------------------- MODULE SpanNestingProofs --------------------------
(***************************************************************************)
(* Proofs about NestedSpec: what zil::trace2 guarantees to callers whose   *)
(* scoped Spans end innermost first, on the thread that created them.      *)
(***************************************************************************)
EXTENDS SpanStackProofs

(* Taking the last element out of a sequence, as the caller (RemoveAt),    *)
(* the stack (Pop) and the RuntimeContext (Detach) do it, is the same when *)
(* the elements are distinct.                                              *)
LEMMA InnermostFacts ==
  ASSUME NEW S, NEW q \in Seq(S), q # <<>>,
         \A i, j \in 1 .. Len(q) : q[i] = q[j] => i = j
  PROVE  /\ RemoveAt(q, Len(q)) = Pop(q)
         /\ Detach(q, q[Len(q)]) = Pop(q)
         /\ Len(Pop(q)) = Len(q) - 1
         /\ \A i \in 1 .. Len(q) - 1 : Pop(q)[i] = q[i]
<1> DEFINE n == Len(q)
<1>1. n \in Nat /\ n >= 1
  OBVIOUS
<1>2. /\ Pop(q) \in Seq(S) /\ Len(Pop(q)) = n - 1
      /\ \A i \in 1 .. n - 1 : Pop(q)[i] = q[i]
  <2>1. n - 1 \in Nat /\ n - 1 <= Len(q)
    BY <1>1
  <2> QED
    BY <2>1, PrefixFacts DEF Pop
<1>3. /\ RemoveAt(q, n) \in Seq(S) /\ Len(RemoveAt(q, n)) = n - 1
      /\ \A i \in 1 .. n - 1 : RemoveAt(q, n)[i] = q[i]
  <2>1. n \in 1 .. Len(q)
    BY <1>1
  <2> QED
    BY <2>1, RemoveAtFacts
<1>4. RemoveAt(q, n) = Pop(q)
  <2>1. \A i \in 1 .. Len(Pop(q)) : RemoveAt(q, n)[i] = Pop(q)[i]
    BY <1>2, <1>3
  <2> QED
    BY <1>2, <1>3, <2>1, SeqEqual
<1>5. Detach(q, q[n]) = Pop(q)
  <2>1. DOMAIN q = 1 .. n /\ n \in DOMAIN q
    BY <1>1
  <2>2. \A i \in DOMAIN q : q[i] = q[n] <=> i = n
    BY <2>1
  <2>3. (CHOOSE i \in DOMAIN q : q[i] = q[n]) = n
    BY <2>1, <2>2
  <2> QED
    BY <2>1, <2>3 DEF Detach, Pop
<1> QED
  BY <1>2, <1>4, <1>5

(* Nested use is a restriction of what the API allows.                     *)
LEMMA NestedIsAllowed == TypeOK /\ [NestedNext]_vars => [Next]_vars
<1> SUFFICES ASSUME TypeOK, NestedNext
             PROVE  Next
  OBVIOUS
<1>1. ASSUME NEW t \in Threads, NEW st \in StatusCode, EndInnermost(t, st)
      PROVE  Next
  <2>1. scoped[t] \in Seq(Spans) /\ scoped[t] # <<>>
    BY <1>1 DEF TypeOK, EndInnermost
  <2>2. Len(scoped[t]) \in DOMAIN scoped[t]
    BY <2>1
  <2> QED
    BY <1>1, <2>2 DEF EndInnermost, Next
<1> QED
  BY <1>1 DEF NestedNext, Next

(* The inductive invariant of nested use.                                  *)
NestedInv ==
    /\ ScopeInv
    /\ ~aborted
    /\ m_stack = scoped
    /\ context = scoped
    /\ ParentIsEnclosing

(* NestedInv holds at the start.                                           *)
LEMMA NestedInit == Init => NestedInv
<1> SUFFICES ASSUME Init
             PROVE  NestedInv
  OBVIOUS
<1>1. \A t \in Threads : DOMAIN scoped[t] = {}
  BY DEF Init
<1>2. ParentIsEnclosing
  BY <1>1 DEF ParentIsEnclosing
<1>3. ~aborted /\ m_stack = scoped /\ context = scoped
  BY DEF Init
<1> QED
  BY <1>2, <1>3, ScopeInit DEF NestedInv

(* What ends a nested scope does to the three stacks.                      *)
LEMMA EndInnermostFacts ==
  ASSUME NestedInv, NEW t \in Threads, NEW st \in StatusCode,
         EndInnermost(t, st)
  PROVE  /\ scoped[t] \in Seq(Spans) /\ scoped[t] # <<>>
         /\ status' = [status EXCEPT ![Last(scoped[t])] = st]
         /\ scoped' = [scoped EXCEPT ![t] = Pop(@)]
         /\ m_stack' = scoped' /\ context' = scoped'
         /\ ~aborted'
         /\ UNCHANGED <<parent, trace, viaRemote>>
         /\ Len(Pop(scoped[t])) = Len(scoped[t]) - 1
         /\ \A i \in 1 .. Len(scoped[t]) - 1 : Pop(scoped[t])[i] = scoped[t][i]
<1> DEFINE q == scoped[t]
           s == q[Len(q)]
<1>1. TypeOK /\ ScopesHeld /\ ScopesDistinct /\ ~aborted
  BY DEF NestedInv, ScopeInv
<1>2. q \in Seq(Spans) /\ q # <<>> /\ Len(q) \in 1 .. Len(q)
  BY <1>1 DEF TypeOK, EndInnermost
<1>3. /\ RemoveAt(q, Len(q)) = Pop(q) /\ Detach(q, s) = Pop(q)
      /\ Len(Pop(q)) = Len(q) - 1
      /\ \A i \in 1 .. Len(q) - 1 : Pop(q)[i] = q[i]
  BY <1>1, <1>2, InnermostFacts DEF ScopesDistinct
<1>4. s \in m_token /\ m_threadId[s] = t
  BY <1>1, <1>2 DEF ScopesHeld
<1>5. /\ ImplEnd(t, s, st) /\ scoped' = [scoped EXCEPT ![t] = RemoveAt(@, Len(q))]
      /\ UNCHANGED <<parent, trace, viaRemote>>
  BY DEF EndInnermost, EndScoped, SpanEnd
<1>6. /\ status' = [status EXCEPT ![s] = st] /\ aborted' = aborted
      /\ context' = [context EXCEPT ![t] = Detach(@, s)]
      /\ m_stack' = [m_stack EXCEPT ![t] = Pop(@)]
  BY <1>4, <1>5 DEF ImplEnd
<1>7. scoped' = [scoped EXCEPT ![t] = Pop(@)]
  BY <1>3, <1>5
<1>8. m_stack' = scoped' /\ context' = scoped'
  BY <1>3, <1>6, <1>7 DEF NestedInv
<1> QED
  BY <1>1, <1>2, <1>3, <1>5, <1>6, <1>7, <1>8 DEF Last

(* What starting a span under nested use does to the three stacks.         *)
LEMMA CreateNestedFacts ==
  ASSUME NestedInv, NEW t \in Threads, NEW s \in Spans,
         NEW p \in Spans \cup Remote \cup {NoSpan}, CreateSpanImpl(t, s, p)
  PROVE  /\ scoped' = [scoped EXCEPT ![t] = Append(@, s)]
         /\ m_stack' = scoped' /\ context' = scoped'
         /\ ~aborted'
         /\ scoped'[t] = Append(scoped[t], s)
         /\ \A u \in Threads \ {t} : scoped'[u] = scoped[u]
         /\ \A u \in Threads : \A i \in 1 .. Len(scoped[u]) : scoped[u][i] # s
         /\ parent'[s] = p /\ trace'[s] = TraceOf(s, p)
         /\ \A x \in Spans \ {s} : parent'[x] = parent[x] /\ trace'[x] = trace[x]
<1>1. TypeOK /\ TokenIsRecording /\ ScopesHeld /\ ~aborted
  BY DEF NestedInv, ScopeInv
<1>2. s \notin m_token
  BY <1>1 DEF TokenIsRecording, CreateSpanImpl
<1>3. /\ scoped' = [scoped EXCEPT ![t] = Append(@, s)]
      /\ m_stack' = scoped' /\ context' = scoped' /\ ~aborted'
  BY <1>1 DEF CreateSpanImpl, NestedInv, Push
<1>4. /\ scoped'[t] = Append(scoped[t], s)
      /\ \A u \in Threads \ {t} : scoped'[u] = scoped[u]
  BY <1>1, <1>3 DEF TypeOK
<1>5. \A u \in Threads : \A i \in 1 .. Len(scoped[u]) : scoped[u][i] # s
  BY <1>1, <1>2 DEF ScopesHeld
<1>6. /\ parent'[s] = p /\ trace'[s] = TraceOf(s, p)
      /\ \A x \in Spans \ {s} : parent'[x] = parent[x] /\ trace'[x] = trace[x]
  BY <1>1 DEF TypeOK, CreateSpanImpl
<1> QED
  BY <1>3, <1>4, <1>5, <1>6

(* The parent of a new span when the stacks agree: the innermost scope.    *)
LEMMA CurrentIsInnermost ==
  ASSUME NestedInv, NEW t \in Threads
  PROVE  CurrentSpan(t) = IF Len(scoped[t]) = 0 THEN NoSpan
                          ELSE scoped[t][Len(scoped[t])]
<1>1. context[t] = scoped[t] /\ scoped[t] \in Seq(Spans)
  BY DEF NestedInv, ScopeInv, TypeOK
<1>2. scoped[t] = <<>> <=> Len(scoped[t]) = 0
  BY <1>1
<1> QED
  BY <1>1, <1>2 DEF CurrentSpan, Last

(* A span that CreateSpan starts is the child of the enclosing scope; one  *)
(* that names its parent is recorded in viaRemote; older spans keep their  *)
(* parents and enclosing scopes.                                           *)
LEMMA CreateKeepsEnclosing ==
  ASSUME NestedInv, NEW t \in Threads, NEW s \in Spans,
         NEW p \in Spans \cup Remote \cup {NoSpan}, CreateSpanImpl(t, s, p),
         \/ p = CurrentSpan(t) /\ viaRemote' = viaRemote
         \/ viaRemote' = viaRemote \cup {s}
  PROVE  ParentIsEnclosing'
<1> DEFINE n == Len(scoped[t])
<1>1. TypeOK /\ ParentIsEnclosing /\ ~aborted
  BY DEF NestedInv, ScopeInv
<1>2. scoped[t] \in Seq(Spans) /\ n \in Nat
  BY <1>1 DEF TypeOK
<1>3. /\ Len(scoped'[t]) = n + 1 /\ scoped'[t][n + 1] = s
      /\ DOMAIN scoped'[t] = 1 .. n + 1
      /\ \A i \in 1 .. n : scoped'[t][i] = scoped[t][i]
  <2>1. scoped'[t] = Append(scoped[t], s)
    BY CreateNestedFacts
  <2> QED
    BY <1>2, <2>1, AppendFacts
<1>4. ASSUME NEW u \in Threads, NEW i \in DOMAIN scoped'[u],
             scoped'[u][i] \notin viaRemote'
      PROVE  IF i = 1
             THEN parent'[scoped'[u][i]] = NoSpan
                  /\ trace'[scoped'[u][i]] = scoped'[u][i]
             ELSE parent'[scoped'[u][i]] = scoped'[u][i-1]
                  /\ trace'[scoped'[u][i]] = trace'[scoped'[u][i-1]]
  <2>1. CASE u = t /\ i = n + 1
    <3>1. scoped'[u][i] = s /\ p = CurrentSpan(t)
      BY <1>3, <1>4, <2>1
    <3>2. CASE n = 0
      <4>1. p = NoSpan
        BY <3>1, <3>2, CurrentIsInnermost
      <4> QED
        BY <2>1, <3>1, <3>2, <4>1, CreateNestedFacts DEF TraceOf
    <3>3. CASE n # 0
      <4>1. p = scoped[t][n] /\ n \in 1 .. n /\ scoped[t][n] \in Spans
        BY <1>2, <3>1, <3>3, CurrentIsInnermost
      <4>2. p # s /\ trace'[p] = trace[p] /\ scoped'[t][n] = p
        BY <1>3, <4>1, CreateNestedFacts
      <4>3. trace'[s] = trace[p] /\ parent'[s] = p
        BY <4>1, CreateNestedFacts, SpanStackAssumption DEF TraceOf
      <4>4. i # 1 /\ i - 1 = n
        BY <1>2, <2>1, <3>3
      <4> QED
        BY <2>1, <3>1, <4>2, <4>3, <4>4
    <3> QED
      BY <3>2, <3>3
  <2>2. CASE ~(u = t /\ i = n + 1)
    <3>1. /\ scoped[u] \in Seq(Spans) /\ i \in DOMAIN scoped[u]
          /\ i \in 1 .. Len(scoped[u])
          /\ \A j \in 1 .. Len(scoped[u]) :
               /\ scoped'[u][j] = scoped[u][j]
               /\ scoped[u][j] \in Spans \ {s}
      <4>1. scoped[u] \in Seq(Spans) /\ DOMAIN scoped[u] = 1 .. Len(scoped[u])
        BY <1>1 DEF TypeOK
      <4>2. i \in 1 .. Len(scoped[u])
        BY <1>2, <1>3, <2>2, <4>1, CreateNestedFacts
      <4>3. \A j \in 1 .. Len(scoped[u]) : scoped'[u][j] = scoped[u][j]
        BY <1>3, CreateNestedFacts
      <4>4. \A j \in 1 .. Len(scoped[u]) : scoped[u][j] \in Spans \ {s}
        BY <4>1, CreateNestedFacts
      <4> QED
        BY <4>1, <4>2, <4>3, <4>4
    <3>2. i # 1 => i - 1 \in 1 .. Len(scoped[u])
      BY <3>1
    <3>3. \A j \in 1 .. Len(scoped[u]) :
            /\ parent'[scoped[u][j]] = parent[scoped[u][j]]
            /\ trace'[scoped[u][j]] = trace[scoped[u][j]]
      BY <3>1, CreateNestedFacts
    <3>4. scoped[u][i] \notin viaRemote
      BY <1>4, <3>1
    <3> QED
      BY <1>1, <3>1, <3>2, <3>3, <3>4 DEF ParentIsEnclosing
  <2> QED
    BY <2>1, <2>2
<1> QED
  BY <1>4 DEF ParentIsEnclosing

(* Ending the innermost scope leaves the others, and their parents, alone. *)
LEMMA EndKeepsEnclosing ==
  ASSUME NestedInv, NEW t \in Threads, NEW st \in StatusCode,
         EndInnermost(t, st)
  PROVE  ParentIsEnclosing'
<1>1. TypeOK /\ ParentIsEnclosing /\ ~aborted
  BY DEF NestedInv, ScopeInv
<1>2. /\ scoped'[t] = Pop(scoped[t])
      /\ \A u \in Threads \ {t} : scoped'[u] = scoped[u]
  BY <1>1, EndInnermostFacts DEF TypeOK
<1>3. \A u \in Threads : scoped'[u] \in Seq(Spans)
  <2>1. Pop(scoped[t]) \in Seq(Spans)
    BY EndInnermostFacts, PopDetachType
  <2> QED
    BY <1>1, <1>2, <2>1 DEF TypeOK
<1>4. \A u \in Threads : \A i \in DOMAIN scoped'[u] :
        i \in DOMAIN scoped[u] /\ scoped'[u][i] = scoped[u][i]
  <2> SUFFICES ASSUME NEW u \in Threads, NEW i \in DOMAIN scoped'[u]
               PROVE  i \in DOMAIN scoped[u] /\ scoped'[u][i] = scoped[u][i]
    OBVIOUS
  <2>1. CASE u = t
    <3>1. i \in 1 .. Len(scoped[t]) - 1 /\ scoped[t] \in Seq(Spans)
      BY <1>2, <1>3, <2>1, EndInnermostFacts
    <3> QED
      BY <1>2, <2>1, <3>1, EndInnermostFacts
  <2>2. CASE u # t
    BY <1>2, <2>2
  <2> QED
    BY <2>1, <2>2
<1>5. \A u \in Threads : \A i \in DOMAIN scoped'[u] :
        i # 1 => i - 1 \in DOMAIN scoped'[u]
  BY <1>3
<1>6. UNCHANGED <<parent, trace, viaRemote>>
  BY EndInnermostFacts
<1> QED
  BY <1>1, <1>4, <1>5, <1>6 DEF ParentIsEnclosing

(* NestedInv is preserved by every step of nested use.                     *)
LEMMA NestedStep == NestedInv /\ [NestedNext]_vars => NestedInv'
<1> SUFFICES ASSUME NestedInv, [NestedNext]_vars
             PROVE  NestedInv'
  OBVIOUS
<1>1. TypeOK /\ ScopeInv
  BY DEF NestedInv, ScopeInv
<1>2. ScopeInv'
  BY <1>1, NestedIsAllowed, ScopeStep
<1>3. CASE UNCHANGED <<m_stack, context, scoped, parent, trace, viaRemote, aborted>>
  BY <1>2, <1>3 DEF NestedInv, ParentIsEnclosing
<1>4. ASSUME NEW t \in Threads, NEW s \in Spans, CreateSpan(t, s)
      PROVE  NestedInv'
  <2>1. /\ CurrentSpan(t) \in Spans \cup Remote \cup {NoSpan}
        /\ CreateSpanImpl(t, s, CurrentSpan(t)) /\ viaRemote' = viaRemote
    BY <1>1, <1>4, CurrentSpanType DEF CreateSpan
  <2> QED
    BY <1>2, <2>1, CreateNestedFacts, CreateKeepsEnclosing DEF NestedInv
<1>5. ASSUME NEW t \in Threads, NEW s \in Spans, NEW p \in Started \cup Remote,
             CreateChildSpanOfRemoteTrace(t, s, p)
      PROVE  NestedInv'
  <2>1. /\ p \in Spans \cup Remote \cup {NoSpan}
        /\ CreateSpanImpl(t, s, p) /\ viaRemote' = viaRemote \cup {s}
    BY <1>5 DEF CreateChildSpanOfRemoteTrace, Started
  <2> QED
    BY <1>2, <2>1, CreateNestedFacts, CreateKeepsEnclosing DEF NestedInv
<1>6. ASSUME NEW t \in Threads, NEW st \in StatusCode, EndInnermost(t, st)
      PROVE  NestedInv'
  BY <1>2, <1>6, EndInnermostFacts, EndKeepsEnclosing DEF NestedInv
<1>7. ASSUME \/ \E t \in Threads : GetActiveSpan(t)
             \/ \E s \in Spans : Annotate(s)
             \/ \E t \in Threads, s \in Spans, st \in StatusCode :
                  EndBorrowed(t, s, st)
             \/ UNCHANGED vars
      PROVE  NestedInv'
  BY <1>3, <1>7 DEF GetActiveSpan, Annotate, EndBorrowed, SpanEnd, vars
<1> QED
  BY <1>4, <1>5, <1>6, <1>7 DEF NestedNext, Common

(* NestedInv holds in every state nested use reaches.                      *)
THEOREM NestedInvariant == NestedSpec => []NestedInv
  BY NestedInit, NestedStep, PTL DEF NestedSpec

(* Nested use keeps the caller's scopes, the thread-local stack and the    *)
(* RuntimeContext equal.                                                   *)
THEOREM StacksAgreeHolds == NestedSpec => []StacksAgree
<1>1. NestedInv => StacksAgree
  BY DEF NestedInv, StacksAgree
<1> QED
  BY <1>1, NestedInvariant, PTL

(* Under nested use GetActiveSpan only returns recording spans.            *)
THEOREM ActiveSpanRecordingHolds == NestedSpec => []ActiveSpanRecording
<1>1. ASSUME NestedInv, NEW t \in Threads, m_stack[t] # <<>>
      PROVE  IsRecording(Last(m_stack[t]))
  <2>1. TypeOK /\ TokenIsRecording /\ ScopesHeld /\ m_stack = scoped
    BY <1>1 DEF NestedInv, ScopeInv
  <2>2. scoped[t] \in Seq(Spans) /\ scoped[t] # <<>>
    BY <1>1, <2>1 DEF TypeOK
  <2>3. Len(scoped[t]) \in 1 .. Len(scoped[t]) /\ Last(scoped[t]) \in Spans
    BY <2>2 DEF Last
  <2> QED
    BY <2>1, <2>3 DEF ScopesHeld, TokenIsRecording, IsRecording, Last
<1>2. NestedInv => ActiveSpanRecording
  BY <1>1 DEF ActiveSpanRecording
<1> QED
  BY <1>2, NestedInvariant, PTL

(* Under nested use CreateSpan makes a child of the enclosing scope.       *)
THEOREM ParentIsEnclosingHolds == NestedSpec => []ParentIsEnclosing
<1>1. NestedInv => ParentIsEnclosing
  BY DEF NestedInv
<1> QED
  BY <1>1, NestedInvariant, PTL

-----------------------------------------------------------------------------
(* Nested use implements the promise of ScopeStack.                        *)

Closed == {s \in Spans : status[s] \in StatusCode}

(* A span that is not started is neither open nor closed.                  *)
LEMMA FreshIsUnused ==
  ASSUME NestedInv, NEW s \in Spans, status[s] = "none"
  PROVE  Promise!Unused(s)
<1>1. TypeOK /\ TokenIsRecording /\ ScopesHeld /\ m_stack = scoped
  BY DEF NestedInv, ScopeInv
<1>2. s \notin m_token /\ s \notin {x \in Spans : status[x] \in StatusCode}
  BY <1>1 DEF TokenIsRecording, StatusCode
<1>3. \A t \in Threads : DOMAIN m_stack[t] = 1 .. Len(m_stack[t])
  BY <1>1 DEF TypeOK
<1> QED
  BY <1>1, <1>2, <1>3 DEF Promise!Unused, Promise!ToSet, ScopesHeld

(* Every step of nested use is a step of ScopeStack or leaves it alone.    *)
LEMMA NestedImplementsStep ==
  NestedInv /\ [NestedNext]_vars => [Promise!ScopeNext]_(Promise!scopeVars)
<1> SUFFICES ASSUME NestedInv, [NestedNext]_vars
             PROVE  [Promise!ScopeNext]_(Promise!scopeVars)
  OBVIOUS
<1>1. TypeOK /\ m_stack = scoped /\ context = scoped /\ ~aborted
  BY DEF NestedInv, ScopeInv
<1>2. CASE UNCHANGED <<m_stack, status, parent, viaRemote>>
  BY <1>2 DEF Promise!scopeVars
<1>3. ASSUME NEW t \in Threads, NEW s \in Spans,
             NEW p \in Spans \cup Remote \cup {NoSpan}, CreateSpanImpl(t, s, p)
      PROVE  Promise!Open(t, s, p)
  <2>1. Promise!Unused(s)
    BY <1>3, FreshIsUnused DEF CreateSpanImpl
  <2>2. Closed' = Closed
    BY <1>1, <1>3 DEF CreateSpanImpl, TypeOK, StatusCode, Closed
  <2> QED
    BY <1>3, <2>1, <2>2 DEF Promise!Open, CreateSpanImpl, Push, Closed
<1>4. ASSUME NEW t \in Threads, NEW s \in Spans, CreateSpan(t, s)
      PROVE  Promise!ScopeNext
  <2>1. CurrentSpan(t) = Promise!Innermost(t)
    BY <1>1 DEF CurrentSpan, Promise!Innermost, Last, Promise!Last
  <2>2. CurrentSpan(t) \in Spans \cup Remote \cup {NoSpan}
    BY <1>1, CurrentSpanType
  <2>3. Promise!Open(t, s, Promise!Innermost(t)) /\ UNCHANGED viaRemote
    BY <1>3, <1>4, <2>1, <2>2 DEF CreateSpan
  <2> QED
    BY <2>3 DEF Promise!ScopeNext, Promise!OpenEnclosed
<1>5. ASSUME NEW t \in Threads, NEW s \in Spans, NEW p \in Started \cup Remote,
             CreateChildSpanOfRemoteTrace(t, s, p)
      PROVE  Promise!ScopeNext
  <2>1. p \in Spans \cup Remote
    BY DEF Started
  <2>2. Promise!Open(t, s, p) /\ viaRemote' = viaRemote \cup {s}
    BY <1>3, <1>5, <2>1 DEF CreateChildSpanOfRemoteTrace
  <2> QED
    BY <2>1, <2>2 DEF Promise!ScopeNext, Promise!OpenAdopted
<1>6. ASSUME NEW t \in Threads, NEW st \in StatusCode, EndInnermost(t, st)
      PROVE  Promise!ScopeNext
  <2>1. Last(scoped[t]) \in Spans
    BY <1>6, EndInnermostFacts DEF Last
  <2>2. Closed' = Closed \cup {Last(scoped[t])}
    BY <1>1, <1>6, <2>1, EndInnermostFacts DEF Closed, TypeOK
  <2>3. /\ m_stack[t] # <<>>
        /\ m_stack' = [m_stack EXCEPT ![t] = Pop(@)]
        /\ UNCHANGED <<parent, viaRemote>>
    BY <1>1, <1>6, EndInnermostFacts
  <2>4. Promise!Close(t)
    BY <1>1, <2>2, <2>3
       DEF Promise!Close, Promise!Front, Promise!Last, Last, Pop, Closed
  <2> QED
    BY <2>4 DEF Promise!ScopeNext
<1>7. ASSUME \/ \E t \in Threads : GetActiveSpan(t)
             \/ \E s \in Spans : Annotate(s)
             \/ \E t \in Threads, s \in Spans, st \in StatusCode :
                  EndBorrowed(t, s, st)
             \/ UNCHANGED vars
      PROVE  UNCHANGED Promise!scopeVars
  BY <1>2, <1>7
     DEF GetActiveSpan, Annotate, EndBorrowed, SpanEnd, vars, Promise!scopeVars
<1> QED
  BY <1>4, <1>5, <1>6, <1>7 DEF NestedNext, Common

(* With scopes that nest, trace2 behaves as one stack of scopes per        *)
(* thread: refinement of ScopeStack.                                       *)
THEOREM ScopeStackImplemented == NestedSpec => ImplementsScopeStack
<1>1. Init => Promise!ScopeInit
  BY DEF Init, Promise!ScopeInit, StatusCode
<1>2. NestedSpec => Promise!ScopeSpec
  BY <1>1, NestedImplementsStep, NestedInvariant, PTL
     DEF NestedSpec, Promise!ScopeSpec
<1> QED
  BY <1>2 DEF ImplementsScopeStack
=============================================================================
