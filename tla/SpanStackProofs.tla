--------------------------- MODULE SpanStackProofs ---------------------------
(***************************************************************************)
(* Machine-checked proofs about SpanStack, for every set of threads, spans *)
(* and remote contexts.                                                    *)
(***************************************************************************)
EXTENDS SpanStack, SequenceTheorems, TLAPS

(* Appending to a sequence of S keeps it one, and adds one element at the  *)
(* end.                                                                    *)
LEMMA AppendFacts ==
  ASSUME NEW S, NEW q \in Seq(S), NEW e \in S
  PROVE  /\ Append(q, e) \in Seq(S)
         /\ Append(q, e) # <<>>
         /\ Len(Append(q, e)) = Len(q) + 1
         /\ Append(q, e)[Len(q) + 1] = e
         /\ \A i \in 1 .. Len(q) : Append(q, e)[i] = q[i]
  OBVIOUS

(* A prefix of a sequence of S is one, with the elements it had.           *)
LEMMA PrefixFacts ==
  ASSUME NEW S, NEW q \in Seq(S), NEW n \in Nat, n <= Len(q)
  PROVE  /\ SubSeq(q, 1, n) \in Seq(S)
         /\ Len(SubSeq(q, 1, n)) = n
         /\ \A i \in 1 .. n : SubSeq(q, 1, n)[i] = q[i]
  OBVIOUS

(* RemoveAt, which takes the ended Span out of its thread's scopes: one    *)
(* element shorter, and the others move down by at most one place.         *)
LEMMA RemoveAtFacts ==
  ASSUME NEW S, NEW q \in Seq(S), NEW k \in 1 .. Len(q)
  PROVE  /\ RemoveAt(q, k) \in Seq(S)
         /\ Len(RemoveAt(q, k)) = Len(q) - 1
         /\ \A i \in 1 .. Len(q) - 1 :
              RemoveAt(q, k)[i] = IF i < k THEN q[i] ELSE q[i + 1]
<1> DEFINE A == SubSeq(q, 1, k - 1)
           B == SubSeq(q, k + 1, Len(q))
<1>1. A \in Seq(S) /\ Len(A) = k - 1 /\ \A i \in 1 .. k - 1 : A[i] = q[i]
  BY PrefixFacts
<1>2. /\ B \in Seq(S) /\ Len(B) = Len(q) - k
      /\ \A i \in 1 .. Len(q) - k : B[i] = q[k + i]
  OBVIOUS
<1> HIDE DEF A, B
<1>3. /\ A \o B \in Seq(S) /\ Len(A \o B) = Len(A) + Len(B)
      /\ \A i \in 1 .. Len(A) + Len(B) :
           (A \o B)[i] = IF i <= Len(A) THEN A[i] ELSE B[i - Len(A)]
  BY <1>1, <1>2, ConcatProperties
<1>4. RemoveAt(q, k) = A \o B
  BY DEF RemoveAt, A, B
<1>5. Len(A) + Len(B) = Len(q) - 1 /\ k - 1 \in Nat /\ Len(q) \in Nat
  BY <1>1, <1>2
<1>6. ASSUME NEW i \in 1 .. Len(q) - 1
      PROVE  (A \o B)[i] = IF i < k THEN q[i] ELSE q[i + 1]
  <2>1. CASE i < k
    <3>1. i \in 1 .. k - 1
      BY <2>1
    <3> QED
      BY <1>1, <1>3, <1>5, <2>1, <3>1
  <2>2. CASE ~(i < k)
    <3>1. i - (k - 1) \in 1 .. Len(q) - k /\ k + (i - (k - 1)) = i + 1
      BY <2>2
    <3>2. B[i - (k - 1)] = q[i + 1]
      BY <1>2, <3>1
    <3>3. (A \o B)[i] = B[i - (k - 1)]
      BY <1>1, <1>3, <1>5, <2>2
    <3> QED
      BY <2>2, <3>2, <3>3
  <2> QED
    BY <2>1, <2>2
<1> QED
  BY <1>3, <1>4, <1>5, <1>6

-----------------------------------------------------------------------------
(* Type correctness.                                                       *)

(* The span CreateSpan takes as parent is a span of this process or none.  *)
LEMMA CurrentSpanType ==
  ASSUME TypeOK, NEW t \in Threads
  PROVE  CurrentSpan(t) \in Spans \cup {NoSpan}
<1>1. context[t] \in Seq(Spans)
  BY DEF TypeOK
<1>2. CASE context[t] # <<>>
  BY <1>1, <1>2 DEF CurrentSpan, Last
<1> QED
  BY <1>2 DEF CurrentSpan

(* Pop and Detach keep the thread-local stacks sequences of spans.         *)
LEMMA PopDetachType ==
  ASSUME NEW q \in Seq(Spans), NEW s
  PROVE  Pop(q) \in Seq(Spans) /\ Detach(q, s) \in Seq(Spans)
<1>1. Pop(q) \in Seq(Spans)
  <2>1. CASE Len(q) = 0
    BY <2>1 DEF Pop
  <2>2. CASE Len(q) # 0
    <3>1. Len(q) - 1 \in Nat /\ Len(q) - 1 <= Len(q)
      BY <2>2
    <3> QED
      BY <3>1, PrefixFacts DEF Pop
  <2> QED
    BY <2>1, <2>2
<1>2. Detach(q, s) \in Seq(Spans)
  <2>1. CASE \E i \in DOMAIN q : q[i] = s
    <3> DEFINE k == CHOOSE i \in DOMAIN q : q[i] = s
    <3>1. k \in 1 .. Len(q)
      BY <2>1
    <3>2. Detach(q, s) = SubSeq(q, 1, k - 1)
      BY <2>1 DEF Detach
    <3> HIDE DEF k
    <3>3. k - 1 \in Nat /\ k - 1 <= Len(q)
      BY <3>1
    <3> QED
      BY <3>2, <3>3, PrefixFacts
  <2>2. CASE ~\E i \in DOMAIN q : q[i] = s
    BY <2>2 DEF Detach
  <2> QED
    BY <2>1, <2>2
<1> QED
  BY <1>1, <1>2

(* Starting a span under any parent the callers pass preserves the types.  *)
LEMMA CreateSpanImplType ==
  ASSUME TypeOK, NEW t \in Threads, NEW s \in Spans,
         NEW p \in Spans \cup Remote \cup {NoSpan},
         CreateSpanImpl(t, s, p), viaRemote' \in SUBSET Spans
  PROVE  TypeOK'
<1>1. TraceOf(s, p) \in Spans \cup Remote \cup {NoSpan}
  BY DEF TypeOK, TraceOf
<1>2. m_stack' \in [Threads -> Seq(Spans)]
  BY AppendFacts DEF TypeOK, CreateSpanImpl, Push
<1>3. context' \in [Threads -> Seq(Spans)]
  BY AppendFacts DEF TypeOK, CreateSpanImpl
<1>4. scoped' \in [Threads -> Seq(Spans)]
  BY AppendFacts DEF TypeOK, CreateSpanImpl
<1>5. parent' \in [Spans -> Spans \cup Remote \cup {NoSpan}]
  BY DEF TypeOK, CreateSpanImpl
<1>6. trace' \in [Spans -> Spans \cup Remote \cup {NoSpan}]
  BY <1>1 DEF TypeOK, CreateSpanImpl
<1>7. /\ m_threadId' \in [Spans -> Threads \cup {NoThread}]
      /\ status' \in [Spans -> {"none", "recording"} \cup StatusCode]
      /\ \A x \in Spans : (m_threadId'[x] = NoThread) <=> (status'[x] = "none")
  BY SpanStackAssumption DEF TypeOK, CreateSpanImpl
<1>8. /\ m_token' \in SUBSET Spans
      /\ borrowed' \in SUBSET Spans
      /\ events' \in [Spans -> 0 .. MaxEvents]
      /\ aborted' \in BOOLEAN
  BY DEF TypeOK, CreateSpanImpl
<1> QED
  BY <1>2, <1>3, <1>4, <1>5, <1>6, <1>7, <1>8 DEF TypeOK

(* Ending a scoped Span preserves the types, on the owner's thread, on a   *)
(* foreign one and when the token is gone.                                 *)
LEMMA EndScopedType ==
  ASSUME TypeOK, NEW t \in Threads, NEW u \in Threads,
         NEW k \in DOMAIN scoped[u], NEW st \in StatusCode,
         EndScoped(t, u, k, st)
  PROVE  TypeOK'
<1> DEFINE s == scoped[u][k]
<1>1. /\ scoped[u] \in Seq(Spans) /\ k \in 1 .. Len(scoped[u]) /\ s \in Spans
      /\ ImplEnd(t, s, st)
      /\ scoped' = [scoped EXCEPT ![u] = RemoveAt(@, k)]
      /\ UNCHANGED <<borrowed, m_threadId, parent, trace, viaRemote, events>>
  BY DEF TypeOK, EndScoped, SpanEnd
<1> HIDE DEF s
<1>2. scoped' \in [Threads -> Seq(Spans)]
  BY <1>1, RemoveAtFacts DEF TypeOK
<1>3. /\ m_stack' \in [Threads -> Seq(Spans)]
      /\ context' \in [Threads -> Seq(Spans)]
  <2>1. m_stack[t] \in Seq(Spans) /\ context[t] \in Seq(Spans)
    BY DEF TypeOK
  <2>2. Pop(m_stack[t]) \in Seq(Spans) /\ Detach(context[t], s) \in Seq(Spans)
    BY <2>1, PopDetachType
  <2>3. CASE UNCHANGED <<m_stack, context>>
    BY <2>3 DEF TypeOK
  <2>4. CASE /\ m_stack' = [m_stack EXCEPT ![t] = Pop(@)]
             /\ context' = [context EXCEPT ![t] = Detach(@, s)]
    BY <2>2, <2>4 DEF TypeOK
  <2> QED
    BY <1>1, <2>3, <2>4 DEF ImplEnd
<1>4. m_token' \in SUBSET Spans /\ aborted' \in BOOLEAN
  BY <1>1 DEF TypeOK, ImplEnd
<1>5. status' \in [Spans -> {"none", "recording"} \cup StatusCode]
  BY <1>1 DEF TypeOK, ImplEnd
<1>6. \A x \in Spans : (m_threadId'[x] = NoThread) <=> (status'[x] = "none")
  BY <1>1, SpanStackAssumption DEF TypeOK, ImplEnd, StatusCode
<1> QED
  BY <1>1, <1>2, <1>3, <1>4, <1>5, <1>6 DEF TypeOK

(* The typing of every variable is preserved by every step.                *)
LEMMA TypeStep == TypeOK /\ [Next]_vars => TypeOK'
<1> SUFFICES ASSUME TypeOK, [Next]_vars
             PROVE  TypeOK'
  OBVIOUS
<1>1. ASSUME NEW t \in Threads, NEW s \in Spans, CreateSpan(t, s)
      PROVE  TypeOK'
  <2>1. viaRemote' \in SUBSET Spans
    BY <1>1 DEF TypeOK, CreateSpan
  <2> QED
    BY <1>1, <2>1, CurrentSpanType, CreateSpanImplType DEF CreateSpan
<1>2. ASSUME NEW t \in Threads, NEW s \in Spans, NEW p \in Started \cup Remote,
             CreateChildSpanOfRemoteTrace(t, s, p)
      PROVE  TypeOK'
  <2>1. viaRemote' \in SUBSET Spans
    BY <1>2 DEF TypeOK, CreateChildSpanOfRemoteTrace
  <2>2. p \in Spans \cup Remote \cup {NoSpan}
    BY DEF Started
  <2> QED
    BY <1>2, <2>1, <2>2, CreateSpanImplType DEF CreateChildSpanOfRemoteTrace
<1>3. ASSUME NEW t \in Threads, GetActiveSpan(t)
      PROVE  TypeOK'
  <2>1. m_stack[t] \in Seq(Spans) /\ m_stack[t] # <<>>
    BY <1>3 DEF TypeOK, GetActiveSpan
  <2>2. Last(m_stack[t]) \in Spans
    BY <2>1 DEF Last
  <2> QED
    BY <1>3, <2>2 DEF TypeOK, GetActiveSpan
<1>4. ASSUME NEW t \in Threads, NEW s \in Spans, NEW st \in StatusCode,
             EndBorrowed(t, s, st)
      PROVE  TypeOK'
  BY <1>4 DEF TypeOK, EndBorrowed, SpanEnd
<1>5. ASSUME NEW s \in Spans, Annotate(s)
      PROVE  TypeOK'
  <2>1. events' \in [Spans -> 0 .. MaxEvents]
    BY <1>5, SpanStackAssumption DEF TypeOK, Annotate
  <2> QED
    BY <1>5, <2>1 DEF TypeOK, Annotate
<1>6. ASSUME NEW t \in Threads, NEW u \in Threads, NEW k \in DOMAIN scoped[u],
             NEW st \in StatusCode, EndScoped(t, u, k, st)
      PROVE  TypeOK'
  BY <1>6, EndScopedType
<1>7. CASE UNCHANGED vars
  BY <1>7 DEF TypeOK, vars
<1> QED
  BY <1>1, <1>2, <1>3, <1>4, <1>5, <1>6, <1>7 DEF Next, Common

(* Init establishes the types.                                             *)
LEMMA TypeInit == Init => TypeOK
<1> SUFFICES ASSUME Init
             PROVE  TypeOK
  OBVIOUS
<1>1. <<>> \in Seq(Spans) /\ 0 \in 0 .. MaxEvents
  BY SpanStackAssumption
<1>2. /\ m_stack \in [Threads -> Seq(Spans)]
      /\ context \in [Threads -> Seq(Spans)]
      /\ scoped \in [Threads -> Seq(Spans)]
      /\ events \in [Spans -> 0 .. MaxEvents]
  BY <1>1 DEF Init
<1>3. /\ borrowed \in SUBSET Spans
      /\ m_token \in SUBSET Spans
      /\ m_threadId \in [Spans -> Threads \cup {NoThread}]
      /\ parent \in [Spans -> Spans \cup Remote \cup {NoSpan}]
      /\ trace \in [Spans -> Spans \cup Remote \cup {NoSpan}]
      /\ viaRemote \in SUBSET Spans
      /\ status \in [Spans -> {"none", "recording"} \cup StatusCode]
      /\ aborted \in BOOLEAN
  BY DEF Init
<1>4. \A s \in Spans : (m_threadId[s] = NoThread) <=> (status[s] = "none")
  BY DEF Init
<1> QED
  BY <1>2, <1>3, <1>4 DEF TypeOK

(* Every variable keeps its type, and a span has an owner thread exactly   *)
(* when it was started, whatever the callers do (Span and Tracing API).    *)
THEOREM TypeCorrect == Spec => []TypeOK
  BY TypeInit, TypeStep, PTL DEF Spec

-----------------------------------------------------------------------------
(* Ownership of scopes: the inductive invariant.  While the process has    *)
(* not aborted, a token is held exactly by the recording spans, each open  *)
(* scope holds a token and belongs to its thread, no span is in two        *)
(* scopes, and every token belongs to a scope.                             *)
TokenIsRecording == \A s \in Spans : s \in m_token <=> status[s] = "recording"

ScopesHeld ==
    \A t \in Threads : \A i \in 1 .. Len(scoped[t]) :
      scoped[t][i] \in m_token /\ m_threadId[scoped[t][i]] = t

ScopesDistinct ==
    \A t \in Threads : \A i, j \in 1 .. Len(scoped[t]) :
      scoped[t][i] = scoped[t][j] => i = j

TokensScoped ==
    \A s \in m_token : \E t \in Threads : \E i \in 1 .. Len(scoped[t]) :
      scoped[t][i] = s

DepthsEqual == \A t \in Threads : Len(m_stack[t]) = Len(scoped[t])

ScopeInv ==
    /\ TypeOK
    /\ ~aborted => /\ TokenIsRecording
                   /\ ScopesHeld
                   /\ ScopesDistinct
                   /\ TokensScoped
                   /\ DepthsEqual

(* A new span enters the token set, the scopes and the stack together.     *)
LEMMA CreateKeepsScopes ==
  ASSUME ScopeInv, ~aborted, NEW t \in Threads, NEW s \in Spans, NEW p,
         CreateSpanImpl(t, s, p)
  PROVE  TokenIsRecording' /\ ScopesHeld' /\ ScopesDistinct' /\ TokensScoped'
         /\ DepthsEqual'
<1>1. /\ TypeOK /\ TokenIsRecording /\ ScopesHeld /\ ScopesDistinct
      /\ TokensScoped /\ DepthsEqual
  BY DEF ScopeInv
<1>2. s \notin m_token
  BY <1>1 DEF TokenIsRecording, CreateSpanImpl
<1> DEFINE q == scoped[t]
           n == Len(scoped[t])
<1>3. q \in Seq(Spans) /\ n \in Nat /\ m_stack[t] \in Seq(Spans)
  BY <1>1 DEF TypeOK
<1>4. /\ scoped'[t] = Append(q, s)
      /\ \A u \in Threads \ {t} : scoped'[u] = scoped[u]
  BY <1>1 DEF TypeOK, CreateSpanImpl
<1>5. /\ Len(scoped'[t]) = n + 1 /\ scoped'[t][n + 1] = s
      /\ \A i \in 1 .. n : scoped'[t][i] = q[i]
  BY <1>3, <1>4, AppendFacts
<1>6. \A u \in Threads : \A i \in 1 .. Len(scoped[u]) :
        /\ i \in 1 .. Len(scoped'[u]) /\ scoped'[u][i] = scoped[u][i]
        /\ scoped[u][i] # s
  <2> SUFFICES ASSUME NEW u \in Threads, NEW i \in 1 .. Len(scoped[u])
               PROVE  /\ i \in 1 .. Len(scoped'[u])
                      /\ scoped'[u][i] = scoped[u][i] /\ scoped[u][i] # s
    OBVIOUS
  <2>1. scoped[u][i] # s
    BY <1>1, <1>2 DEF ScopesHeld
  <2>2. CASE u = t
    BY <1>3, <1>5, <2>1, <2>2
  <2>3. CASE u # t
    BY <1>4, <2>1, <2>3
  <2> QED
    BY <2>2, <2>3
<1>7. \A u \in Threads : \A i \in 1 .. Len(scoped'[u]) :
        i \in 1 .. Len(scoped[u]) \/ (u = t /\ i = n + 1)
  BY <1>3, <1>4, <1>5
<1>8. TokenIsRecording'
  BY <1>1 DEF TypeOK, TokenIsRecording, CreateSpanImpl
<1>9. m_threadId'[s] = t /\ \A x \in Spans \ {s} : m_threadId'[x] = m_threadId[x]
  BY <1>1 DEF TypeOK, CreateSpanImpl
<1>10. m_token' = m_token \cup {s} /\ m_token \subseteq Spans
  BY <1>1 DEF TypeOK, CreateSpanImpl
<1> HIDE DEF q, n
<1>11. ScopesHeld'
  <2> SUFFICES ASSUME NEW u \in Threads, NEW i \in 1 .. Len(scoped'[u])
               PROVE  /\ scoped'[u][i] \in m_token'
                      /\ m_threadId'[scoped'[u][i]] = u
    BY DEF ScopesHeld
  <2>1. CASE i \in 1 .. Len(scoped[u])
    <3>1. /\ scoped'[u][i] = scoped[u][i] /\ scoped[u][i] # s
          /\ scoped[u][i] \in m_token /\ m_threadId[scoped[u][i]] = u
      BY <1>1, <1>6, <2>1 DEF ScopesHeld
    <3> QED
      BY <1>9, <1>10, <3>1
  <2>2. CASE u = t /\ i = n + 1
    BY <1>5, <1>9, <1>10, <2>2
  <2> QED
    BY <1>7, <2>1, <2>2
<1>12. ScopesDistinct'
  <2> SUFFICES ASSUME NEW u \in Threads, NEW i \in 1 .. Len(scoped'[u]),
                      NEW j \in 1 .. Len(scoped'[u]),
                      scoped'[u][i] = scoped'[u][j]
               PROVE  i = j
    BY DEF ScopesDistinct
  <2>1. CASE i \in 1 .. Len(scoped[u]) /\ j \in 1 .. Len(scoped[u])
    BY <1>1, <1>6, <2>1 DEF ScopesDistinct
  <2>2. CASE ~(i \in 1 .. Len(scoped[u]) /\ j \in 1 .. Len(scoped[u]))
    <3>1. scoped'[u][i] = s /\ scoped'[u][j] = s
      BY <1>5, <1>7, <2>2
    <3> QED
      BY <1>6, <1>7, <3>1
  <2> QED
    BY <2>1, <2>2
<1>13. TokensScoped'
  <2>1. n + 1 \in 1 .. Len(scoped'[t])
    BY <1>3, <1>5
  <2>2. ASSUME NEW x \in m_token
        PROVE  \E u \in Threads : \E i \in 1 .. Len(scoped'[u]) :
                 scoped'[u][i] = x
    BY <1>1, <1>6 DEF TokensScoped
  <2> QED
    BY <1>5, <1>10, <2>1, <2>2 DEF TokensScoped
<1>14. DepthsEqual'
  <2>1. m_stack'[t] = Append(m_stack[t], s)
    BY <1>1 DEF TypeOK, CreateSpanImpl, Push
  <2>2. Len(m_stack'[t]) = Len(m_stack[t]) + 1
    BY <1>3, <2>1, AppendFacts
  <2>3. \A u \in Threads \ {t} : m_stack'[u] = m_stack[u]
    BY <1>1 DEF TypeOK, CreateSpanImpl
  <2> QED
    BY <1>1, <1>4, <1>5, <2>2, <2>3 DEF DepthsEqual, n
<1> QED
  BY <1>8, <1>11, <1>12, <1>13, <1>14

(* Ending a scope on the thread that created it takes its span out of the  *)
(* token set, one entry out of the scopes and one out of the stack, also   *)
(* when the scope is not the innermost.                                    *)
LEMMA EndKeepsScopes ==
  ASSUME ScopeInv, ~aborted, NEW t \in Threads, NEW u \in Threads,
         NEW k \in DOMAIN scoped[u], NEW st \in StatusCode,
         EndScoped(t, u, k, st), ~aborted'
  PROVE  TokenIsRecording' /\ ScopesHeld' /\ ScopesDistinct' /\ TokensScoped'
         /\ DepthsEqual'
<1> DEFINE s == scoped[u][k]
           q == scoped[u]
           n == Len(scoped[u])
<1>1. /\ TypeOK /\ TokenIsRecording /\ ScopesHeld /\ ScopesDistinct
      /\ TokensScoped /\ DepthsEqual
  BY DEF ScopeInv
<1>2. q \in Seq(Spans) /\ n \in Nat /\ k \in 1 .. n /\ s \in Spans
  BY <1>1 DEF TypeOK
<1>3. s \in m_token /\ m_threadId[s] = u
  BY <1>1, <1>2 DEF ScopesHeld
<1>4. /\ t = u
      /\ status' = [status EXCEPT ![s] = st]
      /\ m_token' = m_token \ {s}
      /\ m_stack' = [m_stack EXCEPT ![u] = Pop(@)]
      /\ scoped' = [scoped EXCEPT ![u] = RemoveAt(@, k)]
      /\ m_threadId' = m_threadId
  BY <1>3 DEF EndScoped, SpanEnd, ImplEnd
<1>5. /\ scoped'[u] = RemoveAt(q, k)
      /\ \A v \in Threads \ {u} : scoped'[v] = scoped[v]
  BY <1>1, <1>4 DEF TypeOK
<1>6. /\ Len(scoped'[u]) = n - 1
      /\ \A i \in 1 .. n - 1 : scoped'[u][i] = IF i < k THEN q[i] ELSE q[i + 1]
  BY <1>2, <1>5, RemoveAtFacts
<1> DEFINE old(v, i) == IF v = u /\ i >= k THEN i + 1 ELSE i
<1>7. \A v \in Threads : \A i \in 1 .. Len(scoped'[v]) :
        /\ old(v, i) \in 1 .. Len(scoped[v])
        /\ scoped'[v][i] = scoped[v][old(v, i)]
        /\ v = u => old(v, i) # k
  <2> SUFFICES ASSUME NEW v \in Threads, NEW i \in 1 .. Len(scoped'[v])
               PROVE  /\ old(v, i) \in 1 .. Len(scoped[v])
                      /\ scoped'[v][i] = scoped[v][old(v, i)]
                      /\ v = u => old(v, i) # k
    OBVIOUS
  <2>1. CASE v = u
    <3>1. i \in 1 .. n - 1
      BY <1>6, <2>1
    <3> QED
      BY <1>2, <1>6, <2>1, <3>1
  <2>2. CASE v # u
    BY <1>5, <2>2
  <2> QED
    BY <2>1, <2>2
<1>8. TokenIsRecording'
  BY <1>1, <1>2, <1>4 DEF TypeOK, TokenIsRecording, StatusCode
<1> HIDE DEF s, q, n
<1>9. \A v \in Threads : \A i \in 1 .. Len(scoped[v]) :
        scoped[v][i] = s => v = u /\ i = k
  BY <1>1, <1>2, <1>3 DEF ScopesHeld, ScopesDistinct, s, n
<1>10. ScopesHeld'
  BY <1>1, <1>4, <1>7, <1>9 DEF ScopesHeld
<1>11. ScopesDistinct'
  <2> SUFFICES ASSUME NEW v \in Threads, NEW i \in 1 .. Len(scoped'[v]),
                      NEW j \in 1 .. Len(scoped'[v]),
                      scoped'[v][i] = scoped'[v][j]
               PROVE  i = j
    BY DEF ScopesDistinct
  <2>1. /\ old(v, i) \in 1 .. Len(scoped[v]) /\ old(v, j) \in 1 .. Len(scoped[v])
        /\ scoped[v][old(v, i)] = scoped[v][old(v, j)]
    BY <1>7
  <2> HIDE DEF old
  <2>2. old(v, i) = old(v, j)
    BY <1>1, <2>1 DEF ScopesDistinct
  <2> QED
    BY <1>2, <2>2 DEF old
<1>12. TokensScoped'
  <2> SUFFICES ASSUME NEW x \in m_token, x # s
               PROVE  \E v \in Threads : \E i \in 1 .. Len(scoped'[v]) :
                        scoped'[v][i] = x
    BY <1>4 DEF TokensScoped
  <2>1. PICK v \in Threads : \E i \in 1 .. Len(scoped[v]) : scoped[v][i] = x
    BY <1>1 DEF TokensScoped
  <2>2. PICK i \in 1 .. Len(scoped[v]) : scoped[v][i] = x
    BY <2>1
  <2>3. CASE v # u
    BY <1>5, <2>2, <2>3
  <2>4. CASE v = u
    <3>1. i \in 1 .. n /\ q[i] = x /\ i # k
      BY <2>2, <2>4 DEF n, q, s
    <3>2. CASE i < k
      BY <1>2, <1>6, <2>4, <3>1, <3>2
    <3>3. CASE i > k
      <4>1. i - 1 \in 1 .. n - 1 /\ ~(i - 1 < k) /\ (i - 1) + 1 = i
        BY <1>2, <3>1, <3>3
      <4>2. scoped'[u][i - 1] = x
        BY <1>6, <3>1, <4>1
      <4> QED
        BY <1>6, <2>4, <4>1, <4>2
    <3> QED
      BY <1>2, <3>1, <3>2, <3>3
  <2> QED
    BY <2>3, <2>4
<1>13. DepthsEqual'
  <2>1. m_stack[u] \in Seq(Spans) /\ Len(m_stack[u]) = n
    BY <1>1 DEF TypeOK, DepthsEqual, n
  <2>2. n - 1 \in Nat /\ n - 1 <= Len(m_stack[u])
    BY <1>2, <2>1
  <2>3. Len(Pop(m_stack[u])) = n - 1
    BY <2>1, <2>2, PrefixFacts DEF Pop
  <2>4. /\ m_stack'[u] = Pop(m_stack[u])
        /\ \A v \in Threads \ {u} : m_stack'[v] = m_stack[v]
    BY <1>1, <1>4 DEF TypeOK
  <2> QED
    BY <1>1, <1>5, <1>6, <2>3, <2>4 DEF DepthsEqual
<1> QED
  BY <1>8, <1>10, <1>11, <1>12, <1>13

(* The invariant holds at the start.                                       *)
LEMMA ScopeInit == Init => ScopeInv
<1> SUFFICES ASSUME Init
             PROVE  ScopeInv
  OBVIOUS
<1>1. TypeOK
  BY TypeInit
<1>2. TokenIsRecording /\ TokensScoped
  BY DEF Init, TokenIsRecording, TokensScoped
<1>3. \A t \in Threads : scoped[t] = <<>> /\ m_stack[t] = <<>>
  BY DEF Init
<1>4. ScopesHeld /\ ScopesDistinct /\ DepthsEqual
  BY <1>3 DEF ScopesHeld, ScopesDistinct, DepthsEqual
<1> QED
  BY <1>1, <1>2, <1>4 DEF ScopeInv

(* The invariant is preserved by every step.                               *)
LEMMA ScopeStep == ScopeInv /\ [Next]_vars => ScopeInv'
<1> SUFFICES ASSUME ScopeInv, [Next]_vars
             PROVE  ScopeInv'
  OBVIOUS
<1>1. TypeOK'
  BY TypeStep DEF ScopeInv
<1>2. CASE UNCHANGED <<m_stack, scoped, m_token, m_threadId, status, aborted>>
  BY <1>1, <1>2 DEF ScopeInv, TokenIsRecording, ScopesHeld, ScopesDistinct,
                    TokensScoped, DepthsEqual
<1>3. ASSUME NEW t \in Threads, NEW s \in Spans, CreateSpan(t, s)
      PROVE  ScopeInv'
  BY <1>1, <1>3, CreateKeepsScopes DEF CreateSpan, ScopeInv
<1>4. ASSUME NEW t \in Threads, NEW s \in Spans, NEW p \in Started \cup Remote,
             CreateChildSpanOfRemoteTrace(t, s, p)
      PROVE  ScopeInv'
  BY <1>1, <1>4, CreateKeepsScopes DEF CreateChildSpanOfRemoteTrace, ScopeInv
<1>5. ASSUME NEW t \in Threads, GetActiveSpan(t)
      PROVE  ScopeInv'
  BY <1>2, <1>5 DEF GetActiveSpan
<1>6. ASSUME NEW t \in Threads, NEW s \in Spans, NEW st \in StatusCode,
             EndBorrowed(t, s, st)
      PROVE  ScopeInv'
  BY <1>2, <1>6 DEF EndBorrowed, SpanEnd
<1>7. ASSUME NEW s \in Spans, Annotate(s)
      PROVE  ScopeInv'
  BY <1>2, <1>7 DEF Annotate
<1>8. ASSUME NEW t \in Threads, NEW u \in Threads, NEW k \in DOMAIN scoped[u],
             NEW st \in StatusCode, EndScoped(t, u, k, st)
      PROVE  ScopeInv'
  <2>1. ~aborted
    BY <1>8 DEF EndScoped
  <2>2. CASE aborted'
    BY <1>1, <2>2 DEF ScopeInv
  <2>3. CASE ~aborted'
    BY <1>1, <1>8, <2>1, <2>3, EndKeepsScopes DEF ScopeInv
  <2> QED
    BY <2>2, <2>3
<1>9. CASE UNCHANGED vars
  BY <1>2, <1>9 DEF vars
<1> QED
  BY <1>3, <1>4, <1>5, <1>6, <1>7, <1>8, <1>9 DEF Next, Common

(* ScopeInv holds in every reachable state.                                *)
THEOREM ScopeInvariant == Spec => []ScopeInv
  BY ScopeInit, ScopeStep, PTL DEF Spec

(* Whatever the order and the thread of the calls to Span::End, a thread's *)
(* stack has one entry per open scope, so Stack::Pop never meets an empty  *)
(* vector.                                                                 *)
THEOREM StackDepthHolds == Spec => []StackDepth
<1>1. ScopeInv => StackDepth
  BY DEF ScopeInv, DepthsEqual, StackDepth
<1> QED
  BY <1>1, ScopeInvariant, PTL

(* A token is held exactly while a scoped Span of the owning thread refers *)
(* to a recording span.                                                    *)
THEOREM ScopeOwnershipHolds == Spec => []ScopeOwnership
<1>1. ASSUME ScopeInv, ~aborted
      PROVE  /\ m_token = UNION {ToSet(scoped[t]) : t \in Threads}
             /\ m_token = {s \in Spans : IsRecording(s)}
             /\ \A t \in Threads : \A s \in ToSet(scoped[t]) : m_threadId[s] = t
  <2>1. /\ TypeOK /\ TokenIsRecording /\ ScopesHeld /\ TokensScoped
    BY <1>1 DEF ScopeInv
  <2>2. \A t \in Threads : DOMAIN scoped[t] = 1 .. Len(scoped[t])
    BY <2>1 DEF TypeOK
  <2>3. \A t \in Threads : \A s :
          s \in ToSet(scoped[t]) <=> \E i \in 1 .. Len(scoped[t]) : scoped[t][i] = s
    BY <2>2 DEF ToSet
  <2>4. m_token = UNION {ToSet(scoped[t]) : t \in Threads}
    <3>1. ASSUME NEW s \in m_token
          PROVE  \E t \in Threads : s \in ToSet(scoped[t])
      BY <2>1, <2>3 DEF TokensScoped
    <3>2. ASSUME NEW t \in Threads, NEW s \in ToSet(scoped[t])
          PROVE  s \in m_token
      BY <2>1, <2>3 DEF ScopesHeld
    <3> QED
      BY <3>1, <3>2
  <2>5. m_token = {s \in Spans : IsRecording(s)}
    BY <2>1 DEF TypeOK, TokenIsRecording, IsRecording
  <2>6. \A t \in Threads : \A s \in ToSet(scoped[t]) : m_threadId[s] = t
    BY <2>1, <2>3 DEF ScopesHeld
  <2> QED
    BY <2>4, <2>5, <2>6
<1>2. ScopeInv => ScopeOwnership
  BY <1>1 DEF ScopeOwnership
<1> QED
  BY <1>2, ScopeInvariant, PTL

-----------------------------------------------------------------------------
(* Action properties.                                                      *)

(* A thread's stack gets shorter only when a scope of that very thread     *)
(* ends: SpanImpl::End's thread check and Span::End's m_isScoped test.     *)
THEOREM PoppedByOwnerOnlyHolds == Spec => PoppedByOwnerOnly
<1> DEFINE Popped ==
      \A t \in Threads :
        Len(m_stack'[t]) < Len(m_stack[t]) =>
          \E s \in ToSet(scoped[t]) :
            /\ m_threadId[s] = t
            /\ IsRecording(s) /\ status'[s] \in StatusCode
<1>1. ASSUME ScopeInv, Next
      PROVE  Popped
  <2>1. TypeOK /\ (~aborted => TokenIsRecording /\ ScopesHeld)
    BY <1>1 DEF ScopeInv
  <2>2. \A t \in Threads : m_stack[t] \in Seq(Spans) /\ Len(m_stack[t]) \in Nat
    BY <2>1 DEF TypeOK
  <2>3. CASE m_stack' = m_stack
    BY <2>2, <2>3
  <2>4. ASSUME NEW t \in Threads, NEW s \in Spans,
               m_stack' = [m_stack EXCEPT ![t] = Push(@, s)]
        PROVE  Popped
    <3>1. m_stack[t] \in Seq(Spans) /\ m_stack'[t] = Append(m_stack[t], s)
      BY <2>1, <2>2, <2>4 DEF TypeOK, Push
    <3>2. Len(m_stack'[t]) = Len(m_stack[t]) + 1
      BY <3>1, AppendFacts
    <3>3. \A v \in Threads \ {t} : m_stack'[v] = m_stack[v]
      BY <2>1, <2>4 DEF TypeOK
    <3>4. \A v \in Threads : ~(Len(m_stack'[v]) < Len(m_stack[v]))
      BY <2>2, <3>2, <3>3
    <3> QED
      BY <3>4
  <2>5. ASSUME NEW t \in Threads, NEW u \in Threads, NEW k \in DOMAIN scoped[u],
               NEW st \in StatusCode, EndScoped(t, u, k, st), m_stack' # m_stack
        PROVE  Popped
    <3> DEFINE s == scoped[u][k]
    <3>1. ~aborted /\ ImplEnd(t, s, st)
      BY <2>5 DEF EndScoped, SpanEnd
    <3>2. k \in 1 .. Len(scoped[u]) /\ s \in ToSet(scoped[u]) /\ s \in Spans
      BY <2>1 DEF TypeOK, ToSet
    <3>3. m_threadId[s] = u /\ IsRecording(s)
      BY <2>1, <3>1, <3>2 DEF ScopesHeld, TokenIsRecording, IsRecording
    <3>4. /\ t = u /\ status' = [status EXCEPT ![s] = st]
          /\ m_stack' = [m_stack EXCEPT ![t] = Pop(@)]
      BY <2>5, <3>1, <3>3 DEF ImplEnd
    <3>5. status'[s] \in StatusCode
      BY <2>1, <3>2, <3>4 DEF TypeOK
    <3>6. \A v \in Threads \ {u} : m_stack'[v] = m_stack[v]
      BY <2>1, <3>4 DEF TypeOK
    <3> HIDE DEF s
    <3> QED
      BY <2>2, <3>2, <3>3, <3>5, <3>6
  <2> HIDE DEF Popped
  <2>6. ASSUME NEW t \in Threads, NEW s \in Spans,
               CreateSpan(t, s) \/ \E p \in Started \cup Remote :
                                     CreateChildSpanOfRemoteTrace(t, s, p)
        PROVE  Popped
    BY <2>4, <2>6 DEF CreateSpan, CreateChildSpanOfRemoteTrace, CreateSpanImpl
  <2>7. ASSUME \/ \E t \in Threads : GetActiveSpan(t)
               \/ \E s \in Spans : Annotate(s)
               \/ \E t \in Threads, s \in Spans, st \in StatusCode :
                    EndBorrowed(t, s, st)
        PROVE  Popped
    BY <2>3, <2>7 DEF GetActiveSpan, Annotate, EndBorrowed, SpanEnd
  <2> QED
    BY <1>1, <2>3, <2>5, <2>6, <2>7 DEF Next, Common
<1>2. ScopeInv /\ [Next]_vars => [Popped]_vars
  BY <1>1
<1>3. Spec => [][Popped]_vars
  BY <1>2, ScopeInvariant, PTL DEF Spec
<1> QED
  BY <1>3 DEF PoppedByOwnerOnly

(* Nothing changes a span after its end.                                   *)
THEOREM EndedIsFinalHolds == Spec => EndedIsFinal
<1> DEFINE Final ==
      \A s \in Spans :
        status[s] \in StatusCode =>
          /\ status'[s] = status[s]
          /\ events'[s] = events[s]
          /\ parent'[s] = parent[s] /\ trace'[s] = trace[s]
<1>1. ASSUME ScopeInv, Next
      PROVE  Final
  <2>1. TypeOK /\ (~aborted => TokenIsRecording /\ ScopesHeld)
    BY <1>1 DEF ScopeInv
  <2>2. ASSUME NEW t \in Threads, NEW s \in Spans, NEW p,
               CreateSpanImpl(t, s, p)
        PROVE  Final
    BY <2>1, <2>2 DEF TypeOK, CreateSpanImpl, StatusCode
  <2>3. ASSUME NEW t \in Threads, NEW u \in Threads, NEW k \in DOMAIN scoped[u],
               NEW st \in StatusCode, EndScoped(t, u, k, st)
        PROVE  Final
    <3> DEFINE s == scoped[u][k]
    <3>1. ~aborted /\ ImplEnd(t, s, st) /\ UNCHANGED <<events, parent, trace>>
      BY <2>3 DEF EndScoped, SpanEnd
    <3>2. k \in 1 .. Len(scoped[u]) /\ s \in Spans
      BY <2>1 DEF TypeOK
    <3>3. status[s] = "recording"
      BY <2>1, <3>1, <3>2 DEF ScopesHeld, TokenIsRecording
    <3>4. \A x \in Spans \ {s} : status'[x] = status[x]
      BY <2>1, <3>1 DEF TypeOK, ImplEnd
    <3> HIDE DEF s
    <3> QED
      BY <3>1, <3>3, <3>4 DEF StatusCode
  <2>4. ASSUME NEW s \in Spans, Annotate(s)
        PROVE  Final
    BY <2>1, <2>4 DEF TypeOK, Annotate, IsRecording, StatusCode
  <2>5. CASE UNCHANGED <<status, events, parent, trace>>
    BY <2>5
  <2> HIDE DEF Final
  <2>6. ASSUME NEW t \in Threads, NEW s \in Spans,
               CreateSpan(t, s) \/ \E p \in Started \cup Remote :
                                     CreateChildSpanOfRemoteTrace(t, s, p)
        PROVE  Final
    BY <2>2, <2>6 DEF CreateSpan, CreateChildSpanOfRemoteTrace
  <2>7. ASSUME \/ \E t \in Threads : GetActiveSpan(t)
               \/ \E t \in Threads, s \in Spans, st \in StatusCode :
                    EndBorrowed(t, s, st)
        PROVE  Final
    BY <2>5, <2>7 DEF GetActiveSpan, EndBorrowed, SpanEnd
  <2> QED
    BY <1>1, <2>3, <2>4, <2>6, <2>7 DEF Next, Common
<1>2. ScopeInv /\ [Next]_vars => [Final]_vars
  BY <1>1
<1>3. Spec => [][Final]_vars
  BY <1>2, ScopeInvariant, PTL DEF Spec
<1> QED
  BY <1>3 DEF EndedIsFinal
=============================================================================
