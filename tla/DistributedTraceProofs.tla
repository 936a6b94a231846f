------------------------- MODULE DistributedTraceProofs -----------------------
(***************************************************************************)
(* Client and server together, for every number of requests and of threads *)
(* on either side, every order of cancels, resets and of a stop, every     *)
(* width of the ids and every command: a successful request is one         *)
(* distributed trace, a failure has its cause outside the two programs,    *)
(* and the composition implements the client over an arbitrary network.    *)
(***************************************************************************)
EXTENDS DistributedTrace, AsyncTCPClientProofs, TraceInfoProofs,
        SequenceTheorems, FiniteSetTheorems

(* The request, character by character, as far as the server looks at it.  *)
LEMMA RequestText ==
    ASSUME NEW s \in Seq(Char)
    PROVE  /\ Request(s) \in Seq(Char)
           /\ Len(Request(s)) = ContextStart + Len(s) + 2
           /\ \A i \in 1 .. Len(s) : Request(s)[ContextStart + i] = s[i]
           /\ \A i \in 1 .. ContextStart :
                i \in {Len(Cmd) + 1, ContextStart} <=> Request(s)[i] = Dash
           /\ Request(s)[ContextStart + Len(s) + 1] = Dash
           /\ Request(s)[Len(Request(s))] # Dash
<1> DEFINE a == Cmd \o <<Dash>>
           b == a \o Duration
           c == b \o <<Dash>>
           d == c \o s
<1>1. /\ Cmd \in Seq(Char) /\ Duration \in Seq(Char)
      /\ <<Dash>> \in Seq(Char) /\ <<Dash, Newline>> \in Seq(Char)
      /\ Newline # Dash
      /\ \A i \in 1 .. Len(Cmd) : Cmd[i] # Dash
      /\ \A i \in 1 .. Len(Duration) : Duration[i] # Dash
      /\ Len(Cmd) \in Nat /\ Len(Duration) \in Nat /\ Len(s) \in Nat
  <2>1. Cmd \in Seq(Char \ {Dash, Newline}) /\ Duration \in Seq(Char \ {Dash, Newline})
    BY DistributedTraceAssumption
  <2>2. Cmd \in Seq(Char) /\ Duration \in Seq(Char)
    BY <2>1, SeqMonotonic
  <2>3. /\ \A i \in 1 .. Len(Cmd) : Cmd[i] # Dash
        /\ \A i \in 1 .. Len(Duration) : Duration[i] # Dash
    BY <2>1, ElementOfSeq
  <2>4. Dash \in Char /\ Newline \in Char /\ Newline # Dash
    BY TraceInfoAssumption, TraceServerAssumption
  <2>5. <<Dash>> \in Seq(Char) /\ <<Dash, Newline>> \in Seq(Char)
    BY <2>4
  <2> QED
    BY <2>2, <2>3, <2>4, <2>5
<1>2. /\ a \in Seq(Char) /\ Len(a) = Len(Cmd) + 1
      /\ \A i \in 1 .. Len(Cmd) : a[i] # Dash
      /\ a[Len(Cmd) + 1] = Dash
  BY <1>1, ConcatProperties
<1>3. /\ b \in Seq(Char) /\ Len(b) = Len(Cmd) + 1 + Len(Duration)
      /\ \A i \in 1 .. Len(b) : i # Len(Cmd) + 1 => b[i] # Dash
      /\ b[Len(Cmd) + 1] = Dash
  <2>1. /\ b \in Seq(Char) /\ Len(b) = Len(a) + Len(Duration)
        /\ \A i \in 1 .. Len(a) + Len(Duration) :
             b[i] = IF i <= Len(a) THEN a[i] ELSE Duration[i - Len(a)]
    BY <1>1, <1>2, ConcatProperties
  <2>2. ASSUME NEW i \in 1 .. Len(b), i # Len(Cmd) + 1
        PROVE  b[i] # Dash
    <3>1. CASE i <= Len(a)
      BY <1>1, <1>2, <2>1, <2>2, <3>1
    <3>2. CASE i > Len(a)
      <4>1. i - Len(a) \in 1 .. Len(Duration)
        BY <1>1, <1>2, <2>1, <3>2
      <4> QED
        BY <1>1, <1>2, <2>1, <3>2, <4>1
    <3> QED
      BY <1>1, <1>2, <3>1, <3>2
  <2> QED
    BY <1>1, <1>2, <2>1, <2>2
<1>4. /\ c \in Seq(Char) /\ Len(c) = ContextStart
      /\ \A i \in 1 .. ContextStart :
           i \in {Len(Cmd) + 1, ContextStart} <=> c[i] = Dash
  <2>1. /\ c \in Seq(Char) /\ Len(c) = Len(b) + 1
        /\ \A i \in 1 .. Len(b) + 1 :
             c[i] = IF i <= Len(b) THEN b[i] ELSE <<Dash>>[i - Len(b)]
    BY <1>1, <1>3, ConcatProperties
  <2>2. Len(c) = ContextStart
    BY <1>1, <1>3, <2>1, DistributedTraceAssumption
  <2>3. Len(b) \in Nat /\ ContextStart = Len(b) + 1
    BY <1>1, <1>3, <2>1, <2>2
  <2>4. c[ContextStart] = Dash
    <3>1. ContextStart - Len(b) = 1 /\ ~(ContextStart <= Len(b))
      BY <2>3
    <3>2. c[ContextStart] = <<Dash>>[1]
      BY <2>1, <2>3, <3>1
    <3> QED
      BY <3>2
  <2>5. \A i \in 1 .. ContextStart : i # ContextStart => c[i] = b[i] /\ i \in 1 .. Len(b)
    BY <2>1, <2>3
  <2> HIDE DEF b, c
  <2> QED
    BY <1>1, <1>3, <2>1, <2>2, <2>3, <2>4, <2>5
<1>5. /\ d \in Seq(Char) /\ Len(d) = ContextStart + Len(s)
      /\ \A i \in 1 .. ContextStart : d[i] = c[i]
      /\ \A i \in 1 .. Len(s) : d[ContextStart + i] = s[i]
  <2>1. /\ d \in Seq(Char) /\ Len(d) = Len(c) + Len(s)
        /\ \A i \in 1 .. Len(c) + Len(s) :
             d[i] = IF i <= Len(c) THEN c[i] ELSE s[i - Len(c)]
    BY <1>4, ConcatProperties
  <2>2. ContextStart \in Nat
    BY TraceServerAssumption
  <2> HIDE DEF c, d
  <2> QED
    BY <1>1, <1>4, <2>1, <2>2
<1>6. /\ Request(s) \in Seq(Char) /\ Len(Request(s)) = Len(d) + 2
      /\ \A i \in 1 .. Len(d) + 2 :
           Request(s)[i] = IF i <= Len(d) THEN d[i]
                                          ELSE <<Dash, Newline>>[i - Len(d)]
  <2>1. Request(s) = d \o <<Dash, Newline>>
    BY DEF Request
  <2>2. Len(<<Dash, Newline>>) = 2
    OBVIOUS
  <2> QED
    BY <1>1, <1>5, <2>1, <2>2, ConcatProperties
<1>7. ContextStart \in Nat
  BY TraceServerAssumption
<1> HIDE DEF a, b, c, d
<1>8. /\ Request(s)[Len(Request(s))] = Newline
      /\ Request(s)[ContextStart + Len(s) + 1] = Dash
  <2>1. Len(d) \in Nat /\ Len(Request(s)) = Len(d) + 2
    BY <1>1, <1>5, <1>6, <1>7
  <2>2. /\ Request(s)[Len(d) + 1] = <<Dash, Newline>>[(Len(d) + 1) - Len(d)]
        /\ Request(s)[Len(d) + 2] = <<Dash, Newline>>[(Len(d) + 2) - Len(d)]
    BY <1>6, <2>1
  <2>3. (Len(d) + 1) - Len(d) = 1 /\ (Len(d) + 2) - Len(d) = 2
    BY <2>1
  <2> QED
    BY <1>5, <2>1, <2>2, <2>3
<1>9. Len(d) \in Nat /\ Len(d) >= ContextStart
  BY <1>1, <1>5, <1>7
<1>10. \A i \in 1 .. Len(s) : Request(s)[ContextStart + i] = s[i]
  <2> SUFFICES ASSUME NEW i \in 1 .. Len(s)
               PROVE  Request(s)[ContextStart + i] = s[i]
    OBVIOUS
  <2>1. ContextStart + i \in 1 .. Len(d)
    BY <1>1, <1>5, <1>7
  <2>2. Request(s)[ContextStart + i] = d[ContextStart + i]
    BY <1>6, <1>9, <2>1
  <2> QED
    BY <1>5, <2>2
<1>11. \A i \in 1 .. ContextStart : Request(s)[i] = c[i]
  BY <1>5, <1>6, <1>7, <1>9
<1>12. Len(Request(s)) = ContextStart + Len(s) + 2
  BY <1>1, <1>5, <1>6, <1>7
<1> QED
  BY <1>1, <1>4, <1>6, <1>8, <1>10, <1>11, <1>12

(* context_ser of the server is context_ser of the client.                 *)
LEMMA ContextCut ==
    ASSUME NEW s \in Seq(Char)
    PROVE  ContextSer(Request(s)) = s
<1> DEFINE buf == Request(s)
           lo == ContextStart + 1
           hi == Len(buf) - 2
<1>1. /\ ContextStart \in Nat /\ Len(s) \in Nat
      /\ hi = ContextStart + Len(s)
      /\ buf \in Seq(Char) /\ Len(buf) = ContextStart + Len(s) + 2
      /\ \A i \in 1 .. Len(s) : buf[ContextStart + i] = s[i]
  BY RequestText, TraceServerAssumption
<1> HIDE DEF buf
<1>2. \A i \in lo .. hi : buf[i] \in Char
  BY <1>1, ElementOfSeq
<1>3. lo \in Int /\ hi \in Int
  BY <1>1
<1>4. /\ SubSeq(buf, lo, hi) \in Seq(Char)
      /\ Len(SubSeq(buf, lo, hi)) = IF lo <= hi THEN hi - lo + 1 ELSE 0
      /\ \A i \in 1 .. hi - lo + 1 : SubSeq(buf, lo, hi)[i] = buf[lo + i - 1]
  BY <1>2, <1>3, SubSeqProperties
<1>5. Len(SubSeq(buf, lo, hi)) = Len(s)
  BY <1>1, <1>4
<1>6. \A i \in 1 .. Len(s) : SubSeq(buf, lo, hi)[i] = s[i]
  BY <1>1, <1>4
<1>7. SubSeq(buf, lo, hi) = s
  BY <1>4, <1>5, <1>6, SeqEqual
<1> QED
  BY <1>7 DEF ContextSer, buf

(* An element adds at most one to the size of a finite set.                *)
LEMMA OneMore ==
    ASSUME NEW S, NEW x, IsFiniteSet(S), NEW n \in Nat, Cardinality(S) <= n
    PROVE  IsFiniteSet(S \cup {x}) /\ Cardinality(S \cup {x}) <= n + 1
<1>1. Cardinality(S) \in Nat
  BY FS_CardinalityType, Zenon
<1>2. /\ IsFiniteSet(S \cup {x})
      /\ Cardinality(S \cup {x}) =
           IF x \in S THEN Cardinality(S) ELSE Cardinality(S) + 1
  BY FS_AddElement, Zenon
<1> QED
  BY <1>1, <1>2

(* Without a context the request has three dashes: the server finds four   *)
(* fields and answers "invalid format".                                    *)
LEMMA EmptyContextRefused ==
    ASSUME NEW s \in Seq(Char), Len(s) = 0
    PROVE  ~FormatOK(Request(s))
<1> DEFINE buf == Request(s)
           p == Len(Cmd) + 1
           q == ContextStart
<1>2. /\ buf \in Seq(Char) /\ Len(buf) = q + 2
      /\ \A i \in 1 .. q : i \notin {p, q} => buf[i] # Dash
      /\ buf[q + 2] # Dash
      /\ q \in Nat /\ p \in Nat
  <2>1. q \in Nat
    BY TraceServerAssumption
  <2>2. Len(Cmd) \in Nat
    BY DistributedTraceAssumption
  <2>3. /\ buf \in Seq(Char) /\ Len(buf) = q + Len(s) + 2
        /\ \A i \in 1 .. q : i \notin {p, q} => buf[i] # Dash
        /\ buf[Len(buf)] # Dash
    BY RequestText
  <2> HIDE DEF buf, q
  <2>4. Len(buf) = q + 2
    BY <2>1, <2>3
  <2> QED
    BY <2>1, <2>2, <2>3, <2>4
<1> HIDE DEF buf, p, q
<1>3. Dashes(buf) \subseteq {p, q, q + 1}
  <2>1. ASSUME NEW i \in Dashes(buf)
        PROVE  i \in {p, q, q + 1}
    <3>1. i \in 1 .. q + 2 /\ buf[i] = Dash
      BY <1>2 DEF Dashes
    <3>2. i # q + 2
      BY <1>2, <3>1
    <3>3. i \in 1 .. q \/ i = q + 1
      BY <1>2, <3>1, <3>2
    <3> QED
      BY <1>2, <3>1, <3>3
  <2> QED
    BY <2>1
<1>4. IsFiniteSet({p, q, q + 1}) /\ Cardinality({p, q, q + 1}) <= 3
  <2> DEFINE one == {p}
             two == one \cup {q}
  <2>1. IsFiniteSet(one) /\ Cardinality(one) <= 1
    <3>1. IsFiniteSet({p}) /\ Cardinality({p}) = 1
      BY FS_Singleton, Zenon
    <3> QED
      BY <3>1
  <2> HIDE DEF one
  <2>2. IsFiniteSet(two) /\ Cardinality(two) <= 1 + 1
    BY <2>1, OneMore
  <2>3. IsFiniteSet(two) /\ Cardinality(two) <= 2
    BY <2>2
  <2> HIDE DEF two
  <2>4. /\ IsFiniteSet(two \cup {q + 1})
        /\ Cardinality(two \cup {q + 1}) <= 2 + 1
    BY <2>3, OneMore
  <2>5. two \cup {q + 1} = {p, q, q + 1}
    BY DEF one, two
  <2>6. 2 + 1 = 3
    OBVIOUS
  <2> QED
    BY <2>4, <2>5, <2>6
<1>5. Cardinality(Dashes(buf)) <= 3 /\ Cardinality(Dashes(buf)) \in Nat
  <2>1. /\ IsFiniteSet(Dashes(buf))
        /\ Cardinality(Dashes(buf)) <= Cardinality({p, q, q + 1})
    BY <1>3, <1>4, FS_Subset
  <2>2. Cardinality(Dashes(buf)) \in Nat /\ Cardinality({p, q, q + 1}) \in Nat
    BY <1>4, <2>1, FS_CardinalityType
  <2> QED
    BY <1>4, <2>1, <2>2
<1>6. ~(Cardinality(Dashes(buf)) >= 4)
  BY <1>5
<1> QED
  BY <1>6 DEF FormatOK, buf

(* The request the connect handler of r writes.                            *)
Sent(r) == Request(ExtractTraceInfo(WorkerContext(r)))

(* The context that a client that traces sends.                            *)
LEMMA TracedContext ==
    ASSUME NEW r \in Requests, tracing = TRUE
    PROVE  /\ WorkerContext(r) = [span_id |-> SpanIdOf[r], trace_id |-> TraceId,
                                  flags |-> Zeros(FLAGS_SIZE)]
           /\ WorkerContext(r) \in Contexts /\ IsValid(WorkerContext(r))
           /\ ExtractTraceInfo(WorkerContext(r)) = GetIds(WorkerContext(r))
<1>1. /\ SpanIdOf[r] \in SpanIds /\ SpanIdOf[r] # Zeros(SPAN_ID_SIZE)
      /\ TraceId \in TraceIds /\ TraceId # Zeros(TRACE_ID_SIZE)
  BY DistributedTraceAssumption
<1>2. WorkerContext(r) = [span_id |-> SpanIdOf[r], trace_id |-> TraceId,
                          flags |-> Zeros(FLAGS_SIZE)]
  BY DEF WorkerContext
<1>3. Zeros(FLAGS_SIZE) \in Flags
  BY TraceInfoAssumption DEF Zeros, Flags
<1>4. WorkerContext(r) \in Contexts /\ IsValid(WorkerContext(r))
  BY <1>1, <1>2, <1>3 DEF Contexts, IsValid
<1> QED
  BY <1>2, <1>4 DEF ExtractTraceInfo

(* The request of a client that traces gives the server's span the ids of  *)
(* the client's.                                                           *)
LEMMA ContextCarried ==
    ASSUME NEW r \in Requests, tracing = TRUE
    PROVE  /\ CreateChildSpan(ContextSer(Sent(r))).span_id = SpanIdOf[r]
           /\ CreateChildSpan(ContextSer(Sent(r))).trace_id = TraceId
<1> DEFINE ctx == WorkerContext(r)
<1>1. ContextSer(Sent(r)) = GetIds(ctx)
  <2>1. GetIds(ctx) \in Seq(Char)
    BY TracedContext, GetIdsText
  <2> QED
    BY <2>1, TracedContext, ContextCut DEF Sent
<1>2. /\ ExtractSpanContext(GetIds(ctx)).span_id = ctx.span_id
      /\ ExtractSpanContext(GetIds(ctx)).trace_id = ctx.trace_id
  BY TracedContext, RoundTrip
<1> QED
  BY <1>1, <1>2, TracedContext DEF CreateChildSpan

(* A client that does not trace has its request refused.                   *)
LEMMA UntracedRefused ==
    ASSUME NEW r \in Requests, tracing = FALSE
    PROVE  ~FormatOK(Sent(r))
<1>1. WorkerContext(r) = Invalid
  BY DEF WorkerContext
<1>2. ~IsValid(Invalid)
  BY DEF IsValid, Invalid
<1>3. Sent(r) = Request(<<>>)
  BY <1>1, <1>2 DEF Sent, ExtractTraceInfo
<1>4. <<>> \in Seq(Char) /\ Len(<<>>) = 0
  OBVIOUS
<1> QED
  BY <1>3, <1>4, EmptyContextRefused

(* A text with five dashes: SplitString finds each one where it is.        *)
LEMMA DashesInOrder ==
    ASSUME NEW buf, NEW a \in Nat, NEW b \in Nat, NEW c \in Nat, NEW d \in Nat,
           NEW e \in Nat, a < b, b < c, c < d, d < e,
           Dashes(buf) = {a, b, c, d, e}
    PROVE  /\ FormatOK(buf)
           /\ DashAt(buf, 2) = b /\ DashAt(buf, 3) = c /\ DashAt(buf, 4) = d
<1> DEFINE upTo(i) == {j \in Dashes(buf) : j <= i}
<1>0. /\ Cardinality({a}) = 1 /\ Cardinality({a, b}) = 2
      /\ Cardinality({a, b, c}) = 3 /\ Cardinality({a, b, c, d}) = 4
      /\ Cardinality({a, b, c, d, e}) = 5
  <2>1. IsFiniteSet({a}) /\ Cardinality({a}) = 1
    BY FS_Singleton, Zenon
  <2>2. IsFiniteSet({a, b}) /\ Cardinality({a, b}) = 2
    <3>1. {a} \cup {b} = {a, b} /\ b \notin {a}
      OBVIOUS
    <3> QED
      BY <2>1, <3>1, FS_AddElement
  <2>3. IsFiniteSet({a, b, c}) /\ Cardinality({a, b, c}) = 3
    <3>1. {a, b} \cup {c} = {a, b, c} /\ c \notin {a, b}
      OBVIOUS
    <3> QED
      BY <2>2, <3>1, FS_AddElement
  <2>4. IsFiniteSet({a, b, c, d}) /\ Cardinality({a, b, c, d}) = 4
    <3>1. {a, b, c} \cup {d} = {a, b, c, d} /\ d \notin {a, b, c}
      OBVIOUS
    <3> QED
      BY <2>3, <3>1, FS_AddElement
  <2>5. Cardinality({a, b, c, d, e}) = 5
    <3> DEFINE four == {a, b, c, d}
    <3>1. four \cup {e} = {a, b, c, d, e} /\ e \notin four
      OBVIOUS
    <3>2. IsFiniteSet(four) /\ Cardinality(four) = 4
      BY <2>4
    <3> HIDE DEF four
    <3>3. Cardinality(four \cup {e}) = 5
      BY <3>1, <3>2, FS_AddElement
    <3> QED
      BY <3>1, <3>3
  <2> QED
    BY <2>1, <2>2, <2>3, <2>4, <2>5
<1>1. /\ upTo(a) = {a} /\ upTo(b) = {a, b} /\ upTo(c) = {a, b, c}
      /\ upTo(d) = {a, b, c, d} /\ upTo(e) = {a, b, c, d, e}
  OBVIOUS
<1> HIDE DEF upTo
<1>2. /\ Cardinality(upTo(a)) = 1 /\ Cardinality(upTo(b)) = 2
      /\ Cardinality(upTo(c)) = 3 /\ Cardinality(upTo(d)) = 4
      /\ Cardinality(upTo(e)) = 5
  BY <1>0, <1>1
<1>3. FormatOK(buf)
  <2>1. Cardinality(Dashes(buf)) = 5
    BY <1>0
  <2> QED
    BY <2>1 DEF FormatOK
<1>4. ASSUME NEW i \in Dashes(buf)
      PROVE  /\ Cardinality(upTo(i)) = 2 <=> i = b
             /\ Cardinality(upTo(i)) = 3 <=> i = c
             /\ Cardinality(upTo(i)) = 4 <=> i = d
  BY <1>2
<1>5. /\ DashAt(buf, 2) = CHOOSE i \in Dashes(buf) : Cardinality(upTo(i)) = 2
      /\ DashAt(buf, 3) = CHOOSE i \in Dashes(buf) : Cardinality(upTo(i)) = 3
      /\ DashAt(buf, 4) = CHOOSE i \in Dashes(buf) : Cardinality(upTo(i)) = 4
  BY Zenon DEF DashAt, upTo
<1> QED
  BY <1>3, <1>4, <1>5

(* The dashes of a request that carries a context, and the two fields that *)
(* ProcessRequest tests: the server answers it with a line.                *)
LEMMA ContextAccepted ==
    ASSUME NEW ctx \in Contexts
    PROVE  Answer(Request(GetIds(ctx))) = "line"
<1> DEFINE s == GetIds(ctx)
           buf == Request(s)
           p == Len(Cmd) + 1
           q == ContextStart
<1>1. /\ p \in Nat /\ p > 0 /\ q \in Nat /\ p < q
      /\ SPAN_ID_OFFSET \in Nat /\ TRACE_ID_OFFSET \in Nat /\ TRACE_INFO_SIZE \in Nat
      /\ 0 < SPAN_ID_OFFSET /\ SPAN_ID_OFFSET < TRACE_ID_OFFSET
      /\ TRACE_ID_OFFSET < TRACE_INFO_SIZE
  <2>1. Len(Cmd) \in Nat /\ Len(Duration) \in Nat
    BY DistributedTraceAssumption
  <2>2. p \in Nat /\ p > 0 /\ q \in Nat /\ p < q
    <3>1. q = Len(Cmd) + 1 + Len(Duration) + 1
      BY DistributedTraceAssumption
    <3> QED
      BY <2>1, <3>1
  <2>3. /\ SPAN_ID_OFFSET \in Nat /\ TRACE_ID_OFFSET \in Nat
        /\ TRACE_INFO_SIZE \in Nat
        /\ 0 < SPAN_ID_OFFSET /\ SPAN_ID_OFFSET < TRACE_ID_OFFSET
        /\ TRACE_ID_OFFSET < TRACE_INFO_SIZE
    BY TraceInfoAssumption DEF SPAN_ID_OFFSET, TRACE_ID_OFFSET, TRACE_INFO_SIZE
  <2> QED
    BY <2>2, <2>3
<1>2. s \in Seq(Char) /\ Len(s) = TRACE_INFO_SIZE
  BY GetIdsText
<1>3. /\ buf \in Seq(Char) /\ Len(buf) = q + TRACE_INFO_SIZE + 2
      /\ \A i \in 1 .. TRACE_INFO_SIZE : buf[q + i] = s[i]
      /\ \A i \in 1 .. q : i \in {p, q} <=> buf[i] = Dash
      /\ buf[q + TRACE_INFO_SIZE + 1] = Dash
      /\ buf[q + TRACE_INFO_SIZE + 2] # Dash
  BY <1>2, RequestText
<1>4. /\ Dash \notin DOMAIN FromHex
      /\ \A i \in 1 .. TRACE_INFO_SIZE :
           IF i \in {SPAN_ID_OFFSET, TRACE_ID_OFFSET} THEN s[i] = Dash
                                                      ELSE s[i] \in DOMAIN FromHex
  BY GetIdsChars, TraceInfoAssumption
<1> HIDE DEF s, buf, p, q
<1> DEFINE c == q + SPAN_ID_OFFSET
           d == q + TRACE_ID_OFFSET
           e == q + TRACE_INFO_SIZE + 1
<1>5. Dashes(buf) = {p, q, c, d, e}
  <2>1. DOMAIN buf = 1 .. q + TRACE_INFO_SIZE + 2
    BY <1>3
  <2>2. ASSUME NEW i \in 1 .. q + TRACE_INFO_SIZE + 2
        PROVE  buf[i] = Dash <=> i \in {p, q, c, d, e}
    <3>1. CASE i \in 1 .. q
      BY <1>1, <1>3, <3>1
    <3>2. CASE i \in q + 1 .. q + TRACE_INFO_SIZE
      <4>1. i - q \in 1 .. TRACE_INFO_SIZE /\ i = q + (i - q)
        BY <1>1, <3>2
      <4>2. buf[i] = s[i - q]
        BY <1>3, <4>1
      <4>3. s[i - q] = Dash <=> i - q \in {SPAN_ID_OFFSET, TRACE_ID_OFFSET}
        BY <1>4, <4>1
      <4> QED
        BY <1>1, <3>2, <4>1, <4>2, <4>3
    <3>3. CASE i \in {q + TRACE_INFO_SIZE + 1, q + TRACE_INFO_SIZE + 2}
      BY <1>1, <1>3, <3>3
    <3> QED
      BY <1>1, <3>1, <3>2, <3>3
  <2>3. {p, q, c, d, e} \subseteq 1 .. q + TRACE_INFO_SIZE + 2
    BY <1>1
  <2> QED
    BY <2>1, <2>2, <2>3 DEF Dashes
<1>6. /\ FormatOK(buf)
      /\ DashAt(buf, 2) = q /\ DashAt(buf, 3) = c /\ DashAt(buf, 4) = d
  BY <1>1, <1>5, DashesInOrder
<1>7. ASSUME NEW lo \in Nat, NEW hi \in Nat, lo <= hi, hi <= TRACE_INFO_SIZE + 1,
             \A i \in lo + 1 .. hi - 1 : i \notin {SPAN_ID_OFFSET, TRACE_ID_OFFSET}
      PROVE  IsValidHex(SubSeq(buf, (q + lo) + 1, (q + hi) - 1))
  <2> DEFINE f == SubSeq(buf, (q + lo) + 1, (q + hi) - 1)
  <2>1. \A i \in (q + lo) + 1 .. (q + hi) - 1 : buf[i] \in DOMAIN FromHex
    <3> SUFFICES ASSUME NEW i \in (q + lo) + 1 .. (q + hi) - 1
                 PROVE  buf[i] \in DOMAIN FromHex
      OBVIOUS
    <3>1. i - q \in lo + 1 .. hi - 1 /\ i = q + (i - q)
      BY <1>1
    <3>2. i - q \in 1 .. TRACE_INFO_SIZE
      BY <1>1, <1>7, <3>1
    <3> QED
      BY <1>3, <1>4, <1>7, <3>1, <3>2
  <2>2. f \in Seq(DOMAIN FromHex)
    BY <1>1, <2>1, SubSeqProperties
  <2> HIDE DEF f
  <2>3. IsValidHex(f)
    BY <2>2 DEF IsValidHex
  <2> QED
    BY <2>3 DEF f
<1>8. IsValidHex(SplitField(buf, 2))
  <2>1. SplitField(buf, 2) = SubSeq(buf, (q + 0) + 1, (q + SPAN_ID_OFFSET) - 1)
    BY <1>1, <1>6 DEF SplitField
  <2>2. /\ 0 <= SPAN_ID_OFFSET /\ SPAN_ID_OFFSET <= TRACE_INFO_SIZE + 1
        /\ \A i \in 0 + 1 .. SPAN_ID_OFFSET - 1 :
             i \notin {SPAN_ID_OFFSET, TRACE_ID_OFFSET}
    BY <1>1
  <2>3. IsValidHex(SubSeq(buf, (q + 0) + 1, (q + SPAN_ID_OFFSET) - 1))
    BY <1>1, <1>7, <2>2
  <2> QED
    BY <2>1, <2>3
<1>9. IsValidHex(SplitField(buf, 3))
  <2>1. SplitField(buf, 3) =
          SubSeq(buf, (q + SPAN_ID_OFFSET) + 1, (q + TRACE_ID_OFFSET) - 1)
    <3>1. 3 + 1 = 4
      OBVIOUS
    <3> QED
      BY <1>6, <3>1, Zenon DEF SplitField
  <2>2. /\ SPAN_ID_OFFSET <= TRACE_ID_OFFSET
        /\ TRACE_ID_OFFSET <= TRACE_INFO_SIZE + 1
        /\ \A i \in SPAN_ID_OFFSET + 1 .. TRACE_ID_OFFSET - 1 :
             i \notin {SPAN_ID_OFFSET, TRACE_ID_OFFSET}
    BY <1>1
  <2>3. IsValidHex(SubSeq(buf, (q + SPAN_ID_OFFSET) + 1, (q + TRACE_ID_OFFSET) - 1))
    BY <1>1, <1>7, <2>2
  <2> QED
    BY <2>1, <2>3
<1> QED
  BY <1>6, <1>8, <1>9 DEF Answer, HexOK, s, buf

(* The request of a client that traces is answered with a line.            *)
LEMMA TracedAccepted ==
    ASSUME NEW r \in Requests, tracing = TRUE
    PROVE  Answer(Sent(r)) = "line"
BY TracedContext, ContextAccepted DEF Sent

(* A request is a text, never an empty one, and so is the context in it.   *)
LEMMA SentText ==
    ASSUME NEW r \in Requests, tracing \in BOOLEAN
    PROVE  /\ Sent(r) \in Seq(Char) /\ Sent(r) # <<>>
           /\ ContextSer(Sent(r)) \in Seq(Char)
<1> DEFINE s == ExtractTraceInfo(WorkerContext(r))
<1>1. s \in Seq(Char)
  <2>1. CASE tracing = TRUE
    BY <2>1, TracedContext, GetIdsText
  <2>2. CASE tracing = FALSE
    BY <2>2 DEF WorkerContext, ExtractTraceInfo, IsValid, Invalid
  <2> QED
    BY <2>1, <2>2
<1> HIDE DEF s
<1>2. /\ Request(s) \in Seq(Char) /\ Len(Request(s)) = ContextStart + Len(s) + 2
      /\ ContextStart \in Nat /\ Len(s) \in Nat
  BY <1>1, RequestText, TraceServerAssumption
<1>3. Request(s) # <<>>
  <2>1. Len(Request(s)) # 0
    BY <1>2
  <2> QED
    BY <2>1
<1>4. ContextSer(Request(s)) \in Seq(Char)
  BY <1>1, ContextCut
<1> QED
  BY <1>2, <1>3, <1>4 DEF Sent, s

-----------------------------------------------------------------------------
(* The server has taken the request of r for well formed and has processed *)
(* it under a child of the span whose context it carries.                  *)
Carried(r) ==
    /\ FormatOK(Sent(r))
    /\ span[r] = CreateChildSpan(ContextSer(Sent(r)))

CarriedType ==
    /\ tracing \in BOOLEAN
    /\ stage \in [Requests -> {"unstarted", "connect", "write", "read"}]
    /\ io \in [Requests -> {"none", "pending", "ok"} \cup Errors]
    /\ pc \in [Requests -> {"idle", "lock", "check", "continue", "complete",
                             "callback", "done"}]
    /\ m_ec \in [Requests -> {"success"} \cup Errors]
    /\ reported \in [Requests -> Seq({"success"} \cup Errors)]
    /\ DOMAIN m_request = Requests /\ DOMAIN up = Requests
    /\ DOMAIN down = Requests /\ DOMAIN service = Requests
    /\ DOMAIN m_response = Requests /\ DOMAIN span = Requests

(* A request on its way: what the client wrote is what the server reads.   *)
OnItsWay(r) ==
    /\ io[r] # "none" \/ pc[r] # "idle" => stage[r] # "unstarted"
    /\ stage[r] \in {"write", "read"} => m_request[r] = Sent(r)
    /\ up[r] \in {<<>>, Sent(r)}

(* An answer on its way back: a line, and what follows from it, only after *)
(* the span was started from the context.                                  *)
OnItsWayBack(r) ==
    /\ service[r] = "process" => /\ up[r] = Sent(r)
                                 /\ FormatOK(Sent(r)) => Carried(r)
    /\ m_response[r] = "line" => Carried(r)
    /\ down[r] = "line" => Carried(r)
    /\ stage[r] = "read" /\ io[r] = "ok" => Carried(r)
    /\ pc[r] \in {"complete", "callback"} /\ m_ec[r] = "success" =>
         Carried(r) \/ r \in m_was_cancelled
    /\ reported[r] = <<"success">> => Carried(r)

CarriedInv ==
    CarriedType /\ \A r \in Requests : OnItsWay(r) /\ OnItsWayBack(r)

(* Nothing is sent, received or reported.                                  *)
LEMMA CarriedInit == DistInit => CarriedInv
<1> SUFFICES ASSUME DistInit
             PROVE  CarriedInv
  OBVIOUS
<1> USE DistributedTraceAssumption
<1>1. CarriedType
  BY DEF DistInit, Init, ServerInit, CarriedType, Errors
<1>2. ASSUME NEW r \in Requests
      PROVE  OnItsWay(r)
  BY DEF DistInit, Init, ServerInit, OnItsWay
<1>3. ASSUME NEW r \in Requests
      PROVE  OnItsWayBack(r)
  <2>1. reported[r] # <<"success">>
    BY DEF DistInit, Init
  <2> QED
    BY <2>1 DEF DistInit, Init, ServerInit, OnItsWayBack
<1> QED
  BY <1>1, <1>2, <1>3 DEF CarriedInv

(* What the invariant speaks of.                                           *)
carriedVars == <<tracing, stage, io, pc, m_ec, reported, m_was_cancelled,
                 m_request, up, down, service, m_response, span>>

(* The invariant reads these variables only.                               *)
LEMMA CarriedStutter == CarriedInv /\ UNCHANGED carriedVars => CarriedInv'
<1> SUFFICES ASSUME CarriedInv, UNCHANGED carriedVars
             PROVE  CarriedInv'
  OBVIOUS
<1>1. CarriedType'
  BY DEF CarriedInv, CarriedType, carriedVars
<1>2. ASSUME NEW r \in Requests
      PROVE  OnItsWay(r)' /\ OnItsWayBack(r)'
  BY DEF CarriedInv, OnItsWay, OnItsWayBack, Carried, Sent, WorkerContext,
         carriedVars
<1> QED
  BY <1>1, <1>2 DEF CarriedInv

(* The request of a session does not depend on the state.                  *)
LEMMA SentStable ==
    ASSUME tracing' = tracing, NEW r \in Requests
    PROVE  Sent(r)' = Sent(r)
BY DEF Sent, WorkerContext

LEMMA CarriedStable ==
    ASSUME tracing' = tracing, NEW r \in Requests, span'[r] = span[r], Carried(r)
    PROVE  Carried(r)'
BY SentStable DEF Carried

(* The user thread only marks sessions and starts their connects.          *)
LEMMA UserCarried == CarriedInv /\ UserStepD => CarriedInv'
<1> SUFFICES ASSUME CarriedInv, UserStepD
             PROVE  CarriedInv'
  OBVIOUS
<1>0. UNCHANGED <<tracing, m_request, up, down, service, m_response, span>>
  BY DEF UserStepD, serverVars, netVars
<1>s. ASSUME NEW r \in Requests
      PROVE  Sent(r)' = Sent(r) /\ (Carried(r) => Carried(r)')
  BY <1>0, SentStable, CarriedStable
<1>1. CASE \/ \E r \in Requests : EmulateInsert(r) \/ CancelEnter(r)
           \/ CancelMiss \/ CancelLock \/ Close \/ Join
  <2>1. UNCHANGED carriedVars
    BY <1>0, <1>1 DEF EmulateInsert, CancelEnter, CancelMiss, CancelLock,
                      Close, Join, carriedVars
  <2> QED
    BY <2>1, CarriedStutter
<1>2. CASE EmulateConnect
  <2>1. CarriedType'
    BY <1>0, <1>2 DEF EmulateConnect, CarriedInv, CarriedType
  <2>2. ASSUME NEW r \in Requests
        PROVE  OnItsWay(r)'
    BY <1>0, <1>2, <1>s DEF EmulateConnect, CarriedInv, CarriedType, OnItsWay
  <2>3. ASSUME NEW r \in Requests
        PROVE  OnItsWayBack(r)'
    BY <1>0, <1>2, <1>s
       DEF EmulateConnect, CarriedInv, CarriedType, OnItsWayBack
  <2> QED
    BY <2>1, <2>2, <2>3 DEF CarriedInv
<1>3. CASE CancelMark
  <2>1. CarriedType'
    BY <1>0, <1>3 DEF CancelMark, CarriedInv, CarriedType, Errors
  <2>2. ASSUME NEW r \in Requests
        PROVE  OnItsWay(r)'
    BY <1>0, <1>3, <1>s DEF CancelMark, CarriedInv, CarriedType, OnItsWay
  <2>3. ASSUME NEW r \in Requests
        PROVE  OnItsWayBack(r)'
    BY <1>0, <1>3, <1>s DEF CancelMark, CarriedInv, CarriedType, OnItsWayBack
  <2> QED
    BY <2>1, <2>2, <2>3 DEF CarriedInv
<1> QED
  BY <1>1, <1>2, <1>3 DEF UserStepD, UserStep

(* The only element of a sequence is the one that was appended last.       *)
LEMMA LastReported ==
    ASSUME NEW S, NEW seq \in Seq(S), NEW v \in S, Len(Append(seq, v)) = 1
    PROVE  Append(seq, v)[1] = v
<1>1. /\ Len(seq) \in Nat /\ Len(Append(seq, v)) = Len(seq) + 1
      /\ Append(seq, v)[Len(seq) + 1] = v
  BY AppendProperties
<1>2. Len(seq) + 1 = 1
  BY <1>1
<1> QED
  BY <1>1, <1>2

(* The handlers of the client: only the connect handler writes a request,  *)
(* and only the end of a read, or a cancel, leads to onRequestComplete     *)
(* without an error.                                                       *)
LEMMA HandlerCarried ==
    ASSUME CarriedInv, NEW q \in Requests, HandlerStepD(q)
    PROVE  CarriedInv'
<1>0. UNCHANGED <<tracing, up, down, service, m_response, span>>
  BY DEF HandlerStepD, HandlerContinueD, ShutdownD, CompleteD, serverVars,
         netVars
<1>s. ASSUME NEW r \in Requests
      PROVE  Sent(r)' = Sent(r) /\ (Carried(r) => Carried(r)')
  BY <1>0, SentStable, CarriedStable
<1>1. CASE HandlerContinueD(q)
  <2>1. CarriedType'
    BY <1>0, <1>1 DEF HandlerContinueD, HandlerContinue, CarriedInv, CarriedType
  <2>2. ASSUME NEW r \in Requests
        PROVE  OnItsWay(r)'
    <3>1. q = r => m_request'[r] = Sent(r)
      <4>1. CASE stage[q] = "connect"
        BY <1>1, <4>1 DEF HandlerContinueD, CarriedInv, CarriedType, Sent
      <4>2. CASE stage[q] # "connect"
        <5>1. stage[q] \in {"write", "read"}
          BY <1>1, <4>2
             DEF HandlerContinueD, HandlerContinue, CarriedInv, CarriedType, OnItsWay
        <5> QED
          BY <1>1, <4>2, <5>1 DEF HandlerContinueD, CarriedInv, OnItsWay
      <4> QED
        BY <4>1, <4>2
    <3>2. q # r => m_request'[r] = m_request[r] /\ stage'[r] = stage[r]
      BY <1>1 DEF HandlerContinueD, HandlerContinue, CarriedInv, CarriedType
    <3>3. q = r => stage'[r] \in {"write", "read"}
      BY <1>1 DEF HandlerContinueD, HandlerContinue, CarriedInv, CarriedType
    <3>4. q # r => io'[r] = io[r] /\ pc'[r] = pc[r]
      BY <1>1 DEF HandlerContinueD, HandlerContinue, CarriedInv, CarriedType
    <3> QED
      BY <1>0, <1>s, <3>1, <3>2, <3>3, <3>4 DEF CarriedInv, OnItsWay
  <2>3. ASSUME NEW r \in Requests
        PROVE  OnItsWayBack(r)'
    BY <1>0, <1>1, <1>s
       DEF HandlerContinueD, HandlerContinue, CarriedInv, CarriedType, OnItsWayBack
  <2> QED
    BY <2>1, <2>2, <2>3 DEF CarriedInv
<1>2. CASE CompleteD(q)
  <2>1. CarriedType'
    BY <1>0, <1>2 DEF CompleteD, Complete, CarriedInv, CarriedType
  <2>2. ASSUME NEW r \in Requests
        PROVE  OnItsWay(r)'
    BY <1>0, <1>2, <1>s DEF CompleteD, Complete, CarriedInv, CarriedType, OnItsWay
  <2>3. ASSUME NEW r \in Requests
        PROVE  OnItsWayBack(r)'
    BY <1>0, <1>2, <1>s
       DEF CompleteD, Complete, CarriedInv, CarriedType, OnItsWayBack
  <2> QED
    BY <2>1, <2>2, <2>3 DEF CarriedInv
<1>3. CASE Handler(q) /\ UNCHANGED m_request
  <2>1. CarriedType'
    BY <1>0, <1>3 DEF Handler, CarriedInv, CarriedType, Errors
  <2>2. ASSUME NEW r \in Requests
        PROVE  OnItsWay(r)'
    BY <1>0, <1>3, <1>s DEF Handler, CarriedInv, CarriedType, OnItsWay, Errors
  <2>3. ASSUME NEW r \in Requests
        PROVE  OnItsWayBack(r)'
    BY <1>0, <1>3, <1>s
       DEF Handler, CarriedInv, CarriedType, OnItsWayBack, Errors
  <2> QED
    BY <2>1, <2>2, <2>3 DEF CarriedInv
<1>4. CASE HandlerLock(q) /\ UNCHANGED m_request
  <2>1. CarriedType'
    BY <1>0, <1>4 DEF HandlerLock, CarriedInv, CarriedType
  <2>2. ASSUME NEW r \in Requests
        PROVE  OnItsWay(r)' /\ OnItsWayBack(r)'
    BY <1>0, <1>4, <1>s
       DEF HandlerLock, CarriedInv, CarriedType, OnItsWay, OnItsWayBack
  <2> QED
    BY <2>1, <2>2 DEF CarriedInv
<1>5. CASE HandlerCheck(q) /\ UNCHANGED m_request
  <2>1. CarriedType'
    BY <1>0, <1>5 DEF HandlerCheck, AfterCheck, CarriedInv, CarriedType
  <2>2. ASSUME NEW r \in Requests
        PROVE  OnItsWay(r)' /\ OnItsWayBack(r)'
    BY <1>0, <1>5, <1>s
       DEF HandlerCheck, AfterCheck, CarriedInv, CarriedType, OnItsWay, OnItsWayBack
  <2> QED
    BY <2>1, <2>2 DEF CarriedInv
<1>6. CASE Callback(q) /\ UNCHANGED m_request
  <2>1. Verdict(q) \in {"success"} \cup Errors
    BY DEF Verdict, CarriedInv, CarriedType, Errors
  <2>2. Append(reported[q], Verdict(q)) \in Seq({"success"} \cup Errors)
    BY <2>1 DEF CarriedInv, CarriedType
  <2>3. CarriedType'
    BY <1>0, <1>6, <2>2
       DEF Callback, Report, AfterComplete, CarriedInv, CarriedType
  <2>4. Verdict(q) = "success" => Carried(q)
    BY <1>6 DEF Verdict, Callback, CarriedInv, OnItsWayBack
  <2>5. ASSUME NEW r \in Requests
        PROVE  OnItsWay(r)'
    BY <1>0, <1>6, <1>s DEF Callback, AfterComplete, CarriedInv, CarriedType, OnItsWay
  <2>6. ASSUME NEW r \in Requests
        PROVE  reported'[r] = <<"success">> => Carried(r)
    <3>1. CASE r = q
      <4>1. reported'[r] = Append(reported[q], Verdict(q))
        BY <1>6, <3>1 DEF Callback, Report, CarriedInv, CarriedType
      <4>2. reported[q] \in Seq({"success"} \cup Errors)
        BY DEF CarriedInv, CarriedType
      <4>3. reported'[r] = <<"success">> =>
              Len(reported'[r]) = 1 /\ reported'[r][1] = "success"
        OBVIOUS
      <4> QED
        BY <2>1, <2>4, <3>1, <4>1, <4>2, <4>3, LastReported
    <3>2. CASE r # q
      BY <1>6, <3>2 DEF Callback, Report, CarriedInv, CarriedType, OnItsWayBack
    <3> QED
      BY <3>1, <3>2
  <2>7. ASSUME NEW r \in Requests
        PROVE  OnItsWayBack(r)'
    BY <1>0, <1>6, <1>s, <2>6
       DEF Callback, AfterComplete, CarriedInv, CarriedType, OnItsWayBack
  <2> QED
    BY <2>3, <2>5, <2>7 DEF CarriedInv
<1>7. CASE ShutdownD(q)
  <2>1. UNCHANGED carriedVars
    BY <1>0, <1>7 DEF ShutdownD, vars, carriedVars
  <2> QED
    BY <2>1, CarriedStutter
<1> QED
  BY <1>1, <1>2, <1>3, <1>4, <1>5, <1>6, <1>7 DEF HandlerStepD

(* The network delivers requests unchanged, and ends a read without an     *)
(* error only with the line.                                               *)
LEMMA NetCarried ==
    ASSUME CarriedInv, NEW q \in Requests, NetStep(q)
    PROVE  CarriedInv'
<1>0. UNCHANGED <<tracing, down, service, m_response, span, stage, pc, m_ec,
                  reported, m_was_cancelled, m_request>>
  BY DEF NetStep, NetConnect, NetWrite, NetRead, IoDone
<1>s. ASSUME NEW r \in Requests
      PROVE  Sent(r)' = Sent(r) /\ (Carried(r) => Carried(r)')
  BY <1>0, SentStable, CarriedStable
<1>1. PICK res \in {"ok", "error"} :
        /\ io[q] = "pending" /\ io' = [io EXCEPT ![q] = res]
        /\ stage[q] = "read" /\ res = "ok" => down[q] = "line"
  BY DEF NetStep, NetConnect, NetWrite, NetRead, IoDone
<1>2. \/ UNCHANGED up
      \/ stage[q] = "write" /\ up' = [up EXCEPT ![q] = m_request[q]]
  BY DEF NetStep, NetConnect, NetWrite, NetRead, IoDone
<1>3. CarriedType'
  BY <1>0, <1>1, <1>2 DEF CarriedInv, CarriedType, Errors
<1>4. ASSUME NEW r \in Requests
      PROVE  up'[r] = up[r] \/ up'[r] = Sent(r)
  BY <1>2 DEF CarriedInv, CarriedType, OnItsWay
<1>5. ASSUME NEW r \in Requests
      PROVE  OnItsWay(r)'
  BY <1>0, <1>1, <1>s, <1>4 DEF CarriedInv, CarriedType, OnItsWay
<1>6. ASSUME NEW r \in Requests
      PROVE  OnItsWayBack(r)'
  BY <1>0, <1>1, <1>s, <1>4 DEF CarriedInv, CarriedType, OnItsWayBack
<1> QED
  BY <1>3, <1>5, <1>6 DEF CarriedInv

(* The server answers with a line only what it has processed under a child *)
(* of the request's span.                                                  *)
LEMMA ServerCarried ==
    ASSUME CarriedInv, ServerNext, UNCHANGED <<vars, tracing, m_request>>
    PROVE  CarriedInv'
<1>0. UNCHANGED <<tracing, stage, io, pc, m_ec, reported, m_was_cancelled,
                  m_request, up>>
  BY DEF ServerNext, AcceptStep, ServiceStep, FinishStop, OnAccept,
         OnAcceptError, OnRequestError, OnRequestReceived, Respond,
         SendResponse, OnResponseSent, StopAcceptor, StopIos, JoinPool, Reset,
         netVars, vars
<1>r. Conns = Requests
  BY DistributedTraceAssumption
<1>s. ASSUME NEW r \in Requests
      PROVE  Sent(r)' = Sent(r)
  BY <1>0, SentStable
<1>t. ASSUME NEW r \in Requests
      PROVE  OnItsWay(r)'
  BY <1>0, <1>s DEF CarriedInv, OnItsWay
<1>1. CASE \/ \E c \in Conns : OnAcceptError(c) \/ Reset(c)
           \/ StopAcceptor \/ FinishStop
  <2>1. UNCHANGED carriedVars
    BY <1>0, <1>1 DEF OnAcceptError, Reset, StopAcceptor, FinishStop, StopIos,
                      JoinPool, netVars, carriedVars
  <2> QED
    BY <2>1, CarriedStutter
<1>2. ASSUME NEW c \in Requests,
             OnAccept(c) \/ OnRequestError(c) \/ OnResponseSent(c)
      PROVE  CarriedInv'
  <2>1. /\ UNCHANGED <<down, m_response, span>>
        /\ \E st \in {"read", "deleted"} : service' = [service EXCEPT ![c] = st]
    BY <1>2 DEF OnAccept, OnRequestError, OnResponseSent, OnFinish
  <2>2. CarriedType'
    BY <1>0, <2>1 DEF CarriedInv, CarriedType
  <2>3. ASSUME NEW r \in Requests
        PROVE  Carried(r) => Carried(r)'
    BY <1>0, <2>1, CarriedStable
  <2>4. ASSUME NEW r \in Requests
        PROVE  OnItsWayBack(r)'
    BY <1>0, <1>s, <2>1, <2>3 DEF CarriedInv, CarriedType, OnItsWayBack
  <2> QED
    BY <1>t, <2>2, <2>4 DEF CarriedInv
<1>3. ASSUME NEW c \in Requests, OnRequestReceived(c)
      PROVE  CarriedInv'
  <2>1. UNCHANGED <<down, m_response>> /\ up[c] = Sent(c)
    BY <1>3 DEF OnRequestReceived, netVars, CarriedInv, OnItsWay
  <2>2. /\ DOMAIN span' = Requests
        /\ \A r \in Requests \ {c} : span'[r] = span[r]
        /\ FormatOK(Sent(c)) => span'[c] = CreateChildSpan(ContextSer(Sent(c)))
    BY <1>3, <2>1 DEF OnRequestReceived, CarriedInv, CarriedType
  <2>3. CarriedType'
    BY <1>0, <1>3, <2>1, <2>2 DEF OnRequestReceived, CarriedInv, CarriedType
  <2>4. FormatOK(Sent(c)) => Carried(c)'
    BY <1>s, <2>2 DEF Carried
  <2>5. ASSUME NEW r \in Requests
        PROVE  Carried(r) => Carried(r)'
    <3>1. CASE r = c
      BY <2>4, <3>1 DEF Carried
    <3>2. CASE r # c
      BY <1>0, <2>2, <3>2, CarriedStable
    <3> QED
      BY <3>1, <3>2
  <2>6. ASSUME NEW r \in Requests
        PROVE  service'[r] = "process" =>
                 up'[r] = Sent(r)' /\ (FormatOK(Sent(r)') => Carried(r)')
    BY <1>0, <1>3, <1>s, <2>1, <2>4, <2>5
       DEF OnRequestReceived, CarriedInv, CarriedType, OnItsWayBack
  <2>7. ASSUME NEW r \in Requests
        PROVE  OnItsWayBack(r)'
    BY <1>0, <2>1, <2>5, <2>6 DEF CarriedInv, OnItsWayBack
  <2> QED
    BY <1>t, <2>3, <2>7 DEF CarriedInv
<1>4. ASSUME NEW c \in Requests, Respond(c)
      PROVE  CarriedInv'
  <2>1. UNCHANGED <<down, span>>
    BY <1>4 DEF Respond, netVars
  <2>2. CarriedType'
    BY <1>0, <1>4, <2>1 DEF Respond, CarriedInv, CarriedType
  <2>3. ASSUME NEW r \in Requests
        PROVE  Carried(r) => Carried(r)'
    BY <1>0, <2>1, CarriedStable
  <2>4. Answer(up[c]) = "line" => Carried(c)
    BY <1>4 DEF Respond, Answer, CarriedInv, OnItsWayBack
  <2>5. ASSUME NEW r \in Requests
        PROVE  OnItsWayBack(r)'
    BY <1>0, <1>4, <1>s, <2>1, <2>3, <2>4
       DEF Respond, CarriedInv, CarriedType, OnItsWayBack
  <2> QED
    BY <1>t, <2>2, <2>5 DEF CarriedInv
<1>5. ASSUME NEW c \in Requests, SendResponse(c)
      PROVE  CarriedInv'
  <2>1. UNCHANGED <<m_response, span>>
    BY <1>5 DEF SendResponse
  <2>2. CarriedType'
    BY <1>0, <1>5, <2>1 DEF SendResponse, CarriedInv, CarriedType
  <2>3. ASSUME NEW r \in Requests
        PROVE  Carried(r) => Carried(r)'
    BY <1>0, <2>1, CarriedStable
  <2>4. ASSUME NEW r \in Requests
        PROVE  OnItsWayBack(r)'
    BY <1>0, <1>5, <1>s, <2>1, <2>3
       DEF SendResponse, CarriedInv, CarriedType, OnItsWayBack
  <2> QED
    BY <1>t, <2>2, <2>4 DEF CarriedInv
<1> QED
  BY <1>r, <1>1, <1>2, <1>3, <1>4, <1>5
     DEF ServerNext, AcceptStep, ServiceStep, FinishStop

(* The invariant is inductive.                                             *)
LEMMA CarriedStep == CarriedInv /\ [DistNext]_distVars => CarriedInv'
<1> SUFFICES ASSUME CarriedInv, [DistNext]_distVars
             PROVE  CarriedInv'
  OBVIOUS
<1>1. CASE UserStepD
  BY <1>1, UserCarried
<1>2. ASSUME NEW r \in Requests, HandlerStepD(r)
      PROVE  CarriedInv'
  BY <1>2, HandlerCarried
<1>3. ASSUME NEW r \in Requests, NetStep(r)
      PROVE  CarriedInv'
  BY <1>3, NetCarried
<1>4. CASE ServerNext /\ UNCHANGED <<vars, tracing, m_request>>
  BY <1>4, ServerCarried
<1>5. CASE UNCHANGED distVars
  <2>1. UNCHANGED carriedVars
    BY <1>5 DEF distVars, vars, serverVars, netVars, carriedVars
  <2> QED
    BY <2>1, CarriedStutter
<1> QED
  BY <1>1, <1>2, <1>3, <1>4, <1>5 DEF DistNext

(* A request that is reported as a success was processed by the server     *)
(* under a child of this request's own span, and the client was tracing,   *)
(* whatever was cancelled, reset or stopped meanwhile.                     *)
THEOREM SuccessMeansTracedHolds == DistSpec => []SuccessMeansTraced
<1>1. CarriedInv => SuccessMeansTraced
  <2> SUFFICES ASSUME CarriedInv, NEW r \in Requests,
                      reported[r] = <<"success">>
               PROVE  /\ tracing
                      /\ span[r].span_id = SpanIdOf[r]
                      /\ span[r].trace_id = TraceId
    BY DEF SuccessMeansTraced
  <2>1. Carried(r)
    BY DEF CarriedInv, OnItsWayBack
  <2>2. tracing = TRUE \/ tracing = FALSE
    BY DEF CarriedInv, CarriedType
  <2>3. tracing = TRUE
    BY <2>1, <2>2, UntracedRefused DEF Carried
  <2> QED
    BY <2>1, <2>3, ContextCarried DEF Carried
<1> QED
  BY <1>1, CarriedInit, CarriedStep, PTL DEF DistSpec

-----------------------------------------------------------------------------
(* The composition implements the client: its steps are the client's, and  *)
(* what TCP and the server do to an operation is what the arbitrary        *)
(* network of AsyncTCPClient may do.                                       *)
LEMMA ClientStep == [DistNext]_distVars => [Next]_vars
<1> SUFFICES ASSUME [DistNext]_distVars
             PROVE  [Next]_vars
  OBVIOUS
<1>1. CASE UserStepD
  BY <1>1 DEF UserStepD, Next
<1>2. ASSUME NEW r \in Requests, HandlerStepD(r)
      PROVE  Next \/ UNCHANGED vars
  <2>1. HandlerStep(r) \/ UNCHANGED vars
    BY <1>2 DEF HandlerStepD, HandlerContinueD, ShutdownD, CompleteD, HandlerStep
  <2> QED
    BY <2>1 DEF Next
<1>3. ASSUME NEW r \in Requests, NetStep(r)
      PROVE  Next
  <2>1. NetComplete(r)
    BY <1>3 DEF NetStep, NetConnect, NetWrite, NetRead, IoDone, NetComplete
  <2> QED
    BY <2>1 DEF Next
<1>4. CASE ServerNext /\ UNCHANGED <<vars, tracing, m_request>>
  BY <1>4
<1>5. CASE UNCHANGED distVars
  BY <1>5 DEF distVars
<1> QED
  BY <1>1, <1>2, <1>3, <1>4, <1>5 DEF DistNext

(* Client and server together behave, towards the user, as the client over *)
(* an arbitrary network does: the safety part of ClientSpec.               *)
THEOREM ClientImplemented == DistSpec => Init /\ [][Next]_vars
<1>1. DistInit => Init
  BY DEF DistInit
<1> QED
  BY <1>1, ClientStep, PTL DEF DistSpec

(* So everything that is proved of the client holds of the composition.    *)
THEOREM ClientInvHolds == DistSpec => []ClientInv
<1>1. DistInit => ClientInv
  BY ClientInvInit DEF DistInit
<1>2. ClientInv /\ [DistNext]_distVars => ClientInv'
  BY ClientStep, ClientInvStep
<1> QED
  BY <1>1, <1>2, PTL DEF DistSpec

-----------------------------------------------------------------------------
(* Never more pool threads are inside ProcessRequest than there are.       *)
LEMMA BusyBound ==
    ASSUME ServerTypeOK, NEW c \in Conns, NEW st,
           service' = [service EXCEPT ![c] = st],
           st = "process" => PoolFree
    PROVE  Cardinality(Busy') <= PoolSize
<1>1. IsFiniteSet(Busy) /\ Cardinality(Busy) \in Nat /\ PoolSize \in Nat
  BY FS_Subset, FS_CardinalityType, TraceServerAssumption DEF Busy
<1>2. CASE st = "process"
  <2>1. Busy' \subseteq Busy \cup {c}
    BY DEF Busy
  <2>2. /\ IsFiniteSet(Busy \cup {c})
        /\ Cardinality(Busy \cup {c}) <= Cardinality(Busy) + 1
    <3>1. /\ IsFiniteSet(Busy \cup {c})
          /\ Cardinality(Busy \cup {c}) =
               IF c \in Busy THEN Cardinality(Busy) ELSE Cardinality(Busy) + 1
      BY <1>1, FS_AddElement, Zenon
    <3> QED
      BY <1>1, <3>1
  <2>3. Cardinality(Busy') <= Cardinality(Busy \cup {c})
    BY <2>1, <2>2, FS_Subset
  <2>4. Cardinality(Busy') \in Nat /\ Cardinality(Busy \cup {c}) \in Nat
    BY <2>1, <2>2, FS_Subset, FS_CardinalityType
  <2> QED
    BY <1>1, <1>2, <2>2, <2>3, <2>4 DEF PoolFree
<1>3. CASE st # "process"
  <2>1. Busy' \subseteq Busy
    BY <1>3 DEF Busy
  <2>2. /\ Cardinality(Busy') <= Cardinality(Busy)
        /\ Cardinality(Busy') \in Nat
    BY <1>1, <2>1, FS_Subset, FS_CardinalityType
  <2> QED
    BY <1>1, <2>2 DEF ServerTypeOK
<1> QED
  BY <1>2, <1>3

(* The types of the server, of the network and of the requests.            *)
ServerTypeInv == ServerTypeOK /\ \A r \in Requests : m_request[r] \in Seq(Char)

(* All connections are closed, no service exists.                          *)
LEMMA ServerTypeInit == DistInit => ServerTypeInv
<1> SUFFICES ASSUME DistInit
             PROVE  ServerTypeInv
  OBVIOUS
<1>1. Busy = {}
  BY DEF DistInit, ServerInit, Busy
<1>2. Cardinality(Busy) <= PoolSize
  BY <1>1, FS_EmptySet, TraceServerAssumption
<1>3. Zeros(SPAN_ID_SIZE) \in SpanIds /\ Zeros(TRACE_ID_SIZE) \in TraceIds
  BY TraceInfoAssumption DEF Zeros, SpanIds, TraceIds
<1>4. \A c \in Conns : span[c].span_id \in SpanIds /\ span[c].trace_id \in TraceIds
  BY <1>3 DEF DistInit, ServerInit, Invalid
<1>5. {listening, accepting, m_isStopped, stopped} \subseteq BOOLEAN
  BY DEF DistInit, ServerInit
<1>6. \A c \in Conns : up[c] \in Seq(Char)
  BY DEF DistInit, ServerInit
<1>7. ServerTypeOK
  BY <1>2, <1>4, <1>5, <1>6 DEF DistInit, ServerInit, ServerTypeOK
<1> QED
  BY <1>7 DEF ServerTypeInv, DistInit

(* Every step keeps the types of the server and of the network.            *)
LEMMA ServerTypeStep ==
    ServerTypeInv /\ CarriedInv /\ [DistNext]_distVars => ServerTypeInv'
<1> SUFFICES ASSUME ServerTypeInv, CarriedInv, [DistNext]_distVars
             PROVE  ServerTypeInv'
  OBVIOUS
<1> USE DistributedTraceAssumption DEF ServerTypeInv
<1>0. /\ tracing \in BOOLEAN
      /\ \A r \in Requests : Sent(r) \in Seq(Char) /\ ContextSer(Sent(r)) \in Seq(Char)
  BY SentText DEF CarriedInv, CarriedType
<1>1. CASE UserStepD \/ UNCHANGED distVars
  <2>1. UNCHANGED <<serverVars, m_request, Busy>>
    BY <1>1 DEF UserStepD, distVars, serverVars, Busy
  <2> QED
    BY <2>1 DEF serverVars, netVars, acceptorVars, ServerTypeOK
<1>2. ASSUME NEW r \in Requests, HandlerStepD(r)
      PROVE  ServerTypeInv'
  <2>1. /\ UNCHANGED <<conn, up, down, serverEnd, acceptorVars, stopped, main,
                       service, m_response, span, Busy>>
        /\ clientEnd' \in SUBSET Conns
    BY <1>2 DEF HandlerStepD, HandlerContinueD, ShutdownD, CompleteD,
                serverVars, netVars, Busy, ServerTypeOK
  <2>2. \A q \in Requests : m_request'[q] \in Seq(Char)
    BY <1>0, <1>2 DEF HandlerStepD, HandlerContinueD, ShutdownD, CompleteD,
                      Sent, CarriedInv, CarriedType
  <2> QED
    BY <2>1, <2>2 DEF acceptorVars, ServerTypeOK
<1>3. ASSUME NEW r \in Requests, NetStep(r)
      PROVE  ServerTypeInv'
  <2>1. /\ UNCHANGED <<down, clientEnd, serverEnd, acceptorVars, stopped, main,
                       service, m_response, span, m_request, Busy>>
        /\ conn' = conn \/ conn' = [conn EXCEPT ![r] = "queued"]
        /\ up' = up \/ up' = [up EXCEPT ![r] = m_request[r]]
    BY <1>3 DEF NetStep, NetConnect, NetWrite, NetRead, IoDone, Busy
  <2>2. \A c \in Conns : up'[c] \in Seq(Char)
    <3>1. CASE up' = up
      BY <3>1 DEF ServerTypeOK
    <3>2. CASE up' = [up EXCEPT ![r] = m_request[r]]
      <4>1. \A c \in Conns : up'[c] = IF c = r THEN m_request[r] ELSE up[c]
        BY <3>2 DEF CarriedInv, CarriedType
      <4> QED
        BY <4>1 DEF ServerTypeOK
    <3> QED
      BY <2>1, <3>1, <3>2
  <2> QED
    BY <2>1, <2>2 DEF acceptorVars, ServerTypeOK
<1>4. ASSUME NEW c \in Conns, OnAccept(c) \/ OnAcceptError(c), UNCHANGED m_request
      PROVE  ServerTypeInv'
  <2>1. /\ UNCHANGED <<up, down, clientEnd, serverEnd, m_isStopped, stopped,
                       main, m_response, span>>
        /\ service' = [service EXCEPT ![c] = "read"] \/ service' = service
        /\ {listening, accepting}' \subseteq BOOLEAN
    BY <1>4 DEF OnAccept, OnAcceptError, InitAccept, ServerTypeOK
  <2>2. conn' \in [Conns -> {"none", "queued", "open", "reset"}]
    BY <1>4 DEF OnAccept, OnAcceptError, LeaveBacklog, ServerTypeOK
  <2>3. Cardinality(Busy') <= PoolSize
    <3>1. CASE service' = [service EXCEPT ![c] = "read"]
      <4>1. ServerTypeOK /\ ("read" = "process" => PoolFree)
        OBVIOUS
      <4> QED
        BY <3>1, <4>1, BusyBound, Zenon
    <3>2. CASE service' = service
      BY <3>2 DEF Busy, ServerTypeOK
    <3> QED
      BY <2>1, <3>1, <3>2
  <2> QED
    BY <1>4, <2>1, <2>2, <2>3 DEF ServerTypeOK
<1>5. ASSUME NEW c \in Conns, ServiceStep(c), UNCHANGED m_request
      PROVE  ServerTypeInv'
  <2>1. /\ UNCHANGED <<conn, up, clientEnd, acceptorVars, stopped, main>>
        /\ down' \in [Conns -> {"nothing", "line", "invalid"}]
        /\ m_response' \in [Conns -> {"nothing", "line", "invalid"}]
        /\ serverEnd' \in SUBSET Conns
    <3>1. CASE OnRequestError(c) \/ OnResponseSent(c)
      BY <3>1 DEF OnRequestError, OnResponseSent, OnFinish, ServerTypeOK
    <3>2. CASE OnRequestReceived(c)
      BY <3>2 DEF OnRequestReceived, netVars, ServerTypeOK
    <3>3. CASE Respond(c)
      BY <3>3 DEF Respond, Answer, netVars, ServerTypeOK
    <3>4. CASE SendResponse(c)
      BY <3>4 DEF SendResponse, ServerTypeOK
    <3> QED
      BY <1>5, <3>1, <3>2, <3>3, <3>4 DEF ServiceStep
  <2>2. PICK st \in {"process", "write", "sent", "deleted"} :
          /\ service' = [service EXCEPT ![c] = st]
          /\ st = "process" => PoolFree
    BY <1>5 DEF ServiceStep, OnRequestError, OnRequestReceived, Respond,
                SendResponse, OnResponseSent, OnFinish
  <2>3. Cardinality(Busy') <= PoolSize
    BY <2>2, BusyBound
  <2>4. \A d \in Conns : span'[d].span_id \in SpanIds /\ span'[d].trace_id \in TraceIds
    <3>1. CASE OnRequestReceived(c)
      <4>1. up[c] = Sent(c)
        BY <3>1 DEF OnRequestReceived, CarriedInv, OnItsWay
      <4>2. /\ CreateChildSpan(ContextSer(up[c])).span_id \in SpanIds
            /\ CreateChildSpan(ContextSer(up[c])).trace_id \in TraceIds
        BY <1>0, <4>1, DecoderSound DEF CreateChildSpan
      <4> QED
        BY <3>1, <4>2 DEF OnRequestReceived, ServerTypeOK
    <3>2. CASE ~OnRequestReceived(c)
      BY <1>5, <3>2 DEF ServiceStep, OnRequestError, Respond, SendResponse,
                        OnResponseSent, ServerTypeOK
    <3> QED
      BY <3>1, <3>2
  <2> QED
    BY <1>5, <2>1, <2>2, <2>3, <2>4 DEF acceptorVars, ServerTypeOK
<1>6. ASSUME \/ StopAcceptor \/ FinishStop
             \/ \E c \in Conns : Reset(c),
             UNCHANGED m_request
      PROVE  ServerTypeInv'
  <2>1. /\ UNCHANGED <<up, down, clientEnd, accepting, service, m_response,
                       span, Busy>>
        /\ main' \in {"sleep", "stop", "join", "exit"}
    BY <1>6 DEF StopAcceptor, FinishStop, StopIos, JoinPool, Reset, Busy,
                netVars, acceptorVars, ServerTypeOK
  <2>2. /\ m_isStopped' \in {m_isStopped, TRUE} /\ stopped' \in {stopped, TRUE}
        /\ listening' \in {listening, FALSE}
    BY <1>6 DEF StopAcceptor, FinishStop, StopIos, JoinPool, Reset, acceptorVars
  <2>3. /\ conn' \in [Conns -> {"none", "queued", "open", "reset"}]
        /\ serverEnd' \in SUBSET Conns
    BY <1>6 DEF StopAcceptor, FinishStop, StopIos, JoinPool, Reset, netVars,
                ServerTypeOK
  <2> QED
    BY <1>6, <2>1, <2>2, <2>3 DEF ServerTypeOK
<1> QED
  BY <1>1, <1>2, <1>3, <1>4, <1>5, <1>6 DEF DistNext, ServerNext, AcceptStep

(* Client, server and network keep their types; neither pool ever runs     *)
(* more handlers than it has threads.                                      *)
THEOREM DistTypeCorrect == DistSpec => []DistTypeOK
<1>1. ClientInv /\ CarriedInv /\ ServerTypeInv => DistTypeOK
  BY DEF ClientInv, CarriedInv, CarriedType, ServerTypeInv, DistTypeOK
<1> QED
  BY <1>1, ClientInvHolds, CarriedInit, CarriedStep, ServerTypeInit,
     ServerTypeStep, PTL DEF DistSpec

-----------------------------------------------------------------------------
(* What excuses a failure.                                                 *)
Excused(r) == ~tracing \/ conn[r] = "reset" \/ m_isStopped

(* The order of things on a connection: not before the connect has ended,  *)
(* no request before the write has, no answer before the request; and what *)
(* the server does is done to a connection it has accepted.                *)
ConnectionInv(r) ==
    /\ stage[r] = "unstarted" \/ (stage[r] = "connect" /\ io[r] = "pending") =>
         conn[r] = "none"
    /\ stage[r] \in {"unstarted", "connect"} => up[r] = <<>>
    /\ stage[r] = "write" /\ io[r] = "pending" => up[r] = <<>>
    /\ up[r] = <<>> =>
         service[r] \in {"none", "read", "deleted"} /\ down[r] = "nothing"
    /\ service[r] # "none" => conn[r] \in {"open", "reset"}

(* Where an error comes from: the server ends a connection only after the  *)
(* line, after the client has ended it, or when that is excused.           *)
ErrorInv(r) ==
    /\ r \in clientEnd => pc[r] \in {"complete", "callback", "done"}
    /\ service[r] = "write" => Excused(r) \/ m_response[r] = "line"
    /\ service[r] = "sent" => Excused(r) \/ down[r] = "line"
    /\ r \in serverEnd => Excused(r) \/ r \in clientEnd \/ down[r] = "line"
    /\ io[r] = "error" \/ m_ec[r] = "error" \/ reported[r] = <<"error">> =>
         Excused(r)

(* The inductive invariant: a server that no longer listens was told so.   *)
FailureInv ==
    /\ ~listening \/ main # "sleep" => m_isStopped
    /\ \A r \in Requests : ConnectionInv(r) /\ ErrorInv(r)

(* No connection exists and nothing has failed.                            *)
LEMMA FailureInit == DistInit => FailureInv
<1> SUFFICES ASSUME DistInit
             PROVE  FailureInv
  OBVIOUS
<1>1. ~(~listening \/ main # "sleep")
  BY DEF DistInit, ServerInit
<1>2. ASSUME NEW r \in Requests
      PROVE  ConnectionInv(r) /\ ErrorInv(r)
  <2>1. reported[r] # <<"error">>
    BY DEF DistInit, Init
  <2> QED
    BY <2>1, DistributedTraceAssumption
       DEF DistInit, Init, ServerInit, ConnectionInv, ErrorInv
<1> QED
  BY <1>1, <1>2 DEF FailureInv

(* An excuse stays one: a connection is not mended, a stop not undone.     *)
LEMMA ExcusedStable ==
    ASSUME NEW r \in Requests, Excused(r), tracing' = tracing,
           m_isStopped => m_isStopped',
           conn[r] = "reset" => conn'[r] = "reset"
    PROVE  Excused(r)'
BY DEF Excused

(* The user thread: it starts requests and cancels them, it fails none.    *)
LEMMA UserFailure ==
    ASSUME ClientInv, FailureInv, UserStepD
    PROVE  FailureInv'
<1>0. UNCHANGED <<serverVars, tracing, pc, m_ec, reported>>
  BY DEF UserStepD, UserStep, EmulateInsert, EmulateConnect, CancelEnter,
         CancelMiss, CancelLock, CancelMark, Close, Join
<1>1. ASSUME NEW r \in Requests
      PROVE  /\ io'[r] = "error" => io[r] = "error"
             /\ \/ stage'[r] = stage[r] /\ (io'[r] = "pending" => io[r] = "pending")
                \/ stage[r] = "unstarted" /\ stage'[r] = "connect"
  BY DEF UserStepD, UserStep, EmulateInsert, EmulateConnect, CancelEnter,
         CancelMiss, CancelLock, CancelMark, Close, Join, ClientInv, TypeOK,
         UserInv
<1>2. ASSUME NEW r \in Requests
      PROVE  ConnectionInv(r)'
  BY <1>0, <1>1 DEF FailureInv, ConnectionInv, serverVars, netVars
<1>3. ASSUME NEW r \in Requests
      PROVE  ErrorInv(r)'
  BY <1>0, <1>1
     DEF FailureInv, ErrorInv, Excused, serverVars, netVars, acceptorVars
<1> QED
  BY <1>0, <1>2, <1>3 DEF FailureInv, serverVars, acceptorVars

(* The handlers: an error is handed on from the operation to the report.   *)
LEMMA HandlerFailure ==
    ASSUME ClientInv, FailureInv, NEW q \in Requests, HandlerStepD(q)
    PROVE  FailureInv'
<1>0. UNCHANGED <<conn, up, down, serverEnd, acceptorVars, stopped, main,
                  service, m_response, span, tracing>>
  BY DEF HandlerStepD, HandlerContinueD, ShutdownD, CompleteD, serverVars,
         netVars
<1>1. ASSUME NEW r \in Requests, r # q
      PROVE  /\ stage'[r] = stage[r] /\ io'[r] = io[r] /\ pc'[r] = pc[r]
             /\ m_ec'[r] = m_ec[r] /\ reported'[r] = reported[r]
             /\ r \in clientEnd' <=> r \in clientEnd
  BY <1>1 DEF HandlerStepD, HandlerContinueD, ShutdownD, CompleteD,
         HandlerContinue, Complete, Handler, HandlerLock, HandlerCheck,
         Callback, Report, ClientInv, TypeOK, vars, serverVars, netVars
<1>2. q \in clientEnd => pc[q] \in {"complete", "callback", "done"}
  BY DEF FailureInv, ErrorInv
<1>3. CASE HandlerContinueD(q)
  <2>1. /\ stage'[q] = IF stage[q] = "connect" THEN "write" ELSE "read"
        /\ io'[q] = "pending" /\ pc[q] = "continue" /\ pc'[q] = "idle"
        /\ UNCHANGED <<m_ec, reported, clientEnd>>
    BY <1>3 DEF HandlerContinueD, HandlerContinue, serverVars, netVars,
                ClientInv, TypeOK
  <2>2. ConnectionInv(q)'
    BY <1>0, <2>1 DEF FailureInv, ConnectionInv
  <2>3. ErrorInv(q)'
    BY <1>0, <1>2, <2>1 DEF FailureInv, ErrorInv, Excused, acceptorVars
  <2> QED
    BY <1>0, <1>1, <2>2, <2>3
       DEF FailureInv, ConnectionInv, ErrorInv, Excused, acceptorVars
<1>4. CASE ShutdownD(q) \/ CompleteD(q)
  <2>1. /\ pc'[q] \in {"complete", "callback"}
        /\ UNCHANGED <<stage, io, m_ec, reported>>
    BY <1>4 DEF ShutdownD, vars, CompleteD, Complete, ClientInv, TypeOK
  <2>2. clientEnd' \in {clientEnd, clientEnd \cup {q}}
    BY <1>4 DEF ShutdownD, CompleteD, serverVars, netVars
  <2>3. ConnectionInv(q)'
    BY <1>0, <2>1 DEF FailureInv, ConnectionInv
  <2>4. ErrorInv(q)'
    BY <1>0, <2>1, <2>2 DEF FailureInv, ErrorInv, Excused, acceptorVars
  <2> QED
    BY <1>0, <1>1, <2>3, <2>4
       DEF FailureInv, ConnectionInv, ErrorInv, Excused, acceptorVars
<1>5. CASE Handler(q) /\ UNCHANGED serverVars
  <2>1. /\ pc[q] = "idle" /\ UNCHANGED <<stage, reported, clientEnd>>
        /\ io'[q] = "none" /\ m_ec'[q] \in {m_ec[q], io[q]}
    BY <1>5 DEF Handler, ClientInv, TypeOK, serverVars, netVars
  <2>2. ConnectionInv(q)'
    BY <1>0, <2>1 DEF FailureInv, ConnectionInv
  <2>3. ErrorInv(q)'
    BY <1>0, <1>2, <2>1 DEF FailureInv, ErrorInv, Excused, acceptorVars
  <2> QED
    BY <1>0, <1>1, <2>2, <2>3
       DEF FailureInv, ConnectionInv, ErrorInv, Excused, acceptorVars
<1>6. CASE (HandlerLock(q) \/ HandlerCheck(q)) /\ UNCHANGED serverVars
  <2>1. /\ pc[q] \in {"lock", "check"}
        /\ UNCHANGED <<stage, io, m_ec, reported, clientEnd>>
    BY <1>6 DEF HandlerLock, HandlerCheck, serverVars, netVars
  <2>2. ConnectionInv(q)'
    BY <1>0, <2>1 DEF FailureInv, ConnectionInv
  <2>3. ErrorInv(q)'
    BY <1>0, <1>2, <2>1 DEF FailureInv, ErrorInv, Excused, acceptorVars
  <2> QED
    BY <1>0, <1>1, <2>2, <2>3
       DEF FailureInv, ConnectionInv, ErrorInv, Excused, acceptorVars
<1>7. CASE Callback(q) /\ UNCHANGED serverVars
  <2>1. /\ pc'[q] = "done" /\ UNCHANGED <<stage, io, m_ec, clientEnd>>
        /\ reported'[q] = Append(reported[q], Verdict(q))
    BY <1>7
       DEF Callback, AfterComplete, Report, ClientInv, TypeOK, serverVars,
           netVars
  <2>2. reported'[q] = <<"error">> => m_ec[q] = "error"
    <3>1. /\ Verdict(q) \in {"success"} \cup Errors
          /\ reported[q] \in Seq({"success"} \cup Errors)
      BY DEF Verdict, Errors, ClientInv, TypeOK
    <3>2. reported'[q] = <<"error">> =>
            Len(reported'[q]) = 1 /\ reported'[q][1] = "error"
      OBVIOUS
    <3>3. reported'[q] = <<"error">> => Verdict(q) = "error"
      BY <2>1, <3>1, <3>2, LastReported
    <3> QED
      BY <3>3 DEF Verdict
  <2>3. ConnectionInv(q)'
    BY <1>0, <2>1 DEF FailureInv, ConnectionInv
  <2>4. ErrorInv(q)'
    BY <1>0, <2>1, <2>2 DEF FailureInv, ErrorInv, Excused, acceptorVars
  <2> QED
    BY <1>0, <1>1, <2>3, <2>4
       DEF FailureInv, ConnectionInv, ErrorInv, Excused, acceptorVars
<1> QED
  BY <1>3, <1>4, <1>5, <1>6, <1>7 DEF HandlerStepD

(* The network: an operation fails on a connection that was refused, is    *)
(* reset, or that the server has ended.                                    *)
LEMMA NetFailure ==
    ASSUME ClientInv, CarriedInv, ServerTypeInv, FailureInv,
           NEW q \in Requests, NetStep(q)
    PROVE  FailureInv'
<1>0. /\ UNCHANGED <<stage, pc, m_ec, reported, acceptorVars, stopped, main,
                     service, m_response, span, tracing, clientEnd, serverEnd, down>>
      /\ io[q] = "pending"
  BY DEF NetStep, NetConnect, NetWrite, NetRead, IoDone
<1>1. ASSUME NEW r \in Requests, r # q
      PROVE  io'[r] = io[r] /\ conn'[r] = conn[r] /\ up'[r] = up[r]
  BY <1>1, DistributedTraceAssumption
     DEF NetStep, NetConnect, NetWrite, NetRead, IoDone, CarriedInv,
         CarriedType, ServerTypeInv, ServerTypeOK
<1>2. pc[q] = "idle" /\ q \notin clientEnd
  BY <1>0 DEF ClientInv, SessionInv, FailureInv, ErrorInv
<1>3. io'[q] \in {"ok", "error"} /\ (io'[q] = "error" => Excused(q))
  <2>1. CASE NetConnect(q)
    BY <2>1 DEF NetConnect, IoDone, CarriedInv, CarriedType, FailureInv, Excused
  <2>2. CASE NetWrite(q)
    <3>1. down[q] # "line"
      BY <1>0, <2>2 DEF NetWrite, IoDone, FailureInv, ConnectionInv
    <3>2. Ended(q) => Excused(q)
      BY <1>2, <3>1 DEF Ended, FailureInv, ErrorInv, Excused
    <3> QED
      BY <2>2, <3>2 DEF NetWrite, IoDone, CarriedInv, CarriedType
  <2>3. CASE NetRead(q)
    BY <1>2, <2>3 DEF NetRead, IoDone, Ended, CarriedInv, CarriedType,
                      FailureInv, ErrorInv, Excused
  <2> QED
    BY <2>1, <2>2, <2>3 DEF NetStep
<1>4. /\ conn[q] = "reset" => conn'[q] = "reset"
      /\ service[q] # "none" => conn'[q] = conn[q]
  BY <1>0 DEF NetStep, NetConnect, NetWrite, NetRead, IoDone, FailureInv,
              ConnectionInv
<1>5. up'[q] = up[q] \/ (up'[q] # <<>> /\ stage[q] = "write")
  <2>1. \/ UNCHANGED up
        \/ stage[q] = "write" /\ up' = [up EXCEPT ![q] = m_request[q]]
    BY DEF NetStep, NetConnect, NetWrite, NetRead, IoDone
  <2>2. Sent(q) # <<>>
    BY SentText DEF CarriedInv, CarriedType
  <2>3. stage[q] = "write" => m_request[q] # <<>>
    BY <2>2 DEF CarriedInv, OnItsWay
  <2>4. ASSUME up' = [up EXCEPT ![q] = m_request[q]]
        PROVE  up'[q] = m_request[q]
    BY <2>4 DEF CarriedInv, CarriedType
  <2> QED
    BY <2>1, <2>3, <2>4
<1>6. ConnectionInv(q)'
  BY <1>0, <1>3, <1>4, <1>5 DEF FailureInv, ConnectionInv, ClientInv, SessionInv
<1>7. Excused(q) => Excused(q)'
  BY <1>0, <1>4, ExcusedStable DEF acceptorVars
<1>8. ErrorInv(q)'
  BY <1>0, <1>2, <1>3, <1>7 DEF FailureInv, ErrorInv
<1>9. ASSUME NEW r \in Requests, r # q
      PROVE  ConnectionInv(r)' /\ ErrorInv(r)'
  BY <1>0, <1>1, <1>9
     DEF FailureInv, ConnectionInv, ErrorInv, Excused, acceptorVars
<1> QED
  BY <1>0, <1>6, <1>8, <1>9 DEF FailureInv, acceptorVars

(* The server: it ends a connection after its line, after the client has   *)
(* ended it, or because it stops; what a client that traces sends it       *)
(* always answers with the line.                                           *)
LEMMA ServerFailure ==
    ASSUME CarriedInv, ServerTypeInv, FailureInv, ServerNext,
           UNCHANGED <<vars, tracing, m_request>>
    PROVE  FailureInv'
<1> USE DistributedTraceAssumption
<1>0. /\ UNCHANGED <<stage, io, pc, m_ec, reported, tracing, up, clientEnd>>
      /\ m_isStopped => m_isStopped'
  BY DEF vars, ServerNext, AcceptStep, ServiceStep, FinishStop, OnAccept,
         OnAcceptError, OnRequestError, OnRequestReceived, Respond,
         SendResponse, OnResponseSent, StopAcceptor, StopIos, JoinPool, Reset,
         netVars, acceptorVars
<1>1. ~listening' \/ main' # "sleep" => m_isStopped'
  BY DEF FailureInv, ServerNext, AcceptStep, ServiceStep, FinishStop, OnAccept,
         OnAcceptError, InitAccept, OnRequestError, OnRequestReceived, Respond,
         SendResponse, OnResponseSent, StopAcceptor, StopIos, JoinPool, Reset,
         acceptorVars, ServerTypeInv, ServerTypeOK
<1>2. ASSUME NEW r \in Requests
      PROVE  /\ conn[r] = "none" => conn'[r] = "none"
             /\ conn[r] = "reset" => conn'[r] = "reset"
             /\ conn[r] = "open" => conn'[r] \in {"open", "reset"}
  BY DEF ServerNext, AcceptStep, ServiceStep, FinishStop, OnAccept,
         OnAcceptError, LeaveBacklog, OnRequestError, OnRequestReceived,
         Respond, SendResponse, OnResponseSent, StopAcceptor, StopIos,
         JoinPool, Reset, netVars, ServerTypeInv, ServerTypeOK
<1>3. ASSUME NEW r \in Requests
      PROVE  Excused(r) => Excused(r)'
  BY <1>0, <1>2, ExcusedStable
<1>4. CASE AcceptStep
  <2>1. PICK c \in Requests : OnAccept(c) \/ OnAcceptError(c)
    BY <1>4 DEF AcceptStep
  <2>2. UNCHANGED <<down, serverEnd, m_response>>
    BY <2>1 DEF OnAccept, OnAcceptError
  <2>3. ASSUME NEW r \in Requests
        PROVE  \/ service'[r] = service[r]
               \/ service'[r] = "read" /\ conn'[r] = "open"
    BY <2>1
       DEF OnAccept, OnAcceptError, LeaveBacklog, ServerTypeInv, ServerTypeOK
  <2>4. ASSUME NEW r \in Requests
        PROVE  ConnectionInv(r)'
    BY <1>0, <1>2, <2>2, <2>3 DEF FailureInv, ConnectionInv
  <2>5. ASSUME NEW r \in Requests
        PROVE  ErrorInv(r)'
    BY <1>0, <1>3, <2>2, <2>3 DEF FailureInv, ErrorInv
  <2> QED
    BY <1>1, <2>4, <2>5 DEF FailureInv
<1>5. ASSUME NEW c \in Requests, OnRequestError(c) \/ OnResponseSent(c)
      PROVE  FailureInv'
  <2>1. /\ UNCHANGED <<conn, down, m_response>>
        /\ service' = [service EXCEPT ![c] = "deleted"]
        /\ serverEnd' = serverEnd \cup {c}
        /\ service[c] # "none"
    BY <1>5 DEF OnRequestError, OnResponseSent, OnFinish
  <2>2. Excused(c) \/ c \in clientEnd \/ down[c] = "line"
    BY <1>5 DEF OnRequestError, OnResponseSent, ReadFailed, FailureInv,
                ErrorInv, Excused
  <2>3. ASSUME NEW r \in Requests
        PROVE  ConnectionInv(r)'
    BY <1>0, <2>1 DEF FailureInv, ConnectionInv
  <2>4. ASSUME NEW r \in Requests
        PROVE  ErrorInv(r)'
    BY <1>0, <1>3, <2>1, <2>2 DEF FailureInv, ErrorInv
  <2> QED
    BY <1>1, <2>3, <2>4 DEF FailureInv
<1>6. ASSUME NEW c \in Requests, OnRequestReceived(c)
      PROVE  FailureInv'
  <2>1. /\ UNCHANGED <<conn, down, serverEnd, m_response>>
        /\ service' = [service EXCEPT ![c] = "process"]
        /\ service[c] # "none" /\ up[c] # <<>>
    BY <1>6 DEF OnRequestReceived, netVars
  <2>2. ASSUME NEW r \in Requests
        PROVE  ConnectionInv(r)'
    BY <1>0, <2>1 DEF FailureInv, ConnectionInv
  <2>3. ASSUME NEW r \in Requests
        PROVE  ErrorInv(r)'
    BY <1>0, <1>3, <2>1 DEF FailureInv, ErrorInv
  <2> QED
    BY <1>1, <2>2, <2>3 DEF FailureInv
<1>7. ASSUME NEW c \in Requests, Respond(c)
      PROVE  FailureInv'
  <2>1. /\ UNCHANGED <<conn, down, serverEnd>>
        /\ service' = [service EXCEPT ![c] = "write"]
        /\ m_response' = [m_response EXCEPT ![c] = Answer(up[c])]
        /\ service[c] = "process" /\ up[c] # <<>>
    BY <1>7 DEF Respond, netVars, FailureInv, ConnectionInv
  <2>2. Excused(c) \/ Answer(up[c]) = "line"
    <3>1. up[c] = Sent(c)
      BY <2>1 DEF CarriedInv, OnItsWayBack
    <3>2. tracing = TRUE \/ Excused(c)
      BY DEF Excused
    <3> QED
      BY <3>1, <3>2, TracedAccepted
  <2>3. ASSUME NEW r \in Requests
        PROVE  ConnectionInv(r)'
    BY <1>0, <2>1 DEF FailureInv, ConnectionInv
  <2>4. ASSUME NEW r \in Requests
        PROVE  ErrorInv(r)'
    BY <1>0, <1>3, <2>1, <2>2
       DEF FailureInv, ErrorInv, ServerTypeInv, ServerTypeOK
  <2> QED
    BY <1>1, <2>3, <2>4 DEF FailureInv
<1>8. ASSUME NEW c \in Requests, SendResponse(c)
      PROVE  FailureInv'
  <2>1. /\ UNCHANGED <<conn, serverEnd, m_response>>
        /\ service' = [service EXCEPT ![c] = "sent"]
        /\ down' = IF conn[c] = "open" THEN [down EXCEPT ![c] = m_response[c]]
                                       ELSE down
        /\ service[c] = "write"
    BY <1>8 DEF SendResponse
  <2>2. up[c] # <<>> /\ conn[c] \in {"open", "reset"}
    BY <2>1 DEF FailureInv, ConnectionInv
  <2>3. Excused(c) \/ down'[c] = "line"
    BY <2>1, <2>2 DEF FailureInv, ErrorInv, Excused, ServerTypeInv, ServerTypeOK
  <2>4. \A r \in Requests \ {c} : down'[r] = down[r]
    BY <2>1
  <2>5. down[c] = "line" => Excused(c) \/ down'[c] = "line"
    BY <2>3
  <2>6. ASSUME NEW r \in Requests
        PROVE  ConnectionInv(r)'
    BY <1>0, <2>1, <2>2, <2>4 DEF FailureInv, ConnectionInv
  <2>7. ASSUME NEW r \in Requests
        PROVE  ErrorInv(r)'
    BY <1>0, <1>3, <2>1, <2>3, <2>4, <2>5 DEF FailureInv, ErrorInv
  <2> QED
    BY <1>1, <2>6, <2>7 DEF FailureInv
<1>9. CASE StopAcceptor \/ FinishStop \/ \E c \in Requests : Reset(c)
  <2>1. /\ UNCHANGED <<down, service, m_response>>
        /\ serverEnd' = serverEnd \/ m_isStopped
    BY <1>9
       DEF StopAcceptor, FinishStop, StopIos, JoinPool, Reset, netVars,
           FailureInv
  <2>2. ASSUME NEW r \in Requests
        PROVE  ConnectionInv(r)'
    BY <1>0, <1>2, <2>1 DEF FailureInv, ConnectionInv
  <2>3. ASSUME NEW r \in Requests
        PROVE  r \in serverEnd' => r \in serverEnd \/ Excused(r)
    BY <2>1 DEF Excused
  <2>4. ASSUME NEW r \in Requests
        PROVE  ErrorInv(r)'
    BY <1>0, <1>3, <2>1, <2>3 DEF FailureInv, ErrorInv
  <2> QED
    BY <1>1, <2>2, <2>4 DEF FailureInv
<1> QED
  BY <1>4, <1>5, <1>6, <1>7, <1>8, <1>9 DEF ServerNext, ServiceStep

(* The invariant is inductive, beside those of the client, of the types    *)
(* and of the request on its way.                                          *)
LEMMA FailureStep ==
    ClientInv /\ CarriedInv /\ ServerTypeInv /\ FailureInv /\ [DistNext]_distVars
      => FailureInv'
<1> SUFFICES ASSUME ClientInv, CarriedInv, ServerTypeInv, FailureInv,
                    [DistNext]_distVars
             PROVE  FailureInv'
  OBVIOUS
<1>1. CASE UserStepD
  BY <1>1, UserFailure
<1>2. ASSUME NEW r \in Requests, HandlerStepD(r)
      PROVE  FailureInv'
  BY <1>2, HandlerFailure
<1>3. ASSUME NEW r \in Requests, NetStep(r)
      PROVE  FailureInv'
  BY <1>3, NetFailure
<1>4. CASE ServerNext /\ UNCHANGED <<vars, tracing, m_request>>
  BY <1>4, ServerFailure
<1>5. CASE UNCHANGED distVars
  BY <1>5 DEF distVars, vars, serverVars, netVars, acceptorVars, FailureInv,
              ConnectionInv, ErrorInv, Excused
<1> QED
  BY <1>1, <1>2, <1>3, <1>4, <1>5 DEF DistNext

(* A request of a client that traces is reported as an error only when its *)
(* connection broke or was refused or the server was told to stop: what it *)
(* sends is never rejected, and the server never hangs up on it.           *)
THEOREM FailureExplainedHolds == DistSpec => []FailureExplained
<1>1. FailureInv => FailureExplained
  BY DEF FailureInv, ErrorInv, Excused, FailureExplained
<1> QED
  BY <1>1, ClientInvHolds, CarriedInit, CarriedStep, ServerTypeInit,
     ServerTypeStep, FailureInit, FailureStep, PTL DEF DistSpec
===============================================================================
