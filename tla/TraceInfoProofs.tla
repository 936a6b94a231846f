---------------------------- MODULE TraceInfoProofs ---------------------------
(***************************************************************************)
(* What the trace info codec promises, for every width of its fields and   *)
(* every alphabet: decoding gives back what was encoded, two contexts are  *)
(* never written alike, and whatever the decoder accepts is a valid        *)
(* context.                                                                *)
(***************************************************************************)
EXTENDS TraceInfo, TLAPS

Contexts == [span_id : SpanIds, trace_id : TraceIds, flags : Flags]

(* The hexadecimal text of one field.                                      *)
Hex(id) == [i \in DOMAIN id |-> ToHex[id[i]]]

(* The characters of the text: dashes at the two offsets before the ids,   *)
(* hexadecimal digits everywhere else.                                     *)
LEMMA GetIdsChars ==
    ASSUME NEW ctx \in Contexts, NEW i \in 1 .. TRACE_INFO_SIZE
    PROVE  IF i \in {SPAN_ID_OFFSET, TRACE_ID_OFFSET}
           THEN GetIds(ctx)[i] = Dash
           ELSE GetIds(ctx)[i] \in DOMAIN FromHex
<1> USE TraceInfoAssumption
        DEF Range0, FLAGS_OFFSET, SPAN_ID_OFFSET, TRACE_ID_OFFSET
<1>1. CASE i \in Range0(FLAGS_OFFSET, FLAGS_SIZE)
  <2>1. i - FLAGS_OFFSET \in 1 .. FLAGS_SIZE
    BY <1>1
  <2>2. ctx.flags[i - FLAGS_OFFSET] \in Nibbles
    BY <2>1 DEF Contexts, Flags
  <2>3. GetIds(ctx)[i] \in DOMAIN FromHex
    BY <1>1, <2>2 DEF GetIds
  <2> QED
    BY <1>1, <2>3
<1>2. CASE i \in Range0(SPAN_ID_OFFSET, SPAN_ID_SIZE)
  <2>1. i - SPAN_ID_OFFSET \in 1 .. SPAN_ID_SIZE
    BY <1>2
  <2>2. ctx.span_id[i - SPAN_ID_OFFSET] \in Nibbles
    BY <2>1 DEF Contexts, SpanIds
  <2>3. i \notin Range0(FLAGS_OFFSET, FLAGS_SIZE)
    BY <1>2
  <2>4. GetIds(ctx)[i] \in DOMAIN FromHex
    BY <1>2, <2>2, <2>3 DEF GetIds
  <2> QED
    BY <1>2, <2>4
<1>3. CASE i \in Range0(TRACE_ID_OFFSET, TRACE_ID_SIZE)
  <2>1. i - TRACE_ID_OFFSET \in 1 .. TRACE_ID_SIZE
    BY <1>3
  <2>2. ctx.trace_id[i - TRACE_ID_OFFSET] \in Nibbles
    BY <2>1 DEF Contexts, TraceIds
  <2>3. /\ i \notin Range0(FLAGS_OFFSET, FLAGS_SIZE)
        /\ i \notin Range0(SPAN_ID_OFFSET, SPAN_ID_SIZE)
    BY <1>3
  <2>4. GetIds(ctx)[i] \in DOMAIN FromHex
    BY <1>3, <2>2, <2>3 DEF GetIds
  <2> QED
    BY <1>3, <2>4
<1>4. CASE /\ i \notin Range0(FLAGS_OFFSET, FLAGS_SIZE)
           /\ i \notin Range0(SPAN_ID_OFFSET, SPAN_ID_SIZE)
           /\ i \notin Range0(TRACE_ID_OFFSET, TRACE_ID_SIZE)
  <2>1. i \in {SPAN_ID_OFFSET, TRACE_ID_OFFSET}
    BY <1>4 DEF TRACE_INFO_SIZE
  <2>2. GetIds(ctx)[i] = Dash
    BY <1>4 DEF GetIds
  <2> QED
    BY <2>1, <2>2
<1> QED
  BY <1>1, <1>2, <1>3, <1>4

(* The text of GetIdsImpl has the length that ExtractSpanContextFromIds    *)
(* tests for.                                                              *)
LEMMA GetIdsText ==
    ASSUME NEW ctx \in Contexts
    PROVE  GetIds(ctx) \in Seq(Char) /\ Len(GetIds(ctx)) = TRACE_INFO_SIZE
<1>1. TRACE_INFO_SIZE \in Nat
  BY TraceInfoAssumption DEF TRACE_INFO_SIZE
<1>2. ASSUME NEW i \in 1 .. TRACE_INFO_SIZE
      PROVE  GetIds(ctx)[i] \in Char
  BY GetIdsChars, TraceInfoAssumption
<1>3. GetIds(ctx) \in [1 .. TRACE_INFO_SIZE -> Char]
  BY <1>2 DEF GetIds
<1> QED
  BY <1>1, <1>3

(* Each field of the text is the hexadecimal text of its id, and the       *)
(* characters between the fields are dashes.                               *)
LEMMA GetIdsFields ==
    ASSUME NEW ctx \in Contexts
    PROVE  /\ Field(GetIds(ctx), FLAGS_OFFSET, FLAGS_SIZE) = Hex(ctx.flags)
           /\ Field(GetIds(ctx), SPAN_ID_OFFSET, SPAN_ID_SIZE) = Hex(ctx.span_id)
           /\ Field(GetIds(ctx), TRACE_ID_OFFSET, TRACE_ID_SIZE) = Hex(ctx.trace_id)
           /\ GetIds(ctx)[SPAN_ID_OFFSET] = Dash
           /\ GetIds(ctx)[TRACE_ID_OFFSET] = Dash
<1> USE TraceInfoAssumption
<1>d. /\ DOMAIN ctx.flags = 1 .. FLAGS_SIZE
      /\ DOMAIN ctx.span_id = 1 .. SPAN_ID_SIZE
      /\ DOMAIN ctx.trace_id = 1 .. TRACE_ID_SIZE
  BY DEF Contexts, Flags, SpanIds, TraceIds
<1>1. Field(GetIds(ctx), FLAGS_OFFSET, FLAGS_SIZE) = Hex(ctx.flags)
  <2>1. ASSUME NEW i \in 1 .. FLAGS_SIZE
        PROVE  GetIds(ctx)[FLAGS_OFFSET + i] = ToHex[ctx.flags[i]]
    <3>1. /\ FLAGS_OFFSET + i \in 1 .. TRACE_INFO_SIZE
          /\ FLAGS_OFFSET + i \in Range0(FLAGS_OFFSET, FLAGS_SIZE)
          /\ (FLAGS_OFFSET + i) - FLAGS_OFFSET = i
      BY DEF Range0, FLAGS_OFFSET, TRACE_INFO_SIZE
    <3> QED
      BY <3>1 DEF GetIds
  <2> QED
    BY <1>d, <2>1 DEF Field, Hex
<1>2. Field(GetIds(ctx), SPAN_ID_OFFSET, SPAN_ID_SIZE) = Hex(ctx.span_id)
  <2>1. ASSUME NEW i \in 1 .. SPAN_ID_SIZE
        PROVE  GetIds(ctx)[SPAN_ID_OFFSET + i] = ToHex[ctx.span_id[i]]
    <3>1. /\ SPAN_ID_OFFSET + i \in 1 .. TRACE_INFO_SIZE
          /\ SPAN_ID_OFFSET + i \notin Range0(FLAGS_OFFSET, FLAGS_SIZE)
          /\ SPAN_ID_OFFSET + i \in Range0(SPAN_ID_OFFSET, SPAN_ID_SIZE)
          /\ (SPAN_ID_OFFSET + i) - SPAN_ID_OFFSET = i
      BY DEF Range0, FLAGS_OFFSET, SPAN_ID_OFFSET, TRACE_INFO_SIZE
    <3> QED
      BY <3>1 DEF GetIds
  <2> QED
    BY <1>d, <2>1 DEF Field, Hex
<1>3. Field(GetIds(ctx), TRACE_ID_OFFSET, TRACE_ID_SIZE) = Hex(ctx.trace_id)
  <2>1. ASSUME NEW i \in 1 .. TRACE_ID_SIZE
        PROVE  GetIds(ctx)[TRACE_ID_OFFSET + i] = ToHex[ctx.trace_id[i]]
    <3>1. /\ TRACE_ID_OFFSET + i \in 1 .. TRACE_INFO_SIZE
          /\ TRACE_ID_OFFSET + i \notin Range0(FLAGS_OFFSET, FLAGS_SIZE)
          /\ TRACE_ID_OFFSET + i \notin Range0(SPAN_ID_OFFSET, SPAN_ID_SIZE)
          /\ TRACE_ID_OFFSET + i \in Range0(TRACE_ID_OFFSET, TRACE_ID_SIZE)
          /\ (TRACE_ID_OFFSET + i) - TRACE_ID_OFFSET = i
      BY DEF Range0, FLAGS_OFFSET, SPAN_ID_OFFSET, TRACE_ID_OFFSET,
             TRACE_INFO_SIZE
    <3> QED
      BY <3>1 DEF GetIds
  <2> QED
    BY <1>d, <2>1 DEF Field, Hex
<1>4. GetIds(ctx)[SPAN_ID_OFFSET] = Dash
  BY DEF GetIds, Range0, FLAGS_OFFSET, SPAN_ID_OFFSET, TRACE_ID_OFFSET,
         TRACE_INFO_SIZE
<1>5. GetIds(ctx)[TRACE_ID_OFFSET] = Dash
  BY DEF GetIds, Range0, FLAGS_OFFSET, SPAN_ID_OFFSET, TRACE_ID_OFFSET,
         TRACE_INFO_SIZE
<1> QED
  BY <1>1, <1>2, <1>3, <1>4, <1>5

(* IsValidHex accepts what ToLowerBase16 wrote, and reading it gives the   *)
(* id back.                                                                *)
LEMMA HexInverse ==
    ASSUME NEW n \in Nat, NEW id \in [1 .. n -> Nibbles]
    PROVE  IsValidHex(Hex(id)) /\ IdFromHex(Hex(id)) = id
BY TraceInfoAssumption DEF IsValidHex, IdFromHex, Hex

(* ExtractSpanContextFromIds accepts the text of every valid context and   *)
(* gives back its span id and its trace id: no id is cut, shifted or       *)
(* mistaken for another field.                                             *)
THEOREM RoundTrip ==
    ASSUME NEW ctx \in Contexts, IsValid(ctx)
    PROVE  /\ IsValid(ExtractSpanContext(GetIds(ctx)))
           /\ ExtractSpanContext(GetIds(ctx)).span_id = ctx.span_id
           /\ ExtractSpanContext(GetIds(ctx)).trace_id = ctx.trace_id
<1> DEFINE text == GetIds(ctx)
<1>1. /\ ctx.flags \in [1 .. FLAGS_SIZE -> Nibbles]
      /\ ctx.span_id \in [1 .. SPAN_ID_SIZE -> Nibbles]
      /\ ctx.trace_id \in [1 .. TRACE_ID_SIZE -> Nibbles]
  BY DEF Contexts, Flags, SpanIds, TraceIds
<1>2. /\ IsValidHex(Hex(ctx.flags))
      /\ IsValidHex(Hex(ctx.span_id)) /\ IdFromHex(Hex(ctx.span_id)) = ctx.span_id
      /\ IsValidHex(Hex(ctx.trace_id)) /\ IdFromHex(Hex(ctx.trace_id)) = ctx.trace_id
  BY <1>1, HexInverse, TraceInfoAssumption
<1>3. WellFormed(text)
  BY <1>2, GetIdsText, GetIdsFields DEF WellFormed
<1>4. /\ Decoded(text).span_id = ctx.span_id
      /\ Decoded(text).trace_id = ctx.trace_id
  BY <1>2, GetIdsFields DEF Decoded
<1>5. IsValid(Decoded(text))
  BY <1>4 DEF IsValid
<1>6. ExtractSpanContext(text) = Decoded(text)
  BY <1>3, <1>5 DEF ExtractSpanContext
<1> QED
  BY <1>4, <1>5, <1>6

(* Two contexts that GetIdsImpl writes alike are the same, flags included. *)
THEOREM Unambiguous ==
    ASSUME NEW c \in Contexts, NEW d \in Contexts, GetIds(c) = GetIds(d)
    PROVE  c = d
<1>1. /\ Hex(c.flags) = Hex(d.flags)
      /\ Hex(c.span_id) = Hex(d.span_id)
      /\ Hex(c.trace_id) = Hex(d.trace_id)
  BY GetIdsFields
<1>2. /\ c.flags \in [1 .. FLAGS_SIZE -> Nibbles]
      /\ c.span_id \in [1 .. SPAN_ID_SIZE -> Nibbles]
      /\ c.trace_id \in [1 .. TRACE_ID_SIZE -> Nibbles]
      /\ d.flags \in [1 .. FLAGS_SIZE -> Nibbles]
      /\ d.span_id \in [1 .. SPAN_ID_SIZE -> Nibbles]
      /\ d.trace_id \in [1 .. TRACE_ID_SIZE -> Nibbles]
  BY DEF Contexts, Flags, SpanIds, TraceIds
<1>3. c.flags = d.flags
  BY <1>1, <1>2, HexInverse, TraceInfoAssumption
<1>4. c.span_id = d.span_id /\ c.trace_id = d.trace_id
  BY <1>1, <1>2, HexInverse, TraceInfoAssumption
<1> QED
  BY <1>3, <1>4 DEF Contexts

(* Whatever text arrives, ExtractSpanContextFromIds returns ids of the     *)
(* right widths, and either the invalid context or a valid one whose text, *)
(* letter case and flags aside, is the one that arrived.                   *)
THEOREM DecoderSound ==
    ASSUME NEW text \in Seq(Char)
    PROVE  LET ctx == ExtractSpanContext(text) IN
           /\ ctx.span_id \in SpanIds /\ ctx.trace_id \in TraceIds
           /\ \/ ctx = Invalid
              \/ /\ IsValid(ctx)
                 /\ Len(text) = TRACE_INFO_SIZE
                 /\ \A i \in 1 .. SPAN_ID_SIZE :
                      FromHex[text[SPAN_ID_OFFSET + i]] = ctx.span_id[i]
                 /\ \A i \in 1 .. TRACE_ID_SIZE :
                      FromHex[text[TRACE_ID_OFFSET + i]] = ctx.trace_id[i]
<1> USE TraceInfoAssumption
<1>1. CASE WellFormed(text) /\ IsValid(Decoded(text))
  <2>1. ExtractSpanContext(text) = Decoded(text)
    BY <1>1 DEF ExtractSpanContext
  <2>2. /\ Decoded(text).span_id =
             [i \in 1 .. SPAN_ID_SIZE |-> FromHex[text[SPAN_ID_OFFSET + i]]]
        /\ Decoded(text).trace_id =
             [i \in 1 .. TRACE_ID_SIZE |-> FromHex[text[TRACE_ID_OFFSET + i]]]
    BY DEF Decoded, IdFromHex, Field
  <2>3. /\ \A i \in 1 .. SPAN_ID_SIZE : text[SPAN_ID_OFFSET + i] \in DOMAIN FromHex
        /\ \A i \in 1 .. TRACE_ID_SIZE : text[TRACE_ID_OFFSET + i] \in DOMAIN FromHex
    BY <1>1 DEF WellFormed, IsValidHex, Field
  <2>4. Decoded(text).span_id \in SpanIds /\ Decoded(text).trace_id \in TraceIds
    BY <2>2, <2>3 DEF SpanIds, TraceIds
  <2>5. Len(text) = TRACE_INFO_SIZE
    BY <1>1 DEF WellFormed
  <2> QED
    BY <1>1, <2>1, <2>2, <2>4, <2>5
<1>2. CASE ~(WellFormed(text) /\ IsValid(Decoded(text)))
  <2>1. ExtractSpanContext(text) = Invalid
    BY <1>2 DEF ExtractSpanContext
  <2>2. Invalid.span_id \in SpanIds /\ Invalid.trace_id \in TraceIds
    BY DEF Invalid, Zeros, SpanIds, TraceIds
  <2> QED
    BY <2>1, <2>2
<1> QED
  BY <1>1, <1>2
===============================================================================
