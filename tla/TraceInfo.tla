------------------------------ MODULE TraceInfo -------------------------------
(***************************************************************************)
(* The text in which a span travels to another thread or process: GetIdsImpl *)
(* and ExtractSpanContextFromIds of zil::trace2 (Tracing2.cpp), and the    *)
(* same code once more in the older zil::trace (Helper.cpp).               *)
(*                                                                         *)
(*     flags "-" span id "-" trace id                                      *)
(*                                                                         *)
(* The widths are parameters (2, 16 and 32 in the code), and so is the     *)
(* alphabet: an id is a sequence of nibbles, ToHex writes a nibble in      *)
(* lower case and FromHex reads any hexadecimal character.  The trace2     *)
(* decoder returns nullopt where the older one returns the invalid         *)
(* context; both are Invalid here.                                         *)
(***************************************************************************)
EXTENDS Naturals, Sequences

CONSTANTS
    FLAGS_SIZE, SPAN_ID_SIZE, TRACE_ID_SIZE,
    Nibbles, Zero,           \* values of half a byte
    Char, Dash,              \* characters, '-'
    ToHex,                   \* ToLowerBase16 of one nibble
    FromHex,                 \* value of each character IsValidHex accepts
    TraceFlagsFromHex(_)     \* B3PropagatorExtractor::TraceFlagsFromHex

ASSUME TraceInfoAssumption ==
    /\ FLAGS_SIZE \in Nat \ {0}
    /\ SPAN_ID_SIZE \in Nat \ {0}
    /\ TRACE_ID_SIZE \in Nat \ {0}
    /\ Zero \in Nibbles
    /\ Dash \in Char
    /\ DOMAIN FromHex \subseteq Char \ {Dash}
    /\ FromHex \in [DOMAIN FromHex -> Nibbles]
    /\ ToHex \in [Nibbles -> DOMAIN FromHex]
    /\ \A n \in Nibbles : FromHex[ToHex[n]] = n

FLAGS_OFFSET == 0

SPAN_ID_OFFSET == FLAGS_SIZE + 1

TRACE_ID_OFFSET == SPAN_ID_OFFSET + SPAN_ID_SIZE + 1

TRACE_INFO_SIZE == FLAGS_SIZE + 1 + SPAN_ID_SIZE + 1 + TRACE_ID_SIZE

SpanIds == [1 .. SPAN_ID_SIZE -> Nibbles]

TraceIds == [1 .. TRACE_ID_SIZE -> Nibbles]

Flags == [1 .. FLAGS_SIZE -> Nibbles]

Zeros(n) == [i \in 1 .. n |-> Zero]

(* SpanContext::GetInvalid and SpanContext::IsValid.                       *)
Invalid == [span_id |-> Zeros(SPAN_ID_SIZE), trace_id |-> Zeros(TRACE_ID_SIZE),
            flags |-> Zeros(FLAGS_SIZE)]

IsValid(ctx) ==
    ctx.span_id # Zeros(SPAN_ID_SIZE) /\ ctx.trace_id # Zeros(TRACE_ID_SIZE)

(* The index range of the field of width n at the 0-based offset off, what *)
(* a text has there, and the nibbles this stands for.                      *)
Range0(off, n) == off + 1 .. off + n

Field(text, off, n) == [i \in 1 .. n |-> text[off + i]]

IsValidHex(field) == \A i \in DOMAIN field : field[i] \in DOMAIN FromHex

IdFromHex(field) == [i \in DOMAIN field |-> FromHex[field[i]]]

(* GetIdsImpl: a text of dashes, overwritten with the three fields.        *)
GetIds(ctx) ==
    [i \in 1 .. TRACE_INFO_SIZE |->
        IF i \in Range0(FLAGS_OFFSET, FLAGS_SIZE)
        THEN ToHex[ctx.flags[i - FLAGS_OFFSET]]
        ELSE IF i \in Range0(SPAN_ID_OFFSET, SPAN_ID_SIZE)
        THEN ToHex[ctx.span_id[i - SPAN_ID_OFFSET]]
        ELSE IF i \in Range0(TRACE_ID_OFFSET, TRACE_ID_SIZE)
        THEN ToHex[ctx.trace_id[i - TRACE_ID_OFFSET]]
        ELSE Dash]

(* ExtractTraceInfoFromActiveSpan: nothing for an invalid context.         *)
ExtractTraceInfo(ctx) == IF IsValid(ctx) THEN GetIds(ctx) ELSE <<>>

(* The tests ExtractSpanContextFromIds makes before it reads the ids.      *)
WellFormed(text) ==
    /\ Len(text) = TRACE_INFO_SIZE
    /\ text[SPAN_ID_OFFSET] = Dash
    /\ text[TRACE_ID_OFFSET] = Dash
    /\ IsValidHex(Field(text, TRACE_ID_OFFSET, TRACE_ID_SIZE))
    /\ IsValidHex(Field(text, SPAN_ID_OFFSET, SPAN_ID_SIZE))
    /\ IsValidHex(Field(text, FLAGS_OFFSET, FLAGS_SIZE))

Decoded(text) ==
    [span_id |-> IdFromHex(Field(text, SPAN_ID_OFFSET, SPAN_ID_SIZE)),
     trace_id |-> IdFromHex(Field(text, TRACE_ID_OFFSET, TRACE_ID_SIZE)),
     flags |-> TraceFlagsFromHex(Field(text, FLAGS_OFFSET, FLAGS_SIZE))]

ExtractSpanContext(text) ==
    IF WellFormed(text) /\ IsValid(Decoded(text)) THEN Decoded(text) ELSE Invalid
==============================================================================
