------------------------------ MODULE FilterMask ------------------------------
(***************************************************************************)
(* The filter masks: METRIC_ZILLIQA_MASK and TRACE_ZILLIQA_MASK are comma  *)
(* separated lists of filter class names, parsed into a uint64_t with one  *)
(* bit per class (Filter::init and UpdateMetricsMask in Metrics.cpp, and   *)
(* the same code in Tracing.cpp and Tracing2.cpp), and tested by Enabled.  *)
(*                                                                         *)
(* A mask is the set of its bits.  The code writes the bit of a class as   *)
(* 1 << n, a shift of an int: the sign bit widens to all the higher bits   *)
(* of the mask, and a shift by the width of int or more is undefined.      *)
(***************************************************************************)
EXTENDS Naturals, Sequences

CONSTANTS
    NumClasses,   \* enumerators of FilterClass, numbered from 0
    IntWidth,     \* bits of int
    MaskWidth,    \* bits of the mask
    MaxFlags      \* bound: names in the list

ASSUME FilterAssumption ==
    /\ NumClasses \in Nat /\ IntWidth \in Nat /\ MaskWidth \in Nat
    /\ MaxFlags \in Nat
    /\ 0 < IntWidth /\ IntWidth <= MaskWidth
    /\ NumClasses <= MaskWidth

VARIABLES
    flags,        \* the names boost::split made of the list
    pos,          \* next name to look at
    m_mask,       \* the mask so far
    done          \* the loop has ended

vars == <<flags, pos, m_mask, done>>

Class == 0 .. NumClasses - 1

(* A name is the one of a class, "ALL", or nothing the code knows.         *)
AllName == NumClasses
OtherName == NumClasses + 1
Name == 0 .. NumClasses + 1

ALL == 0 .. MaskWidth - 1

(* The bits of 1 << n for a shift that is defined, widened to the mask.    *)
ShiftDefined(n) == IF n < IntWidth - 1 THEN {n} ELSE IntWidth - 1 .. MaskWidth - 1

(* The outcomes of 1 << n: beyond the width the compiler may take the      *)
(* count modulo the width, as the processor does, or drop the value.       *)
Shift(n) ==
    IF n < IntWidth THEN {ShiftDefined(n)} ELSE {ShiftDefined(n % IntWidth), {}}

(* The outcomes of m_mask & (1 << to_test).                                *)
Enabled(c) == {m_mask \cap b # {} : b \in Shift(c)}

Init ==
    /\ flags \in UNION {[1 .. n -> Name] : n \in 1 .. MaxFlags}
    /\ pos = 1
    /\ m_mask = {}
    /\ done = FALSE

(* Mutant: a name that is not known enables everything.                    *)
UpdateMaskDefaultAll(mask, f) ==
    IF f \in Class THEN {mask \cup b : b \in Shift(f)} ELSE {ALL}

(* UpdateMetricsMask: the masks that one name may leave behind.            *)
UpdateMetricsMask(mask, f) ==
    IF f = AllName THEN {ALL}
    ELSE IF f \in Class THEN {mask \cup b : b \in Shift(f)}
    ELSE {mask}

(* Mutants of the loop: it stops at the first name that sets something; it *)
(* does not stop when the mask is full.                                    *)
InitLoopStopsEarly ==
    /\ ~done
    /\ m_mask' \in UpdateMetricsMask(m_mask, flags[pos])
    /\ pos' = pos + 1
    /\ done' = (m_mask' # {} \/ pos = Len(flags))
    /\ UNCHANGED flags

InitLoopNoBreak ==
    /\ ~done
    /\ m_mask' \in UpdateMetricsMask(m_mask, flags[pos])
    /\ pos' = pos + 1
    /\ done' = (pos = Len(flags))
    /\ UNCHANGED flags

(* One turn of the loop of Filter::init.                                   *)
InitLoop ==
    /\ ~done
    /\ m_mask' \in UpdateMetricsMask(m_mask, flags[pos])
    /\ pos' = pos + 1
    /\ done' = (m_mask' = ALL \/ pos = Len(flags))
    /\ UNCHANGED flags

Next == InitLoop

Spec == Init /\ [][Next]_vars

-----------------------------------------------------------------------------
(* The loop of Filter::init has ended exactly when every bit is set or no  *)
(* name is left.                                                           *)
TypeOK ==
    /\ flags \in Seq(Name) /\ flags # <<>>
    /\ pos \in 1 .. Len(flags) + 1
    /\ m_mask \in SUBSET ALL
    /\ done \in BOOLEAN
    /\ done <=> (m_mask = ALL \/ pos = Len(flags) + 1)

(* The list names the class, or ALL. *)
Configured(c) == \E i \in 1 .. Len(flags) : flags[i] = c \/ flags[i] = AllName

(* A class that is tested while another thread is still in Filter::init is *)
(* never found enabled unless the configuration enables it.                *)
NeverOverEnabled ==
    \A c \in Class : TRUE \in Enabled(c) => Configured(c)

(* After the loop, and in spite of its early exit, exactly the configured  *)
(* classes are enabled, whatever the order and repetition of the names.    *)
FilterExact ==
    done => \A c \in Class : Enabled(c) = {Configured(c)}
===============================================================================
