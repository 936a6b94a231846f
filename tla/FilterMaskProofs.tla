--------------------------- MODULE FilterMaskProofs ---------------------------
(***************************************************************************)
(* The filter masks are exact as long as every class has a bit of its own  *)
(* in an int, for every width, number of names and order of the names.     *)
(***************************************************************************)
EXTENDS FilterMask, TLAPS

(* Typing is preserved by the loop.                                        *)
LEMMA TypeStep == TypeOK /\ [Next]_vars => TypeOK'
<1> SUFFICES ASSUME TypeOK, [Next]_vars
             PROVE  TypeOK'
  OBVIOUS
<1>1. CASE InitLoop
  <2>2. ASSUME NEW f \in Class, NEW b \in Shift(f)
        PROVE  b \subseteq ALL
    BY FilterAssumption DEF Shift, ShiftDefined, ALL, Class
  <2>3. m_mask' \in SUBSET ALL
    BY <1>1, <2>2 DEF TypeOK, InitLoop, UpdateMetricsMask
  <2>4. pos' \in 1 .. Len(flags') + 1 /\ done' \in BOOLEAN
    <3>1. ~done
      BY <1>1 DEF InitLoop
    <3>2. pos # Len(flags) + 1
      BY <3>1 DEF TypeOK
    <3> QED
      BY <1>1, <3>2 DEF TypeOK, InitLoop
  <2>5. done' <=> (m_mask' = ALL \/ pos' = Len(flags') + 1)
    <3>1. done' <=> (m_mask' = ALL \/ pos = Len(flags))
      BY <1>1 DEF InitLoop
    <3>2. pos' = pos + 1 /\ flags' = flags
      BY <1>1 DEF InitLoop
    <3>3. pos \in Nat /\ Len(flags) \in Nat
      BY DEF TypeOK
    <3>4. pos' = Len(flags') + 1 <=> pos = Len(flags)
      BY <3>2, <3>3
    <3> QED
      BY <3>1, <3>4
  <2> QED
    BY <1>1, <2>3, <2>4, <2>5 DEF TypeOK, InitLoop
<1>2. CASE UNCHANGED vars
  BY <1>2 DEF TypeOK, vars
<1> QED
  BY <1>1, <1>2 DEF Next

(* The loop starts well typed.                                             *)
LEMMA TypeInit == Init => TypeOK
<1> SUFFICES ASSUME Init
             PROVE  TypeOK
  OBVIOUS
<1>1. PICK n \in 1 .. MaxFlags : flags \in [1 .. n -> Name]
  BY DEF Init
<1>2. n \in Nat /\ n >= 1
  BY FilterAssumption
<1>3. flags \in Seq(Name) /\ Len(flags) = n
  BY <1>1, <1>2
<1>4. flags # <<>>
  BY <1>2, <1>3
<1>5. pos \in 1 .. Len(flags) + 1 /\ pos <= Len(flags)
  BY <1>2, <1>3 DEF Init
<1>6. m_mask \in SUBSET ALL /\ done \in BOOLEAN /\ ~done
  BY DEF Init
<1>7. m_mask # ALL
  <2>1. 0 \in ALL
    BY FilterAssumption DEF ALL
  <2> QED
    BY <2>1 DEF Init
<1>8. pos # Len(flags) + 1
  BY <1>2, <1>3 DEF Init
<1> QED
  BY <1>3, <1>4, <1>5, <1>6, <1>7, <1>8 DEF TypeOK

(* The loop of Filter::init stays within the list of names, and has ended  *)
(* exactly when every bit is set or no name is left, also where a sign bit *)
(* fills the rest of the mask.                                             *)
THEOREM TypeCorrect == Spec => []TypeOK
  BY TypeInit, TypeStep, PTL DEF Spec

-----------------------------------------------------------------------------
(* Classes that all fit in an int have disjoint, non-empty sets of bits.   *)
LEMMA BitsDisjoint ==
  ASSUME NumClasses <= IntWidth, NEW c \in Class, NEW d \in Class
  PROVE  /\ Shift(c) = {ShiftDefined(c)}
         /\ ShiftDefined(c) \subseteq ALL
         /\ (ShiftDefined(c) \cap ShiftDefined(d) # {}) <=> c = d
<1>1. c \in Nat /\ d \in Nat /\ c < IntWidth /\ d < IntWidth
  BY FilterAssumption DEF Class
<1>2. Shift(c) = {ShiftDefined(c)}
  BY <1>1 DEF Shift
<1>3. ShiftDefined(c) \subseteq ALL /\ c \in ShiftDefined(c)
  BY <1>1, FilterAssumption DEF ShiftDefined, ALL
<1>4. ASSUME c # d
      PROVE  ShiftDefined(c) \cap ShiftDefined(d) = {}
  BY <1>1, <1>4, FilterAssumption DEF ShiftDefined
<1> QED
  BY <1>2, <1>3, <1>4

(* A name already looked at names the class, or is ALL.                    *)
Seen(c) == \E i \in 1 .. pos - 1 : flags[i] = c \/ flags[i] = AllName

Bits(c) == m_mask \cap ShiftDefined(c)

(* The inductive invariant: so far exactly the classes seen have their     *)
(* bits.  With TypeOK, an ended loop has seen all or has a full mask.      *)
MaskInv ==
    /\ TypeOK
    /\ \A c \in Class : (Bits(c) # {}) <=> Seen(c)

(* Before the first name no class has a bit.                               *)
LEMMA MaskInit == Init => MaskInv
  BY TypeInit DEF Init, MaskInv, Bits, Seen

(* One name keeps MaskInv.                                                 *)
LEMMA MaskStep ==
  ASSUME NumClasses <= IntWidth
  PROVE  MaskInv /\ [Next]_vars => MaskInv'
<1> SUFFICES ASSUME MaskInv, [Next]_vars
             PROVE  MaskInv'
  OBVIOUS
<1>1. TypeOK'
  BY TypeStep DEF MaskInv
<1>2. CASE InitLoop
  <2> DEFINE f == flags[pos]
  <2>1. /\ pos \in Nat /\ pos >= 1 /\ pos <= Len(flags) /\ Len(flags) \in Nat
        /\ pos' = pos + 1 /\ flags' = flags
        /\ m_mask' \in UpdateMetricsMask(m_mask, f)
    BY <1>2 DEF InitLoop, MaskInv, TypeOK
  <2>2. f \in Name
    BY <2>1 DEF MaskInv, TypeOK
  <2> HIDE DEF f
  <2>3. ASSUME NEW c \in Class
        PROVE  Seen(c)' <=> (Seen(c) \/ f = c \/ f = AllName)
    <3>1. 1 .. pos' - 1 = (1 .. pos - 1) \cup {pos}
      BY <2>1
    <3> QED
      BY <2>1, <3>1 DEF Seen, f, AllName
  <2>4. ASSUME NEW c \in Class
        PROVE  (Bits(c)' # {}) <=> Seen(c)'
    <3>1. ShiftDefined(c) \subseteq ALL /\ ShiftDefined(c) # {}
      BY BitsDisjoint
    <3>2. (Bits(c) # {}) <=> Seen(c)
      BY DEF MaskInv
    <3>3. CASE f = AllName
      <4>1. m_mask' = ALL
        BY <2>1, <3>3 DEF UpdateMetricsMask
      <4> QED
        BY <2>3, <3>1, <3>3, <4>1 DEF Bits
    <3>4. CASE f \in Class /\ f # AllName
      <4>1. m_mask' = m_mask \cup ShiftDefined(f)
        BY <2>1, <3>4, BitsDisjoint DEF UpdateMetricsMask
      <4>2. (ShiftDefined(f) \cap ShiftDefined(c) # {}) <=> f = c
        BY <3>4, BitsDisjoint
      <4>3. (Bits(c)' # {}) <=>
              (Bits(c) # {} \/ ShiftDefined(f) \cap ShiftDefined(c) # {})
        BY <4>1 DEF Bits
      <4> QED
        BY <2>3, <3>2, <3>4, <4>2, <4>3
    <3>5. CASE f \notin Class /\ f # AllName
      <4>1. m_mask' = m_mask
        BY <2>1, <3>5 DEF UpdateMetricsMask
      <4> QED
        BY <2>3, <3>2, <3>5, <4>1 DEF Bits
    <3> QED
      BY <3>3, <3>4, <3>5
  <2> QED
    BY <1>1, <2>4 DEF MaskInv
<1>3. CASE UNCHANGED vars
  BY <1>1, <1>3 DEF MaskInv, vars, Bits, Seen
<1> QED
  BY <1>2, <1>3 DEF Next

(* MaskInv holds all through the loop.                                     *)
THEOREM MaskInvariant ==
  ASSUME NumClasses <= IntWidth
  PROVE  Spec => []MaskInv
  BY MaskInit, MaskStep, PTL DEF Spec

(* What Enabled tells, in terms of the bits.                               *)
LEMMA EnabledBits ==
  ASSUME NumClasses <= IntWidth, NEW c \in Class
  PROVE  Enabled(c) = {Bits(c) # {}}
  BY BitsDisjoint DEF Enabled, Bits

(* With at most one class per bit of an int, Enabled tells the configured  *)
(* classes exactly (UpdateMetricsMask, Filter::init, Filter::Enabled); the *)
(* widths of the build make that 32 classes, not the 64 of the comments.   *)
THEOREM FilterExactHolds ==
  ASSUME NumClasses <= IntWidth
  PROVE  Spec => []FilterExact
<1>1. ASSUME MaskInv, done, NEW c \in Class
      PROVE  (Bits(c) # {}) <=> Configured(c)
  <2>1. (Bits(c) # {}) <=> Seen(c)
    BY <1>1 DEF MaskInv
  <2>2. pos \in 1 .. Len(flags) + 1 /\ Len(flags) \in Nat
    BY <1>1 DEF MaskInv, TypeOK
  <2>3. Seen(c) => Configured(c)
    BY <2>2 DEF Seen, Configured
  <2>4. CASE pos = Len(flags) + 1
    <3>1. pos - 1 = Len(flags)
      BY <2>2, <2>4
    <3> QED
      BY <2>1, <3>1 DEF Seen, Configured
  <2>5. CASE m_mask = ALL
    <3>1. Bits(c) # {}
      BY <2>5, BitsDisjoint DEF Bits
    <3> QED
      BY <2>1, <2>3, <3>1
  <2> QED
    BY <1>1, <2>4, <2>5 DEF MaskInv, TypeOK
<1>2. ASSUME MaskInv, done, NEW c \in Class
      PROVE  Enabled(c) = {Configured(c)}
  <2>1. Enabled(c) = {Bits(c) # {}}
    BY EnabledBits
  <2>2. (Bits(c) # {}) = Configured(c)
    BY <1>1, <1>2 DEF Configured
  <2> QED
    BY <2>1, <2>2, Zenon
<1>3. MaskInv => FilterExact
  BY <1>2 DEF FilterExact
<1> QED
  BY <1>3, MaskInvariant, PTL

(* Under the same limit, a test that races with the loop only ever errs    *)
(* towards disabled.                                                       *)
THEOREM NeverOverEnabledHolds ==
  ASSUME NumClasses <= IntWidth
  PROVE  Spec => []NeverOverEnabled
<1>1. ASSUME MaskInv, NEW c \in Class, TRUE \in Enabled(c)
      PROVE  Configured(c)
  <2>1. Bits(c) # {}
    BY <1>1, EnabledBits
  <2>2. Seen(c)
    BY <1>1, <2>1 DEF MaskInv
  <2>3. pos \in 1 .. Len(flags) + 1 /\ Len(flags) \in Nat
    BY <1>1 DEF MaskInv, TypeOK
  <2> QED
    BY <2>2, <2>3 DEF Seen, Configured
<1>2. MaskInv => NeverOverEnabled
  BY <1>1 DEF NeverOverEnabled
<1> QED
  BY <1>2, MaskInvariant, PTL
=============================================================================
