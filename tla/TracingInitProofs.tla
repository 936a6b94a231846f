--------------------------- MODULE TracingInitProofs ---------------------------
(***************************************************************************)
(* Tracing::Initialize for every number of threads and of filters: it is   *)
(* all or nothing, settled as soon as one call has returned, and no span   *)
(* of an overlapping CreateSpan escapes the filter or, except for the one  *)
(* window against the older class, comes from a no-op tracer.              *)
(***************************************************************************)
EXTENDS TracingInit, TLAPS

(* Inside the callable of call_once.                                       *)
Inside == {"mask", "provider", "tracer", "publish"}

(* call_once: one thread at a time, and only while the flag says so;       *)
(* nobody has left it before it is over.                                   *)
OnceInv ==
    /\ \A t \in Threads : pc[t] \in Inside => initialized = "running"
    /\ \A t, u \in Threads : pc[t] \in Inside /\ pc[u] \in Inside => t = u
    /\ initialized # "yes" =>
         /\ m_filtersMask = {}
         /\ \A t \in Threads :
              pc[t] # "return" /\ ~ret[t] /\ result[t] = "none"

(* How far the thread inside has come, and that a successful one does not  *)
(* call Initialize again.                                                  *)
ProgressInv ==
    /\ initialized = "no" => m_tracer = "null"
    /\ m_filtersMask # {} => m_tracer # "null"
    /\ \A t \in Threads :
         /\ pc[t] \in {"mask", "provider", "tracer"} => m_tracer = "null"
         /\ pc[t] = "publish" => m_tracer # "null"
         /\ pc[t] \in {"provider", "tracer", "publish"} => arg[t] # {}
         /\ ret[t] => pc[t] = "return" \/ result[t] # "none"

(* The tracer comes from the provider that Initialize has set, unless      *)
(* Shutdown fell in between.                                               *)
TracerInv ==
    /\ m_tracer = "noop" => undercut
    /\ \A t \in Threads : pc[t] = "tracer" =>
         configured # "other" /\ (provider = "sdk" \/ undercut)

(* The inductive invariant: the parts of the set-up and the properties that*)
(* follow only from all of them.                                           *)
InitInv ==
    /\ TypeOK
    /\ OnceInv
    /\ ProgressInv
    /\ TracerInv
    /\ AllOrNothing
    /\ SpansFiltered
    /\ SpansValid

(* It holds before any thread has called anything.                         *)
LEMMA InitInvInit == Init => InitInv
BY DEF Init, InitInv, TypeOK, OnceInv, ProgressInv, TracerInv, AllOrNothing,
       SpansFiltered, SpansValid, Inside

(* The invariant is inductive.                                             *)
LEMMA InitInvStep == InitInv /\ [Next]_vars => InitInv'
<1> SUFFICES ASSUME InitInv, [Next]_vars
             PROVE  InitInv'
  OBVIOUS
<1> USE DEF InitInv
<1>1. ASSUME NEW t \in Threads, NEW mask \in SUBSET Filters, Initialize(t, mask)
      PROVE  InitInv'
  <2>1. TypeOK'
    BY <1>1 DEF Initialize, Goto, TypeOK
  <2>2. OnceInv'
    BY <1>1 DEF Initialize, Goto, OnceInv, Inside
  <2>3. ProgressInv'
    BY <1>1 DEF Initialize, Goto, ProgressInv
  <2>4. TracerInv'
    BY <1>1 DEF Initialize, Goto, TracerInv
  <2>5. AllOrNothing'
    BY <1>1 DEF Initialize, AllOrNothing, ProgressInv
  <2>6. SpansFiltered'
    BY <1>1 DEF Initialize, SpansFiltered
  <2>7. SpansValid'
    BY <1>1 DEF Initialize, SpansValid
  <2> QED
    BY <2>1, <2>2, <2>3, <2>4, <2>5, <2>6, <2>7
<1>2. ASSUME NEW t \in Threads, CallOnce(t)
      PROVE  InitInv'
  <2>1. TypeOK'
    BY <1>2 DEF CallOnce, Goto, TypeOK
  <2>2. OnceInv'
    BY <1>2 DEF CallOnce, OnceOver, Goto, OnceInv, TypeOK, Inside
  <2>3. ProgressInv'
    BY <1>2 DEF CallOnce, Goto, ProgressInv, TypeOK
  <2>4. TracerInv'
    BY <1>2 DEF CallOnce, Goto, TracerInv, TypeOK
  <2>5. AllOrNothing'
    BY <1>2 DEF CallOnce, AllOrNothing
  <2>6. SpansFiltered'
    BY <1>2 DEF CallOnce, SpansFiltered
  <2>7. SpansValid'
    BY <1>2 DEF CallOnce, SpansValid
  <2> QED
    BY <2>1, <2>2, <2>3, <2>4, <2>5, <2>6, <2>7
<1>3. ASSUME NEW t \in Threads, ParseMask(t)
      PROVE  InitInv'
  <2>1. TypeOK'
    BY <1>3 DEF ParseMask, Finish, Goto, TypeOK
  <2>2. OnceInv'
    BY <1>3 DEF ParseMask, Finish, Goto, OnceInv, TypeOK, Inside
  <2>3. ProgressInv'
    BY <1>3 DEF ParseMask, Finish, Goto, ProgressInv, TypeOK
  <2>4. TracerInv'
    BY <1>3 DEF ParseMask, Finish, Goto, TracerInv, TypeOK
  <2>5. AllOrNothing'
    BY <1>3 DEF ParseMask, Finish, AllOrNothing, TypeOK, OnceInv, ProgressInv
  <2>6. SpansFiltered'
    BY <1>3 DEF ParseMask, SpansFiltered
  <2>7. SpansValid'
    BY <1>3 DEF ParseMask, SpansValid
  <2> QED
    BY <2>1, <2>2, <2>3, <2>4, <2>5, <2>6, <2>7
<1>4. ASSUME NEW t \in Threads, InitProvider(t)
      PROVE  InitInv'
  <2>1. TypeOK'
    BY <1>4 DEF InitProvider, Caught, Finish, Goto, TypeOK
  <2>2. OnceInv'
    BY <1>4 DEF InitProvider, Caught, Finish, Goto, OnceInv, TypeOK, Inside
  <2>3. ProgressInv'
    BY <1>4 DEF InitProvider, Caught, Finish, Goto, ProgressInv, TypeOK
  <2>4. TracerInv'
    BY <1>4 DEF InitProvider, Caught, Finish, Goto, TracerInv, TypeOK
  <2>5. AllOrNothing'
    BY <1>4
       DEF InitProvider, Caught, Finish, AllOrNothing, TypeOK, OnceInv,
           ProgressInv
  <2>6. SpansFiltered'
    BY <1>4 DEF InitProvider, SpansFiltered
  <2>7. SpansValid'
    BY <1>4 DEF InitProvider, SpansValid
  <2> QED
    BY <2>1, <2>2, <2>3, <2>4, <2>5, <2>6, <2>7
<1>5. ASSUME NEW t \in Threads, SetTracer(t)
      PROVE  InitInv'
  <2>1. TypeOK'
    BY <1>5 DEF SetTracer, Goto, TypeOK
  <2>2. OnceInv'
    BY <1>5 DEF SetTracer, Goto, OnceInv, Inside
  <2>3. ProgressInv'
    BY <1>5 DEF SetTracer, Goto, ProgressInv, TypeOK, OnceInv, Inside
  <2>4. TracerInv'
    BY <1>5 DEF SetTracer, TracerInv
  <2>5. AllOrNothing'
    BY <1>5 DEF SetTracer, AllOrNothing, OnceInv, Inside
  <2>6. SpansFiltered'
    BY <1>5 DEF SetTracer, SpansFiltered
  <2>7. SpansValid'
    BY <1>5 DEF SetTracer, SpansValid
  <2> QED
    BY <2>1, <2>2, <2>3, <2>4, <2>5, <2>6, <2>7
<1>6. ASSUME NEW t \in Threads, SetMask(t)
      PROVE  InitInv'
  <2>1. TypeOK'
    BY <1>6 DEF SetMask, Finish, Goto, TypeOK
  <2>2. OnceInv'
    BY <1>6 DEF SetMask, Finish, Goto, OnceInv, TypeOK, Inside
  <2>3. ProgressInv'
    BY <1>6 DEF SetMask, Finish, Goto, ProgressInv, TypeOK
  <2>4. TracerInv'
    BY <1>6 DEF SetMask, Finish, Goto, TracerInv
  <2>5. AllOrNothing'
    BY <1>6
       DEF SetMask, Finish, AllOrNothing, TypeOK, OnceInv, ProgressInv, Inside
  <2>6. SpansFiltered'
    BY <1>6 DEF SetMask, SpansFiltered, OnceInv, Inside
  <2>7. SpansValid'
    BY <1>6 DEF SetMask, SpansValid
  <2> QED
    BY <2>1, <2>2, <2>3, <2>4, <2>5, <2>6, <2>7
<1>7. ASSUME NEW t \in Threads, Return(t)
      PROVE  InitInv'
  <2>1. TypeOK'
    BY <1>7 DEF Return, Goto, TypeOK
  <2>2. OnceInv'
    BY <1>7 DEF Return, Goto, OnceInv, Inside
  <2>3. ProgressInv'
    BY <1>7 DEF Return, Goto, ProgressInv, TypeOK
  <2>4. TracerInv'
    BY <1>7 DEF Return, Goto, TracerInv
  <2>5. AllOrNothing'
    BY <1>7 DEF Return, AllOrNothing
  <2>6. SpansFiltered'
    BY <1>7 DEF Return, SpansFiltered
  <2>7. SpansValid'
    BY <1>7 DEF Return, SpansValid
  <2> QED
    BY <2>1, <2>2, <2>3, <2>4, <2>5, <2>6, <2>7
<1>8. ASSUME NEW t \in Threads, NEW f \in Filters, CreateSpan(t, f)
      PROVE  InitInv'
  <2>1. TypeOK'
    BY <1>8 DEF CreateSpan, Goto, TypeOK
  <2>2. OnceInv'
    BY <1>8 DEF CreateSpan, Goto, OnceInv, Inside
  <2>3. ProgressInv'
    BY <1>8 DEF CreateSpan, Goto, ProgressInv
  <2>4. TracerInv'
    BY <1>8 DEF CreateSpan, Goto, TracerInv
  <2>5. AllOrNothing'
    BY <1>8 DEF CreateSpan, AllOrNothing
  <2>6. SpansFiltered'
    BY <1>8 DEF CreateSpan, SpansFiltered
  <2>7. SpansValid'
    BY <1>8 DEF CreateSpan, SpansValid
  <2> QED
    BY <2>1, <2>2, <2>3, <2>4, <2>5, <2>6, <2>7
<1>9. ASSUME NEW t \in Threads, IsEnabled(t)
      PROVE  InitInv'
  <2>1. TypeOK'
    BY <1>9 DEF IsEnabled, Passes, Goto, TypeOK, ProgressInv
  <2>2. OnceInv'
    BY <1>9 DEF IsEnabled, Goto, OnceInv, Inside
  <2>3. ProgressInv'
    BY <1>9 DEF IsEnabled, Goto, ProgressInv
  <2>4. TracerInv'
    BY <1>9 DEF IsEnabled, Goto, TracerInv
  <2>5. AllOrNothing'
    BY <1>9 DEF IsEnabled, AllOrNothing
  <2>6. SpansFiltered'
    BY <1>9 DEF IsEnabled, Passes, SpansFiltered
  <2>7. SpansValid'
    BY <1>9 DEF IsEnabled, Passes, SpansValid, TypeOK, ProgressInv, TracerInv
  <2> QED
    BY <2>1, <2>2, <2>3, <2>4, <2>5, <2>6, <2>7
<1>10. CASE LegacyInit
  <2>1. TypeOK'
    BY <1>10 DEF LegacyInit, TypeOK
  <2>2. OnceInv'
    BY <1>10 DEF LegacyInit, OnceInv
  <2>3. ProgressInv'
    BY <1>10 DEF LegacyInit, ProgressInv
  <2>4. TracerInv'
    BY <1>10 DEF LegacyInit, TracerInv
  <2>5. AllOrNothing'
    BY <1>10 DEF LegacyInit, AllOrNothing
  <2>6. SpansFiltered'
    BY <1>10 DEF LegacyInit, SpansFiltered
  <2>7. SpansValid'
    BY <1>10 DEF LegacyInit, SpansValid
  <2> QED
    BY <2>1, <2>2, <2>3, <2>4, <2>5, <2>6, <2>7
<1>11. CASE LegacyShutdown
  <2>1. TypeOK'
    BY <1>11 DEF LegacyShutdown, TypeOK
  <2>2. OnceInv'
    BY <1>11 DEF LegacyShutdown, OnceInv
  <2>3. ProgressInv'
    BY <1>11 DEF LegacyShutdown, ProgressInv
  <2>4. TracerInv'
    BY <1>11 DEF LegacyShutdown, TracerInv, TypeOK
  <2>5. AllOrNothing'
    BY <1>11 DEF LegacyShutdown, AllOrNothing
  <2>6. SpansFiltered'
    BY <1>11 DEF LegacyShutdown, SpansFiltered
  <2>7. SpansValid'
    BY <1>11 DEF LegacyShutdown, SpansValid, TypeOK
  <2> QED
    BY <2>1, <2>2, <2>3, <2>4, <2>5, <2>6, <2>7
<1>12. CASE UNCHANGED vars
  BY <1>12 DEF vars, TypeOK, OnceInv, ProgressInv, TracerInv, AllOrNothing,
               SpansFiltered, SpansValid
<1> QED
  BY <1>1, <1>2, <1>3, <1>4, <1>5, <1>6, <1>7, <1>8, <1>9, <1>10, <1>11, <1>12
     DEF Next, InitializeStep

(* Every variable keeps its type: no step of the set-up leaves a thread or *)
(* the engine in a state the code does not have.                           *)
THEOREM TypeCorrect == Spec => []TypeOK
<1>1. InitInv => TypeOK
  BY DEF InitInv
<1> QED
  BY <1>1, InitInvInit, InitInvStep, PTL DEF Spec

(* Whatever fails, throws or overlaps: when call_once is over, tracer and  *)
(* mask are both set or both not, exactly as one call has answered.        *)
THEOREM AllOrNothingHolds == Spec => []AllOrNothing
<1>1. InitInv => AllOrNothing
  BY DEF InitInv
<1> QED
  BY <1>1, InitInvInit, InitInvStep, PTL DEF Spec

(* No CreateSpan starts a span for a filter that is off, though it reads   *)
(* tracer and mask without a lock while they are being set.                *)
THEOREM SpansFilteredHolds == Spec => []SpansFiltered
<1>1. InitInv => SpansFiltered
  BY DEF InitInv
<1> QED
  BY <1>1, InitInvInit, InitInvStep, PTL DEF Spec

(* The assertion on the span's context holds, except after a Shutdown of   *)
(* the older class in the one window inside Initialize.                    *)
THEOREM SpansValidHolds == Spec => []SpansValid
<1>1. InitInv => SpansValid
  BY DEF InitInv
<1> QED
  BY <1>1, InitInvInit, InitInvStep, PTL DEF Spec

(* After any Initialize has returned, tracer and mask never change again:  *)
(* only the thread inside call_once writes them, and it has left.          *)
THEOREM SettledAfterReturnHolds == Spec => SettledAfterReturn
<1>1. InitInv /\ [Next]_vars =>
        [(\E t \in Threads : result[t] # "none") =>
            UNCHANGED <<m_tracer, m_filtersMask>>]_vars
  <2> SUFFICES ASSUME InitInv, [Next]_vars,
                      NEW u \in Threads, result[u] # "none"
               PROVE  UNCHANGED <<m_tracer, m_filtersMask>>
    OBVIOUS
  <2>1. \A t \in Threads : pc[t] \notin {"tracer", "publish"}
    BY DEF InitInv, OnceInv, Inside
  <2>2. ASSUME NEW t \in Threads, InitializeStep(t)
        PROVE  UNCHANGED <<m_tracer, m_filtersMask>>
    BY <2>1, <2>2 DEF InitializeStep, CallOnce, ParseMask, InitProvider,
                      SetTracer, SetMask, Return
  <2> QED
    BY <2>2 DEF Next, vars, Initialize, CreateSpan, IsEnabled, LegacyInit,
                LegacyShutdown
<1> QED
  BY <1>1, InitInvInit, InitInvStep, PTL DEF Spec, SettledAfterReturn
================================================================================
