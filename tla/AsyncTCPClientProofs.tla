------------------------- MODULE AsyncTCPClientProofs -------------------------
(***************************************************************************)
(* The asynchronous client, for every number of requests, ids, threads and *)
(* cancels: each request is reported once, a cancel is honoured, the map   *)
(* of active sessions is exact.                                            *)
(***************************************************************************)
EXTENDS AsyncTCPClient, FiniteSetTheorems, SequenceTheorems, TLAPS

(* The owners of the mutexes: the user thread has m_active_sessions_guard  *)
(* exactly inside cancelRequest; a session's m_cancel_guard is the user's  *)
(* or its own handler's.                                                   *)
GuardInv ==
    /\ activeGuard = IF user \in {"find", "mark"} THEN "user" ELSE None
    /\ \A r \in Requests :
         /\ cancelGuard[r] \in {None, r, "user"}
         /\ cancelGuard[r] = "user" <=> user = "mark" /\ target = r
         /\ pc[r] \in {"check", "continue"} => cancelGuard[r] = r
         /\ cancelGuard[r] = r =>
              pc[r] \in {"check", "continue", "complete", "callback"}

(* What the user thread has in hand; a session that cancelRequest is about *)
(* to mark is still in progress.                                           *)
UserInv ==
    /\ user \in {"connect", "find", "mark"} => target \in Requests
    /\ user = "connect" => stage[target] = "unstarted"
    /\ user = "mark" =>
         stage[target] # "unstarted" /\ pc[target] \notin {"callback", "done"}
    /\ user = "closed" =>
         \A r \in Requests : pc[r] \in {"idle", "done"} /\ io[r] = "none"

(* The life of a session: one operation or one handler at a time, until it *)
(* is done and reported.                                                   *)
SessionInv ==
    \A r \in Requests :
      /\ stage[r] = "unstarted" =>
           io[r] = "none" /\ pc[r] = "idle" /\ r \notin m_was_cancelled
      /\ stage[r] # "unstarted" /\ pc[r] = "idle" => io[r] # "none"
      /\ pc[r] # "idle" => io[r] = "none"
      /\ pc[r] = "continue" => r \notin m_was_cancelled
      /\ pc[r] # "done" => reported[r] = <<>>
      /\ pc[r] = "done" =>
           /\ Len(reported[r]) = 1
           /\ r \in m_was_cancelled => reported[r][1] # "success"

(* The map holds the sessions in progress, each under its own id.          *)
MapInv ==
    /\ SessionTracked
    /\ \A id \in Ids : m_active_sessions[id] # None =>
         RequestId[m_active_sessions[id]] = id

(* The inductive invariant: which thread owns which mutex decides what a   *)
(* cancel may still change, so the parts only hold together.               *)
ClientInv ==
    /\ TypeOK /\ DOMAIN asked = Requests
    /\ GuardInv
    /\ UserInv
    /\ SessionInv
    /\ MapInv

(* Nothing is started, no mutex is taken.                                  *)
LEMMA ClientInvInit == Init => ClientInv
<1> SUFFICES ASSUME Init
             PROVE  ClientInv
  OBVIOUS
<1>1. Running = {}
  BY DEF Init, Running
<1>2. Cardinality(Running) <= NumThreads
  BY <1>1, FS_EmptySet, ClientAssumption
<1>3. TypeOK /\ DOMAIN asked = Requests
  BY <1>2, ClientAssumption DEF Init, TypeOK, Owners, Errors
<1>4. GuardInv /\ UserInv /\ SessionInv
  BY ClientAssumption DEF Init, GuardInv, UserInv, SessionInv
<1>5. MapInv
  BY ClientAssumption DEF Init, MapInv, SessionTracked, InProgress
<1> QED
  BY <1>3, <1>4, <1>5 DEF ClientInv

(* Only the start of a handler adds a thread to the busy ones.             *)
LEMMA RunningBound ==
    ASSUME TypeOK, UserStep \/ (\E r \in Requests : NetComplete(r) \/ HandlerStep(r))
    PROVE  Cardinality(Running') <= NumThreads
<1>1. IsFiniteSet(Running) /\ Cardinality(Running) \in Nat /\ NumThreads \in Nat
  BY FS_Subset, FS_CardinalityType, ClientAssumption DEF Running
<1>2. CASE Running' \subseteq Running
  <2>1. /\ Cardinality(Running') <= Cardinality(Running)
        /\ Cardinality(Running') \in Nat
    BY <1>1, <1>2, FS_Subset, FS_CardinalityType
  <2> QED
    BY <1>1, <2>1 DEF TypeOK
<1>3. ASSUME NEW r \in Requests, Handler(r)
      PROVE  Cardinality(Running') <= NumThreads
  <2>1. Running' \subseteq Running \cup {r}
    BY <1>3 DEF Handler, Running, TypeOK
  <2>2. IsFiniteSet(Running \cup {r}) /\ Cardinality(Running \cup {r}) <= Cardinality(Running) + 1
    BY <1>1, FS_AddElement
  <2>3. Cardinality(Running') <= Cardinality(Running \cup {r})
    BY <2>1, <2>2, FS_Subset
  <2>4. Cardinality(Running') \in Nat /\ Cardinality(Running \cup {r}) \in Nat
    BY <2>1, <2>2, FS_Subset, FS_CardinalityType
  <2> QED
    BY <1>1, <1>3, <2>2, <2>3, <2>4 DEF Handler
<1>4. CASE UserStep \/ \E r \in Requests : NetComplete(r)
  <2>1. Running' = Running
    BY <1>4 DEF UserStep, EmulateInsert, EmulateConnect, CancelEnter,
                CancelMiss, CancelLock, CancelMark, Close, Join, NetComplete,
                Running
  <2> QED
    BY <1>2, <2>1
<1>5. ASSUME NEW r \in Requests,
             \/ HandlerLock(r) \/ HandlerCheck(r) \/ HandlerContinue(r)
             \/ Complete(r) \/ Callback(r)
      PROVE  Cardinality(Running') <= NumThreads
  <2>1. pc[r] \notin {"idle", "done"} /\ \A q \in Requests \ {r} : pc'[q] = pc[q]
    BY <1>5 DEF HandlerLock, HandlerCheck, HandlerContinue, Complete, Callback, TypeOK
  <2>2. Running' \subseteq Running
    BY <2>1 DEF Running
  <2> QED
    BY <1>2, <2>2
<1> QED
  BY <1>3, <1>4, <1>5 DEF HandlerStep

(* The invariant only reads the client's variables.                        *)
LEMMA ClientInvStutter == ClientInv /\ UNCHANGED vars => ClientInv'
<1>1. UNCHANGED vars => UNCHANGED Running
  BY DEF vars, Running
<1> QED
  BY <1>1 DEF vars, ClientInv, TypeOK, GuardInv, UserInv, SessionInv, MapInv,
              SessionTracked, InProgress

(* The invariant is inductive.                                             *)
LEMMA ClientInvStep == ClientInv /\ [Next]_vars => ClientInv'
<1> SUFFICES ASSUME ClientInv, Next
             PROVE  ClientInv'
  BY ClientInvStutter
<1>r. Cardinality(Running') <= NumThreads
  BY RunningBound DEF Next, ClientInv
<1> USE ClientAssumption DEF ClientInv
<1>1. ASSUME NEW q \in Requests, EmulateInsert(q)
      PROVE  ClientInv'
  <2>1. (TypeOK /\ DOMAIN asked = Requests)'
    BY <1>1, <1>r DEF EmulateInsert, TypeOK
  <2>2. GuardInv'
    BY <1>1 DEF EmulateInsert, GuardInv
  <2>3. UserInv'
    BY <1>1 DEF EmulateInsert, UserInv
  <2>4. SessionInv'
    BY <1>1 DEF EmulateInsert, SessionInv
  <2>5. MapInv'
    BY <1>1
       DEF EmulateInsert, SameId, Answered, TypeOK, SessionInv, MapInv,
           SessionTracked, InProgress
  <2> QED
    BY <2>1, <2>2, <2>3, <2>4, <2>5
<1>2. CASE EmulateConnect
  <2>1. (TypeOK /\ DOMAIN asked = Requests)'
    BY <1>2, <1>r DEF EmulateConnect, UserInv, TypeOK, Owners, Errors
  <2>2. GuardInv'
    BY <1>2 DEF EmulateConnect, GuardInv
  <2>3. UserInv'
    BY <1>2 DEF EmulateConnect, UserInv
  <2>4. SessionInv'
    BY <1>2 DEF EmulateConnect, TypeOK, UserInv, SessionInv
  <2>5. MapInv'
    BY <1>2
       DEF EmulateConnect, TypeOK, UserInv, SessionInv, MapInv, SessionTracked,
           InProgress
  <2> QED
    BY <2>1, <2>2, <2>3, <2>4, <2>5
<1>3. ASSUME NEW q \in Requests, CancelEnter(q)
      PROVE  ClientInv'
  <2>1. (TypeOK /\ DOMAIN asked = Requests)'
    BY <1>3, <1>r DEF CancelEnter, TypeOK, Owners
  <2>2. GuardInv'
    BY <1>3 DEF CancelEnter, GuardInv
  <2>3. UserInv'
    BY <1>3 DEF CancelEnter, UserInv
  <2>4. SessionInv'
    BY <1>3 DEF CancelEnter, SessionInv
  <2>5. MapInv'
    BY <1>3 DEF CancelEnter, MapInv, SessionTracked, InProgress
  <2> QED
    BY <2>1, <2>2, <2>3, <2>4, <2>5
<1>4. CASE CancelMiss
  <2>1. (TypeOK /\ DOMAIN asked = Requests)'
    BY <1>4, <1>r DEF CancelMiss, TypeOK, Owners
  <2>2. GuardInv'
    BY <1>4 DEF CancelMiss, GuardInv
  <2>3. UserInv'
    BY <1>4 DEF CancelMiss, UserInv
  <2>4. SessionInv'
    BY <1>4 DEF CancelMiss, SessionInv
  <2>5. MapInv'
    BY <1>4 DEF CancelMiss, MapInv, SessionTracked, InProgress
  <2> QED
    BY <2>1, <2>2, <2>3, <2>4, <2>5
<1>5. CASE CancelLock
  <2>1. (TypeOK /\ DOMAIN asked = Requests)'
    BY <1>5, <1>r DEF CancelLock, UserInv, TypeOK, Owners
  <2>2. GuardInv'
    BY <1>5 DEF CancelLock, TypeOK, GuardInv
  <2>3. UserInv'
    BY <1>5 DEF CancelLock, TypeOK, UserInv, MapInv, SessionTracked, InProgress
  <2>4. SessionInv'
    BY <1>5 DEF CancelLock, SessionInv
  <2>5. MapInv'
    BY <1>5 DEF CancelLock, MapInv, SessionTracked, InProgress
  <2> QED
    BY <2>1, <2>2, <2>3, <2>4, <2>5
<1>6. CASE CancelMark
  <2>1. (TypeOK /\ DOMAIN asked = Requests)'
    BY <1>6, <1>r DEF CancelMark, UserInv, TypeOK, Owners, Errors
  <2>2. GuardInv'
    BY <1>6 DEF CancelMark, TypeOK, GuardInv
  <2>3. UserInv'
    BY <1>6 DEF CancelMark, UserInv
  <2>4. SessionInv'
    BY <1>6 DEF CancelMark, TypeOK, GuardInv, UserInv, SessionInv
  <2>5. MapInv'
    BY <1>6 DEF CancelMark, MapInv, SessionTracked, InProgress
  <2> QED
    BY <2>1, <2>2, <2>3, <2>4, <2>5
<1>7. CASE Close
  <2>1. (TypeOK /\ DOMAIN asked = Requests)'
    BY <1>7, <1>r DEF Close, TypeOK
  <2>2. GuardInv'
    BY <1>7 DEF Close, GuardInv
  <2>3. UserInv'
    BY <1>7 DEF Close, UserInv
  <2>4. SessionInv'
    BY <1>7 DEF Close, SessionInv
  <2>5. MapInv'
    BY <1>7 DEF Close, MapInv, SessionTracked, InProgress
  <2> QED
    BY <2>1, <2>2, <2>3, <2>4, <2>5
<1>8. CASE Join
  <2>1. (TypeOK /\ DOMAIN asked = Requests)'
    BY <1>8, <1>r DEF Join, TypeOK
  <2>2. GuardInv'
    BY <1>8 DEF Join, GuardInv
  <2>3. UserInv'
    BY <1>8 DEF Join, Running, UserInv
  <2>4. SessionInv'
    BY <1>8 DEF Join, SessionInv
  <2>5. MapInv'
    BY <1>8 DEF Join, MapInv, SessionTracked, InProgress
  <2> QED
    BY <2>1, <2>2, <2>3, <2>4, <2>5
<1>9. ASSUME NEW q \in Requests, NetComplete(q)
      PROVE  ClientInv'
  <2>1. (TypeOK /\ DOMAIN asked = Requests)'
    BY <1>9, <1>r DEF NetComplete, TypeOK, Errors
  <2>2. GuardInv'
    BY <1>9 DEF NetComplete, GuardInv
  <2>3. UserInv'
    BY <1>9 DEF NetComplete, UserInv
  <2>4. SessionInv'
    BY <1>9 DEF NetComplete, SessionInv
  <2>5. MapInv'
    BY <1>9 DEF NetComplete, MapInv, SessionTracked, InProgress
  <2> QED
    BY <2>1, <2>2, <2>3, <2>4, <2>5
<1>10. ASSUME NEW q \in Requests, Handler(q)
      PROVE  ClientInv'
  <2>1. (TypeOK /\ DOMAIN asked = Requests)'
    BY <1>10, <1>r DEF Handler, TypeOK
  <2>2. GuardInv'
    BY <1>10 DEF Handler, GuardInv
  <2>3. UserInv'
    BY <1>10 DEF Handler, Errors, UserInv
  <2>4. SessionInv'
    BY <1>10 DEF Handler, TypeOK, SessionInv, Errors
  <2>5. MapInv'
    <3>1. /\ UNCHANGED <<m_active_sessions, stage, user, target>>
          /\ pc[q] = "idle" /\ pc'[q] \in {"complete", "lock"}
          /\ \A r \in Requests \ {q} : pc'[r] = pc[r]
      BY <1>10 DEF Handler, TypeOK
    <3> QED
      BY <3>1 DEF MapInv, SessionTracked, InProgress
  <2> QED
    BY <2>1, <2>2, <2>3, <2>4, <2>5
<1>11. ASSUME NEW q \in Requests, HandlerLock(q)
      PROVE  ClientInv'
  <2>1. (TypeOK /\ DOMAIN asked = Requests)'
    BY <1>11, <1>r DEF HandlerLock, TypeOK, Owners
  <2>2. GuardInv'
    BY <1>11 DEF HandlerLock, TypeOK, GuardInv
  <2>3. UserInv'
    BY <1>11 DEF HandlerLock, UserInv
  <2>4. SessionInv'
    BY <1>11 DEF HandlerLock, SessionInv
  <2>5. MapInv'
    BY <1>11 DEF HandlerLock, MapInv, SessionTracked, InProgress
  <2> QED
    BY <2>1, <2>2, <2>3, <2>4, <2>5
<1>12. ASSUME NEW q \in Requests, HandlerCheck(q)
      PROVE  ClientInv'
  <2>1. (TypeOK /\ DOMAIN asked = Requests)'
    BY <1>12, <1>r DEF HandlerCheck, AfterCheck, TypeOK
  <2>2. GuardInv'
    BY <1>12 DEF HandlerCheck, AfterCheck, GuardInv
  <2>3. UserInv'
    BY <1>12 DEF HandlerCheck, AfterCheck, UserInv
  <2>4. SessionInv'
    BY <1>12 DEF HandlerCheck, AfterCheck, SessionInv
  <2>5. MapInv'
    BY <1>12 DEF HandlerCheck, AfterCheck, MapInv, SessionTracked, InProgress
  <2> QED
    BY <2>1, <2>2, <2>3, <2>4, <2>5
<1>13. ASSUME NEW q \in Requests, HandlerContinue(q)
      PROVE  ClientInv'
  <2>1. (TypeOK /\ DOMAIN asked = Requests)'
    BY <1>13, <1>r DEF HandlerContinue, Unlock, TypeOK, Owners
  <2>2. GuardInv'
    BY <1>13 DEF HandlerContinue, Unlock, TypeOK, GuardInv
  <2>3. UserInv'
    BY <1>13 DEF HandlerContinue, UserInv, SessionInv
  <2>4. SessionInv'
    BY <1>13 DEF HandlerContinue, TypeOK, SessionInv
  <2>5. MapInv'
    BY <1>13
       DEF HandlerContinue, SessionInv, MapInv, SessionTracked, InProgress
  <2> QED
    BY <2>1, <2>2, <2>3, <2>4, <2>5
<1>14. ASSUME NEW q \in Requests, Complete(q)
      PROVE  ClientInv'
  <2>1. (TypeOK /\ DOMAIN asked = Requests)'
    BY <1>14, <1>r DEF Complete, Erase, TypeOK
  <2>2. GuardInv'
    BY <1>14 DEF Complete, GuardInv
  <2>3. UserInv'
    BY <1>14 DEF Complete, GuardInv, UserInv
  <2>4. SessionInv'
    BY <1>14 DEF Complete, SessionInv
  <2>5. MapInv'
    <3>1. /\ UNCHANGED <<stage, user, target>>
          /\ pc[q] = "complete" /\ pc'[q] = "callback"
          /\ \A r \in Requests \ {q} : pc'[r] = pc[r]
          /\ m_active_sessions'[RequestId[q]] = None
          /\ \A id \in Ids \ {RequestId[q]} :
               m_active_sessions'[id] = m_active_sessions[id]
      BY <1>14 DEF Complete, Erase, TypeOK
    <3>2. InProgress(q) /\ stage[q] # "unstarted"
      BY <3>1 DEF InProgress, SessionInv
    <3>3. m_active_sessions[RequestId[q]] = q
      BY <3>2 DEF MapInv, SessionTracked
    <3>4. ~InProgress(q)'
      BY <3>1, <3>2 DEF InProgress, UserInv
    <3>5. ASSUME NEW r \in Requests \ {q}
          PROVE  InProgress(r)' <=> m_active_sessions'[RequestId[r]] = r
      <4>1. InProgress(r)' <=> InProgress(r)
        BY <3>1 DEF InProgress
      <4>2. InProgress(r) <=> m_active_sessions[RequestId[r]] = r
        BY DEF MapInv, SessionTracked
      <4> QED
        BY <3>1, <3>3, <4>1, <4>2
    <3>6. SessionTracked'
      BY <3>1, <3>4, <3>5 DEF SessionTracked
    <3> QED
      BY <3>1, <3>6 DEF MapInv
  <2> QED
    BY <2>1, <2>2, <2>3, <2>4, <2>5
<1>15. ASSUME NEW q \in Requests, Callback(q)
      PROVE  ClientInv'
  <2>1. (TypeOK /\ DOMAIN asked = Requests)'
    BY <1>15, <1>r
       DEF Callback, Report, AfterComplete, Unlock, Verdict, TypeOK, Owners,
           Errors
  <2>2. GuardInv'
    BY <1>15 DEF Callback, AfterComplete, Unlock, TypeOK, GuardInv
  <2>3. UserInv'
    BY <1>15 DEF Callback, UserInv
  <2>4. SessionInv'
    BY <1>15 DEF Callback, Report, AfterComplete, Verdict, TypeOK, SessionInv
  <2>5. MapInv'
    BY <1>15 DEF Callback, AfterComplete, MapInv, SessionTracked, InProgress
  <2> QED
    BY <2>1, <2>2, <2>3, <2>4, <2>5
<1> QED
  BY <1>1, <1>2, <1>3, <1>4, <1>5, <1>6, <1>7, <1>8, <1>9, <1>10, <1>11, <1>12,
     <1>13, <1>14, <1>15
     DEF Next, UserStep, HandlerStep

(* Every variable keeps its type, and never more handlers run than the     *)
(* client has threads.                                                     *)
THEOREM ClientTypeCorrect == Spec => []TypeOK
<1>1. ClientInv => TypeOK
  BY DEF ClientInv
<1> QED
  BY <1>1, ClientInvInit, ClientInvStep, PTL DEF Spec

(* What the invariant says of the reports: at most one, and no success of  *)
(* a cancelled request.                                                    *)
LEMMA ReportsFollow == ClientInv => ReportedOnce /\ CancelHonoured
<1> SUFFICES ASSUME ClientInv
             PROVE  ReportedOnce /\ CancelHonoured
  OBVIOUS
<1>1. ASSUME NEW r \in Requests
      PROVE  /\ Len(reported[r]) <= 1
             /\ r \in m_was_cancelled =>
                  \A i \in DOMAIN reported[r] : reported[r][i] # "success"
  <2>1. CASE pc[r] = "done"
    <3>1. Len(reported[r]) = 1 /\ DOMAIN reported[r] = 1 .. 1
      BY <2>1 DEF ClientInv, SessionInv, TypeOK
    <3> QED
      BY <2>1, <3>1 DEF ClientInv, SessionInv
  <2>2. CASE pc[r] # "done"
    BY <2>2 DEF ClientInv, SessionInv
  <2> QED
    BY <2>1, <2>2
<1> QED
  BY <1>1 DEF ReportedOnce, CancelHonoured, ClientInv, TypeOK

(* The callback of a request is called at most once, on every path through *)
(* the handlers and whatever cancelRequest does meanwhile.                 *)
THEOREM ReportedOnceHolds == Spec => []ReportedOnce
BY ReportsFollow, ClientInvInit, ClientInvStep, PTL DEF Spec

(* A request that cancelRequest has found is never reported as a success:  *)
(* it marks the session while it holds m_active_sessions_guard, without    *)
(* which the request cannot be completed.                                  *)
THEOREM CancelHonouredHolds == Spec => []CancelHonoured
BY ReportsFollow, ClientInvInit, ClientInvStep, PTL DEF Spec

(* A session is in the map exactly while its request is in progress.       *)
THEOREM SessionTrackedHolds == Spec => []SessionTracked
<1>1. ClientInv => SessionTracked
  BY DEF ClientInv, MapInv
<1> QED
  BY <1>1, ClientInvInit, ClientInvStep, PTL DEF Spec

(* When close() has returned, every request that was started has had its   *)
(* callback and the map is empty.                                          *)
THEOREM AnsweredBeforeCloseHolds == Spec => []AnsweredBeforeClose
<1>1. ClientInv => AnsweredBeforeClose
  <2> SUFFICES ASSUME ClientInv, user = "closed", NEW r \in Requests,
                      stage[r] # "unstarted"
               PROVE  Answered(r) /\ m_active_sessions[RequestId[r]] = None
    BY DEF AnsweredBeforeClose
  <2>1. \A q \in Requests : ~InProgress(q)
    BY DEF ClientInv, UserInv, SessionInv, InProgress
  <2>2. Answered(r)
    BY DEF ClientInv, UserInv, SessionInv, Answered
  <2>3. m_active_sessions[RequestId[r]] = None
    BY <2>1, ClientAssumption DEF ClientInv, TypeOK, MapInv, SessionTracked
  <2> QED
    BY <2>2, <2>3
<1> QED
  BY <1>1, ClientInvInit, ClientInvStep, PTL DEF Spec

(* Once cancelRequest has marked a session no operation is started for it: *)
(* the handler looks at the mark and starts the operation under the same   *)
(* m_cancel_guard under which cancelRequest sets it.                       *)
THEOREM NoIOAfterCancelHolds == Spec => NoIOAfterCancel
<1>1. ClientInv /\ [Next]_vars =>
        [\A r \in m_was_cancelled : stage'[r] = stage[r]]_vars
  <2> SUFFICES ASSUME ClientInv, Next, NEW r \in m_was_cancelled
               PROVE  stage'[r] = stage[r]
    OBVIOUS
  <2>1. r \in Requests /\ stage[r] # "unstarted" /\ pc[r] # "continue"
    BY DEF ClientInv, TypeOK, SessionInv
  <2>2. CASE EmulateConnect
    BY <2>1, <2>2 DEF EmulateConnect, ClientInv, TypeOK, UserInv
  <2>3. ASSUME NEW q \in Requests, HandlerContinue(q)
        PROVE  stage'[r] = stage[r]
    BY <2>1, <2>3 DEF HandlerContinue, ClientInv, TypeOK
  <2> QED
    BY <2>2, <2>3 DEF Next, UserStep, HandlerStep, EmulateInsert, CancelEnter,
         CancelMiss, CancelLock, CancelMark, Close, Join, NetComplete, Handler,
         HandlerLock, HandlerCheck, Complete, Callback
<1> QED
  BY <1>1, ClientInvInit, ClientInvStep, PTL DEF Spec, NoIOAfterCancel
===============================================================================
