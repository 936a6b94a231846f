---------------------------- MODULE AsyncTCPClient ----------------------------
(***************************************************************************)
(* The asynchronous TCP client of the tracing example (trace/client.cpp).  *)
(*                                                                         *)
(* A user thread starts requests, may cancel them and finally closes the   *)
(* client; a pool of threads runs the completion handlers of the chained   *)
(* connect, write and read of each request.  Two kinds of mutex are        *)
(* involved: m_active_sessions_guard, for the map of active sessions, and  *)
(* the m_cancel_guard of each session.  cancelRequest takes the first and  *)
(* then the second; a handler that finds its session cancelled takes the   *)
(* first while it holds the second.                                        *)
(*                                                                         *)
(* The network is left arbitrary here, and the request is left out; the    *)
(* contexts it carries and the shutdown of its socket are in               *)
(* DistributedTrace.                                                       *)
(***************************************************************************)
EXTENDS Naturals, Sequences, FiniteSets

CONSTANTS
    Requests,      \* sessions the user may create
    Ids,           \* request ids
    RequestId,     \* the id each session is given by the user
    NumThreads,    \* num_of_threads
    MaxCancels,    \* bound: calls of cancelRequest for each session
    None           \* no session, no owner of a mutex

ASSUME ClientAssumption ==
    /\ IsFiniteSet(Requests)
    /\ RequestId \in [Requests -> Ids]
    /\ NumThreads \in Nat \ {0}
    /\ MaxCancels \in [Requests -> Nat]
    /\ None \notin Requests /\ "user" \notin Requests \cup {None}

VARIABLES
    m_active_sessions,   \* id -> session, None when absent
    activeGuard,         \* owner of m_active_sessions_guard
    cancelGuard,         \* owner of each session's m_cancel_guard
    m_was_cancelled,     \* sessions
    m_ec,                \* error each session has met
    stage,               \* the operation each session has started last
    io,                  \* that operation: pending, or its queued completion
    pc,                  \* where the completion handler of each session is
    user,                \* where the user thread is
    target,              \* the session the user thread works on
    asked,               \* number of cancelRequest calls per session
    reported             \* what m_callback was called with

vars == <<m_active_sessions, activeGuard, cancelGuard, m_was_cancelled, m_ec,
          stage, io, pc, user, target, asked, reported>>

Init ==
    /\ m_active_sessions = [id \in Ids |-> None]
    /\ activeGuard = None
    /\ cancelGuard = [r \in Requests |-> None]
    /\ m_was_cancelled = {}
    /\ m_ec = [r \in Requests |-> "success"]
    /\ stage = [r \in Requests |-> "unstarted"]
    /\ io = [r \in Requests |-> "none"]
    /\ pc = [r \in Requests |-> "idle"]
    /\ user = "idle"
    /\ target = None
    /\ asked = [r \in Requests |-> 0]
    /\ reported = [r \in Requests |-> <<>>]

Errors == {"error", "operation_aborted"}

Running == {r \in Requests : pc[r] \notin {"idle", "done"}}

Answered(r) == reported[r] # <<>>

(* Sessions under the same id as r. *)
SameId(r) == {q \in Requests : RequestId[q] = RequestId[r]}

-----------------------------------------------------------------------------
(* The user thread.                                                        *)

(* emulateLongComputationOp, first part: the session enters the map.  Ids  *)
(* are unique among the requests that are in progress, as the declaration  *)
(* of m_id says; an id is used again only after the callback.              *)
EmulateInsert(r) ==
    /\ user = "idle"
    /\ stage[r] = "unstarted"
    /\ \A q \in SameId(r) : stage[q] # "unstarted" => Answered(q)
    /\ activeGuard = None
    /\ m_active_sessions' = [m_active_sessions EXCEPT ![RequestId[r]] = r]
    /\ user' = "connect"
    /\ target' = r
    /\ UNCHANGED <<activeGuard, cancelGuard, m_was_cancelled, m_ec, stage, io,
                   pc, asked, reported>>

(* emulateLongComputationOp, last part: async_connect.                     *)
EmulateConnect ==
    /\ user = "connect"
    /\ stage' = [stage EXCEPT ![target] = "connect"]
    /\ io' = [io EXCEPT ![target] = "pending"]
    /\ user' = "idle"
    /\ target' = None
    /\ UNCHANGED <<m_active_sessions, activeGuard, cancelGuard,
                   m_was_cancelled, m_ec, pc, asked, reported>>

(* cancelRequest takes m_active_sessions_guard.  The user names the        *)
(* request that it started last under this id.                             *)
CancelEnter(r) ==
    /\ user = "idle"
    /\ stage[r] # "unstarted"
    /\ \A q \in SameId(r) \ {r} : stage[q] # "unstarted" => Answered(q)
    /\ asked[r] < MaxCancels[r]
    /\ activeGuard = None
    /\ activeGuard' = "user"
    /\ asked' = [asked EXCEPT ![r] = @ + 1]
    /\ user' = "find"
    /\ target' = r
    /\ UNCHANGED <<m_active_sessions, cancelGuard, m_was_cancelled, m_ec,
                   stage, io, pc, reported>>

(* cancelRequest: no session under this id.                                *)
CancelMiss ==
    /\ user = "find"
    /\ m_active_sessions[RequestId[target]] = None
    /\ activeGuard' = None
    /\ user' = "idle"
    /\ target' = None
    /\ UNCHANGED <<m_active_sessions, cancelGuard, m_was_cancelled, m_ec,
                   stage, io, pc, asked, reported>>

(* cancelRequest: the session is there, take its m_cancel_guard too.       *)
CancelLock ==
    LET s == m_active_sessions[RequestId[target]] IN
    /\ user = "find"
    /\ s # None
    /\ cancelGuard[s] = None
    /\ cancelGuard' = [cancelGuard EXCEPT ![s] = "user"]
    /\ user' = "mark"
    /\ target' = s
    /\ UNCHANGED <<m_active_sessions, activeGuard, m_was_cancelled, m_ec,
                   stage, io, pc, asked, reported>>

(* cancelRequest marks the session, cancels what is pending on its socket  *)
(* and releases both mutexes.  async_write and async_read_until are made   *)
(* of several operations: a cancel that falls between two of them finds    *)
(* nothing to cancel.                                                      *)
CancelMark ==
    /\ user = "mark"
    /\ m_was_cancelled' = m_was_cancelled \cup {target}
    /\ \/ /\ io[target] = "pending"
          /\ io' = [io EXCEPT ![target] = "operation_aborted"]
       \/ /\ io[target] = "pending" => stage[target] \in {"write", "read"}
          /\ UNCHANGED io
    /\ cancelGuard' = [cancelGuard EXCEPT ![target] = None]
    /\ activeGuard' = None
    /\ user' = "idle"
    /\ target' = None
    /\ UNCHANGED <<m_active_sessions, m_ec, stage, pc, asked, reported>>

(* close drops the work object and waits for the threads ...               *)
Close ==
    /\ user = "idle"
    /\ user' = "join"
    /\ UNCHANGED <<m_active_sessions, activeGuard, cancelGuard,
                   m_was_cancelled, m_ec, stage, io, pc, target, asked,
                   reported>>

(* ... which leave the event loop when nothing is pending, queued or       *)
(* running.                                                                *)
Join ==
    /\ user = "join"
    /\ Running = {}
    /\ \A r \in Requests : io[r] = "none"
    /\ user' = "closed"
    /\ UNCHANGED <<m_active_sessions, activeGuard, cancelGuard,
                   m_was_cancelled, m_ec, stage, io, pc, target, asked,
                   reported>>

-----------------------------------------------------------------------------
(* The network and the pool of threads.                                    *)

(* The pending operation completes or fails and its handler is queued.     *)
NetComplete(r) ==
    /\ io[r] = "pending"
    /\ \E res \in {"ok", "error"} : io' = [io EXCEPT ![r] = res]
    /\ UNCHANGED <<m_active_sessions, activeGuard, cancelGuard,
                   m_was_cancelled, m_ec, stage, pc, user, target, asked,
                   reported>>

(* A free thread runs a queued handler.  After an error, and after the     *)
(* read, the request is complete; otherwise the handler needs the          *)
(* session's m_cancel_guard.                                               *)
Handler(r) ==
    /\ io[r] \in {"ok"} \cup Errors
    /\ pc[r] = "idle"
    /\ Cardinality(Running) < NumThreads
    /\ m_ec' = IF io[r] \in Errors THEN [m_ec EXCEPT ![r] = io[r]] ELSE m_ec
    /\ pc' = [pc EXCEPT ![r] = IF io[r] \in Errors \/ stage[r] = "read"
                               THEN "complete" ELSE "lock"]
    /\ io' = [io EXCEPT ![r] = "none"]
    /\ UNCHANGED <<m_active_sessions, activeGuard, cancelGuard,
                   m_was_cancelled, stage, user, target, asked, reported>>

HandlerLock(r) ==
    /\ pc[r] = "lock"
    /\ cancelGuard[r] = None
    /\ cancelGuard' = [cancelGuard EXCEPT ![r] = r]
    /\ pc' = [pc EXCEPT ![r] = "check"]
    /\ UNCHANGED <<m_active_sessions, activeGuard, m_was_cancelled, m_ec,
                   stage, io, user, target, asked, reported>>

(* Mutant: the flag is not looked at.                                      *)
AfterCheckAlways(r) == "continue"

(* if (session->m_was_cancelled): complete the request, mutex still held.  *)
AfterCheck(r) == IF r \in m_was_cancelled THEN "complete" ELSE "continue"

HandlerCheck(r) ==
    /\ pc[r] = "check"
    /\ pc' = [pc EXCEPT ![r] = AfterCheck(r)]
    /\ UNCHANGED <<m_active_sessions, activeGuard, cancelGuard,
                   m_was_cancelled, m_ec, stage, io, user, target, asked,
                   reported>>

(* Mutant: a handler leaves with the mutex locked.                         *)
UnlockForgotten(r) == cancelGuard

(* The handler of r returns; cancel_lock, if it has it, is released.       *)
Unlock(r) == [cancelGuard EXCEPT ![r] = IF @ = r THEN None ELSE @]

(* async_write after the connect, async_read_until after the write; the    *)
(* handler returns and its lock is released.                               *)
HandlerContinue(r) ==
    /\ pc[r] = "continue"
    /\ stage' = [stage EXCEPT ![r] = IF @ = "connect" THEN "write" ELSE "read"]
    /\ io' = [io EXCEPT ![r] = "pending"]
    /\ cancelGuard' = Unlock(r)
    /\ pc' = [pc EXCEPT ![r] = "idle"]
    /\ UNCHANGED <<m_active_sessions, activeGuard, m_was_cancelled, m_ec,
                   user, target, asked, reported>>

(* Mutants: the session is not erased; its pointer is reset, but the entry *)
(* stays in the map.                                                       *)
EraseForgotten(r) == m_active_sessions

EraseResetsOnly(r) == [m_active_sessions EXCEPT ![RequestId[r]] = "null"]

(* Whatever is under the session's id is erased.                           *)
Erase(r) == [m_active_sessions EXCEPT ![RequestId[r]] = None]

(* onRequestComplete: shut the socket down, lock the map, erase, unlock.   *)
Complete(r) ==
    /\ pc[r] = "complete"
    /\ activeGuard = None
    /\ m_active_sessions' = Erase(r)
    /\ pc' = [pc EXCEPT ![r] = "callback"]
    /\ UNCHANGED <<activeGuard, cancelGuard, m_was_cancelled, m_ec, stage, io,
                   user, target, asked, reported>>

(* Mutant: m_was_cancelled is ignored.                                     *)
VerdictIgnoresCancel(r) == m_ec[r]

(* onRequestComplete: the error code handed to the user.                   *)
Verdict(r) ==
    IF m_ec[r] = "success" /\ r \in m_was_cancelled
    THEN "operation_aborted" ELSE m_ec[r]

(* Mutant: a cancelled request is not reported.                            *)
ReportUnlessCancelled(r) ==
    IF r \in m_was_cancelled THEN reported
    ELSE [reported EXCEPT ![r] = Append(@, Verdict(r))]

Report(r) == [reported EXCEPT ![r] = Append(@, Verdict(r))]

(* Mutant: the handlers go on after onRequestComplete (a missing return).  *)
AfterCompleteGoesOn(r) == IF stage[r] = "read" THEN "done" ELSE "continue"

(* Every handler returns after onRequestComplete.                          *)
AfterComplete(r) == "done"

(* onRequestComplete calls m_callback, and the handler returns.            *)
Callback(r) ==
    /\ pc[r] = "callback"
    /\ reported' = Report(r)
    /\ pc' = [pc EXCEPT ![r] = AfterComplete(r)]
    /\ cancelGuard' = Unlock(r)
    /\ UNCHANGED <<m_active_sessions, activeGuard, m_was_cancelled, m_ec,
                   stage, io, user, target, asked>>

-----------------------------------------------------------------------------
UserStep ==
    \/ \E r \in Requests : EmulateInsert(r) \/ CancelEnter(r)
    \/ EmulateConnect
    \/ CancelMiss \/ CancelLock \/ CancelMark
    \/ Close \/ Join

HandlerStep(r) ==
    \/ Handler(r) \/ HandlerLock(r) \/ HandlerCheck(r) \/ HandlerContinue(r)
    \/ Complete(r) \/ Callback(r)

Next == UserStep \/ \E r \in Requests : NetComplete(r) \/ HandlerStep(r)

(* The user thread goes on and finally closes the client, as main does;    *)
(* the network finishes every operation, one way or the other; a pool      *)
(* thread with something to do does it.                                    *)
Fairness ==
    /\ WF_vars(UserStep)
    /\ \A r \in Requests : WF_vars(NetComplete(r)) /\ WF_vars(HandlerStep(r))

Spec == Init /\ [][Next]_vars /\ Fairness

-----------------------------------------------------------------------------
Owners == Requests \cup {"user", None}

TypeOK ==
    /\ m_active_sessions \in [Ids -> Requests \cup {None}]
    /\ activeGuard \in Owners
    /\ cancelGuard \in [Requests -> Owners]
    /\ m_was_cancelled \in SUBSET Requests
    /\ m_ec \in [Requests -> {"success"} \cup Errors]
    /\ stage \in [Requests -> {"unstarted", "connect", "write", "read"}]
    /\ io \in [Requests -> {"none", "pending", "ok"} \cup Errors]
    /\ pc \in [Requests -> {"idle", "lock", "check", "continue", "complete",
                             "callback", "done"}]
    /\ user \in {"idle", "connect", "find", "mark", "join", "closed"}
    /\ target \in Requests \cup {None}
    /\ \A r \in Requests : asked[r] \in 0 .. MaxCancels[r]
    /\ reported \in [Requests -> Seq({"success"} \cup Errors)]
    /\ Cardinality(Running) <= NumThreads

(* The callback of a request is called at most once, on every path through *)
(* the nested handlers.                                                    *)
ReportedOnce == \A r \in Requests : Len(reported[r]) <= 1

(* A request that cancelRequest found is never reported as a success, even *)
(* when its operations had completed, or complete in spite of the cancel.  *)
CancelHonoured ==
    \A r \in m_was_cancelled : "success" \notin {reported[r][i] : i \in DOMAIN reported[r]}

(* A session can be found under its id, by cancelRequest, exactly from the *)
(* moment it is started until it is complete: another session under the    *)
(* same id is never erased or hidden, and no session stays behind.         *)
InProgress(r) ==
    \/ stage[r] # "unstarted" /\ pc[r] \notin {"callback", "done"}
    \/ user = "connect" /\ target = r

SessionTracked ==
    \A r \in Requests : InProgress(r) <=> m_active_sessions[RequestId[r]] = r

(* Once cancelRequest has marked a session no operation is started on its  *)
(* socket any more.                                                        *)
NoIOAfterCancel ==
    [][\A r \in m_was_cancelled : stage'[r] = stage[r]]_vars

(* "The function to be called when the request completes" is called for    *)
(* every request.                                                          *)
EveryRequestAnswered ==
    \A r \in Requests : stage[r] = "connect" ~> Answered(r)

(* When close() returns, every request that was ever started has had its   *)
(* callback and no session is left in the map.                             *)
AnsweredBeforeClose ==
    user = "closed" =>
      \A r \in Requests : stage[r] # "unstarted" =>
        Answered(r) /\ m_active_sessions[RequestId[r]] = None

(* close() returns: every I/O thread leaves the event loop, whatever was   *)
(* cancelled, failed or still pending when it was called.                  *)
CloseReturns == <>(user = "closed")
==============================================================================
