--------------------------- MODULE DistributedTrace ---------------------------
(***************************************************************************)
(* The client and the server of the tracing example together: the requests *)
(* of AsyncTCPClient over connections to a TraceServer, each carrying the  *)
(* context of the client's span (TraceInfo) to the server's.               *)
(*                                                                         *)
(* Connect, write and read of the client now end as the connection lets    *)
(* them.  The three servers that main connects to, each on a port of its   *)
(* own, are one server here.                                               *)
(***************************************************************************)
EXTENDS AsyncTCPClient, TraceServer

CONSTANTS
    SpanIdOf,      \* id of the "In first worker" span of each request
    TraceId,       \* trace id of the client's main span
    Cmd, Duration  \* "EMULATE_LONG_CALC_OP " and "11"

ASSUME DistributedTraceAssumption ==
    /\ Conns = Requests
    /\ SpanIdOf \in [Requests -> SpanIds \ {Zeros(SPAN_ID_SIZE)}]
    /\ TraceId \in TraceIds \ {Zeros(TRACE_ID_SIZE)}
    /\ {Cmd, Duration} \subseteq Seq(Char \ {Dash, Newline})
    /\ ContextStart = Len(Cmd) + 1 + Len(Duration) + 1

VARIABLES
    tracing,       \* the client's tracer is not the no-op one
    m_request      \* Session::m_request

distVars == <<vars, serverVars, tracing, m_request>>

DistInit ==
    /\ Init
    /\ ServerInit
    /\ tracing \in BOOLEAN
    /\ m_request = [r \in Requests |-> <<>>]

(* Context of the span the connect handler starts, as a child of the       *)
(* context captured when the request was made, and makes active.           *)
WorkerContext(r) ==
    IF tracing
    THEN [span_id |-> SpanIdOf[r], trace_id |-> TraceId,
          flags |-> Zeros(FLAGS_SIZE)]
    ELSE Invalid

(* The request: command, "11", context, joined and ended by dashes.        *)
Request(context_ser) ==
    Cmd \o <<Dash>> \o Duration \o <<Dash>> \o context_ser \o <<Dash, Newline>>

-----------------------------------------------------------------------------
(* The client's own steps: the connect handler also writes m_request.      *)
UserStepD == UserStep /\ UNCHANGED <<serverVars, tracing, m_request>>

HandlerContinueD(r) ==
    /\ HandlerContinue(r)
    /\ m_request' =
         IF stage[r] = "connect"
         THEN [m_request EXCEPT ![r] = Request(ExtractTraceInfo(WorkerContext(r)))]
         ELSE m_request
    /\ UNCHANGED <<serverVars, tracing>>

(* onRequestComplete shuts the connection down before it waits for the     *)
(* map's mutex ...                                                         *)
ShutdownD(r) ==
    /\ pc[r] = "complete"
    /\ r \notin clientEnd
    /\ clientEnd' = clientEnd \cup {r}
    /\ UNCHANGED <<vars, conn, up, down, serverEnd, acceptorVars, stopped, main,
                   service, m_response, span, tracing, m_request>>

(* ... and then erases the session.                                        *)
CompleteD(r) ==
    /\ r \in clientEnd
    /\ Complete(r)
    /\ UNCHANGED <<serverVars, tracing, m_request>>

HandlerStepD(r) ==
    \/ HandlerContinueD(r)
    \/ ShutdownD(r)
    \/ CompleteD(r)
    \/ /\ Handler(r) \/ HandlerLock(r) \/ HandlerCheck(r) \/ Callback(r)
       /\ UNCHANGED <<serverVars, tracing, m_request>>

-----------------------------------------------------------------------------
(* The network completes an operation of the client.                       *)
IoDone(r, op, res) ==
    /\ stage[r] = op /\ io[r] = "pending"
    /\ io' = [io EXCEPT ![r] = res]
    /\ UNCHANGED <<m_active_sessions, activeGuard, cancelGuard,
                   m_was_cancelled, m_ec, stage, pc, user, target, asked,
                   reported, acceptorVars, stopped, main, service, m_response,
                   span, tracing, m_request, clientEnd,
                   serverEnd, down>>

(* Connected as soon as the connection is in the backlog of a listening    *)
(* server, refused otherwise.                                              *)
NetConnect(r) ==
    \/ /\ listening
       /\ IoDone(r, "connect", "ok")
       /\ conn' = [conn EXCEPT ![r] = "queued"]
       /\ UNCHANGED up
    \/ /\ ~listening
       /\ IoDone(r, "connect", "error")
       /\ UNCHANGED <<conn, up>>

(* The connection has ended for the client.                                *)
Ended(r) == conn[r] = "reset" \/ r \in serverEnd

NetWrite(r) ==
    \/ /\ conn[r] # "reset"
       /\ IoDone(r, "write", "ok")
       /\ up' = [up EXCEPT ![r] = m_request[r]]
       /\ UNCHANGED conn
    \/ /\ Ended(r)
       /\ IoDone(r, "write", "error")
       /\ UNCHANGED <<conn, up>>

(* async_read_until ends with a newline, or with the connection.           *)
NetRead(r) ==
    /\ \/ down[r] = "line" /\ IoDone(r, "read", "ok")
       \/ Ended(r) /\ (down[r] = "line" => conn[r] = "reset")
            /\ IoDone(r, "read", "error")
    /\ UNCHANGED <<conn, up>>

NetStep(r) == NetConnect(r) \/ NetWrite(r) \/ NetRead(r)

DistNext ==
    \/ UserStepD
    \/ \E r \in Requests : HandlerStepD(r) \/ NetStep(r)
    \/ ServerNext /\ UNCHANGED <<vars, tracing, m_request>>

(* Both pools of threads, the user and the network go on; the server may   *)
(* run for ever, but a Stop that has begun goes on.                        *)
DistFairness ==
    /\ WF_distVars(UserStepD)
    /\ \A r \in Requests :
         /\ WF_distVars(HandlerStepD(r))
         /\ WF_distVars(NetStep(r))
         /\ WF_distVars(ServiceStep(r) /\ UNCHANGED <<vars, tracing, m_request>>)
    /\ WF_distVars(AcceptStep /\ UNCHANGED <<vars, tracing, m_request>>)
    /\ WF_distVars(FinishStop /\ UNCHANGED <<vars, tracing, m_request>>)

DistSpec == DistInit /\ [][DistNext]_distVars /\ DistFairness

-----------------------------------------------------------------------------
DistTypeOK ==
    /\ TypeOK
    /\ ServerTypeOK
    /\ tracing \in BOOLEAN
    /\ \A r \in Requests : m_request[r] \in Seq(Char)

(* A request that succeeds is part of one distributed trace: the client    *)
(* was tracing, and the span under which the server processed it is a      *)
(* child of this very request's span.  So no request ever succeeds while   *)
(* the client does not trace: its context is empty, and the server refuses *)
(* the format.                                                             *)
SuccessMeansTraced ==
    \A r \in Requests : reported[r] = <<"success">> =>
      /\ tracing
      /\ span[r].span_id = SpanIdOf[r] /\ span[r].trace_id = TraceId

(* A request of a tracing client only fails when its connection broke or   *)
(* was refused or the server was told to stop: neither the framing nor the *)
(* parsing ever rejects what the client really sends.                      *)
FailureExplained ==
    \A r \in Requests : reported[r] = <<"error">> =>
      ~tracing \/ conn[r] = "reset" \/ m_isStopped

(* The server keeps what the client relies on: whatever it answers, with   *)
(* or without the newline, and however it stops, every operation of the    *)
(* client ends.  The composition implements the client over the arbitrary  *)
(* but fair network of AsyncTCPClient, its fairness included.              *)
ClientSpec == Spec

(* A Service that was created is deleted again, also when its client went  *)
(* away, cancelled or never sent a request, unless the server stops.       *)
ServiceEnds ==
    \A r \in Requests :
      service[r] = "read" ~> (service[r] = "deleted" \/ stopped)

(* Server::Stop returns, whatever the pool is doing when it is called.     *)
StopReturns == m_isStopped ~> main = "exit"
==============================================================================
