----------------------------- MODULE TraceServer ------------------------------
(***************************************************************************)
(* The server of the tracing example (trace/server.cpp): an acceptor, one  *)
(* Service object per connection, a pool of threads that runs their        *)
(* completion handlers, and a main thread that finally stops it all.       *)
(*                                                                         *)
(* A connection is named by the request it carries.  Its two directions,   *)
(* up and down, and its two ends are state of the network; this module     *)
(* describes what the server does to them, DistributedTrace adds the       *)
(* client.  A handler is one step, except ProcessRequest, which keeps its  *)
(* thread busy for long.  The wording of the answers is left out, except   *)
(* whether they end in the newline that the client waits for; a span is    *)
(* known by the parent it is given, whether or not the server exports it.  *)
(***************************************************************************)
EXTENDS Naturals, Sequences, FiniteSets, TraceInfo

CONSTANTS
    Conns,        \* connections
    PoolSize,     \* thread_pool_size
    MaxResets,    \* bound: connections the network breaks
    ContextStart, \* where the context starts in a request (25)
    Newline       \* '\n'

ASSUME TraceServerAssumption ==
    /\ IsFiniteSet(Conns)
    /\ PoolSize \in Nat \ {0}     \* assert(thread_pool_size > 0)
    /\ ContextStart \in Nat
    /\ MaxResets \in Nat
    /\ Newline \in Char \ (DOMAIN FromHex \cup {Dash})

VARIABLES
    conn,          \* each connection: none, queued in the backlog, open, reset
    up,            \* what the client has sent
    down,          \* what the server has sent
    clientEnd,     \* connections the client has shut down
    serverEnd,     \* connections the server has closed
    listening,     \* m_acceptor is open
    accepting,     \* an async_accept is outstanding
    m_isStopped,   \* Acceptor::m_isStopped
    stopped,       \* m_ios.stop() was called
    main,          \* where the server's main thread is
    service,       \* the Service of each connection
    m_response,    \* its answer
    span           \* context each "On The Server" span has as its parent

netVars == <<conn, up, down, clientEnd, serverEnd>>

acceptorVars == <<listening, accepting, m_isStopped>>

serverVars == <<netVars, acceptorVars, stopped, main, service, m_response, span>>

(* Server::Server, Server::Start, Acceptor::Start.                         *)
ServerInit ==
    /\ conn = [c \in Conns |-> "none"]
    /\ up = [c \in Conns |-> <<>>]
    /\ down = [c \in Conns |-> "nothing"]
    /\ clientEnd = {} /\ serverEnd = {}
    /\ listening = TRUE /\ accepting = TRUE /\ m_isStopped = FALSE
    /\ stopped = FALSE
    /\ main = "sleep"
    /\ service = [c \in Conns |-> "none"]
    /\ m_response = [c \in Conns |-> "nothing"]
    /\ span = [c \in Conns |-> Invalid]

(* Pool threads inside ProcessRequest.                                     *)
Busy == {c \in Conns : service[c] = "process"}

(* Mutant: one thread more than the pool has.                              *)
PoolFreeOneMore == ~stopped /\ Cardinality(Busy) <= PoolSize

(* A pool thread is free and the event loop runs handlers.                 *)
PoolFree == ~stopped /\ Cardinality(Busy) < PoolSize

-----------------------------------------------------------------------------
(* ProcessRequest, the conversions.                                        *)

Dashes(buf) == {i \in DOMAIN buf : buf[i] = Dash}

(* The position of the k-th dash, and the field between two dashes as      *)
(* SplitString numbers them.                                               *)
DashAt(buf, k) ==
    CHOOSE i \in Dashes(buf) : Cardinality({j \in Dashes(buf) : j <= i}) = k

SplitField(buf, k) == SubSeq(buf, DashAt(buf, k) + 1, DashAt(buf, k + 1) - 1)

(* Five fields or more.                                                    *)
FormatOK(buf) == Cardinality(Dashes(buf)) >= 4

(* Mutant: an offset that is off by one.                                   *)
ContextOffByOne(buf) == SubSeq(buf, ContextStart, Len(buf) - 2)

(* context_ser: what follows the command and a duration of two digits, 25  *)
(* characters in all, up to the final dash and newline.                    *)
ContextSer(buf) == SubSeq(buf, ContextStart + 1, Len(buf) - 2)

(* The variables are called trace_id_hex and span_id_hex, the fields are   *)
(* the flags and the span id.                                              *)
HexOK(buf) ==
    IsValidHex(SplitField(buf, 2)) /\ IsValidHex(SplitField(buf, 3))

(* Mutant: the answer has no newline.                                      *)
AnswerNoNewline(buf) == "invalid"

(* "Response\n", or "invalid format" and "invalid hex" without a newline.  *)
Answer(buf) == IF FormatOK(buf) /\ HexOK(buf) THEN "line" ELSE "invalid"

(* CreateChildSpan: the parent of the new span.  A text that does not      *)
(* parse yields the current span instead, which on a pool thread between   *)
(* two handlers is the invalid default one.                                *)
CreateChildSpan(text) == ExtractSpanContext(text)

-----------------------------------------------------------------------------
(* Acceptor.                                                               *)

(* What becomes of the connections when c leaves the backlog: an acceptor  *)
(* that is closed resets those still waiting.                              *)
LeaveBacklog(c, as) ==
    [d \in Conns |-> IF d = c THEN as
                     ELSE IF m_isStopped /\ conn[d] = "queued" THEN "reset"
                     ELSE conn[d]]

(* The rest of onAccept: the next accept or, once stopped, close.          *)
InitAccept == accepting' = ~m_isStopped /\ listening' = ~m_isStopped

(* onAccept without an error: a new Service starts to read.                *)
OnAccept(c) ==
    /\ PoolFree /\ accepting
    /\ conn[c] = "queued"
    /\ conn' = LeaveBacklog(c, "open")
    /\ service' = [service EXCEPT ![c] = "read"]
    /\ InitAccept
    /\ UNCHANGED <<up, down, clientEnd, serverEnd, m_isStopped, stopped, main,
                   m_response, span>>

(* The network breaks a bounded number of connections.                     *)
Breakable == Cardinality({c \in Conns : conn[c] = "reset"}) < MaxResets

(* onAccept with an error, of a connection that went away in the backlog:  *)
(* logged only.                                                            *)
OnAcceptError(c) ==
    /\ PoolFree /\ accepting
    /\ Breakable
    /\ conn[c] = "queued"
    /\ conn' = LeaveBacklog(c, "reset")
    /\ InitAccept
    /\ UNCHANGED <<up, down, clientEnd, serverEnd, m_isStopped, stopped, main,
                   service, m_response, span>>

-----------------------------------------------------------------------------
(* Service.                                                                *)

(* Mutant: the Service is forgotten instead of deleted.                    *)
OnFinishLeaks(c) ==
    service' = [service EXCEPT ![c] = "deleted"] /\ UNCHANGED serverEnd

(* onFinish: "delete this", which closes the socket.                       *)
OnFinish(c) ==
    /\ service' = [service EXCEPT ![c] = "deleted"]
    /\ serverEnd' = serverEnd \cup {c}

(* Mutant: the end of the stream does not count as an error.               *)
ReadResetOnly(c) == conn[c] = "reset"

(* The connection has ended, or broke, before a newline.                   *)
ReadFailed(c) == conn[c] = "reset" \/ (c \in clientEnd /\ up[c] = <<>>)

(* onRequestReceived with an error.                                        *)
OnRequestError(c) ==
    /\ PoolFree
    /\ service[c] = "read"
    /\ ReadFailed(c)
    /\ OnFinish(c)
    /\ UNCHANGED <<conn, up, down, clientEnd, acceptorVars, stopped, main,
                   m_response, span>>

(* onRequestReceived: ProcessRequest begins and, in a request that has the *)
(* right format, starts its span.                                          *)
OnRequestReceived(c) ==
    /\ PoolFree
    /\ service[c] = "read"
    /\ conn[c] = "open" /\ up[c] # <<>>
    /\ service' = [service EXCEPT ![c] = "process"]
    /\ span' = IF FormatOK(up[c])
               THEN [span EXCEPT ![c] = CreateChildSpan(ContextSer(up[c]))]
               ELSE span
    /\ UNCHANGED <<netVars, acceptorVars, stopped, main, m_response>>

(* ProcessRequest returns, which ends its span; async_write is started.    *)
Respond(c) ==
    /\ service[c] = "process"
    /\ m_response' = [m_response EXCEPT ![c] = Answer(up[c])]
    /\ service' = [service EXCEPT ![c] = "write"]
    /\ UNCHANGED <<netVars, acceptorVars, stopped, main, span>>

(* The network takes the answer, or the write fails.                       *)
SendResponse(c) ==
    /\ service[c] = "write"
    /\ down' = IF conn[c] = "open" THEN [down EXCEPT ![c] = m_response[c]]
                                   ELSE down
    /\ service' = [service EXCEPT ![c] = "sent"]
    /\ UNCHANGED <<conn, up, clientEnd, serverEnd, acceptorVars, stopped, main,
                   m_response, span>>

(* onResponseSent, error or not.                                           *)
OnResponseSent(c) ==
    /\ PoolFree
    /\ service[c] = "sent"
    /\ OnFinish(c)
    /\ UNCHANGED <<conn, up, down, clientEnd, acceptorVars, stopped, main,
                   m_response, span>>

-----------------------------------------------------------------------------
(* Server::Stop on the main thread: the flag, the event loop, join; then   *)
(* main returns and the process ends, which closes all its sockets.        *)
StopAcceptor ==
    /\ main = "sleep"
    /\ m_isStopped' = TRUE
    /\ main' = "stop"
    /\ UNCHANGED <<netVars, listening, accepting, stopped, service, m_response, span>>

(* Mutant: the event loop is not stopped, only waited for.                 *)
StopIosForgotten ==
    /\ main = "stop" /\ main' = "join"
    /\ UNCHANGED <<netVars, acceptorVars, stopped, service, m_response, span>>

StopIos ==
    /\ main = "stop"
    /\ stopped' = TRUE
    /\ main' = "join"
    /\ UNCHANGED <<netVars, acceptorVars, service, m_response,
                   span>>

JoinPool ==
    /\ main = "join"
    /\ stopped /\ Busy = {}
    /\ main' = "exit"
    /\ listening' = FALSE
    /\ conn' = [c \in Conns |-> IF conn[c] = "queued" THEN "reset" ELSE conn[c]]
    /\ serverEnd' = {c \in Conns : conn[c] = "open"} \cup serverEnd
    /\ UNCHANGED <<up, down, clientEnd, accepting, m_isStopped, stopped,
                   service, m_response, span>>

(* The network breaks a connection that was accepted.                      *)
Reset(c) ==
    /\ Breakable
    /\ conn[c] = "open"
    /\ conn' = [conn EXCEPT ![c] = "reset"]
    /\ UNCHANGED <<up, down, clientEnd, serverEnd, acceptorVars, stopped, main,
                   service, m_response, span>>

AcceptStep == \E c \in Conns : OnAccept(c) \/ OnAcceptError(c)

ServiceStep(c) ==
    \/ OnRequestError(c) \/ OnRequestReceived(c) \/ Respond(c)
    \/ SendResponse(c) \/ OnResponseSent(c)

FinishStop == StopIos \/ JoinPool

ServerNext ==
    \/ AcceptStep
    \/ \E c \in Conns : ServiceStep(c) \/ Reset(c)
    \/ StopAcceptor \/ FinishStop

ServerTypeOK ==
    /\ conn \in [Conns -> {"none", "queued", "open", "reset"}]
    /\ \A c \in Conns : up[c] \in Seq(Char)
    /\ down \in [Conns -> {"nothing", "line", "invalid"}]
    /\ clientEnd \in SUBSET Conns /\ serverEnd \in SUBSET Conns
    /\ {listening, accepting, m_isStopped, stopped} \subseteq BOOLEAN
    /\ main \in {"sleep", "stop", "join", "exit"}
    /\ service \in [Conns -> {"none", "read", "process", "write", "sent", "deleted"}]
    /\ m_response \in [Conns -> {"nothing", "line", "invalid"}]
    /\ Cardinality(Busy) <= PoolSize
    /\ \A c \in Conns : span[c].span_id \in SpanIds /\ span[c].trace_id \in TraceIds
==============================================================================
