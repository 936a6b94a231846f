------------------------------ MODULE SpanStack ------------------------------
(***************************************************************************)
(* The span scopes of zil::trace2 (src/libMetrics/Tracing2.{h,cpp}).       *)
(*                                                                         *)
(* A scoped zil::trace2::Span owns one SpanImpl.  Creating it starts an    *)
(* OpenTelemetry span, attaches it to the thread's RuntimeContext (the     *)
(* token) and pushes it on a thread-local stack; Span::End, or ~Span,      *)
(* undoes the three.  The thread-local stack is popped blindly, whatever   *)
(* span ends, while the RuntimeContext is unwound down to the span that    *)
(* ends: the two only agree when scopes end in the reverse order of their  *)
(* creation.                                                               *)
(*                                                                         *)
(* A span is named by a member of Spans; a filter that is off and a        *)
(* remote_trace_info that does not parse yield a no-op Span{} and change   *)
(* nothing, so they are stuttering steps here.                             *)
(***************************************************************************)
EXTENDS Naturals, Sequences, SequencesExt

CONSTANTS
    Threads,     \* values of std::thread::id
    Spans,       \* the spans that may be started
    Remote,      \* span contexts received from another process
    MaxEvents,   \* bound on the annotations of one span
    NoSpan,      \* a null parent
    NoThread     \* owner of a span that is not started

ASSUME SpanStackAssumption ==
    /\ NoSpan \notin Spans \cup Remote
    /\ Spans \cap Remote = {}
    /\ NoThread \notin Threads
    /\ MaxEvents \in Nat

VARIABLES
    m_stack,     \* thread-local TracingImpl::Stack of each thread
    context,     \* thread-local RuntimeContext stack of each thread
    scoped,      \* scoped Span objects with a non-null m_impl, by creator
    borrowed,    \* spans some unscoped Span (GetActiveSpan) refers to
    m_token,     \* spans whose SpanImpl still holds its token
    m_threadId,  \* thread that created each span
    parent,      \* parent context each span was started with
    trace,       \* trace of each span, named by the root of the trace
    viaRemote,   \* spans started by CreateChildSpanOfRemoteTrace
    status,      \* life and final status of each span
    events,      \* attributes and events recorded on each span
    aborted      \* the process called abort()

vars == <<m_stack, context, scoped, borrowed, m_token, m_threadId, parent,
          trace, viaRemote, status, events, aborted>>

StatusCode == {"UNSET", "OK", "ERROR"}

Started == {s \in Spans : status[s] # "none"}

IsRecording(s) == status[s] = "recording"

(* Span::m_impl of a scoped or of an unscoped Span still refers to s.      *)
Held(s) == s \in borrowed \/ \E t \in Threads : s \in ToSet(scoped[t])

-----------------------------------------------------------------------------
Init ==
    /\ m_stack = [t \in Threads |-> <<>>]
    /\ context = [t \in Threads |-> <<>>]
    /\ scoped = [t \in Threads |-> <<>>]
    /\ borrowed = {}
    /\ m_token = {}
    /\ m_threadId = [s \in Spans |-> NoThread]
    /\ parent = [s \in Spans |-> NoSpan]
    /\ trace = [s \in Spans |-> NoSpan]
    /\ viaRemote = {}
    /\ status = [s \in Spans |-> "none"]
    /\ events = [s \in Spans |-> 0]
    /\ aborted = FALSE

(* The span the RuntimeContext of the calling thread holds.                *)
CurrentSpan(t) == IF context[t] = <<>> THEN NoSpan ELSE Last(context[t])

(* The trace of a new span s: the one of its parent p, or a new one.       *)
TraceOf(s, p) ==
    IF p = NoSpan THEN s ELSE IF p \in Remote THEN p ELSE trace[p]

(* RuntimeContext::Detach: nothing if the token is not on the stack, else  *)
(* everything down to it is popped.                                        *)
Detach(ctx, s) ==
    IF \E i \in DOMAIN ctx : ctx[i] = s
    THEN LET i == CHOOSE i \in DOMAIN ctx : ctx[i] = s IN SubSeq(ctx, 1, i - 1)
    ELSE ctx

(* Stack::Push and Stack::Pop.                                             *)
Push(stk, s) == Append(stk, s)

Pop(stk) == SubSeq(stk, 1, Len(stk) - 1)

(* Mutants of CreateSpanImpl: the constructor forgets m_threadId; the      *)
(* RuntimeContext is not attached.                                         *)
CreateSpanImplNoThreadId(t, s, p) ==
    /\ status[s] = "none"
    /\ status' = [status EXCEPT ![s] = "recording"]
    /\ m_token' = m_token \cup {s}
    /\ m_stack' = [m_stack EXCEPT ![t] = Push(@, s)]
    /\ context' = [context EXCEPT ![t] = Append(@, s)]
    /\ scoped' = [scoped EXCEPT ![t] = Append(@, s)]
    /\ parent' = [parent EXCEPT ![s] = p]
    /\ trace' = [trace EXCEPT ![s] = TraceOf(s, p)]
    /\ UNCHANGED <<m_threadId, borrowed, events, aborted>>

CreateSpanImplNoAttach(t, s, p) ==
    /\ status[s] = "none"
    /\ status' = [status EXCEPT ![s] = "recording"]
    /\ m_token' = m_token \cup {s}
    /\ m_stack' = [m_stack EXCEPT ![t] = Push(@, s)]
    /\ scoped' = [scoped EXCEPT ![t] = Append(@, s)]
    /\ parent' = [parent EXCEPT ![s] = p]
    /\ trace' = [trace EXCEPT ![s] = TraceOf(s, p)]
    /\ m_threadId' = [m_threadId EXCEPT ![s] = t]
    /\ UNCHANGED <<context, borrowed, events, aborted>>

(* CreateSpanImpl: start, attach, wrap, push, and return a scoped Span.    *)
CreateSpanImpl(t, s, p) ==
    /\ status[s] = "none"
    /\ status' = [status EXCEPT ![s] = "recording"]
    /\ parent' = [parent EXCEPT ![s] = p]
    /\ trace' = [trace EXCEPT ![s] = TraceOf(s, p)]
    /\ m_threadId' = [m_threadId EXCEPT ![s] = t]
    /\ m_token' = m_token \cup {s}
    /\ context' = [context EXCEPT ![t] = Append(@, s)]
    /\ m_stack' = [m_stack EXCEPT ![t] = Push(@, s)]
    /\ scoped' = [scoped EXCEPT ![t] = Append(@, s)]
    /\ UNCHANGED <<borrowed, events, aborted>>

(* CreateSpan: with default options the SDK takes the current span of the  *)
(* calling thread's RuntimeContext as the parent.                          *)
CreateSpan(t, s) ==
    /\ ~aborted
    /\ CreateSpanImpl(t, s, CurrentSpan(t))
    /\ UNCHANGED viaRemote

(* CreateChildSpanOfRemoteTrace: the parent is decoded from GetIds() of a  *)
(* span of this process, of any thread and even an ended one, or from what *)
(* another process sent.                                                   *)
CreateChildSpanOfRemoteTrace(t, s, p) ==
    /\ ~aborted
    /\ p \in Started \cup Remote
    /\ CreateSpanImpl(t, s, p)
    /\ viaRemote' = viaRemote \cup {s}

(* Mutants of SpanImpl::End: no thread check; the token is kept; the stack *)
(* is not popped.                                                          *)
ImplEndAnyThread(t, s, st) ==
    IF s \in m_token
    THEN /\ status' = [status EXCEPT ![s] = st]
         /\ m_token' = m_token \ {s}
         /\ context' = [context EXCEPT ![t] = Detach(@, s)]
         /\ m_stack' = [m_stack EXCEPT ![t] = Pop(@)]
         /\ UNCHANGED aborted
    ELSE UNCHANGED <<m_stack, context, m_token, status, aborted>>

ImplEndKeepsToken(t, s, st) ==
    IF s \in m_token
    THEN /\ m_threadId[s] = t
         /\ status' = [status EXCEPT ![s] = st]
         /\ m_stack' = [m_stack EXCEPT ![t] = Pop(@)]
         /\ UNCHANGED <<m_token, context, aborted>>
    ELSE UNCHANGED <<m_stack, context, m_token, status, aborted>>

ImplEndNoPop(t, s, st) ==
    IF s \in m_token
    THEN /\ m_threadId[s] = t
         /\ status' = [status EXCEPT ![s] = st]
         /\ m_token' = m_token \ {s}
         /\ context' = [context EXCEPT ![t] = Detach(@, s)]
         /\ UNCHANGED <<m_stack, aborted>>
    ELSE UNCHANGED <<m_stack, context, m_token, status, aborted>>

(* SpanImpl::End called by thread t.                                       *)
ImplEnd(t, s, st) ==
    \/ /\ s \notin m_token
       /\ UNCHANGED <<m_stack, context, m_token, status, aborted>>
    \/ /\ s \in m_token
       /\ m_threadId[s] # t
       /\ aborted' = TRUE
       /\ UNCHANGED <<m_stack, context, m_token, status>>
    \/ /\ s \in m_token
       /\ m_threadId[s] = t
       /\ status' = [status EXCEPT ![s] = st]
       /\ m_token' = m_token \ {s}
       /\ context' = [context EXCEPT ![t] = Detach(@, s)]
       /\ m_stack' = [m_stack EXCEPT ![t] = Pop(@)]
       /\ UNCHANGED aborted

(* Mutants of Span::End: m_isScoped is not tested; an unscoped Span still  *)
(* writes the status.                                                      *)
SpanEndUnscoped(t, s, isScoped, st) == ImplEnd(t, s, st)

SpanEndWritesStatus(t, s, isScoped, st) ==
    IF isScoped
    THEN ImplEnd(t, s, st)
    ELSE /\ status' = [status EXCEPT ![s] = st]
         /\ UNCHANGED <<m_stack, context, m_token, aborted>>

(* Span::End: only a scoped Span forwards to its SpanImpl.                 *)
SpanEnd(t, s, isScoped, st) ==
    IF isScoped
    THEN ImplEnd(t, s, st)
    ELSE UNCHANGED <<m_stack, context, m_token, status, aborted>>

(* Span::End(st), or ~Span with st = UNSET, on the i-th scoped Span that   *)
(* thread u created; thread t makes the call, and m_impl is reset.         *)
EndScoped(t, u, i, st) ==
    /\ ~aborted
    /\ i \in DOMAIN scoped[u]
    /\ SpanEnd(t, scoped[u][i], TRUE, st)
    /\ scoped' = [scoped EXCEPT ![u] = RemoveAt(@, i)]
    /\ UNCHANGED <<borrowed, m_threadId, parent, trace, viaRemote, events>>

(* GetActiveSpan: an unscoped Span on the top of the thread's stack.       *)
GetActiveSpan(t) ==
    /\ ~aborted
    /\ m_stack[t] # <<>>
    /\ borrowed' = borrowed \cup {Last(m_stack[t])}
    /\ UNCHANGED <<m_stack, context, scoped, m_token, m_threadId, parent,
                   trace, viaRemote, status, events, aborted>>

(* End or ~Span on an unscoped Span, by any thread.                        *)
EndBorrowed(t, s, st) ==
    /\ ~aborted
    /\ s \in borrowed
    /\ SpanEnd(t, s, FALSE, st)
    /\ borrowed' = borrowed \ {s}
    /\ UNCHANGED <<scoped, m_threadId, parent, trace, viaRemote, events>>

(* SetAttribute and AddEvent through any Span that refers to s; the SDK    *)
(* drops what is recorded on a span that has ended.                        *)
Annotate(s) ==
    /\ ~aborted
    /\ Held(s)
    /\ events[s] < MaxEvents
    /\ events' = IF IsRecording(s) THEN [events EXCEPT ![s] = @ + 1] ELSE events
    /\ UNCHANGED <<m_stack, context, scoped, borrowed, m_token, m_threadId,
                   parent, trace, viaRemote, status, aborted>>

-----------------------------------------------------------------------------
(* What every thread may always do. *)
Common ==
    \/ \E t \in Threads, s \in Spans : CreateSpan(t, s)
    \/ \E t \in Threads, s \in Spans : \E p \in Started \cup Remote :
          CreateChildSpanOfRemoteTrace(t, s, p)
    \/ \E t \in Threads : GetActiveSpan(t)
    \/ \E t \in Threads, s \in Spans, st \in StatusCode : EndBorrowed(t, s, st)
    \/ \E s \in Spans : Annotate(s)

(* Scoped Spans end in any order and on any thread: all the API allows.    *)
Next ==
    \/ Common
    \/ \E t, u \in Threads : \E i \in DOMAIN scoped[u] : \E st \in StatusCode :
          EndScoped(t, u, i, st)

Spec == Init /\ [][Next]_vars

(* Scoped Spans are automatic variables: the innermost ends first, on the  *)
(* thread that created it.  This is how the callers in the repository use  *)
(* them.                                                                   *)
EndInnermost(t, st) ==
    /\ scoped[t] # <<>>
    /\ EndScoped(t, t, Len(scoped[t]), st)

NestedNext ==
    \/ Common
    \/ \E t \in Threads, st \in StatusCode : EndInnermost(t, st)

NestedSpec == Init /\ [][NestedNext]_vars

-----------------------------------------------------------------------------
TypeOK ==
    /\ m_stack \in [Threads -> Seq(Spans)]
    /\ context \in [Threads -> Seq(Spans)]
    /\ scoped \in [Threads -> Seq(Spans)]
    /\ borrowed \in SUBSET Spans
    /\ m_token \in SUBSET Spans
    /\ m_threadId \in [Spans -> Threads \cup {NoThread}]
    /\ parent \in [Spans -> Spans \cup Remote \cup {NoSpan}]
    /\ trace \in [Spans -> Spans \cup Remote \cup {NoSpan}]
    /\ viaRemote \in SUBSET Spans
    /\ status \in [Spans -> {"none", "recording"} \cup StatusCode]
    /\ events \in [Spans -> 0 .. MaxEvents]
    /\ aborted \in BOOLEAN
    /\ \A s \in Spans : (m_threadId[s] = NoThread) <=> (status[s] = "none")

(* Until the process aborts, a thread's stack is exactly as deep as it has *)
(* open scopes, in whatever order and on whatever thread scopes are ended: *)
(* Pop's assert(!m_stack.empty()) cannot fail and no entry is leaked.      *)
StackDepth ==
    ~aborted => \A t \in Threads : Len(m_stack[t]) = Len(scoped[t])

(* Until the process aborts, a span holds its context token exactly while  *)
(* a scoped Span refers to it, and then it is recording and belongs to the *)
(* thread it was created on; no other span records.                        *)
ScopeOwnership ==
    ~aborted =>
      /\ m_token = UNION {ToSet(scoped[t]) : t \in Threads}
      /\ m_token = {s \in Spans : IsRecording(s)}
      /\ \A t \in Threads : \A s \in ToSet(scoped[t]) : m_threadId[s] = t

(* A step makes a thread's stack shorter only by ending one of the scopes  *)
(* of that very thread: neither the end of an unscoped Span nor the end of *)
(* a foreign thread's Span deactivates anything here.                      *)
PoppedByOwnerOnly ==
    [][\A t \in Threads :
          Len(m_stack'[t]) < Len(m_stack[t]) =>
            \E s \in ToSet(scoped[t]) :
              /\ m_threadId[s] = t
              /\ IsRecording(s) /\ status'[s] \in StatusCode]_vars

(* What a span has recorded when it ends is final: neither a handle that   *)
(* GetActiveSpan gave out before nor a second End changes its status, its  *)
(* events or its place in the trace.                                       *)
EndedIsFinal ==
    [][\A s \in Spans :
          status[s] \in StatusCode =>
            /\ status'[s] = status[s]
            /\ events'[s] = events[s]
            /\ parent'[s] = parent[s] /\ trace'[s] = trace[s]]_vars

(* Tracing::GetActiveSpan "returns the active span (if any)" and           *)
(* Stack::Push asserts that only recording spans are active: what the      *)
(* stack's top refers to is still recording.                               *)
ActiveSpanRecording ==
    ~aborted => \A t \in Threads : m_stack[t] # <<>> => IsRecording(Last(m_stack[t]))

(* With nested scopes the three notions of "what is open" agree: the       *)
(* caller's Span objects, the thread-local stack and the RuntimeContext.   *)
StacksAgree ==
    ~aborted => m_stack = scoped /\ context = scoped

(* With nested scopes a span that CreateSpan started is the child of the   *)
(* scope that directly encloses it, in the same trace, and a root when     *)
(* nothing encloses it.  A remote parent does not count: its scope is on   *)
(* another thread or in another process.                                   *)
ParentIsEnclosing ==
    ~aborted =>
      \A t \in Threads : \A i \in DOMAIN scoped[t] :
        LET s == scoped[t][i] IN
        s \notin viaRemote =>
          IF i = 1
          THEN parent[s] = NoSpan /\ trace[s] = s
          ELSE parent[s] = scoped[t][i-1] /\ trace[s] = trace[scoped[t][i-1]]

(* Nested scopes implement the promise of ScopeStack: the top of the       *)
(* thread-local stack is the innermost scope, CreateSpan opens a child of  *)
(* it, End closes it, and handles and annotations change nothing.          *)
Promise == INSTANCE ScopeStack WITH
    open <- m_stack,
    closed <- {s \in Spans : status[s] \in StatusCode},
    up <- parent,
    adopted <- viaRemote

ImplementsScopeStack == Promise!ScopeSpec
=============================================================================
