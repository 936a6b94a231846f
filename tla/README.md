# TLA+ specifications of the telemetry library

This directory holds TLA+ models of the tracing and metrics library
(`src/src/libMetrics`, `src/src/common`) and of the traced client/server pair
that exercises it (`src/trace`). TLC checks the models on small instances,
TLAPS proves the most important properties for every instance.
`PROJECT.json` maps each definition to the lines it models and lists the runs,
hazards, findings and theorems.

## 1. The system

| part | source | state | operations |
|---|---|---|---|
| trace2 span scopes | `Tracing2.{h,cpp}` | per thread: a stack of active spans and the OpenTelemetry `RuntimeContext`; per span: context token, creator thread, parent, status | `CreateSpan`, `CreateChildSpanOfRemoteTrace`, `GetActiveSpan`, `SetAttribute`, `AddEvent`, `End`, `~Span` |
| trace2 initialization | `Tracing2.cpp` | once flag, `m_tracer`, `m_filtersMask`, the process-wide tracer provider | `Tracing::Initialize`, `IsEnabled`, the checks in `CreateSpan` |
| filter masks | `Metrics.{h,cpp}`, `Tracing.{h,cpp}`, `Tracing2.cpp` | a 64 bit mask, one bit per class | `Filter::init`, `UpdateMetricsMask`/`UpdateMask`, `Enabled` |
| `Singleton` | `common/Singleton.h` | a static `shared_ptr` | `GetInstance` |
| asynchronous TCP client | `trace/client.cpp` | map of active sessions and its mutex; per session a cancel flag and its mutex, an error code, a socket | `emulateLongComputationOp`, three completion handlers, `cancelRequest`, `close`, `onRequestComplete` |
| trace server | `trace/server.cpp` | `Service` objects that delete themselves, an acceptor with a stop flag, a thread pool | accept, read, parse, answer, `Stop` |
| trace info codec | `Tracing2.cpp`, `Helper.cpp` | none | ids to text and back |
| older `Tracing` | `Tracing.{h,cpp}`, `Helper.cpp` | the process-wide provider, `TRACE_ZILLIQA_MASK` | `Init`, `Shutdown`, `get_tracer`, `CreateChildSpan` |
| `Metrics`, instruments, `Observable` | `Metrics.{h,cpp}`, `internal/mixins.h` | the meter provider, `METRIC_ZILLIQA_MASK`, instruments, callbacks | `Init*`, `Shutdown`, `Create*`, `SetCallback`, `RawCallback` |
| `LatencyScopeMarker` | `internal/scope.{h,cpp}` | the counter it owns, the histogram it refers to | constructor, destructor |
| logging, exporters | `Logger.*`, the SDK | sockets, streams | I/O |

How they meet: everything asks `Singleton` for the process-wide objects. A
`CreateSpan` of trace2 reads what `Initialize` has published, without a lock,
asks the filter mask, starts a span whose parent the SDK takes from the thread's
`RuntimeContext`, and pushes it on the thread's stack. `Tracing` and trace2 share
the global tracer provider. The client sends the serialized ids of its active
span; the server decodes them and creates a child span.

What is hard here, and what correctness means:

* **two stacks per thread.** trace2 pops its stack blindly, the `RuntimeContext`
  unwinds to the token that is released. They must describe the same nesting, or
  the active span is not the parent of the next one. A `Span` may also be ended
  by another thread (the process aborts), through a handle that does not own it
  (nothing may happen), or after its thread is gone.
* **initialization concurrent with use.** Exactly one `Initialize` does the work,
  the result is all or nothing, callers that wait are woken also on failure, and
  no span is created for a filter that is off.
* **shifts of an `int`.** Bits of the mask are `1 << n`: sign extension at 31,
  undefined from 32 on, while the comments allow 64 classes.
* **first use of a singleton by two threads.**
* **instruments and their order.** A constructor reads a filter that another
  constructor loads; gauges are called back by a thread of the SDK while they are
  set up and destroyed.
* **two processes and a connection between them.** The client reads until a
  newline that some answers do not have; the server's services delete themselves,
  its acceptor learns of a stop only with the next connection. Either side may go
  away at any moment. Every operation of the client must end, every service must
  be deleted, `Stop` must return, and a request that succeeds must be one trace.
* **ids as text.** The context is cut out of the request at a fixed position and
  decoded by position again.
* **cancel against completion.** Handlers run on a pool of threads, the user may
  cancel at any moment; two kinds of mutex are nested in both orders. Each
  request must be answered exactly once, with an error if it was cancelled in
  time, and `close` must return.

`PROJECT.json` lists these hazards one by one, at their lines, with the
properties that would catch each going wrong.

## 2. Modules

| module | models | used by |
|---|---|---|
| `SpanStack` | `Span`, `SpanImpl`, `Stack` of trace2 | `MCSpanStack`, `SpanStackProofs` |
| `ScopeStack` | abstract promise: one stack of scopes per thread | `SpanStack` (instance `Promise`) |
| `SpanStackProofs`, `SpanNestingProofs` | theorems about `SpanStack` | |
| `TracingInit`, `TracingInitProofs` | `Tracing::Initialize` and the reads that race with it; theorems | `MCTracingInit` |
| `FilterMask`, `FilterMaskProofs` | mask parsing and testing, its theorems | `MCFilterMask` |
| `Singleton` | `Singleton<T>::GetInstance` | `MCSingleton` |
| `Instruments`, `InstrumentsProofs` | `Metrics`, counters, histograms, gauges and their callbacks; theorems | `MCInstruments` |
| `AsyncTCPClient`, `AsyncTCPClientProofs` | the client, over an arbitrary network; theorems | `MCAsyncTCPClient`, `DistributedTrace` |
| `TraceInfo`, `TraceInfoProofs` | the ids of a span as text and back; theorems | `TraceServer`, `DistributedTraceProofs` |
| `TraceServer` | acceptor, services, server, their connections | `DistributedTrace` |
| `DistributedTrace` | client and server together | `MCDistributedTrace`, `DistributedTraceProofs` |
| `DistributedTraceProofs` | theorems about client and server together; uses those of the client and of the codec | |

### SpanStack and ScopeStack

A member of `Spans` is one `SpanImpl` with its SDK span. `m_stack[t]` and
`context[t]` are the thread's two stacks. `scoped[t]` lists the scoped `Span`
objects whose `m_impl` is set, in the order `t` created them; `borrowed` is the
set of spans an unscoped `Span` (from `GetActiveSpan`) refers to; `m_token` the
spans whose token is not yet released.

| action | code |
|---|---|
| `CreateSpan`, `CreateChildSpanOfRemoteTrace` with `CreateSpanImpl` | start, attach to the context, construct `SpanImpl`, push, return a scoped `Span` |
| `EndScoped(t, u, i, st)` with `SpanEnd`, `ImplEnd` | thread `t` ends the i-th scoped `Span` created by `u`: token test, thread test and `abort`, status, release of the token (unwinds the context), blind `Pop`, `m_impl.reset()` |
| `GetActiveSpan`, `EndBorrowed` | an unscoped `Span` on the top of the stack; its `End` does nothing |
| `Annotate` | `SetAttribute`, `AddEvent`; the SDK ignores an ended span |

`Spec` lets scoped Spans end in any order on any thread: that is all the API
allows. `NestedSpec` lets the innermost end first, on its own thread: what
automatic variables do, and what every caller in the repository does.
`std::thread::id` values are taken as unique for the life of the process.

`ScopeStack` is what the header promises: a stack of scopes per thread, a new
scope is a child of the innermost one or of the parent named. The refinement
mapping takes `m_stack` as the open scopes, the spans with a final status as the
closed ones, `parent` and `viaRemote` as the parents.

External to the repository, modelled from how it is used: the parent the SDK
chooses (`CurrentSpan`), the trace id it assigns (`TraceOf`) and
`RuntimeContext::Detach` (nothing if the token is not on the stack, else
everything down to it is popped).

### TracingInit

One action per step of `Initialize` that other threads can see: `CallOnce`,
`ParseMask` (into a local), `InitProvider` (which sets the global provider, or
fails before or after setting it), `SetTracer` (which reads the global provider
back), `SetMask`, `Return`. `CreateSpan` and `IsEnabled` are the two separate,
unsynchronised reads of `m_tracer` and `m_filtersMask`; a race on either is the
choice between the old and the new value. `LegacyInit` and `LegacyShutdown` are
the older class replacing the provider at any time; `undercut` remembers a
`Shutdown` that fell between setting the provider and taking the tracer from it,
the one window in which it does harm. A mask is the set of filters
it enables; empty, `NONE` and a list of unknown names end alike, as `{}`.

### FilterMask

A mask is the set of its bits. `Shift(n)` gives the outcomes of `1 << n` for an
`int` of `IntWidth` bits stored in a mask of `MaskWidth` bits: one bit, the sign
bit widened, and beyond the width either the count taken modulo the width or no
bit at all, the outcomes a compiler produces for this undefined shift. One
`InitLoop` step per name of the list, so that a test by another thread in the
middle of the loop is a state of the model. `TypeOK` includes when the loop ends:
exactly when every bit is set (the `break`) or no name is left. The three copies of the parser
(`Metrics.cpp`, `Tracing.cpp`, `Tracing2.cpp`) are the same algorithm.

### Singleton

Test, allocation, assignment and dereference are separate steps; assigning the
`shared_ptr` destroys the object that was there.

### Instruments

`MetricsInit` is `Metrics::Init`: the filter is loaded from
`METRIC_ZILLIQA_MASK`, then one of the `Init*` functions installs a provider, all
exporters being alike here; `InitNoop` clears the mask parameter afterwards. The
constructors follow `internal/mixins.h`: a counter or histogram of a class that
is off never asks for the meter and is a no-op for ever; a histogram adds a view
through a downcast of the global provider (`undefined` records a wrong one); a
gauge always asks. `Increment` stands for the calls that measure; a measurement
of an enabled class that ends in a no-op instrument while an exporter is
installed is `lost`. `LatencyScope` is the destructor of a `LatencyScopeMarker`,
which, if its class is enabled, measures with a counter and a histogram at once,
and in any case ends the counter, which was moved into it; nothing in the
repository creates one, so the three classes it involves are taken to be the same.
`SetCallback`/`AddCallback`, `Destroy`/`RemoveCallback` are the two halves of `Observable::SetCallback` and `~Observable`. The collector
(external) holds the lock of the SDK's list of callbacks while it runs them.
`WarmStart` says whether `Metrics::GetInstance()` comes before the first
constructor, as in the fixture of `testing/Test.cpp`.

### AsyncTCPClient

The user thread is a small program counter (`user`, `target`); a request has a
`stage` (the operation it is in), `io` (that operation: pending, or its result,
queued) and `pc` (where its handler is). The handlers for connect, write and read
have the same shape, so one set of actions models all three: `Handler` (a free
pool thread starts it; an error or the end of the read goes straight to
`onRequestComplete`), `HandlerLock`, `HandlerCheck` of `m_was_cancelled`,
`HandlerContinue` (the next operation), then `Complete` and `Callback` of
`onRequestComplete`, with the cancel mutex still held where the code holds it.
`cancelRequest` is `CancelEnter`, `CancelMiss`/`CancelLock`, `CancelMark`.

`NetComplete` is external: asio completes or fails what is pending. A cancel of a
composed operation (`async_write`, `async_read_until`) may fall between two of
its parts and miss. `shutdown` on the socket is taken to have no effect on the
request. Ids are unique among the requests in progress, as the comment at `m_id`
says; an id may be used again after its callback.

### TraceInfo

Pure operators: `GetIds` is `GetIdsImpl` (and the end of
`ExtractTraceInfoFromActiveSpan`), `ExtractSpanContext` is
`ExtractSpanContextFromIds` (and `ExtractSpanContextFromTraceInfo`, the same code
in `Helper.cpp`), test by test in the code's order. Widths and alphabet are
constants; an id is a sequence of nibbles. What hexadecimal digits stand for and
which contexts are valid is external (`opentelemetry::trace`); what the flags
decode to is a constant operator about which nothing is assumed, so that no result
depends on it (the SDK's decoder knows one-character fields only, so that TLC's
instance decodes the flags the encoder writes to none).

### TraceServer

| action | code |
|---|---|
| `OnAccept`, `OnAcceptError` | `Acceptor::onAccept`: a new `Service` that reads, or a log line; then the next accept or, once stopped, `close` |
| `OnRequestError`, `OnRequestReceived` | `Service::onRequestReceived`, and `ProcessRequest` up to the span it starts |
| `Respond` | `ProcessRequest` returns its answer, `async_write` is started |
| `SendResponse`, `OnResponseSent` | the write ends, `onFinish` deletes the service and with it the socket |
| `StopAcceptor`, `StopIos`, `JoinPool` | `Server::Stop` and the end of `main` |

`FormatOK`, `ContextSer`, `HexOK` and `Answer` are the parsing in
`ProcessRequest`: five fields between dashes, the context from position
`ContextStart` (25 in the code: 21 characters of command, a dash, two digits, a
dash) up to the last two characters, and a hexadecimal test of the third and the
fourth field. A pool thread is busy during `ProcessRequest` only, which sleeps;
the other handlers are single steps. The network (external) is the backlog, the
two directions and the two ends of each connection, and `Reset`, which breaks a
bounded number (`MaxResets`) of them. The end of the server's process closes its
sockets.

### DistributedTrace

`AsyncTCPClient` and `TraceServer` with the connections between them. The connect
handler writes `m_request` with the context of the span it has just started;
`onRequestComplete` shuts the connection down (`ShutdownD`) before it waits for the
map's mutex and erases the session (`CompleteD`), so that the server may react
in between; connect, write and read of the
client end as the state of the connection allows (`NetConnect`, `NetWrite`,
`NetRead`, in place of `NetComplete`). `tracing` says whether the client's tracer
is a real one. `ClientSpec` is the specification of `AsyncTCPClient`, fairness
included, as a property of the composition: the server together with TCP is one of
the networks that the client was checked against.

## 3. Runs

Deadlock checking is off in all of them because the modelled programs really
stop: the given spans, objects or names are used up, the process aborts, the
client has closed. Where stopping would be an error it is a property
(`CloseReturns`, `InitializeReturns`, `ObservableReturns`).

| run | bounds | shows |
|---|---|---|
| `scopes_any_order` | 2 threads, 3 spans, 1 remote context, 1 annotation; 572 000 states up to symmetry | `TypeOK`, `StackDepth`, `ScopeOwnership`, `PoppedByOwnerOnly`, `EndedIsFinal`: the depth of the stack and the ownership of spans survive any misuse short of the abort |
| `scopes_nested` | same; 216 000 states | `StacksAgree`, `ActiveSpanRecording`, `ParentIsEnclosing`, `ImplementsScopeStack` |
| `scopes_out_of_order` | same | violation, finding 1 |
| `init_once` | 3 threads, 2 filters; 630 000 states | `TypeOK`, `AllOrNothing`, `SpansFiltered`, `SpansValid`, `SettledAfterReturn`, `InitializeReturns` |
| `init_second_call` | 2 threads | violation, finding 2 |
| `filters_exact` | 3 classes, `int` of 3 bits, mask of 6, lists of up to 5 names; 16 000 states | `TypeOK`, `FilterExact`, `NeverOverEnabled` at the largest number of classes for which they hold |
| `singleton_first_use` | 3 threads, 2 objects | violation, finding 3 |
| `instruments_warm` | a counter, a histogram, two gauges, two classes, 2 threads; 24 000 states | `TypeOK`, `NothingLost`, `DowncastDefined`, `CallbackAlive`, `CallbackRuns`, `ObservableReturns` |
| `instruments_lazy` | same, metrics not initialized first | violation, finding 4 |
| `client_requests` | 3 requests of which two share an id, 2 pool threads, 1 cancel each; 621 000 states | `TypeOK`, `ReportedOnce`, `CancelHonoured`, `SessionTracked`, `AnsweredBeforeClose`, `NoIOAfterCancel`, `CloseReturns` |
| `client_cancel_twice` | 2 requests, 2 threads, 2 cancels | violation, finding 5 |
| `distributed_request` | 2 requests under one id, 2 client threads, 1 server thread, 1 cancel, 1 reset, ids of 2 and 1 digits; 340 000 states | `DistTypeOK`, `SuccessMeansTraced`, `FailureExplained`, `ClientSpec`, `ServiceEnds`, `StopReturns` |

Why the bounds suffice. Three spans allow an outer, a middle and an inner scope,
so that a blind pop can remove each of the wrong ones, and a foreign thread's
scope beside two nested ones; the proofs remove the bound. Three threads in
`Initialize` give a winner, a waiter and a latecomer, or a waiter and a thread
that creates spans. Two gauges and two threads let one gauge be set up or
destroyed while the collector is in the callback of the same or of the other. In `filters_exact` the widths are scaled down so that a list
can name every class, the sign bit and `ALL` in every order, with repetitions;
the proof removes the bound, and the build (12 classes, 32 and 64 bits) meets its
assumption. Three requests give two in progress and a reused id; with two threads
every handler that is queued can run, so that two handlers meet the user thread. `MaxCancels = 1` is what
`client_requests` needs to hold: with 2 the client deadlocks, which is
finding 5. In `distributed_request` the second request is started when the first
has been answered, while the server may still be busy with the first one's
connection: that is where a stale service, a full pool (of one thread), a
cancelled client or a broken connection meets a new request. The second request
is not cancelled; cancels of several requests are what `client_requests` is for.
One reset can break any connection at any stage, also in the backlog. The command
has one character instead of 21, with `ContextStart` to match; the theorem removes
this bound and those on requests, threads, cancels and resets.

Symmetry: spans and threads of `SpanStack` are interchangeable, in runs without
liveness properties. The other runs use none.

Fairness. `TracingInit`: a thread inside `Initialize` keeps running (the
scheduler; nothing in it waits except `call_once`). `AsyncTCPClient`: the user
thread keeps making progress and in the end closes the client, as `main` does; a
pool thread with a queued handler runs it; the network finishes every pending
operation one way or the other. The last one is an assumption about the peer:
the client sets no timeout, so a server that accepts and never answers keeps
`close` waiting. `Instruments`: the periodic reader keeps collecting, callbacks
return, and a thread that waits for the lock of the callback list gets it in one
of the pauses between collections (strong fairness: the list is free for most of
every export interval). `DistributedTrace`: as for the client, except that the
network ends an operation only when the connection's state says so; the server's
threads run what is queued for them, and a `Stop` that has begun goes on, but the
server need never stop. `ClientSpec` shows that the client's assumption about the
network then holds, where it was an assumption about the peer before. No fairness is assumed of any single request's being cancelled
or started.

Each property of each passing run has a mutant: a definition that stands beside
the one it replaces, is marked as such in its comment, and makes TLC find the
property violated.

## 4. Findings

1. **Ending out of order** (`Tracing2.cpp:170`). After an outer `Span` is ended
   before an inner one, `GetActiveSpan` returns the outer, ended span.
2. **Second `Initialize`** (`Tracing2.cpp:265`). It returns false while tracing is
   enabled; the header says false means disabled.
3. **`Singleton` is not thread safe** (`Singleton.h:49`), in spite of its comment:
   two first callers get different objects, and one of them is destroyed.
4. **No lazy loading by counters** (`mixins.h:38`). With an exporter configured and
   its class in the mask, a counter or histogram that is constructed first still
   finds its filter not loaded, never initialises metrics, and stays a no-op when
   something else does.
5. **Cancelling twice deadlocks** (`client.cpp:229`). A handler that found its
   session cancelled waits for the sessions mutex with the cancel mutex held; a
   second `cancelRequest` holds them the other way round.

Also met while modelling, without a run of its own. The comments on the filter
lists allow 64 classes (`MetricFilters.h:28`), but a bit is `1 << n` on an `int`,
undefined from `n = 32` on: the hypothesis `NumClasses <= IntWidth` of the
theorems on `FilterMask` is the limit that holds, and the lists have 12 classes. A
`Shutdown` of the older `Tracing` between `SetTracerProvider` and
`GetTracerProvider` in `TracingImpl::Initialize` leaves trace2 enabled with a
no-op tracer, whose spans have no valid context (`assert` at `Tracing2.cpp:182`);
`SpansValid` says that this is the only window. A request of a client that does
not trace always fails: its empty context leaves the server one field short
(`SuccessMeansTraced`). The server's `trace_id_hex` and `span_id_hex` really hold
the flags and the span id (`server.cpp:80`), which is harmless because they are
only tested for being hexadecimal.
And without an exporter configured, `InitNoop` leaves classes enabled, so that the
first enabled histogram, or `Metrics::Shutdown`, casts the no-op provider to the
SDK's: `DowncastDefined` is stated for configurations with an exporter only.
A second `SetCallback` on a gauge would register it twice and assign `m_callback`
under the collector; no caller does that, and the model does not either.

## 5. Proofs

`SpanStackProofs`, for every set of threads and spans and for `Spec`, that is any
misuse: `TypeCorrect`, `StackDepthHolds`, `ScopeOwnershipHolds`,
`PoppedByOwnerOnlyHolds`, `EndedIsFinalHolds`. Assumptions: `SpanStackAssumption`
(the null values are not spans or threads, remote contexts are not local spans).
The two state properties are not inductive: that a pop removes an entry needs
that the span that ends is one of the thread's own scopes and is listed once.
The inductive invariant `ScopeInv` therefore adds: a span with a token is
recording; every scope listed is held by its token and by the thread it is listed
under; no span is listed twice; every token has its scope; the depths are equal
(each until the process aborts).

`SpanNestingProofs`, for `NestedSpec`: `StacksAgreeHolds`,
`ActiveSpanRecordingHolds`, `ParentIsEnclosingHolds` and `ScopeStackImplemented`
(the refinement of `ScopeStack`). The invariant `NestedInv` adds to `ScopeInv` that
the process has not aborted (nested use never does), that the three sequences,
scopes, stack and context, are equal, and `ParentIsEnclosing`. It needs `ScopeInv`
because a detach of the last element removes just that element only in a sequence
without repetition; then the blind pop and the unwinding agree.

`FilterMaskProofs`: `TypeCorrect` for all widths, and, for at most as many
classes as an `int` has bits, `FilterExactHolds` and `NeverOverEnabledHolds`. The
invariant `MaskInv` adds to `TypeOK` that a class's bit is set exactly when one of
the names seen so far is that class or `ALL`; that nothing the early exit leaves
unseen matters then follows from the exit condition in `TypeOK`. The limit on the classes is a hypothesis of the theorems; without it the
properties are false.

`TraceInfoProofs`, for all widths and alphabets that satisfy
`TraceInfoAssumption` (widths of at least one; `ToHex` and `FromHex` are inverse
and no digit is a dash): `RoundTrip`, `Unambiguous` and `DecoderSound`. They rest on
two lemmas about the layout: each field of the text is the hexadecimal text of its
id, because the three index ranges are disjoint, and the two positions between
them are dashes.

`TracingInitProofs`, for any number of threads and filters: `TypeCorrect`,
`AllOrNothingHolds`, `SpansFilteredHolds`, `SpansValidHolds` and
`SettledAfterReturnHolds`. None of them is inductive: that a span passes the filter
of the mask that stays depends on who may still write the mask. The invariant
`InitInv` adds `OnceInv` (one thread inside the callable at a time, nobody has left
before it is over), `ProgressInv` (what the thread inside has written at each
point, and that a thread that succeeded is past it) and `TracerInv` (the tracer is
the SDK's unless a `Shutdown` fell into the window). No assumption is made on the
constants.

`AsyncTCPClientProofs`, for any requests, ids, pool size and number of cancels:
`ClientTypeCorrect` (which includes that never more handlers run than there are
threads), `ReportedOnceHolds`, `CancelHonouredHolds`, `SessionTrackedHolds`,
`AnsweredBeforeCloseHolds` and the action property `NoIOAfterCancelHolds`. They hold
also where the client deadlocks (finding 5), since they say what is never wrong,
not that anything happens. `ClientAssumption` says that the set of requests is
finite (for the cardinality of the running handlers), that there is a thread, and
that the marks for a mutex owner (`None`, `"user"`, a request) are distinct. The
invariant `ClientInv` rests on the mutexes: `GuardInv` says which program points own
which mutex, `UserInv` that the session `cancelRequest` is about to mark has not
reached its callback (it holds the map's mutex, without which `Complete` cannot
pass), `SessionInv` that a session has one operation or one handler at a time and
that a handler past the check is not cancelled (the cancel mutex), `MapInv` that the
map is exact.

`InstrumentsProofs`, for any instruments, classes and threads:
`InstrumentsTypeCorrect`, `DowncastDefinedHolds`, `CallbackAliveHolds` in every case, and
`NothingLostHolds` under the hypothesis `WarmStart`, without which it is false
(finding 4). `GaugeInv` says that only gauges have callbacks, that what is registered
is bound and that one thread at a time sets up or destroys a gauge; `ProviderInv` ties the provider to the
configuration; `WarmInv` says that an instrument that wraps a no-op although there
is an exporter is of a class that is off.

`DistributedTraceProofs`: `SuccessMeansTracedHolds`, for any number of requests,
threads, cancels and resets, and any command and duration without a dash whose
lengths fit `ContextStart`. First the text: what the server cuts out of a request
is the context the client put in (`ContextCut`), a request without a context has
only three dashes (`EmptyContextRefused`), so with `RoundTrip` the server's span
gets the client's ids (`ContextCarried`). Then the protocol: the property speaks
of the client's report only, so the invariant `CarriedInv` follows a request
through the network to the server and back. A session that writes or reads has its
own request in `m_request`; what has arrived is that request; a service that
processes it has started its span from it; a line, sent or received, a read that
ended well, a completion without error that was not cancelled, and a success, each
imply that the server's span has the right parent.

`ClientImplemented`: every step of the composition is a step of `AsyncTCPClient` or
leaves its variables alone (the server's steps, and the shutdown of a connection), so what is proved of the client over an arbitrary network
holds of it over TCP and this server (`ClientInvHolds`). This is `ClientSpec` without
its fairness. `DistTypeCorrect` adds the types of server and network and the bound on
the server's pool.

`FailureExplainedHolds`: a request of a client that traces is reported as an error
only when its connection broke or the server was told to stop. Two things have to be
shown. The server answers such a request with the line that ends the client's read:
`ContextAccepted` finds the dashes of the request (`DashesInOrder`), sees that there
are five fields and that the third and the fourth are hexadecimal. And no error
comes from anywhere else: `FailureInv` orders what happens on a connection
(`ConnectionInv`: nothing is sent before the connect, nothing answered before it
arrived) and says that the server ends a connection only after the line, after the
client has ended it, or when the failure is excused (`ErrorInv`). It is inductive
beside `ClientInv`, `CarriedInv` and the types.

Each inductive invariant was checked by TLC on the instance of its run before it was
proved.

Only model-checked: the liveness properties `CloseReturns`, `InitializeReturns`,
`CallbackRuns`, `ObservableReturns`, `ServiceEnds`, `StopReturns` and the fairness part
of `ClientSpec` (fairness and `ENABLED` are beyond the prover), and the five
counterexamples. Every safety property that a passing run checks is proved.

## 6. Not modelled, and the plan

Not modelled: exporters, resources, HTTP and gRPC options, clocks, log text,
values of attributes (a count stands for them). Trace information that does not
decode yields a no-op `Span`, which changes nothing; in `SpanStack` that is a
stuttering step.

Of the client's `main`, the path of an exception that leaves `close` uncalled is
not modelled (it ends the process), nor is what `shutdown` and `cancel` on one
socket do to each other when they overlap (inside asio). The server's `main`
sleeps for a fixed time; in the model it may stop at any moment or never. The three
servers of `client.cpp` are one server. `Observable::Result` only checks, by an
assertion, that a callback sets values of its gauge's type, and is left out. A
second `SetCallback`, `AddCounterSumView` and the `reset` parameter of
`Singleton::GetInstance` have no caller in the repository. Exporters and logging
are I/O of external libraries.

Next: an abstract specification of what the client promises its user (a request is
open until it is cancelled or reported, both in one step), refined by
`AsyncTCPClient` and, through `ClientImplemented`, by the composition; the weaker
promise that `SpanStack` keeps when scopes end out of order; and, if it is worth its
states, a composition of `TracingInit` with `SpanStack`: which scopes exist when
initialization overlaps their use.
