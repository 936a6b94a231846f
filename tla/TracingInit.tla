----------------------------- MODULE TracingInit ------------------------------
(***************************************************************************)
(* Tracing::Initialize of zil::trace2 (Tracing2.cpp): the engine is set up *)
(* under std::call_once, in steps, while other threads already ask for     *)
(* spans, without any synchronisation, and while the older Tracing class   *)
(* (Tracing.cpp) may replace the global tracer provider.                   *)
(*                                                                         *)
(* A mask is the set of filters it enables; the empty mask stands for an   *)
(* empty or "NONE" parameter as well as for one with no known name, which  *)
(* end alike.                                                              *)
(***************************************************************************)
EXTENDS Naturals, FiniteSets

CONSTANTS
    Threads,     \* threads, each of which calls Initialize at most once
    Filters      \* filter classes

VARIABLES
    configured,     \* TRACE_ZILLIQA_PROVIDER
    initialized,    \* the std::once_flag
    provider,       \* the global trace_api::Provider
    m_tracer,       \* kind of the tracer, "null" at first
    m_filtersMask,  \* filters enabled
    pc,             \* where each thread is
    arg,            \* filters_mask each thread passes
    ret,            \* the local result of each Initialize
    result,         \* what each Initialize has returned
    want,           \* filter of the CreateSpan each thread is in
    created,        \* the spans created: filter and kind of the tracer
    undercut        \* the older class removed the provider under Initialize

vars == <<configured, initialized, provider, m_tracer, m_filtersMask, pc, arg,
          ret, result, want, created, undercut>>

Init ==
    /\ configured \in {"OTLPHTTP", "STDOUT", "other"}
    /\ initialized = "no"
    /\ provider = "noop"
    /\ m_tracer = "null"
    /\ m_filtersMask = {}
    /\ pc = [t \in Threads |-> "idle"]
    /\ arg = [t \in Threads |-> {}]
    /\ ret = [t \in Threads |-> FALSE]
    /\ result = [t \in Threads |-> "none"]
    /\ want = [t \in Threads |-> {}]
    /\ created = {}
    /\ undercut = FALSE

Goto(t, where) == pc' = [pc EXCEPT ![t] = where]

(* Mutants: a once flag that is only set on success; a result that is not  *)
(* assigned.                                                               *)
FinishOnSuccess(t, b) ==
    /\ initialized' = IF b THEN "yes" ELSE initialized
    /\ ret' = [ret EXCEPT ![t] = b]
    /\ Goto(t, "return")

FinishNoResult(t, b) ==
    /\ initialized' = "yes"
    /\ UNCHANGED ret
    /\ Goto(t, "return")

(* The callable of call_once returns b: every thread that waits may go on. *)
Finish(t, b) ==
    /\ initialized' = "yes"
    /\ ret' = [ret EXCEPT ![t] = b]
    /\ Goto(t, "return")

-----------------------------------------------------------------------------
(* Tracing::Initialize is called.                                          *)
Initialize(t, mask) ==
    /\ pc[t] = "idle" /\ result[t] = "none"
    /\ arg' = [arg EXCEPT ![t] = mask]
    /\ Goto(t, "once")
    /\ UNCHANGED <<configured, initialized, provider, m_tracer, m_filtersMask,
                   ret, result, want, created, undercut>>

(* Mutant: a plain flag, for which later callers do not wait.              *)
OnceOverFlag == initialized # "no"

OnceOver == initialized = "yes"

(* call_once: the first caller runs the callable, the others wait for its  *)
(* end and then return their own false.                                    *)
CallOnce(t) ==
    /\ pc[t] = "once"
    /\ \/ initialized = "no" /\ initialized' = "running" /\ Goto(t, "mask")
       \/ OnceOver /\ UNCHANGED initialized /\ Goto(t, "return")
    /\ UNCHANGED <<configured, provider, m_tracer, m_filtersMask, arg, ret,
                   result, want, created, undercut>>

(* TracingImpl::Initialize parses the mask into a local variable.          *)
ParseMask(t) ==
    /\ pc[t] = "mask"
    /\ IF arg[t] = {}
       THEN Finish(t, FALSE)
       ELSE Goto(t, "provider") /\ UNCHANGED <<initialized, ret>>
    /\ UNCHANGED <<configured, provider, m_tracer, m_filtersMask, arg, result,
                   want, created, undercut>>

(* Mutants of the catch blocks: none, so that the exception leaves         *)
(* Initialize and call_once may be tried again; one that does not return.  *)
CaughtNever(t) ==
    initialized' = "no" /\ Goto(t, "thrown") /\ UNCHANGED ret

CaughtGoesOn(t) == Goto(t, "tracer") /\ UNCHANGED <<initialized, ret>>

Caught(t) == Finish(t, FALSE)

(* The provider is chosen, built and made the global one; what it throws,  *)
(* before or after that, ends in false.                                    *)
InitProvider(t) ==
    /\ pc[t] = "provider"
    /\ \/ /\ configured = "other"
          /\ Finish(t, FALSE)
          /\ UNCHANGED provider
       \/ /\ configured # "other"
          /\ provider' = "sdk"
          /\ Goto(t, "tracer")
          /\ UNCHANGED <<initialized, ret>>
       \/ /\ configured # "other"
          /\ provider' \in {provider, "sdk"}
          /\ Caught(t)
    /\ UNCHANGED <<configured, m_tracer, m_filtersMask, arg, result, want,
                   created, undercut>>

(* m_tracer comes from whatever the global provider is by now.             *)
SetTracer(t) ==
    /\ pc[t] = "tracer"
    /\ m_tracer' = provider
    /\ Goto(t, "publish")
    /\ UNCHANGED <<configured, initialized, provider, m_filtersMask, arg, ret,
                   result, want, created, undercut>>

SetMask(t) ==
    /\ pc[t] = "publish"
    /\ m_filtersMask' = arg[t]
    /\ Finish(t, TRUE)
    /\ UNCHANGED <<configured, provider, m_tracer, arg, result, want,
                   created, undercut>>

Return(t) ==
    /\ pc[t] = "return"
    /\ result' = [result EXCEPT ![t] = IF ret[t] THEN "true" ELSE "false"]
    /\ Goto(t, "idle")
    /\ UNCHANGED <<configured, initialized, provider, m_tracer, m_filtersMask,
                   arg, ret, want, created, undercut>>

(* CreateSpan reads m_tracer; when it is null the span is a no-op.         *)
CreateSpan(t, f) ==
    /\ pc[t] = "idle"
    /\ m_tracer # "null"
    /\ want' = [want EXCEPT ![t] = {f}]
    /\ Goto(t, "enabled")
    /\ UNCHANGED <<configured, initialized, provider, m_tracer, m_filtersMask,
                   arg, ret, result, created, undercut>>

(* Mutant: the filter is not tested.                                       *)
PassesAlways(t) == want[t]

Passes(t) == want[t] \cap m_filtersMask

(* IsEnabled reads m_filtersMask; a span is started only when its filter   *)
(* is on.                                                                  *)
IsEnabled(t) ==
    /\ pc[t] = "enabled"
    /\ created' = created \cup [filter : Passes(t), tracer : {m_tracer}]
    /\ want' = [want EXCEPT ![t] = {}]
    /\ Goto(t, "idle")
    /\ UNCHANGED <<configured, initialized, provider, m_tracer, m_filtersMask,
                   arg, ret, result, undercut>>

(* The older class: its constructor installs a provider, Shutdown installs *)
(* the no-op one.                                                          *)
LegacyInit ==
    /\ provider' = IF configured = "other" THEN "noop" ELSE "sdk"
    /\ UNCHANGED <<configured, initialized, m_tracer, m_filtersMask, pc, arg,
                   ret, result, want, created, undercut>>

LegacyShutdown ==
    /\ provider' = "noop"
    /\ undercut' = (undercut \/ \E t \in Threads : pc[t] = "tracer")
    /\ UNCHANGED <<configured, initialized, m_tracer, m_filtersMask, pc, arg,
                   ret, result, want, created>>

InitializeStep(t) ==
    \/ CallOnce(t) \/ ParseMask(t) \/ InitProvider(t) \/ SetTracer(t)
    \/ SetMask(t) \/ Return(t)

Next ==
    \/ \E t \in Threads :
         \/ \E mask \in SUBSET Filters : Initialize(t, mask)
         \/ InitializeStep(t)
         \/ \E f \in Filters : CreateSpan(t, f)
         \/ IsEnabled(t)
    \/ LegacyInit \/ LegacyShutdown

(* A thread inside Initialize keeps running. *)
Fairness == \A t \in Threads : WF_vars(InitializeStep(t))

Spec == Init /\ [][Next]_vars /\ Fairness

-----------------------------------------------------------------------------
TypeOK ==
    /\ configured \in {"OTLPHTTP", "STDOUT", "other"}
    /\ initialized \in {"no", "running", "yes"}
    /\ provider \in {"noop", "sdk"}
    /\ m_tracer \in {"null", "noop", "sdk"}
    /\ m_filtersMask \in SUBSET Filters
    /\ pc \in [Threads -> {"idle", "once", "mask", "provider", "tracer",
                           "publish", "return", "enabled"}]
    /\ arg \in [Threads -> SUBSET Filters]
    /\ ret \in [Threads -> BOOLEAN]
    /\ result \in [Threads -> {"none", "true", "false"}]
    /\ want \in [Threads -> SUBSET Filters]
    /\ created \in SUBSET [filter : Filters, tracer : {"noop", "sdk"}]
    /\ undercut \in BOOLEAN

(* When the set-up is over it is all or nothing: tracer and mask are both  *)
(* there, exactly when one thread's Initialize has succeeded with that     *)
(* mask, and no two threads ever succeed.                                  *)
AllOrNothing ==
    initialized = "yes" =>
      /\ m_filtersMask # {} <=> m_tracer # "null"
      /\ m_filtersMask # {} <=> \E t \in Threads : ret[t]
      /\ \A t, u \in Threads : ret[t] /\ ret[u] => t = u
      /\ \A t \in Threads : ret[t] => m_filtersMask = arg[t]

(* As soon as any Initialize has returned, in any thread, nothing changes  *)
(* any more: what IsEnabled says then is what it will always say.          *)
SettledAfterReturn ==
    [][(\E t \in Threads : result[t] # "none") =>
          UNCHANGED <<m_tracer, m_filtersMask>>]_vars

(* A span is only ever started for a filter in the mask of the successful  *)
(* Initialize, even by a CreateSpan that overlaps it.                      *)
SpansFiltered ==
    \A s \in created : s.filter \in m_filtersMask

(* assert(m_context.IsValid()) in SpanImpl: a span comes from a tracer of  *)
(* the SDK, unless Shutdown of the older class fell between the moment     *)
(* Initialize set the global provider and the moment it took its tracer;   *)
(* after that moment Shutdown does no harm any more.                       *)
SpansValid ==
    \A s \in created : s.tracer = "sdk" \/ undercut

(* Every call of Initialize returns, also those that wait in call_once for *)
(* one that fails.                                                         *)
InitializeReturns ==
    \A t \in Threads : pc[t] = "once" ~> result[t] # "none"

(* "If 'false' is returned, then the tracing will be disabled".            *)
FalseMeansDisabled ==
    \A t \in Threads : result[t] = "false" => m_filtersMask = {}
===============================================================================
