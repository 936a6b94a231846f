----------------------------- MODULE Instruments ------------------------------
(***************************************************************************)
(* The Metrics singleton (Metrics.cpp), the instruments built on it        *)
(* (internal/mixins.h) and the callbacks of observable gauges              *)
(* (Observable in Metrics.cpp) against the collector thread of the SDK.    *)
(*                                                                         *)
(* Constructors, which run one after the other at start-up, are atomic     *)
(* here; the race of two first calls of GetInstance is in Singleton, the   *)
(* loop that parses the mask in FilterMask.  A callback is either set or   *)
(* not, and is set once, as all callers do.                                *)
(***************************************************************************)
EXTENDS Naturals, FiniteSets

CONSTANTS
    Threads,      \* threads that use the instruments
    Instruments,  \* the instruments of the program
    Classes,      \* filter classes
    Kind,         \* kind of each instrument
    ClassOf,      \* filter class of each instrument
    WarmStart,    \* Metrics::GetInstance() is called before any constructor
    None

ASSUME InstrumentsAssumption ==
    /\ Kind \in [Instruments -> {"counter", "histogram", "gauge"}]
    /\ ClassOf \in [Instruments -> Classes]
    /\ WarmStart \in BOOLEAN
    /\ None \notin Instruments

VARIABLES
    configured,   \* METRIC_ZILLIQA_PROVIDER: names an exporter or not
    configMask,   \* METRIC_ZILLIQA_MASK, as the set of classes it enables
    instance,     \* the Metrics singleton exists
    m_mask,       \* Filter::m_mask
    provider,     \* the global meter provider
    instr,        \* what each instrument wraps
    views,        \* histograms whose view was added
    undefined,    \* a provider that is not the SDK's was used as if it were
    called,       \* instruments that were called
    lost,         \* instruments that dropped what an enabled class measured
    m_callback,   \* gauges whose m_callback is set
    pc,           \* thread inside SetCallback or ~Observable, and for which
    registered,   \* gauges in the SDK's list of callbacks
    collecting,   \* the collector holds the lock of that list
    todo,         \* gauges the collector has yet to ask
    current,      \* gauge whose RawCallback is running
    observed      \* gauges that were asked at least once

metricsVars == <<configured, configMask, instance, m_mask, provider>>

observableVars == <<m_callback, pc, registered, collecting, todo, current,
                    observed>>

vars == <<metricsVars, instr, views, undefined, called, lost, observableVars>>

Idle == <<"idle", None>>

Init ==
    /\ configured \in {"exporter", "other"}
    /\ configMask \in SUBSET Classes
    /\ instance = FALSE
    /\ m_mask = {}
    /\ provider = "default"
    /\ instr = [i \in Instruments |-> "none"]
    /\ views = {}
    /\ undefined = FALSE
    /\ called = {}
    /\ lost = {}
    /\ m_callback = {}
    /\ pc = [t \in Threads |-> Idle]
    /\ registered = {}
    /\ collecting = FALSE
    /\ todo = {}
    /\ current = None
    /\ observed = {}

Enabled(i) == ClassOf[i] \in m_mask

(* Nobody is in the middle of SetCallback or of the destructor of i.       *)
Unused(i) == \A t \in Threads : pc[t][2] # i

IsSdk(p) == p \in {"sdk", "shutdown"}

-----------------------------------------------------------------------------
(* Mutant: SetMeterProvider is forgotten.                                  *)
InstallNothing == provider

(* What the Init function chosen makes the global meter provider.          *)
Install == IF configured = "exporter" THEN "sdk" ELSE "noop"

(* Metrics::Init: load the filter, then choose and install a provider.     *)
(* InitNoop clears the mask parameter, after it has been loaded.           *)
MetricsInit ==
    /\ instance' = TRUE
    /\ m_mask' = m_mask \cup configMask
    /\ provider' = Install
    /\ configMask' = IF configured = "exporter" THEN configMask ELSE {}
    /\ UNCHANGED configured

(* Metrics::GetInstance.                                                   *)
GetInstance == IF instance THEN UNCHANGED metricsVars ELSE MetricsInit

(* What GetMeter()->Create...() of the provider p gives.                   *)
Create(p) == IF IsSdk(p) THEN "bound" ELSE "noop"

CallGetInstance ==
    /\ ~instance
    /\ GetInstance
    /\ UNCHANGED <<instr, views, undefined, called, lost, observableVars>>

Constructible(i) == instr[i] = "none" /\ (WarmStart => instance)

(* Mutant: the branches are swapped.                                       *)
WrapsSwapped(i) == IF Enabled(i) THEN "noop" ELSE Create(provider')

(* What a counter or histogram wraps for ever, as its class is now.        *)
Wraps(i) == IF Enabled(i) THEN Create(provider') ELSE "noop"

(* I64Counter, DoubleCounter: only an enabled class asks for the meter.    *)
ConstructCounter(i) ==
    /\ Kind[i] = "counter"
    /\ Constructible(i)
    /\ IF Enabled(i) THEN GetInstance ELSE UNCHANGED metricsVars
    /\ instr' = [instr EXCEPT ![i] = Wraps(i)]
    /\ UNCHANGED <<views, undefined, called, lost, observableVars>>

(* DoubleHistogram: an enabled class adds the view first, on the global    *)
(* provider cast down to the one of the SDK.                               *)
ConstructHistogram(i) ==
    /\ Kind[i] = "histogram"
    /\ Constructible(i)
    /\ \/ /\ Enabled(i)
          /\ GetInstance
          /\ undefined' = (undefined \/ ~IsSdk(provider'))
          /\ views' = views \cup {i}
       \/ /\ ~Enabled(i)
          /\ UNCHANGED <<metricsVars, undefined, views>>
    /\ instr' = [instr EXCEPT ![i] = Wraps(i)]
    /\ UNCHANGED <<called, lost, observableVars>>

(* DoubleGauge, I64Gauge and the two UpDowns ask for the meter whatever    *)
(* the filter says.                                                        *)
ConstructGauge(i) ==
    /\ Kind[i] = "gauge"
    /\ Constructible(i)
    /\ GetInstance
    /\ instr' = [instr EXCEPT ![i] = Create(provider')]
    /\ UNCHANGED <<views, undefined, called, lost, observableVars>>

Alive(i) == instr[i] \in {"noop", "bound"}

(* The instruments S measure.  What an enabled class measures is lost when *)
(* it ends in a no-op instrument although an exporter is installed.        *)
Measured(S) ==
    /\ called' = called \cup S
    /\ lost' = lost \cup {i \in S : /\ Enabled(i) /\ IsSdk(provider)
                                   /\ instr[i] = "noop"}

(* operator++, IncrementAttr and the like of a counter, Record of a        *)
(* histogram.                                                              *)
Increment(i) ==
    /\ Kind[i] \in {"counter", "histogram"}
    /\ Alive(i)
    /\ Measured({i})
    /\ UNCHANGED <<metricsVars, instr, views, undefined, observableVars>>

(* ~LatencyScopeMarker, of a marker whose counter and histogram have the   *)
(* class it was given: if that is enabled it adds to one and records in    *)
(* the other.  The counter was moved into the marker and goes with it, on  *)
(* either path; the histogram is only referred to.                         *)
LatencyScope(c, h) ==
    /\ Kind[c] = "counter" /\ Kind[h] = "histogram"
    /\ ClassOf[c] = ClassOf[h]
    /\ Alive(c) /\ Alive(h)
    /\ IF Enabled(c) THEN Measured({c, h}) ELSE UNCHANGED <<called, lost>>
    /\ instr' = [instr EXCEPT ![c] = "destroyed"]
    /\ UNCHANGED <<metricsVars, views, undefined, observableVars>>

(* Metrics::Shutdown, through GetInstance: the same cast.  The SDK waits   *)
(* for its collector thread to end.                                        *)
Shutdown ==
    /\ instance
    /\ ~collecting
    /\ IF IsSdk(provider)
       THEN provider' = "shutdown" /\ UNCHANGED undefined
       ELSE undefined' = TRUE /\ UNCHANGED provider
    /\ UNCHANGED <<configured, configMask, instance, m_mask, instr, views,
                   called, lost, observableVars>>

-----------------------------------------------------------------------------
(* SetCallback of a gauge: an enabled class stores the callback ...        *)
SetCallback(t, i) ==
    /\ Kind[i] = "gauge"
    /\ Alive(i)
    /\ pc[t] = Idle /\ Unused(i)
    /\ Enabled(i)
    /\ i \notin m_callback
    /\ m_callback' = m_callback \cup {i}
    /\ pc' = [pc EXCEPT ![t] = <<"add", i>>]
    /\ UNCHANGED <<metricsVars, instr, views, undefined, called, lost,
                   registered, collecting, todo, current, observed>>

(* The SDK's list is changed under its lock; a no-op instrument has none.  *)
Locked(i) == instr[i] = "bound" => ~collecting

(* Mutant: the callback is not registered.                                 *)
AddForgotten(i) == registered

Add(i) == IF instr[i] = "bound" THEN registered \cup {i} ELSE registered

(* ... and then registers RawCallback with this Observable.                *)
AddCallback(t, i) ==
    /\ pc[t] = <<"add", i>>
    /\ Locked(i)
    /\ registered' = Add(i)
    /\ pc' = [pc EXCEPT ![t] = Idle]
    /\ UNCHANGED <<metricsVars, instr, views, undefined, called, lost,
                   m_callback, collecting, todo, current, observed>>

(* Mutant: the destructor does not look at m_callback.                     *)
HasCallbackNever(i) == FALSE

(* if (m_callback)                                                         *)
HasCallback(i) == i \in m_callback

(* An instrument is destroyed; ~Observable first removes a callback.       *)
Destroy(t, i) ==
    /\ Alive(i)
    /\ pc[t] = Idle /\ Unused(i)
    /\ \/ /\ HasCallback(i)
          /\ pc' = [pc EXCEPT ![t] = <<"remove", i>>]
          /\ UNCHANGED instr
       \/ /\ ~HasCallback(i)
          /\ instr' = [instr EXCEPT ![i] = "destroyed"]
          /\ UNCHANGED pc
    /\ UNCHANGED <<metricsVars, views, undefined, called, lost, m_callback,
                   registered, collecting, todo, current, observed>>

(* Mutants: nothing is removed; the destructor waits for the gauge to have *)
(* been collected once.                                                    *)
RemoveForgotten(i) == registered

MayRemoveOnceObserved(i) == Locked(i) /\ i \in observed

Remove(i) == registered \ {i}

MayRemove(i) == Locked(i)

RemoveCallback(t, i) ==
    /\ pc[t] = <<"remove", i>>
    /\ MayRemove(i)
    /\ registered' = Remove(i)
    /\ m_callback' = m_callback \ {i}
    /\ instr' = [instr EXCEPT ![i] = "destroyed"]
    /\ pc' = [pc EXCEPT ![t] = Idle]
    /\ UNCHANGED <<metricsVars, views, undefined, called, lost, collecting,
                   todo, current, observed>>

-----------------------------------------------------------------------------
(* The collector thread of the SDK's periodic reader asks every registered *)
(* gauge, with the lock of the list held.                                  *)
CollectBegin ==
    /\ provider = "sdk"
    /\ ~collecting
    /\ registered # {}
    /\ collecting' = TRUE
    /\ todo' = registered
    /\ UNCHANGED <<metricsVars, instr, views, undefined, called, lost,
                   m_callback, pc, registered, current, observed>>

(* Observable::RawCallback calls m_callback ...                            *)
RawCallback(i) ==
    /\ collecting
    /\ current = None
    /\ i \in todo
    /\ current' = i
    /\ UNCHANGED <<metricsVars, instr, views, undefined, called, lost,
                   m_callback, pc, registered, collecting, todo, observed>>

(* ... which returns.                                                      *)
RawCallbackReturn ==
    /\ current # None
    /\ observed' = observed \cup {current}
    /\ todo' = todo \ {current}
    /\ current' = None
    /\ UNCHANGED <<metricsVars, instr, views, undefined, called, lost,
                   m_callback, pc, registered, collecting>>

CollectEnd ==
    /\ collecting
    /\ todo = {}
    /\ collecting' = FALSE
    /\ UNCHANGED <<metricsVars, instr, views, undefined, called, lost,
                   m_callback, pc, registered, todo, current, observed>>

Collector ==
    \/ CollectBegin
    \/ \E i \in Instruments : RawCallback(i)
    \/ RawCallbackReturn
    \/ CollectEnd

Next ==
    \/ CallGetInstance
    \/ Shutdown
    \/ \E i \in Instruments :
         \/ ConstructCounter(i) \/ ConstructHistogram(i) \/ ConstructGauge(i)
         \/ Increment(i)
         \/ \E h \in Instruments : LatencyScope(i, h)
         \/ \E t \in Threads : \/ SetCallback(t, i) \/ AddCallback(t, i)
                               \/ Destroy(t, i) \/ RemoveCallback(t, i)
    \/ Collector

LockedStep(t) ==
    \E i \in Instruments : AddCallback(t, i) \/ RemoveCallback(t, i)

(* The periodic reader keeps collecting and callbacks return; a thread     *)
(* that waits for the lock of the list gets it in one of the pauses        *)
(* between two collections.                                                *)
Fairness ==
    /\ WF_vars(Collector)
    /\ \A t \in Threads : SF_vars(LockedStep(t))

Spec == Init /\ [][Next]_vars /\ Fairness

-----------------------------------------------------------------------------
TypeOK ==
    /\ configured \in {"exporter", "other"}
    /\ configMask \subseteq Classes
    /\ instance \in BOOLEAN
    /\ m_mask \subseteq Classes
    /\ provider \in {"default", "noop", "sdk", "shutdown"}
    /\ instr \in [Instruments -> {"none", "noop", "bound", "destroyed"}]
    /\ views \subseteq Instruments
    /\ undefined \in BOOLEAN
    /\ called \subseteq Instruments /\ lost \subseteq called
    /\ m_callback \subseteq Instruments
    /\ pc \in [Threads -> {Idle} \cup ({"add", "remove"} \X Instruments)]
    /\ registered \subseteq m_callback
    /\ collecting \in BOOLEAN
    /\ todo \subseteq registered /\ current \in todo \cup {None}
    /\ observed \subseteq Instruments

(* With metrics initialized before the first instrument is constructed,    *)
(* nothing that an enabled instrument measures is lost: the filter an      *)
(* operator tests and the one its constructor tested never disagree.       *)
NothingLost == lost = {}

(* The downcasts of the global provider in AddCounterHistogramView and in  *)
(* Shutdown are right whenever an exporter is configured, whatever the     *)
(* order of constructors, first uses and Shutdown.  Without an exporter    *)
(* they are not, and the code makes them all the same.                     *)
DowncastDefined == undefined => configured = "other"

(* assert(self->m_callback) in RawCallback: while the collector is in the  *)
(* callback of a gauge, the gauge is not destroyed and its callback is     *)
(* set, however SetCallback and the destructor overlap the collection.     *)
CallbackAlive ==
    current # None => current \in m_callback /\ instr[current] = "bound"

(* A callback that was set on an exported gauge is called, unless the      *)
(* gauge goes away or metrics are shut down before.                        *)
CallbackRuns ==
    \A i \in {g \in Instruments : Kind[g] = "gauge"} :
      i \in m_callback /\ instr[i] = "bound"
        ~> i \in observed \/ instr[i] = "destroyed" \/ provider = "shutdown"

(* SetCallback and the destructor of a gauge return, in spite of           *)
(* collections and of a shutdown.                                          *)
ObservableReturns == \A t \in Threads : pc[t] # Idle ~> pc[t] = Idle

(* "Uses a singleton to lazy load and initialise metrics if at least one   *)
(* metric is called" (Metrics.h), for an instrument that is called while   *)
(* an exporter is configured and the mask enables its class.               *)
LazyLoad ==
    configured = "exporter" /\ (\E i \in called : ClassOf[i] \in configMask)
      => instance
=============================================================================
