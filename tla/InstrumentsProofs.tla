--------------------------- MODULE InstrumentsProofs ---------------------------
(***************************************************************************)
(* The instruments and the callbacks of gauges, for every program: any     *)
(* instruments, classes and threads.                                       *)
(***************************************************************************)
EXTENDS Instruments, TLAPS

(* The provider is what Init has chosen, for good except for Shutdown.     *)
ProviderInv ==
    /\ ~instance => provider = "default" /\ m_mask = {}
    /\ instance => (IsSdk(provider) <=> configured = "exporter")
    /\ undefined => configured = "other"

(* A callback and its registration against the life of the gauge.          *)
GaugeInv ==
    /\ \A i \in m_callback : Alive(i) /\ Kind[i] = "gauge"
    /\ \A i \in registered : instr[i] = "bound"
    /\ todo # {} => collecting
    /\ \A t \in Threads, i \in Instruments :
         pc[t][2] = i => i \in m_callback
    /\ \A t, u \in Threads, i \in Instruments :
         pc[t][2] = i /\ pc[u][2] = i => t = u

(* The inductive invariant, with or without a warm start.                  *)
InstrumentsInv ==
    /\ TypeOK
    /\ ProviderInv
    /\ GaugeInv

(* Nothing is constructed, no callback is registered.                      *)
LEMMA InstrumentsInvInit == Init => InstrumentsInv
<1> SUFFICES ASSUME Init
             PROVE  InstrumentsInv
  OBVIOUS
<1>1. TypeOK
  BY DEF Init, TypeOK
<1>2. ProviderInv
  BY DEF Init, ProviderInv
<1>3. GaugeInv
  BY InstrumentsAssumption DEF Init, GaugeInv, Idle
<1> QED
  BY <1>1, <1>2, <1>3 DEF InstrumentsInv

(* What GetInstance may do to the metrics.                                 *)
LEMMA GetInstanceStep ==
    ASSUME TypeOK, ProviderInv, GetInstance
    PROVE  /\ configured' = configured /\ instance' = TRUE
           /\ configMask' \subseteq Classes /\ m_mask' \subseteq Classes
           /\ provider' \in {"default", "noop", "sdk", "shutdown"}
           /\ IsSdk(provider') <=> configured = "exporter"
           /\ instance => UNCHANGED metricsVars
BY DEF TypeOK, ProviderInv, GetInstance, MetricsInit, Install, metricsVars,
       IsSdk

(* Every constructor, call, destructor and step of the collector keeps it. *)
LEMMA InstrumentsInvStep == InstrumentsInv /\ [Next]_vars => InstrumentsInv'
<1> SUFFICES ASSUME InstrumentsInv, [Next]_vars
             PROVE  InstrumentsInv'
  OBVIOUS
<1> USE InstrumentsAssumption DEF InstrumentsInv
<1>1. CASE CallGetInstance
  <2>1. TypeOK'
    BY <1>1, GetInstanceStep DEF CallGetInstance, TypeOK, observableVars, Idle
  <2>2. ProviderInv'
    BY <1>1, GetInstanceStep DEF CallGetInstance, ProviderInv
  <2>3. GaugeInv'
    BY <1>1 DEF CallGetInstance, GaugeInv, Alive, observableVars
  <2> QED
    BY <2>1, <2>2, <2>3
<1>2. CASE Shutdown
  <2>1. TypeOK'
    BY <1>2 DEF Shutdown, TypeOK, observableVars, Idle
  <2>2. ProviderInv'
    BY <1>2 DEF Shutdown, ProviderInv, IsSdk, TypeOK
  <2>3. GaugeInv'
    BY <1>2 DEF Shutdown, GaugeInv, Alive, observableVars
  <2> QED
    BY <2>1, <2>2, <2>3
<1>3. ASSUME NEW i \in Instruments, ConstructCounter(i)
      PROVE  InstrumentsInv'
  <2>1. TypeOK'
    BY <1>3, GetInstanceStep
       DEF ConstructCounter, Wraps, Create, TypeOK, observableVars,
           metricsVars, Idle
  <2>2. ProviderInv'
    BY <1>3, GetInstanceStep DEF ConstructCounter, ProviderInv, metricsVars
  <2>3. GaugeInv'
    BY <1>3
       DEF ConstructCounter, Constructible, GaugeInv, Alive, observableVars
  <2> QED
    BY <2>1, <2>2, <2>3
<1>4. ASSUME NEW i \in Instruments, ConstructHistogram(i)
      PROVE  InstrumentsInv'
  <2>1. TypeOK'
    BY <1>4, GetInstanceStep
       DEF ConstructHistogram, Wraps, Create, TypeOK, observableVars,
           metricsVars, Idle
  <2>2. ProviderInv'
    <3>1. CASE Enabled(i)
      <4>1. undefined' = (undefined \/ ~IsSdk(provider'))
        BY <1>4, <3>1 DEF ConstructHistogram
      <4>2. undefined' => configured = "other"
        BY <1>4, <3>1, <4>1, GetInstanceStep
           DEF ConstructHistogram, ProviderInv, TypeOK
      <4> QED
        BY <1>4, <3>1, <4>2, GetInstanceStep DEF ConstructHistogram, ProviderInv
    <3>2. CASE ~Enabled(i)
      BY <1>4, <3>2 DEF ConstructHistogram, ProviderInv, metricsVars
    <3> QED
      BY <3>1, <3>2
  <2>3. GaugeInv'
    BY <1>4
       DEF ConstructHistogram, Constructible, GaugeInv, Alive, observableVars
  <2> QED
    BY <2>1, <2>2, <2>3
<1>5. ASSUME NEW i \in Instruments, ConstructGauge(i)
      PROVE  InstrumentsInv'
  <2>1. TypeOK'
    BY <1>5, GetInstanceStep
       DEF ConstructGauge, Create, TypeOK, observableVars, Idle
  <2>2. ProviderInv'
    BY <1>5, GetInstanceStep DEF ConstructGauge, ProviderInv
  <2>3. GaugeInv'
    BY <1>5 DEF ConstructGauge, Constructible, GaugeInv, Alive, observableVars
  <2> QED
    BY <2>1, <2>2, <2>3
<1>6. ASSUME NEW i \in Instruments, Increment(i)
      PROVE  InstrumentsInv'
  <2>1. TypeOK'
    BY <1>6 DEF Increment, Measured, TypeOK, observableVars, metricsVars
  <2>2. ProviderInv' /\ GaugeInv'
    BY <1>6
       DEF Increment, ProviderInv, GaugeInv, Alive, observableVars, metricsVars
  <2> QED
    BY <2>1, <2>2
<1>7. ASSUME NEW c \in Instruments, NEW h \in Instruments, LatencyScope(c, h)
       PROVE  InstrumentsInv'
  <2>1. /\ called' \subseteq Instruments /\ lost' \subseteq called'
        /\ instr' = [instr EXCEPT ![c] = "destroyed"] /\ c \notin m_callback
        /\ UNCHANGED <<metricsVars, views, undefined, observableVars>>
    BY <1>7 DEF LatencyScope, Measured, TypeOK, GaugeInv
  <2>2. TypeOK'
    BY <2>1 DEF TypeOK, observableVars, metricsVars, Idle
  <2>3. ProviderInv'
    BY <2>1 DEF ProviderInv, metricsVars
  <2>4. GaugeInv'
    BY <2>1 DEF GaugeInv, Alive, observableVars, TypeOK
  <2> QED
    BY <2>2, <2>3, <2>4
<1>8. ASSUME NEW t \in Threads, NEW i \in Instruments, SetCallback(t, i)
      PROVE  InstrumentsInv'
  <2>1. TypeOK'
    BY <1>8 DEF SetCallback, TypeOK, metricsVars
  <2>2. ProviderInv'
    BY <1>8 DEF SetCallback, ProviderInv, metricsVars
  <2>3. GaugeInv'
    BY <1>8 DEF SetCallback, GaugeInv, Alive
  <2> QED
    BY <2>1, <2>2, <2>3
<1>9. ASSUME NEW t \in Threads, NEW i \in Instruments, AddCallback(t, i)
      PROVE  InstrumentsInv'
  <2>1. TypeOK'
    BY <1>9 DEF AddCallback, Add, GaugeInv, TypeOK, metricsVars
  <2>2. ProviderInv'
    BY <1>9 DEF AddCallback, ProviderInv, metricsVars
  <2>3. GaugeInv'
    BY <1>9 DEF AddCallback, Add, GaugeInv, Alive, Idle
  <2> QED
    BY <2>1, <2>2, <2>3
<1>10. ASSUME NEW t \in Threads, NEW i \in Instruments, Destroy(t, i)
      PROVE  InstrumentsInv'
  <2>1. TypeOK'
    BY <1>10 DEF Destroy, TypeOK, metricsVars
  <2>2. ProviderInv'
    BY <1>10 DEF Destroy, ProviderInv, metricsVars
  <2>3. GaugeInv'
    BY <1>10 DEF Destroy, HasCallback, GaugeInv, Alive, Unused, TypeOK
  <2> QED
    BY <2>1, <2>2, <2>3
<1>11. ASSUME NEW t \in Threads, NEW i \in Instruments, RemoveCallback(t, i)
       PROVE  InstrumentsInv'
  <2>1. TypeOK'
    BY <1>11
       DEF RemoveCallback, Remove, MayRemove, Locked, GaugeInv, TypeOK,
           metricsVars
  <2>2. ProviderInv'
    BY <1>11 DEF RemoveCallback, ProviderInv, metricsVars
  <2>3. GaugeInv'
    BY <1>11 DEF RemoveCallback, Remove, GaugeInv, Alive, TypeOK, Idle
  <2> QED
    BY <2>1, <2>2, <2>3
<1>12. CASE Collector
  <2>1. ProviderInv'
    BY <1>12 DEF Collector, CollectBegin, RawCallback, RawCallbackReturn,
                 CollectEnd, ProviderInv, metricsVars
  <2>2. CASE CollectBegin
    <3>1. TypeOK'
      BY <2>2 DEF CollectBegin, TypeOK, metricsVars
    <3>2. GaugeInv'
      BY <2>2 DEF CollectBegin, GaugeInv, Alive
    <3> QED
      BY <2>1, <3>1, <3>2
  <2>3. ASSUME NEW i \in Instruments, RawCallback(i)
        PROVE  InstrumentsInv'
    <3>1. TypeOK'
      BY <2>3 DEF RawCallback, TypeOK, metricsVars
    <3>2. GaugeInv'
      BY <2>3 DEF RawCallback, GaugeInv, Alive
    <3> QED
      BY <2>1, <3>1, <3>2
  <2>4. CASE RawCallbackReturn
    <3>1. TypeOK'
      BY <2>4 DEF RawCallbackReturn, TypeOK, metricsVars
    <3>2. GaugeInv'
      BY <2>4 DEF RawCallbackReturn, GaugeInv, Alive
    <3> QED
      BY <2>1, <3>1, <3>2
  <2>5. CASE CollectEnd
    <3>1. TypeOK'
      BY <2>5 DEF CollectEnd, TypeOK, metricsVars, Idle
    <3>2. GaugeInv'
      BY <2>5 DEF CollectEnd, GaugeInv, Alive
    <3> QED
      BY <2>1, <3>1, <3>2
  <2> QED
    BY <1>12, <2>2, <2>3, <2>4, <2>5 DEF Collector
<1>13. CASE UNCHANGED vars
  BY <1>13 DEF vars, metricsVars, observableVars, TypeOK, ProviderInv, GaugeInv,
               Alive
<1> QED
  BY <1>1, <1>2, <1>3, <1>4, <1>5, <1>6, <1>7, <1>8, <1>9, <1>10, <1>11, <1>12,
     <1>13
     DEF Next

(* Every variable keeps its type; in particular the SDK only ever asks     *)
(* gauges that are registered, and only those with a callback are.         *)
THEOREM InstrumentsTypeCorrect == Spec => []TypeOK
<1>1. InstrumentsInv => TypeOK
  BY DEF InstrumentsInv
<1> QED
  BY <1>1, InstrumentsInvInit, InstrumentsInvStep, PTL DEF Spec

(* With an exporter configured, no downcast of the provider is ever wrong, *)
(* whichever comes first of the instruments and of GetInstance.            *)
THEOREM DowncastDefinedHolds == Spec => []DowncastDefined
<1>1. InstrumentsInv => DowncastDefined
  BY DEF InstrumentsInv, ProviderInv, DowncastDefined
<1> QED
  BY <1>1, InstrumentsInvInit, InstrumentsInvStep, PTL DEF Spec

(* The collector never runs the callback of a gauge that is destroyed or   *)
(* has none: the destructor removes it under the lock of the SDK's list.   *)
THEOREM CallbackAliveHolds == Spec => []CallbackAlive
<1>1. InstrumentsInv => CallbackAlive
  BY DEF InstrumentsInv, TypeOK, GaugeInv, CallbackAlive
<1> QED
  BY <1>1, InstrumentsInvInit, InstrumentsInvStep, PTL DEF Spec

-----------------------------------------------------------------------------
(* With a warm start the filter is loaded before any constructor: what     *)
(* wraps a no-op although an exporter is installed is of a class that is   *)
(* off.                                                                    *)
WarmInv ==
    /\ \A i \in Instruments : instr[i] # "none" => instance
    /\ \A i \in Instruments :
         instr[i] = "noop" /\ IsSdk(provider) /\ Kind[i] # "gauge" => ~Enabled(i)
    /\ NothingLost

(* The constructors find the filter loaded, and no step changes it after.  *)
LEMMA WarmInvStep ==
    ASSUME WarmStart, InstrumentsInv, WarmInv, [Next]_vars
    PROVE  WarmInv'
<1> USE DEF InstrumentsInv, WarmInv, NothingLost
<1>1. CASE CallGetInstance
  BY <1>1, GetInstanceStep DEF CallGetInstance
<1>2. CASE Shutdown
  BY <1>2 DEF Shutdown, Enabled
<1>3. ASSUME NEW i \in Instruments, ConstructCounter(i)
      PROVE  WarmInv'
  <2>1. UNCHANGED metricsVars /\ instance
    BY <1>3, GetInstanceStep DEF ConstructCounter, Constructible
  <2> QED
    BY <1>3, <2>1 DEF ConstructCounter, Wraps, Create, Enabled, metricsVars
<1>4. ASSUME NEW i \in Instruments, ConstructHistogram(i)
      PROVE  WarmInv'
  <2>1. UNCHANGED metricsVars /\ instance
    BY <1>4, GetInstanceStep DEF ConstructHistogram, Constructible
  <2> QED
    BY <1>4, <2>1 DEF ConstructHistogram, Wraps, Create, Enabled, metricsVars
<1>5. ASSUME NEW i \in Instruments, ConstructGauge(i)
      PROVE  WarmInv'
  <2>1. UNCHANGED metricsVars /\ instance
    BY <1>5, GetInstanceStep DEF ConstructGauge, Constructible
  <2> QED
    BY <1>5, <2>1 DEF ConstructGauge, Enabled, metricsVars
<1>6. ASSUME NEW i \in Instruments, Increment(i)
      PROVE  WarmInv'
  BY <1>6 DEF Increment, Measured, Enabled, metricsVars
<1>7. ASSUME NEW c \in Instruments, NEW h \in Instruments, LatencyScope(c, h)
       PROVE  WarmInv'
  <2>1. /\ instr[c] # "none" /\ UNCHANGED metricsVars
        /\ instr' = [instr EXCEPT ![c] = "destroyed"]
    BY <1>7 DEF LatencyScope, Alive
  <2>2. lost' = {}
    BY <1>7 DEF LatencyScope, Measured
  <2> QED
    BY <2>1, <2>2 DEF Enabled, metricsVars, TypeOK
<1>8. ASSUME NEW t \in Threads, NEW i \in Instruments,
             SetCallback(t, i) \/ AddCallback(t, i)
      PROVE  WarmInv'
  BY <1>8 DEF SetCallback, AddCallback, Enabled, metricsVars
<1>9. ASSUME NEW t \in Threads, NEW i \in Instruments,
             Destroy(t, i) \/ RemoveCallback(t, i)
      PROVE  WarmInv'
  <2>1. /\ instr[i] # "none" /\ UNCHANGED <<metricsVars, lost>>
        /\ instr' = instr \/ instr' = [instr EXCEPT ![i] = "destroyed"]
    BY <1>9, InstrumentsAssumption DEF Destroy, RemoveCallback, Alive, GaugeInv
  <2> QED
    BY <2>1 DEF Enabled, metricsVars, TypeOK
<1>10. CASE Collector \/ UNCHANGED vars
  BY <1>10
     DEF Collector, CollectBegin, RawCallback, RawCallbackReturn, CollectEnd,
         vars, Enabled, metricsVars
<1> QED
  BY <1>1, <1>2, <1>3, <1>4, <1>5, <1>6, <1>7, <1>8, <1>9, <1>10 DEF Next

(* With metrics initialized before the first instrument is constructed, as *)
(* the fixture of the tests does, no measurement of an enabled class is    *)
(* dropped.                                                                *)
THEOREM NothingLostHolds ==
    ASSUME WarmStart
    PROVE  Spec => []NothingLost
<1>1. Init => WarmInv
  BY DEF Init, WarmInv, NothingLost
<1>2. InstrumentsInv /\ WarmInv /\ [Next]_vars => WarmInv'
  BY WarmInvStep
<1>3. WarmInv => NothingLost
  BY DEF WarmInv
<1> QED
  BY <1>1, <1>2, <1>3, InstrumentsInvInit, InstrumentsInvStep, PTL DEF Spec
================================================================================
