------------------------ MODULE ProcessServing_proofs -----------------------
(***************************************************************************)
(* Proofs about ModelCircuit, ProcessQuota and ProcessServing, which       *)
(* composes them: for any number of calls, request slots and clients, and  *)
(* any limits.                                                             *)
(***************************************************************************)
EXTENDS ProcessServing, FiniteSetTheorems, TLAPS

-----------------------------------------------------------------------------
(* The circuit.  The flag is only raised together with a probe, and every  *)
(* end of a call, whatever it was admitted as, lowers it; so while it is   *)
(* up no call has ended since, and the probe that raised it still runs.    *)

\* SlotHeldByProbe is inductive relative to the types.
SlotInv == CircuitTypeOK /\ SlotHeldByProbe

LEMMA CircuitInitial == CircuitInit => SlotInv
<1> SUFFICES ASSUME CircuitInit PROVE SlotInv
  OBVIOUS
<1>1. ~probing /\ probing \in BOOLEAN /\ clientWorks \in BOOLEAN
  BY DEF CircuitInit
<1>2. failures \in 0..FailureThreshold /\ sinceOpened \in 0..RecoverySeconds
  BY CircuitAssumption DEF CircuitAssumption, CircuitInit
<1>3. circuit = "closed" /\ role \in [Calls -> {"none", "normal", "probe"}]
  BY DEF CircuitInit
<1> QED BY <1>1, <1>2, <1>3 DEF SlotInv, CircuitTypeOK, SlotHeldByProbe

\* A call that is admitted takes the slot or leaves it alone.
LEMMA BeginKeeps ==
  ASSUME SlotInv, NEW c \in Calls, BeginCall(c) \/ ClientRaises(c)
  PROVE  SlotInv'
<1> USE DEF SlotInv, CircuitTypeOK, SlotHeldByProbe, Probes
<1>1. CASE BeginCall(c)
  <2>1. CASE PassClosed /\ role' = [role EXCEPT ![c] = "normal"]
    BY <1>1, <2>1 DEF BeginCall, PassClosed
  <2>2. CASE TakeProbe /\ role' = [role EXCEPT ![c] = "probe"]
    <3>1. CircuitTypeOK' BY <1>1, <2>2 DEF BeginCall, TakeProbe
    <3>2. c \in Probes' BY <2>2
    <3>3. circuit' = "half_open" BY <2>2 DEF TakeProbe
    <3> QED BY <3>1, <3>2, <3>3
  <2> QED BY <1>1, <2>1, <2>2 DEF BeginCall
<1>2. CASE ClientRaises(c)
  <2>1. ~clientWorks' BY <1>2 DEF ClientRaises
  <2>2. CircuitTypeOK' BY <1>2 DEF ClientRaises, PassClosed, TakeProbe
  <2> QED BY <2>1, <2>2
<1> QED BY <1>1, <1>2

\* Every end of a call frees the slot.
LEMMA CallEndKeeps ==
  ASSUME SlotInv, NEW c \in Calls, EndCall(c)
  PROVE  SlotInv'
<1>1. ~probing'
  BY DEF EndCall, RecordSuccess, RecordFailure, RecordCancelled
<1>2. probing' \in BOOLEAN /\ clientWorks' \in BOOLEAN
  BY DEF EndCall, RecordSuccess, RecordFailure, RecordCancelled, SlotInv, CircuitTypeOK
<1>3. role' \in [Calls -> {"none", "normal", "probe"}]
  BY DEF EndCall, RecordSuccess, RecordFailure, RecordCancelled, Ends,
         SlotInv, CircuitTypeOK
<1>4. /\ circuit' \in {"closed", "open", "half_open"}
      /\ failures' \in 0..FailureThreshold
      /\ sinceOpened' \in 0..RecoverySeconds
  <2> USE CircuitAssumption DEF CircuitAssumption, SlotInv, CircuitTypeOK
  <2>1. CASE RecordSuccess(c) BY <2>1 DEF RecordSuccess
  <2>2. CASE RecordFailure(c) BY <2>2 DEF RecordFailure
  <2>3. CASE RecordCancelled(c) BY <2>3 DEF RecordCancelled
  <2> QED BY <2>1, <2>2, <2>3 DEF EndCall
<1> QED BY <1>1, <1>2, <1>3, <1>4 DEF SlotInv, CircuitTypeOK, SlotHeldByProbe

LEMMA CircuitSteps == SlotInv /\ [CircuitNext]_circuitVars => SlotInv'
<1> SUFFICES ASSUME SlotInv, [CircuitNext]_circuitVars PROVE SlotInv'
  OBVIOUS
<1>1. ASSUME NEW c \in Calls, BeginCall(c) \/ ClientRaises(c) PROVE SlotInv'
  BY <1>1, BeginKeeps
<1>2. ASSUME NEW c \in Calls, EndCall(c) PROVE SlotInv'
  BY <1>2, CallEndKeeps
<1>3. CASE CircuitTick
  BY <1>3, CircuitAssumption
  DEF CircuitAssumption, CircuitTick, SlotInv, CircuitTypeOK, SlotHeldByProbe, Probes
<1>4. CASE CircuitRestart
  <2>1. ~probing' /\ probing' \in BOOLEAN /\ clientWorks' \in BOOLEAN
    BY <1>4 DEF CircuitRestart, SlotInv, CircuitTypeOK
  <2>2. failures' \in 0..FailureThreshold /\ sinceOpened' \in 0..RecoverySeconds
    BY <1>4, CircuitAssumption DEF CircuitAssumption, CircuitRestart
  <2>3. circuit' = "closed" /\ role' \in [Calls -> {"none", "normal", "probe"}]
    BY <1>4 DEF CircuitRestart
  <2> QED BY <2>1, <2>2, <2>3 DEF SlotInv, CircuitTypeOK, SlotHeldByProbe
<1>5. CASE UNCHANGED circuitVars
  BY <1>5 DEF circuitVars, SlotInv, CircuitTypeOK, SlotHeldByProbe, Probes
<1> QED BY <1>1, <1>2, <1>3, <1>4, <1>5 DEF CircuitNext

\* In every state the guard of model_resilience.py can reach, a taken half-open
\* slot belongs to a running probe, so nothing that ended can hold it.
THEOREM SlotBacked == CircuitSpec => []SlotHeldByProbe
<1>1. SlotInv => SlotHeldByProbe BY DEF SlotInv
<1> QED BY <1>1, CircuitInitial, CircuitSteps, PTL DEF CircuitSpec

\* An open circuit of model_resilience.py is left before its time only by the
\* success of a call that was in flight, or by a restart.
THEOREM OpenHolds == CircuitSpec => OpenHoldsRecovery
<1> DEFINE Held ==
      circuit = "open" /\ sinceOpened < RecoverySeconds /\ circuit' # "open"
        => \/ circuit' = "closed" /\ InFlight # {}
           \/ CircuitRestart
<1>1. SlotInv /\ [CircuitNext]_circuitVars => [Held]_circuitVars
  <2> SUFFICES ASSUME SlotInv, CircuitNext,
                      circuit = "open", sinceOpened < RecoverySeconds,
                      circuit' # "open", ~CircuitRestart
               PROVE  circuit' = "closed" /\ InFlight # {}
    BY DEF circuitVars
  <2>1. ~ProbeAllowed
    BY CircuitAssumption DEF CircuitAssumption, ProbeAllowed, Recovered, SlotInv, CircuitTypeOK
  <2>2. ASSUME NEW c \in Calls, EndCall(c)
        PROVE  circuit' = "closed" /\ InFlight # {}
    <3>1. c \in InFlight
      BY <2>2 DEF EndCall, RecordSuccess, RecordFailure, RecordCancelled, Ends, InFlight
    <3>2. CASE RecordSuccess(c) BY <3>1, <3>2 DEF RecordSuccess
    <3>3. CASE RecordFailure(c) BY <3>3 DEF RecordFailure
    <3>4. CASE RecordCancelled(c) BY <3>4 DEF RecordCancelled
    <3> QED BY <2>2, <3>2, <3>3, <3>4 DEF EndCall
  <2>3. ASSUME NEW c \in Calls, BeginCall(c) \/ ClientRaises(c) PROVE FALSE
    BY <2>1, <2>3 DEF BeginCall, ClientRaises, PassClosed, TakeProbe
  <2>4. ~CircuitTick BY DEF CircuitTick
  <2> QED BY <2>2, <2>3, <2>4 DEF CircuitNext
<1> QED BY <1>1, CircuitInitial, CircuitSteps, PTL DEF CircuitSpec, OpenHoldsRecovery

-----------------------------------------------------------------------------
(* The quotas.  Reservations only appear in CountAdmission, under the Room *)
(* test; every other step removes some.  In memory, where a lease has no   *)
(* expiry, a stream, its reservation and its knowledge of the lease begin  *)
(* and end together.                                                       *)

\* The inductive invariant.  leaseKnown is in it because a stream that did not
\* know its lease could not return it.
QuotaInv ==
    /\ backend \in {"memory", "redis"}
    /\ lease \in [Requests -> 0..LeaseTicks]
    /\ serving \subseteq Requests
    /\ leaseKnown \subseteq serving
    /\ Cardinality(Leased) <= MaxConcurrent
    /\ backend = "memory" => Leased = serving /\ leaseKnown = serving

LEMMA LeasedFinite ==
  /\ IsFiniteSet(Leased) /\ Cardinality(Leased) \in Nat
  /\ IsFiniteSet(Leased') /\ Cardinality(Leased') \in Nat
<1>1. Leased \subseteq Requests /\ Leased' \subseteq Requests BY DEF Leased
<1> QED BY <1>1, FS_Subset, FS_CardinalityType, QuotaAssumption DEF QuotaAssumption

\* Fewer reservations stay within the limit.
LEMMA FewerLeased ==
  ASSUME QuotaInv, Leased' \subseteq Leased
  PROVE  Cardinality(Leased') <= MaxConcurrent
BY LeasedFinite, FS_Subset, QuotaAssumption DEF QuotaInv, QuotaAssumption

LEMMA QuotaInitial == QuotaInit => QuotaInv
<1> SUFFICES ASSUME QuotaInit PROVE QuotaInv
  OBVIOUS
<1>1. lease \in [Requests -> 0..LeaseTicks]
  BY QuotaAssumption DEF QuotaInit, QuotaAssumption
<1>2. Leased = {} BY DEF QuotaInit, Leased
<1>3. Cardinality(Leased) <= MaxConcurrent
  BY <1>2, FS_EmptySet, QuotaAssumption DEF QuotaAssumption
<1> QED BY <1>1, <1>2, <1>3 DEF QuotaInit, QuotaInv

\* The reservation a granted admission adds.
LEMMA AdmissionKeeps ==
  ASSUME QuotaInv, NEW r \in Requests, NEW c \in Clients,
         Free(r), Room, CountAdmission(r, c)
  PROVE  /\ lease' \in [Requests -> 0..LeaseTicks]
         /\ Leased' = Leased \union {r}
         /\ Cardinality(Leased') <= MaxConcurrent
<1>1. lease' = [lease EXCEPT ![r] = LeaseTicks] BY DEF CountAdmission
<1>2. lease' \in [Requests -> 0..LeaseTicks]
  BY <1>1, QuotaAssumption DEF QuotaInv, QuotaAssumption
<1>3. Leased' = Leased \union {r}
  BY <1>1, QuotaAssumption DEF QuotaInv, QuotaAssumption, Leased
<1>4. Cardinality(Leased') <= Cardinality(Leased) + 1
  BY <1>3, LeasedFinite, FS_AddElement
<1> QED BY <1>2, <1>3, <1>4, LeasedFinite, QuotaAssumption DEF Room, QuotaAssumption

LEMMA AdmitKeeps ==
  ASSUME QuotaInv, NEW r \in Requests, NEW c \in Clients, Admit(r, c)
  PROVE  QuotaInv'
<1>1. /\ lease' \in [Requests -> 0..LeaseTicks]
      /\ Leased' = Leased \union {r}
      /\ Cardinality(Leased') <= MaxConcurrent
  BY AdmissionKeeps DEF Admit
<1> QED BY <1>1 DEF Admit, QuotaInv

\* Only Redis calls raise, so nothing is promised of memory here.
LEMMA RaiseKeeps ==
  ASSUME QuotaInv, NEW r \in Requests, NEW c \in Clients, BackendRaises(r, c)
  PROVE  QuotaInv'
<1>1. backend = "redis" /\ backend' = "redis" BY DEF BackendRaises
<1>2. serving' \subseteq Requests /\ leaseKnown' \subseteq serving'
  BY DEF BackendRaises, QuotaInv
<1>3. CASE Room /\ CountAdmission(r, c)
  <2>1. /\ lease' \in [Requests -> 0..LeaseTicks]
        /\ Cardinality(Leased') <= MaxConcurrent
    BY <1>3, AdmissionKeeps DEF BackendRaises
  <2> QED BY <1>1, <1>2, <2>1 DEF QuotaInv
<1>4. CASE UNCHANGED <<lease, stamps>>
  BY <1>1, <1>2, <1>4 DEF QuotaInv, Leased
<1> QED BY <1>3, <1>4 DEF BackendRaises

LEMMA StreamEndKeeps ==
  ASSUME QuotaInv, NEW r \in Requests, EndStream(r)
  PROVE  QuotaInv'
<1>1. lease' = lease \/ lease' = [lease EXCEPT ![r] = 0] BY DEF EndStream, Release
<1>2. lease' \in [Requests -> 0..LeaseTicks]
  BY <1>1, QuotaAssumption DEF QuotaInv, QuotaAssumption
<1>3. Leased' \subseteq Leased BY <1>1 DEF QuotaInv, Leased
<1>4. Cardinality(Leased') <= MaxConcurrent BY <1>3, FewerLeased
<1>5. ASSUME backend = "memory"
      PROVE  Leased' = Leased \ {r}
  <2>1. lease' = [lease EXCEPT ![r] = 0]
    BY <1>5 DEF EndStream, Release, QuotaInv
  <2> QED BY <2>1 DEF QuotaInv, Leased
<1> QED BY <1>2, <1>4, <1>5 DEF EndStream, QuotaInv

LEMMA TickKeeps ==
  ASSUME QuotaInv, QuotaTick
  PROVE  QuotaInv'
<1>1. lease' \in [Requests -> 0..LeaseTicks]
  BY QuotaAssumption DEF QuotaTick, QuotaInv, QuotaAssumption
<1>2. Leased' \subseteq Leased
  BY QuotaAssumption DEF QuotaTick, QuotaInv, QuotaAssumption, Leased
<1>3. backend = "memory" => Leased' = Leased
  BY DEF QuotaTick, QuotaInv, Leased
<1>4. Cardinality(Leased') <= MaxConcurrent BY <1>2, FewerLeased
<1> QED BY <1>1, <1>3, <1>4 DEF QuotaTick, QuotaInv

LEMMA RestartKeeps ==
  ASSUME QuotaInv, QuotaRestart
  PROVE  QuotaInv'
<1>1. CASE backend = "memory"
  <2>1. lease' \in [Requests -> 0..LeaseTicks] /\ Leased' = {}
    BY <1>1, QuotaAssumption DEF QuotaRestart, QuotaAssumption, Leased
  <2>2. Cardinality(Leased') <= MaxConcurrent BY <2>1, FewerLeased
  <2> QED BY <1>1, <2>1, <2>2 DEF QuotaRestart, QuotaInv
<1>2. CASE backend # "memory"
  BY <1>2 DEF QuotaRestart, QuotaInv, Leased
<1> QED BY <1>1, <1>2

LEMMA QuotaSteps == QuotaInv /\ [QuotaNext]_quotaVars => QuotaInv'
<1> SUFFICES ASSUME QuotaInv, [QuotaNext]_quotaVars PROVE QuotaInv'
  OBVIOUS
<1>1. ASSUME NEW r \in Requests, NEW c \in Clients, Admit(r, c) PROVE QuotaInv'
  BY <1>1, AdmitKeeps
<1>2. ASSUME NEW r \in Requests, NEW c \in Clients, BackendRaises(r, c)
      PROVE  QuotaInv'
  BY <1>2, RaiseKeeps
<1>3. ASSUME NEW r \in Requests, EndStream(r) PROVE QuotaInv'
  BY <1>3, StreamEndKeeps
<1>4. CASE QuotaTick BY <1>4, TickKeeps
<1>5. CASE QuotaRestart BY <1>5, RestartKeeps
<1>6. CASE UNCHANGED quotaVars BY <1>6 DEF quotaVars, QuotaInv, Leased
<1> QED BY <1>1, <1>2, <1>3, <1>4, <1>5, <1>6 DEF QuotaNext

\* try_acquire of either backend never hands out more unexpired reservations than
\* max_concurrent, and in memory no more streams run than that.
THEOREM Bounded == QuotaSpec => []LeasedWithinLimit
<1>1. QuotaInv => LeasedWithinLimit BY DEF QuotaInv, LeasedWithinLimit
<1> QED BY <1>1, QuotaInitial, QuotaSteps, PTL DEF QuotaSpec

\* The in-memory ProcessQuota loses no reservation and invents none: acquire and
\* the finally of event_stream are paired.
THEOREM MemoryPaired == QuotaSpec => []MemoryLeaseIsAStream
<1>1. QuotaInv => MemoryLeaseIsAStream BY DEF QuotaInv, MemoryLeaseIsAStream
<1> QED BY <1>1, QuotaInitial, QuotaSteps, PTL DEF QuotaSpec

-----------------------------------------------------------------------------
(* The composition runs each of its parts as the part's own specification  *)
(* allows, so what is proved of the circuit and of the quota holds of a    *)
(* served request, and no model call outlives its request unnoticed.       *)

LEMMA ServingStepsCircuit == [Next]_vars => [CircuitNext]_circuitVars
<1> SUFFICES ASSUME Next PROVE CircuitNext \/ UNCHANGED circuitVars
  BY DEF vars, circuitVars
<1>1. ASSUME NEW r \in Requests, Acquire(r) \/ Finish(r) \/ Disconnect(r)
      PROVE  UNCHANGED circuitVars
  BY <1>1 DEF Acquire, Finish, Disconnect
<1>2. ASSUME NEW c \in Calls, AskModel(c) \/ ModelEnds(c) \/ Unwind(c)
      PROVE  CircuitNext
  BY <1>2 DEF AskModel, ModelEnds, Unwind, EndCall, CircuitNext
<1>3. Tick \/ Restart => CircuitNext
  BY DEF Tick, Restart, CircuitNext
<1> QED BY <1>1, <1>2, <1>3 DEF Next

LEMMA ServingStepsQuota == [Next]_vars => [QuotaNext]_quotaVars
<1> SUFFICES ASSUME Next PROVE QuotaNext \/ UNCHANGED quotaVars
  BY DEF vars, quotaVars
<1>1. ASSUME NEW r \in Requests, Acquire(r) \/ Finish(r) \/ Disconnect(r)
      PROVE  QuotaNext
  BY <1>1 DEF Acquire, Finish, Disconnect, QuotaNext
<1>2. ASSUME NEW c \in Calls, AskModel(c) \/ ModelEnds(c) \/ Unwind(c)
      PROVE  UNCHANGED quotaVars
  BY <1>2 DEF AskModel, ModelEnds, Unwind
<1>3. Tick \/ Restart => QuotaNext
  BY DEF Tick, Restart, QuotaNext
<1> QED BY <1>1, <1>2, <1>3 DEF Next

\* Every behaviour of the serving process is one of the guard in
\* model_resilience.py: the routes add no way around it.
THEOREM ServesThroughCircuit == Spec => CircuitSpec
<1>1. Init => CircuitInit BY DEF Init
<1> QED BY <1>1, ServingStepsCircuit, PTL DEF Spec, CircuitSpec

\* Every behaviour of the serving process is one of the quotas in
\* runtime_hardening.py: each stream is admitted and ended as they expect.
THEOREM ServesWithinQuota == Spec => QuotaSpec
<1>1. Init => QuotaInit BY DEF Init
<1> QED BY <1>1, ServingStepsQuota, PTL DEF Spec, QuotaSpec

\* What is proved of the guard and of the quotas holds for process_routes.py,
\* which uses both: slot, reservations and streams stay paired under load.
THEOREM ServingSafety ==
  Spec => /\ []SlotHeldByProbe
          /\ []LeasedWithinLimit
          /\ []MemoryLeaseIsAStream
BY ServesThroughCircuit, ServesWithinQuota, SlotBacked, Bounded, MemoryPaired, PTL

-----------------------------------------------------------------------------

\* Who is in flight changes only where a call begins or ends.
LEMMA CallLeavesFlight ==
  ASSUME NEW c \in Calls, Ends(c), role \in [Calls -> {"none", "normal", "probe"}]
  PROVE  InFlight' = InFlight \ {c}
BY DEF Ends, InFlight

LEMMA ServingKeepsCalls ==
  ASSUME role \in [Calls -> {"none", "normal", "probe"}], NoOrphanedCall, [Next]_vars
  PROVE  NoOrphanedCall'
<1> USE DEF NoOrphanedCall
<1>1. ASSUME NEW r \in Requests, Acquire(r) PROVE NoOrphanedCall'
  <2>1. serving \subseteq serving' /\ UNCHANGED <<role, unwinding>>
    BY <1>1 DEF Acquire, Admit, BackendRaises, circuitVars
  <2> QED BY <2>1 DEF InFlight
<1>2. ASSUME NEW r \in Requests, Finish(r) PROVE NoOrphanedCall'
  <2>1. serving' = serving \ {r} /\ UNCHANGED <<role, unwinding>> /\ CallsOf(r) = {}
    BY <1>2 DEF Finish, EndStream, circuitVars
  <2> QED BY <2>1 DEF InFlight, CallsOf
<1>3. ASSUME NEW r \in Requests, Disconnect(r) PROVE NoOrphanedCall'
  <2>1. serving' = serving \ {r} /\ UNCHANGED role
    BY <1>3 DEF Disconnect, EndStream, circuitVars
  <2>2. CASE CallsOf(r) = {}
    BY <1>3, <2>1, <2>2 DEF Disconnect, InFlight, CallsOf
  <2>3. CASE CallsOf(r) # {}
    BY <1>3, <2>1, <2>3 DEF Disconnect, InFlight
  <2> QED BY <2>2, <2>3
<1>4. ASSUME NEW c \in Calls, AskModel(c) PROVE NoOrphanedCall'
  <2>1. InFlight' \subseteq InFlight \union {c}
    BY <1>4 DEF AskModel, BeginCall, ClientRaises, InFlight
  <2> QED BY <1>4, <2>1 DEF AskModel, quotaVars
<1>5. ASSUME NEW c \in Calls, ModelEnds(c) PROVE NoOrphanedCall'
  <2>1. InFlight' = InFlight \ {c}
    BY <1>5, CallLeavesFlight
    DEF ModelEnds, EndCall, RecordSuccess, RecordFailure, RecordCancelled
  <2> QED BY <1>5, <2>1 DEF ModelEnds, quotaVars
<1>6. ASSUME NEW c \in Calls, Unwind(c) PROVE NoOrphanedCall'
  <2>1. InFlight' = InFlight \ {c}
    BY <1>6, CallLeavesFlight DEF Unwind, RecordCancelled
  <2>2. CASE CallsOf(c[1]) = {c}
    BY <1>6, <2>1, <2>2 DEF Unwind, quotaVars, CallsOf
  <2>3. CASE CallsOf(c[1]) # {c}
    BY <1>6, <2>1, <2>3 DEF Unwind, quotaVars
  <2> QED BY <2>2, <2>3
<1>7. CASE Tick
  BY <1>7 DEF Tick, CircuitTick, QuotaTick, InFlight
<1>8. CASE Restart
  BY <1>8 DEF Restart, CircuitRestart, InFlight
<1>9. CASE UNCHANGED vars
  BY <1>9 DEF vars, circuitVars, quotaVars, InFlight
<1> QED BY <1>1, <1>2, <1>3, <1>4, <1>5, <1>6, <1>7, <1>8, <1>9 DEF Next

\* However requests finish, are disconnected or time out, a model call in flight
\* belongs to a stream that runs or to a cancelled task that still unwinds.
THEOREM NothingOrphaned == Spec => []NoOrphanedCall
<1> DEFINE Typed == role \in [Calls -> {"none", "normal", "probe"}]
<1>1. SlotInv => Typed BY DEF SlotInv, CircuitTypeOK
<1>2. Init => SlotInv /\ NoOrphanedCall
  BY CircuitInitial DEF Init, CircuitInit, NoOrphanedCall, InFlight
<1>3. SlotInv /\ NoOrphanedCall /\ [Next]_vars => (SlotInv /\ NoOrphanedCall)'
  BY <1>1, ServingStepsCircuit, CircuitSteps, ServingKeepsCalls
<1> QED BY <1>2, <1>3, PTL DEF Spec

=============================================================================
