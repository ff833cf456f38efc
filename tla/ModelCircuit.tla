---------------------------- MODULE ModelCircuit ----------------------------
(***************************************************************************)
(* The circuit breaker that every model call of one API process goes       *)
(* through: ops/model_resilience.py (ModelProviderGuard) as ops/           *)
(* model_gateway.py uses it.  Each method of the guard is atomic (it holds *)
(* the guard's lock for its whole body); the provider call between         *)
(* before_call and the record_* that ends it is not, so calls overlap.     *)
(*                                                                         *)
(* Time is relative: only the seconds since the circuit opened are         *)
(* compared with recovery_seconds, so that is what is kept, and it stops   *)
(* counting at RecoverySeconds.  The failure counter is only compared with *)
(* the threshold and stops there.                                          *)
(***************************************************************************)
EXTENDS Naturals, FiniteSets

CONSTANTS
    Calls,             \* model calls: a call identity is reused once it ended
    FailureThreshold,  \* MODEL_CIRCUIT_FAILURE_THRESHOLD
    RecoverySeconds    \* MODEL_CIRCUIT_RECOVERY_SECONDS, in ticks

ASSUME CircuitAssumption ==
    /\ FailureThreshold \in Nat \ {0}
    /\ RecoverySeconds \in Nat \ {0}

VARIABLES
    circuit,           \* _state
    failures,          \* _failures, counted up to FailureThreshold
    sinceOpened,       \* now - _opened_at, counted up to RecoverySeconds
    probing,           \* _half_open_in_flight
    clientWorks,       \* FALSE: constructing the provider client may raise
    role               \* what each call was admitted as

circuitVars == <<circuit, failures, sinceOpened, probing, clientWorks, role>>

-----------------------------------------------------------------------------

InFlight == {c \in Calls : role[c] # "none"}

Probes == {c \in Calls : role[c] = "probe"}

CircuitTypeOK ==
    /\ circuit \in {"closed", "open", "half_open"}
    /\ failures \in 0..FailureThreshold
    /\ sinceOpened \in 0..RecoverySeconds
    /\ probing \in BOOLEAN
    /\ clientWorks \in BOOLEAN
    /\ role \in [Calls -> {"none", "normal", "probe"}]

CircuitInit ==
    /\ circuit = "closed"
    /\ failures = 0
    /\ sinceOpened = 0
    /\ probing = FALSE
    /\ clientWorks \in BOOLEAN
    /\ role = [c \in Calls |-> "none"]

-----------------------------------------------------------------------------
(***************************************************************************)
(* before_call.  A refused call raises and changes nothing.                *)
(***************************************************************************)

\* Seeded fault: an open circuit probes without waiting.
RecoveredAtOnce == TRUE

Recovered == sinceOpened >= RecoverySeconds

ProbeAllowed ==
    \/ circuit = "open" /\ Recovered
    \/ circuit = "half_open" /\ ~probing

\* The two ways before_call returns.
PassClosed == circuit = "closed" /\ UNCHANGED <<circuit, probing>>

TakeProbe == ProbeAllowed /\ circuit' = "half_open" /\ probing' = TRUE

\* Seeded fault: an open circuit still lets ordinary calls through.
AdmitThroughOpen(c) ==
    /\ role[c] = "none"
    /\ \/ circuit \in {"closed", "open"} /\ UNCHANGED <<circuit, probing>>
          /\ role' = [role EXCEPT ![c] = "normal"]
       \/ circuit = "half_open" /\ TakeProbe /\ role' = [role EXCEPT ![c] = "probe"]
    /\ UNCHANGED <<failures, sinceOpened, clientWorks>>

BeginCall(c) ==
    /\ role[c] = "none"
    /\ \/ PassClosed /\ role' = [role EXCEPT ![c] = "normal"]
       \/ TakeProbe /\ role' = [role EXCEPT ![c] = "probe"]
    /\ UNCHANGED <<failures, sinceOpened, clientWorks>>

\* before_call admitted the call, and the client, built outside the try
\* statement, raised: nothing is recorded.
ClientRaises(c) ==
    /\ ~clientWorks
    /\ role[c] = "none"
    /\ PassClosed \/ TakeProbe
    /\ UNCHANGED <<failures, sinceOpened, clientWorks, role>>

-----------------------------------------------------------------------------
(***************************************************************************)
(* How an admitted call ends.  A call does not remember what it was        *)
(* admitted as: whatever ends last decides.                                *)
(***************************************************************************)

Ends(c) == role[c] # "none" /\ role' = [role EXCEPT ![c] = "none"]

\* The provider answered.  A stream without public text is a success too.
RecordSuccess(c) ==
    /\ Ends(c)
    /\ circuit' = "closed"
    /\ failures' = 0
    /\ probing' = FALSE
    /\ UNCHANGED <<sinceOpened, clientWorks>>

\* Seeded fault: a failure that opens the circuit keeps the probe's slot.
FailureKeepingSlot(c) ==
    /\ Ends(c)
    /\ failures' = IF failures < FailureThreshold THEN failures + 1 ELSE failures
    /\ IF circuit = "half_open" \/ failures' >= FailureThreshold
       THEN circuit' = "open" /\ sinceOpened' = 0
       ELSE UNCHANGED <<circuit, sinceOpened>>
    /\ UNCHANGED <<probing, clientWorks>>

\* The provider, the network or the wire protocol failed.
RecordFailure(c) ==
    /\ Ends(c)
    /\ failures' = IF failures < FailureThreshold THEN failures + 1 ELSE failures
    /\ probing' = FALSE
    /\ IF circuit = "half_open" \/ failures' >= FailureThreshold
       THEN circuit' = "open" /\ sinceOpened' = 0
       ELSE UNCHANGED <<circuit, sinceOpened>>
    /\ UNCHANGED clientWorks

\* Seeded fault: a cancelled call keeps the probe's slot.
CancelledKeepingSlot(c) ==
    /\ Ends(c)
    /\ UNCHANGED <<circuit, failures, sinceOpened, probing, clientWorks>>

\* The caller's timeout, the request's cancellation or a closed stream.
RecordCancelled(c) ==
    /\ Ends(c)
    /\ probing' = FALSE
    /\ UNCHANGED <<circuit, failures, sinceOpened, clientWorks>>

EndCall(c) == RecordSuccess(c) \/ RecordFailure(c) \/ RecordCancelled(c)

CircuitTick ==
    /\ sinceOpened' = IF sinceOpened < RecoverySeconds THEN sinceOpened + 1
                                                        ELSE sinceOpened
    /\ UNCHANGED <<circuit, failures, probing, clientWorks, role>>

\* A new process starts with a new guard.
CircuitRestart ==
    /\ circuit' = "closed"
    /\ failures' = 0
    /\ sinceOpened' = 0
    /\ probing' = FALSE
    /\ role' = [c \in Calls |-> "none"]
    /\ UNCHANGED clientWorks

CircuitNext ==
    \/ \E c \in Calls : BeginCall(c) \/ ClientRaises(c) \/ EndCall(c)
    \/ CircuitTick
    \/ CircuitRestart

CircuitSpec == CircuitInit /\ [][CircuitNext]_circuitVars

-----------------------------------------------------------------------------
(***************************************************************************)
(* Properties.                                                             *)
(***************************************************************************)

\* A taken half-open slot belongs to a probe that is still running, whatever
\* older calls did meanwhile: no call that is gone can keep the provider shut
\* out for good.  It needs the client's construction, which model_gateway.py
\* leaves outside its try statement, not to raise.
SlotHeldByProbe == clientWorks /\ probing => circuit = "half_open" /\ Probes # {}

\* test_circuit_opens_then_allows_one_half_open_probe, and the refusal's text
\* "half-open probe is already running": one probe at a time.
OneHalfOpenProbe == circuit = "half_open" => Cardinality(Probes) <= 1

\* Before recovery_seconds are over an open circuit turns half-open for nobody,
\* and closes only on the success of a call it had admitted before, or because
\* the process restarts.
OpenHoldsRecovery ==
    [][circuit = "open" /\ sinceOpened < RecoverySeconds /\ circuit' # "open"
         => \/ circuit' = "closed" /\ InFlight # {}
            \/ CircuitRestart ]_circuitVars

\* Late failures of calls admitted before may prolong the open period, but only
\* so often: sooner or later a probe is allowed.
OpenEnds == circuit = "open" ~> (circuit # "open" \/ sinceOpened >= RecoverySeconds)

\* The half-open slot comes free again.
SlotFreed == (clientWorks /\ probing) ~> ~probing

\* A provider that failed, or a probe that hangs, does not shut it out for ever.
CircuitRecovers == OpenEnds /\ SlotFreed

=============================================================================
