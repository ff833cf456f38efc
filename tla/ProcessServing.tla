--------------------------- MODULE ProcessServing ---------------------------
(***************************************************************************)
(* One API process serving /process requests: the admission of             *)
(* ProcessQuota around the model calls of ModelCircuit, as api/            *)
(* process_routes.py (handle_process_request, event_stream) runs them.     *)
(* The answer task works on the request's subqueries side by side          *)
(* (answer_multi_intent_query gathers them) and asks the model once for    *)
(* each; the code asks a small fixed number of times.                      *)
(***************************************************************************)
EXTENDS ModelCircuit, ProcessQuota

CONSTANT Subqueries     \* subqueries of one request

\* A model call is made by a request for one of its subqueries.
ASSUME CallsAssumption == Calls = Requests \X Subqueries

VARIABLES
    asked,              \* the calls the running answer tasks have made
    unwinding           \* slots whose answer task was cancelled, its calls not yet

vars == <<circuitVars, quotaVars, asked, unwinding>>

-----------------------------------------------------------------------------

CallsOf(r) == {c \in InFlight : c[1] = r}

AskedBy(r) == {c \in asked : c[1] = r}

TypeOK ==
    /\ CircuitTypeOK
    /\ QuotaTypeOK
    /\ asked \subseteq serving \X Subqueries
    /\ unwinding \subseteq Requests \ serving

Init == CircuitInit /\ QuotaInit /\ asked = {} /\ unwinding = {}

\* handle_process_request up to the StreamingResponse.
Acquire(r) ==
    /\ r \notin unwinding
    /\ \E c \in Clients : Admit(r, c) \/ BackendRaises(r, c)
    /\ UNCHANGED <<circuitVars, asked, unwinding>>

\* The answer task asks the model, unless the circuit refuses.
AskModel(c) ==
    /\ c[1] \in serving
    /\ c \notin asked
    /\ BeginCall(c) \/ ClientRaises(c)
    /\ asked' = asked \union {c}
    /\ UNCHANGED <<quotaVars, unwinding>>

\* A call ends: answered, failed, or cancelled by the caller's timeout.
ModelEnds(c) ==
    /\ c[1] \in serving
    /\ EndCall(c)
    /\ UNCHANGED <<quotaVars, asked, unwinding>>

\* The answer is complete and its last event was sent.
Finish(r) ==
    /\ CallsOf(r) = {}
    /\ EndStream(r)
    /\ asked' = asked \ AskedBy(r)
    /\ UNCHANGED <<circuitVars, unwinding>>

\* Seeded fault: the finally releases and leaves the answer task running.
DisconnectLeavingTask(r) ==
    /\ EndStream(r)
    /\ asked' = asked \ AskedBy(r)
    /\ UNCHANGED <<circuitVars, unwinding>>

\* The client went away: the stream's finally cancels the answer task, without
\* waiting for it, and releases.
Disconnect(r) ==
    /\ EndStream(r)
    /\ asked' = asked \ AskedBy(r)
    /\ unwinding' = IF CallsOf(r) = {} THEN unwinding ELSE unwinding \union {r}
    /\ UNCHANGED circuitVars

\* The cancellation reaches a model call of a cancelled answer task.
Unwind(c) ==
    /\ c[1] \in unwinding
    /\ RecordCancelled(c)
    /\ unwinding' = IF CallsOf(c[1]) = {c} THEN unwinding \ {c[1]} ELSE unwinding
    /\ UNCHANGED <<quotaVars, asked>>

Tick == CircuitTick /\ QuotaTick /\ UNCHANGED <<asked, unwinding>>

Restart == CircuitRestart /\ QuotaRestart /\ asked' = {} /\ unwinding' = {}

Next ==
    \/ \E r \in Requests : Acquire(r) \/ Finish(r) \/ Disconnect(r)
    \/ \E c \in Calls : AskModel(c) \/ ModelEnds(c) \/ Unwind(c)
    \/ Tick
    \/ Restart

Spec == Init /\ [][Next]_vars

(***************************************************************************)
(* Time passes; a model call ends, at the latest by its timeout            *)
(* (PARSER_CALL_TIMEOUT_SECONDS, MODEL_CALL_TIMEOUT_SECONDS); a stream     *)
(* whose calls are over ends; a cancellation is delivered.  Nothing is     *)
(* assumed of clients, of Redis or of the provider.                        *)
(***************************************************************************)
Fairness ==
    /\ WF_vars(Tick)
    /\ \A c \in Calls : WF_vars(ModelEnds(c)) /\ WF_vars(Unwind(c))
    /\ \A r \in Requests : WF_vars(Finish(r))

FairSpec == Spec /\ Fairness

-----------------------------------------------------------------------------

\* Model work is only done for a stream that runs or was just cancelled: a
\* disconnect leaves no model call behind that nothing will end.
NoOrphanedCall == \A c \in InFlight : c[1] \in serving \union unwinding

=============================================================================
