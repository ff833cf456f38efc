---------------------------- MODULE ProcessQuota ----------------------------
(***************************************************************************)
(* Admission of POST /process requests: ops/runtime_hardening.py           *)
(* (ProcessQuota in memory, RedisProcessQuota with its two Lua scripts) as *)
(* api/process_routes.py acquires before the SSE stream and releases in    *)
(* the stream's finally.                                                   *)
(*                                                                         *)
(* Which backend and fail mode a deployment uses is chosen in the initial  *)
(* state.  Time is relative: a lease is the ticks left to it, a rate stamp *)
(* its age.  A lease or stamp that ran out is dropped at once; the code    *)
(* drops it at the next acquire, the only place it is looked at.           *)
(***************************************************************************)
EXTENDS Naturals, Sequences, FiniteSets

CONSTANTS
    Requests,           \* request slots: a slot is reused once its lease is gone
    Clients,            \* quota identities (resolve_client_id)
    MaxConcurrent,      \* PROCESS_MAX_CONCURRENT
    RequestsPerMinute,  \* PROCESS_RATE_LIMIT_PER_MINUTE, 0 for no limit
    WindowTicks,        \* window_seconds
    LeaseTicks,         \* PROCESS_QUOTA_LEASE_SECONDS
    MaxTrackedClients   \* max_tracked_clients

ASSUME QuotaAssumption ==
    /\ IsFiniteSet(Requests)
    /\ MaxConcurrent \in Nat \ {0} /\ RequestsPerMinute \in Nat
    /\ WindowTicks \in Nat \ {0} /\ LeaseTicks \in Nat \ {0}
    /\ MaxTrackedClients \in Nat \ {0}

VARIABLES
    backend,            \* "memory" or "redis"
    failOpen,           \* PROCESS_QUOTA_FAIL_MODE = open
    lease,              \* ticks left to the lease a slot's request was given, 0: none
    stamps,             \* per client, ages of the counted admissions, oldest first
    serving,            \* slots whose SSE stream runs
    leaseKnown          \* serving slots whose decision carries the lease_id

quotaVars == <<backend, failOpen, lease, stamps, serving, leaseKnown>>

-----------------------------------------------------------------------------

Leased == {r \in Requests : lease[r] > 0}

QuotaTypeOK ==
    /\ backend \in {"memory", "redis"}
    /\ failOpen \in BOOLEAN
    /\ lease \in [Requests -> 0..LeaseTicks]
    /\ stamps \in [Clients -> Seq(0..(WindowTicks - 1))]
    /\ RequestsPerMinute # 0 => \A c \in Clients : Len(stamps[c]) <= RequestsPerMinute
    /\ serving \subseteq Requests
    /\ leaseKnown \subseteq serving

QuotaInit ==
    /\ backend \in {"memory", "redis"}
    /\ failOpen \in IF backend = "redis" THEN BOOLEAN ELSE {FALSE}
    /\ lease = [r \in Requests |-> 0]
    /\ stamps = [c \in Clients |-> <<>>]
    /\ serving = {}
    /\ leaseKnown = {}

-----------------------------------------------------------------------------
(***************************************************************************)
(* The decision, the same in memory and in the acquire script.             *)
(***************************************************************************)

WithinRate(c) == RequestsPerMinute = 0 \/ Len(stamps[c]) < RequestsPerMinute

\* Seeded fault: one stream too many.
RoomOffByOne == Cardinality(Leased) <= MaxConcurrent

Room == Cardinality(Leased) < MaxConcurrent

Free(r) == r \notin serving /\ lease[r] = 0

\* Counting the admission.  In memory the table of clients is cleared, the
\* client just admitted included, when more than MaxTrackedClients are active.
CountAdmission(r, c) ==
    LET counted == [stamps EXCEPT ![c] = Append(@, 0)]
        overflow == /\ backend = "memory"
                    /\ Cardinality({d \in Clients : counted[d] # <<>>}) > MaxTrackedClients
    IN  /\ lease' = [lease EXCEPT ![r] = LeaseTicks]
        /\ stamps' = IF overflow THEN [d \in Clients |-> <<>>] ELSE counted

\* try_acquire admits and the SSE stream starts.
Admit(r, c) ==
    /\ Free(r) /\ WithinRate(c) /\ Room
    /\ CountAdmission(r, c)
    /\ serving' = serving \union {r}
    /\ leaseKnown' = leaseKnown \union {r}
    /\ UNCHANGED <<backend, failOpen>>

\* The Redis call raised, before the script ran or after it (a lost reply, which
\* leaves a lease nobody knows).  Fail-closed refuses with 503, fail-open serves
\* the request without a lease.
BackendRaises(r, c) ==
    /\ backend = "redis"
    /\ Free(r)
    /\ \/ WithinRate(c) /\ Room /\ CountAdmission(r, c)
       \/ UNCHANGED <<lease, stamps>>
    /\ serving' = IF failOpen THEN serving \union {r} ELSE serving
    /\ UNCHANGED <<backend, failOpen, leaseKnown>>

-----------------------------------------------------------------------------
(***************************************************************************)
(* The end of a stream.  event_stream's finally releases the lease it      *)
(* knows.  The Redis release may fail: the error is swallowed, and on a    *)
(* disconnect the awaited call is itself cancelled.                        *)
(***************************************************************************)

\* Seeded fault: the reservation is left to its expiry.
ReleaseByExpiry(r) == UNCHANGED lease

Release(r) ==
    \/ r \in leaseKnown /\ lease' = [lease EXCEPT ![r] = 0]
    \/ r \notin leaseKnown /\ UNCHANGED lease
    \/ backend = "redis" /\ UNCHANGED lease

EndStream(r) ==
    /\ r \in serving
    /\ Release(r)
    /\ serving' = serving \ {r}
    /\ leaseKnown' = leaseKnown \ {r}
    /\ UNCHANGED <<backend, failOpen, stamps>>

\* Seeded fault: stamps that leave the window a tick late.
AgedLate(s) == SelectSeq([i \in DOMAIN s |-> s[i] + 1], LAMBDA a : a <= WindowTicks)

Aged(s) == SelectSeq([i \in DOMAIN s |-> s[i] + 1], LAMBDA a : a < WindowTicks)

\* Only the scores of Redis run out; memory leases have no expiry.
QuotaTick ==
    /\ lease' = [r \in Requests |->
                   IF backend = "redis" /\ lease[r] > 0 THEN lease[r] - 1 ELSE lease[r]]
    /\ stamps' = [c \in Clients |-> Aged(stamps[c])]
    /\ UNCHANGED <<backend, failOpen, serving, leaseKnown>>

\* The API process dies with its streams.  Redis keeps its keys.
QuotaRestart ==
    /\ serving' = {}
    /\ leaseKnown' = {}
    /\ IF backend = "memory"
       THEN /\ lease' = [r \in Requests |-> 0]
            /\ stamps' = [c \in Clients |-> <<>>]
       ELSE UNCHANGED <<lease, stamps>>
    /\ UNCHANGED <<backend, failOpen>>

QuotaNext ==
    \/ \E r \in Requests, c \in Clients : Admit(r, c) \/ BackendRaises(r, c)
    \/ \E r \in Requests : EndStream(r)
    \/ QuotaTick
    \/ QuotaRestart

QuotaSpec == QuotaInit /\ [][QuotaNext]_quotaVars

-----------------------------------------------------------------------------
(***************************************************************************)
(* Properties.                                                             *)
(***************************************************************************)

\* The concurrency bound of both backends counts every stream but two kinds: one
\* that outlived its lease, and one a fail-open backend let through.
LeasedWithinLimit ==
    /\ Cardinality(Leased) <= MaxConcurrent
    /\ backend = "memory" => Cardinality(serving) <= MaxConcurrent

\* In memory a reservation is held exactly while its stream runs: it has no
\* expiry to make up for a lost release.
MemoryLeaseIsAStream == backend = "memory" => Leased = serving

\* Every reservation is returned, by the release or by its expiry, also when the
\* reply that carried it was lost or the process that held it died.
LeaseReturned == \A r \in Requests : lease[r] > 0 ~> lease[r] = 0

=============================================================================
