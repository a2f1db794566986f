---------------------------- MODULE StrixService ----------------------------
(***************************************************************************)
(* The workstation service that runs pentest scans: start_scan with its    *)
(* idempotency key, the runner's admission, execution and cancellation,    *)
(* and the registry of runs that a restart reloads from disk.              *)
(*                                                                         *)
(* start_scan looks its run_ref up (Known), then resolves the target in a  *)
(* thread (an await: other requests are served meanwhile, and its caller   *)
(* may have gone when it returns), then refuses the target (Refuse) or     *)
(* creates the run (CreateScan). PentestRun composes them with its caller. *)
(***************************************************************************)
EXTENDS Integers, FiniteSets

CONSTANTS
    Refs,           \* run_refs the caller may use
    MaxScans,       \* bound: runs in the registry
    MaxConcurrent,  \* MAX_CONCURRENT: the runner's semaphore
    MaxRequests,    \* bound: start_scan handlers at a time
    ScopeTime,      \* ticks a request may take up to the end of its scope check
    MaxRestarts     \* bound: restarts of the service

ASSUME ServiceAssumption ==
    /\ MaxScans \in Nat /\ MaxConcurrent \in Nat \ {0}
    /\ MaxRequests \in Nat /\ ScopeTime \in Nat /\ MaxRestarts \in Nat

VARIABLES
    scan,       \* status of every run of the registry, "none" when unused
    refOf,      \* run.run_ref
    byRef,      \* _by_ref: the run of a ref, NoScan when there is none
    asks,       \* the start_scan handlers in their scope check: the ref, and
                \* the ticks left of it
    stop,       \* Runner._cancelled
    restarts

serviceVars == <<scan, refOf, byRef, asks, stop, restarts>>

NoScan == 0
NoRef == -1
Scans == 1..MaxScans
Requests == 1..MaxRequests
NoAsk == [ref |-> NoRef, left |-> 0]
Asked(q) == asks[q].ref # NoRef

\* "failed" runs are told apart by what a poll of them reports: "hollow" ones
\* say the target was never engaged, "busy" ones that the queue was full.
Pending == {"queued", "running"}
Terminal == {"completed", "budget_exceeded", "cancelled", "failed", "hollow", "busy"}

ServiceInit ==
    /\ scan = [i \in Scans |-> "none"]
    /\ refOf = [i \in Scans |-> NoRef]
    /\ byRef = [f \in Refs |-> NoScan]
    /\ asks = [q \in Requests |-> NoAsk]
    /\ stop = {}
    /\ restarts = 0

(***************************************************************************)
(* start_scan.                                                             *)
(***************************************************************************)
\* Mutant: the idempotency key is not looked up.
KnownForgotten(f) == NoScan

\* get_by_ref: the run already created for f.
Known(f) == byRef[f]

\* start_scan has not found f and checks the scope of the target.
Ask(f, q) ==
    /\ ~Asked(q) /\ \A p \in Requests : ~Asked(p) => q <= p
    /\ asks' = [asks EXCEPT ![q] = [ref |-> f, left |-> ScopeTime]]
    /\ UNCHANGED <<scan, refOf, byRef, stop, restarts>>

\* The target is out of scope: 403.
Refuse(q) ==
    /\ Asked(q)
    /\ asks' = [asks EXCEPT ![q] = NoAsk]
    /\ UNCHANGED <<scan, refOf, byRef, stop, restarts>>

\* store.create registers the run under its ref, without another look-up;
\* runner.submit then queues it or raises Busy, in which case it stays in the
\* registry as failed.
CreateScan(q, i, s) ==
    /\ Asked(q)
    /\ scan[i] = "none" /\ \A j \in Scans : scan[j] = "none" => i <= j
    /\ s \in {"queued", "busy"}
    /\ scan' = [scan EXCEPT ![i] = s]
    /\ refOf' = [refOf EXCEPT ![i] = asks[q].ref]
    /\ byRef' = [byRef EXCEPT ![asks[q].ref] = i]
    /\ asks' = [asks EXCEPT ![q] = NoAsk]
    /\ UNCHANGED <<stop, restarts>>

(***************************************************************************)
(* The runner.                                                             *)
(***************************************************************************)
\* cancel: a finished run is left alone; the process of a running one is
\* terminated, after which Finish records the cancellation.
StopAfterCancel(i) == IF scan[i] \in Pending THEN stop \cup {i} ELSE stop

\* _run passes the semaphore.
Launch(i) ==
    /\ scan[i] = "queued"
    /\ Cardinality({j \in Scans : scan[j] = "running"}) < MaxConcurrent
    /\ scan' = [scan EXCEPT ![i] = IF i \in stop THEN "cancelled" ELSE "running"]
    /\ stop' = stop \ {i}
    /\ UNCHANGED <<refOf, byRef, asks, restarts>>

\* _execute ends and _classify turns the exit code into a status: a cancelled
\* run is cancelled whatever its process said.
Finish(i) ==
    /\ scan[i] = "running"
    /\ \E s \in {"completed", "budget_exceeded", "failed", "hollow"} :
          scan' = [scan EXCEPT ![i] = IF i \in stop THEN "cancelled" ELSE s]
    /\ stop' = stop \ {i}
    /\ UNCHANGED <<refOf, byRef, asks, restarts>>

\* The service is killed, or drained first, and load_from_disk marks what was
\* in flight as failed; refs are restored with the runs. Its handlers are gone.
Restart ==
    /\ restarts < MaxRestarts /\ restarts' = restarts + 1
    /\ \E drained \in SUBSET {i \in Scans : scan[i] = "running"} :
          scan' = [i \in Scans |-> IF i \in drained THEN "cancelled"
                                   ELSE IF scan[i] \in Pending THEN "failed"
                                   ELSE scan[i]]
    /\ stop' = {}
    /\ asks' = [q \in Requests |-> NoAsk]
    /\ UNCHANGED <<refOf, byRef>>

RunnerStep == \E i \in Scans : Launch(i) \/ Finish(i)

(***************************************************************************)
(* Properties.                                                             *)
(***************************************************************************)
\* The runs of the service and its index by run_ref have their types.
ServiceTypeOK ==
    /\ scan \in [Scans -> {"none"} \cup Pending \cup Terminal]
    /\ refOf \in [Scans -> Refs \cup {NoRef}]
    /\ byRef \in [Refs -> Scans \cup {NoScan}]
    /\ asks \in [Requests -> [ref : Refs \cup {NoRef}, left : 0..ScopeTime]]
    /\ stop \in SUBSET Scans
    /\ restarts \in 0..MaxRestarts
=============================================================================
