--------------------------- MODULE WebhookDelivery ---------------------------
(***************************************************************************)
(* One delivery of a webhook event to one endpoint: the goroutine Emit     *)
(* starts for the first attempt, the polling worker of every replica that  *)
(* retries (Dispatcher.RetryDue), the receiver, and an admin who disables, *)
(* enables or deletes the endpoint.                                        *)
(*                                                                         *)
(* next_attempt_at is the ticks left until it, NoTime when NULL. RetryDue  *)
(* claims a batch and attempts its deliveries one after the other, so a    *)
(* claimed delivery first waits for the others of its batch: up to         *)
(* QueueDelay ticks, each of them being allowed Timeout.                   *)
(***************************************************************************)
EXTENDS Integers, FiniteSets

CONSTANTS
    Emitter,      \* the goroutine of the first attempt
    Pollers,      \* replicas running Dispatcher.Run
    MaxAttempts,  \* len(Backoff) + 1
    Backoff,      \* ticks before a retry
    Lease,        \* Options.Lease, in ticks
    Timeout,      \* Options.Timeout, in ticks
    QueueDelay,   \* ticks a claimed delivery may wait in its batch
    MaxFailures,  \* bound: crashes and database errors
    MaxEdits      \* bound: edits of the endpoint

ASSUME EmitterAssumption == Emitter \notin Pollers
ASSUME BoundsAssumption ==
    /\ MaxAttempts \in Nat \ {0} /\ Backoff \in Nat
    /\ Lease \in Nat /\ Timeout \in Nat /\ QueueDelay \in Nat
    /\ MaxFailures \in Nat /\ MaxEdits \in Nat

VARIABLES
    status,     \* org_webhook_deliveries.status ("none": no row yet, "gone":
                \* deleted with its endpoint, "lost": never inserted)
    attempts,   \* attempts
    wait,       \* ticks until next_attempt_at
    enabled,    \* org_webhook_endpoints.enabled
    pc,         \* where each worker is with the delivery
    n,          \* its copy of del.Attempts
    on,         \* its copy of ep.Enabled
    outcome,    \* how its POST ended
    left,       \* ticks it has left for the delivery
    posts,      \* history: POSTs sent
    edits, failures

rowVars == <<status, attempts, wait>>
workVars == <<pc, n, on, outcome, left>>
vars == <<rowVars, enabled, workVars, posts, edits, failures>>

Workers == Pollers \cup {Emitter}
NoTime == -1
Statuses == {"none", "lost", "pending", "succeeded", "failed", "gone"}
PCs == {"idle", "queued", "attempt", "record"}
Outcomes == {"none", "accepted", "refused", "disabled", "unreadable"}

(***************************************************************************)
(* Helpers.                                                                *)
(***************************************************************************)
Failure == failures < MaxFailures /\ failures' = failures + 1

\* Worker w is through with the delivery.
Leave(w) ==
    /\ pc' = [pc EXCEPT ![w] = "idle"]
    /\ n' = [n EXCEPT ![w] = 0]
    /\ on' = [on EXCEPT ![w] = FALSE]
    /\ outcome' = [outcome EXCEPT ![w] = "none"]
    /\ left' = [left EXCEPT ![w] = 0]

Init ==
    /\ status = "none" /\ attempts = 0 /\ wait = NoTime
    /\ enabled = TRUE
    /\ pc = [w \in Workers |-> "idle"]
    /\ n = [w \in Workers |-> 0]
    /\ on = [w \in Workers |-> FALSE]
    /\ outcome = [w \in Workers |-> "none"]
    /\ left = [w \in Workers |-> 0]
    /\ posts = 0 /\ edits = 0 /\ failures = 0

(***************************************************************************)
(* Dispatcher.                                                             *)
(***************************************************************************)
\* Mutant: the row is due at once, while its first attempt is under way.
FirstLeaseNone == 0

\* prepare leases the row to the attempt that follows.
FirstLease == Lease

\* Emit: the endpoint is read and the row inserted, leased to the goroutine
\* that is started with it. On an error the event is only logged.
Emit ==
    /\ status = "none"
    /\ \/ /\ enabled
          /\ status' = "pending" /\ wait' = FirstLease
          /\ pc' = [pc EXCEPT ![Emitter] = "attempt"]
          /\ on' = [on EXCEPT ![Emitter] = TRUE]
          /\ left' = [left EXCEPT ![Emitter] = Timeout]
          /\ UNCHANGED failures
       \/ Failure /\ status' = "lost" /\ UNCHANGED <<wait, pc, on, left>>
    /\ UNCHANGED <<attempts, enabled, n, outcome, posts, edits>>

\* Mutant: the status is not looked at, and NULL counts as due.
DueAnyStatus == status \in {"pending", "succeeded"} /\ wait <= 0

\* The WHERE clause of ClaimDue.
Due == status = "pending" /\ wait = 0

\* ClaimDue leases the row; it joins the batch of poller p.
ClaimDue(p) ==
    /\ pc[p] = "idle"
    /\ Due
    /\ wait' = Lease
    /\ pc' = [pc EXCEPT ![p] = "queued"]
    /\ n' = [n EXCEPT ![p] = attempts]
    /\ left' = [left EXCEPT ![p] = QueueDelay + Timeout]
    /\ UNCHANGED <<status, attempts, enabled, on, outcome, posts, edits, failures>>

\* GetEndpointForDelivery; any error is taken for a deleted endpoint.
GetEndpoint(p) ==
    /\ pc[p] = "queued"
    /\ \/ /\ status # "gone"
          /\ pc' = [pc EXCEPT ![p] = "attempt"]
          /\ on' = [on EXCEPT ![p] = enabled]
          /\ UNCHANGED <<outcome, failures>>
       \/ /\ (status = "gone" /\ UNCHANGED failures) \/ Failure
          /\ pc' = [pc EXCEPT ![p] = "record"]
          /\ outcome' = [outcome EXCEPT ![p] = "unreadable"]
          /\ UNCHANGED on
    /\ UNCHANGED <<rowVars, enabled, n, left, posts, edits>>

\* attempt, up to the answer of the receiver or its timeout.
Post(w) ==
    /\ pc[w] = "attempt"
    /\ pc' = [pc EXCEPT ![w] = "record"]
    /\ n' = [n EXCEPT ![w] = @ + 1]
    /\ \/ /\ on[w]
          /\ \E o \in {"accepted", "refused"} : outcome' = [outcome EXCEPT ![w] = o]
          /\ posts' = posts + 1
       \/ /\ ~on[w]
          /\ outcome' = [outcome EXCEPT ![w] = "disabled"]
          /\ UNCHANGED posts
    /\ UNCHANGED <<rowVars, enabled, on, left, edits, failures>>

\* Mutant: the attempt cap is off by one.
ExhaustedOffByOne(w) == n[w] > MaxAttempts

\* del.Attempts >= d.MaxAttempts().
Exhausted(w) == n[w] >= MaxAttempts

\* The status attempt decides on.
StatusAfter(w) ==
    IF outcome[w] = "accepted" THEN "succeeded"
    ELSE IF outcome[w] = "refused" /\ ~Exhausted(w) THEN "pending"
    ELSE "failed"

\* Mutants: the attempt is not counted, and the retry is given no time.
RecordUncounted(w) ==
    /\ status' = StatusAfter(w)
    /\ wait' = IF status' = "pending" THEN Backoff ELSE NoTime
    /\ UNCHANGED attempts
RecordUnscheduled(w) == status' = StatusAfter(w) /\ wait' = NoTime /\ attempts' = n[w]

\* The UPDATE of RecordAttempt: it does not look at the status it replaces.
Record(w) ==
    IF status = "gone" THEN UNCHANGED rowVars
    ELSE /\ status' = StatusAfter(w)
         /\ wait' = IF status' = "pending" THEN Backoff ELSE NoTime
         /\ attempts' = n[w]

\* RecordAttempt; on an error the row keeps its lease and is retried.
RecordAttempt(w) ==
    /\ pc[w] = "record"
    /\ Leave(w)
    /\ \/ Record(w) /\ UNCHANGED failures
       \/ Failure /\ UNCHANGED rowVars
    /\ UNCHANGED <<enabled, posts, edits>>

(***************************************************************************)
(* The environment.                                                        *)
(***************************************************************************)
Crash(w) ==
    /\ pc[w] # "idle"
    /\ Failure
    /\ Leave(w)
    /\ UNCHANGED <<rowVars, enabled, posts, edits>>

\* UpdateEndpoint with enabled.
SetEnabled ==
    /\ edits < MaxEdits /\ edits' = edits + 1
    /\ enabled' = ~enabled
    /\ UNCHANGED <<rowVars, workVars, posts, failures>>

\* DeleteEndpoint; its deliveries are deleted with it.
DeleteEndpoint ==
    /\ edits < MaxEdits /\ edits' = edits + 1
    /\ status \in {"pending", "succeeded", "failed"}
    /\ status' = "gone" /\ attempts' = 0 /\ wait' = NoTime
    /\ UNCHANGED <<enabled, workVars, posts, failures>>

\* Time passes, but not beyond the time a worker has for its delivery.
Tick ==
    /\ \A w \in Workers : pc[w] # "idle" => left[w] > 0
    /\ wait > 0 \/ \E w \in Workers : pc[w] # "idle"
    /\ wait' = IF wait > 0 THEN wait - 1 ELSE wait
    /\ left' = [w \in Workers |-> IF pc[w] # "idle" THEN left[w] - 1 ELSE left[w]]
    /\ UNCHANGED <<status, attempts, enabled, pc, n, on, outcome, posts, edits, failures>>

WorkerStep(w) == Post(w) \/ RecordAttempt(w)

PollerStep(p) == ClaimDue(p) \/ GetEndpoint(p)

Next ==
    \/ Emit
    \/ \E w \in Workers : WorkerStep(w) \/ Crash(w)
    \/ \E p \in Pollers : PollerStep(p)
    \/ SetEnabled \/ DeleteEndpoint
    \/ Tick

Spec == Init /\ [][Next]_vars

\* Workers are scheduled, the poll ticker fires and the clock runs.
Fairness ==
    /\ \A w \in Workers : WF_vars(WorkerStep(w))
    /\ \A p \in Pollers : WF_vars(PollerStep(p))
    /\ WF_vars(Tick)

FairSpec == Spec /\ Fairness

(***************************************************************************)
(* Properties. The safety properties need the lease to outlast the batch:  *)
(* QueueDelay + Timeout < Lease.                                           *)
(***************************************************************************)
\* Every variable stays within its type; in particular no attempt beyond
\* MaxAttempts is counted.
TypeOK ==
    /\ status \in Statuses
    /\ attempts \in 0..MaxAttempts
    /\ wait \in {NoTime} \cup Nat
    /\ enabled \in BOOLEAN
    /\ pc \in [Workers -> PCs]
    /\ n \in [Workers -> 0..MaxAttempts]
    /\ on \in [Workers -> BOOLEAN]
    /\ outcome \in [Workers -> Outcomes]
    /\ left \in [Workers -> Nat]
    /\ posts \in Nat
    /\ edits \in 0..MaxEdits /\ failures \in 0..MaxFailures

\* "Retries are leased in the database, so several replicas are safe": no two
\* live workers hold the delivery at the same time, after any number of
\* crashes, failed writes and retries.
OneHolder ==
    \A v, w \in Workers : pc[v] # "idle" /\ pc[w] # "idle" => v = w

\* "for 6 attempts in total": beyond MaxAttempts the receiver is only called
\* again for an attempt that a crash or a failed write left unrecorded.
PostsBounded == posts <= MaxAttempts + failures

\* Delivered once, done: a succeeded delivery never gets another status, so
\* it is not sent again (its endpoint may still be deleted).
SucceededIsFinal == [][status = "succeeded" => status' \in {"succeeded", "gone"}]_vars

\* The delivery as a job: a row is open while pending, and dropped with its
\* endpoint or when it could not be inserted.
JobState ==
    CASE status = "none" -> "new"
      [] status = "pending" -> "open"
      [] status \in {"succeeded", "failed"} -> "done"
      [] status \in {"gone", "lost"} -> "dropped"
Holders == {w \in Workers : pc[w] # "idle"}
Job == INSTANCE LeasedJob WITH job <- JobState, holders <- Holders

\* The claims, leases and retries implement a leased job: ClaimDue only takes
\* a delivery nobody holds, only its holder ends it, and an ended one, failed
\* or succeeded, is never taken up again.
DeliveryIsLeasedJob == Job!Spec

\* Every delivery ends: it succeeds, fails or is deleted with its endpoint,
\* although crashes and failed writes leave attempts unrecorded.
DeliveryEnds == status = "pending" ~> status # "pending"
=============================================================================
