----------------------------- MODULE PentestRun -----------------------------
(***************************************************************************)
(* One pentest run, from its row in Postgres to the workstation that scans *)
(* for it: the reconciler loop of every replica (PentestReconciler), the   *)
(* operator's Cancel (PentestService), and the scan service (StrixService).*)
(*                                                                         *)
(* A reconciler claims the row, works on its own copy of it, calls the     *)
(* workstation, and writes the whole copy back: Update and Finalize look   *)
(* at the id only. A start_scan the replica no longer waits for goes on at *)
(* the workstation. next_poll_at is the ticks left until it; the origin of *)
(* the runtime limit (started_at, or created_at) is the ticks since it.    *)
(***************************************************************************)
EXTENDS StrixService

CONSTANTS
    Replicas,           \* servers running the reconciler
    EngagementRetries,  \* STRIX_ENGAGEMENT_RETRIES
    MaxPollAttempts,    \* reconcilerMaxPollAttempts
    Backoff,            \* reconcilerBackoff, in ticks
    MaxBackoff,         \* reconcilerMaxGatewayBackoff
    Interval,           \* STRIX_POLL_INTERVAL; it is the lease, too
    Timeout,            \* STRIX_TIMEOUT
    QueueDelay,         \* ticks a claimed run may wait for its batch
    RuntimeCap,         \* runtimeCap of the run's scan mode
    MaxFailures,        \* bound: crashes and database errors
    MaxCancels          \* bound: calls of Cancel

ASSUME RunAssumption ==
    /\ EngagementRetries \in Nat /\ Refs = 0..EngagementRetries
    /\ MaxPollAttempts \in Nat \ {0}
    /\ Backoff \in Nat /\ MaxBackoff \in Nat /\ Backoff <= MaxBackoff
    /\ Interval \in Nat /\ Timeout \in Nat /\ QueueDelay \in Nat /\ RuntimeCap \in Nat
    /\ MaxFailures \in Nat /\ MaxCancels \in Nat

VARIABLES
    row,        \* pentest_runs
    wait,       \* ticks until next_poll_at, NoTime when NULL
    findings,   \* times the findings of a scan's result were inserted
    card,       \* the task's board column
    pc, copy,   \* where each replica is, and its copy of the row
    next,       \* the delay scheduleNext gave the copy; NoTime: Finalize
    found,      \* whether the copy's verdict is a result, with its findings
    left,       \* ticks it has left for the run
    call,       \* the start_scan handler it waits for
    cpc, ccopy, \* the operator's Cancel
    failures, cancels

rowVars == <<row, wait, findings, card>>
workVars == <<pc, copy, next, found, left, call>>
cancelVars == <<cpc, ccopy, cancels>>
vars == <<serviceVars, rowVars, workVars, cancelVars, failures>>

NoTime == -1
NoCall == 0
Live == {"queued", "starting", "running"}
Verdicts == {"completed", "failed", "budget_exceeded"}
Ended == Verdicts \cup {"cancelled"}
Rows == [status : Live \cup Ended, remote : Scans \cup {NoScan},
         retries : 0..EngagementRetries, attempts : 0..MaxPollAttempts,
         origin : {"created_at", "started_at"}, age : 0..(RuntimeCap + 1)]

Row(status, remote, retries, attempts, origin, age) ==
    [status |-> status, remote |-> remote, retries |-> retries,
     attempts |-> attempts, origin |-> origin, age |-> age]

\* The row a tick later; ages beyond the limit are not told apart.
Older(c) ==
    LET age == IF c.age > RuntimeCap THEN c.age ELSE c.age + 1
    IN  Row(c.status, c.remote, c.retries, c.attempts, c.origin, age)

\* The row CreateRun inserts: queued, and due at once.
NewRow == Row("queued", NoScan, 0, 0, "created_at", 0)

Init ==
    /\ ServiceInit
    /\ row = NewRow /\ wait = 0
    /\ findings = 0 /\ card = "in_progress"
    /\ pc = [r \in Replicas |-> "idle"]
    /\ copy = [r \in Replicas |-> NewRow]
    /\ next = [r \in Replicas |-> NoTime]
    /\ found = [r \in Replicas |-> FALSE]
    /\ left = [r \in Replicas |-> 0]
    /\ call = [r \in Replicas |-> NoCall]
    /\ cpc = "idle" /\ ccopy = NewRow
    /\ failures = 0 /\ cancels = 0

Failure == failures < MaxFailures /\ failures' = failures + 1

(***************************************************************************)
(* The reconciler: claim, call the workstation, write.                     *)
(***************************************************************************)
\* Mutant: the lease is not looked at.
DueLeased == row.status \in Live

\* The WHERE clause of ClaimDueRuns; NULL counts as due.
Due == row.status \in Live /\ wait <= 0

\* ClaimDueRuns: the row is leased for an interval.
ClaimDueRuns(r) ==
    /\ pc[r] = "idle"
    /\ Due
    /\ wait' = Interval
    /\ pc' = [pc EXCEPT ![r] = "advance"]
    /\ copy' = [copy EXCEPT ![r] = row]
    /\ left' = [left EXCEPT ![r] = QueueDelay + Timeout]
    /\ UNCHANGED <<serviceVars, row, findings, card, next, found, call, cancelVars, failures>>

\* The call is over: replica r will write c, due again after d, with the
\* findings of a result or without.
Settle(r, c, d, result) ==
    /\ pc' = [pc EXCEPT ![r] = "write"]
    /\ copy' = [copy EXCEPT ![r] = c]
    /\ next' = [next EXCEPT ![r] = d]
    /\ found' = [found EXCEPT ![r] = result]
    /\ call' = [call EXCEPT ![r] = NoCall]
    /\ UNCHANGED <<rowVars, left, cancelVars, failures>>

Decide(r, c, d) == Settle(r, c, d, FALSE)

\* gatewayBackoff doubles from Backoff up to its cap.
GatewayBackoffs == Backoff..MaxBackoff

\* PollAttempts++, up to the value it is compared with.
Failed(c) ==
    LET more == IF c.attempts < MaxPollAttempts THEN c.attempts + 1 ELSE c.attempts
    IN  Row(c.status, c.remote, c.retries, more, c.origin, c.age)

\* The copy with another status.
Becomes(c, s) == [c EXCEPT !.status = s]

\* transportError: a scan in flight is polled until the runtime limit, a run
\* that never started fails after MaxPollAttempts.
TransportError(r, c) ==
    LET f == Failed(c) IN
    \/ f.remote # NoScan /\ \E d \in GatewayBackoffs : Decide(r, f, d)
    \/ /\ f.remote = NoScan /\ f.attempts < MaxPollAttempts
       /\ Decide(r, f, Backoff)
    \/ /\ f.remote = NoScan /\ f.attempts >= MaxPollAttempts
       /\ Decide(r, Becomes(f, "failed"), NoTime)

\* handleStartError of a gateway error, or of one that is neither scope, busy
\* nor gateway.
StartLost(r) ==
    \/ \E d \in GatewayBackoffs :
          Decide(r, Becomes(Failed(copy[r]), "queued"), d)
    \/ TransportError(r, copy[r])

\* startRun after an answer that names run i.
StartDone(r, i) ==
    LET c == copy[r]
        age == IF c.origin = "started_at" THEN c.age ELSE 0
    IN  Decide(r, Row("starting", i, c.retries, 0, "started_at", age), 0)

\* runRef: the run's id, suffixed by the number of the engagement retry.
RunRef(c) == c.retries

\* Mutant: no runtime limit.
ExceededNever(c) == FALSE

\* exceededRuntime.
ExceededRuntime(c) == c.age > RuntimeCap

\* failRuntime: the workstation is told to stop, best effort.
FailRuntime(r) ==
    /\ pc[r] = "advance"
    /\ ExceededRuntime(copy[r])
    /\ \/ copy[r].remote # NoScan /\ stop' = StopAfterCancel(copy[r].remote)
       \/ UNCHANGED stop
    /\ Decide(r, Becomes(copy[r], "failed"), NoTime)
    /\ UNCHANGED <<scan, refOf, byRef, asks, restarts>>

\* startRun: the request reaches start_scan, which looks the ref up; or it or
\* its answer is lost.
StartRun(r) ==
    /\ pc[r] = "advance"
    /\ ~ExceededRuntime(copy[r])
    /\ copy[r].remote = NoScan
    /\ LET known == Known(RunRef(copy[r])) IN
       \/ StartLost(r) /\ UNCHANGED serviceVars
       \/ known # NoScan /\ StartDone(r, known) /\ UNCHANGED serviceVars
       \/ /\ known = NoScan
          /\ pc' = [pc EXCEPT ![r] = "enforce"]
          /\ \E q \in Requests :
                Ask(RunRef(copy[r]), q) /\ call' = [call EXCEPT ![r] = q]
          /\ UNCHANGED <<rowVars, copy, next, found, left, cancelVars, failures>>

\* start_scan resumes once the scope is checked: 403, or the run is created
\* and queued or refused with a 503. The answer may be lost.
Enforced(r) ==
    /\ pc[r] = "enforce"
    /\ call[r] # NoCall
    /\ \/ /\ Refuse(call[r])
          /\ Decide(r, Becomes(copy[r], "failed"), NoTime)
       \/ \E i \in Scans :
             /\ CreateScan(call[r], i, "queued")
             /\ StartDone(r, i) \/ StartLost(r)
       \/ \E i \in Scans :
             /\ CreateScan(call[r], i, "busy")
             /\ \/ Decide(r, Becomes(copy[r], "queued"), Backoff)
                \/ StartLost(r)

\* The request times out or its connection breaks. Its handler is not told.
GiveUp(r) ==
    /\ pc[r] = "enforce"
    /\ StartLost(r)
    /\ UNCHANGED serviceVars

\* start_scan resumes although nobody waits for its answer any more.
EnforcedAlone(q) ==
    /\ \A r \in Replicas : call[r] # q
    /\ Refuse(q) \/ \E i \in Scans, s \in {"queued", "busy"} : CreateScan(q, i, s)
    /\ UNCHANGED <<rowVars, workVars, cancelVars, failures>>

\* requeueForEngagement: a fresh scan under a new ref.
Requeued(c) == Row("queued", NoScan, c.retries + 1, 0, "started_at", 0)

\* Mutant: one retry too many.
RetriesOffByOne(c, s) == s = "hollow" /\ c.retries <= EngagementRetries

\* shouldRetryEngagement.
RetriesEngagement(c, s) == s = "hollow" /\ c.retries < EngagementRetries

\* The run status of a terminal scan status.
VerdictOf(s) == IF s \in {"hollow", "busy"} THEN "failed" ELSE s

\* nonTerminalStatus of a clean poll; the transport counter is reset.
Reached(c, s) ==
    Row(IF s = "running" THEN s ELSE "starting", c.remote, c.retries, 0, c.origin, c.age)

\* pollRun: Status, and what its answer makes of the copy.
PollRun(r) ==
    /\ pc[r] = "advance"
    /\ ~ExceededRuntime(copy[r])
    /\ copy[r].remote # NoScan
    /\ LET c == copy[r]
           s == scan[c.remote]
       IN  \/ TransportError(r, c)
           \/ /\ s \in Pending
              /\ Decide(r, Reached(c, s), Interval)
           \/ s \in Terminal /\ RetriesEngagement(c, s) /\ Decide(r, Requeued(c), 0)
           \/ /\ s \in Terminal /\ ~RetriesEngagement(c, s)
              /\ Settle(r, Becomes(c, VerdictOf(s)), NoTime, TRUE)
    /\ UNCHANGED serviceVars

\* Replica r is through with the run.
Leave(r) ==
    /\ pc' = [pc EXCEPT ![r] = "idle"]
    /\ copy' = [copy EXCEPT ![r] = NewRow]
    /\ next' = [next EXCEPT ![r] = NoTime]
    /\ found' = [found EXCEPT ![r] = FALSE]
    /\ left' = [left EXCEPT ![r] = 0]
    /\ call' = [call EXCEPT ![r] = NoCall]

\* Mutant: the findings are not part of the transaction.
FinalizeBare(r) == row' = copy[r] /\ wait' = NoTime /\ UNCHANGED findings

\* Finalize: the terminal row and the findings, if the verdict came with any,
\* in one transaction.
Finalize(r) ==
    /\ row' = copy[r] /\ wait' = NoTime
    /\ findings' = IF found[r] THEN findings + 1 ELSE findings

\* Update: the whole row, whatever it is by now.
Update(r) == row' = copy[r] /\ wait' = next[r] /\ UNCHANGED findings

\* The end of advance. An error of the database leaves the lease to expire.
Write(r) ==
    /\ pc[r] = "write"
    /\ \/ /\ next[r] # NoTime
          /\ Update(r) /\ Leave(r) /\ UNCHANGED failures
       \/ /\ next[r] = NoTime
          /\ Finalize(r)
          /\ IF copy[r].status = "completed"
             THEN pc' = [pc EXCEPT ![r] = "sync"] /\ UNCHANGED <<copy, next, found, left, call>>
             ELSE Leave(r)
          /\ UNCHANGED failures
       \/ Failure /\ Leave(r) /\ UNCHANGED <<row, wait, findings>>
    /\ UNCHANGED <<serviceVars, card, cancelVars>>

\* syncSpecialistBoard, after the run is finalised.
SyncBoard(r) ==
    /\ pc[r] = "sync"
    /\ card' = "done"
    /\ Leave(r)
    /\ UNCHANGED <<serviceVars, row, wait, findings, cancelVars, failures>>

(***************************************************************************)
(* PentestService.Cancel.                                                  *)
(***************************************************************************)
\* Reads the row, refuses an ended one, and asks the workstation to stop.
Cancel ==
    /\ cpc = "idle"
    /\ cancels < MaxCancels /\ cancels' = cancels + 1
    /\ row.status \in Live
    /\ cpc' = "write" /\ ccopy' = row
    /\ \/ row.remote # NoScan /\ stop' = StopAfterCancel(row.remote)
       \/ UNCHANGED stop
    /\ UNCHANGED <<scan, refOf, byRef, asks, restarts, rowVars, workVars, failures>>

\* Update with the row it has read, now cancelled and never due.
CancelWrite ==
    /\ cpc = "write"
    /\ cpc' = "idle" /\ ccopy' = NewRow
    /\ row' = Becomes(ccopy, "cancelled") /\ wait' = NoTime
    /\ UNCHANGED <<serviceVars, findings, card, workVars, cancels, failures>>

(***************************************************************************)
(* The environment.                                                        *)
(***************************************************************************)
\* A replica dies; the handler of its request does not.
Crash(r) ==
    /\ pc[r] # "idle"
    /\ Failure
    /\ Leave(r)
    /\ UNCHANGED <<serviceVars, rowVars, cancelVars>>

\* The workstation restarts: its handlers' connections are closed.
Reboot ==
    /\ Restart
    /\ call' = [r \in Replicas |-> NoCall]
    /\ UNCHANGED <<rowVars, pc, copy, next, found, left, cancelVars, failures>>

\* Time passes, but not beyond the time a replica has for the run, or a scope
\* check may take.
Tick ==
    /\ \A r \in Replicas : pc[r] # "idle" => left[r] > 0
    /\ \A q \in Requests : Asked(q) => asks[q].left > 0
    /\ asks' = [q \in Requests |-> IF Asked(q) THEN [asks[q] EXCEPT !.left = @ - 1] ELSE asks[q]]
    /\ wait' = IF wait > 0 THEN wait - 1 ELSE wait
    /\ row' = IF row.status \in Live THEN Older(row) ELSE row
    /\ copy' = [r \in Replicas |-> IF pc[r] = "idle" THEN copy[r] ELSE Older(copy[r])]
    /\ ccopy' = IF cpc = "idle" THEN ccopy ELSE Older(ccopy)
    /\ left' = [r \in Replicas |-> IF pc[r] = "idle" THEN left[r] ELSE left[r] - 1]
    /\ <<asks, wait, row, copy, ccopy, left>>' # <<asks, wait, row, copy, ccopy, left>>
    /\ UNCHANGED <<scan, refOf, byRef, stop, restarts, findings, card, pc, next, found, call,
                   cpc, cancels, failures>>

ReplicaStep(r) ==
    \/ ClaimDueRuns(r) \/ FailRuntime(r) \/ StartRun(r) \/ Enforced(r) \/ GiveUp(r)
    \/ PollRun(r) \/ Write(r) \/ SyncBoard(r)

Next ==
    \/ \E r \in Replicas : ReplicaStep(r) \/ Crash(r)
    \/ \E q \in Requests : EnforcedAlone(q)
    \/ Cancel \/ CancelWrite
    \/ RunnerStep /\ UNCHANGED <<rowVars, workVars, cancelVars, failures>>
    \/ Reboot
    \/ Tick

Spec == Init /\ [][Next]_vars

\* The reconciler tickers fire, HTTP calls and database writes return, a scope
\* check ends and the clock runs. Nothing else is assumed of the workstation:
\* its answers may all be lost, and the runtime limit is for that case.
Fairness ==
    /\ \A r \in Replicas : WF_vars(ReplicaStep(r))
    /\ \A q \in Requests : WF_vars(EnforcedAlone(q))
    /\ WF_vars(CancelWrite)
    /\ WF_vars(Tick)

FairSpec == Spec /\ Fairness

(***************************************************************************)
(* Properties. The safety properties need the lease to outlast the batch   *)
(* and a scope check begun in it, and the backoff to outlast the check:    *)
(* QueueDelay + Timeout + ScopeTime < Interval, ScopeTime < Backoff. A     *)
(* check that takes longer finishes beside the retry, which has looked the *)
(* ref up in vain, and buys a second scan.                                 *)
(***************************************************************************)
\* Every variable stays within its type: in particular a run never uses more
\* than EngagementRetries retries.
TypeOK ==
    /\ ServiceTypeOK
    /\ row \in Rows /\ wait \in {NoTime} \cup Nat
    /\ findings \in Nat /\ card \in {"in_progress", "done"}
    /\ pc \in [Replicas -> {"idle", "advance", "enforce", "write", "sync"}]
    /\ copy \in [Replicas -> Rows] /\ next \in [Replicas -> {NoTime} \cup Nat]
    /\ found \in [Replicas -> BOOLEAN]
    /\ left \in [Replicas -> Nat] /\ call \in [Replicas -> Requests \cup {NoCall}]
    /\ cpc \in {"idle", "write"} /\ ccopy \in Rows
    /\ failures \in 0..MaxFailures /\ cancels \in 0..MaxCancels

\* "A retried Start after a dropped response returns the existing scan instead
\* of buying a second hours-long one": no run_ref ever names two scans, so a
\* run costs at most one scan more than it has engagement retries, whatever
\* answers are lost, replicas crash or operators cancel, although a start_scan
\* whose caller is gone goes on and creates its scan without another look-up.
OneScanPerRef ==
    \A i, j \in Scans : refOf[i] # NoRef /\ refOf[i] = refOf[j] => i = j

\* The findings of a run are stored once, whatever the verdict of the result
\* they come with: those without an external id are not deduplicated by
\* Finalize, so no result may be finalised twice.
FindingsOnce == findings <= 1

\* A completed run has its findings, its card is done only then, and once the
\* findings of a result are stored nothing of the run is left queued, running
\* or about to start on the workstation.
CompletedIsQuiet ==
    /\ row.status = "completed" \/ card = "done" => findings > 0
    /\ findings > 0 => /\ \A i \in Scans : scan[i] \notin Pending
                       /\ \A q \in Requests : ~Asked(q)

\* Only an operator's Cancel that had read the run while it was live can still
\* replace its verdict; no reconciler does.
VerdictIsFinal ==
    [][row.status \in Verdicts => row'.status \in {row.status, "cancelled"}]_vars

\* The run as a job: open while it is live, done with its verdict, dropped
\* when it is cancelled. A cancel that finds a replica at work takes effect
\* when that replica lets go without a write of its own.
Holders == {r \in Replicas : pc[r] \in {"advance", "enforce", "write"}}
JobState ==
    IF row.status \in Verdicts THEN "done"
    ELSE IF row.status = "cancelled" /\ Holders = {} THEN "dropped" ELSE "open"
Job == INSTANCE LeasedJob WITH Workers <- Replicas, job <- JobState, holders <- Holders

\* Claims, leases and whole-row writes implement a leased job: a run is only
\* taken up when no replica is at work on it, only its holder gives it a
\* verdict, and neither a verdict nor a cancel written while nobody was at
\* work is ever followed by another claim.
RunIsLeasedJob == Job!Spec

\* "a run the service never finished must not be polled until the heat death
\* of the universe": every run ends and stays ended, even if the workstation
\* never answers again.
RunEnds == <>[](row.status \in Ended)

\* A full queue is "not a reason to burn the run: keep it queued and try
\* again". Violated: the refused run keeps its ref, so the retry is answered
\* with it and finds it failed.
BusyIsRetried ==
    row.status = "failed" /\ row.remote # NoScan => scan[row.remote] # "busy"
=============================================================================
