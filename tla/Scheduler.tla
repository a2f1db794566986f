------------------------------ MODULE Scheduler ------------------------------
(***************************************************************************)
(* One scheduled task, the scheduler of every API replica (Runner.tick,    *)
(* claim, runOne, scheduleNext) and a user who edits, pauses, resumes or   *)
(* deletes the task.                                                       *)
(*                                                                         *)
(* next_run_at is the ticks left until it, 0 when it is due. A cron        *)
(* expression that parses but never fires (30 February) has the zero time  *)
(* as its next run, which is always due and the same at every computation. *)
(* claim compares next_run_at with the value its replica listed; the other *)
(* values the code writes lie in the future of that listing, so the        *)
(* comparison holds while nobody has written the column since, or when the *)
(* zero time was read and written: "fresh" records that. run_count         *)
(* saturates at max_runs, and its copies one below: scheduleNext asks only *)
(* whether the count it was started with, and one more, has reached it.    *)
(***************************************************************************)
EXTENDS Integers, FiniteSets

CONSTANTS
    Replicas,     \* API processes, each with a Runner
    Dispatches,   \* bound: runOne goroutines at a time
    Kinds,        \* the schedule types to consider
    Caps,         \* the values of max_runs to consider, 0 for NULL
    Interval,     \* bound: ticks until the next run of a recurring task
    MaxFailures,  \* bound: crashes, panics and database errors
    MaxEdits      \* bound: edits by the user

ASSUME KindsAssumption == Kinds \subseteq {"once", "cron", "interval"}
ASSUME BoundsAssumption ==
    /\ Caps \subseteq Nat /\ MaxFailures \in Nat /\ MaxEdits \in Nat
    /\ Interval \in Nat \ {0}

VARIABLES
    kind,       \* schedule_type
    status,     \* scheduled_tasks.status ("deleted": no row any more)
    wait,       \* ticks until next_run_at, or ZeroTime
    maxRuns,    \* max_runs
    runCount,   \* run_count
    sched,      \* the schedule the row holds: a "usable" one, one that no next
                \* run can be computed from ("broken"), or a cron expression
                \* that "never" fires
    listed,     \* the replicas between ListDueTasks and claim
    fresh,      \* those of them whose reading of next_run_at is current
    seen,       \* the row each of them has read
    pc,         \* each runOne goroutine
    snap,       \* the row it was started with
    editor,     \* the user, "idle" or between the two writes of Update, and
                \* the next_run_at the second one has to write
    edits,      \* edits so far
    failures    \* crashes, panics and database errors so far

rowVars == <<kind, maxRuns, status, wait, runCount, sched>>
tickVars == <<listed, fresh, seen>>
goVars == <<pc, snap>>
vars == <<rowVars, tickVars, goVars, editor, edits, failures>>

Statuses == {"active", "paused", "completed", "deleted"}
Schedules == {"usable", "broken", "never"}
GoPCs == {"idle", "dispatch", "ran", "next"}
Times == {"later", "zero", "any"}
Rows == [count : Nat, sched : Schedules, zero : BOOLEAN]
NoRow == [count |-> 0, sched |-> "usable", zero |-> FALSE]

\* The zero time.Time, long past.
ZeroTime == -1
Due == wait <= 0

(***************************************************************************)
(* Helpers.                                                                *)
(***************************************************************************)
Failure == failures < MaxFailures /\ failures' = failures + 1

\* Mutant: a recurring task's next run may be now.
NextRunsFromNow(row) ==
    CASE kind = "once" \/ row.sched = "broken" -> {}
      [] kind # "once" /\ row.sched = "never" -> {ZeroTime}
      [] kind # "once" /\ row.sched = "usable" -> 0..Interval

\* computeNextRun: the possible next runs, none for a one-shot task or an
\* unusable expression.
NextRuns(row) ==
    CASE kind = "once" \/ row.sched = "broken" -> {}
      [] kind # "once" /\ row.sched = "never" -> {ZeroTime}
      [] kind # "once" /\ row.sched = "usable" -> 1..Interval

\* UPDATE ... SET next_run_at = $2: every reading of it is stale afterwards,
\* unless the zero time is written where it was read.
SetNextRunAt(ticks, readers) ==
    IF status = "deleted" THEN wait' = wait /\ fresh' = fresh \cap readers
    ELSE /\ wait' = ticks
         /\ fresh' = {r \in readers : ticks = ZeroTime /\ seen[r].zero}

\* UpdateTask with a status.
UpdateStatus(s) == status' = IF status = "deleted" THEN status ELSE s

\* A runOne goroutine returns.
Return(d) ==
    /\ pc' = [pc EXCEPT ![d] = "idle"]
    /\ snap' = [snap EXCEPT ![d] = NoRow]

Init ==
    /\ kind \in Kinds /\ maxRuns \in Caps
    /\ status = "active" /\ runCount = 0
    /\ \/ sched = "usable" /\ wait \in 0..Interval
       \/ kind = "cron" /\ sched = "never" /\ wait = ZeroTime
    /\ listed = {} /\ fresh = {}
    /\ seen = [r \in Replicas |-> NoRow]
    /\ pc = [d \in Dispatches |-> "idle"]
    /\ snap = [d \in Dispatches |-> NoRow]
    /\ editor = "idle" /\ edits = 0 /\ failures = 0

(***************************************************************************)
(* Runner.tick.                                                            *)
(***************************************************************************)
\* run_count as a copy of the row has it. Code reads a copy only in RunCount + 1 >= MaxRuns
\* of scheduleNext, so the counts from MaxRuns - 1 on are one value.
CountRead == IF runCount > 0 /\ runCount = maxRuns THEN runCount - 1 ELSE runCount

\* ListDueTasks returns the task.
ListDue(r) ==
    /\ r \notin listed
    /\ status = "active" /\ Due
    /\ listed' = listed \cup {r}
    /\ fresh' = fresh \cup {r}
    /\ seen' = [seen EXCEPT ![r] = [count |-> CountRead, sched |-> sched, zero |-> wait = ZeroTime]]
    /\ UNCHANGED <<rowVars, goVars, editor, edits, failures>>

\* Mutant: no comparison of next_run_at.
ClaimMatchesAnyTime(r) == status = "active"

\* The WHERE clause of ClaimTask.
ClaimMatches(r) == status = "active" /\ r \in fresh

\* The claim's next_run_at: the next run, or one tick when there is none.
Hold(r) ==
    \/ \E ticks \in NextRuns(seen[r]) : SetNextRunAt(ticks, listed \ {r})
    \/ NextRuns(seen[r]) = {} /\ SetNextRunAt(1, listed \ {r})

\* go r.runOne(ctx, tasks[i]), which has no use for next_run_at.
Dispatch(r) ==
    \E d \in Dispatches :
        /\ pc[d] = "idle"
        /\ pc' = [pc EXCEPT ![d] = "dispatch"]
        /\ snap' = [snap EXCEPT ![d] = [seen[r] EXCEPT !.zero = FALSE]]

\* claim, then runOne. The replica that loses the update skips the task; a
\* database error dispatches it, whether the update took effect or not.
Claim(r) ==
    /\ r \in listed
    /\ listed' = listed \ {r}
    /\ seen' = [seen EXCEPT ![r] = NoRow]
    /\ \/ ClaimMatches(r) /\ Hold(r) /\ Dispatch(r) /\ UNCHANGED failures
       \/ /\ ~ClaimMatches(r)
          /\ fresh' = fresh \ {r}
          /\ UNCHANGED <<wait, goVars, failures>>
       \/ /\ Failure /\ Dispatch(r)
          /\ \/ ClaimMatches(r) /\ Hold(r)
             \/ fresh' = fresh \ {r} /\ UNCHANGED wait
    /\ UNCHANGED <<kind, maxRuns, status, runCount, sched, editor, edits>>

(***************************************************************************)
(* runOne.                                                                 *)
(***************************************************************************)
\* Mutant: the count is not written back.
CountRunNever == UNCHANGED runCount

\* run_count = run_count + 1.
CountRun == runCount' = IF runCount < maxRuns THEN runCount + 1 ELSE runCount

\* The task runs for as long as it takes, its run is recorded and counted, an
\* error of IncrementRunCount being only logged.
RunTask(d) ==
    /\ pc[d] = "dispatch"
    /\ pc' = [pc EXCEPT ![d] = "ran"]
    /\ \/ CountRun /\ UNCHANGED failures
       \/ Failure /\ UNCHANGED runCount
    /\ UNCHANGED <<kind, maxRuns, status, wait, sched, tickVars, snap, editor, edits>>

\* The run ended with errTaskMisconfigured: pauseMisconfigured. When UpdateTask
\* finds no row or fails, before its update or when it reads the row back, the
\* task is scheduled on.
PauseMisconfigured(d) ==
    /\ pc[d] = "ran"
    /\ \/ /\ status # "deleted"
          /\ UpdateStatus("paused") /\ Return(d) /\ UNCHANGED failures
       \/ /\ \/ status = "deleted" /\ UNCHANGED <<status, failures>>
             \/ Failure /\ (UpdateStatus("paused") \/ UNCHANGED status)
          /\ pc' = [pc EXCEPT ![d] = "next"]
          /\ UNCHANGED snap
    /\ UNCHANGED <<kind, maxRuns, wait, runCount, sched, tickVars, editor, edits>>

\* Mutant: the run that has just been counted is counted twice.
LastRunEarly(d) == maxRuns > 0 /\ snap[d].count + 2 >= maxRuns

\* max_runs as scheduleNext tests it, on the row the run was started with.
LastRun(d) == maxRuns > 0 /\ snap[d].count + 1 >= maxRuns

\* Mutant: a task without a next run gets a status nothing resumes from.
AfterRunFailed(d) ==
    IF LastRun(d) \/ kind = "once" THEN "completed"
    ELSE IF snap[d].sched = "broken" THEN "failed" ELSE "scheduled"

\* What scheduleNext does with the task.
AfterRun(d) ==
    IF LastRun(d) \/ kind = "once" THEN "completed"
    ELSE IF snap[d].sched = "broken" THEN "paused"
    ELSE "scheduled"

\* The run ended in any other way, or could not be paused: scheduleNext, its
\* update failing or not. The goroutine returns.
ScheduleNext(d) ==
    /\ pc[d] \in {"ran", "next"}
    /\ Return(d)
    /\ \/ /\ AfterRun(d) = "scheduled"
          /\ \E ticks \in NextRuns(snap[d]) : SetNextRunAt(ticks, listed)
          /\ UNCHANGED <<status, failures>>
       \/ /\ AfterRun(d) # "scheduled"
          /\ UpdateStatus(AfterRun(d))
          /\ UNCHANGED <<wait, fresh, failures>>
       \/ Failure /\ UNCHANGED <<status, wait, fresh>>
    /\ UNCHANGED <<kind, maxRuns, runCount, sched, listed, seen, editor, edits>>

\* The process of a run dies, or the run panics: nothing is recorded.
Die(d) ==
    /\ pc[d] # "idle"
    /\ Failure
    /\ Return(d)
    /\ UNCHANGED <<rowVars, tickVars, editor, edits>>

(***************************************************************************)
(* SchedulerHandler.                                                       *)
(***************************************************************************)
Edit ==
    /\ editor = "idle" /\ edits < MaxEdits /\ status # "deleted"
    /\ edits' = edits + 1

\* Update with a status: pause, resume or complete.
EditStatus(s) ==
    /\ Edit
    /\ UpdateStatus(s)
    /\ UNCHANGED <<kind, maxRuns, wait, runCount, sched, tickVars, goVars, editor, failures>>

\* The requests Update accepts, as the schedule the row has afterwards and the
\* next_run_at computed from the request, "idle" for none. A cron expression
\* fires or not; an empty one is stored as it is, with interval_seconds or
\* without; interval_seconds and, for a one-shot task, run_at come alone. Only
\* a cron task reads the expression.
Requests ==
    CASE kind = "once" -> {<<sched, "any">>}
      [] kind = "interval" -> {<<sched, "later">>, <<sched, "zero">>}
      [] kind = "cron" -> {<<"usable", "later">>, <<"never", "zero">>, <<"broken", "idle">>,
                           <<"broken", "later">>, <<sched, "later">>}

\* Update with a new schedule: the row first. When the row cannot be read back
\* next_run_at is not moved.
EditSchedule ==
    /\ Edit
    /\ \E q \in Requests :
        /\ sched' = q[1]
        /\ \/ editor' = q[2] /\ UNCHANGED failures
           \/ Failure /\ UNCHANGED editor
    /\ UNCHANGED <<kind, maxRuns, status, wait, runCount, tickVars, goVars>>

\* Update then moves next_run_at; a one-shot task may be moved to any time,
\* back to the very time a replica has listed too.
Reschedule ==
    /\ editor # "idle"
    /\ editor' = "idle"
    /\ \/ /\ \/ editor \in {"later", "any"} /\ \E ticks \in 1..Interval : SetNextRunAt(ticks, listed)
             \/ editor \in {"zero", "any"} /\ SetNextRunAt(ZeroTime, listed)
             \/ editor = "any" /\ wait' = 0 /\ fresh' \in SUBSET {r \in listed : ~seen[r].zero}
          /\ UNCHANGED failures
       \/ Failure /\ UNCHANGED <<wait, fresh>>
    /\ UNCHANGED <<kind, maxRuns, status, runCount, sched, listed, seen, goVars, edits>>

\* Delete.
Delete ==
    /\ Edit
    /\ status' = "deleted"
    /\ UNCHANGED <<kind, maxRuns, wait, runCount, sched, tickVars, goVars, editor, failures>>

Tick ==
    /\ wait > 0
    /\ wait' = wait - 1
    /\ UNCHANGED <<kind, maxRuns, status, runCount, sched, tickVars, goVars, editor, edits,
                   failures>>

RunnerStep(r) == ListDue(r) \/ Claim(r)

GoStep(d) ==
    RunTask(d) \/ PauseMisconfigured(d) \/ ScheduleNext(d)

Next ==
    \/ \E r \in Replicas : RunnerStep(r)
    \/ \E d \in Dispatches : GoStep(d) \/ Die(d)
    \/ \E s \in {"active", "paused", "completed"} : EditStatus(s)
    \/ EditSchedule \/ Reschedule \/ Delete
    \/ Tick

Spec == Init /\ [][Next]_vars

\* The ticker fires, goroutines are scheduled, a dispatched task returns, the
\* clock runs and a request handler finishes; the user owes nothing more.
Fairness ==
    /\ \A r \in Replicas : WF_vars(RunnerStep(r))
    /\ \A d \in Dispatches : WF_vars(GoStep(d))
    /\ WF_vars(Reschedule)
    /\ WF_vars(Tick)

FairSpec == Spec /\ Fairness

(***************************************************************************)
(* Properties.                                                             *)
(***************************************************************************)
\* Every variable stays within its type, and only a replica that has listed
\* the task holds a current reading.
TypeOK ==
    /\ kind \in Kinds /\ maxRuns \in Caps /\ status \in Statuses
    /\ wait \in ZeroTime..Interval
    /\ runCount \in 0..maxRuns
    /\ sched \in Schedules
    /\ listed \subseteq Replicas /\ fresh \subseteq listed
    /\ seen \in [Replicas -> Rows]
    /\ pc \in [Dispatches -> GoPCs]
    /\ snap \in [Dispatches -> Rows]
    /\ editor \in Times \cup {"idle"}
    /\ edits \in 0..MaxEdits /\ failures \in 0..MaxFailures

\* The compare-and-set of claim: unless the claim met a database error, a
\* task is dispatched only when its row is active and due at that moment, and
\* in the same step it is put off and every other listing of it made stale:
\* two replicas that listed it together never both dispatch it, and a task
\* that was paused, deleted or moved since the listing is not dispatched. Only
\* a run started from a cron expression that never fires is not put off: its
\* next run is the zero time again, and every replica dispatches it.
DispatchOnlyDue ==
    [][\A d \in Dispatches :
        pc[d] = "idle" /\ pc'[d] = "dispatch" /\ failures' = failures =>
            /\ status = "active" /\ Due
            /\ (wait' > 0 /\ fresh' = {}) \/ snap'[d].sched = "never"]_vars

\* max_runs is not cut short: scheduleNext completes a recurring task, from
\* the count its run was started with, only when the row counts max_runs
\* runs, or would if no failure had left one of them uncounted. Overlapping
\* runs read counts that are too low, never too high.
CompletedAtCap ==
    [][status # "completed" /\ status' = "completed" /\ edits' = edits /\ kind # "once" =>
        maxRuns > 0 /\ runCount + failures >= maxRuns]_vars

\* A due task is taken up: no run that is lost, panics, hangs or reschedules
\* the task late keeps an active task due forever, unless its cron expression
\* never fires; then it is dispatched again and again.
DueIsTaken ==
    status = "active" /\ Due ~>
        \/ status # "active" \/ ~Due
        \/ sched = "never" /\ \E d \in Dispatches : pc[d] = "dispatch"

\* A one-shot task, and one with max_runs, stops being active: the first
\* although its run may be lost, the second although its runs overlap and
\* count from stale rows.
BoundedStops == kind = "once" \/ maxRuns > 0 ~> status # "active"
=============================================================================
