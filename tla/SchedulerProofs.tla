--------------------------- MODULE SchedulerProofs ---------------------------
(***************************************************************************)
(* Proofs about Scheduler, for any number of replicas and of runs at a     *)
(* time, any max_runs and interval, and any number of failures and edits.  *)
(***************************************************************************)
EXTENDS Scheduler, TLAPS

USE DEF Failure, Due, ZeroTime

\* A replica whose reading of next_run_at is current has read a due task:
\* whoever writes the column makes the reading stale, or keeps it due.
FreshIsDue == fresh # {} => Due

IndInv == TypeOK /\ FreshIsDue

\* The initial state is typed and nobody has listed the task.
LEMMA InitIndInv == Init => IndInv
    BY KindsAssumption, BoundsAssumption DEF Init, IndInv, FreshIsDue, TypeOK, Statuses, Schedules,
        GoPCs, Rows, NoRow

\* The row a goroutine is given when it has none is a row.
LEMMA NoRowIsRow == NoRow \in Rows
    BY DEF NoRow, Rows, Schedules

\* A goroutine that returns keeps the types of its locals.
LEMMA ReturnTyping ==
    ASSUME TypeOK, NEW d \in Dispatches, Return(d)
    PROVE  /\ pc' \in [Dispatches -> GoPCs] /\ snap' \in [Dispatches -> Rows]
    BY NoRowIsRow DEF TypeOK, Return, GoPCs

\* A write of next_run_at keeps the invariant of the row.
LEMMA WriteKeeps ==
    ASSUME IndInv, NEW ticks \in ZeroTime..Interval, NEW readers \in SUBSET listed,
           SetNextRunAt(ticks, readers)
    PROVE  /\ wait' \in ZeroTime..Interval
           /\ fresh' \subseteq readers /\ FreshIsDue'
    BY DEF IndInv, TypeOK, FreshIsDue, SetNextRunAt

\* The next run of a row is a time.
LEMMA NextRunsTyping ==
    ASSUME NEW row, NEW ticks \in NextRuns(row), row.sched \in Schedules
    PROVE  ticks \in ZeroTime..Interval
    BY BoundsAssumption DEF NextRuns, Schedules

\* The hold of a claim keeps the invariant of the row.
LEMMA HoldKeeps ==
    ASSUME IndInv, NEW r \in Replicas, Hold(r)
    PROVE  /\ wait' \in ZeroTime..Interval
           /\ fresh' \subseteq listed \ {r} /\ FreshIsDue'
<1> DEFINE readers == listed \ {r}
<1>1. readers \in SUBSET listed
    OBVIOUS
<1>2. ASSUME NEW ticks \in NextRuns(seen[r]), SetNextRunAt(ticks, readers)
      PROVE  /\ wait' \in ZeroTime..Interval
             /\ fresh' \subseteq readers /\ FreshIsDue'
    <2>1. seen[r].sched \in Schedules
        BY DEF IndInv, TypeOK, Rows
    <2>2. ticks \in ZeroTime..Interval
        BY <2>1, NextRunsTyping
    <2> QED BY <1>1, <1>2, <2>2, WriteKeeps
<1>3. CASE SetNextRunAt(1, readers)
    <2>1. 1 \in ZeroTime..Interval
        BY BoundsAssumption
    <2> QED BY <1>1, <1>3, <2>1, WriteKeeps
<1> QED BY <1>2, <1>3 DEF Hold

\* A dispatched goroutine starts from a row its replica has read.
LEMMA DispatchTyping ==
    ASSUME TypeOK, NEW r \in Replicas, Dispatch(r)
    PROVE  /\ pc' \in [Dispatches -> GoPCs] /\ snap' \in [Dispatches -> Rows]
<1>1. [seen[r] EXCEPT !.zero = FALSE] \in Rows
    BY DEF TypeOK, Rows
<1> QED BY <1>1 DEF TypeOK, Dispatch, GoPCs

\* Every step of a runner keeps the invariant.
LEMMA RunnerKeeps == ASSUME IndInv, NEW r \in Replicas, RunnerStep(r) PROVE IndInv'
<1> USE DEF rowVars, goVars
<1>1. CASE ListDue(r)
    <2>1. CountRead \in Nat
        BY BoundsAssumption DEF CountRead, IndInv, TypeOK
    <2>2. [count |-> CountRead, sched |-> sched, zero |-> wait = ZeroTime] \in Rows
        BY <2>1 DEF IndInv, TypeOK, Rows
    <2> QED BY <1>1, <2>2 DEF ListDue, IndInv, TypeOK, FreshIsDue
<1>2. CASE Claim(r)
    <2>1. /\ UNCHANGED <<kind, maxRuns, status, runCount, sched, editor, edits>>
          /\ listed' = listed \ {r} /\ seen' \in [Replicas -> Rows]
          /\ failures' \in 0..MaxFailures
        BY <1>2, NoRowIsRow, BoundsAssumption DEF Claim, IndInv, TypeOK
    <2>2. /\ pc' \in [Dispatches -> GoPCs] /\ snap' \in [Dispatches -> Rows]
        BY <1>2, DispatchTyping DEF Claim, IndInv, TypeOK
    <2>3. CASE Hold(r) /\ ClaimMatches(r)
        <3>1. /\ wait' \in ZeroTime..Interval
              /\ fresh' \subseteq listed \ {r} /\ FreshIsDue'
            BY <2>3, HoldKeeps
        <3> QED BY <2>1, <2>2, <3>1 DEF IndInv, TypeOK
    <2>4. CASE fresh' = fresh \ {r} /\ UNCHANGED wait
        BY <2>1, <2>2, <2>4 DEF IndInv, TypeOK, FreshIsDue
    <2> QED BY <1>2, <2>3, <2>4 DEF Claim
<1> QED BY <1>1, <1>2 DEF RunnerStep

\* Every step of a runOne goroutine keeps the invariant.
LEMMA GoKeeps ==
    ASSUME IndInv, NEW d \in Dispatches, GoStep(d) \/ Die(d)
    PROVE  IndInv'
<1> USE BoundsAssumption DEF rowVars, tickVars, goVars
<1>0. TypeOK /\ FreshIsDue
    BY DEF IndInv
<1>1. CASE RunTask(d)
    <2>1. runCount' \in 0..maxRuns
        BY <1>0, <1>1 DEF RunTask, CountRun, TypeOK
    <2> QED BY <1>0, <1>1, <2>1 DEF RunTask, IndInv, TypeOK, FreshIsDue, GoPCs
<1>3. CASE PauseMisconfigured(d)
    <2>1. status' \in Statuses
        BY <1>0, <1>3 DEF PauseMisconfigured, UpdateStatus, TypeOK, Statuses
    <2>2. /\ pc' \in [Dispatches -> GoPCs] /\ snap' \in [Dispatches -> Rows]
        BY <1>0, <1>3, ReturnTyping DEF PauseMisconfigured, TypeOK, GoPCs
    <2> QED BY <1>0, <1>3, <2>1, <2>2 DEF PauseMisconfigured, IndInv, TypeOK, FreshIsDue
<1>4. CASE ScheduleNext(d)
    <2>1. /\ pc' \in [Dispatches -> GoPCs] /\ snap' \in [Dispatches -> Rows]
        BY <1>0, <1>4, ReturnTyping DEF ScheduleNext
    <2>2. status' \in Statuses /\ failures' \in 0..MaxFailures
        BY <1>0, <1>4 DEF ScheduleNext, UpdateStatus, AfterRun, TypeOK, Statuses
    <2>3. /\ wait' \in ZeroTime..Interval
          /\ fresh' \subseteq listed /\ FreshIsDue'
        <3>1. ASSUME NEW ticks \in NextRuns(snap[d]), SetNextRunAt(ticks, listed)
              PROVE  <2>3!:
            <4>1. snap[d].sched \in Schedules
                BY <1>0 DEF TypeOK, Rows
            <4>2. ticks \in ZeroTime..Interval
                BY <4>1, NextRunsTyping
            <4> QED BY <3>1, <4>2, WriteKeeps
        <3>2. CASE UNCHANGED <<wait, fresh>>
            BY <1>0, <3>2 DEF TypeOK, FreshIsDue
        <3> QED BY <1>4, <3>1, <3>2 DEF ScheduleNext
    <2> QED BY <1>0, <1>4, <2>1, <2>2, <2>3 DEF ScheduleNext, IndInv, TypeOK
<1>5. CASE Die(d)
    <2>1. /\ pc' \in [Dispatches -> GoPCs] /\ snap' \in [Dispatches -> Rows]
        BY <1>0, <1>5, ReturnTyping DEF Die
    <2> QED BY <1>0, <1>5, <2>1 DEF Die, IndInv, TypeOK, FreshIsDue
<1> QED BY <1>1, <1>3, <1>4, <1>5 DEF GoStep

\* Every edit, and the clock, keeps the invariant.
LEMMA EditorKeeps ==
    ASSUME IndInv,
           \/ \E s \in {"active", "paused", "completed"} : EditStatus(s)
           \/ EditSchedule \/ Reschedule \/ Delete \/ Tick \/ UNCHANGED vars
    PROVE  IndInv'
<1> USE BoundsAssumption DEF rowVars, tickVars, goVars
<1>0. TypeOK /\ FreshIsDue
    BY DEF IndInv
<1>1. ASSUME NEW s \in {"active", "paused", "completed"}, EditStatus(s) PROVE IndInv'
    BY <1>0, <1>1 DEF EditStatus, Edit, UpdateStatus, IndInv, TypeOK, FreshIsDue, Statuses
<1>2. CASE EditSchedule
    <2>1. PICK q \in Requests : /\ sched' = q[1]
                                /\ editor' = q[2] \/ UNCHANGED editor
        BY <1>2 DEF EditSchedule
    <2>2. sched' \in Schedules /\ editor' \in Times \cup {"idle"}
        BY <1>0, <2>1, KindsAssumption DEF TypeOK, Requests, Schedules, Times
    <2> QED BY <1>0, <1>2, <2>2 DEF EditSchedule, Edit, IndInv, TypeOK, FreshIsDue
<1>3. CASE Reschedule
    <2>1. /\ wait' \in ZeroTime..Interval
          /\ fresh' \subseteq listed /\ FreshIsDue'
        <3>1. ZeroTime \in ZeroTime..Interval /\ 1..Interval \subseteq ZeroTime..Interval
            OBVIOUS
        <3>2. ASSUME NEW ticks \in ZeroTime..Interval, SetNextRunAt(ticks, listed) PROVE <2>1!:
            BY <3>2, WriteKeeps
        <3>3. CASE wait' = 0 /\ fresh' \in SUBSET {r \in listed : ~seen[r].zero}
            BY <3>3 DEF FreshIsDue
        <3>4. CASE UNCHANGED <<wait, fresh>>
            BY <1>0, <3>4 DEF TypeOK, FreshIsDue
        <3> QED BY <1>3, <3>1, <3>2, <3>3, <3>4 DEF Reschedule
    <2> QED BY <1>0, <1>3, <2>1 DEF Reschedule, IndInv, TypeOK, Times
<1>4. CASE Delete
    BY <1>0, <1>4 DEF Delete, Edit, IndInv, TypeOK, FreshIsDue, Statuses
<1>5. CASE Tick
    BY <1>0, <1>5 DEF Tick, IndInv, TypeOK, FreshIsDue
<1>6. CASE UNCHANGED vars
    BY <1>0, <1>6 DEF vars, IndInv, TypeOK, FreshIsDue
<1> QED BY <1>1, <1>2, <1>3, <1>4, <1>5, <1>6

\* IndInv is an invariant.
LEMMA Inductive == Spec => []IndInv
<1>1. IndInv /\ [Next]_vars => IndInv'
    BY RunnerKeeps, GoKeeps, EditorKeeps DEF Next
<1> QED BY <1>1, InitIndInv, PTL DEF Spec

(***************************************************************************)
(* The theorems.                                                           *)
(***************************************************************************)
\* Type correctness of the task row and of the goroutines.
THEOREM TypeCorrect == Spec => []TypeOK
<1>1. IndInv => TypeOK
    BY DEF IndInv
<1> QED BY <1>1, Inductive, PTL

\* A claim that met no database error dispatches only a task that is active
\* and due at that moment, and puts it off in the same step, however many
\* replicas listed it and whatever was edited since, unless the cron
\* expression it read never fires.
THEOREM DispatchOnlyDueThm == Spec => DispatchOnlyDue
<1> DEFINE Starts(d) == pc[d] = "idle" /\ pc'[d] = "dispatch" /\ failures' = failures
           Wins(d) == /\ status = "active" /\ Due
                      /\ (wait' > 0 /\ fresh' = {}) \/ snap'[d].sched = "never"
<1>1. IndInv /\ [Next]_vars => \A d \in Dispatches : Starts(d) => Wins(d)
    <2> SUFFICES ASSUME IndInv, [Next]_vars, NEW d \in Dispatches, Starts(d) PROVE Wins(d)
        OBVIOUS
    <2>1. pc[d] = "idle" /\ pc'[d] = "dispatch"
        OBVIOUS
    <2>2. \E r \in Replicas : Claim(r)
        <3>1. \A r \in Replicas : ListDue(r) => pc' = pc
            BY DEF ListDue, goVars
        <3>2. \A e \in Dispatches : ~(GoStep(e) \/ Die(e))
            BY <2>1 DEF GoStep, RunTask, PauseMisconfigured, ScheduleNext, Die, Return, IndInv, TypeOK
        <3>3. (\E s \in {"active", "paused", "completed"} : EditStatus(s))
                \/ EditSchedule \/ Reschedule \/ Delete \/ Tick \/ UNCHANGED vars => pc' = pc
            BY DEF EditStatus, EditSchedule, Reschedule, Delete, Tick, vars, goVars
        <3> QED BY <2>1, <3>1, <3>2, <3>3 DEF Next, RunnerStep
    <2>3. PICK r \in Replicas : Claim(r)
        BY <2>2
    <2>4. ~(failures' = failures + 1)
        BY DEF IndInv, TypeOK
    <2>5. ClaimMatches(r) /\ Hold(r) /\ Dispatch(r)
        BY <2>1, <2>3, <2>4 DEF Claim, goVars
    <2>6. snap'[d].sched = seen[r].sched /\ seen[r].sched \in Schedules
        BY <2>1, <2>5 DEF Dispatch, IndInv, TypeOK, Rows
    <2>7. CASE seen[r].sched # "never"
        <3>1. NextRuns(seen[r]) \subseteq 1..Interval
            BY <2>6, <2>7 DEF NextRuns, Schedules
        <3> QED BY <2>5, <3>1, BoundsAssumption
                DEF ClaimMatches, Hold, SetNextRunAt, IndInv, FreshIsDue
    <2> QED BY <2>5, <2>6, <2>7 DEF ClaimMatches, IndInv, FreshIsDue
<1> QED BY <1>1, Inductive, PTL DEF Spec, DispatchOnlyDue

(***************************************************************************)
(* max_runs.                                                               *)
(***************************************************************************)
\* The copies of run_count are never ahead of it, and a run that has been
\* counted, or was left uncounted by a failure, is one more than its copy.
CopiesLag ==
    /\ \A r \in Replicas : seen[r].count <= runCount
    /\ \A d \in Dispatches : snap[d].count <= runCount
    /\ \A d \in Dispatches : pc[d] \in {"ran", "next"} =>
          runCount = maxRuns \/ snap[d].count + 1 <= runCount + failures

\* A runOne goroutine is moved on or returns, and the count may grow: the
\* parts of CopiesLag about the other goroutines and the replicas.
LEMMA LagMonotone ==
    ASSUME IndInv, IndInv', CopiesLag,
           runCount <= runCount', failures <= failures', maxRuns' = maxRuns, seen' = seen
    PROVE  /\ \A r \in Replicas : seen'[r].count <= runCount'
           /\ \A d \in Dispatches : snap'[d] = snap[d] => snap'[d].count <= runCount'
           /\ \A d \in Dispatches : snap'[d] = snap[d] /\ pc[d] \in {"ran", "next"} =>
                 runCount' = maxRuns' \/ snap'[d].count + 1 <= runCount' + failures'
<1>1. /\ runCount \in Nat /\ runCount' \in Nat /\ failures \in Nat /\ failures' \in Nat
      /\ maxRuns \in Nat /\ runCount' <= maxRuns
    BY BoundsAssumption DEF IndInv, TypeOK
<1>2. /\ \A r \in Replicas : seen[r].count \in Nat
      /\ \A d \in Dispatches : snap[d].count \in Nat
    BY DEF IndInv, TypeOK, Rows
<1> QED BY <1>1, <1>2 DEF CopiesLag

\* A replica lists the task, or hands the row it has listed to a goroutine.
LEMMA RunnerLags ==
    ASSUME IndInv, IndInv', CopiesLag, NEW r \in Replicas, RunnerStep(r)
    PROVE  CopiesLag'
<1>1. /\ runCount \in Nat /\ failures \in Nat /\ failures' \in Nat
      /\ \A q \in Replicas : seen[q].count \in Nat
      /\ \A d \in Dispatches : snap[d].count \in Nat
    BY BoundsAssumption DEF IndInv, TypeOK, Rows
<1>2. CASE ListDue(r)
    <2>1. CountRead \in Nat /\ CountRead <= runCount
        BY <1>1 DEF CountRead
    <2> QED BY <1>1, <1>2, <2>1 DEF ListDue, rowVars, goVars, CopiesLag, IndInv, TypeOK
<1>3. CASE Claim(r)
    <2>1. runCount' = runCount /\ maxRuns' = maxRuns /\ failures <= failures'
        BY <1>1, <1>3 DEF Claim
    <2>2. \A q \in Replicas : seen'[q].count <= runCount'
        BY <1>1, <1>3, <2>1 DEF Claim, NoRow, CopiesLag, IndInv, TypeOK
    <2>3. CASE UNCHANGED goVars
        BY <1>1, <2>1, <2>2, <2>3 DEF goVars, CopiesLag
    <2>4. CASE Dispatch(r)
        <3>1. PICK d \in Dispatches : /\ pc' = [pc EXCEPT ![d] = "dispatch"]
                                      /\ snap' = [snap EXCEPT ![d] = [seen[r] EXCEPT !.zero = FALSE]]
            BY <2>4 DEF Dispatch
        <3>2. snap'[d].count = seen[r].count
            BY <3>1 DEF IndInv, TypeOK, Rows
        <3> QED BY <1>1, <2>1, <2>2, <3>1, <3>2 DEF CopiesLag, IndInv, TypeOK
    <2> QED BY <1>3, <2>3, <2>4 DEF Claim
<1> QED BY <1>2, <1>3 DEF RunnerStep

\* A goroutine returns: its copy is gone.
LEMMA ReturnLags ==
    ASSUME IndInv, IndInv', CopiesLag, NEW d \in Dispatches, Return(d),
           UNCHANGED <<runCount, maxRuns, seen>>, failures <= failures'
    PROVE  CopiesLag'
<1>1. runCount \in Nat
    BY DEF IndInv, TypeOK
<1>2. /\ pc'[d] = "idle" /\ snap'[d].count <= runCount'
      /\ \A e \in Dispatches : e # d => pc'[e] = pc[e] /\ snap'[e] = snap[e]
    BY <1>1 DEF Return, NoRow, IndInv, TypeOK
<1>3. runCount <= runCount'
    BY <1>1
<1> QED BY <1>2, <1>3, LagMonotone DEF CopiesLag

\* Every step of a runOne goroutine keeps the copies behind: the increment
\* comes before scheduleNext.
LEMMA GoLags ==
    ASSUME IndInv, IndInv', CopiesLag, NEW d \in Dispatches, GoStep(d) \/ Die(d)
    PROVE  CopiesLag'
<1>1. /\ runCount \in Nat /\ runCount' \in Nat /\ maxRuns \in Nat /\ runCount <= maxRuns
      /\ failures \in Nat /\ failures' \in Nat /\ snap[d].count \in Nat
    BY BoundsAssumption DEF IndInv, TypeOK, Rows
<1>2. /\ failures <= failures' /\ runCount <= runCount' /\ maxRuns' = maxRuns /\ seen' = seen
      /\ \A e \in Dispatches : e # d => pc'[e] = pc[e] /\ snap'[e] = snap[e]
    BY <1>1 DEF GoStep, RunTask, CountRun, PauseMisconfigured, ScheduleNext,
        Die, Return, rowVars, tickVars, IndInv, TypeOK
<1>3. CASE RunTask(d)
    <2>1. snap' = snap
        BY <1>3 DEF RunTask
    <2>2. runCount' = maxRuns' \/ snap'[d].count + 1 <= runCount' + failures'
        BY <1>1, <1>2, <1>3, <2>1 DEF RunTask, CountRun, CopiesLag
    <2> QED BY <1>2, <2>1, <2>2, LagMonotone DEF CopiesLag
<1>5. CASE PauseMisconfigured(d)
    <2>1. CASE Return(d)
        BY <1>2, <1>5, <2>1, ReturnLags DEF PauseMisconfigured
    <2>2. CASE UNCHANGED snap
        <3>1. pc[d] = "ran"
            BY <1>5 DEF PauseMisconfigured
        <3> QED BY <1>2, <2>2, <3>1, LagMonotone DEF CopiesLag
    <2> QED BY <1>5, <2>1, <2>2 DEF PauseMisconfigured
<1>6. CASE ScheduleNext(d)
    BY <1>2, <1>6, ReturnLags DEF ScheduleNext
<1>7. CASE Die(d)
    BY <1>2, <1>7, ReturnLags DEF Die, rowVars
<1> QED BY <1>3, <1>5, <1>6, <1>7 DEF GoStep

\* CopiesLag is inductive relative to IndInv.
LEMMA CopiesLagInv == Spec => []CopiesLag
<1>1. Init => CopiesLag
    BY BoundsAssumption DEF Init, CopiesLag, NoRow
<1>2. IndInv /\ IndInv' /\ CopiesLag /\ [Next]_vars => CopiesLag'
    <2> SUFFICES ASSUME IndInv, IndInv', CopiesLag, [Next]_vars PROVE CopiesLag'
        OBVIOUS
    <2>1. ASSUME NEW r \in Replicas, RunnerStep(r) PROVE CopiesLag'
        BY <2>1, RunnerLags
    <2>2. ASSUME NEW d \in Dispatches, GoStep(d) \/ Die(d) PROVE CopiesLag'
        BY <2>2, GoLags
    <2>3. CASE \/ \E s \in {"active", "paused", "completed"} : EditStatus(s)
               \/ EditSchedule \/ Reschedule \/ Delete \/ Tick \/ UNCHANGED vars
        <3>1. UNCHANGED <<pc, snap, seen, runCount, maxRuns>>
            BY <2>3 DEF EditStatus, EditSchedule, Reschedule, Delete, Tick, vars, rowVars, tickVars,
                goVars
        <3>2. failures <= failures' /\ runCount <= runCount'
            BY <2>3, <3>1, BoundsAssumption DEF EditStatus, EditSchedule, Reschedule, Delete, Tick,
                vars, IndInv, TypeOK
        <3> QED BY <3>1, <3>2, LagMonotone DEF CopiesLag
    <2> QED BY <2>1, <2>2, <2>3 DEF Next
<1> QED BY <1>1, <1>2, Inductive, PTL DEF Spec

\* No recurring task is completed by scheduleNext before its row counts
\* max_runs runs, failures aside, however its runs overlap.
THEOREM CompletedAtCapThm == Spec => CompletedAtCap
<1> DEFINE Completes ==
        status # "completed" /\ status' = "completed" /\ edits' = edits /\ kind # "once"
<1>1. IndInv /\ CopiesLag /\ [Next]_vars =>
        (Completes => maxRuns > 0 /\ runCount + failures >= maxRuns)
    <2> SUFFICES ASSUME IndInv, CopiesLag, [Next]_vars, Completes
                 PROVE  maxRuns > 0 /\ runCount + failures >= maxRuns
        OBVIOUS
    <2>1. \E d \in Dispatches : ScheduleNext(d)
        <3>1. \A r \in Replicas : ~RunnerStep(r)
            BY DEF RunnerStep, ListDue, Claim, rowVars
        <3>2. \A d \in Dispatches :
                ~(RunTask(d) \/ PauseMisconfigured(d) \/ Die(d))
            BY DEF RunTask, PauseMisconfigured, UpdateStatus, Die, rowVars
        <3>3. edits # edits + 1
            BY DEF IndInv, TypeOK
        <3>4. ~ \/ \E s \in {"active", "paused", "completed"} : EditStatus(s)
                \/ EditSchedule \/ Reschedule \/ Delete \/ Tick \/ UNCHANGED vars
            BY <3>3 DEF EditStatus, Edit, EditSchedule, Reschedule, Delete, Tick, vars, rowVars
        <3> QED BY <3>1, <3>2, <3>4 DEF Next, GoStep
    <2>2. PICK d \in Dispatches : ScheduleNext(d)
        BY <2>1
    <2>3. LastRun(d) /\ pc[d] \in {"ran", "next"}
        BY <2>2 DEF ScheduleNext, UpdateStatus, AfterRun
    <2>4. /\ runCount \in Nat /\ maxRuns \in Nat /\ failures \in Nat
          /\ snap[d].count \in Nat
        BY BoundsAssumption DEF IndInv, TypeOK, Rows
    <2> QED BY <2>3, <2>4 DEF LastRun, CopiesLag
<1> QED BY <1>1, Inductive, CopiesLagInv, PTL DEF Spec, CompletedAtCap
=============================================================================
