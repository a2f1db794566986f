-------------------------- MODULE PentestRunProofs --------------------------
(***************************************************************************)
(* Proofs about PentestRun, for any number of replicas, scans, retries,    *)
(* failures and cancels. All but the typing hold where the lease outlasts  *)
(* a batch, its HTTP calls and the scope check of a request it sent, and   *)
(* the backoff outlasts that check; the default lease of 15 s does not     *)
(* outlast the default HTTP timeout of 60 s.                               *)
(***************************************************************************)
EXTENDS PentestRun, TLAPS

LeaseOutlastsBatch ==
    QueueDelay + Timeout + ScopeTime < Interval /\ ScopeTime < Backoff

USE DEF Failure, NoTime, NoScan, NoRef, NoCall

(***************************************************************************)
(* The inductive invariant.                                                *)
(***************************************************************************)
Holds(r) == pc[r] # "idle"
Works(r) == pc[r] \in {"advance", "enforce", "write"}

OneHolder == \A r, s \in Replicas : Holds(r) /\ Holds(s) => r = s

\* A replica that may still write works within the lease of a live row, with
\* the time of a scope check to spare, or on a row an operator has cancelled
\* under it.
HolderLeased ==
    \A r \in Replicas : Works(r) =>
        row.status = "cancelled" \/ (row.status \in Live /\ left[r] + ScopeTime < wait)

\* What a copy says: live until a decision that finalises it.
CopyStatus ==
    \A r \in Replicas :
        /\ pc[r] \in {"advance", "enforce"} => copy[r].status \in Live
        /\ pc[r] = "write" => (copy[r].status \in IF next[r] = NoTime THEN Ended ELSE Live)
        /\ pc[r] = "write" /\ copy[r].status = "completed" => found[r]
        /\ pc[r] = "sync" => row.status \in Ended

\* Once findings are stored nobody is left to store them again.
Stored ==
    /\ findings > 0 => row.status \in Ended /\ \A r \in Replicas : ~Works(r)
    /\ \A r \in Replicas : pc[r] = "sync" => findings > 0
    /\ row.status = "completed" \/ card = "done" => findings > 0

LeaseInv == OneHolder /\ HolderLeased /\ CopyStatus /\ Stored

\* The initial state is typed.
LEMMA InitTyping == Init => TypeOK
    BY RunAssumption, ServiceAssumption DEF Init, ServiceInit, TypeOK, ServiceTypeOK, NewRow, Row, Rows,
        Live, Ended, Verdicts, Scans, Pending, Terminal, NoAsk

\* The calls of the workstation by replica r.
Calls(r) == FailRuntime(r) \/ StartRun(r) \/ Enforced(r) \/ GiveUp(r) \/ PollRun(r)

\* What a call of the workstation leaves in the copy of replica r.
Decided(r) ==
    \E c \in Rows, d \in {NoTime} \cup Nat, f \in BOOLEAN :
        /\ Settle(r, c, d, f)
        /\ copy[r].status \in Live => (c.status \in IF d = NoTime THEN Ended ELSE Live)
        /\ copy[r].status \in Live /\ c.status = "completed" => f

\* A counted failure is still a row.
LEMMA FailedRow == ASSUME NEW c \in Rows PROVE
        /\ Failed(c) \in Rows
        /\ Failed(c).status = c.status /\ Failed(c).remote = c.remote /\ Failed(c).retries = c.retries
    BY RunAssumption DEF Failed, Rows, Row

\* A row with another status is a row.
LEMMA StatusRow == ASSUME NEW c \in Rows, NEW s \in Live \cup Ended
                   PROVE  /\ Becomes(c, s) \in Rows /\ Becomes(c, s).status = s
                          /\ Becomes(c, s).remote = c.remote /\ Becomes(c, s).retries = c.retries
    BY DEF Rows, Becomes

\* So is an older one, which differs in nothing else that matters.
LEMMA OlderRow == ASSUME NEW c \in Rows PROVE
        /\ Older(c) \in Rows
        /\ Older(c).status = c.status /\ Older(c).remote = c.remote /\ Older(c).retries = c.retries
    BY RunAssumption DEF Older, Rows, Row

\* A run that stays live is decided on.
LEMMA LiveDecides ==
    ASSUME NEW r \in Replicas, NEW c \in Rows, NEW d \in Nat, Decide(r, c, d),
           c.status \in Live \/ c.status = copy[r].status
    PROVE  Decided(r)
<1>1. d \in {NoTime} \cup Nat /\ d # NoTime
    OBVIOUS
<1>2. /\ copy[r].status \in Live => (c.status \in IF d = NoTime THEN Ended ELSE Live)
      /\ copy[r].status \in Live /\ c.status = "completed" => FALSE
    BY <1>1 DEF Live
<1>3. Settle(r, c, d, FALSE)
    BY DEF Decide
<1> QED BY <1>1, <1>2, <1>3, Zenon DEF Decided

\* Errors of the transport are decided on.
LEMMA TransportDecides ==
    ASSUME NEW r \in Replicas, NEW c \in Rows, c.status = copy[r].status, TransportError(r, c)
    PROVE  Decided(r)
<1> DEFINE f == Failed(c)
<1>1. f \in Rows /\ f.status = c.status
    BY FailedRow
<1>2. CASE \E d \in GatewayBackoffs : Decide(r, f, d)
    <2>1. \A d \in GatewayBackoffs : d \in Nat
        BY RunAssumption DEF GatewayBackoffs
    <2> QED BY <1>1, <1>2, <2>1, LiveDecides
<1>3. CASE Decide(r, f, Backoff)
    BY <1>1, <1>3, RunAssumption, LiveDecides
<1>4. CASE Decide(r, Becomes(f, "failed"), NoTime)
    <2>1. Becomes(f, "failed") \in Rows /\ Becomes(f, "failed").status = "failed"
        BY <1>1, StatusRow DEF Ended, Verdicts
    <2> QED BY <1>4, <2>1 DEF Decided, Decide, Ended, Verdicts
<1> QED BY <1>2, <1>3, <1>4 DEF TransportError

\* So are lost answers of Start.
LEMMA LostDecides ==
    ASSUME TypeOK, NEW r \in Replicas, StartLost(r) PROVE Decided(r)
<1>1. copy[r] \in Rows
    BY DEF TypeOK
<1>2. CASE TransportError(r, copy[r])
    BY <1>1, <1>2, TransportDecides
<1>3. CASE \E d \in GatewayBackoffs : Decide(r, Becomes(Failed(copy[r]), "queued"), d)
    <2> DEFINE c == Becomes(Failed(copy[r]), "queued")
    <2>1. c \in Rows /\ c.status \in Live
        BY <1>1, FailedRow, StatusRow DEF Live
    <2>2. PICK d \in GatewayBackoffs : Decide(r, c, d)
        BY <1>3
    <2>3. d \in Nat
        BY RunAssumption DEF GatewayBackoffs
    <2> QED BY <2>1, <2>2, <2>3, LiveDecides
<1> QED BY <1>2, <1>3 DEF StartLost

\* And so is an answer that names a scan.
LEMMA DoneDecides ==
    ASSUME TypeOK, NEW r \in Replicas, NEW i \in Scans, StartDone(r, i) PROVE Decided(r)
<1> DEFINE age == IF copy[r].origin = "started_at" THEN copy[r].age ELSE 0
           c == Row("starting", i, copy[r].retries, 0, "started_at", age)
<1>0. copy[r] \in Rows
    BY DEF TypeOK
<1>1. c \in Rows /\ c.status \in Live
    BY <1>0, RunAssumption DEF Rows, Live, Row
<1>2. Decide(r, c, 0)
    BY DEF StartDone
<1> QED BY <1>1, <1>2, LiveDecides

\* The request of replica r is in its scope check.
Asks(r) ==
    /\ byRef[copy[r].retries] = NoScan /\ copy[r].remote = NoScan
    /\ \E q \in Requests : Ask(copy[r].retries, q) /\ call' = [call EXCEPT ![r] = q]

\* Every call of the workstation ends in a decision, except the first half of
\* a start_scan that has not seen the ref.
LEMMA CallDecides ==
    ASSUME TypeOK, NEW r \in Replicas,
           Calls(r)
    PROVE  /\ pc[r] \in {"advance", "enforce"}
           /\ \/ Decided(r)
              \/ /\ pc[r] = "advance" /\ pc' = [pc EXCEPT ![r] = "enforce"]
                 /\ Asks(r)
                 /\ UNCHANGED <<rowVars, copy, next, found, left, cancelVars, failures>>
<1>1. copy[r] \in Rows /\ pc[r] \in {"advance", "enforce"}
    BY DEF TypeOK, Calls, FailRuntime, StartRun, Enforced, GiveUp, PollRun
<1>f. /\ Becomes(copy[r], "failed") \in Rows /\ Becomes(copy[r], "failed").status \in Ended
      /\ Becomes(copy[r], "failed").status # "completed"
    BY <1>1, StatusRow DEF Ended, Verdicts
<1>2. CASE FailRuntime(r)
    BY <1>1, <1>f, <1>2 DEF FailRuntime, Decided, Decide
<1>3. CASE StartRun(r)
    <2> DEFINE known == Known(RunRef(copy[r]))
    <2>1. known \in Scans \cup {NoScan} /\ known = byRef[copy[r].retries]
        BY <1>1, RunAssumption DEF Known, RunRef, TypeOK, ServiceTypeOK, Rows
    <2>2. CASE StartLost(r)
        BY <1>1, <2>2, LostDecides
    <2>3. CASE known # NoScan /\ StartDone(r, known)
        BY <1>1, <2>1, <2>3, DoneDecides
    <2>4. CASE /\ known = NoScan /\ pc' = [pc EXCEPT ![r] = "enforce"]
               /\ \E q \in Requests :
                      Ask(RunRef(copy[r]), q) /\ call' = [call EXCEPT ![r] = q]
               /\ UNCHANGED <<rowVars, copy, next, found, left, cancelVars, failures>>
        BY <1>1, <1>3, <2>1, <2>4 DEF StartRun, Asks, RunRef
    <2> HIDE DEF known
    <2> QED BY <1>3, <2>2, <2>3, <2>4 DEF StartRun, known
<1>4. CASE Enforced(r)
    <2>1. CASE Decide(r, Becomes(copy[r], "failed"), NoTime)
        BY <1>1, <1>f, <2>1 DEF Decided, Decide
    <2>2. CASE StartLost(r)
        BY <1>1, <2>2, LostDecides
    <2>3. ASSUME NEW i \in Scans, StartDone(r, i) PROVE Decided(r)
        BY <2>3, DoneDecides
    <2>4. CASE Decide(r, Becomes(copy[r], "queued"), Backoff)
        <3>1. /\ Becomes(copy[r], "queued") \in Rows
              /\ Becomes(copy[r], "queued").status \in Live
            BY <1>1, StatusRow DEF Live
        <3> QED BY <1>1, <2>4, <3>1, RunAssumption, LiveDecides
    <2> QED BY <1>1, <1>4, <2>1, <2>2, <2>3, <2>4 DEF Enforced
<1>g. CASE GiveUp(r)
    BY <1>1, <1>g, LostDecides DEF GiveUp
<1>5. CASE PollRun(r)
    <2> DEFINE c == copy[r]
               s == scan[c.remote]
    <2>1. CASE TransportError(r, c)
        BY <1>1, <2>1, TransportDecides
    <2>2. CASE Decide(r, Reached(c, s), Interval)
        <3>1. Reached(c, s) \in Rows /\ Reached(c, s).status \in Live
            BY <1>1, RunAssumption DEF Rows, Live, Row, Reached
        <3> QED BY <1>1, <2>2, <3>1, RunAssumption, LiveDecides
    <2>3. CASE s \in Terminal /\ RetriesEngagement(c, s) /\ Decide(r, Requeued(c), 0)
        <3>1. Requeued(c) \in Rows /\ Requeued(c).status \in Live
            BY <1>1, <2>3, RunAssumption DEF Rows, Live, Requeued, RetriesEngagement, Row
        <3> QED BY <1>1, <2>3, <3>1, LiveDecides
    <2>4. CASE s \in Terminal /\ Settle(r, Becomes(c, VerdictOf(s)), NoTime, TRUE)
        <3>1. VerdictOf(s) \in Ended
            BY <2>4 DEF VerdictOf, Terminal, Ended, Verdicts
        <3>2. Becomes(c, VerdictOf(s)) \in Rows /\ Becomes(c, VerdictOf(s)).status \in Ended
            BY <1>1, <3>1, StatusRow
        <3> QED BY <1>1, <2>4, <3>2 DEF Decided
    <2> QED BY <1>1, <1>5, <2>1, <2>2, <2>3, <2>4 DEF PollRun
<1> QED BY <1>2, <1>3, <1>4, <1>g, <1>5 DEF Calls

(***************************************************************************)
(* Typing.                                                                 *)
(***************************************************************************)
\* The service's own steps, and the two halves of start_scan, keep its types.
LEMMA ServiceTyping == ASSUME TypeOK, [Next]_vars PROVE ServiceTypeOK'
<1> USE RunAssumption, ServiceAssumption DEF TypeOK, ServiceTypeOK, Pending, Terminal
<1>1. ASSUME NEW r \in Replicas, FailRuntime(r) PROVE ServiceTypeOK'
    BY <1>1 DEF FailRuntime, StopAfterCancel, Rows
<1>r. ASSUME NEW q \in Requests, Refuse(q) PROVE ServiceTypeOK'
    BY <1>r DEF Refuse, NoAsk
<1>c. ASSUME NEW q \in Requests, NEW i \in Scans, NEW s, CreateScan(q, i, s) PROVE ServiceTypeOK'
    <2>1. asks[q].ref \in Refs
        BY <1>c DEF CreateScan, Asked
    <2> QED BY <1>c, <2>1 DEF CreateScan, NoAsk
<1>2. ASSUME NEW r \in Replicas, Enforced(r) PROVE ServiceTypeOK'
    BY <1>2, <1>r, <1>c DEF Enforced
<1>a. ASSUME NEW q \in Requests, EnforcedAlone(q) PROVE ServiceTypeOK'
    BY <1>a, <1>r, <1>c DEF EnforcedAlone
<1>s. ASSUME NEW r \in Replicas, StartRun(r) PROVE ServiceTypeOK'
    <2>1. RunRef(copy[r]) \in Refs
        BY DEF RunRef, Rows
    <2>2. ASSUME NEW q \in Requests, Ask(RunRef(copy[r]), q) PROVE ServiceTypeOK'
        <3>1. [ref |-> RunRef(copy[r]), left |-> ScopeTime]
                \in [ref : Refs \cup {NoRef}, left : 0..ScopeTime]
            BY <2>1
        <3> QED BY <2>2, <3>1 DEF Ask
    <2> QED BY <1>s, <2>2 DEF StartRun, serviceVars
<1>3. CASE Cancel
    BY <1>3 DEF Cancel, StopAfterCancel, Rows
<1>4. CASE RunnerStep
    BY <1>4 DEF RunnerStep, Launch, Finish
<1>b. CASE Reboot
    BY <1>b DEF Reboot, Restart, NoAsk
<1>t. CASE Tick
    <2>0. \A q \in Requests : asks[q] \in [ref : Refs \cup {NoRef}, left : 0..ScopeTime]
        OBVIOUS
    <2>1. \A q \in Requests : Asked(q) =>
             [asks[q] EXCEPT !.left = @ - 1] \in [ref : Refs \cup {NoRef}, left : 0..ScopeTime]
        <3> TAKE q \in Requests
        <3> HAVE Asked(q)
        <3>1. asks[q].left \in 0..ScopeTime /\ asks[q].left > 0
            BY <1>t, <2>0 DEF Tick
        <3>2. asks[q].left - 1 \in 0..ScopeTime
            BY <3>1
        <3> QED BY <2>0, <3>2
    <2> QED BY <1>t, <2>1 DEF Tick
<1>5. ASSUME NEW r \in Replicas,
             ClaimDueRuns(r) \/ GiveUp(r) \/ PollRun(r) \/ Write(r) \/ SyncBoard(r) \/ Crash(r)
      PROVE  ServiceTypeOK'
    BY <1>5 DEF ClaimDueRuns, GiveUp, PollRun, Write, SyncBoard, Crash, serviceVars
<1>6. CASE CancelWrite \/ UNCHANGED vars
    BY <1>6 DEF CancelWrite, vars, serviceVars
<1> QED BY <1>1, <1>2, <1>a, <1>s, <1>3, <1>4, <1>b, <1>t, <1>5, <1>6 DEF Next, ReplicaStep

\* Every step keeps the types.
LEMMA NextTyping == ASSUME TypeOK, [Next]_vars PROVE TypeOK'
<1>0. ServiceTypeOK' /\ NewRow \in Rows
    BY ServiceTyping, RunAssumption DEF NewRow, Row, Rows, Live
<1> USE <1>0, RunAssumption DEF TypeOK, rowVars, workVars, cancelVars
<1>1. ASSUME NEW r \in Replicas, Calls(r)
      PROVE  TypeOK'
    <2>1. CASE Decided(r)
        BY <2>1 DEF Decided, Settle
    <2>2. CASE /\ pc' = [pc EXCEPT ![r] = "enforce"] /\ Asks(r)
               /\ UNCHANGED <<rowVars, copy, next, found, left, cancelVars, failures>>
        BY <2>2 DEF Asks
    <2> QED BY <1>1, <2>1, <2>2, CallDecides
<1>2. ASSUME NEW r \in Replicas, ClaimDueRuns(r) PROVE TypeOK'
    BY <1>2 DEF ClaimDueRuns
<1>l. ASSUME NEW r \in Replicas, Leave(r) PROVE
          /\ pc' \in [Replicas -> {"idle", "advance", "enforce", "write", "sync"}]
          /\ copy' \in [Replicas -> Rows] /\ next' \in [Replicas -> {NoTime} \cup Nat]
          /\ found' \in [Replicas -> BOOLEAN]
          /\ left' \in [Replicas -> Nat] /\ call' \in [Replicas -> Requests \cup {NoCall}]
    BY <1>l DEF Leave
<1>3. ASSUME NEW r \in Replicas, Write(r) PROVE TypeOK'
    <2>1. /\ row' \in Rows /\ wait' \in {NoTime} \cup Nat /\ findings' \in Nat
          /\ failures' \in 0..MaxFailures /\ UNCHANGED <<card, cancelVars>>
        BY <1>3 DEF Write, Update, Finalize
    <2>2. CASE Leave(r)
        BY <1>l, <2>1, <2>2
    <2>3. CASE pc' = [pc EXCEPT ![r] = "sync"] /\ UNCHANGED <<copy, next, found, left, call>>
        BY <2>1, <2>3
    <2> QED BY <1>3, <2>2, <2>3 DEF Write
<1>4. ASSUME NEW r \in Replicas, SyncBoard(r) \/ Crash(r) PROVE TypeOK'
    <2>1. /\ UNCHANGED <<row, wait, findings, cancelVars>> /\ card' \in {"in_progress", "done"}
          /\ failures' \in 0..MaxFailures /\ Leave(r)
        BY <1>4 DEF SyncBoard, Crash
    <2> QED BY <1>l, <2>1
<1>5. CASE Cancel
    BY <1>5 DEF Cancel
<1>6. CASE CancelWrite
    <2>1. Becomes(ccopy, "cancelled") \in Rows
        BY StatusRow DEF Ended
    <2> QED BY <1>6, <2>1 DEF CancelWrite
<1>7. CASE Tick
    <2>1. row' \in Rows /\ ccopy' \in Rows /\ copy' \in [Replicas -> Rows]
        BY <1>7, OlderRow DEF Tick
    <2>2. wait' \in {NoTime} \cup Nat
        BY <1>7 DEF Tick
    <2>3. \A r \in Replicas : left[r] \in Nat /\ (pc[r] # "idle" => left[r] - 1 \in Nat)
        BY <1>7 DEF Tick
    <2>4. left' \in [Replicas -> Nat]
        BY <1>7, <2>3 DEF Tick
    <2> QED BY <1>7, <2>1, <2>2, <2>4 DEF Tick
<1>8. CASE UNCHANGED <<rowVars, workVars, cancelVars, failures>>
    BY <1>8
<1>9. CASE Reboot
    BY <1>9 DEF Reboot
<1> QED BY <1>1, <1>2, <1>3, <1>4, <1>5, <1>6, <1>7, <1>8, <1>9
        DEF Next, ReplicaStep, Calls, EnforcedAlone, vars

(***************************************************************************)
(* The lease.                                                              *)
(***************************************************************************)
\* Initially nobody holds the run.
LEMMA InitLease == Init => LeaseInv
    BY DEF Init, LeaseInv, OneHolder, HolderLeased, CopyStatus, Stored, Holds, Works, NewRow, Row

\* A replica that leaves leaves the run to nobody.
LEMMA LastHolder ==
    ASSUME TypeOK, OneHolder, NEW r \in Replicas, Holds(r), Leave(r)
    PROVE  \A s \in Replicas : pc'[s] = "idle"
    BY DEF TypeOK, OneHolder, Holds, Leave

\* Every step keeps the lease's invariant, if the lease outlasts the batch.
LEMMA NextLease ==
    ASSUME LeaseOutlastsBatch, TypeOK, TypeOK', LeaseInv, [Next]_vars PROVE LeaseInv'
<1> USE RunAssumption, ServiceAssumption DEF rowVars, workVars, cancelVars, Holds, Works
<1>0. OneHolder /\ HolderLeased /\ CopyStatus /\ Stored
    BY DEF LeaseInv
<1>1. ASSUME NEW r \in Replicas, Calls(r)
      PROVE  LeaseInv'
    <2>0. pc[r] \in {"advance", "enforce"}
        BY <1>1, CallDecides
    <2>1. CASE Decided(r)
        <3>1. PICK c \in Rows, d \in {NoTime} \cup Nat, f \in BOOLEAN :
                  /\ Settle(r, c, d, f)
                  /\ copy[r].status \in Live => (c.status \in IF d = NoTime THEN Ended ELSE Live)
                  /\ copy[r].status \in Live /\ c.status = "completed" => f
            BY <2>1 DEF Decided
        <3>2. /\ UNCHANGED <<row, wait, findings, card, left>>
              /\ pc' = [pc EXCEPT ![r] = "write"] /\ copy' = [copy EXCEPT ![r] = c]
              /\ next' = [next EXCEPT ![r] = d] /\ found' = [found EXCEPT ![r] = f]
            BY <3>1 DEF Settle
        <3>3. OneHolder' /\ HolderLeased' /\ Stored'
            BY <1>0, <2>0, <3>2 DEF TypeOK, OneHolder, HolderLeased, Stored
        <3>4. /\ c.status \in IF d = NoTime THEN Ended ELSE Live
              /\ c.status = "completed" => f
            BY <1>0, <2>0, <3>1 DEF CopyStatus
        <3>5. CopyStatus'
            BY <1>0, <3>2, <3>4 DEF TypeOK, CopyStatus
        <3> QED BY <3>3, <3>5 DEF LeaseInv
    <2>2. CASE /\ pc' = [pc EXCEPT ![r] = "enforce"]
               /\ UNCHANGED <<rowVars, copy, next, found, left, cancelVars, failures>>
        <3>1. OneHolder' /\ HolderLeased' /\ Stored'
            BY <1>0, <2>0, <2>2 DEF TypeOK, OneHolder, HolderLeased, Stored
        <3>2. CopyStatus'
            BY <1>0, <2>0, <2>2 DEF TypeOK, CopyStatus
        <3> QED BY <3>1, <3>2 DEF LeaseInv
    <2> QED BY <1>1, <2>1, <2>2, CallDecides
<1>2. ASSUME NEW r \in Replicas, ClaimDueRuns(r) PROVE LeaseInv'
    <2>1. \A s \in Replicas : ~Works(s)
        BY <1>0, <1>2 DEF ClaimDueRuns, Due, HolderLeased, Live, TypeOK
    <2>2. \A s \in Replicas : pc[s] # "sync"
        BY <1>0, <1>2 DEF ClaimDueRuns, Due, CopyStatus, Live, Ended, Verdicts
    <2>3. \A s \in Replicas : pc[s] = "idle"
        BY <2>1, <2>2 DEF TypeOK
    <2>4. /\ pc' = [pc EXCEPT ![r] = "advance"] /\ copy' = [copy EXCEPT ![r] = row]
          /\ left' = [left EXCEPT ![r] = QueueDelay + Timeout] /\ wait' = Interval
          /\ UNCHANGED <<row, findings, card, next, found>> /\ row.status \in Live
        BY <1>2 DEF ClaimDueRuns, Due
    <2>5. OneHolder' /\ HolderLeased'
        BY <2>3, <2>4, LeaseOutlastsBatch DEF OneHolder, HolderLeased, TypeOK, LeaseOutlastsBatch
    <2>6. CopyStatus' /\ Stored'
        BY <1>0, <2>3, <2>4 DEF CopyStatus, Stored, TypeOK, Live, Ended, Verdicts
    <2> QED BY <2>5, <2>6 DEF LeaseInv
<1>3. ASSUME NEW r \in Replicas, Write(r) PROVE LeaseInv'
    <2>0. /\ pc[r] = "write" /\ copy[r].status \in (IF next[r] = NoTime THEN Ended ELSE Live)
          /\ findings = 0 /\ UNCHANGED card
          /\ copy[r].status = "completed" => found[r]
        BY <1>0, <1>3 DEF Write, CopyStatus, Stored, TypeOK
    <2>1. CASE next[r] # NoTime /\ Update(r) /\ Leave(r)
        <3>1. \A s \in Replicas : pc'[s] = "idle"
            BY <1>0, <2>0, <2>1, LastHolder
        <3>2. findings' = 0 /\ row'.status \in Live
            BY <2>0, <2>1 DEF Update
        <3>3. Stored'
            BY <1>0, <2>0, <3>1, <3>2 DEF Stored, Live
        <3> QED BY <3>1, <3>3 DEF LeaseInv, OneHolder, HolderLeased, CopyStatus
    <2>2. CASE next[r] = NoTime /\ Finalize(r) /\ copy[r].status # "completed" /\ Leave(r)
        <3>1. \A s \in Replicas : pc'[s] = "idle"
            BY <1>0, <2>0, <2>2, LastHolder
        <3>2. row'.status # "completed" /\ row'.status \in Ended /\ findings' >= 0
            BY <2>0, <2>2 DEF Finalize
        <3>3. Stored'
            BY <1>0, <2>0, <3>1, <3>2 DEF Stored
        <3> QED BY <3>1, <3>3 DEF LeaseInv, OneHolder, HolderLeased, CopyStatus
    <2>3. CASE next[r] = NoTime /\ Finalize(r) /\ copy[r].status = "completed"
                /\ pc' = [pc EXCEPT ![r] = "sync"]
        <3>1. \A s \in Replicas : pc'[s] = IF s = r THEN "sync" ELSE "idle"
            BY <1>0, <2>0, <2>3 DEF OneHolder, TypeOK
        <3>2. findings' = 1 /\ row'.status = "completed"
            BY <2>0, <2>3 DEF Finalize
        <3> QED BY <3>1, <3>2 DEF LeaseInv, OneHolder, HolderLeased, CopyStatus, Stored, Ended, Verdicts
    <2>4. CASE Leave(r) /\ UNCHANGED <<row, wait, findings>>
        <3>1. \A s \in Replicas : pc'[s] = "idle"
            BY <1>0, <2>0, <2>4, LastHolder
        <3> QED BY <1>0, <2>0, <2>4, <3>1 DEF LeaseInv, OneHolder, HolderLeased, CopyStatus, Stored
    <2> QED BY <1>3, <2>1, <2>2, <2>3, <2>4 DEF Write
<1>4. ASSUME NEW r \in Replicas, SyncBoard(r) \/ Crash(r) PROVE LeaseInv'
    <2>1. \A s \in Replicas : pc'[s] = "idle"
        BY <1>0, <1>4, LastHolder DEF SyncBoard, Crash
    <2>2. UNCHANGED <<row, wait, findings>> /\ (card' = card \/ findings > 0)
        BY <1>0, <1>4 DEF SyncBoard, Crash, Stored
    <2> QED BY <1>0, <2>1, <2>2 DEF LeaseInv, OneHolder, HolderLeased, CopyStatus, Stored
<1>5. CASE UNCHANGED <<rowVars, pc, copy, next, found, left>>
    BY <1>0, <1>5 DEF LeaseInv, OneHolder, HolderLeased, CopyStatus, Stored
<1>6. CASE CancelWrite
    <2>1. row'.status = "cancelled" /\ UNCHANGED <<findings, card, workVars>>
        BY <1>6, StatusRow DEF CancelWrite, TypeOK, Ended
    <2> QED BY <1>0, <2>1 DEF LeaseInv, OneHolder, HolderLeased, CopyStatus, Stored, Ended
<1>7. CASE Tick
    <2>1. /\ row'.status = row.status /\ \A s \in Replicas : copy'[s].status = copy[s].status
        BY <1>7, OlderRow DEF Tick, TypeOK
    <2>2. UNCHANGED <<findings, card, pc, next, found>>
        BY <1>7 DEF Tick
    <2>a. wait \in Int /\ wait' = (IF wait > 0 THEN wait - 1 ELSE wait)
        BY <1>7 DEF Tick, TypeOK
    <2>b. \A s \in Replicas : Works(s) => left[s] \in Nat /\ left'[s] = left[s] - 1
        BY <1>7 DEF Tick, TypeOK
    <2>3. HolderLeased'
        BY <1>0, <2>1, <2>2, <2>a, <2>b DEF HolderLeased
    <2> QED BY <1>0, <2>1, <2>2, <2>3 DEF LeaseInv, OneHolder, CopyStatus, Stored
<1>8. CASE Cancel \/ Reboot \/ UNCHANGED <<rowVars, workVars, cancelVars, failures>>
    BY <1>5, <1>8 DEF Cancel, Reboot
<1>9. CASE UNCHANGED vars
    BY <1>5, <1>9 DEF vars
<1> QED BY <1>1, <1>2, <1>3, <1>4, <1>6, <1>7, <1>8, <1>9
        DEF Next, ReplicaStep, Calls, EnforcedAlone

(***************************************************************************)
(* The refs, and which scan a copy speaks of.                              *)
(***************************************************************************)
\* The registry: a scan has a ref once created, and the ref finds it again.
Registry ==
    /\ \A i \in Scans : scan[i] = "none" <=> refOf[i] = NoRef
    /\ \A i \in Scans : refOf[i] # NoRef => byRef[refOf[i]] = i
    /\ \A f \in Refs : byRef[f] # NoScan => refOf[byRef[f]] = f

\* A start_scan past its look-up still has the ref to itself, whether its
\* caller waits or is gone: the next claim of the run, and so the next look-up,
\* is further away than the end of the scope check.
AskOf(q) ==
    /\ byRef[asks[q].ref] = NoScan /\ findings = 0
    /\ \A p \in Requests : Asked(p) => p = q
    /\ row.status \in Live =>
          row.retries = asks[q].ref /\ row.remote = NoScan /\ asks[q].left < wait
    /\ \A r \in Replicas :
          /\ pc[r] # "advance"
          /\ pc[r] = "enforce" => call[r] = q
          /\ pc[r] \in {"enforce", "write"} =>
                copy[r].retries = asks[q].ref /\ copy[r].remote = NoScan
          /\ pc[r] = "write" => next[r] = NoTime \/ asks[q].left < next[r]
AskInv == \A q \in Requests : Asked(q) => AskOf(q)

\* Every scan belongs to c's retry or to an earlier one, which is over, and
\* the scan c names belongs to its own retry.
Current(c) ==
    /\ \A i \in Scans : refOf[i] <= c.retries
    /\ \A i \in Scans : refOf[i] # NoRef /\ refOf[i] < c.retries => scan[i] \in Terminal
    /\ c.remote # NoScan => refOf[c.remote] = c.retries

ScanInv ==
    /\ row.status \in Live => Current(row)
    /\ \A r \in Replicas : Works(r) => Current(copy[r])
    /\ \A r \in Replicas : pc[r] \in {"advance", "enforce"} /\ row.status \in Live =>
          copy[r].retries = row.retries /\ copy[r].remote = row.remote
    /\ \A r \in Replicas : pc[r] = "write" /\ found[r] =>
          copy[r].remote # NoScan /\ scan[copy[r].remote] \in Terminal
    /\ findings > 0 => \A i \in Scans : scan[i] \notin Pending

\* What a call does to the copy of replica r.
Wrote(r, k, f) ==
    /\ copy' = [copy EXCEPT ![r] = k] /\ pc' = [pc EXCEPT ![r] = "write"]
    /\ found' = [found EXCEPT ![r] = f]
Keeps(r) ==
    \E k \in Rows : /\ Wrote(r, k, FALSE)
                    /\ k.retries = copy[r].retries /\ k.remote = copy[r].remote
Names(r) ==
    \E k \in Rows : /\ Wrote(r, k, FALSE)
                    /\ k.retries = copy[r].retries /\ k.remote \in Scans
                    /\ refOf'[k.remote] = k.retries
Requeues(r) ==
    \E k \in Rows : /\ Wrote(r, k, FALSE)
                    /\ k.retries = copy[r].retries + 1 /\ k.remote = NoScan
                    /\ copy[r].remote # NoScan /\ scan[copy[r].remote] \in Terminal
Judges(r) ==
    \E k \in Rows : /\ Wrote(r, k, TRUE) /\ k.retries = copy[r].retries
                    /\ k.remote = copy[r].remote /\ k.remote # NoScan
                    /\ scan[k.remote] \in Terminal

\* A lost answer changes neither the retry nor the scan.
LEMMA TransportKeeps ==
    ASSUME TypeOK, NEW r \in Replicas, TransportError(r, copy[r])
    PROVE  Keeps(r) /\ (next'[r] = NoTime \/ next'[r] >= Backoff)
<1> DEFINE f == Failed(copy[r])
           e == Becomes(f, "failed")
<1>1. f \in Rows /\ f.remote = copy[r].remote /\ f.retries = copy[r].retries
    BY FailedRow DEF TypeOK
<1>2. e \in Rows /\ e.remote = copy[r].remote /\ e.retries = copy[r].retries
    BY <1>1, StatusRow DEF Ended, Verdicts
<1>3. Wrote(r, f, FALSE) \/ Wrote(r, e, FALSE)
    BY DEF TransportError, Decide, Settle, Wrote
<1>4. next'[r] = NoTime \/ next'[r] >= Backoff
    BY RunAssumption DEF TransportError, Decide, Settle, GatewayBackoffs, TypeOK
<1> QED BY <1>1, <1>2, <1>3, <1>4 DEF Keeps

\* Neither does one of Start, and the run is left alone for the backoff.
LEMMA LostKeeps ==
    ASSUME TypeOK, NEW r \in Replicas, StartLost(r)
    PROVE  Keeps(r) /\ (next'[r] = NoTime \/ next'[r] >= Backoff)
<1> DEFINE f == Failed(copy[r])
           e == Becomes(f, "queued")
<1>1. f \in Rows /\ f.remote = copy[r].remote /\ f.retries = copy[r].retries
    BY FailedRow DEF TypeOK
<1>2. e \in Rows /\ e.remote = copy[r].remote /\ e.retries = copy[r].retries
    BY <1>1, StatusRow DEF Live
<1>3. CASE \E d \in GatewayBackoffs : Decide(r, e, d)
    <2>1. PICK d \in GatewayBackoffs : Decide(r, e, d)
        BY <1>3
    <2>2. Wrote(r, e, FALSE) /\ next'[r] = d
        BY <2>1 DEF Decide, Settle, Wrote, TypeOK
    <2>3. d >= Backoff
        BY RunAssumption DEF GatewayBackoffs
    <2> QED BY <1>2, <2>2, <2>3 DEF Keeps
<1> QED BY <1>3, TransportKeeps DEF StartLost

\* A copy that is given another status keeps the rest.
LEMMA BecomesKeeps ==
    ASSUME TypeOK, NEW r \in Replicas, NEW s \in Live \cup Ended, NEW d,
           Decide(r, Becomes(copy[r], s), d)
    PROVE  Keeps(r)
<1> DEFINE e == Becomes(copy[r], s)
<1>1. e \in Rows /\ e.remote = copy[r].remote /\ e.retries = copy[r].retries
    BY StatusRow DEF TypeOK
<1>2. Wrote(r, e, FALSE)
    BY DEF Decide, Settle, Wrote
<1> QED BY <1>1, <1>2 DEF Keeps

\* An answer that names scan i.
LEMMA DoneNames ==
    ASSUME TypeOK, NEW r \in Replicas, NEW i \in Scans, StartDone(r, i), refOf'[i] = copy[r].retries
    PROVE  Names(r)
<1> DEFINE age == IF copy[r].origin = "started_at" THEN copy[r].age ELSE 0
           c == Row("starting", i, copy[r].retries, 0, "started_at", age)
<1>1. c \in Rows /\ c.remote = i /\ c.retries = copy[r].retries
    BY RunAssumption DEF TypeOK, Rows, Live, Row
<1>2. Wrote(r, c, FALSE)
    BY DEF StartDone, Decide, Settle, Wrote
<1> QED BY <1>1, <1>2 DEF Names

\* The calls, by their effect on the registry and on the copy.
LEMMA CallEffect ==
    ASSUME TypeOK, Registry, AskInv, NEW r \in Replicas, Calls(r)
    PROVE  /\ \/ Keeps(r) \/ Names(r) \/ Requeues(r) \/ Judges(r)
              \/ pc' = [pc EXCEPT ![r] = "enforce"] /\ UNCHANGED <<copy, found>>
                 /\ pc[r] = "advance"
           /\ \/ UNCHANGED <<scan, refOf, byRef>>
              \/ pc[r] = "enforce" /\ \E q \in Requests, i \in Scans, s \in {"queued", "busy"} :
                                         CreateScan(q, i, s)
<1>0. copy[r] \in Rows /\ copy[r].retries \in Refs
    BY RunAssumption DEF TypeOK, Rows
<1>1. CASE FailRuntime(r)
    BY <1>1, BecomesKeeps DEF FailRuntime, Ended, Verdicts
<1>2. CASE StartRun(r)
    <2> DEFINE known == Known(RunRef(copy[r]))
    <2>0. UNCHANGED <<scan, refOf, byRef>> /\ pc[r] = "advance"
        BY <1>2 DEF StartRun, Ask, serviceVars
    <2>1. known = byRef[copy[r].retries] /\ known \in Scans \cup {NoScan}
        BY <1>0 DEF Known, RunRef, TypeOK, ServiceTypeOK
    <2>2. CASE StartLost(r)
        BY <2>0, <2>2, LostKeeps
    <2>3. CASE known # NoScan /\ StartDone(r, known)
        <3>1. refOf'[known] = copy[r].retries /\ known \in Scans
            BY <1>0, <2>0, <2>1, <2>3 DEF Registry
        <3> QED BY <2>0, <2>3, <3>1, DoneNames
    <2>4. CASE known = NoScan /\ pc' = [pc EXCEPT ![r] = "enforce"] /\ UNCHANGED <<copy, found>>
        BY <2>0, <2>4
    <2> HIDE DEF known
    <2> QED BY <1>2, <2>2, <2>3, <2>4 DEF StartRun, known
<1>3. CASE Enforced(r)
    <2>0. pc[r] = "enforce" /\ call[r] \in Requests
        BY <1>3 DEF Enforced, TypeOK
    <2>1. CASE Refuse(call[r]) /\ Decide(r, Becomes(copy[r], "failed"), NoTime)
        BY <2>1, BecomesKeeps DEF Refuse, Ended, Verdicts
    <2>2. ASSUME NEW i \in Scans, CreateScan(call[r], i, "queued"),
                 StartDone(r, i) \/ StartLost(r)
          PROVE  Keeps(r) \/ Names(r)
        <3>1. asks[call[r]].ref = copy[r].retries
            BY <2>0, <2>2 DEF CreateScan, AskInv, AskOf
        <3>2. refOf'[i] = copy[r].retries
            BY <2>2, <3>1 DEF CreateScan, TypeOK, ServiceTypeOK
        <3> QED BY <2>2, <3>2, DoneNames, LostKeeps
    <2>3. ASSUME Decide(r, Becomes(copy[r], "queued"), Backoff) \/ StartLost(r)
          PROVE  Keeps(r)
        BY <2>3, BecomesKeeps, LostKeeps DEF Live
    <2> QED BY <1>3, <2>0, <2>1, <2>2, <2>3 DEF Enforced
<1>g. CASE GiveUp(r)
    BY <1>g, LostKeeps DEF GiveUp, serviceVars
<1>4. CASE PollRun(r)
    <2> DEFINE c == copy[r]
               s == scan[c.remote]
    <2>0. UNCHANGED <<scan, refOf, byRef>> /\ c.remote # NoScan
        BY <1>4 DEF PollRun, serviceVars
    <2>1. CASE TransportError(r, c)
        BY <2>0, <2>1, TransportKeeps
    <2>2. CASE Decide(r, Reached(c, s), Interval)
        <3>1. /\ Reached(c, s) \in Rows
              /\ Reached(c, s).remote = c.remote /\ Reached(c, s).retries = c.retries
            BY <1>0, RunAssumption DEF Rows, Live, Row, Reached
        <3>2. Wrote(r, Reached(c, s), FALSE)
            BY <2>2 DEF Decide, Settle, Wrote
        <3> QED BY <2>0, <3>1, <3>2 DEF Keeps
    <2>3. CASE s \in Terminal /\ RetriesEngagement(c, s) /\ Decide(r, Requeued(c), 0)
        <3>1. /\ Requeued(c) \in Rows
              /\ Requeued(c).remote = NoScan /\ Requeued(c).retries = c.retries + 1
            BY <1>0, <2>3, RunAssumption DEF Rows, Live, Requeued, RetriesEngagement, Row
        <3>2. Wrote(r, Requeued(c), FALSE)
            BY <2>3 DEF Decide, Settle, Wrote
        <3> QED BY <2>0, <2>3, <3>1, <3>2 DEF Requeues
    <2>4. CASE s \in Terminal /\ Settle(r, Becomes(c, VerdictOf(s)), NoTime, TRUE)
        <3>1. VerdictOf(s) \in Ended
            BY <2>4 DEF VerdictOf, Terminal, Ended, Verdicts
        <3>2. /\ Becomes(c, VerdictOf(s)) \in Rows
              /\ Becomes(c, VerdictOf(s)).remote = c.remote /\ Becomes(c, VerdictOf(s)).retries = c.retries
            BY <1>0, <3>1, StatusRow
        <3>3. Wrote(r, Becomes(c, VerdictOf(s)), TRUE)
            BY <2>4 DEF Settle, Wrote
        <3> QED BY <2>0, <2>4, <3>2, <3>3 DEF Judges
    <2> QED BY <1>4, <2>0, <2>1, <2>2, <2>3, <2>4 DEF PollRun
<1> QED BY <1>1, <1>2, <1>3, <1>g, <1>4 DEF Calls

\* Initially there is no scan.
LEMMA InitScans == Init => Registry /\ AskInv /\ ScanInv
    BY RunAssumption DEF Init, ServiceInit, Registry, AskInv, Asked, NoAsk, ScanInv, Current, Works, NewRow, Row, Pending

\* The service's own steps create no scan, end some and reopen none.
LEMMA ServiceEnds ==
    ASSUME TypeOK, RunnerStep \/ Reboot
    PROVE  /\ UNCHANGED <<refOf, byRef>>
           /\ \A i \in Scans : /\ scan[i] \in Terminal \cup {"none"} => scan'[i] = scan[i]
                               /\ scan[i] \in Pending => scan'[i] \in Pending \cup Terminal
<1> USE DEF TypeOK, ServiceTypeOK, Pending, Terminal
<1>1. CASE RunnerStep
    BY <1>1 DEF RunnerStep, Launch, Finish
<1>2. CASE Reboot
    BY <1>2 DEF Reboot, Restart
<1> QED BY <1>1, <1>2

\* What the service does for a copy c leaves c's scans as c knows them.
StaysCurrent(c) ==
    /\ \A k \in Rows : k.retries = c.retries /\ (k.remote = NoScan \/ refOf'[k.remote] = k.retries)
                        => Current(k)'
    /\ c.remote # NoScan => refOf'[c.remote] = refOf[c.remote]
    /\ \A i \in Scans : scan[i] \in Terminal => scan'[i] = scan[i]

\* A scan created under a free ref keeps the registry in order.
LEMMA CreateRegisters ==
    ASSUME TypeOK, Registry, NEW q \in Requests, NEW i \in Scans, NEW st \in {"queued", "busy"},
           CreateScan(q, i, st), byRef[asks[q].ref] = NoScan
    PROVE  Registry'
<1> DEFINE f == asks[q].ref
<1>0. f \in Refs /\ f # NoRef
    BY DEF CreateScan, Asked, TypeOK, ServiceTypeOK
<1>1. /\ scan[i] = "none" /\ refOf[i] = NoRef
      /\ scan' = [scan EXCEPT ![i] = st] /\ refOf' = [refOf EXCEPT ![i] = f]
      /\ byRef' = [byRef EXCEPT ![f] = i]
    BY DEF CreateScan, Registry
<1>2. i # NoScan /\ byRef[f] = NoScan
    BY ServiceAssumption DEF Scans
<1> HIDE DEF f
<1>3. \A j \in Scans : refOf[j] # f
    BY <1>0, <1>2 DEF Registry, Scans
<1>4. \A j \in Scans : (scan[j] = "none" <=> refOf[j] = NoRef)' /\ (refOf[j] # NoRef => byRef[refOf[j]] = j)'
    <2> TAKE j \in Scans
    <2>1. CASE j = i
        BY <1>0, <1>1, <2>1 DEF TypeOK, ServiceTypeOK
    <2>2. CASE j # i
        <3>1. scan'[j] = scan[j] /\ refOf'[j] = refOf[j]
            BY <1>1, <2>2 DEF TypeOK, ServiceTypeOK
        <3>2. refOf[j] # NoRef => byRef'[refOf[j]] = byRef[refOf[j]]
            BY <1>0, <1>1, <1>3 DEF TypeOK, ServiceTypeOK
        <3> QED BY <3>1, <3>2 DEF Registry
    <2> QED BY <2>1, <2>2
<1>5. \A g \in Refs : (byRef[g] # NoScan => refOf[byRef[g]] = g)'
    <2> TAKE g \in Refs
    <2>1. CASE g = f
        BY <1>0, <1>1, <2>1 DEF TypeOK, ServiceTypeOK
    <2>2. CASE g # f
        <3>1. byRef'[g] = byRef[g]
            BY <1>1, <2>2 DEF TypeOK, ServiceTypeOK
        <3>2. byRef[g] # NoScan => byRef[g] \in Scans /\ refOf[byRef[g]] = g
            BY DEF Registry, TypeOK, ServiceTypeOK
        <3>3. byRef[g] # NoScan => byRef[g] # i
            BY <1>1, <3>2, RunAssumption
        <3> QED BY <1>1, <3>1, <3>2, <3>3 DEF TypeOK, ServiceTypeOK
    <2> QED BY <2>1, <2>2
<1> QED BY <1>4, <1>5 DEF Registry

\* If the ref is that of c, the scans are still as c knows them.
LEMMA CreateStays ==
    ASSUME TypeOK, Registry, NEW c \in Rows, Current(c), byRef[c.retries] = NoScan,
           NEW q \in Requests, NEW i \in Scans, NEW st \in {"queued", "busy"},
           CreateScan(q, i, st), asks[q].ref = c.retries
    PROVE  StaysCurrent(c)
<1>0. c.retries \in Refs /\ c.remote \in Scans \cup {NoScan} /\ c.retries \in Nat
    BY RunAssumption DEF Rows
<1>1. /\ scan[i] = "none" /\ refOf[i] = NoRef
      /\ scan' = [scan EXCEPT ![i] = st] /\ refOf' = [refOf EXCEPT ![i] = c.retries]
    BY DEF CreateScan, Registry
<1>2. ASSUME NEW k \in Rows, k.retries = c.retries,
             k.remote = NoScan \/ refOf'[k.remote] = k.retries
      PROVE  Current(k)'
    BY <1>0, <1>1, <1>2 DEF Current, TypeOK, ServiceTypeOK
<1>3. c.remote # NoScan => refOf'[c.remote] = refOf[c.remote]
    BY <1>0, <1>1 DEF Current, TypeOK, ServiceTypeOK
<1>4. \A j \in Scans : scan[j] \in Terminal => scan'[j] = scan[j]
    BY <1>1 DEF Terminal, TypeOK, ServiceTypeOK
<1> QED BY <1>2, <1>3, <1>4 DEF StaysCurrent

\* Every call keeps the registry and what the copies say of it.
LEMMA CallScans ==
    ASSUME TypeOK, TypeOK', LeaseInv, Registry, AskInv, ScanInv, NEW r \in Replicas, Calls(r)
    PROVE  Registry' /\ ScanInv'
<1>c. PICK c \in Rows : c = copy[r]
    BY DEF TypeOK
<1> USE <1>c, RunAssumption DEF rowVars, Works
<1>0. OneHolder /\ HolderLeased /\ CopyStatus /\ Stored
    BY DEF LeaseInv
<1>1. /\ pc[r] \in {"advance", "enforce"} /\ c.status \in Live
      /\ c.retries \in Refs /\ c.remote \in Scans \cup {NoScan} /\ c.retries \in Nat
    <2>1. c.retries \in Refs /\ c.remote \in Scans \cup {NoScan} /\ c.retries \in Nat
        BY DEF Rows
    <2>2. pc[r] \in {"advance", "enforce"}
        BY CallDecides
    <2> QED BY <1>0, <2>1, <2>2 DEF CopyStatus
<1>2. UNCHANGED <<row, findings>> /\ findings = 0
    BY <1>0, <1>1, CallDecides DEF Decided, Settle, Stored, TypeOK
<1>3. \A s \in Replicas : s # r => pc[s] = "idle"
    BY <1>0, <1>1 DEF OneHolder, Holds
<1>4. Current(c) /\ (row.status \in Live => Current(row) /\ c.retries = row.retries /\ c.remote = row.remote)
    BY <1>1 DEF ScanInv
<1>5. Registry' /\ StaysCurrent(c)
    <2>1. CASE UNCHANGED <<scan, refOf, byRef>>
        BY <1>1, <1>4, <2>1 DEF Registry, StaysCurrent, Current
    <2>2. ASSUME NEW q \in Requests, NEW i \in Scans, NEW st \in {"queued", "busy"},
                 pc[r] = "enforce", CreateScan(q, i, st)
          PROVE  Registry' /\ StaysCurrent(c)
        <3>1. byRef[asks[q].ref] = NoScan /\ asks[q].ref = c.retries
            BY <2>2 DEF CreateScan, AskInv, AskOf
        <3> QED BY <1>4, <2>2, <3>1, CreateRegisters, CreateStays
    <2> QED BY <1>1, <2>1, <2>2, CallEffect
<1>6. row.status \in Live => Current(row)'
    <2>1. row \in Rows
        BY DEF TypeOK
    <2>2. ASSUME row.status \in Live, row.remote # NoScan PROVE refOf'[row.remote] = row.retries
        BY <1>4, <1>5, <2>1, <2>2 DEF Current, StaysCurrent
    <2> QED BY <1>2, <1>4, <1>5, <2>1, <2>2 DEF StaysCurrent
<1>7. ASSUME NEW k \in Rows, NEW f \in BOOLEAN, Wrote(r, k, f), Current(k)',
             f => k.remote # NoScan /\ scan'[k.remote] \in Terminal
      PROVE  Registry' /\ ScanInv'
    <2>1. /\ \A s \in Replicas : s # r => pc'[s] = "idle"
          /\ pc'[r] = "write" /\ copy'[r] = k /\ found'[r] = f
        BY <1>3, <1>7 DEF Wrote, TypeOK
    <2>2. \A s \in Replicas : Works(s)' => Current(copy[s])'
        BY <1>7, <2>1 DEF Current
    <2>3. ScanInv'
        BY <1>2, <1>6, <1>7, <2>1, <2>2 DEF ScanInv
    <2> QED BY <1>5, <2>3
<1>8. CASE Keeps(r)
    <2>1. PICK k \in Rows : Wrote(r, k, FALSE) /\ k.retries = c.retries /\ k.remote = c.remote
        BY <1>8 DEF Keeps
    <2>2. Current(k)'
        BY <1>1, <1>4, <1>5, <2>1 DEF StaysCurrent, Current
    <2> QED BY <1>7, <2>1, <2>2
<1>9. CASE Names(r)
    <2>1. PICK k \in Rows : Wrote(r, k, FALSE) /\ k.retries = c.retries /\ refOf'[k.remote] = k.retries
        BY <1>9 DEF Names
    <2>2. Current(k)'
        BY <1>5, <2>1 DEF StaysCurrent
    <2> QED BY <1>7, <2>1, <2>2
<1>10. CASE Requeues(r)
    <2>1. PICK k \in Rows : /\ Wrote(r, k, FALSE) /\ k.retries = c.retries + 1
                            /\ k.remote = NoScan /\ c.remote # NoScan /\ scan[c.remote] \in Terminal
        BY <1>10 DEF Requeues
    <2>2. Current(c)'
        BY <1>1, <1>4, <1>5 DEF StaysCurrent, Current
    <2>3. refOf'[c.remote] = c.retries /\ scan'[c.remote] \in Terminal
        BY <1>1, <1>4, <1>5, <2>1 DEF StaysCurrent, Current
    <2>4. \A i \in Scans : refOf'[i] = c.retries => i = c.remote
        BY <1>1, <1>5, <2>1, <2>3 DEF Registry
    <2>5. Current(k)'
        <3>1. \A i \in Scans : refOf'[i] \in Int /\ refOf'[i] <= c.retries
            BY <2>2 DEF Current, TypeOK, ServiceTypeOK
        <3>2. \A i \in Scans : refOf'[i] # NoRef /\ refOf'[i] < c.retries => scan'[i] \in Terminal
            BY <2>2 DEF Current
        <3> QED BY <1>1, <2>1, <2>3, <2>4, <3>1, <3>2 DEF Current
    <2> QED BY <1>7, <2>1, <2>5
<1>11. CASE Judges(r)
    <2>1. PICK k \in Rows : /\ Wrote(r, k, TRUE) /\ k.retries = c.retries /\ k.remote = c.remote
                            /\ k.remote # NoScan /\ scan[k.remote] \in Terminal
        BY <1>11 DEF Judges
    <2>2. Current(k)'
        BY <1>1, <1>4, <1>5, <2>1 DEF StaysCurrent, Current
    <2>3. scan'[k.remote] \in Terminal
        BY <1>1, <1>5, <2>1 DEF StaysCurrent
    <2> QED BY <1>7, <2>1, <2>2, <2>3
<1>12. CASE pc' = [pc EXCEPT ![r] = "enforce"] /\ UNCHANGED <<copy, found>> /\ pc[r] = "advance"
    <2>1. /\ \A s \in Replicas : s # r => pc'[s] = "idle"
          /\ pc'[r] = "enforce" /\ copy'[r] = c
        BY <1>3, <1>12 DEF TypeOK
    <2>2. Current(c)'
        BY <1>1, <1>4, <1>5 DEF StaysCurrent, Current
    <2>3. \A s \in Replicas : Works(s)' => Current(copy[s])'
        BY <2>1, <2>2 DEF Current
    <2>4. ScanInv'
        BY <1>2, <1>4, <1>6, <2>1, <2>3 DEF ScanInv
    <2> QED BY <1>5, <2>4
<1> QED BY <1>1, <1>8, <1>9, <1>10, <1>11, <1>12, CallEffect

\* So does the end of a start_scan that nobody waits for.
LEMMA AloneScans ==
    ASSUME TypeOK, Registry, AskInv, ScanInv, NEW q \in Requests, EnforcedAlone(q)
    PROVE  Registry' /\ ScanInv'
<1> USE DEF rowVars, workVars, Works
<1>0. UNCHANGED <<row, wait, findings, pc, copy, next, found, call>> /\ \A r \in Replicas : call[r] # q
    BY DEF EnforcedAlone
<1>1. CASE Refuse(q)
    BY <1>0, <1>1 DEF Refuse, Registry, ScanInv, Current
<1>2. ASSUME NEW i \in Scans, NEW st \in {"queued", "busy"}, CreateScan(q, i, st)
      PROVE  Registry' /\ ScanInv'
    <2>0. AskOf(q)
        BY <1>2 DEF CreateScan, AskInv
    <2>1. Registry'
        BY <1>2, <2>0, CreateRegisters DEF AskOf
    <2>2. ASSUME NEW c \in Rows, Current(c), c.retries = asks[q].ref, c.remote = NoScan
          PROVE  Current(c)'
        BY <1>2, <2>0, <2>2, CreateStays DEF AskOf, StaysCurrent
    <2>3. row.status \in Live => Current(row)'
        <3>1. row \in Rows /\ (row.status \in Live => Current(row))
            BY DEF ScanInv, TypeOK
        <3>2. row.status \in Live => row.retries = asks[q].ref /\ row.remote = NoScan
            BY <2>0 DEF AskOf
        <3>3. row.status \in Live => \E c \in Rows : c = row /\ Current(c)'
            BY <2>2, <3>1, <3>2
        <3> QED BY <1>0, <3>3 DEF Current
    <2>4. \A s \in Replicas : Works(s) => Current(copy[s])'
        BY <1>0, <2>0, <2>2 DEF AskOf, ScanInv, TypeOK
    <2>5. findings = 0 /\ \A s \in Replicas : pc[s] = "write" => ~found[s]
        BY <2>0 DEF AskOf, ScanInv
    <2>6. (row.status \in Live => Current(row))' /\ \A s \in Replicas : (Works(s) => Current(copy[s]))'
        BY <1>0, <2>3, <2>4 DEF Current
    <2>7. ScanInv'
        BY <1>0, <2>5, <2>6 DEF ScanInv
    <2> QED BY <2>1, <2>7
<1> QED BY <1>1, <1>2 DEF EnforcedAlone

\* So does every other step.
LEMMA NextScans ==
    ASSUME TypeOK, TypeOK', LeaseInv, LeaseInv', Registry, AskInv, ScanInv, [Next]_vars
    PROVE  Registry' /\ ScanInv'
<1> USE RunAssumption DEF rowVars, workVars, cancelVars, Works
<1>0. OneHolder /\ HolderLeased /\ CopyStatus /\ Stored
    BY DEF LeaseInv
<1>1. ASSUME NEW r \in Replicas, Calls(r)
      PROVE  Registry' /\ ScanInv'
    BY <1>1, CallScans
<1>2. ASSUME NEW r \in Replicas, ClaimDueRuns(r) PROVE Registry' /\ ScanInv'
    <2>1. /\ pc' = [pc EXCEPT ![r] = "advance"] /\ copy' = [copy EXCEPT ![r] = row]
          /\ UNCHANGED <<serviceVars, row, findings>> /\ row.status \in Live
        BY <1>2 DEF ClaimDueRuns, Due
    <2>2. UNCHANGED <<scan, refOf, byRef>>
        BY <2>1 DEF serviceVars
    <2>3. \A s \in Replicas : IF s = r THEN pc'[s] = "advance" /\ copy'[s] = row
                              ELSE pc'[s] = pc[s] /\ copy'[s] = copy[s]
        BY <2>1 DEF TypeOK
    <2>4. Registry' /\ UNCHANGED found
        BY <1>2, <2>2 DEF ClaimDueRuns, Registry
    <2>5. \A s \in Replicas : Works(s)' => Current(copy[s])'
        BY <2>1, <2>2, <2>3 DEF ScanInv, Current
    <2>6. ScanInv'
        BY <2>1, <2>2, <2>3, <2>4, <2>5 DEF ScanInv, Current
    <2> QED BY <2>4, <2>6
<1>3. ASSUME NEW r \in Replicas, Write(r) PROVE Registry' /\ ScanInv'
    <2>0. /\ pc[r] = "write" /\ copy[r].status \in (IF next[r] = NoTime THEN Ended ELSE Live)
          /\ findings = 0 /\ UNCHANGED <<scan, refOf, byRef>> /\ Current(copy[r])
          /\ copy[r] \in Rows
        BY <1>0, <1>3 DEF Write, CopyStatus, Stored, ScanInv, serviceVars, TypeOK
    <2>1. CASE next[r] # NoTime /\ Update(r) /\ Leave(r)
        <3>1. \A s \in Replicas : pc'[s] = "idle"
            BY <1>0, <2>0, <2>1, LastHolder DEF Holds
        <3>2. findings' = 0 /\ row' = copy[r]
            BY <2>0, <2>1 DEF Update
        <3> QED BY <2>0, <3>1, <3>2 DEF Registry, ScanInv, Current
    <2>2. CASE next[r] = NoTime /\ Finalize(r) /\ (Leave(r) \/ pc' = [pc EXCEPT ![r] = "sync"])
        <3>1. \A s \in Replicas : pc'[s] \in {"sync", "idle"}
            BY <1>0, <2>0, <2>2, LastHolder DEF OneHolder, TypeOK, Holds
        <3>2. row'.status \notin Live /\ (findings' > 0 => found[r])
            BY <2>0, <2>2 DEF Finalize, Live, Ended, Verdicts
        <3>3. ASSUME found[r], NEW i \in Scans PROVE scan[i] \notin Pending
            <4>1. copy[r].remote # NoScan /\ scan[copy[r].remote] \in Terminal
                BY <2>0, <3>3 DEF ScanInv
            <4>a. copy[r].retries \in Nat
                BY <2>0, RunAssumption DEF Rows
            <4>b. refOf[i] \in Int
                BY <1>0, RunAssumption DEF TypeOK, ServiceTypeOK
            <4>c. refOf[i] <= copy[r].retries
                BY <2>0, <4>a DEF Current
            <4>2. CASE refOf[i] = NoRef
                BY <4>2 DEF Registry, Pending
            <4>3. CASE refOf[i] # NoRef /\ refOf[i] < copy[r].retries
                BY <2>0, <4>3 DEF Current, Pending, Terminal
            <4>4. CASE refOf[i] = copy[r].retries
                <5>1. copy[r].remote \in Scans /\ refOf[copy[r].remote] = copy[r].retries
                    BY <2>0, <4>1 DEF Current, Rows
                <5>2. i = copy[r].remote
                    BY <4>a, <4>4, <5>1 DEF Registry
                <5> QED BY <4>1, <5>2 DEF Pending, Terminal
            <4> QED BY <4>a, <4>b, <4>c, <4>2, <4>3, <4>4
        <3> QED BY <2>0, <3>1, <3>2, <3>3 DEF Registry, ScanInv
    <2>3. CASE Leave(r) /\ UNCHANGED <<row, wait, findings>>
        <3>1. \A s \in Replicas : pc'[s] = "idle"
            BY <1>0, <2>0, <2>3, LastHolder DEF Holds
        <3> QED BY <2>0, <2>3, <3>1 DEF Registry, ScanInv, Current
    <2> QED BY <1>3, <2>1, <2>2, <2>3 DEF Write
<1>4. ASSUME NEW r \in Replicas, SyncBoard(r) \/ Crash(r) PROVE Registry' /\ ScanInv'
    <2>1. \A s \in Replicas : pc'[s] = "idle"
        BY <1>0, <1>4, LastHolder DEF SyncBoard, Crash, Holds
    <2>2. UNCHANGED <<scan, refOf, byRef, row, findings>>
        BY <1>4 DEF SyncBoard, Crash, serviceVars
    <2> QED BY <2>1, <2>2 DEF Registry, ScanInv, Current
<1>5. CASE UNCHANGED <<scan, refOf, byRef, rowVars, pc, copy, found>>
    BY <1>5 DEF Registry, ScanInv, Current
<1>6. CASE CancelWrite
    <2>1. row'.status = "cancelled" /\ UNCHANGED <<findings, pc, copy, found, scan, refOf, byRef>>
        BY <1>6, StatusRow DEF CancelWrite, TypeOK, Ended, serviceVars
    <2> QED BY <2>1 DEF Registry, ScanInv, Current, Live
<1>7. CASE Tick
    <2>1. /\ row'.status = row.status /\ row'.remote = row.remote /\ row'.retries = row.retries
          /\ \A s \in Replicas : /\ copy'[s].status = copy[s].status /\ copy'[s].remote = copy[s].remote
                                  /\ copy'[s].retries = copy[s].retries
        BY <1>7, OlderRow DEF Tick, TypeOK
    <2>2. UNCHANGED <<findings, pc, found, scan, refOf, byRef>>
        BY <1>7 DEF Tick, serviceVars
    <2> QED BY <2>1, <2>2 DEF Registry, ScanInv, Current
<1>8. CASE (RunnerStep \/ Reboot) /\ UNCHANGED <<rowVars, pc, copy, found>>
    <2>1. /\ UNCHANGED <<refOf, byRef>>
          /\ \A i \in Scans : /\ scan[i] \in Terminal \cup {"none"} => scan'[i] = scan[i]
                              /\ scan[i] \in Pending => scan'[i] \in Pending \cup Terminal
          /\ \A i \in Scans : scan[i] \in {"none"} \cup Pending \cup Terminal
        BY <1>8, ServiceEnds DEF TypeOK, ServiceTypeOK
    <2>2. \A i \in Scans : /\ (scan'[i] = "none" <=> scan[i] = "none")
                           /\ scan[i] \in Terminal => scan'[i] = scan[i]
                           /\ scan[i] \notin Pending => scan'[i] \notin Pending
        BY <2>1 DEF Pending, Terminal
    <2>3. Registry'
        BY <1>8, <2>1, <2>2 DEF Registry
    <2>4. (row.status \in Live => Current(row)') /\ \A s \in Replicas : Works(s) => Current(copy[s])'
        BY <1>8, <2>1, <2>2 DEF ScanInv, Current
    <2>5. \A s \in Replicas : copy[s].remote \in Scans \cup {NoScan}
        BY DEF TypeOK, Rows
    <2>6. \A s \in Replicas : pc[s] = "write" /\ found[s] =>
              copy[s].remote # NoScan /\ scan'[copy[s].remote] \in Terminal
        BY <2>2, <2>5 DEF ScanInv, Terminal
    <2>7. ScanInv'
        BY <1>8, <2>1, <2>2, <2>4, <2>6 DEF ScanInv
    <2> QED BY <2>3, <2>7
<1>9. CASE Cancel \/ UNCHANGED vars
    BY <1>5, <1>9 DEF Cancel, vars, serviceVars
<1>10. ASSUME NEW q \in Requests, EnforcedAlone(q) PROVE Registry' /\ ScanInv'
    BY <1>10, AloneScans
<1> QED BY <1>1, <1>2, <1>3, <1>4, <1>6, <1>7, <1>8, <1>9, <1>10
        DEF Next, ReplicaStep, Calls, Reboot

\* How a call uses the request slots.
LEMMA CallAsks ==
    ASSUME TypeOK, NEW r \in Replicas, Calls(r)
    PROVE  \/ UNCHANGED asks /\ pc[r] = "advance"
           \/ UNCHANGED asks /\ GiveUp(r)
           \/ Asks(r) /\ pc[r] = "advance"
           \/ \E q \in Requests : Asked(q) /\ asks' = [asks EXCEPT ![q] = NoAsk]
    BY DEF TypeOK, Calls, FailRuntime, StartRun, Enforced, GiveUp, PollRun, serviceVars,
           Asks, Known, RunRef, Refuse, CreateScan

\* A start_scan past its look-up keeps its ref to itself.
LEMMA NextAsks ==
    ASSUME LeaseOutlastsBatch, TypeOK, TypeOK', LeaseInv, LeaseInv', AskInv, ScanInv, [Next]_vars
    PROVE  AskInv'
<1> SUFFICES ASSUME NEW q \in Requests, Asked(q)' PROVE AskOf(q)'
    BY DEF AskInv
<1> USE RunAssumption, ServiceAssumption DEF rowVars, workVars, cancelVars, Works, Holds
<1>0. OneHolder /\ HolderLeased /\ CopyStatus /\ Stored
    BY DEF LeaseInv
<1>t. asks[q].left \in 0..ScopeTime /\ asks \in [Requests -> [ref : Refs \cup {NoRef}, left : 0..ScopeTime]]
    BY DEF TypeOK, ServiceTypeOK
<1>a. UNCHANGED asks => Asked(q) /\ AskOf(q)
    BY DEF Asked, AskInv
<1>f. ASSUME NEW p \in Requests, Asked(p), asks' = [asks EXCEPT ![p] = NoAsk] PROVE FALSE
    BY <1>f, <1>t DEF Asked, AskInv, AskOf, NoAsk
<1>1. ASSUME NEW r \in Replicas, Calls(r) PROVE AskOf(q)'
    <2>0. /\ UNCHANGED <<row, wait, findings>> /\ findings = 0
          /\ \A s \in Replicas : s # r => pc[s] = "idle"
          /\ pc[r] \in {"advance", "enforce"}
        BY <1>0, <1>1, CallDecides DEF Decided, Settle, Stored, OneHolder, TypeOK
    <2>1. CASE UNCHANGED asks /\ pc[r] = "advance"
        BY <1>a, <2>1 DEF AskOf
    <2>2. CASE UNCHANGED asks /\ GiveUp(r)
        <3>1. AskOf(q) /\ UNCHANGED <<byRef, asks>> /\ pc[r] = "enforce"
            BY <1>a, <2>2 DEF GiveUp, serviceVars
        <3>2. Keeps(r) /\ (next'[r] = NoTime \/ next'[r] >= Backoff)
            BY <2>2, LostKeeps DEF GiveUp
        <3>3. /\ copy'[r].retries = copy[r].retries /\ copy'[r].remote = copy[r].remote
              /\ pc'[r] = "write" /\ \A s \in Replicas : s # r => pc'[s] = "idle"
            BY <2>0, <3>2 DEF Keeps, Wrote, TypeOK
        <3>4. next'[r] = NoTime \/ asks[q].left < next'[r]
            BY <1>t, <3>2, LeaseOutlastsBatch DEF LeaseOutlastsBatch, TypeOK
        <3> QED BY <2>0, <3>1, <3>3, <3>4 DEF AskOf, Asked
    <2>3. CASE Asks(r) /\ pc[r] = "advance"
        <3>0. \A p \in Requests : ~Asked(p)
            BY <2>3 DEF AskInv, AskOf
        <3>1. PICK p \in Requests : Ask(copy[r].retries, p) /\ call' = [call EXCEPT ![r] = p]
            BY <2>3 DEF Asks
        <3>2. p = q /\ asks' = [asks EXCEPT ![q] = [ref |-> copy[r].retries, left |-> ScopeTime]]
            BY <1>t, <3>0, <3>1 DEF Ask, Asked
        <3>3. /\ asks'[q].ref = copy[r].retries /\ asks'[q].left = ScopeTime
              /\ \A p1 \in Requests : p1 # q => ~Asked(p1)'
            BY <1>t, <3>0, <3>2 DEF Asked
        <3>4. UNCHANGED byRef /\ byRef[copy[r].retries] = NoScan /\ copy[r].remote = NoScan
            BY <2>3, <3>1 DEF Asks, Ask
        <3>5. /\ pc'[r] = "enforce" /\ copy'[r] = copy[r] /\ call'[r] = q
              /\ \A s \in Replicas : s # r => pc'[s] = "idle"
            <4>1. ~Decided(r)
                BY <1>t, <2>3, <3>1, <3>2 DEF Decided, Settle, TypeOK, Requests
            <4> QED BY <1>1, <2>0, <3>1, <3>2, <4>1, CallDecides DEF TypeOK
        <3>a. wait \in Int /\ left[r] \in Nat
            BY DEF TypeOK
        <3>6. row.status \in Live =>
                 row.retries = copy[r].retries /\ row.remote = NoScan /\ ScopeTime < wait
            BY <1>0, <2>3, <3>4, <3>a DEF ScanInv, HolderLeased, Live
        <3> QED BY <2>0, <3>3, <3>4, <3>5, <3>6 DEF AskOf
    <2> QED BY <1>1, <1>f, <2>1, <2>2, <2>3, CallAsks
<1>2. ASSUME NEW r \in Replicas, ClaimDueRuns(r) PROVE FALSE
    <2>1. AskOf(q)
        BY <1>2, <1>a DEF ClaimDueRuns, serviceVars
    <2> QED BY <1>2, <1>t, <2>1 DEF ClaimDueRuns, Due, AskOf, TypeOK
<1>3. ASSUME NEW r \in Replicas, Write(r) PROVE AskOf(q)'
    <2>0. /\ AskOf(q) /\ UNCHANGED <<asks, byRef>> /\ pc[r] = "write"
          /\ copy[r].status \in (IF next[r] = NoTime THEN Ended ELSE Live)
        BY <1>3, <1>a, <1>0 DEF Write, serviceVars, CopyStatus
    <2>1. ~found[r]
        BY <2>0 DEF ScanInv, AskOf
    <2>2. findings' = 0
        BY <1>3, <2>0, <2>1 DEF Write, Finalize, Update, AskOf
    <2>3. \A s \in Replicas : pc'[s] \in {"idle", "sync"}
        <3>1. Leave(r) \/ pc' = [pc EXCEPT ![r] = "sync"]
            BY <1>3 DEF Write
        <3> QED BY <1>0, <2>0, <3>1, LastHolder DEF OneHolder, TypeOK
    <2>4. row'.status \in Live =>
             row'.retries = asks[q].ref /\ row'.remote = NoScan /\ asks[q].left < wait'
        <3>1. CASE next[r] # NoTime /\ Update(r)
            BY <2>0, <3>1 DEF Update, AskOf
        <3>2. CASE next[r] = NoTime /\ Finalize(r)
            BY <2>0, <3>2 DEF Finalize, Live, Ended, Verdicts
        <3>3. CASE UNCHANGED <<row, wait>>
            BY <2>0, <3>3 DEF AskOf
        <3> QED BY <1>3, <3>1, <3>2, <3>3 DEF Write
    <2> QED BY <2>0, <2>2, <2>3, <2>4 DEF AskOf, Asked
<1>4. ASSUME NEW r \in Replicas, SyncBoard(r) \/ Crash(r) PROVE AskOf(q)'
    <2>1. \A s \in Replicas : pc'[s] = "idle"
        BY <1>0, <1>4, LastHolder DEF SyncBoard, Crash
    <2>2. UNCHANGED <<asks, byRef, row, wait, findings>>
        BY <1>4 DEF SyncBoard, Crash, serviceVars
    <2> QED BY <1>a, <2>1, <2>2 DEF AskOf, Asked
<1>5. CASE UNCHANGED <<asks, byRef, rowVars, workVars>>
    BY <1>5, <1>a DEF AskOf, Asked
<1>6. CASE CancelWrite
    <2>1. row'.status = "cancelled" /\ UNCHANGED <<asks, byRef, findings, workVars>>
        BY <1>6, StatusRow DEF CancelWrite, TypeOK, Ended, serviceVars
    <2> QED BY <1>a, <2>1 DEF AskOf, Asked, Live
<1>7. CASE Tick
    <2>1. /\ row'.status = row.status /\ row'.remote = row.remote /\ row'.retries = row.retries
          /\ \A s \in Replicas : copy'[s].remote = copy[s].remote /\ copy'[s].retries = copy[s].retries
        BY <1>7, OlderRow DEF Tick, TypeOK
    <2>2. \A p \in Requests : asks'[p].ref = asks[p].ref
        BY <1>7, <1>t DEF Tick
    <2>3. Asked(q) /\ asks'[q].left = asks[q].left - 1
        BY <1>7, <1>t, <2>2 DEF Tick, Asked
    <2>a. wait \in Int /\ wait' = (IF wait > 0 THEN wait - 1 ELSE wait)
        BY <1>7 DEF Tick, TypeOK
    <2>4. row.status \in Live => asks'[q].left < wait'
        BY <1>t, <2>3, <2>a DEF AskInv, AskOf
    <2>5. \A s \in Replicas : pc[s] = "write" => next[s] = NoTime \/ asks'[q].left < next[s]
        BY <1>t, <2>3 DEF AskInv, AskOf, TypeOK
    <2>6. UNCHANGED <<byRef, findings, pc, next, call>>
        BY <1>7 DEF Tick
    <2> QED BY <2>1, <2>2, <2>3, <2>4, <2>5, <2>6 DEF AskInv, AskOf, Asked
<1>8. CASE Reboot
    BY <1>8 DEF Reboot, Restart, Asked, NoAsk
<1>9. ASSUME NEW p \in Requests, EnforcedAlone(p) PROVE FALSE
    BY <1>9, <1>f DEF EnforcedAlone, Refuse, CreateScan
<1>10. CASE RunnerStep /\ UNCHANGED <<rowVars, workVars, cancelVars, failures>>
    BY <1>5, <1>10 DEF RunnerStep, Launch, Finish
<1>11. CASE Cancel \/ UNCHANGED vars
    BY <1>5, <1>11 DEF Cancel, vars, serviceVars
<1> HIDE DEF rowVars, workVars, cancelVars
<1> QED BY <1>1, <1>2, <1>3, <1>4, <1>6, <1>7, <1>8, <1>9, <1>10, <1>11 DEF Next, ReplicaStep, Calls

(***************************************************************************)
(* The theorems.                                                           *)
(***************************************************************************)
\* Types are kept, whatever the lease: in particular no run uses more than
\* its engagement retries.
THEOREM Typing == Spec => []TypeOK
<1>1. TypeOK /\ [Next]_vars => TypeOK'
    BY NextTyping
<1> QED BY <1>1, InitTyping, PTL DEF Spec

\* The invariant holds throughout, if the lease outlasts the batch.
LEMMA Invariance ==
    ASSUME LeaseOutlastsBatch
    PROVE  Spec => [](TypeOK /\ LeaseInv /\ Registry /\ AskInv /\ ScanInv)
<1>1. Init => TypeOK /\ LeaseInv /\ Registry /\ AskInv /\ ScanInv
    BY InitTyping, InitLease, InitScans
<1>2. TypeOK /\ LeaseInv /\ Registry /\ AskInv /\ ScanInv /\ [Next]_vars
          => TypeOK' /\ LeaseInv' /\ Registry' /\ AskInv' /\ ScanInv'
    BY LeaseOutlastsBatch, NextTyping, NextLease, NextScans, NextAsks
<1> QED BY <1>1, <1>2, PTL DEF Spec

\* No run_ref ever names two scans: the service looks the ref up and creates
\* the scan in two steps, and only the lease keeps a second start_scan out.
THEOREM OneScan == ASSUME LeaseOutlastsBatch PROVE Spec => []OneScanPerRef
<1>1. TypeOK /\ LeaseInv /\ Registry /\ AskInv /\ ScanInv => OneScanPerRef
    BY DEF OneScanPerRef, Registry
<1> QED BY <1>1, Invariance, LeaseOutlastsBatch, PTL

\* Findings are stored at most once.
THEOREM StoredOnce == ASSUME LeaseOutlastsBatch PROVE Spec => []FindingsOnce
<1>1. Init => FindingsOnce
    BY DEF Init, FindingsOnce
<1>2. TypeOK /\ LeaseInv /\ FindingsOnce /\ [Next]_vars => FindingsOnce'
    <2> SUFFICES ASSUME TypeOK, LeaseInv, FindingsOnce, [Next]_vars PROVE FindingsOnce'
        OBVIOUS
    <2>1. ASSUME NEW r \in Replicas, Write(r) PROVE FindingsOnce'
        <3>1. findings = 0
            BY <2>1 DEF Write, LeaseInv, Stored, Works, TypeOK
        <3> QED BY <2>1, <3>1 DEF Write, Update, Finalize, FindingsOnce
    <2>2. ASSUME NEW r \in Replicas, Calls(r)
          PROVE  FindingsOnce'
        BY <2>2, CallDecides DEF Decided, Settle, rowVars, FindingsOnce
    <2>3. ASSUME NEW r \in Replicas, ClaimDueRuns(r) \/ SyncBoard(r) \/ Crash(r) PROVE FindingsOnce'
        BY <2>3 DEF ClaimDueRuns, SyncBoard, Crash, rowVars, FindingsOnce
    <2>4. CASE Cancel \/ CancelWrite \/ Tick \/ Reboot \/ UNCHANGED <<rowVars>>
        BY <2>4 DEF Cancel, CancelWrite, Tick, Reboot, rowVars, FindingsOnce
    <2> QED BY <2>1, <2>2, <2>3, <2>4 DEF Next, ReplicaStep, Calls, EnforcedAlone, vars
<1> QED BY <1>1, <1>2, Invariance, LeaseOutlastsBatch, PTL DEF Spec

\* A completed run has its findings and leaves nothing on the workstation.
THEOREM Quiet == ASSUME LeaseOutlastsBatch PROVE Spec => []CompletedIsQuiet
<1>1. TypeOK /\ LeaseInv /\ Registry /\ AskInv /\ ScanInv => CompletedIsQuiet
    BY DEF CompletedIsQuiet, LeaseInv, Stored, ScanInv, AskInv, AskOf
<1> QED BY <1>1, Invariance, LeaseOutlastsBatch, PTL

\* No reconciler replaces a verdict.
THEOREM VerdictStays == ASSUME LeaseOutlastsBatch PROVE Spec => VerdictIsFinal
<1>1. TypeOK /\ LeaseInv /\ [Next]_vars
          => [row.status \in Verdicts => row'.status \in {row.status, "cancelled"}]_vars
    <2> SUFFICES ASSUME TypeOK, LeaseInv, [Next]_vars, row.status \in Verdicts
                 PROVE  row'.status \in {row.status, "cancelled"}
        OBVIOUS
    <2>1. \A r \in Replicas : pc[r] \notin {"advance", "enforce", "write"}
        BY DEF LeaseInv, HolderLeased, Works, Verdicts, Live
    <2>2. ASSUME NEW r \in Replicas, ReplicaStep(r) \/ Crash(r)
          PROVE  row'.status \in {row.status, "cancelled"}
        BY <2>1, <2>2 DEF ReplicaStep, Crash, rowVars, ClaimDueRuns, FailRuntime, StartRun,
            Enforced, GiveUp, PollRun, Write, SyncBoard
    <2>3. CASE CancelWrite
        BY <2>3, StatusRow DEF CancelWrite, TypeOK, Ended
    <2>4. CASE Tick
        BY <2>4 DEF Tick, Verdicts, Live
    <2>5. CASE Cancel \/ Reboot \/ UNCHANGED rowVars
        BY <2>5 DEF Cancel, Reboot, rowVars
    <2> QED BY <2>2, <2>3, <2>4, <2>5 DEF Next, EnforcedAlone, vars
<1> QED BY <1>1, Invariance, LeaseOutlastsBatch, PTL DEF Spec, VerdictIsFinal

(***************************************************************************)
(* The run is a leased job.                                                *)
(***************************************************************************)
\* A step that keeps the holders and the status of the row is no step of the
\* job.
LEMMA SameJob ==
    ASSUME Holders' = Holders, row'.status = row.status PROVE UNCHANGED Job!vars
    BY DEF Job!vars, JobState

\* Each step is a step of the job, or none of its business.
LEMMA StepSimulation ==
    ASSUME LeaseOutlastsBatch, TypeOK, LeaseInv, [Next]_vars PROVE [Job!Next]_(Job!vars)
<1> USE DEF rowVars, workVars, cancelVars, Works
<1>0. /\ OneHolder /\ HolderLeased /\ CopyStatus
      /\ Holders # {} => row.status \in Live \cup {"cancelled"}
      /\ \A r \in Replicas : Works(r) => Holders = {r} /\ JobState = "open"
    BY DEF LeaseInv, OneHolder, Holds, HolderLeased, Holders, JobState, Live, Verdicts
<1>1. ASSUME NEW r \in Replicas, Calls(r)
      PROVE  [Job!Next]_(Job!vars)
    <2>1. pc[r] \in {"advance", "enforce"} /\ row' = row
            /\ \E l \in {"write", "enforce"} : pc' = [pc EXCEPT ![r] = l]
        BY <1>0, <1>1, CallDecides DEF Decided, Settle
    <2>2. Holders' = Holders
        BY <2>1 DEF Holders, TypeOK
    <2> QED BY <2>1, <2>2, SameJob
<1>2. ASSUME NEW r \in Replicas, ClaimDueRuns(r) PROVE Job!Next
    <2>1. row.status \in Live /\ row' = row /\ pc' = [pc EXCEPT ![r] = "advance"]
        BY <1>2 DEF ClaimDueRuns, Due
    <2>a. wait \in Int /\ wait <= 0 /\ \A s \in Replicas : left[s] \in Nat
        BY <1>2 DEF ClaimDueRuns, Due, TypeOK
    <2>2. Holders = {}
        BY <1>0, <2>1, <2>a, ServiceAssumption DEF HolderLeased, Holders, Live
    <2>3. Holders' = {r}
        BY <2>1, <2>2 DEF Holders, TypeOK
    <2>4. JobState = "open" /\ JobState' = "open"
        BY <2>1 DEF JobState, Live, Verdicts
    <2> QED BY <2>2, <2>3, <2>4 DEF Job!Next, Job!Claim
<1>3. ASSUME NEW r \in Replicas, Write(r) \/ (Crash(r) /\ Works(r)) PROVE Job!Next
    <2>1. Works(r) /\ Holders = {r} /\ JobState = "open"
        BY <1>0, <1>3 DEF Write
    <2>2. \A s \in Replicas : ~Works(s)'
        <3>1. \/ Leave(r)
              \/ pc[r] = "write" /\ pc' = [pc EXCEPT ![r] = "sync"]
            BY <1>3 DEF Write, Crash
        <3> QED BY <1>0, <2>1, <3>1 DEF OneHolder, Holds, Leave, TypeOK
    <2>3. Holders' = {}
        BY <2>2 DEF Holders
    <2>4. JobState' \in {"open", "done", "dropped"}
        BY DEF JobState
    <2> QED BY <2>1, <2>3, <2>4 DEF Job!Next, Job!Release
<1>4. ASSUME NEW r \in Replicas, SyncBoard(r) \/ (Crash(r) /\ ~Works(r)) PROVE [Job!Next]_(Job!vars)
    <2>1. ~Works(r) /\ row' = row /\ pc' = [pc EXCEPT ![r] = "idle"]
        BY <1>4 DEF SyncBoard, Crash, Leave
    <2>2. Holders' = Holders
        BY <2>1 DEF Holders, TypeOK
    <2> QED BY <2>1, <2>2, SameJob
<1>5. CASE CancelWrite
    <2>1. row'.status = "cancelled" /\ Holders' = Holders
        BY <1>5, StatusRow DEF CancelWrite, TypeOK, Ended, Holders
    <2>2. CASE Holders = {}
        <3>1. JobState' = "dropped"
            BY <2>1, <2>2 DEF JobState, Verdicts
        <3> QED BY <2>1, <3>1 DEF Job!Next, Job!Drop
    <2>3. CASE Holders # {}
        <3>1. JobState' = JobState
            BY <1>0, <2>1, <2>3 DEF JobState, Verdicts, Live
        <3> QED BY <2>1, <3>1 DEF Job!vars
    <2> QED BY <2>2, <2>3
<1>6. CASE Tick
    <2>1. row'.status = row.status
        BY <1>6, OlderRow DEF Tick, TypeOK
    <2> QED BY <1>6, <2>1, SameJob DEF Tick, Holders
<1>7. CASE Cancel \/ Reboot \/ UNCHANGED <<row, pc>>
    BY <1>7, SameJob DEF Cancel, Reboot, Holders
<1> QED BY <1>1, <1>2, <1>3, <1>4, <1>5, <1>6, <1>7
        DEF Next, ReplicaStep, Calls, EnforcedAlone, vars

\* The reconcilers, their leases and the operator implement a leased job, for
\* any set of replicas and any timing in which the lease outlasts the batch.
THEOREM RunIsLeased == ASSUME LeaseOutlastsBatch PROVE Spec => RunIsLeasedJob
<1>1. Init => Job!Init
    BY DEF Init, Job!Init, JobState, Holders, NewRow, Row, Verdicts
<1>2. TypeOK /\ LeaseInv /\ [Next]_vars => [Job!Next]_(Job!vars)
    BY StepSimulation, LeaseOutlastsBatch
<1> QED BY <1>1, <1>2, Invariance, LeaseOutlastsBatch, PTL DEF Spec, RunIsLeasedJob, Job!Spec
=============================================================================
