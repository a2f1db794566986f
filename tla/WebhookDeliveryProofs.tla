------------------------ MODULE WebhookDeliveryProofs ------------------------
(***************************************************************************)
(* Proofs about WebhookDelivery, for any set of replicas, any attempt cap, *)
(* backoff and lease, and any number of failures and edits. The theorems   *)
(* hold where the lease outlasts a batch, as Options.Lease is documented   *)
(* to do; with the defaults a full batch does not fit.                     *)
(***************************************************************************)
EXTENDS WebhookDelivery, TLAPS

\* The lease covers the wait of a delivery in its batch and its own POST.
LeaseOutlastsBatch == QueueDelay + Timeout < Lease

USE DEF Failure, NoTime

(***************************************************************************)
(* The inductive invariant.                                                *)
(***************************************************************************)
Holds(w) == pc[w] # "idle"

\* A live holder works within the lease of a pending row, or on a row that
\* was deleted under it.
HolderLeased ==
    \A w \in Workers : Holds(w) =>
        \/ status = "pending" /\ left[w] < wait
        \/ status = "gone"

\* What a holder has counted: before its POST the row's own count, after it
\* one more; the POSTs beyond its count are those failures left unrecorded.
HolderCounts ==
    \A w \in Workers : Holds(w) =>
        /\ posts <= n[w] + failures
        /\ pc[w] # "record" => n[w] < MaxAttempts
        /\ status # "gone" => n[w] <= attempts + 1
        /\ status # "gone" /\ pc[w] # "record" => n[w] = attempts

\* The row's count, when nobody holds it; a pending row has attempts left.
RowCounts ==
    /\ status = "pending" => attempts < MaxAttempts
    /\ status # "gone" /\ (\A w \in Workers : ~Holds(w)) => posts <= attempts + failures

\* Nothing is counted before the row exists.
Fresh == status = "none" => attempts = 0 /\ \A w \in Workers : n[w] = 0

IndInv ==
    /\ TypeOK /\ OneHolder /\ PostsBounded
    /\ HolderLeased /\ HolderCounts /\ RowCounts /\ Fresh

\* The initial state is typed and nobody holds the delivery.
LEMMA InitIndInv == Init => IndInv
    BY BoundsAssumption DEF Init, IndInv, TypeOK, OneHolder, HolderLeased, HolderCounts, RowCounts,
        Fresh, PostsBounded, Holds, Statuses, PCs, Outcomes

\* Every step keeps the types; that no count exceeds MaxAttempts rests on
\* what a holder has counted.
LEMMA NextTyping == ASSUME IndInv, [Next]_vars PROVE TypeOK'
<1>1. TypeOK /\ HolderCounts /\ HolderLeased /\ RowCounts
    BY DEF IndInv
<1> USE <1>1, BoundsAssumption DEF TypeOK, rowVars, workVars, Statuses, PCs, Outcomes, Workers
<1>2. CASE Emit
    <2>1. CASE enabled /\ status' = "pending"
        <3>1. wait' \in Nat /\ Timeout \in Nat
            BY <1>2, <2>1 DEF Emit, FirstLease
        <3> QED BY <1>2, <2>1, <3>1 DEF Emit
    <2>2. CASE Failure /\ status' = "lost"
        BY <1>2, <2>2 DEF Emit
    <2> QED BY <1>2, <2>1, <2>2 DEF Emit
<1>3. ASSUME NEW w \in Workers, Post(w) PROVE TypeOK'
    BY <1>3 DEF Post, HolderCounts, Holds
<1>4. ASSUME NEW w \in Workers, RecordAttempt(w) PROVE TypeOK'
    <2>1. CASE Record(w)
        BY <1>4, <2>1 DEF RecordAttempt, Leave, Record, StatusAfter
    <2>2. CASE UNCHANGED rowVars
        BY <1>4, <2>2 DEF RecordAttempt, Leave
    <2> QED BY <1>4, <2>1, <2>2 DEF RecordAttempt
<1>5. ASSUME NEW w \in Workers, Crash(w) PROVE TypeOK'
    BY <1>5 DEF Crash, Leave
<1>6. ASSUME NEW p \in Pollers, PollerStep(p) PROVE TypeOK'
    BY <1>6 DEF PollerStep, ClaimDue, GetEndpoint
<1>7. CASE SetEnabled \/ DeleteEndpoint
    <2>1. enabled' \in BOOLEAN
        BY <1>7, Zenon DEF SetEnabled, DeleteEndpoint
    <2>2. CASE SetEnabled
        BY <2>1, <2>2 DEF SetEnabled
    <2>3. CASE DeleteEndpoint
        BY <2>1, <2>3 DEF DeleteEndpoint
    <2> QED BY <1>7, <2>2, <2>3
<1>8. CASE Tick
    <2>1. wait' \in {NoTime} \cup Nat
        BY <1>8 DEF Tick
    <2>2. \A w \in Workers : left[w] \in Nat /\ (pc[w] # "idle" => left[w] - 1 \in Nat)
        BY <1>8 DEF Tick
    <2>3. left' \in [Workers -> Nat]
        BY <1>8, <2>2 DEF Tick
    <2> QED BY <1>8, <2>1, <2>3 DEF Tick
<1>9. CASE UNCHANGED vars
    BY <1>9 DEF vars
<1> QED BY <1>2, <1>3, <1>4, <1>5, <1>6, <1>7, <1>8, <1>9 DEF Next, WorkerStep

\* A worker that is through with the delivery leaves it to nobody.
LEMMA LastHolder ==
    ASSUME IndInv, NEW w \in Workers, Holds(w), Leave(w)
    PROVE  \A v \in Workers : ~Holds(v)'
    BY DEF IndInv, OneHolder, Holds, Leave, TypeOK

\* The row is created by Emit, before anybody counts.
LEMMA FreshPreserves == ASSUME IndInv, [Next]_vars PROVE Fresh'
<1> SUFFICES ASSUME status' = "none" PROVE attempts' = 0 /\ \A w \in Workers : n'[w] = 0
    BY DEF Fresh
<1> USE DEF rowVars, workVars, Workers
<1>1. status = "none"
    BY DEF Next, Emit, WorkerStep, Post, RecordAttempt, Record, StatusAfter, Crash, PollerStep,
        ClaimDue, GetEndpoint, SetEnabled, DeleteEndpoint, Tick, vars
<1>2. \A w \in Workers : pc[w] = "idle"
    BY <1>1 DEF IndInv, HolderLeased, Holds
<1>3. UNCHANGED <<attempts, n>>
    BY <1>1, <1>2 DEF Next, Emit, WorkerStep, Post, RecordAttempt, Crash, PollerStep,
        ClaimDue, Due, GetEndpoint, SetEnabled, DeleteEndpoint, Tick, vars
<1> QED BY <1>1, <1>3 DEF IndInv, Fresh

\* Every step keeps the invariant, provided the lease outlasts the batch.
LEMMA NextPreserves == ASSUME LeaseOutlastsBatch, IndInv, [Next]_vars PROVE IndInv'
<1> USE BoundsAssumption DEF rowVars, workVars, Holds
<1>1. /\ TypeOK' /\ TypeOK /\ OneHolder /\ HolderLeased /\ HolderCounts /\ RowCounts /\ PostsBounded
      /\ Fresh /\ Fresh'
    BY NextTyping, FreshPreserves DEF IndInv
<1>2. CASE Emit
    <2>1. \A w \in Workers : ~Holds(w)
        BY <1>1, <1>2 DEF Emit, HolderLeased
    <2>2. attempts' = attempts /\ posts' = posts /\ posts <= attempts + failures
        BY <1>1, <1>2, <2>1 DEF Emit, RowCounts
    <2>3. CASE Failure /\ status' = "lost" /\ UNCHANGED pc
        BY <1>1, <2>1, <2>2, <2>3 DEF IndInv, TypeOK, OneHolder, HolderLeased, HolderCounts,
            RowCounts, PostsBounded
    <2>4. CASE enabled /\ status' = "pending"
        <3>1. /\ \A w \in Workers : Holds(w)' => w = Emitter /\ left'[w] = Timeout
              /\ wait' = Lease /\ n' = n /\ failures' = failures
            BY <1>1, <1>2, <2>1, <2>4 DEF Emit, FirstLease, TypeOK, Workers
        <3>2. Emitter \in Workers
            BY DEF Workers
        <3>3. attempts = 0 /\ n[Emitter] = 0
            BY <1>1, <1>2, <3>2 DEF Emit, Fresh
        <3> QED BY <1>1, <2>2, <2>4, <3>1, <3>2, <3>3 DEF IndInv, TypeOK, OneHolder, HolderLeased,
                HolderCounts, RowCounts, PostsBounded, LeaseOutlastsBatch
    <2> QED BY <1>2, <2>3, <2>4 DEF Emit
<1>3. ASSUME NEW w \in Workers, Post(w) PROVE IndInv'
    <2>1. Holds(w) /\ Holds(w)' /\ \A v \in Workers : v # w => ~Holds(v) /\ ~Holds(v)'
        BY <1>1, <1>3 DEF Post, OneHolder, TypeOK
    <2>2. OneHolder' /\ HolderLeased'
        BY <1>1, <1>3, <2>1 DEF Post, OneHolder, HolderLeased
    <2>3. HolderCounts' /\ PostsBounded'
        BY <1>1, <1>3, <2>1 DEF Post, HolderCounts, PostsBounded, TypeOK
    <2>4. RowCounts'
        BY <1>1, <1>3, <2>1 DEF Post, RowCounts
    <2> QED BY <1>1, <2>2, <2>3, <2>4 DEF IndInv
<1>4. ASSUME NEW w \in Workers, RecordAttempt(w) PROVE IndInv'
    <2>1. Holds(w) /\ \A v \in Workers : ~Holds(v)'
        BY <1>4, LastHolder DEF RecordAttempt, IndInv
    <2>2. OneHolder' /\ HolderLeased' /\ HolderCounts'
        BY <2>1 DEF OneHolder, HolderLeased, HolderCounts
    <2>3. RowCounts' /\ PostsBounded'
        <3>1. CASE Record(w) /\ UNCHANGED failures
            <4>1. /\ posts' = posts /\ posts <= n[w] + failures
                  /\ pc[w] = "record" /\ n[w] \in 0..MaxAttempts
                BY <1>1, <1>4, <2>1 DEF RecordAttempt, HolderCounts, TypeOK
            <4>2. status # "gone" => attempts' = n[w] /\ (status' = "pending" => ~Exhausted(w))
                BY <3>1 DEF Record, StatusAfter
            <4>3. status = "gone" => status' = "gone"
                BY <3>1 DEF Record
            <4>4. PostsBounded'
                BY <1>1, <3>1, <4>1 DEF PostsBounded
            <4>5. status' # "gone" => attempts' = n[w] /\ (status' = "pending" => n[w] < MaxAttempts)
                BY <4>1, <4>2, <4>3 DEF Exhausted
            <4>6. RowCounts'
                BY <3>1, <4>1, <4>5 DEF RowCounts
            <4> QED BY <4>4, <4>6
        <3>2. CASE Failure /\ UNCHANGED rowVars
            BY <1>1, <1>4, <2>1, <3>2 DEF RecordAttempt, RowCounts, HolderCounts, PostsBounded, TypeOK
        <3> QED BY <1>4, <3>1, <3>2 DEF RecordAttempt
    <2> QED BY <1>1, <2>2, <2>3 DEF IndInv
<1>5. ASSUME NEW w \in Workers, Crash(w) PROVE IndInv'
    <2>1. Holds(w) /\ \A v \in Workers : ~Holds(v)'
        BY <1>5, LastHolder DEF Crash, IndInv
    <2>2. OneHolder' /\ HolderLeased' /\ HolderCounts'
        BY <2>1 DEF OneHolder, HolderLeased, HolderCounts
    <2>3. RowCounts' /\ PostsBounded'
        BY <1>1, <1>5, <2>1 DEF Crash, RowCounts, HolderCounts, PostsBounded, TypeOK
    <2> QED BY <1>1, <2>2, <2>3 DEF IndInv
<1>6. ASSUME NEW p \in Pollers, ClaimDue(p) PROVE IndInv'
    <2>1. p \in Workers /\ (\A w \in Workers : ~Holds(w))
        BY <1>1, <1>6 DEF ClaimDue, Due, HolderLeased, TypeOK, Workers
    <2>2. \A w \in Workers : Holds(w)' => w = p
        BY <1>1, <1>6, <2>1 DEF ClaimDue, TypeOK
    <2>3. OneHolder'
        BY <2>2 DEF OneHolder
    <2>4. HolderLeased'
        BY <1>1, <1>6, <2>1, <2>2 DEF ClaimDue, Due, HolderLeased, LeaseOutlastsBatch, TypeOK
    <2>5. HolderCounts' /\ RowCounts' /\ PostsBounded'
        BY <1>1, <1>6, <2>1, <2>2 DEF ClaimDue, Due, HolderCounts, RowCounts, PostsBounded, TypeOK
    <2> QED BY <1>1, <2>3, <2>4, <2>5 DEF IndInv
<1>7. ASSUME NEW p \in Pollers, GetEndpoint(p) PROVE IndInv'
    <2>1. p \in Workers /\ Holds(p) /\ (\A w \in Workers : Holds(w)' <=> Holds(w))
        BY <1>1, <1>7 DEF GetEndpoint, TypeOK, Workers
    <2>2. OneHolder' /\ HolderLeased'
        BY <1>1, <1>7, <2>1 DEF GetEndpoint, OneHolder, HolderLeased
    <2>3. /\ UNCHANGED <<status, attempts, n, posts>>
          /\ failures <= failures' /\ failures' \in Nat /\ failures \in Nat
          /\ pc[p] # "record" /\ \A w \in Workers : pc'[w] # "record" => pc[w] # "record"
        BY <1>1, <1>7, <2>1 DEF GetEndpoint, TypeOK
    <2>4. HolderCounts'
        BY <1>1, <2>1, <2>3 DEF HolderCounts, TypeOK
    <2>5. PostsBounded'
        <3>1. posts \in Nat /\ posts <= MaxAttempts + failures
            BY <1>1 DEF PostsBounded, TypeOK
        <3>2. posts' = posts /\ (failures' = failures \/ failures' = failures + 1)
            BY <1>7 DEF GetEndpoint
        <3>3. MaxAttempts \in Nat /\ failures \in Nat
            BY <1>1 DEF TypeOK
        <3> QED BY <3>1, <3>2, <3>3 DEF PostsBounded
    <2>6. RowCounts'
        BY <1>1, <2>1, <2>3 DEF RowCounts
    <2> QED BY <1>1, <2>2, <2>4, <2>5, <2>6 DEF IndInv
<1>8. CASE SetEnabled \/ DeleteEndpoint
    BY <1>1, <1>8 DEF SetEnabled, DeleteEndpoint, IndInv, OneHolder, HolderLeased, HolderCounts,
        RowCounts, PostsBounded
<1>9. CASE Tick
    <2>1. OneHolder' /\ HolderCounts' /\ RowCounts' /\ PostsBounded'
        BY <1>1, <1>9 DEF Tick, OneHolder, HolderCounts, RowCounts, PostsBounded
    <2>2. HolderLeased'
        BY <1>1, <1>9 DEF Tick, HolderLeased, TypeOK
    <2> QED BY <1>1, <2>1, <2>2 DEF IndInv
<1>10. CASE UNCHANGED vars
    BY <1>1, <1>10 DEF vars, IndInv, OneHolder, HolderLeased, HolderCounts, RowCounts, PostsBounded
<1> QED BY <1>2, <1>3, <1>4, <1>5, <1>6, <1>7, <1>8, <1>9, <1>10
        DEF Next, WorkerStep, PollerStep

\* IndInv is an invariant.
LEMMA Inductive == ASSUME LeaseOutlastsBatch PROVE Spec => []IndInv
<1>1. IndInv /\ [Next]_vars => IndInv'
    BY NextPreserves
<1> QED BY <1>1, InitIndInv, PTL DEF Spec

(***************************************************************************)
(* The theorems.                                                           *)
(***************************************************************************)
\* Type correctness: in particular attempts never exceeds MaxAttempts.
THEOREM TypeCorrect == ASSUME LeaseOutlastsBatch PROVE Spec => []TypeOK
<1>1. IndInv => TypeOK
    BY DEF IndInv
<1> QED BY <1>1, Inductive, PTL

\* While the lease outlasts the batch, no two live workers hold the delivery,
\* whatever crashed or failed before.
THEOREM OneHolderThm == ASSUME LeaseOutlastsBatch PROVE Spec => []OneHolder
<1>1. IndInv => OneHolder
    BY DEF IndInv
<1> QED BY <1>1, Inductive, PTL

\* The receiver is called at most MaxAttempts times, plus once for each crash
\* or failed write.
THEOREM PostsBoundedThm == ASSUME LeaseOutlastsBatch PROVE Spec => []PostsBounded
<1>1. IndInv => PostsBounded
    BY DEF IndInv
<1> QED BY <1>1, Inductive, PTL

\* A succeeded delivery stays succeeded or is deleted with its endpoint.
THEOREM SucceededIsFinalThm == ASSUME LeaseOutlastsBatch PROVE Spec => SucceededIsFinal
<1>1. IndInv /\ [Next]_vars => (status = "succeeded" => status' \in {"succeeded", "gone"})
    <2> SUFFICES ASSUME IndInv, [Next]_vars, status = "succeeded"
                 PROVE  status' \in {"succeeded", "gone"}
        OBVIOUS
    <2>1. \A w \in Workers : pc[w] = "idle"
        BY DEF IndInv, HolderLeased, Holds
    <2> QED BY <2>1 DEF Next, Emit, WorkerStep, Post, RecordAttempt, Crash, PollerStep, ClaimDue, Due,
            GetEndpoint, SetEnabled, DeleteEndpoint, Tick, Workers, rowVars, vars
<1> QED BY <1>1, Inductive, PTL DEF Spec, SucceededIsFinal

\* Each step of the delivery is a step of the job, or none of its business.
LEMMA StepSimulation == ASSUME LeaseOutlastsBatch, IndInv, [Next]_vars PROVE [Job!Next]_(Job!vars)
<1> USE DEF Job!vars, Holders, JobState, rowVars, workVars
<1>1. /\ TypeOK /\ HolderLeased /\ OneHolder
      /\ \A w \in Workers : Holds(w) => Holders = {w} /\ status \in {"pending", "gone"}
    BY DEF IndInv, OneHolder, HolderLeased, Holds
<1>3. CASE Emit
    <2>1. CASE enabled /\ status' = "pending"
        <3>1. Emitter \in Workers /\ \A w \in Workers : ~Holds(w)
            BY <1>1, <1>3 DEF Emit, Workers
        <3>2. Holders' = {Emitter}
            BY <1>1, <1>3, <2>1, <3>1 DEF Emit, TypeOK, Holds
        <3> QED BY <1>3, <2>1, <3>1, <3>2 DEF Emit, Job!Next, Job!Create
    <2>2. CASE status' = "lost" /\ UNCHANGED pc
        BY <2>2 DEF Job!Next, Job!Drop
    <2> QED BY <1>3, <2>1, <2>2 DEF Emit
<1>4. ASSUME NEW w \in Workers, Post(w) PROVE UNCHANGED Job!vars
    <2>1. Holders' = Holders
        BY <1>1, <1>4 DEF Post, TypeOK
    <2> QED BY <1>4, <2>1 DEF Post
<1>5. ASSUME NEW w \in Workers, RecordAttempt(w) \/ Crash(w) PROVE Job!Next
    <2>1. Holds(w) /\ Leave(w) /\ \A v \in Workers : ~Holds(v)'
        BY <1>5, LastHolder DEF RecordAttempt, Crash, Holds
    <2>2. Holders = {w} /\ Holders' = {} /\ status \in {"pending", "gone"}
        BY <1>1, <2>1 DEF Holds
    <2>3. \/ status' = status
          \/ status = "pending" /\ status' \in {"succeeded", "failed"}
        BY <1>5, <2>2 DEF RecordAttempt, Crash, Record, StatusAfter
    <2> QED BY <2>2, <2>3 DEF Job!Next, Job!Release
<1>6. ASSUME NEW p \in Pollers, ClaimDue(p) PROVE Job!Next
    <2>1. p \in Workers /\ Holders = {} /\ status = "pending"
        BY <1>1, <1>6 DEF ClaimDue, Due, HolderLeased, TypeOK, Workers, Holds
    <2>2. Holders' = {p} /\ status' = status
        BY <1>1, <1>6, <2>1 DEF ClaimDue, TypeOK
    <2> QED BY <2>1, <2>2 DEF Job!Next, Job!Claim
<1>7. ASSUME NEW p \in Pollers, GetEndpoint(p) PROVE UNCHANGED Job!vars
    <2>1. Holders' = Holders
        BY <1>1, <1>7 DEF GetEndpoint, TypeOK, Workers
    <2> QED BY <1>7, <2>1 DEF GetEndpoint
<1>8. CASE DeleteEndpoint
    BY <1>8 DEF DeleteEndpoint, Job!Next, Job!Drop
<1>9. CASE SetEnabled \/ Tick \/ UNCHANGED vars
    BY <1>9 DEF SetEnabled, Tick, vars
<1> QED BY <1>3, <1>4, <1>5, <1>6, <1>7, <1>8, <1>9 DEF Next, WorkerStep, PollerStep

\* The leased retries implement a leased job, for any set of replicas and any
\* timing in which the lease outlasts the batch.
THEOREM DeliveryIsLeasedJobThm == ASSUME LeaseOutlastsBatch PROVE Spec => DeliveryIsLeasedJob
<1>1. Init => Job!Init
    BY DEF Init, Job!Init, JobState, Holders
<1>2. IndInv /\ [Next]_vars => [Job!Next]_(Job!vars)
    BY StepSimulation
<1> QED BY <1>1, <1>2, Inductive, PTL DEF Spec, DeliveryIsLeasedJob, Job!Spec

=============================================================================
