--------------------------- MODULE AbstractProofs ----------------------------
(***************************************************************************)
(* What the abstract specifications promise. LeasedJob is implemented by   *)
(* the resumes of approvals, webhook deliveries and pentest runs, and      *)
(* OrderedRun by the workflow engine, so each of these inherits the        *)
(* theorems below through its refinement mapping.                          *)
(***************************************************************************)
EXTENDS TLAPS

CONSTANTS Workers, Steps
VARIABLES job, holders, deps, begun, stored, failed, ended, outcome

Lease == INSTANCE LeasedJob
Run == INSTANCE OrderedRun

(***************************************************************************)
(* A leased job.                                                           *)
(***************************************************************************)
OneAtATime == \A v, w \in holders : v = w

\* Work that is done or withdrawn is only let go of.
NeverRetaken == job \in {"done", "dropped"} => holders' \subseteq holders /\ job' \in {job, "dropped"}

\* A job is in one pair of hands at a time.
THEOREM LeaseIsExclusive == Lease!Spec => []OneAtATime
<1>1. Lease!Init => OneAtATime
    BY DEF Lease!Init, OneAtATime
<1>2. OneAtATime /\ [Lease!Next]_(Lease!vars) => OneAtATime'
    BY DEF OneAtATime, Lease!Next, Lease!vars, Lease!Claim, Lease!Release, Lease!Create, Lease!Drop
<1> QED BY <1>1, <1>2, PTL DEF Lease!Spec

\* Finished work is never taken up again, and only an owner's withdrawal
\* follows it.
THEOREM LeaseEndsForGood == Lease!Spec => [][NeverRetaken]_(Lease!vars)
<1>1. [Lease!Next]_(Lease!vars) => [NeverRetaken]_(Lease!vars)
    BY DEF NeverRetaken, Lease!Next, Lease!vars, Lease!Claim, Lease!Release, Lease!Create,
        Lease!Drop
<1> QED BY <1>1, PTL DEF Lease!Spec

(***************************************************************************)
(* An ordered run.                                                         *)
(***************************************************************************)
\* What has begun had its prerequisites, and what has ended left a trace.
OrderInv ==
    /\ begun \subseteq Steps /\ ended \subseteq begun
    /\ \A s \in begun : deps[s] \subseteq ended
    /\ stored \cup failed \subseteq begun /\ ended \subseteq stored \cup failed
    /\ outcome \in {"open", "completed", "failed"}
    /\ outcome # "open" => ended = Steps
    /\ outcome = "completed" => failed = {}
    /\ outcome = "failed" => failed # {}

\* Every step of an ordered run keeps OrderInv.
LEMMA OrderInvariant == Run!Spec => []OrderInv
<1>1. Run!Init => OrderInv
    BY DEF Run!Init, OrderInv
<1>2. OrderInv /\ [Run!Next]_(Run!vars) => OrderInv'
    <2> SUFFICES ASSUME OrderInv, [Run!Next]_(Run!vars) PROVE OrderInv'
        OBVIOUS
    <2> USE DEF OrderInv
    <2>1. ASSUME NEW s \in Steps, Run!Begin(s) PROVE OrderInv'
        BY <2>1 DEF Run!Begin
    <2>2. ASSUME NEW s \in Steps, Run!Store(s) PROVE OrderInv'
        BY <2>2 DEF Run!Store
    <2>3. ASSUME NEW s \in Steps, Run!Fail(s) PROVE OrderInv'
        BY <2>3 DEF Run!Fail
    <2>4. ASSUME NEW s \in Steps, Run!End(s) PROVE OrderInv'
        BY <2>4 DEF Run!End
    <2>5. CASE Run!Conclude
        BY <2>5 DEF Run!Conclude
    <2>6. CASE UNCHANGED Run!vars
        BY <2>6 DEF Run!vars
    <2> QED BY <2>1, <2>2, <2>3, <2>4, <2>5, <2>6 DEF Run!Next
<1> QED BY <1>1, <1>2, PTL DEF Run!Spec

\* A completed run has an output of every step and an error of none; a failed
\* one has run every step as well; and prerequisites end before their
\* dependents begin.
Whole ==
    /\ \A s \in begun : deps[s] \subseteq ended
    /\ outcome = "completed" => ended = Steps /\ stored = Steps /\ failed = {}
    /\ outcome = "failed" => ended = Steps /\ failed # {}

\* An ordered run is whole, whatever its steps depend on.
THEOREM OrderedRunIsWhole == Run!Spec => []Whole
<1>1. OrderInv => Whole
    BY DEF OrderInv, Whole
<1> QED BY <1>1, OrderInvariant, PTL

\* An outcome is final, and nothing of the run happens after it.
THEOREM OutcomeIsFinal == Run!Spec => [][outcome = "open"]_(Run!vars)
<1>1. OrderInv /\ [Run!Next]_(Run!vars) => [outcome = "open"]_(Run!vars)
    <2> SUFFICES ASSUME OrderInv, Run!Next PROVE outcome = "open"
        OBVIOUS
    <2>1. CASE Run!Conclude
        BY <2>1 DEF Run!Conclude
    <2>2. ASSUME NEW s \in Steps, Run!Begin(s) \/ Run!Store(s) \/ Run!Fail(s) \/ Run!End(s)
          PROVE  ended # Steps
        BY <2>2 DEF OrderInv, Run!Begin, Run!Store, Run!Fail, Run!End
    <2> QED BY <2>1, <2>2 DEF OrderInv, Run!Next
<1> QED BY <1>1, OrderInvariant, PTL DEF Run!Spec
=============================================================================
