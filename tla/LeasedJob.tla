------------------------------ MODULE LeasedJob ------------------------------
(***************************************************************************)
(* What a lease in a database promises of one unit of work: whoever takes  *)
(* it is alone with it until it lets go, only its holder finishes it, and  *)
(* finished work is never taken up again. There are no clocks and no       *)
(* leases here: an implementation shows that its leases are long enough.   *)
(***************************************************************************)
CONSTANT Workers

VARIABLES
    job,        \* "new", "open", "done" or "dropped"
    holders     \* the workers that have taken the job and not let go of it

vars == <<job, holders>>

\* The job is still to be created, or there for the taking.
Init == job \in {"new", "open"} /\ holders = {}

\* The job is created, free or in the hands of the worker that creates it.
Create ==
    /\ job = "new" /\ job' = "open"
    /\ holders' = {} \/ \E w \in Workers : holders' = {w}

\* A free job is taken.
Claim(w) ==
    /\ job = "open" /\ holders = {}
    /\ holders' = {w}
    /\ UNCHANGED job

\* Its holder lets go of it: as it is, done, or withdrawn while it was held.
Release(w) ==
    /\ holders = {w} /\ holders' = {}
    /\ \/ UNCHANGED job
       \/ job = "open" /\ job' \in {"done", "dropped"}

\* Its owner withdraws it, held or done though it may be, or it is never
\* created.
Drop == job' = "dropped" /\ UNCHANGED holders

Next == (\E w \in Workers : Claim(w) \/ Release(w)) \/ Create \/ Drop

Spec == Init /\ [][Next]_vars
=============================================================================
