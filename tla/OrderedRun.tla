----------------------------- MODULE OrderedRun ------------------------------
(***************************************************************************)
(* What a workflow engine promises of one run: a step begins once, after   *)
(* all the steps it depends on have ended; it ends with an output or an    *)
(* error; and the run gets its outcome, once, when every step has ended.   *)
(* There are no goroutines, channels, counters or phases of the engine.    *)
(***************************************************************************)
CONSTANT Steps

VARIABLES
    deps,       \* the steps each step depends on
    begun,      \* the steps that have begun
    stored,     \* those that have left an output
    failed,     \* those that have left an error
    ended,      \* those that have ended
    outcome     \* "open", "completed" or "failed"

vars == <<deps, begun, stored, failed, ended, outcome>>

Init ==
    /\ deps \in [Steps -> SUBSET Steps]
    /\ begun = {} /\ stored = {} /\ failed = {} /\ ended = {}
    /\ outcome = "open"

Begin(s) ==
    /\ s \notin begun /\ deps[s] \subseteq ended
    /\ begun' = begun \cup {s}
    /\ UNCHANGED <<deps, stored, failed, ended, outcome>>

Store(s) ==
    /\ s \in begun \ ended /\ s \notin failed
    /\ stored' = stored \cup {s}
    /\ UNCHANGED <<deps, begun, failed, ended, outcome>>

Fail(s) ==
    /\ s \in begun \ ended /\ s \notin stored
    /\ failed' = failed \cup {s}
    /\ UNCHANGED <<deps, begun, stored, ended, outcome>>

End(s) ==
    /\ s \in begun \ ended /\ s \in stored \cup failed
    /\ ended' = ended \cup {s}
    /\ UNCHANGED <<deps, begun, stored, failed, outcome>>

\* An error anywhere fails the run.
Conclude ==
    /\ outcome = "open" /\ ended = Steps
    /\ outcome' = IF failed = {} THEN "completed" ELSE "failed"
    /\ UNCHANGED <<deps, begun, stored, failed, ended>>

Next == (\E s \in Steps : Begin(s) \/ Store(s) \/ Fail(s) \/ End(s)) \/ Conclude

Spec == Init /\ [][Next]_vars
=============================================================================
