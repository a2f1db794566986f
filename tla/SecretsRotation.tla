--------------------------- MODULE SecretsRotation ---------------------------
(***************************************************************************)
(* Rotations of one KV v2 secret and their propagation (secretsrot.Execute *)
(* driven by secretsRotationService): the versions in Vault, the consumers *)
(* that hold a copy of the values, the runs, their rows, an operator who   *)
(* launches and cancels them, and a server that may crash.                 *)
(*                                                                         *)
(* A version gives every key a value, or none. Values are told apart by    *)
(* the run that generated them or, for those there were before, by their   *)
(* version. A call to Vault, the cluster, GitHub or Ring Promoter may fail *)
(* at any time, also after it took effect; with a cancelled context it     *)
(* fails and has none. Source vault and engine kv2; a ring is listed if it *)
(* consumes a Secret.                                                      *)
(***************************************************************************)
EXTENDS Integers, Sequences, FiniteSets

CONSTANTS
    MaxRuns,            \* bound: runs launched
    Keys,               \* keys the secret may have
    DefaultKeys,        \* those a rotation creates if it finds none
    KeyLists,           \* what keys may be given to a run; {} is none
    NewSecrets,         \* the keys new_secret_json may have values for
    K8sSecrets,         \* Secrets the runs patch
    ExternalSecrets,    \* ExternalSecrets they force-sync
    GitHubSecrets,      \* Actions secrets they put
    Rings,              \* rings they restart
    Loads,              \* the Secret a ring's pods read at their start
    Aims,               \* the targets a run may be launched with
    Histories,          \* the versions it may have at first, and the retired ones
    MaxCancels,         \* bound: calls of CancelRun
    MaxFaults           \* bound: crashes and lost writes of a run's last row

Secrets == K8sSecrets \cup ExternalSecrets
Targets == Secrets \cup GitHubSecrets \cup Rings
Runs == 1..MaxRuns

ASSUME RotationAssumption ==
    /\ MaxRuns \in Nat /\ MaxCancels \in Nat /\ MaxFaults \in Nat
    /\ \A h \in Histories : h.versions \in Nat /\ h.retired \subseteq 1..(h.versions - 1)
    /\ DefaultKeys \subseteq Keys /\ DefaultKeys # {}
    /\ KeyLists \subseteq SUBSET Keys /\ NewSecrets \subseteq SUBSET Keys
    /\ Aims \subseteq SUBSET Targets
    /\ Loads \in [Rings -> Secrets]
    /\ K8sSecrets \cap ExternalSecrets = {} /\ Secrets \cap GitHubSecrets = {}
    /\ Rings \cap (Secrets \cup GitHubSecrets) = {}

VARIABLES
    content,    \* the versions in Vault, by the values of their keys
    deleted,    \* the soft-deleted ones
    held,       \* the values each consumer has
    status,     \* secrets_rotation_runs.status
    mode,       \* opt.Mode, while it executes
    pc,         \* where the goroutine of each run is
    keys,       \* the keys it rotates or propagates, once it has read the secret
    aim,        \* the targets it was launched with, once it propagates
    base,       \* meta.Version of its first read
    own,        \* the values it writes and propagates
    wrote,      \* the version it wrote
    todo,       \* the targets it has left
    stop,       \* runs whose context is cancelled
    changed,    \* ExternalSecrets whose Secret changed since its precheck
    cancelling, \* runs that a CancelRun has found live
    crowded,    \* history: a run was launched while another one executed
    bare,       \* history: one has retired a version with fewer targets than there are
    served,     \* history: the keys a run has reported as propagated to every target
    cancels, faults

vaultVars == <<content, deleted>>
readVars == <<keys, base, own>>
pushVars == <<wrote, aim, todo>>
memVars == <<readVars, pushVars, stop>>
noteVars == <<crowded, bare, served>>
vars == <<vaultVars, held, status, mode, pc, memVars, changed, cancelling, noteVars, cancels, faults>>

Modes == {"plan", "rotate", "rollback", "verify"}
Ended == {"completed", "failed", "cancelled"}
PCs == {"none", "preflight", "read", "restore", "write", "window", "verify", "propagate", "done"}
Latest == Len(content)
Executing(w) == pc[w] \notin {"none", "done"}

\* A map without any key.
Empty == [k \in Keys |-> 0]

\* The value generateSecret gives run w, or new_secret_json; one given there is
\* taken to be new.
Fresh(w) == -w

\* The keys that data has.
KeysOf(data) == {k \in Keys : data[k] # 0}

\* The secret is new, or its latest version is in use everywhere and earlier
\* ones may have been retired.
Init ==
    /\ \E h \in Histories :
          /\ content = [v \in 1..h.versions |-> [k \in Keys |-> v]]
          /\ deleted = h.retired
    /\ held = [t \in Targets |-> [k \in Keys |-> Latest]]
    /\ status = [w \in Runs |-> "none"]
    /\ mode = [w \in Runs |-> "plan"]
    /\ keys = [w \in Runs |-> {}] /\ aim = [w \in Runs |-> {}] /\ served = [w \in Runs |-> {}]
    /\ pc = [w \in Runs |-> "none"]
    /\ base = [w \in Runs |-> 0] /\ own = [w \in Runs |-> Empty] /\ wrote = [w \in Runs |-> 0]
    /\ todo = [w \in Runs |-> {}] /\ changed = [w \in Runs |-> {}]
    /\ stop = {} /\ cancelling = {} /\ crowded = FALSE /\ bare = FALSE
    /\ cancels = 0 /\ faults = 0

(***************************************************************************)
(* The service: CreateRun, the end of execute, CancelRun.                  *)
(***************************************************************************)
\* The row is inserted before new_secret_json is parsed: values that do not
\* parse leave a queued row that nobody executes.
CreateRun(w) ==
    /\ pc[w] = "none" /\ \A v \in Runs : v < w => pc[v] # "none"
    /\ status' = [status EXCEPT ![w] = "queued"]
    /\ \/ /\ pc' = [pc EXCEPT ![w] = "preflight"]
          /\ \E m \in Modes : mode' = [mode EXCEPT ![w] = m]
          /\ crowded' = (crowded \/ \E v \in Runs : Executing(v))
       \/ pc' = [pc EXCEPT ![w] = "done"] /\ UNCHANGED <<mode, crowded>>
    /\ UNCHANGED <<vaultVars, held, memVars, changed, cancelling, bare, served, cancels, faults>>

\* setPhase: onPhase stores the row, as running, whatever it is by now.
Goto(w, p) ==
    /\ pc' = [pc EXCEPT ![w] = p]
    /\ status' = [status EXCEPT ![w] = "running"]
    /\ UNCHANGED <<mode, stop, served, faults>>

\* The goroutine of run w is gone, and its memory.
Forget(w) ==
    /\ mode' = [mode EXCEPT ![w] = "plan"]
    /\ keys' = [keys EXCEPT ![w] = {}]
    /\ base' = [base EXCEPT ![w] = 0]
    /\ own' = [own EXCEPT ![w] = Empty] /\ wrote' = [wrote EXCEPT ![w] = 0]
    /\ aim' = [aim EXCEPT ![w] = {}]
    /\ todo' = [todo EXCEPT ![w] = {}]
    /\ stop' = stop \ {w}

\* The end of execute; an error of its last Update is only logged.
Finish(w, s) ==
    /\ pc' = [pc EXCEPT ![w] = "done"]
    /\ Forget(w)
    /\ served' = [served EXCEPT ![w] = IF s = "completed" /\ aim[w] = Targets THEN keys[w] ELSE {}]
    /\ \/ status' = [status EXCEPT ![w] = s] /\ UNCHANGED faults
       \/ /\ faults < MaxFaults /\ faults' = faults + 1
          /\ status' = [status EXCEPT ![w] = "running"]

\* Mutant: the row keeps its status.
SucceedUnsaved(w) == Finish(w, "running")

\* Execute has returned no error.
Succeed(w) == Finish(w, IF w \in stop THEN "cancelled" ELSE "completed")

\* CancelRun reads the row and cancels the context, if this server has it.
CancelRun(w) ==
    /\ status[w] \in {"queued", "running"}
    /\ w \notin cancelling /\ cancelling' = cancelling \cup {w}
    /\ cancels < MaxCancels /\ cancels' = cancels + 1
    /\ stop' = IF Executing(w) THEN stop \cup {w} ELSE stop
    /\ UNCHANGED <<vaultVars, held, status, mode, pc, readVars, pushVars, changed, noteVars, faults>>

\* It then stores the row as cancelled, whatever it is by now.
CancelWrite(w) ==
    /\ w \in cancelling /\ cancelling' = cancelling \ {w}
    /\ status' = [status EXCEPT ![w] = "cancelled"]
    /\ UNCHANGED <<vaultVars, held, pc, mode, memVars, changed, noteVars, cancels, faults>>

(***************************************************************************)
(* Execute.                                                                *)
(***************************************************************************)
\* The Secrets of ts are new: the runs that go on will notice.
Notice(ts) ==
    changed' = [w \in Runs |-> IF Executing(w)' THEN changed[w] \cup (ts \cap ExternalSecrets) ELSE {}]

\* A call fails and the run with it. The dual window only ends early when the
\* context is cancelled; a rotation survives a failed read.
Fail(w) ==
    /\ \/ pc[w] \in {"preflight", "restore", "write", "verify", "propagate"}
       \/ pc[w] = "read" /\ mode[w] # "rotate"
       \/ pc[w] = "window" /\ w \in stop
    /\ Finish(w, "failed") /\ Notice({})
    /\ UNCHANGED <<vaultVars, held, cancelling, crowded, bare, cancels>>

\* precheck records the revision of every ExternalSecret's target.
Preflight(w) ==
    /\ pc[w] = "preflight" /\ w \notin stop
    /\ Goto(w, "read")
    /\ changed' = [changed EXCEPT ![w] = {}]
    /\ UNCHANGED <<vaultVars, held, readVars, pushVars, cancelling, crowded, bare, cancels>>

\* runPlan, and the dry run of any mode: nothing is written.
RunPlan(w) ==
    /\ pc[w] = "read" /\ mode[w] = "plan" /\ w \notin stop
    /\ Succeed(w) /\ Notice({})
    /\ UNCHANGED <<vaultVars, held, cancelling, crowded, bare, cancels>>

\* ReadKV2 of the latest version succeeds.
ReadLatest(w) == w \notin stop /\ Latest \notin deleted \cup {0}

\* keysFor: the keys asked for, or all there are.
KeysFor(asked, data) == IF asked # {} THEN asked ELSE KeysOf(data)

\* What a rotation of ks makes of cur: new_secret_json's keys are put into it,
\* else every key of ks is generated.
Rotated(w, cur, ks, given) ==
    LET fresh == IF given # {} THEN given ELSE ks
    IN  [k \in Keys |-> IF k \in fresh THEN Fresh(w) ELSE cur[k]]

\* rotateKV2 up to its write, with what it has read.
PrepareNext(w, cur, version) ==
    \E asked \in KeyLists, given \in NewSecrets :
        LET known == KeysFor(asked, cur)
            ks == IF known # {} THEN known ELSE DefaultKeys
        IN  /\ base' = [base EXCEPT ![w] = version]
            /\ own' = [own EXCEPT ![w] = Rotated(w, cur, ks, given)]
            /\ keys' = [keys EXCEPT ![w] = ks \cup given]

\* rotateKV2; any error of the read is taken for a path to create.
ReadForRotate(w) ==
    /\ pc[w] = "read" /\ mode[w] = "rotate"
    /\ \/ ReadLatest(w) /\ PrepareNext(w, content[Latest], Latest)
       \/ PrepareNext(w, Empty, 0)
    /\ Goto(w, "write")
    /\ UNCHANGED <<vaultVars, held, pushVars, changed, cancelling, crowded, bare, cancels>>

\* runRollback, with a version before the current one.
ReadForRollback(w) ==
    /\ pc[w] = "read" /\ mode[w] = "rollback"
    /\ ReadLatest(w) /\ Latest > 1
    /\ base' = [base EXCEPT ![w] = Latest]
    /\ Goto(w, "restore")
    /\ UNCHANGED <<vaultVars, held, keys, own, pushVars, changed, cancelling, crowded, bare, cancels>>

\* The version before it is read, undeleted first if need be; the read may
\* fail all the same.
Restore(w) ==
    /\ pc[w] = "restore" /\ w \notin stop
    /\ deleted' = deleted \ {base[w] - 1}
    /\ \/ /\ own' = [own EXCEPT ![w] = content[base[w] - 1]]
          /\ \E asked \in KeyLists :
                keys' = [keys EXCEPT ![w] = KeysFor(asked, content[base[w] - 1])]
          /\ Goto(w, "write")
          /\ UNCHANGED <<base, pushVars>>
       \/ Finish(w, "failed")
    /\ Notice({})
    /\ UNCHANGED <<content, held, cancelling, crowded, bare, cancels>>

\* The targets the run was launched with, or none (pr == nil).
StartPropagation(w) ==
    \E a \in Aims : aim' = [aim EXCEPT ![w] = a] /\ todo' = [todo EXCEPT ![w] = a]

\* runVerify re-propagates the current version.
ReadForVerify(w) ==
    /\ pc[w] = "read" /\ mode[w] = "verify"
    /\ ReadLatest(w)
    /\ own' = [own EXCEPT ![w] = content[Latest]]
    /\ \E asked \in KeyLists : keys' = [keys EXCEPT ![w] = KeysFor(asked, content[Latest])]
    /\ StartPropagation(w)
    /\ Goto(w, "propagate")
    /\ UNCHANGED <<vaultVars, held, base, wrote, changed, cancelling, crowded, bare, cancels>>

\* Mutant: no check-and-set.
CasAny(w) == TRUE

\* Vault's check-and-set; WriteKV2 sends none for version 0.
CasOK(w) == base[w] \in {0, Latest}

\* WriteKV2 of all the run has prepared: the version it has read with fresh
\* values for its keys, or the version a rollback restores.
WriteNew(w) ==
    /\ pc[w] = "write" /\ w \notin stop
    /\ CasOK(w)
    /\ content' = Append(content, own[w])
    /\ \/ /\ wrote' = [wrote EXCEPT ![w] = Latest + 1]
          /\ \/ mode[w] = "rotate" /\ Goto(w, "window") /\ UNCHANGED <<aim, todo>>
             \/ mode[w] # "rotate" /\ Goto(w, "propagate") /\ StartPropagation(w)
          /\ UNCHANGED readVars
       \/ Finish(w, "failed")
    /\ Notice({})
    /\ UNCHANGED <<deleted, held, cancelling, crowded, bare, cancels>>

DualWindow(w) ==
    /\ pc[w] = "window"
    /\ Goto(w, "verify")
    /\ UNCHANGED <<vaultVars, held, readVars, pushVars, changed, cancelling, crowded, bare, cancels>>

\* The latest version is readable; whose it is does not matter.
Verify(w) ==
    /\ pc[w] = "verify"
    /\ ReadLatest(w)
    /\ StartPropagation(w)
    /\ Goto(w, "propagate")
    /\ UNCHANGED <<vaultVars, held, readVars, wrote, changed, cancelling, crowded, bare, cancels>>

(***************************************************************************)
(* Propagation.                                                            *)
(***************************************************************************)
\* Mutant: the rings are restarted before the Secrets are updated.
PhaseRingsFirst(t) ==
    IF t \in Rings THEN 0 ELSE IF t \in K8sSecrets THEN 1 ELSE IF t \in ExternalSecrets THEN 2 ELSE 3

\* The place of target t in phaseOrder.
Phase(t) ==
    IF t \in K8sSecrets THEN 1 ELSE IF t \in ExternalSecrets THEN 2 ELSE IF t \in Rings THEN 4 ELSE 3

\* The values target t ends up with: an ExternalSecret reads Vault itself, a
\* ring its Secret; into the others the run merges its values for ks, as far
\* as it has any.
Pushed(w, t, ks) ==
    IF t \in ExternalSecrets THEN content[Latest]
    ELSE IF t \in Rings THEN held[Loads[t]]
    ELSE [k \in Keys |-> IF k \in ks /\ own[w][k] # 0 THEN own[w][k] ELSE held[t][k]]

\* Actions secrets are put one by one, a Secret is patched at once.
PartlyPushed(w, t) == IF t \in GitHubSecrets THEN SUBSET keys[w] ELSE {keys[w]}

\* Target t has values x from now on.
Hold(t, x) ==
    /\ held' = [held EXCEPT ![t] = x]
    /\ Notice(IF held[t] # x THEN {t} ELSE {})

\* syncExternalSecret waits for a revision newer than the precheck's, except
\* when a verify repeats a propagation.
Synced(w, t) == t \in ExternalSecrets /\ mode[w] # "verify" => t \in changed'[w]

\* One target of pr.run; on an error the others are not run.
Propagate(w, t) ==
    /\ pc[w] = "propagate" /\ w \notin stop
    /\ t \in todo[w] /\ \A u \in todo[w] : Phase(t) <= Phase(u)
    /\ \/ /\ todo' = [todo EXCEPT ![w] = @ \ {t}]
          /\ Goto(w, "propagate")
          /\ Hold(t, Pushed(w, t, keys[w]))
          /\ Synced(w, t)
          /\ UNCHANGED <<readVars, wrote, aim>>
       \/ /\ Finish(w, "failed")
          /\ \E ks \in PartlyPushed(w, t) : Hold(t, Pushed(w, t, ks))
    /\ UNCHANGED <<vaultVars, cancelling, crowded, bare, cancels>>

\* Mutant: the old version is retired before the propagation.
MayRetireEarly(w) == pc[w] = "propagate"

\* Every phase before retire_old is completed.
MayRetire(w) == pc[w] = "propagate" /\ todo[w] = {}

\* Mutant: a version 0 is taken for one.
ReplacesAny(w) == mode[w] = "rotate"

\* opt.RetireOld && meta.Version > 0.
ReplacesOld(w) == mode[w] = "rotate" /\ base[w] > 0

\* SoftDeleteVersions of the version the run has read.
Retired(w) == {base[w]}

\* retire_old, if the run was launched with it, and the audit; an error is
\* only a warning.
RetireOld(w) ==
    /\ MayRetire(w)
    /\ \/ /\ ReplacesOld(w) /\ w \notin stop
          /\ deleted' = deleted \cup Retired(w)
          /\ bare' = (bare \/ aim[w] # Targets)
       \/ UNCHANGED <<deleted, bare>>
    /\ Succeed(w) /\ Notice({})
    /\ UNCHANGED <<content, held, cancelling, crowded, cancels>>

(***************************************************************************)
(* The environment.                                                        *)
(***************************************************************************)
\* The External Secrets Operator refreshes on its own.
Refresh(t) ==
    /\ Latest \notin deleted \cup {0} /\ held[t] # content[Latest]
    /\ UNCHANGED <<vaultVars, status, mode, pc, memVars, cancelling, noteVars, cancels, faults>>
    /\ Hold(t, content[Latest])

\* The pods of a ring restart on their own.
Reload(t) ==
    /\ held[t] # held[Loads[t]]
    /\ UNCHANGED <<vaultVars, status, mode, pc, memVars, cancelling, noteVars, cancels, faults>>
    /\ Hold(t, held[Loads[t]])

\* The server dies; nothing picks its runs up again.
Crash ==
    /\ \E w \in Runs : Executing(w)
    /\ faults < MaxFaults /\ faults' = faults + 1
    /\ pc' = [w \in Runs |-> IF Executing(w) THEN "done" ELSE pc[w]]
    /\ mode' = [w \in Runs |-> "plan"]
    /\ keys' = [w \in Runs |-> {}] /\ base' = [w \in Runs |-> 0] /\ own' = [w \in Runs |-> Empty]
    /\ wrote' = [w \in Runs |-> 0]
    /\ aim' = [w \in Runs |-> {}] /\ todo' = [w \in Runs |-> {}]
    /\ stop' = {} /\ cancelling' = {}
    /\ Notice({})
    /\ UNCHANGED <<vaultVars, held, status, noteVars, cancels>>

RunStep(w) ==
    \/ Fail(w) \/ Preflight(w) \/ RunPlan(w)
    \/ ReadForRotate(w) \/ ReadForRollback(w) \/ ReadForVerify(w)
    \/ Restore(w) \/ WriteNew(w) \/ DualWindow(w) \/ Verify(w)
    \/ (\E t \in Targets : Propagate(w, t))
    \/ RetireOld(w)

Next ==
    \/ \E w \in Runs : CreateRun(w) \/ RunStep(w) \/ CancelRun(w) \/ CancelWrite(w)
    \/ \E t \in ExternalSecrets : Refresh(t)
    \/ \E t \in Rings : Reload(t)
    \/ Crash

Spec == Init /\ [][Next]_vars

\* Every call is bounded by a timeout, waits for the operator and the rings by
\* their deadlines, and the goroutines are scheduled.
Fairness == \A w \in Runs : WF_vars(RunStep(w)) /\ WF_vars(CancelWrite(w))

FairSpec == Spec /\ Fairness

(***************************************************************************)
(* Properties.                                                             *)
(***************************************************************************)
Maps == [Keys -> Int]

\* Every variable stays within its type.
TypeOK ==
    /\ content \in Seq(Maps) /\ deleted \in SUBSET (1..Latest)
    /\ held \in [Targets -> Maps]
    /\ status \in [Runs -> {"none", "queued", "running"} \cup Ended]
    /\ mode \in [Runs -> Modes]
    /\ keys \in [Runs -> SUBSET Keys] /\ served \in [Runs -> SUBSET Keys] /\ aim \in [Runs -> SUBSET Targets]
    /\ pc \in [Runs -> PCs]
    /\ base \in [Runs -> 0..Latest] /\ own \in [Runs -> Maps] /\ wrote \in [Runs -> 0..Latest]
    /\ todo \in [Runs -> SUBSET Targets] /\ changed \in [Runs -> SUBSET ExternalSecrets]
    /\ stop \in SUBSET Runs /\ cancelling \in SUBSET Runs
    /\ crowded \in BOOLEAN /\ bare \in BOOLEAN /\ cancels \in 0..MaxCancels /\ faults \in 0..MaxFaults

\* The value x of key k can be had from Vault.
Readable(k, x) == x = 0 \/ \E v \in 1..Latest : content[v][k] = x /\ v \notin deleted

\* Whatever runs race, crash or fail half-way, the version Vault is at is
\* never soft-deleted.
LatestReadable == Latest \notin deleted

\* A version is only retired by a rotation that has written the very next one,
\* with the same values for the keys it did not rotate, and has been through
\* its targets: although runs overlap and a read may fail, no version that
\* somebody else wrote is retired, none is skipped over, and no key that was
\* lost from the new version is lost for good.
RetiresOnlyReplaced ==
    [][\A v \in deleted' \ deleted : \E w \in Runs :
          /\ mode[w] = "rotate" /\ wrote[w] = v + 1
          /\ pc[w] = "propagate" /\ todo[w] = {}
          /\ \A k \in Keys \ keys[w] : content[v + 1][k] = content[v][k]]_vars

\* A rollback restores the version before the one it replaces, although other
\* runs may write between its reads and its write.
RollbackRestores ==
    [][\A w \in Runs :
          mode[w] = "rollback" /\ pc[w] = "write" /\ pc'[w] # "write" /\ content' # content =>
              Latest > 1 /\ content'[Latest'] = content[Latest - 1]]_vars

\* "an old version is only retired once every consumer has the new one": no
\* Secret, Actions secret or ring is left with a value that was retired,
\* wherever a run failed, was cancelled or died, and whichever keys it was
\* for. Runs must not overlap, and one that retires must name every target.
NoRetiredValueHeld ==
    ~crowded /\ ~bare => \A t \in Targets, k \in Keys : Readable(k, held[t][k])

\* A run that reports success has brought every target to the version Vault
\* is at, for the keys it was for and that version has: what verify promises
\* after a propagation that failed half-way. Without a list these are all keys
\* of the version.
LastRunOf(w) == pc[w] # "none" /\ \A v \in Runs : v > w => pc[v] = "none"
CompletedIsLive ==
    \A w \in Runs :
        ~crowded /\ LastRunOf(w) =>
            \A t \in Targets, k \in served[w] :
                content[Latest][k] # 0 => held[t][k] = content[Latest][k]

\* The run was not launched, or its new_secret_json did not parse.
Unstarted(w) == pc[w] = "none" \/ (pc[w] = "done" /\ status[w] = "queued")

\* Every run that starts ends with a verdict that stays in its row, unless the
\* server dies or the last write is lost: the "cancelled" that CancelRun stores
\* while the run goes on, and the run overwrites, is not the last of it.
RunEnds == <>[](\A w \in Runs : Unstarted(w) \/ status[w] \in Ended \/ faults > 0)

\* The same claim as NoRetiredValueHeld when runs overlap. Violated: a run
\* still has values in memory that another one has retired, and pushes them.
NoRetiredValueHeldEver == \A t \in Targets, k \in Keys : Readable(k, held[t][k])
=============================================================================
