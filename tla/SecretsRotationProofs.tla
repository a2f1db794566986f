------------------------ MODULE SecretsRotationProofs ------------------------
(***************************************************************************)
(* Proofs about SecretsRotation, for any number of runs, keys, targets,    *)
(* cancels and faults, and any versions the secret starts with.            *)
(***************************************************************************)
EXTENDS SecretsRotation, TLAPS

(***************************************************************************)
(* The inductive invariant.                                                *)
(***************************************************************************)
Behind == {"window", "verify", "propagate"}

\* Data new carries all of data old on, except for keys in ks that it renews.
Carries(new, old, ks) == \A k \in Keys : new[k] = old[k] \/ (k \in ks /\ new[k] # 0)

\* What the place of a run says of its copy of the world. A rotation writes the
\* successor of the version it has read and retires that one; a rollback
\* writes what it has restored.
OneRun(w) ==
    /\ pc[w] \in {"none", "preflight", "read"} => keys[w] = {}
    /\ pc[w] = "restore" => mode[w] = "rollback" /\ base[w] > 1
    /\ pc[w] = "write" => mode[w] \in {"rotate", "rollback"}
    /\ pc[w] = "write" /\ mode[w] = "rollback" => base[w] > 1 /\ own[w] = content[base[w] - 1]
    /\ pc[w] = "write" /\ mode[w] = "rotate" /\ base[w] > 0 => Carries(own[w], content[base[w]], keys[w])
    /\ pc[w] \in {"window", "verify"} => mode[w] = "rotate"
    /\ pc[w] \in Behind => Latest > 0
    /\ pc[w] \in Behind /\ mode[w] = "rotate" /\ base[w] > 0 =>
          /\ wrote[w] = base[w] + 1 /\ own[w] = content[wrote[w]]
          /\ Carries(content[wrote[w]], content[base[w]], keys[w])

RunInv == \A w \in Runs : OneRun(w)

VersionInv == TypeOK /\ RunInv /\ LatestReadable

\* The second invariant, about runs that do not overlap: from its write to its
\* end a run has the latest values; if it is for every target, those it is
\* done with have them too, for its keys, and a ring is done with after the
\* Secret it reads.
Has(t, ks) == \A k \in ks : content[Latest][k] # 0 => held[t][k] = content[Latest][k]
Pushing(w) ==
    pc[w] \in Behind =>
        /\ own[w] = content[Latest]
        /\ pc[w] = "propagate" /\ aim[w] = Targets =>
              /\ \A t \in Targets \ todo[w] : Has(t, keys[w])
              /\ \A t \in Rings \ todo[w] : Loads[t] \notin todo[w]

\* What the last run has left behind, nobody has touched.
LiveRun(w) ==
    LastRunOf(w) /\ served[w] # {} =>
        /\ \A v \in Runs : ~Executing(v)
        /\ \A t \in Targets : Has(t, served[w])

OrderInv == \A v, w \in Runs : v < w /\ pc[w] # "none" => pc[v] # "none"
DoneInv == \A w \in Runs : served[w] # {} => pc[w] = "done"
SoloInv == crowded \/ \A v, w \in Runs : Executing(v) /\ Executing(w) => v = w
PushInv == crowded \/ \A w \in Runs : Pushing(w)
LiveInv == crowded \/ \A w \in Runs : LiveRun(w)

TargetInv == OrderInv /\ DoneInv /\ SoloInv /\ PushInv /\ LiveInv /\ NoRetiredValueHeld

(***************************************************************************)
(* Types.                                                                  *)
(***************************************************************************)
Statuses == {"none", "queued", "running"} \cup Ended

\* A function on 1..n is a sequence of length n.
LEMMA Counted ==
    ASSUME NEW S, NEW n \in Nat, NEW f \in [1..n -> S] PROVE f \in Seq(S) /\ Len(f) = n
    OBVIOUS

\* The initial state is typed, and no run has begun.
LEMMA InitVersions == Init => VersionInv
<1> SUFFICES ASSUME Init PROVE VersionInv
    OBVIOUS
<1>1. PICK h \in Histories :
          content = [v \in 1..h.versions |-> [k \in Keys |-> v]] /\ deleted = h.retired
    BY DEF Init
<1> DEFINE n == h.versions
<1>2. n \in Nat /\ h.retired \subseteq 1..(n - 1)
    BY RotationAssumption, Zenon
<1>3. \A v \in 1..n : [k \in Keys |-> v] \in Maps
    BY DEF Maps
<1>4. content \in Seq(Maps) /\ Len(content) = n
    <2>1. content \in [1..n -> Maps]
        BY <1>1, <1>3
    <2> QED BY <1>2, <2>1, Counted
<1>5. Latest \in Nat /\ Latest = n
    BY <1>2, <1>4 DEF Latest
<1>6. Empty \in Maps /\ [k \in Keys |-> Latest] \in Maps
    BY <1>5 DEF Empty, Maps
<1>7. TypeOK
    <2>1. /\ status \in [Runs -> Statuses] /\ mode \in [Runs -> Modes] /\ pc \in [Runs -> PCs]
          /\ stop \in SUBSET Runs /\ cancelling \in SUBSET Runs
        BY DEF Init, Modes, PCs, Statuses
    <2>2. /\ todo \in [Runs -> SUBSET Targets] /\ changed \in [Runs -> SUBSET ExternalSecrets]
          /\ keys \in [Runs -> SUBSET Keys] /\ served \in [Runs -> SUBSET Keys]
          /\ aim \in [Runs -> SUBSET Targets]
        BY DEF Init
    <2>3. crowded \in BOOLEAN /\ bare \in BOOLEAN
        BY DEF Init
    <2>4. deleted \in SUBSET (1..Latest)
        BY <1>1, <1>2, <1>5
    <2>5. base \in [Runs -> 0..Latest] /\ wrote \in [Runs -> 0..Latest]
        BY <1>5 DEF Init
    <2>6. own \in [Runs -> Maps] /\ held \in [Targets -> Maps]
        BY <1>6 DEF Init
    <2>7. cancels \in 0..MaxCancels /\ faults \in 0..MaxFaults
        BY RotationAssumption DEF Init
    <2> QED BY <1>4, <2>1, <2>2, <2>3, <2>4, <2>5, <2>6, <2>7 DEF TypeOK, Statuses
<1>8. LatestReadable
    BY <1>1, <1>2, <1>5 DEF LatestReadable
<1> QED BY <1>7, <1>8 DEF VersionInv, RunInv, OneRun, Behind, Init

\* What appending a version does to the versions.
LEMMA Appended ==
    ASSUME NEW s \in Seq(Maps), NEW x \in Maps
    PROVE  /\ Append(s, x) \in Seq(Maps)
           /\ Len(s) \in Nat /\ Len(Append(s, x)) = Len(s) + 1
           /\ \A i \in 1..Len(s) : Append(s, x)[i] = s[i]
           /\ Append(s, x)[Len(s) + 1] = x
    OBVIOUS

\* A version is a map.
LEMMA Element == ASSUME NEW s \in Seq(Maps), NEW i \in 1..Len(s) PROVE s[i] \in Maps
    OBVIOUS

\* The latest version, and the one before a version, are maps.
LEMMA Versioned ==
    ASSUME TypeOK
    PROVE  /\ Latest \in Nat /\ 0 \in 0..Latest /\ Latest \in 0..Latest
           /\ Latest # 0 => Latest > 0 /\ content[Latest] \in Maps
           /\ \A b \in 0..Latest : b > 1 => content[b - 1] \in Maps
           /\ Empty \in Maps
<1>1. content \in Seq(Maps) /\ Latest \in Nat /\ Latest = Len(content)
    BY DEF TypeOK, Latest
<1>2. Latest # 0 => Latest \in 1..Len(content)
    BY <1>1
<1>3. \A b \in 0..Latest : b > 1 => b - 1 \in 1..Len(content)
    BY <1>1
<1>4. Empty \in Maps
    BY DEF Empty, Maps
<1> QED BY <1>1, <1>2, <1>3, <1>4, Element

\* The part of the state a phase or the end of a run rewrites.
RunTyped ==
    /\ status' \in [Runs -> Statuses] /\ pc' \in [Runs -> PCs] /\ mode' \in [Runs -> Modes]
    /\ served' \in [Runs -> SUBSET Keys]
    /\ stop' \in SUBSET Runs /\ faults' \in 0..MaxFaults
ReadTyped ==
    keys' \in [Runs -> SUBSET Keys] /\ base' \in [Runs -> 0..Latest] /\ own' \in [Runs -> Maps]
PushTyped ==
    aim' \in [Runs -> SUBSET Targets] /\ todo' \in [Runs -> SUBSET Targets]

\* A phase rewrites the row and the place of its run.
LEMMA GotoTyped == ASSUME TypeOK, NEW w \in Runs, NEW p \in PCs, Goto(w, p) PROVE RunTyped
    BY DEF Goto, TypeOK, RunTyped, Statuses

\* The end of a run forgets what it had in memory.
LEMMA FinishTyped ==
    ASSUME TypeOK, NEW w \in Runs, NEW s \in Ended, Finish(w, s)
    PROVE  RunTyped /\ ReadTyped /\ PushTyped /\ wrote' \in [Runs -> 0..Latest]
<1>1. status' \in [Runs -> Statuses] /\ pc' \in [Runs -> PCs]
    BY DEF Finish, TypeOK, PCs, Statuses
<1>2. mode' \in [Runs -> Modes] /\ stop' \in SUBSET Runs
    BY DEF Finish, Forget, TypeOK, Modes
<1>3. served' \in [Runs -> SUBSET Keys] /\ keys' \in [Runs -> SUBSET Keys]
    BY DEF Finish, Forget, TypeOK
<1>4. base' \in [Runs -> 0..Latest] /\ wrote' \in [Runs -> 0..Latest]
    BY Versioned DEF Finish, Forget, TypeOK
<1>5. own' \in [Runs -> Maps]
    BY Versioned DEF Finish, Forget, TypeOK
<1>6. aim' \in [Runs -> SUBSET Targets] /\ todo' \in [Runs -> SUBSET Targets]
    BY DEF Finish, Forget, TypeOK
<1>7. faults' \in 0..MaxFaults
    BY RotationAssumption DEF Finish, TypeOK
<1> QED BY <1>1, <1>2, <1>3, <1>4, <1>5, <1>6, <1>7 DEF RunTyped, ReadTyped, PushTyped

\* What a run notices is an ExternalSecret.
LEMMA NoticeTyped ==
    ASSUME TypeOK, NEW ts, Notice(ts) PROVE changed' \in [Runs -> SUBSET ExternalSecrets]
    BY DEF Notice, TypeOK

\* A target given values has values.
LEMMA HoldTyped ==
    ASSUME TypeOK, NEW t \in Targets, NEW x \in Maps, Hold(t, x)
    PROVE  held' \in [Targets -> Maps] /\ changed' \in [Runs -> SUBSET ExternalSecrets]
    BY NoticeTyped DEF Hold, TypeOK

\* The keys of a run are keys.
LEMMA KeysTyped == ASSUME NEW asked \in KeyLists, NEW data PROVE KeysFor(asked, data) \in SUBSET Keys
    BY RotationAssumption DEF KeysFor, KeysOf

\* The targets of a run are targets.
LEMMA StartTyped == ASSUME TypeOK, NEW w \in Runs, StartPropagation(w) PROVE PushTyped
    BY RotationAssumption DEF StartPropagation, TypeOK, PushTyped

\* Whatever a run pushes is a map.
LEMMA PushedTyped ==
    ASSUME TypeOK, NEW w \in Runs, NEW t \in Targets, NEW ks, Latest > 0
    PROVE  Pushed(w, t, ks) \in Maps
<1>1. content[Latest] \in Maps
    BY Versioned
<1>2. t \in Rings => Loads[t] \in Targets
    BY RotationAssumption DEF Targets, Secrets
<1>3. own[w] \in Maps /\ held[t] \in Maps /\ (t \in Rings => held[Loads[t]] \in Maps)
    BY <1>2 DEF TypeOK
<1>4. [k \in Keys |-> IF k \in ks /\ own[w][k] # 0 THEN own[w][k] ELSE held[t][k]] \in Maps
    BY <1>3 DEF Maps
<1> QED BY <1>1, <1>3, <1>4 DEF Pushed

\* A rotation prepares a map with a fresh value, or the one it has read, for
\* every key.
LEMMA PrepareMakes ==
    ASSUME TypeOK, NEW w \in Runs, NEW cur \in Maps, NEW b \in 0..Latest, PrepareNext(w, cur, b)
    PROVE  /\ ReadTyped
           /\ base'[w] = b /\ Carries(own'[w], cur, keys'[w])
           /\ \A v \in Runs \ {w} : base'[v] = base[v] /\ own'[v] = own[v] /\ keys'[v] = keys[v]
<1>1. PICK asked \in KeyLists, given \in NewSecrets, ks \in SUBSET Keys :
          /\ base' = [base EXCEPT ![w] = b]
          /\ own' = [own EXCEPT ![w] = Rotated(w, cur, ks, given)]
          /\ keys' = [keys EXCEPT ![w] = ks \cup given]
    <2>1. PICK asked \in KeyLists, given \in NewSecrets :
              /\ base' = [base EXCEPT ![w] = b]
              /\ own' = [own EXCEPT ![w] = Rotated(w, cur,
                           IF KeysFor(asked, cur) # {} THEN KeysFor(asked, cur) ELSE DefaultKeys, given)]
              /\ keys' = [keys EXCEPT ![w] =
                            (IF KeysFor(asked, cur) # {} THEN KeysFor(asked, cur) ELSE DefaultKeys) \cup given]
        BY DEF PrepareNext
    <2>2. (IF KeysFor(asked, cur) # {} THEN KeysFor(asked, cur) ELSE DefaultKeys) \in SUBSET Keys
        BY KeysTyped, RotationAssumption
    <2> QED BY <2>1, <2>2
<1>2. given \in SUBSET Keys
    BY RotationAssumption
<1>3. Fresh(w) \in Int /\ Fresh(w) # 0
    BY RotationAssumption DEF Fresh, Runs
<1> DEFINE new == Rotated(w, cur, ks, given)
<1>4. new \in Maps /\ Carries(new, cur, ks \cup given)
    BY <1>3 DEF Rotated, Maps, Carries
<1>5. keys' \in [Runs -> SUBSET Keys] /\ keys'[w] = ks \cup given
    BY <1>1, <1>2 DEF TypeOK
<1>6. own' \in [Runs -> Maps] /\ own'[w] = new
    BY <1>1, <1>4 DEF TypeOK
<1>7. base' \in [Runs -> 0..Latest] /\ base'[w] = b
    BY <1>1 DEF TypeOK
<1>8. \A v \in Runs \ {w} : base'[v] = base[v] /\ own'[v] = own[v] /\ keys'[v] = keys[v]
    BY <1>1 DEF TypeOK
<1> QED BY <1>4, <1>5, <1>6, <1>7, <1>8 DEF ReadTyped

\* A rotation starts from what it has read, or from nothing.
LEMMA RotateReads ==
    ASSUME TypeOK, NEW w \in Runs, ReadForRotate(w)
    PROVE  /\ ReadTyped
           /\ base'[w] = 0 \/ (base'[w] = Latest /\ Carries(own'[w], content[Latest], keys'[w]))
           /\ \A v \in Runs \ {w} : base'[v] = base[v] /\ own'[v] = own[v] /\ keys'[v] = keys[v]
<1>1. CASE ReadLatest(w) /\ PrepareNext(w, content[Latest], Latest)
    <2>1. content[Latest] \in Maps
        BY <1>1, Versioned DEF ReadLatest
    <2> QED BY <1>1, <2>1, Versioned, PrepareMakes
<1>2. CASE PrepareNext(w, Empty, 0)
    BY <1>2, Versioned, PrepareMakes
<1> QED BY <1>1, <1>2 DEF ReadForRotate

\* A write adds the version the run has prepared.
LEMMA Written ==
    ASSUME VersionInv, NEW w \in Runs, WriteNew(w)
    PROVE  /\ content' \in Seq(Maps) /\ Latest \in Nat /\ Latest' = Latest + 1
           /\ \A i \in 1..Latest : content'[i] = content[i]
           /\ content'[Latest'] = own[w] /\ deleted' = deleted
           /\ base[w] \in {0, Latest}
           /\ mode[w] = "rollback" => Latest > 1 /\ own[w] = content[Latest - 1]
           /\ \/ /\ wrote' = [wrote EXCEPT ![w] = Latest'] /\ UNCHANGED readVars
                 /\ \/ mode[w] = "rotate" /\ Goto(w, "window") /\ UNCHANGED <<aim, todo>>
                    \/ mode[w] # "rotate" /\ Goto(w, "propagate") /\ StartPropagation(w)
              \/ Finish(w, "failed")
<1>1. content \in Seq(Maps) /\ Latest \in Nat /\ own[w] \in Maps /\ content' = Append(content, own[w])
    BY DEF VersionInv, TypeOK, WriteNew, Latest
<1>2. /\ content' \in Seq(Maps) /\ Latest' = Latest + 1
      /\ \A i \in 1..Latest : content'[i] = content[i]
      /\ content'[Latest + 1] = own[w]
    BY <1>1, Appended DEF Latest
<1>3. base[w] \in {0, Latest} /\ deleted' = deleted /\ pc[w] = "write"
    BY DEF WriteNew, CasOK
<1>4. mode[w] = "rollback" => Latest > 1 /\ own[w] = content[Latest - 1]
    BY <1>1, <1>3 DEF VersionInv, RunInv, OneRun
<1>5. \/ /\ wrote' = [wrote EXCEPT ![w] = Latest'] /\ UNCHANGED readVars
         /\ \/ mode[w] = "rotate" /\ Goto(w, "window") /\ UNCHANGED <<aim, todo>>
            \/ mode[w] # "rotate" /\ Goto(w, "propagate") /\ StartPropagation(w)
      \/ Finish(w, "failed")
    BY <1>2 DEF WriteNew
<1> QED BY <1>1, <1>2, <1>3, <1>4, <1>5

\* Every step keeps the types.
LEMMA NextTyping == ASSUME VersionInv, [Next]_vars PROVE TypeOK'
<1>0. TypeOK /\ RunInv /\ Latest \in Nat
    BY Versioned DEF VersionInv
<1> USE DEF vaultVars, readVars, pushVars, memVars, noteVars, Statuses
<1>1. ASSUME NEW w \in Runs, CreateRun(w) PROVE TypeOK'
    <2>1. crowded' \in BOOLEAN /\ bare' \in BOOLEAN
        BY <1>0, <1>1 DEF CreateRun, TypeOK
    <2>2. status' \in [Runs -> Statuses] /\ pc' \in [Runs -> PCs] /\ mode' \in [Runs -> Modes]
        BY <1>0, <1>1 DEF CreateRun, TypeOK, PCs
    <2> QED BY <1>0, <1>1, <2>1, <2>2 DEF CreateRun, TypeOK, Latest
<1>2. ASSUME NEW w \in Runs, CancelRun(w) PROVE TypeOK'
    <2>1. cancels' \in 0..MaxCancels /\ stop' \in SUBSET Runs /\ cancelling' \in SUBSET Runs
        BY <1>0, <1>2, RotationAssumption DEF CancelRun, TypeOK
    <2> QED BY <1>0, <1>2, <2>1 DEF CancelRun, TypeOK, Latest
<1>3. ASSUME NEW w \in Runs, CancelWrite(w) PROVE TypeOK'
    <2>1. status' \in [Runs -> Statuses]
        BY <1>0, <1>3 DEF CancelWrite, TypeOK, Ended
    <2> QED BY <1>0, <1>3, <2>1 DEF CancelWrite, TypeOK, Latest
<1>4. ASSUME NEW w \in Runs, Fail(w) \/ RunPlan(w) PROVE TypeOK'
    <2>1. \E s \in Ended : Finish(w, s)
        BY <1>4 DEF Fail, RunPlan, Succeed, Ended
    <2>2. RunTyped /\ ReadTyped /\ PushTyped /\ wrote' \in [Runs -> 0..Latest]
        BY <1>0, <2>1, FinishTyped
    <2>3. changed' \in [Runs -> SUBSET ExternalSecrets]
        BY <1>0, <1>4, NoticeTyped DEF Fail, RunPlan
    <2> QED BY <1>0, <1>4, <2>2, <2>3 DEF Fail, RunPlan, TypeOK, RunTyped, ReadTyped, PushTyped, Latest
<1>5. ASSUME NEW w \in Runs, Preflight(w) PROVE TypeOK'
    <2>1. RunTyped
        BY <1>0, <1>5, GotoTyped DEF Preflight, PCs
    <2>2. changed' \in [Runs -> SUBSET ExternalSecrets]
        BY <1>0, <1>5 DEF Preflight, TypeOK
    <2> QED BY <1>0, <1>5, <2>1, <2>2 DEF Preflight, TypeOK, RunTyped, Latest
<1>6. ASSUME NEW w \in Runs, DualWindow(w) PROVE TypeOK'
    <2>1. RunTyped
        BY <1>0, <1>6, GotoTyped DEF DualWindow, PCs
    <2> QED BY <1>0, <1>6, <2>1 DEF DualWindow, TypeOK, RunTyped, Latest
<1>7. ASSUME NEW w \in Runs, Verify(w) PROVE TypeOK'
    <2>1. RunTyped /\ PushTyped
        BY <1>0, <1>7, GotoTyped, StartTyped DEF Verify, PCs
    <2> QED BY <1>0, <1>7, <2>1 DEF Verify, TypeOK, RunTyped, PushTyped, Latest
<1>8. ASSUME NEW w \in Runs, ReadForRotate(w) PROVE TypeOK'
    <2>1. RunTyped /\ ReadTyped
        BY <1>0, <1>8, GotoTyped, RotateReads DEF ReadForRotate, PCs
    <2> QED BY <1>0, <1>8, <2>1 DEF ReadForRotate, TypeOK, RunTyped, ReadTyped, Latest
<1>9. ASSUME NEW w \in Runs, ReadForRollback(w) PROVE TypeOK'
    <2>1. RunTyped
        BY <1>0, <1>9, GotoTyped DEF ReadForRollback, PCs
    <2>2. base' \in [Runs -> 0..Latest]
        BY <1>0, <1>9, Versioned DEF ReadForRollback, TypeOK
    <2> QED BY <1>0, <1>9, <2>1, <2>2 DEF ReadForRollback, TypeOK, RunTyped, Latest
<1>10. ASSUME NEW w \in Runs, Restore(w) PROVE TypeOK'
    <2>1. RunTyped
        BY <1>0, <1>10, GotoTyped, FinishTyped DEF Restore, PCs, Ended
    <2>2. content[base[w] - 1] \in Maps
        BY <1>0, <1>10, Versioned DEF Restore, RunInv, OneRun, TypeOK
    <2>3. deleted' \in SUBSET (1..Latest)
        BY <1>0, <1>10 DEF Restore, TypeOK
    <2>4. ReadTyped /\ PushTyped /\ wrote' \in [Runs -> 0..Latest]
        <3>1. CASE /\ own' = [own EXCEPT ![w] = content[base[w] - 1]] /\ UNCHANGED <<base, pushVars>>
                   /\ \E asked \in KeyLists :
                         keys' = [keys EXCEPT ![w] = KeysFor(asked, content[base[w] - 1])]
            BY <1>0, <2>2, <3>1, KeysTyped DEF ReadTyped, PushTyped, TypeOK
        <3>2. CASE Finish(w, "failed")
            BY <1>0, <3>2, FinishTyped DEF Ended
        <3> QED BY <1>10, <3>1, <3>2 DEF Restore
    <2>5. changed' \in [Runs -> SUBSET ExternalSecrets]
        BY <1>0, <1>10, NoticeTyped DEF Restore
    <2> QED BY <1>0, <1>10, <2>1, <2>3, <2>4, <2>5 DEF Restore, TypeOK, RunTyped, ReadTyped, PushTyped, Latest
<1>11. ASSUME NEW w \in Runs, ReadForVerify(w) PROVE TypeOK'
    <2>1. RunTyped /\ PushTyped
        BY <1>0, <1>11, GotoTyped, StartTyped DEF ReadForVerify, PCs
    <2>2. content[Latest] \in Maps
        BY <1>0, <1>11, Versioned DEF ReadForVerify, ReadLatest
    <2>3. own' \in [Runs -> Maps] /\ keys' \in [Runs -> SUBSET Keys]
        BY <1>0, <1>11, <2>2, KeysTyped DEF ReadForVerify, TypeOK
    <2> QED BY <1>0, <1>11, <2>1, <2>3 DEF ReadForVerify, TypeOK, RunTyped, PushTyped, Latest
<1>12. ASSUME NEW w \in Runs, WriteNew(w) PROVE TypeOK'
    <2>1. /\ content' \in Seq(Maps) /\ Latest' = Latest + 1 /\ deleted' = deleted
          /\ \/ /\ wrote' = [wrote EXCEPT ![w] = Latest'] /\ UNCHANGED readVars
                /\ \/ mode[w] = "rotate" /\ Goto(w, "window") /\ UNCHANGED <<aim, todo>>
                   \/ mode[w] # "rotate" /\ Goto(w, "propagate") /\ StartPropagation(w)
             \/ Finish(w, "failed")
        BY <1>12, Written
    <2>2. 0..Latest \subseteq 0..Latest' /\ 1..Latest \subseteq 1..Latest' /\ Latest' \in 0..Latest'
        BY <1>0, <2>1
    <2>3. RunTyped /\ ReadTyped /\ PushTyped /\ wrote' \in [Runs -> 0..Latest']
        <3>1. CASE Finish(w, "failed")
            BY <1>0, <2>2, <3>1, FinishTyped DEF Ended
        <3>2. CASE /\ wrote' = [wrote EXCEPT ![w] = Latest'] /\ UNCHANGED readVars
                   /\ \/ mode[w] = "rotate" /\ Goto(w, "window") /\ UNCHANGED <<aim, todo>>
                      \/ mode[w] # "rotate" /\ Goto(w, "propagate") /\ StartPropagation(w)
            <4>1. RunTyped
                BY <1>0, <3>2, GotoTyped DEF PCs
            <4>2. PushTyped
                BY <1>0, <3>2, StartTyped DEF PushTyped, TypeOK
            <4>3. wrote' \in [Runs -> 0..Latest'] /\ ReadTyped
                BY <1>0, <2>2, <3>2 DEF ReadTyped, TypeOK
            <4> QED BY <4>1, <4>2, <4>3
        <3> QED BY <2>1, <3>1, <3>2
    <2>4. base' \in [Runs -> 0..Latest'] /\ deleted' \in SUBSET (1..Latest')
        BY <1>0, <2>1, <2>2, <2>3 DEF ReadTyped, TypeOK
    <2>5. changed' \in [Runs -> SUBSET ExternalSecrets]
        BY <1>0, <1>12, NoticeTyped DEF WriteNew
    <2> QED BY <1>0, <1>12, <2>1, <2>3, <2>4, <2>5 DEF WriteNew, TypeOK, RunTyped, ReadTyped, PushTyped
<1>13. ASSUME NEW w \in Runs, NEW t \in Targets, Propagate(w, t) PROVE TypeOK'
    <2>1. Latest > 0
        BY <1>0, <1>13 DEF Propagate, RunInv, OneRun, Behind
    <2>2. held' \in [Targets -> Maps] /\ changed' \in [Runs -> SUBSET ExternalSecrets]
        BY <1>0, <1>13, <2>1, HoldTyped, PushedTyped DEF Propagate
    <2>3. RunTyped /\ ReadTyped /\ PushTyped /\ wrote' \in [Runs -> 0..Latest]
        <3>1. CASE Finish(w, "failed")
            BY <1>0, <3>1, FinishTyped DEF Ended
        <3>2. CASE todo' = [todo EXCEPT ![w] = @ \ {t}] /\ Goto(w, "propagate") /\ UNCHANGED <<readVars, wrote, aim>>
            BY <1>0, <3>2, GotoTyped DEF PCs, ReadTyped, PushTyped, TypeOK
        <3> QED BY <1>13, <3>1, <3>2 DEF Propagate
    <2> QED BY <1>0, <1>13, <2>2, <2>3 DEF Propagate, TypeOK, RunTyped, ReadTyped, PushTyped, Latest
<1>14. ASSUME NEW w \in Runs, RetireOld(w) PROVE TypeOK'
    <2>1. RunTyped /\ ReadTyped /\ PushTyped /\ wrote' \in [Runs -> 0..Latest]
        BY <1>0, <1>14, FinishTyped DEF RetireOld, Succeed, Ended
    <2>2. base[w] \in 0..Latest /\ deleted \in SUBSET (1..Latest)
        BY <1>0 DEF TypeOK
    <2>3. base[w] > 0 => base[w] \in 1..Latest
        BY <1>0, <2>2
    <2>4. deleted' = deleted \/ (base[w] > 0 /\ deleted' = deleted \cup {base[w]})
        BY <1>14, Zenon DEF RetireOld, ReplacesOld, Retired
    <2>5. deleted' \in SUBSET (1..Latest)
        BY <2>2, <2>3, <2>4
    <2>6. bare' \in BOOLEAN
        BY <1>0, <1>14 DEF RetireOld, TypeOK
    <2>7. changed' \in [Runs -> SUBSET ExternalSecrets]
        BY <1>0, <1>14, NoticeTyped DEF RetireOld
    <2> QED BY <1>0, <1>14, <2>1, <2>5, <2>6, <2>7 DEF RetireOld, TypeOK, RunTyped, ReadTyped, PushTyped, Latest
<1>15. ASSUME NEW t \in Targets, (t \in ExternalSecrets /\ Refresh(t)) \/ (t \in Rings /\ Reload(t))
       PROVE  TypeOK'
    <2>1. \E x \in Maps : Hold(t, x)
        <3>1. CASE t \in ExternalSecrets /\ Refresh(t)
            BY <1>0, <3>1, Versioned DEF Refresh
        <3>2. CASE t \in Rings /\ Reload(t)
            BY <1>0, <3>2, RotationAssumption DEF Reload, TypeOK, Targets, Secrets
        <3> QED BY <1>15, <3>1, <3>2
    <2>2. held' \in [Targets -> Maps] /\ changed' \in [Runs -> SUBSET ExternalSecrets]
        BY <1>0, <2>1, HoldTyped
    <2> QED BY <1>0, <1>15, <2>2 DEF Refresh, Reload, TypeOK, Latest
<1>16. CASE Crash
    <2>1. /\ pc' \in [Runs -> PCs] /\ mode' \in [Runs -> Modes]
          /\ stop' \in SUBSET Runs /\ cancelling' \in SUBSET Runs
        BY <1>0, <1>16 DEF Crash, TypeOK, PCs, Modes
    <2>2. /\ todo' \in [Runs -> SUBSET Targets] /\ aim' \in [Runs -> SUBSET Targets]
          /\ keys' \in [Runs -> SUBSET Keys]
        BY <1>16 DEF Crash
    <2>3. base' \in [Runs -> 0..Latest] /\ wrote' \in [Runs -> 0..Latest] /\ own' \in [Runs -> Maps]
        BY <1>0, <1>16, Versioned DEF Crash
    <2>4. faults' \in 0..MaxFaults
        BY <1>0, <1>16, RotationAssumption DEF Crash, TypeOK
    <2>5. changed' \in [Runs -> SUBSET ExternalSecrets]
        BY <1>0, <1>16, NoticeTyped DEF Crash
    <2> QED BY <1>0, <1>16, <2>1, <2>2, <2>3, <2>4, <2>5 DEF Crash, TypeOK, Latest
<1>17. CASE UNCHANGED vars
    BY <1>0, <1>17 DEF vars, TypeOK, Latest
<1>18. Rings \subseteq Targets /\ ExternalSecrets \subseteq Targets
    BY DEF Targets, Secrets
<1> QED BY <1>1, <1>2, <1>3, <1>4, <1>5, <1>6, <1>7, <1>8, <1>9, <1>10, <1>11, <1>12, <1>13, <1>14, <1>15,
           <1>16, <1>17, <1>18 DEF Next, RunStep

(***************************************************************************)
(* The versions.                                                           *)
(***************************************************************************)
\* Run v is left alone; the versions are left alone or added to.
Same(v) ==
    /\ pc'[v] = pc[v] /\ mode'[v] = mode[v] /\ keys'[v] = keys[v]
    /\ base'[v] = base[v] /\ own'[v] = own[v] /\ wrote'[v] = wrote[v]
Grows ==
    /\ Latest \in Nat /\ Latest' \in Nat /\ Latest <= Latest'
    /\ \A i \in 1..Latest : content'[i] = content[i]

\* What is true of a run stays true while it is left alone.
LEMMA RunKept == ASSUME VersionInv, Grows, NEW v \in Runs, Same(v) PROVE OneRun(v)'
<1>1. OneRun(v) /\ base[v] \in 0..Latest /\ wrote[v] \in 0..Latest
    BY DEF VersionInv, RunInv, TypeOK
<1>2. /\ base[v] > 0 => content'[base[v]] = content[base[v]]
      /\ base[v] > 1 => content'[base[v] - 1] = content[base[v] - 1]
      /\ wrote[v] > 0 => content'[wrote[v]] = content[wrote[v]]
    BY <1>1 DEF Grows
<1>3. Latest > 0 => Latest' > 0
    BY DEF Grows
<1>4. wrote[v] = base[v] + 1 => wrote[v] > 0
    BY <1>1
<1> QED BY <1>1, <1>2, <1>3, <1>4 DEF OneRun, Same, Carries

\* A step of one run keeps what is true of the others.
LEMMA RunFrame ==
    ASSUME VersionInv, Grows, NEW w \in Runs, OneRun(w)', \A v \in Runs \ {w} : Same(v)
    PROVE  RunInv'
<1> SUFFICES ASSUME NEW v \in Runs, v # w PROVE OneRun(v)'
    BY DEF RunInv
<1> QED BY RunKept

\* The versions are left alone.
LEMMA GrowsSame == ASSUME VersionInv, UNCHANGED content PROVE Grows /\ Latest' = Latest
    BY Versioned DEF VersionInv, Grows, Latest

\* A phase moves its run and no other.
LEMMA GotoMoves ==
    ASSUME TypeOK, NEW w \in Runs, NEW p \in PCs, Goto(w, p)
    PROVE  /\ pc'[w] = p /\ mode' = mode /\ served' = served
           /\ \A v \in Runs \ {w} : pc'[v] = pc[v]
    BY DEF Goto, TypeOK

\* So does the end of a run.
LEMMA FinishMoves ==
    ASSUME TypeOK, NEW w \in Runs, NEW s, Finish(w, s)
    PROVE  /\ pc'[w] = "done" /\ served'[w] \in {{}, keys[w]}
           /\ served'[w] # {} => s = "completed" /\ aim[w] = Targets
           /\ \A v \in Runs \ {w} :
                 Same(v) /\ todo'[v] = todo[v] /\ aim'[v] = aim[v] /\ served'[v] = served[v]
    BY DEF Finish, Forget, TypeOK, Same

\* Nothing is left to say of a run that has ended.
LEMMA FinishRun ==
    ASSUME VersionInv, NEW w \in Runs, NEW s, Finish(w, s), Grows
    PROVE  RunInv'
<1>1. OneRun(w)'
    BY FinishMoves DEF OneRun, VersionInv, Behind
<1> QED BY <1>1, FinishMoves, RunFrame DEF VersionInv

\* Every step keeps RunInv.
LEMMA NextRuns == ASSUME VersionInv, [Next]_vars PROVE RunInv'
<1>0. TypeOK /\ RunInv /\ Latest \in Nat
    BY Versioned DEF VersionInv
<1> USE DEF vaultVars, readVars, pushVars, memVars
<1>1. ASSUME NEW w \in Runs, CreateRun(w) PROVE RunInv'
    <2>1. pc'[w] \in {"preflight", "done"} /\ keys'[w] = {}
        BY <1>0, <1>1 DEF CreateRun, TypeOK, RunInv, OneRun
    <2>2. OneRun(w)'
        BY <2>1 DEF OneRun, Behind
    <2>3. \A v \in Runs \ {w} : Same(v)
        BY <1>0, <1>1 DEF CreateRun, TypeOK, Same
    <2> QED BY <1>1, <2>2, <2>3, RunFrame, GrowsSame DEF CreateRun
<1>2. ASSUME \/ \E w \in Runs : CancelRun(w) \/ CancelWrite(w)
             \/ \E t \in ExternalSecrets : Refresh(t)
             \/ \E t \in Rings : Reload(t)
             \/ UNCHANGED vars
      PROVE  RunInv'
    <2>1. content' = content /\ \A v \in Runs : Same(v)
        BY <1>2 DEF CancelRun, CancelWrite, Refresh, Reload, vars, Same
    <2> QED BY <2>1, RunKept, GrowsSame DEF RunInv
<1>3. ASSUME NEW w \in Runs, NEW s, Finish(w, s), content' = content PROVE RunInv'
    BY <1>3, FinishRun, GrowsSame
<1>4. ASSUME NEW w \in Runs, Fail(w) \/ RunPlan(w) \/ RetireOld(w) PROVE RunInv'
    <2>1. content' = content /\ \E s : Finish(w, s)
        BY <1>4 DEF Fail, RunPlan, RetireOld, Succeed
    <2> QED BY <1>3, <2>1
<1>5. ASSUME NEW w \in Runs, content' = content, OneRun(w)', \A v \in Runs \ {w} : Same(v) PROVE RunInv'
    BY <1>5, RunFrame, GrowsSame
<1>6. ASSUME NEW w \in Runs, Preflight(w) PROVE RunInv'
    <2>1. pc'[w] = "read" /\ keys'[w] = {} /\ content' = content /\ \A v \in Runs \ {w} : Same(v)
        BY <1>0, <1>6, GotoMoves DEF Preflight, PCs, Same, RunInv, OneRun
    <2> QED BY <1>5, <2>1 DEF OneRun, Behind
<1>7. ASSUME NEW w \in Runs, DualWindow(w) \/ Verify(w) PROVE RunInv'
    <2>1. /\ pc[w] \in {"window", "verify"} /\ pc'[w] \in {"verify", "propagate"} /\ mode' = mode
          /\ content' = content /\ UNCHANGED <<readVars, wrote>> /\ \A v \in Runs \ {w} : Same(v)
        BY <1>0, <1>7, GotoMoves DEF DualWindow, Verify, PCs, Same
    <2>2. OneRun(w) /\ Latest' = Latest
        BY <1>0, <2>1, GrowsSame DEF RunInv
    <2>3. OneRun(w)'
        BY <2>1, <2>2 DEF OneRun, Behind
    <2> QED BY <1>5, <2>1, <2>3
<1>8. ASSUME NEW w \in Runs, ReadForRotate(w) PROVE RunInv'
    <2>1. /\ pc'[w] = "write" /\ mode[w] = "rotate" /\ mode' = mode /\ content' = content /\ wrote' = wrote
          /\ \A v \in Runs \ {w} : pc'[v] = pc[v]
        BY <1>0, <1>8, GotoMoves DEF ReadForRotate, PCs
    <2>2. base'[w] = 0 \/ (base'[w] = Latest /\ Carries(own'[w], content[Latest], keys'[w]))
        BY <1>0, <1>8, RotateReads
    <2>3. OneRun(w)'
        BY <2>1, <2>2 DEF OneRun, Behind, Carries
    <2>4. \A v \in Runs \ {w} : Same(v)
        BY <1>0, <1>8, <2>1, RotateReads DEF Same
    <2> QED BY <1>5, <2>1, <2>3, <2>4
<1>9. ASSUME NEW w \in Runs, ReadForRollback(w) PROVE RunInv'
    <2>1. /\ pc'[w] = "restore" /\ mode[w] = "rollback" /\ mode' = mode /\ content' = content
          /\ base'[w] = Latest /\ Latest > 1 /\ \A v \in Runs \ {w} : Same(v)
        BY <1>0, <1>9, GotoMoves DEF ReadForRollback, PCs, Same, TypeOK
    <2>2. OneRun(w)'
        BY <2>1 DEF OneRun, Behind
    <2> QED BY <1>5, <2>1, <2>2
<1>10. ASSUME NEW w \in Runs, Restore(w) PROVE RunInv'
    <2>1. CASE Finish(w, "failed")
        BY <1>3, <1>10, <2>1 DEF Restore
    <2>2. CASE ~Finish(w, "failed")
        <3>1. /\ pc[w] = "restore" /\ pc'[w] = "write" /\ mode' = mode /\ content' = content /\ base' = base
              /\ own'[w] = content[base[w] - 1] /\ \A v \in Runs \ {w} : Same(v)
            BY <1>0, <1>10, <2>2, GotoMoves DEF Restore, PCs, Same, TypeOK
        <3>2. mode[w] = "rollback" /\ base[w] > 1
            BY <1>0, <3>1 DEF RunInv, OneRun
        <3>3. OneRun(w)'
            BY <3>1, <3>2 DEF OneRun, Behind
        <3> QED BY <1>5, <3>1, <3>3
    <2> QED BY <2>1, <2>2
<1>11. ASSUME NEW w \in Runs, ReadForVerify(w) PROVE RunInv'
    <2>1. /\ pc'[w] = "propagate" /\ mode[w] = "verify" /\ mode' = mode /\ content' = content
          /\ Latest > 0 /\ Latest' = Latest /\ \A v \in Runs \ {w} : Same(v)
        BY <1>0, <1>11, GotoMoves, Versioned, GrowsSame DEF ReadForVerify, ReadLatest, PCs, Same, TypeOK
    <2>2. OneRun(w)'
        BY <2>1 DEF OneRun, Behind
    <2> QED BY <1>5, <2>1, <2>2
<1>12. ASSUME NEW w \in Runs, WriteNew(w) PROVE RunInv'
    <2>1. /\ Latest' = Latest + 1 /\ content'[Latest'] = own[w]
          /\ \A i \in 1..Latest : content'[i] = content[i]
          /\ base[w] \in {0, Latest} /\ pc[w] = "write"
          /\ \/ /\ wrote' = [wrote EXCEPT ![w] = Latest'] /\ UNCHANGED readVars
                /\ \/ mode[w] = "rotate" /\ Goto(w, "window")
                   \/ mode[w] # "rotate" /\ Goto(w, "propagate")
             \/ Finish(w, "failed")
        BY <1>12, Written DEF WriteNew
    <2>2. Grows
        BY <1>0, <2>1 DEF Grows
    <2>3. CASE Finish(w, "failed")
        BY <2>2, <2>3, FinishRun
    <2>4. CASE /\ wrote' = [wrote EXCEPT ![w] = Latest'] /\ UNCHANGED readVars
               /\ \/ mode[w] = "rotate" /\ Goto(w, "window")
                  \/ mode[w] # "rotate" /\ Goto(w, "propagate")
        <3>1. /\ pc'[w] = IF mode[w] = "rotate" THEN "window" ELSE "propagate"
              /\ mode' = mode /\ \A v \in Runs \ {w} : Same(v)
            BY <1>0, <2>4, GotoMoves DEF PCs, Same, TypeOK
        <3>2. wrote'[w] = Latest + 1 /\ Latest' > 0
            BY <1>0, <2>1, <2>4 DEF TypeOK
        <3>3. mode[w] = "rotate" /\ base[w] > 0 =>
                 base[w] = Latest /\ Carries(own[w], content[base[w]], keys[w])
            BY <1>0, <2>1 DEF RunInv, OneRun
        <3>4. base[w] > 0 => content'[base[w]] = content[base[w]]
            BY <1>0, <2>1
        <3>5. OneRun(w)'
            BY <2>1, <2>4, <3>1, <3>2, <3>3, <3>4 DEF OneRun, Behind, Carries
        <3> QED BY <2>2, <3>1, <3>5, RunFrame
    <2> QED BY <2>1, <2>3, <2>4
<1>13. ASSUME NEW w \in Runs, NEW t \in Targets, Propagate(w, t) PROVE RunInv'
    <2>1. CASE Finish(w, "failed")
        BY <1>3, <1>13, <2>1 DEF Propagate
    <2>2. CASE Goto(w, "propagate") /\ UNCHANGED <<readVars, wrote>>
        <3>1. content' = content /\ \A v \in Runs : Same(v)
            BY <1>0, <1>13, <2>2, GotoMoves DEF Propagate, PCs, Same
        <3> QED BY <3>1, RunKept, GrowsSame DEF RunInv
    <2> QED BY <1>13, <2>1, <2>2 DEF Propagate
<1>14. CASE Crash
    <2> SUFFICES ASSUME NEW w \in Runs PROVE OneRun(w)'
        BY DEF RunInv
    <2>1. pc'[w] \in {"none", "done"} /\ keys'[w] = {}
        BY <1>14 DEF Crash, Executing
    <2> QED BY <2>1 DEF OneRun, Behind
<1> QED BY <1>1, <1>2, <1>4, <1>6, <1>7, <1>8, <1>9, <1>10, <1>11, <1>12, <1>13, <1>14 DEF Next, RunStep

\* A step leaves the versions alone, or it is a write, a restore or the end
\* of a rotation.
LEMMA StepKinds ==
    ASSUME [Next]_vars
    PROVE  \/ \E w \in Runs : WriteNew(w) \/ Restore(w) \/ RetireOld(w)
           \/ content' = content /\ deleted' = deleted
<1> USE DEF vaultVars
<1>1. ASSUME NEW w \in Runs, CreateRun(w) \/ CancelRun(w) \/ CancelWrite(w)
      PROVE  content' = content /\ deleted' = deleted
    BY <1>1 DEF CreateRun, CancelRun, CancelWrite
<1>2. ASSUME NEW w \in Runs, Fail(w) \/ Preflight(w) \/ RunPlan(w) \/ ReadForRotate(w)
                             \/ ReadForRollback(w) \/ ReadForVerify(w) \/ DualWindow(w) \/ Verify(w)
      PROVE  content' = content /\ deleted' = deleted
    BY <1>2 DEF Fail, Preflight, RunPlan, ReadForRotate, ReadForRollback, ReadForVerify, DualWindow, Verify
<1>3. ASSUME NEW w \in Runs, NEW t \in Targets, Propagate(w, t)
      PROVE  content' = content /\ deleted' = deleted
    BY <1>3 DEF Propagate
<1>4. ASSUME \/ \E t \in ExternalSecrets : Refresh(t)
             \/ \E t \in Rings : Reload(t)
             \/ Crash \/ UNCHANGED vars
      PROVE  content' = content /\ deleted' = deleted
    BY <1>4 DEF Refresh, Reload, Crash, vars
<1> QED BY <1>1, <1>2, <1>3, <1>4 DEF Next, RunStep

\* What the end of a rotation does to the versions.
LEMMA Retires ==
    ASSUME VersionInv, NEW w \in Runs, RetireOld(w)
    PROVE  /\ content' = content /\ Latest' = Latest /\ held' = held /\ crowded' = crowded
           /\ \/ deleted' = deleted /\ bare' = bare
              \/ /\ mode[w] = "rotate" /\ base[w] \in 1..(Latest - 1) /\ wrote[w] = base[w] + 1
                 /\ deleted' = deleted \cup {base[w]}
                 /\ Carries(content[wrote[w]], content[base[w]], keys[w])
                 /\ ~bare' => aim[w] = Targets
           /\ bare => bare'
<1>0. TypeOK /\ RunInv /\ Latest \in Nat /\ base[w] \in 0..Latest /\ wrote[w] \in 0..Latest
    BY Versioned DEF VersionInv, TypeOK
<1>1. content' = content /\ Latest' = Latest /\ held' = held /\ crowded' = crowded /\ pc[w] = "propagate"
    BY DEF RetireOld, MayRetire, Latest
<1>2. CASE deleted' = deleted /\ bare' = bare
    BY <1>1, <1>2
<1>3. CASE ReplacesOld(w) /\ deleted' = deleted \cup Retired(w) /\ bare' = (bare \/ aim[w] # Targets)
    <2>1. mode[w] = "rotate" /\ base[w] > 0 /\ deleted' = deleted \cup {base[w]}
        BY <1>3, Zenon DEF ReplacesOld, Retired
    <2>2. wrote[w] = base[w] + 1 /\ Carries(content[wrote[w]], content[base[w]], keys[w])
        BY <1>0, <1>1, <2>1 DEF RunInv, OneRun, Behind
    <2>3. base[w] \in 1..(Latest - 1)
        BY <1>0, <2>1, <2>2
    <2>4. (~bare' => aim[w] = Targets) /\ (bare => bare')
        BY <1>3
    <2> QED BY <1>1, <2>1, <2>2, <2>3, <2>4
<1> QED BY <1>2, <1>3 DEF RetireOld

\* A write adds a version above all deleted ones, and what a rotation retires
\* is older than its own.
LEMMA NextLatest == ASSUME VersionInv, [Next]_vars PROVE LatestReadable'
<1>0. LatestReadable /\ Latest \in Nat /\ deleted \in SUBSET (1..Latest)
    BY Versioned DEF VersionInv, TypeOK
<1>1. ASSUME NEW w \in Runs, WriteNew(w) PROVE LatestReadable'
    <2>1. deleted' = deleted /\ Latest' = Latest + 1
        BY <1>1, Written
    <2>2. Latest + 1 \notin 1..Latest
        BY <1>0
    <2> QED BY <1>0, <2>1, <2>2 DEF LatestReadable
<1>2. ASSUME NEW w \in Runs, Restore(w) PROVE LatestReadable'
    BY <1>0, <1>2 DEF Restore, LatestReadable, Latest
<1>3. ASSUME NEW w \in Runs, RetireOld(w) PROVE LatestReadable'
    <2>1. Latest' = Latest /\ (deleted' = deleted \/ (base[w] \in 1..(Latest - 1) /\ deleted' = deleted \cup {base[w]}))
        BY <1>3, Retires
    <2>2. Latest \notin 1..(Latest - 1)
        BY <1>0
    <2> QED BY <1>0, <2>1, <2>2 DEF LatestReadable
<1>4. CASE content' = content /\ deleted' = deleted
    BY <1>0, <1>4 DEF LatestReadable, Latest
<1> QED BY <1>1, <1>2, <1>3, <1>4, StepKinds

\* The invariant holds throughout.
LEMMA Versions == Spec => []VersionInv
<1>1. VersionInv /\ [Next]_vars => VersionInv'
    BY NextTyping, NextRuns, NextLatest DEF VersionInv
<1> QED BY InitVersions, <1>1, PTL DEF Spec

\* Every variable stays within its type.
THEOREM Typing == Spec => []TypeOK
    BY Versions, PTL DEF VersionInv

\* The version Vault is at is never soft-deleted: a rotation retires the
\* version it read, and its own was written after that one.
THEOREM LatestStays == Spec => []LatestReadable
    BY Versions, PTL DEF VersionInv

\* A rollback writes the values of the version before the one it replaces,
\* whatever other runs write: the check-and-set of its write fails otherwise.
THEOREM RollbackRight == Spec => RollbackRestores
<1> DEFINE Restores ==
        \A w \in Runs :
            mode[w] = "rollback" /\ pc[w] = "write" /\ pc'[w] # "write" /\ content' # content =>
                Latest > 1 /\ content'[Latest'] = content[Latest - 1]
<1>1. VersionInv /\ [Next]_vars => Restores
    <2> SUFFICES ASSUME VersionInv, [Next]_vars, NEW w \in Runs, mode[w] = "rollback", pc[w] = "write",
                        pc'[w] # "write", content' # content
                 PROVE  Latest > 1 /\ content'[Latest'] = content[Latest - 1]
        OBVIOUS
    <2>1. PICK v \in Runs : WriteNew(v)
        BY StepKinds DEF Restore, RetireOld
    <2>2. v = w
        BY <2>1, Written, GotoMoves, FinishMoves DEF VersionInv, PCs, Same
    <2> QED BY <2>1, <2>2, Written
<1> QED BY <1>1, Versions, PTL DEF Spec, RollbackRestores

\* No run retires a version but the one its own write has replaced, keys it did
\* not rotate included, and only after it has been through its targets; runs
\* may overlap.
THEOREM RetiresReplaced == Spec => RetiresOnlyReplaced
<1> DEFINE Replaced ==
        \A v \in deleted' \ deleted : \E w \in Runs :
            /\ mode[w] = "rotate" /\ wrote[w] = v + 1
            /\ pc[w] = "propagate" /\ todo[w] = {}
            /\ \A k \in Keys \ keys[w] : content[v + 1][k] = content[v][k]
<1>1. VersionInv /\ [Next]_vars => Replaced
    <2> SUFFICES ASSUME VersionInv, [Next]_vars, NEW v \in deleted', v \notin deleted
                 PROVE  \E w \in Runs : /\ mode[w] = "rotate" /\ wrote[w] = v + 1
                                        /\ pc[w] = "propagate" /\ todo[w] = {}
                                        /\ \A k \in Keys \ keys[w] : content[v + 1][k] = content[v][k]
        OBVIOUS
    <2>1. PICK w \in Runs : RetireOld(w)
        <3>1. ASSUME NEW w \in Runs, WriteNew(w) \/ Restore(w) PROVE deleted' \subseteq deleted
            BY <3>1 DEF WriteNew, Restore
        <3> QED BY <3>1, StepKinds
    <2>2. /\ mode[w] = "rotate" /\ v = base[w] /\ wrote[w] = base[w] + 1
          /\ Carries(content[wrote[w]], content[base[w]], keys[w])
        BY <2>1, Retires
    <2>3. pc[w] = "propagate" /\ todo[w] = {}
        BY <2>1 DEF RetireOld, MayRetire
    <2>4. \A k \in Keys \ keys[w] : content[v + 1][k] = content[v][k]
        BY <2>2 DEF Carries
    <2> QED BY <2>2, <2>3, <2>4
<1> QED BY <1>1, Versions, PTL DEF Spec, RetiresOnlyReplaced

(***************************************************************************)
(* Runs that do not overlap.                                               *)
(***************************************************************************)
\* Initially no run has begun and every target has the latest values.
LEMMA InitTargets == Init => TargetInv
<1> SUFFICES ASSUME Init PROVE TargetInv
    OBVIOUS
<1>1. PICK h \in Histories :
          content = [v \in 1..h.versions |-> [k \in Keys |-> v]] /\ deleted = h.retired
    BY DEF Init
<1>2. VersionInv
    BY InitVersions
<1>3. Latest \in Nat /\ Latest \notin deleted /\ DOMAIN content = 1..Latest
    BY <1>2, Versioned DEF VersionInv, LatestReadable, TypeOK, Latest
<1>4. \A w \in Runs : pc[w] = "none" /\ served[w] = {} /\ ~Executing(w)
    BY DEF Init, Executing
<1>5. OrderInv /\ DoneInv /\ SoloInv /\ PushInv /\ LiveInv
    BY <1>4 DEF OrderInv, DoneInv, SoloInv, PushInv, LiveInv, Pushing, LiveRun, Behind
<1>6. \A k \in Keys : Readable(k, Latest)
    <2>1. CASE Latest = 0
        BY <2>1 DEF Readable
    <2>2. CASE Latest # 0
        <3>1. Latest \in 1..Latest
            BY <1>3, <2>2
        <3>2. \A k \in Keys : content[Latest][k] = Latest
            BY <1>1, <1>3, <3>1
        <3> QED BY <1>3, <3>1, <3>2 DEF Readable
    <2> QED BY <2>1, <2>2
<1>7. \A t \in Targets, k \in Keys : held[t][k] = Latest
    BY DEF Init
<1> QED BY <1>5, <1>6, <1>7 DEF TargetInv, NoRetiredValueHeld

\* A step of a run moves no other run, and only its end reports success.
Moves(w) ==
    /\ Executing(w) /\ pc'[w] # "none" /\ crowded' = crowded
    /\ \A v \in Runs \ {w} : pc'[v] = pc[v] /\ served'[v] = served[v]
    /\ served'[w] # served[w] =>
          served'[w] = {} \/ (pc'[w] = "done" /\ RetireOld(w) /\ served'[w] = keys[w] /\ aim[w] = Targets)

\* A phase does not end its run.
LEMMA GotoStep ==
    ASSUME TypeOK, NEW w \in Runs, NEW p \in PCs \ {"none"}, Goto(w, p), Executing(w), crowded' = crowded
    PROVE  Moves(w)
    BY GotoMoves DEF Moves, PCs

\* An error is not reported as success.
LEMMA FailedStep ==
    ASSUME TypeOK, NEW w \in Runs, Finish(w, "failed"), Executing(w), crowded' = crowded
    PROVE  Moves(w)
    BY FinishMoves DEF Moves, Same

\* Every step of a run is of that kind.
LEMMA RunStepMoves == ASSUME VersionInv, NEW w \in Runs, RunStep(w) PROVE Moves(w)
<1>0. TypeOK /\ OneRun(w)
    BY DEF VersionInv, RunInv
<1>1. CASE Fail(w)
    BY <1>0, <1>1, FailedStep DEF Fail, Executing
<1>2. CASE Preflight(w) \/ ReadForRotate(w) \/ ReadForRollback(w) \/ ReadForVerify(w) \/ Restore(w)
    BY <1>0, <1>2, GotoStep, FailedStep DEF Preflight, ReadForRotate, ReadForRollback, ReadForVerify, Restore, Executing, PCs
<1>3. CASE DualWindow(w) \/ Verify(w) \/ WriteNew(w)
    BY <1>0, <1>3, GotoStep, FailedStep DEF DualWindow, Verify, WriteNew, Executing, PCs
<1>4. CASE \E t \in Targets : Propagate(w, t)
    BY <1>0, <1>4, GotoStep, FailedStep DEF Propagate, Executing, PCs
<1>5. CASE RunPlan(w) \/ RetireOld(w)
    <2>1. PICK s : Finish(w, s)
        BY <1>5 DEF RunPlan, RetireOld, Succeed
    <2>2. Executing(w) /\ crowded' = crowded /\ (RunPlan(w) => keys[w] = {})
        BY <1>0, <1>5 DEF RunPlan, RetireOld, MayRetire, Executing, OneRun
    <2> QED BY <1>0, <1>5, <2>1, <2>2, FinishMoves DEF Moves, Same
<1> QED BY <1>1, <1>2, <1>3, <1>4, <1>5 DEF RunStep

\* A target takes the latest values, or a ring those of its Secret.
Touches(t) ==
    /\ \A u \in Targets \ {t} : held'[u] = held[u]
    /\ \/ held'[t] = content[Latest] /\ Latest \notin deleted \cup {0}
       \/ t \in Rings /\ held'[t] = held[Loads[t]]

\* The steps of no run: some runs may be stopped or cancelled by them.
Rests ==
    /\ crowded' = crowded /\ bare' = bare /\ content' = content /\ deleted' = deleted /\ served' = served
    /\ \A v \in Runs :
          \/ /\ pc'[v] = pc[v]
             /\ Executing(v) => own'[v] = own[v] /\ keys'[v] = keys[v] /\ aim'[v] = aim[v] /\ todo'[v] = todo[v]
          \/ pc'[v] = "done" /\ pc[v] # "none"
    /\ held' = held \/ \E t \in Targets : Touches(t)

\* A target that is given values changes alone.
LEMMA HoldMoves ==
    ASSUME TypeOK, NEW t \in Targets, NEW x, Hold(t, x)
    PROVE  held'[t] = x /\ \A u \in Targets \ {t} : held'[u] = held[u]
    BY DEF Hold, TypeOK

\* Every step is a launch, a step of one run or one of those.
LEMMA RestStep ==
    ASSUME TypeOK, [Next]_vars
    PROVE  Rests \/ \E w \in Runs : CreateRun(w) \/ RunStep(w)
<1> USE DEF vaultVars, readVars, pushVars, memVars, noteVars
<1>1. ASSUME NEW w \in Runs, CancelRun(w) \/ CancelWrite(w) PROVE Rests
    BY <1>1 DEF CancelRun, CancelWrite, Rests
<1>2. ASSUME NEW t \in ExternalSecrets, Refresh(t) PROVE Rests
    <2>1. t \in Targets
        BY DEF Targets, Secrets
    <2>2. Touches(t)
        BY <1>2, <2>1, HoldMoves DEF Refresh, Touches
    <2> QED BY <1>2, <2>1, <2>2 DEF Refresh, Rests
<1>3. ASSUME NEW t \in Rings, Reload(t) PROVE Rests
    <2>1. t \in Targets
        BY DEF Targets
    <2>2. Touches(t)
        BY <1>3, <2>1, HoldMoves DEF Reload, Touches
    <2> QED BY <1>3, <2>1, <2>2 DEF Reload, Rests
<1>4. CASE Crash
    <2>1. \A v \in Runs : \/ pc'[v] = "done" /\ pc[v] # "none"
                          \/ pc'[v] = pc[v] /\ ~Executing(v)
        BY <1>4 DEF Crash, Executing
    <2> QED BY <1>4, <2>1 DEF Crash, Rests, Executing
<1>5. CASE UNCHANGED vars
    BY <1>5 DEF vars, Rests
<1> QED BY <1>1, <1>2, <1>3, <1>4, <1>5 DEF Next

\* What a launch does.
LEMMA Launches ==
    ASSUME VersionInv, DoneInv, NEW w \in Runs, CreateRun(w)
    PROVE  /\ pc[w] = "none" /\ (\A v \in Runs : v < w => pc[v] # "none")
           /\ pc'[w] \in {"preflight", "done"} /\ (\A v \in Runs \ {w} : pc'[v] = pc[v])
           /\ served' = served /\ served[w] = {}
           /\ pc'[w] = "preflight" => crowded' \/ \A v \in Runs : ~Executing(v)
           /\ (crowded => crowded') /\ bare' = bare
           /\ UNCHANGED <<content, deleted, held, own, keys, aim, todo>>
<1>1. TypeOK
    BY DEF VersionInv
<1>2. /\ pc[w] = "none" /\ (\A v \in Runs : v < w => pc[v] # "none")
      /\ pc'[w] \in {"preflight", "done"} /\ (\A v \in Runs \ {w} : pc'[v] = pc[v])
      /\ UNCHANGED <<content, deleted, held, own, keys, aim, todo, served, bare>>
    BY <1>1 DEF CreateRun, TypeOK, vaultVars, readVars, pushVars, memVars
<1>3. served[w] = {}
    BY <1>2 DEF DoneInv
<1>4. (crowded => crowded') /\ (pc'[w] = "preflight" => crowded' \/ \A v \in Runs : ~Executing(v))
    <2>1. CASE crowded' = (crowded \/ \E v \in Runs : Executing(v))
        BY <2>1
    <2>2. CASE pc' = [pc EXCEPT ![w] = "done"] /\ crowded' = crowded
        BY <1>1, <2>2 DEF TypeOK
    <2> QED BY <2>1, <2>2 DEF CreateRun
<1> QED BY <1>2, <1>3, <1>4

\* The facts about the places of the runs.
LEMMA NextRows == ASSUME VersionInv, TargetInv, [Next]_vars PROVE OrderInv' /\ DoneInv' /\ SoloInv'
<1>0. TypeOK /\ OrderInv /\ DoneInv /\ SoloInv
    BY DEF VersionInv, TargetInv
<1>1. ASSUME NEW w \in Runs, CreateRun(w) PROVE OrderInv' /\ DoneInv' /\ SoloInv'
    <2>1. /\ pc[w] = "none" /\ (\A v \in Runs : v < w => pc[v] # "none")
          /\ pc'[w] \in {"preflight", "done"} /\ (\A v \in Runs \ {w} : pc'[v] = pc[v])
          /\ served' = served /\ served[w] = {}
          /\ pc'[w] = "preflight" => crowded' \/ \A v \in Runs : ~Executing(v)
          /\ crowded => crowded'
        BY <1>0, <1>1, Launches
    <2>2. OrderInv'
        BY <1>0, <2>1 DEF OrderInv
    <2>3. DoneInv'
        BY <1>0, <2>1 DEF DoneInv
    <2>4. SoloInv'
        BY <1>0, <2>1 DEF SoloInv, Executing
    <2> QED BY <2>2, <2>3, <2>4
<1>2. ASSUME NEW w \in Runs, RunStep(w) PROVE OrderInv' /\ DoneInv' /\ SoloInv'
    <2>1. Moves(w)
        BY <1>2, RunStepMoves
    <2>2. OrderInv'
        BY <1>0, <2>1 DEF OrderInv, Moves, Executing
    <2>3. DoneInv'
        <3>1. served[w] = {}
            BY <1>0, <2>1 DEF DoneInv, Moves, Executing
        <3> QED BY <1>0, <2>1, <3>1 DEF DoneInv, Moves
    <2>4. SoloInv'
        BY <1>0, <2>1 DEF SoloInv, Moves, Executing
    <2> QED BY <2>2, <2>3, <2>4
<1>3. CASE Rests
    <2>1. OrderInv' /\ DoneInv'
        BY <1>0, <1>3 DEF OrderInv, DoneInv, Rests
    <2>2. SoloInv'
        BY <1>0, <1>3 DEF SoloInv, Rests, Executing
    <2> QED BY <2>1, <2>2
<1> QED BY <1>0, <1>1, <1>2, <1>3, RestStep

\* Whatever a run pushes is, key by key, of the latest version or what the
\* target or its Secret had before.
LEMMA PushesLatest ==
    ASSUME VersionInv, TargetInv, ~crowded, NEW w \in Runs, NEW t \in Targets, Propagate(w, t), NEW ks
    PROVE  /\ \A k \in Keys : \/ Pushed(w, t, ks)[k] = content[Latest][k]
                              \/ Pushed(w, t, ks)[k] = held[t][k]
                              \/ t \in Rings /\ Pushed(w, t, ks)[k] = held[Loads[t]][k]
           /\ t \notin Rings => \A k \in Keys \cap ks : content[Latest][k] # 0 =>
                                   Pushed(w, t, ks)[k] = content[Latest][k]
           /\ t \in Rings => Pushed(w, t, ks) = held[Loads[t]] /\ Loads[t] \in Targets \ todo[w]
<1>1. own[w] = content[Latest]
    BY DEF TargetInv, PushInv, Pushing, Propagate, Behind
<1>2. t \in Rings => Loads[t] \in Secrets /\ Loads[t] \in Targets /\ t \notin Secrets
    BY RotationAssumption DEF Targets
<1>3. t \in Rings => Phase(t) = 4 /\ Phase(Loads[t]) \in {1, 2}
    BY <1>2 DEF Phase, Secrets
<1>4. t \in Rings => Loads[t] \notin todo[w]
    BY <1>3 DEF Propagate
<1>5. t \in Rings => Pushed(w, t, ks) = held[Loads[t]]
    BY <1>2 DEF Pushed, Secrets
<1>6. CASE t \in ExternalSecrets
    <2>1. Pushed(w, t, ks) = content[Latest]
        BY <1>6 DEF Pushed
    <2> QED BY <1>2, <1>4, <1>5, <2>1
<1>7. CASE t \notin ExternalSecrets /\ t \notin Rings
    <2>1. \A k \in Keys : Pushed(w, t, ks)[k] =
              IF k \in ks /\ content[Latest][k] # 0 THEN content[Latest][k] ELSE held[t][k]
        BY <1>1, <1>7 DEF Pushed
    <2> QED BY <1>7, <2>1
<1>8. CASE t \in Rings
    BY <1>2, <1>4, <1>5, <1>8
<1> QED BY <1>6, <1>7, <1>8

\* The targets of a run that starts to propagate are all left to do.
LEMMA StartMoves ==
    ASSUME TypeOK, NEW w \in Runs, StartPropagation(w) PROVE todo'[w] = aim'[w]
    BY DEF StartPropagation, TypeOK

\* What a step of run w does to its own values and targets.
LEMMA StepPushes ==
    ASSUME VersionInv, TargetInv, ~crowded, NEW w \in Runs, RunStep(w)
    PROVE  Pushing(w)'
<1>0. TypeOK /\ Pushing(w) /\ Rings \subseteq Targets
    BY DEF VersionInv, TargetInv, PushInv, Targets
<1> USE DEF vaultVars, readVars, pushVars
<1>a. ASSUME NEW s, Finish(w, s) PROVE Pushing(w)'
    BY <1>0, <1>a, FinishMoves DEF Pushing, Behind
<1>1. CASE Fail(w) \/ RunPlan(w) \/ RetireOld(w)
    <2>1. \E s : Finish(w, s)
        BY <1>1 DEF Fail, RunPlan, RetireOld, Succeed
    <2> QED BY <1>a, <2>1
<1>2. CASE Preflight(w) \/ ReadForRotate(w) \/ ReadForRollback(w) \/ Restore(w)
    <2>1. Finish(w, "failed") \/ \E p \in {"read", "write", "restore"} : Goto(w, p)
        BY <1>2 DEF Preflight, ReadForRotate, ReadForRollback, Restore
    <2>2. pc'[w] \in {"read", "write", "restore", "done"}
        BY <1>0, <2>1, GotoMoves, FinishMoves DEF PCs
    <2> QED BY <2>2 DEF Pushing, Behind
<1>b. ASSUME own'[w] = content'[Latest'], todo'[w] = aim'[w] PROVE Pushing(w)'
    BY <1>0, <1>b DEF Pushing
<1>3. CASE DualWindow(w)
    <2>1. pc[w] = "window" /\ pc'[w] = "verify" /\ own' = own /\ content' = content
        BY <1>0, <1>3, GotoMoves DEF DualWindow, PCs
    <2> QED BY <1>0, <2>1 DEF Pushing, Behind, Latest
<1>4. CASE Verify(w)
    <2>1. pc[w] = "verify" /\ own' = own /\ content' = content /\ todo'[w] = aim'[w]
        BY <1>0, <1>4, StartMoves DEF Verify
    <2>2. own'[w] = content'[Latest']
        BY <1>0, <2>1 DEF Pushing, Behind, Latest
    <2> QED BY <1>b, <2>1, <2>2
<1>5. CASE ReadForVerify(w)
    <2>1. own'[w] = content'[Latest'] /\ todo'[w] = aim'[w]
        BY <1>0, <1>5, StartMoves DEF ReadForVerify, TypeOK, Latest
    <2> QED BY <1>b, <2>1
<1>6. CASE WriteNew(w)
    <2>1. /\ content'[Latest'] = own[w]
          /\ \/ /\ own' = own
                /\ \/ Goto(w, "window")
                   \/ Goto(w, "propagate") /\ StartPropagation(w)
             \/ Finish(w, "failed")
        BY <1>6, Written
    <2>2. CASE own' = own /\ Goto(w, "window")
        BY <1>0, <2>1, <2>2, GotoMoves DEF Pushing, PCs
    <2>3. CASE own' = own /\ Goto(w, "propagate") /\ StartPropagation(w)
        BY <1>0, <1>b, <2>1, <2>3, StartMoves
    <2> QED BY <1>a, <2>1, <2>2, <2>3
<1>7. ASSUME NEW t \in Targets, Propagate(w, t) PROVE Pushing(w)'
    <2>1. CASE Finish(w, "failed")
        BY <1>a, <2>1
    <2>2. CASE /\ todo' = [todo EXCEPT ![w] = @ \ {t}] /\ UNCHANGED <<readVars, wrote, aim>>
               /\ Hold(t, Pushed(w, t, keys[w]))
        <3>1. /\ held'[t] = Pushed(w, t, keys[w]) /\ \A u \in Targets \ {t} : held'[u] = held[u]
            BY <1>0, <2>2, HoldMoves
        <3>2. /\ todo'[w] = todo[w] \ {t} /\ own' = own /\ keys' = keys /\ aim' = aim
              /\ content' = content /\ Latest' = Latest /\ pc[w] = "propagate" /\ keys[w] \subseteq Keys
            BY <1>0, <1>7, <2>2 DEF TypeOK, Propagate, Latest
        <3>3. own[w] = content[Latest]
            BY <1>0, <3>2 DEF Pushing, Behind
        <3>4. ASSUME aim[w] = Targets
              PROVE  /\ \A u \in Targets \ todo'[w] : Has(u, keys[w])'
                     /\ \A u \in Rings \ todo'[w] : Loads[u] \notin todo'[w]
            <4>1. /\ \A u \in Targets \ todo[w] : Has(u, keys[w])
                  /\ \A u \in Rings \ todo[w] : Loads[u] \notin todo[w]
                BY <1>0, <3>2, <3>4 DEF Pushing, Behind
            <4>2. ASSUME NEW u \in Targets \ todo[w], u # t PROVE Has(u, keys[w])'
                BY <3>1, <3>2, <4>1, <4>2 DEF Has
            <4>3. Has(t, keys[w])'
                <5>1. CASE t \in Rings
                    <6>1. held'[t] = held[Loads[t]] /\ Loads[t] \in Targets \ todo[w]
                        BY <1>7, <3>1, <5>1, PushesLatest
                    <6> QED BY <3>2, <4>1, <6>1 DEF Has
                <5>2. CASE t \notin Rings
                    <6>1. \A k \in Keys \cap keys[w] : content[Latest][k] # 0 => held'[t][k] = content[Latest][k]
                        BY <1>7, <3>1, <5>2, PushesLatest
                    <6> QED BY <3>2, <6>1 DEF Has
                <5> QED BY <5>1, <5>2
            <4>4. t \in Rings => Loads[t] \notin todo[w]
                BY <1>7, PushesLatest
            <4> QED BY <3>2, <4>1, <4>2, <4>3, <4>4
        <3> QED BY <3>2, <3>3, <3>4 DEF Pushing, Behind, Has
    <2> QED BY <1>7, <2>1, <2>2 DEF Propagate
<1> QED BY <1>1, <1>2, <1>3, <1>4, <1>5, <1>6, <1>7 DEF RunStep

\* Nothing but the runs takes the latest values from a target.
LEMMA TouchKeeps ==
    ASSUME NEW t \in Targets, Touches(t), NEW S \in SUBSET Targets, NEW ks \in SUBSET Keys,
           \A u \in S : Has(u, ks), t \in S \cap Rings => Loads[t] \in S
    PROVE  \A u \in S, k \in ks : content[Latest][k] # 0 => held'[u][k] = content[Latest][k]
<1> SUFFICES ASSUME NEW u \in S, NEW k \in ks, content[Latest][k] # 0
             PROVE  held'[u][k] = content[Latest][k]
    OBVIOUS
<1>1. CASE u # t
    BY <1>1 DEF Touches, Has
<1>2. CASE u = t /\ held'[t] = content[Latest]
    BY <1>2
<1>3. CASE u = t /\ t \in Rings /\ held'[t] = held[Loads[t]]
    BY <1>3 DEF Has
<1> QED BY <1>1, <1>2, <1>3 DEF Touches

\* PushInv is kept.
LEMMA NextPush == ASSUME VersionInv, TargetInv, [Next]_vars PROVE PushInv'
<1>0. TypeOK /\ DoneInv /\ SoloInv /\ PushInv
    BY DEF VersionInv, TargetInv
<1>1. ASSUME NEW w \in Runs, CreateRun(w) PROVE PushInv'
    <2>1. /\ pc'[w] \in {"preflight", "done"} /\ (\A v \in Runs \ {w} : pc'[v] = pc[v])
          /\ UNCHANGED <<content, held, own, keys, aim, todo>> /\ (crowded => crowded')
        BY <1>0, <1>1, Launches
    <2> QED BY <1>0, <2>1 DEF PushInv, Pushing, Behind, Has, Latest
<1>2. ASSUME NEW w \in Runs, RunStep(w) PROVE PushInv'
    <2>1. Moves(w)
        BY <1>2, RunStepMoves
    <2>2. CASE crowded
        BY <2>1, <2>2 DEF Moves, PushInv
    <2>3. CASE ~crowded
        <3>1. Pushing(w)'
            BY <1>2, <2>3, StepPushes
        <3>2. \A v \in Runs \ {w} : pc'[v] \in {"none", "done"}
            BY <1>0, <2>1, <2>3 DEF Moves, SoloInv, Executing
        <3> QED BY <3>1, <3>2 DEF PushInv, Pushing, Behind
    <2> QED BY <2>2, <2>3
<1>3. CASE Rests
    <2>1. CASE crowded
        BY <1>3, <2>1 DEF Rests, PushInv
    <2>2. CASE ~crowded
        <3> SUFFICES ASSUME NEW w \in Runs, pc'[w] \in Behind PROVE Pushing(w)'
            BY DEF PushInv, Pushing
        <3>1. /\ pc'[w] = pc[w] /\ own'[w] = own[w] /\ keys'[w] = keys[w] /\ aim'[w] = aim[w]
              /\ todo'[w] = todo[w] /\ content' = content /\ Latest' = Latest
            BY <1>3 DEF Rests, Executing, Behind, Latest
        <3>2. Pushing(w)
            BY <1>0, <2>2 DEF PushInv
        <3>3. ASSUME pc[w] = "propagate", aim[w] = Targets
              PROVE  /\ \A u \in Targets \ todo[w] : Has(u, keys[w])'
                     /\ \A u \in Rings \ todo[w] : Loads[u] \notin todo[w]
            <4>1. /\ \A u \in Targets \ todo[w] : Has(u, keys[w])
                  /\ \A u \in Rings \ todo[w] : Loads[u] \notin todo[w]
                BY <3>2, <3>3 DEF Pushing, Behind
            <4>2. CASE held' = held
                BY <3>1, <4>1, <4>2 DEF Has
            <4>3. ASSUME NEW t \in Targets, Touches(t)
                  PROVE  \A u \in Targets \ todo[w] : Has(u, keys[w])'
                <5>1. t \in Rings => Loads[t] \in Targets
                    BY RotationAssumption DEF Targets
                <5>2. t \in (Targets \ todo[w]) \cap Rings => Loads[t] \in Targets \ todo[w]
                    BY <4>1, <5>1
                <5>3. keys[w] \in SUBSET Keys
                    BY <1>0 DEF TypeOK
                <5>a. Targets \ todo[w] \in SUBSET Targets
                    OBVIOUS
                <5>4. \A u \in Targets \ todo[w], k \in keys[w] :
                          content[Latest][k] # 0 => held'[u][k] = content[Latest][k]
                    BY <4>1, <4>3, <5>2, <5>3, <5>a, TouchKeeps
                <5> QED BY <3>1, <5>4 DEF Has
            <4> QED BY <1>3, <4>1, <4>2, <4>3 DEF Rests
        <3> QED BY <3>1, <3>2, <3>3 DEF Pushing, Has
    <2> QED BY <2>1, <2>2
<1> QED BY <1>0, <1>1, <1>2, <1>3, RestStep

\* LiveInv is kept: the last run has nobody after it.
LEMMA NextLive == ASSUME VersionInv, TargetInv, [Next]_vars PROVE LiveInv'
<1>0. TypeOK /\ OrderInv /\ DoneInv /\ SoloInv /\ PushInv /\ LiveInv
    BY DEF VersionInv, TargetInv
<1>1. ASSUME NEW w \in Runs, CreateRun(w) PROVE LiveInv'
    <2>1. /\ pc[w] = "none" /\ pc'[w] # "none" /\ served' = served /\ served[w] = {}
          /\ (\A v \in Runs \ {w} : pc'[v] = pc[v])
        BY <1>0, <1>1, Launches
    <2>2. ASSUME NEW v \in Runs PROVE ~(LastRunOf(v)' /\ served'[v] # {})
        <3>1. CASE v = w
            BY <2>1, <3>1
        <3>2. CASE v # w
            <4>1. LastRunOf(v)' => v > w /\ pc[v] # "none"
                BY <2>1, <3>2 DEF LastRunOf, Runs
            <4> QED BY <1>0, <2>1, <4>1 DEF OrderInv, Runs
        <3> QED BY <3>1, <3>2
    <2> QED BY <2>2 DEF LiveInv, LiveRun
<1>2. ASSUME NEW w \in Runs, RunStep(w) PROVE LiveInv'
    <2>1. Moves(w)
        BY <1>2, RunStepMoves
    <2>2. CASE crowded
        BY <2>1, <2>2 DEF Moves, LiveInv
    <2>3. CASE ~crowded
        <3> SUFFICES ASSUME NEW v \in Runs, LastRunOf(v)', served'[v] # {}
                     PROVE  LiveRun(v)'
            BY DEF LiveInv, LiveRun
        <3>1. CASE v # w
            <4>1. LastRunOf(v) /\ served[v] # {}
                BY <2>1, <3>1 DEF Moves, LastRunOf, Executing
            <4> QED BY <1>0, <2>1, <2>3, <4>1 DEF LiveInv, LiveRun, Moves
        <3>2. CASE v = w
            <4>1. \A u \in Runs : ~Executing(u)' \/ u = w
                BY <1>0, <2>1, <2>3 DEF Moves, SoloInv, Executing
            <4>2. served[w] = {}
                BY <1>0, <2>1 DEF DoneInv, Moves, Executing
            <4>3. pc'[w] = "done" /\ RetireOld(w) /\ served'[w] = keys[w] /\ aim[w] = Targets
                BY <2>1, <3>2, <4>2 DEF Moves
            <4>4. \A t \in Targets : Has(t, keys[w])
                BY <1>0, <2>3, <4>3 DEF RetireOld, MayRetire, PushInv, Pushing, Behind
            <4>5. held' = held /\ content' = content
                BY <4>3 DEF RetireOld
            <4>6. \A u \in Runs : ~Executing(u)'
                BY <4>1, <4>3 DEF Executing
            <4> QED BY <3>2, <4>3, <4>4, <4>5, <4>6 DEF LiveRun, Has, Latest
        <3> QED BY <3>1, <3>2
    <2> QED BY <2>2, <2>3
<1>3. CASE Rests
    <2>1. CASE crowded
        BY <1>3, <2>1 DEF Rests, LiveInv
    <2>2. CASE ~crowded
        <3> SUFFICES ASSUME NEW w \in Runs, LastRunOf(w)', served'[w] # {}
                     PROVE  LiveRun(w)'
            BY DEF LiveInv, LiveRun
        <3>1. LastRunOf(w) /\ served' = served /\ content' = content /\ Latest' = Latest
            BY <1>3 DEF Rests, LastRunOf, Latest
        <3>2. (\A v \in Runs : ~Executing(v)) /\ (\A t \in Targets : Has(t, served[w]))
            BY <1>0, <2>2, <3>1 DEF LiveInv, LiveRun
        <3>3. \A v \in Runs : ~Executing(v)'
            BY <1>3, <3>2 DEF Rests, Executing
        <3>4. \A t \in Targets, k \in served[w] : content[Latest][k] # 0 => held'[t][k] = content[Latest][k]
            <4>1. CASE held' = held
                BY <3>2, <4>1 DEF Has
            <4>2. ASSUME NEW t \in Targets, Touches(t)
                  PROVE  \A u \in Targets, k \in served[w] :
                             content[Latest][k] # 0 => held'[u][k] = content[Latest][k]
                <5>1. t \in Targets \cap Rings => Loads[t] \in Targets
                    BY RotationAssumption DEF Targets
                <5>2. Targets \in SUBSET Targets /\ served[w] \in SUBSET Keys
                    BY <1>0 DEF TypeOK
                <5> QED BY <3>2, <4>2, <5>1, <5>2, TouchKeeps
            <4> QED BY <1>3, <4>1, <4>2 DEF Rests
        <3> QED BY <3>1, <3>3, <3>4 DEF LiveRun, Has
    <2> QED BY <2>1, <2>2
<1> QED BY <1>0, <1>1, <1>2, <1>3, RestStep

\* A value that can be read stays so while no version is deleted.
LEMMA ReadableKept ==
    ASSUME VersionInv, Grows, deleted' \cap (1..Latest) \subseteq deleted, NEW k \in Keys, NEW x, Readable(k, x)
    PROVE  Readable(k, x)'
<1>1. CASE x = 0
    BY <1>1 DEF Readable
<1>2. ASSUME NEW v \in 1..Latest, content[v][k] = x, v \notin deleted PROVE Readable(k, x)'
    <2>1. v \in 1..Latest' /\ content'[v] = content[v] /\ v \notin deleted'
        BY <1>2 DEF Grows
    <2> QED BY <1>2, <2>1 DEF Readable
<1> QED BY <1>1, <1>2 DEF Readable

\* NoRetiredValueHeld is kept: when a version goes, every value of it that a
\* target still has is also one of the latest version.
LEMMA NextRetired == ASSUME VersionInv, TargetInv, [Next]_vars PROVE NoRetiredValueHeld'
<1>0. /\ TypeOK /\ RunInv /\ LatestReadable /\ PushInv /\ DoneInv /\ NoRetiredValueHeld
      /\ Latest \in Nat /\ deleted \in SUBSET (1..Latest)
    BY Versioned DEF VersionInv, TargetInv, TypeOK
<1>a. Latest > 0 => Latest \in 1..Latest /\ \A k \in Keys : Readable(k, content[Latest][k])
    BY <1>0 DEF Readable, LatestReadable
<1>b. ASSUME NEW t \in Rings PROVE Loads[t] \in Targets
    BY RotationAssumption DEF Targets
<1>1. ASSUME held' = held, Grows, deleted' \cap (1..Latest) \subseteq deleted, crowded => crowded', bare' = bare
      PROVE  NoRetiredValueHeld'
    <2> SUFFICES ASSUME ~crowded', ~bare, NEW t \in Targets, NEW k \in Keys PROVE Readable(k, held[t][k])'
        BY <1>1 DEF NoRetiredValueHeld
    <2>1. Readable(k, held[t][k])
        BY <1>0, <1>1 DEF NoRetiredValueHeld
    <2>2. \A x : Readable(k, x) => Readable(k, x)'
        BY <1>1, ReadableKept
    <2> QED BY <1>1, <2>1, <2>2 DEF Readable
<1>2. ASSUME NEW t \in Targets, content' = content, deleted' = deleted, crowded' = crowded, bare' = bare,
             \A u \in Targets \ {t} : held'[u] = held[u],
             ~crowded /\ ~bare => \A k \in Keys : Readable(k, held'[t][k])
      PROVE  NoRetiredValueHeld'
    <2> SUFFICES ASSUME ~crowded, ~bare, NEW u \in Targets, NEW k \in Keys PROVE Readable(k, held[u][k])'
        BY <1>2 DEF NoRetiredValueHeld
    <2>1. Readable(k, held'[u][k])
        BY <1>0, <1>2 DEF NoRetiredValueHeld
    <2> QED BY <1>2, <2>1 DEF Readable, Latest
<1>3. ASSUME NEW w \in Runs, CreateRun(w) PROVE NoRetiredValueHeld'
    <2>1. UNCHANGED <<held, content, deleted, bare>> /\ (crowded => crowded')
        BY <1>0, <1>3, Launches
    <2> QED BY <1>1, <2>1, GrowsSame
<1>4. ASSUME NEW w \in Runs, WriteNew(w) PROVE NoRetiredValueHeld'
    <2>1. /\ Latest' = Latest + 1 /\ (\A i \in 1..Latest : content'[i] = content[i]) /\ deleted' = deleted
        BY <1>4, Written
    <2>2. held' = held /\ crowded' = crowded /\ bare' = bare
        BY <1>4 DEF WriteNew
    <2>3. Grows
        BY <1>0, <2>1 DEF Grows
    <2> QED BY <1>1, <2>1, <2>2, <2>3
<1>5. ASSUME NEW w \in Runs, RetireOld(w) PROVE NoRetiredValueHeld'
    <2>1. /\ content' = content /\ Latest' = Latest /\ held' = held /\ crowded' = crowded
          /\ \/ deleted' = deleted /\ bare' = bare
             \/ /\ mode[w] = "rotate" /\ base[w] \in 1..(Latest - 1) /\ wrote[w] = base[w] + 1
                /\ deleted' = deleted \cup {base[w]}
                /\ Carries(content[wrote[w]], content[base[w]], keys[w])
                /\ ~bare' => aim[w] = Targets
          /\ bare => bare'
        BY <1>5, Retires
    <2>2. CASE deleted' = deleted /\ bare' = bare
        BY <1>1, <2>1, <2>2, GrowsSame
    <2>3. CASE /\ mode[w] = "rotate" /\ base[w] \in 1..(Latest - 1) /\ wrote[w] = base[w] + 1
               /\ deleted' = deleted \cup {base[w]}
               /\ Carries(content[wrote[w]], content[base[w]], keys[w])
               /\ ~bare' => aim[w] = Targets
        <3> SUFFICES ASSUME ~crowded, ~bare', NEW t \in Targets, NEW k \in Keys
                     PROVE  Readable(k, held[t][k])'
            BY <2>1 DEF NoRetiredValueHeld
        <3>0. PICK x : x = held[t][k]
            OBVIOUS
        <3> SUFFICES Readable(k, x)'
            BY <2>1, <3>0 DEF Readable
        <3>1. Readable(k, x) /\ aim[w] = Targets
            BY <1>0, <2>1, <2>3, <3>0 DEF NoRetiredValueHeld
        <3>2. Has(t, keys[w]) /\ content[Latest] = content[wrote[w]]
            <4>1. pc[w] = "propagate" /\ todo[w] = {}
                BY <1>5 DEF RetireOld, MayRetire
            <4>2. own[w] = content[Latest] /\ Has(t, keys[w])
                BY <1>0, <3>1, <4>1 DEF PushInv, Pushing, Behind
            <4>3. base[w] > 0
                BY <1>0, <2>3
            <4>4. own[w] = content[wrote[w]]
                BY <1>0, <2>3, <4>1, <4>3 DEF RunInv, OneRun, Behind
            <4> QED BY <4>2, <4>4
        <3>3. Latest \in 1..Latest /\ Latest \notin deleted'
            <4>1. Latest > 0 /\ Latest # base[w]
                BY <1>0, <2>3
            <4> QED BY <1>0, <2>3, <4>1 DEF LatestReadable
        <3>4. x = content[Latest][k] => Readable(k, x)'
            BY <2>1, <3>3 DEF Readable
        <3>5. CASE x = 0
            BY <3>5 DEF Readable
        <3>6. ASSUME NEW v \in 1..Latest, content[v][k] = x, v \notin deleted, v # base[w]
              PROVE  Readable(k, x)'
            BY <2>1, <2>3, <3>6 DEF Readable
        <3>7. CASE x # 0 /\ content[base[w]][k] = x
            <4>1. CASE content[Latest][k] = x
                BY <3>4, <4>1
            <4>2. CASE k \in keys[w] /\ content[Latest][k] # 0
                BY <3>0, <3>2, <3>4, <4>2 DEF Has
            <4> QED BY <2>3, <3>2, <3>7, <4>1, <4>2 DEF Carries
        <3> QED BY <3>1, <3>5, <3>6, <3>7 DEF Readable
    <2> QED BY <2>1, <2>2, <2>3
<1>6. ASSUME NEW w \in Runs, NEW t \in Targets, Propagate(w, t) PROVE NoRetiredValueHeld'
    <2>1. content' = content /\ deleted' = deleted /\ crowded' = crowded /\ bare' = bare
        BY <1>6 DEF Propagate, vaultVars
    <2>2. PICK ks : Hold(t, Pushed(w, t, ks))
        BY <1>6 DEF Propagate
    <2>3. held'[t] = Pushed(w, t, ks) /\ \A u \in Targets \ {t} : held'[u] = held[u]
        BY <1>0, <2>2, HoldMoves
    <2>4. ASSUME ~crowded, ~bare, NEW k \in Keys PROVE Readable(k, held'[t][k])
        <3>1. Latest > 0
            BY <1>0, <1>6 DEF RunInv, OneRun, Propagate, Behind
        <3>2. \/ held'[t][k] = content[Latest][k] \/ held'[t][k] = held[t][k]
              \/ t \in Rings /\ held'[t][k] = held[Loads[t]][k]
            BY <1>6, <2>3, <2>4, PushesLatest
        <3>3. Readable(k, held[t][k]) /\ (t \in Rings => Readable(k, held[Loads[t]][k]))
            BY <1>0, <1>b, <2>4 DEF NoRetiredValueHeld
        <3> QED BY <1>a, <3>1, <3>2, <3>3
    <2> QED BY <1>2, <2>1, <2>3, <2>4
<1>7. ASSUME NEW w \in Runs, Fail(w) \/ Preflight(w) \/ RunPlan(w) \/ ReadForRotate(w) \/ ReadForRollback(w)
                             \/ ReadForVerify(w) \/ Restore(w) \/ DualWindow(w) \/ Verify(w)
      PROVE  NoRetiredValueHeld'
    <2>1. UNCHANGED <<content, held, crowded, bare>> /\ deleted' \subseteq deleted
        BY <1>7 DEF Fail, Preflight, RunPlan, ReadForRotate, ReadForRollback, ReadForVerify, Restore,
                    DualWindow, Verify, vaultVars
    <2> QED BY <1>1, <2>1, GrowsSame
<1>8. CASE Rests
    <2>1. content' = content /\ deleted' = deleted /\ crowded' = crowded /\ bare' = bare
        BY <1>8 DEF Rests
    <2>2. CASE held' = held
        BY <1>1, <2>1, <2>2, GrowsSame
    <2>3. ASSUME NEW t \in Targets, Touches(t) PROVE NoRetiredValueHeld'
        <3>1. ASSUME ~crowded, ~bare, NEW k \in Keys PROVE Readable(k, held'[t][k])
            <4>1. CASE held'[t] = content[Latest] /\ Latest # 0
                BY <1>0, <1>a, <4>1
            <4>2. CASE t \in Rings /\ held'[t] = held[Loads[t]]
                BY <1>0, <1>b, <3>1, <4>2 DEF NoRetiredValueHeld
            <4> QED BY <2>3, <4>1, <4>2 DEF Touches
        <3>2. \A u \in Targets \ {t} : held'[u] = held[u]
            BY <2>3 DEF Touches
        <3> QED BY <1>2, <2>1, <3>1, <3>2
    <2> QED BY <1>8, <2>2, <2>3 DEF Rests
<1> QED BY <1>0, <1>3, <1>4, <1>5, <1>6, <1>7, <1>8, RestStep DEF RunStep

\* The second invariant holds throughout.
LEMMA TargetsFollow == Spec => []TargetInv
<1>1. VersionInv /\ TargetInv /\ [Next]_vars => TargetInv'
    BY NextRows, NextPush, NextLive, NextRetired DEF TargetInv
<1> QED BY InitTargets, Versions, <1>1, PTL DEF Spec

\* No consumer is left with a value that was retired, whichever keys the runs
\* are for and wherever they fail, are cancelled or die, as long as they do not
\* overlap and one that retires names every target: until then every target
\* has, for each key, a value of some version that is still there.
THEOREM NoneRetiredHeld == Spec => []NoRetiredValueHeld
    BY TargetsFollow, PTL DEF TargetInv

\* A run that has reported success, and that no other run followed or ran
\* beside, has left every target with the latest value of each of its keys.
THEOREM CompletedLive == Spec => []CompletedIsLive
<1>1. TargetInv => CompletedIsLive
    BY DEF TargetInv, LiveInv, LiveRun, CompletedIsLive, Has
<1> QED BY <1>1, TargetsFollow, PTL
=============================================================================
