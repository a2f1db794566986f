--------------------------- MODULE MailAgentProofs ---------------------------
(***************************************************************************)
(* Proofs about MailAgent, for any number of reconcilers and requests.     *)
(*                                                                         *)
(* SentTextIsTrue is not inductive: MarkSent writes the text a request has *)
(* carried since it read the draft.  MarkInv adds what is known of it: at  *)
(* "mark" the text was accepted by Gmail.  CarryInv adds, for the rest of  *)
(* SentRecordIsTrue, which texts a request may carry at all, and that only *)
(* one behind "mark" closes the conversation as sent.                      *)
(***************************************************************************)
EXTENDS MailAgent, TLAPS

MarkInv == \A h \in Procs : pc[h] = "mark" => text[h] \in sent

IndInv == TypeOK /\ MarkInv /\ SentTextIsTrue

\* A statement or call, failed or not, keeps the count of failures in bounds.
LEMMA OutcomeType ==
    ASSUME TypeOK, NEW ok \in BOOLEAN, Outcome(ok)
    PROVE  failures' \in 0..MaxFailures
BY MailAssumption DEF TypeOK, Outcome

\* A write of the status, failed or not, leaves a status of a conversation.
LEMMA WriteThreadType ==
    ASSUME TypeOK, NEW s \in ThreadStates, WriteThread(s)
    PROVE  thread' \in ThreadStates /\ crowded' \in BOOLEAN /\ failures' \in 0..MaxFailures
<1>1. CASE Outcome(TRUE) /\ Touch(s)
  BY <1>1, OutcomeType DEF Touch
<1>2. CASE Outcome(FALSE) /\ UNCHANGED threadRow
  BY <1>2, OutcomeType DEF threadRow, TypeOK
<1> QED BY <1>1, <1>2 DEF WriteThread

\* The types of what a process knows.
Local == /\ pc \in [Procs -> Points]
         /\ job \in [Procs -> Jobs]
         /\ watched \in [Procs -> BOOLEAN]
         /\ text \in [Procs -> Bodies \cup {NoBody}]

\* A process that goes on keeps its copies and comes to "mark" only if told so.
LEMMA GotoLocal ==
    ASSUME TypeOK, NEW p \in Procs, NEW l \in Points, Goto(p, l)
    PROVE  /\ Local'
           /\ text' = text
           /\ l # "mark" => \A h \in Procs : pc'[h] = "mark" => pc[h] = "mark"
           /\ \A h \in Procs : h # p => pc'[h] = pc[h]
BY DEF TypeOK, Goto, Local

\* A process that leaves is at "idle" and has dropped its copies.
LEMMA LeaveLocal ==
    ASSUME TypeOK, NEW p \in Procs, Leave(p)
    PROVE  /\ Local'
           /\ \A h \in Procs : pc'[h] = "mark" => pc[h] = "mark" /\ text'[h] = text[h]
BY DEF TypeOK, Leave, Local, Points, Jobs

\* A process that starts takes its copies and touches no row.
LEMMA StartLocal ==
    ASSUME TypeOK, NEW p \in Procs, NEW j \in Jobs, NEW l \in Points \ {"mark"},
           NEW w \in BOOLEAN, NEW b \in Bodies \cup {NoBody}, Start(p, j, l, w, b)
    PROVE  /\ Local'
           /\ \A h \in Procs : pc'[h] = "mark" => pc[h] = "mark" /\ text'[h] = text[h]
           /\ UNCHANGED <<thread, crowded, draft, failures, inbox, connected, sent>>
BY DEF TypeOK, Start, Local, rows, threadRow, world

\* A step that lets no process come to "mark" and takes no accepted text back
\* keeps MarkInv.
LEMMA MarkKept ==
    ASSUME MarkInv, sent \subseteq sent',
           \A h \in Procs : pc'[h] = "mark" => pc[h] = "mark" /\ text'[h] = text[h]
    PROVE  MarkInv'
BY DEF MarkInv

\* A step that leaves the draft alone, or does not store it as sent, and takes
\* no accepted text back keeps SentTextIsTrue.
LEMMA RecordKept ==
    ASSUME SentTextIsTrue, sent \subseteq sent',
           draft' = draft \/ draft'.status # "sent"
    PROVE  SentTextIsTrue'
BY DEF SentTextIsTrue

\* What every step but Send and MarkSent does.
LEMMA Assemble ==
    ASSUME IndInv, Local',
           \A h \in Procs : pc'[h] = "mark" => pc[h] = "mark" /\ text'[h] = text[h],
           thread' \in ThreadStates /\ crowded' \in BOOLEAN, failures' \in 0..MaxFailures,
           draft' \in Drafts, draft' = draft \/ draft'.status # "sent",
           inbox' \in BOOLEAN, connected' \in BOOLEAN, sent' = sent
    PROVE  IndInv'
<1>1. TypeOK'
  BY DEF IndInv, TypeOK, Local
<1>2. MarkInv'
  BY MarkKept DEF IndInv
<1>3. SentTextIsTrue'
  BY RecordKept DEF IndInv
<1> QED BY <1>1, <1>2, <1>3 DEF IndInv

\* A process that goes on elsewhere than to "mark", or leaves.
Moves(p) ==
    /\ Local'
    /\ \A h \in Procs : pc'[h] = "mark" => pc[h] = "mark" /\ text'[h] = text[h]

\* Going on elsewhere is a move.
LEMMA GotoMoves ==
    ASSUME IndInv, NEW p \in Procs, NEW l \in Points \ {"mark"}, Goto(p, l)
    PROVE  Moves(p)
BY GotoLocal DEF IndInv, Moves

\* Leaving is a move.
LEMMA LeaveMoves ==
    ASSUME IndInv, NEW p \in Procs, Leave(p)
    PROVE  Moves(p)
BY LeaveLocal DEF IndInv, Moves

\* What follows the stored conversation is a move.
LEMMA AfterUpsertMoves ==
    ASSUME IndInv, NEW p \in Procs, AfterUpsert(p)
    PROVE  Moves(p)
BY GotoMoves, LeaveMoves, "classifying" \in Points \ {"mark"} DEF AfterUpsert, Points

\* The draft written by a request or a sync is a draft.
LEMMA DraftType ==
    ASSUME NEW s \in DraftStates, NEW b \in Bodies \cup {NoBody}
    PROVE  Draft(s, b) \in Drafts /\ Draft(s, b).status = s /\ Draft(s, b).body = b
BY DEF Draft, Drafts

\* Storing a draft that is not marked as sent keeps the rows in order.
LEMMA StoreKeeps ==
    ASSUME IndInv, NEW h \in Procs, NEW s \in DraftStates \ {"sent"},
           NEW b \in Bodies \cup {NoBody}, NEW next,
           StoreDraft(h, Draft(s, b), next), next => Moves(h)
    PROVE  /\ Moves(h)
           /\ failures' \in 0..MaxFailures
           /\ draft' \in Drafts
           /\ draft' = draft \/ draft'.status # "sent"
<1>1. CASE draft' = Draft(s, b) /\ UNCHANGED failures /\ next
  BY <1>1, DraftType DEF IndInv, TypeOK
<1>2. CASE Outcome(FALSE) /\ UNCHANGED draft /\ Leave(h)
  BY <1>2, OutcomeType, LeaveMoves DEF IndInv, TypeOK
<1> QED BY <1>1, <1>2 DEF StoreDraft

\* In the initial state there is no draft.
LEMMA InitInv == Init => IndInv
<1> SUFFICES ASSUME Init PROVE IndInv
  OBVIOUS
<1>1. crowded \in BOOLEAN /\ inbox \in BOOLEAN /\ connected \in BOOLEAN
  BY DEF Init
<1>2. /\ pc \in [Procs -> Points] /\ job \in [Procs -> Jobs] /\ watched \in [Procs -> BOOLEAN]
      /\ text \in [Procs -> Bodies \cup {NoBody}]
  BY DEF Init, Points, Jobs
<1>3. thread \in ThreadStates /\ draft \in Drafts /\ draft.status = "none"
  BY DEF Init, ThreadStates, Draft, Drafts, DraftStates
<1>4. failures \in 0..MaxFailures /\ sent \subseteq Bodies \cup {NoBody}
  BY MailAssumption DEF Init
<1>5. \A h \in Procs : pc[h] = "idle"
  BY DEF Init
<1> QED BY <1>1, <1>2, <1>3, <1>4, <1>5 DEF IndInv, TypeOK, MarkInv, SentTextIsTrue

\* The start of a sync or a request moves one process.
LEMMA StartInv ==
    ASSUME IndInv, NEW p \in Procs,
           SyncConnection(p) \/ PullInbox(p) \/ DraftIgnored(p)
              \/ \E j \in {"edit", "approve", "reject"} : OwnedDraft(p, j)
    PROVE  IndInv'
<1>1. ASSUME NEW j \in Jobs, NEW l \in Points \ {"mark"}, NEW w \in BOOLEAN,
             NEW b \in Bodies \cup {NoBody}, Start(p, j, l, w, b)
      PROVE  IndInv'
  <2>1. TypeOK
    BY DEF IndInv
  <2>2. /\ Local'
        /\ \A h \in Procs : pc'[h] = "mark" => pc[h] = "mark" /\ text'[h] = text[h]
        /\ UNCHANGED <<thread, crowded, draft, failures, inbox, connected, sent>>
    BY <1>1, <2>1, StartLocal
  <2> QED BY <2>1, <2>2, Assemble DEF TypeOK
<1>2. CASE SyncConnection(p)
  BY <1>1, <1>2 DEF SyncConnection, Jobs, Points
<1>3. CASE PullInbox(p)
  BY <1>1, <1>3 DEF PullInbox, Jobs, Points
<1>4. CASE DraftIgnored(p)
  BY <1>1, <1>4 DEF DraftIgnored, Jobs, Points
<1>5. ASSUME NEW j \in {"edit", "approve", "reject"}, OwnedDraft(p, j)
      PROVE  IndInv'
  <2>1. draft.body \in Bodies \cup {NoBody}
    BY DEF IndInv, TypeOK, Drafts
  <2> QED BY <1>1, <1>5, <2>1 DEF OwnedDraft, Jobs, Points
<1> QED BY <1>2, <1>3, <1>4, <1>5

\* The steps of a sync store no draft but a fresh one.
LEMMA SyncInv ==
    ASSUME IndInv, NEW p \in Procs,
           \/ Ingest(p) \/ UpsertThread(p) \/ Reopen(p) \/ ProcessQueued(p)
           \/ MarkClassifying(p) \/ Classify(p) \/ UpsertDraft(p) \/ DraftReady(p)
    PROVE  IndInv'
<1>t. TypeOK
  BY DEF IndInv
<1>f. Outcome(FALSE) \/ Outcome(TRUE) => failures' \in 0..MaxFailures
  BY <1>t, OutcomeType
<1>w. \A s \in ThreadStates : WriteThread(s) =>
         thread' \in ThreadStates /\ crowded' \in BOOLEAN /\ failures' \in 0..MaxFailures
  BY <1>t, WriteThreadType
<1>g. \A l \in Points \ {"mark"} : Goto(p, l) => Moves(p)
  BY GotoMoves
<1>a. ASSUME Moves(p), thread' \in ThreadStates /\ crowded' \in BOOLEAN, failures' \in 0..MaxFailures,
             draft' \in Drafts, draft' = draft \/ draft'.status # "sent", UNCHANGED world
      PROVE  IndInv'
  BY <1>a, <1>t, Assemble DEF Moves, TypeOK, world
<1>1. CASE Ingest(p)
  <2>1. Moves(p)
    BY <1>1, <1>g, LeaveMoves DEF Ingest, Points
  <2>2. failures' \in 0..MaxFailures
    BY <1>1, <1>t, OutcomeType DEF Ingest, Skipped, TypeOK
  <2> QED BY <1>1, <1>t, <1>a, <2>1, <2>2 DEF Ingest, rows, threadRow, TypeOK
<1>2. CASE UpsertThread(p)
  <2>1. Moves(p)
    BY <1>2, <1>g, LeaveMoves, AfterUpsertMoves DEF UpsertThread, Points
  <2>2. failures' \in 0..MaxFailures /\ thread' \in ThreadStates /\ crowded' \in BOOLEAN
    BY <1>2, <1>t, <1>f DEF threadRow, Touch, UpsertThread, TypeOK, ThreadStates
  <2> QED BY <1>2, <1>t, <1>a, <2>1, <2>2 DEF UpsertThread, TypeOK
<1>3. CASE Reopen(p)
  <2>1. Moves(p)
    BY <1>3, LeaveMoves, AfterUpsertMoves DEF Reopen
  <2>2. failures' \in 0..MaxFailures /\ thread' \in ThreadStates /\ crowded' \in BOOLEAN
    BY <1>3, <1>t, <1>f DEF threadRow, Touch, Reopen, TypeOK, ThreadStates
  <2> QED BY <1>3, <1>t, <1>a, <2>1, <2>2 DEF Reopen, TypeOK
<1>4. CASE ProcessQueued(p)
  <2>1. Moves(p)
    BY <1>4, <1>g, LeaveMoves DEF ProcessQueued, Points
  <2>2. failures' \in 0..MaxFailures
    BY <1>4, <1>t, OutcomeType DEF ProcessQueued, QueuedThread, TypeOK
  <2> QED BY <1>4, <1>t, <1>a, <2>1, <2>2 DEF ProcessQueued, rows, threadRow, TypeOK
<1>5. CASE MarkClassifying(p)
  <2>1. Moves(p)
    BY <1>5, <1>g DEF MarkClassifying, Points
  <2>2. failures' \in 0..MaxFailures /\ thread' \in ThreadStates /\ crowded' \in BOOLEAN
    BY <1>5, <1>w DEF MarkClassifying, ThreadStates
  <2> QED BY <1>5, <1>t, <1>a, <2>1, <2>2 DEF MarkClassifying, TypeOK
<1>6. CASE Classify(p)
  <2>1. Moves(p)
    BY <1>6, <1>g, LeaveMoves DEF Classify, Points
  <2>2. failures' \in 0..MaxFailures /\ thread' \in ThreadStates /\ crowded' \in BOOLEAN
    BY <1>6, <1>t, <1>w DEF threadRow, Classify, ThreadStates, TypeOK
  <2> QED BY <1>6, <1>t, <1>a, <2>1, <2>2 DEF Classify, TypeOK
<1>7. CASE UpsertDraft(p)
  <2>1. Moves(p)
    BY <1>7, <1>g, LeaveMoves DEF UpsertDraft, Points
  <2>2. failures' \in 0..MaxFailures /\ thread' \in ThreadStates /\ crowded' \in BOOLEAN
    BY <1>7, <1>t, <1>w DEF threadRow, UpsertDraft, ThreadStates, TypeOK
  <2>3. draft' \in Drafts /\ (draft' = draft \/ draft'.status # "sent")
    BY <1>7, <1>t, DraftType DEF UpsertDraft, TypeOK, DraftStates
  <2> QED BY <1>7, <1>a, <2>1, <2>2, <2>3 DEF UpsertDraft
<1>8. CASE DraftReady(p)
  <2>1. Moves(p)
    BY <1>8, LeaveMoves DEF DraftReady
  <2>2. failures' \in 0..MaxFailures /\ thread' \in ThreadStates /\ crowded' \in BOOLEAN
    BY <1>8, <1>w DEF DraftReady, ThreadStates
  <2> QED BY <1>8, <1>t, <1>a, <2>1, <2>2 DEF DraftReady, TypeOK
<1> QED BY <1>1, <1>2, <1>3, <1>4, <1>5, <1>6, <1>7, <1>8

\* Gmail accepts the text a request carries, and the request comes to "mark".
LEMMA SendInv ==
    ASSUME IndInv, NEW h \in Procs, Send(h)
    PROVE  IndInv'
<1>t. TypeOK
  BY DEF IndInv
<1>1. sent \subseteq sent' /\ sent' \subseteq Bodies \cup {NoBody}
  BY <1>t DEF Send, TypeOK
<1>2. Local' /\ failures' \in 0..MaxFailures
  <2>1. CASE Goto(h, "mark") /\ UNCHANGED failures
    BY <1>t, <2>1, GotoLocal DEF Points, TypeOK
  <2>2. CASE Leave(h) /\ (Outcome(FALSE) \/ UNCHANGED failures)
    BY <1>t, <2>2, LeaveLocal, OutcomeType DEF TypeOK
  <2> QED BY <2>1, <2>2 DEF Send
<1>3. MarkInv'
  <2>1. CASE sent' = sent \cup {text[h]} /\ Goto(h, "mark")
    <3>1. /\ text' = text
          /\ \A k \in Procs : k # h => pc'[k] = pc[k]
      BY <1>t, <2>1, GotoLocal DEF Points
    <3> QED BY <2>1, <3>1 DEF IndInv, MarkInv
  <2>2. CASE Leave(h)
    BY <1>t, <1>1, <2>2, LeaveLocal, MarkKept DEF IndInv
  <2> QED BY <2>1, <2>2 DEF Send
<1>4. TypeOK'
  BY <1>t, <1>1, <1>2 DEF Send, TypeOK, Local, rows, threadRow
<1>5. SentTextIsTrue'
  BY <1>1, RecordKept DEF IndInv, Send, rows, threadRow
<1> QED BY <1>3, <1>4, <1>5 DEF IndInv

\* The record of a sent draft holds the text that was carried to "mark".
LEMMA MarkSentInv ==
    ASSUME IndInv, NEW h \in Procs, MarkSent(h)
    PROVE  IndInv'
<1>t. TypeOK /\ text[h] \in Bodies \cup {NoBody}
  BY DEF IndInv, TypeOK
<1>1. CASE draft' = SentRow(h) /\ UNCHANGED failures /\ Goto(h, "close")
  <2>1. Moves(h)
    BY <1>1, GotoMoves DEF Points
  <2>2. draft' \in Drafts /\ draft'.body \in sent
    BY <1>1, <1>t, DraftType DEF SentRow, IndInv, MarkInv, MarkSent, DraftStates
  <2>3. TypeOK'
    BY <1>1, <1>t, <2>1, <2>2 DEF threadRow, MarkSent, Moves, Local, TypeOK, world
  <2>4. MarkInv'
    BY <2>1, MarkKept DEF IndInv, Moves, MarkSent, world
  <2>5. SentTextIsTrue'
    BY <2>2 DEF SentTextIsTrue, MarkSent, world
  <2> QED BY <2>3, <2>4, <2>5 DEF IndInv
<1>2. CASE Outcome(FALSE) /\ UNCHANGED draft /\ Leave(h)
  <2>1. Moves(h) /\ failures' \in 0..MaxFailures
    BY <1>2, <1>t, LeaveMoves, OutcomeType
  <2> QED BY <1>2, <1>t, <2>1, Assemble DEF threadRow, MarkSent, Moves, TypeOK, world
<1> QED BY <1>1, <1>2 DEF MarkSent, StoreDraft

\* The other steps of a request store a draft that is not sent.
LEMMA ReviewInv ==
    ASSUME IndInv, NEW h \in Procs,
           UpdateDraft(h) \/ Approve(h) \/ Reject(h) \/ CloseThread(h)
    PROVE  IndInv'
<1>t. TypeOK /\ text[h] \in Bodies \cup {NoBody}
  BY DEF IndInv, TypeOK
<1>a. ASSUME Moves(h), thread' \in ThreadStates /\ crowded' \in BOOLEAN, failures' \in 0..MaxFailures,
             draft' \in Drafts, draft' = draft \/ draft'.status # "sent", UNCHANGED world
      PROVE  IndInv'
  BY <1>a, <1>t, Assemble DEF Moves, TypeOK, world
<1>1. CASE UpdateDraft(h)
  <2>1. PICK b \in Bodies : StoreDraft(h, Draft("draft", b), Leave(h))
    BY <1>1 DEF UpdateDraft
  <2>2. Leave(h) => Moves(h)
    BY LeaveMoves
  <2>3. "draft" \in DraftStates \ {"sent"}
    BY DEF DraftStates
  <2>4. /\ Moves(h) /\ failures' \in 0..MaxFailures
        /\ draft' \in Drafts /\ (draft' = draft \/ draft'.status # "sent")
    BY <2>1, <2>2, <2>3, StoreKeeps
  <2> QED BY <1>1, <1>t, <1>a, <2>4 DEF threadRow, UpdateDraft, TypeOK
<1>2. CASE Approve(h)
  <2>1. CASE StoreDraft(h, Draft("approved", text[h]), Goto(h, "send"))
    <3>1. Goto(h, "send") => Moves(h)
      BY GotoMoves DEF Points
    <3>2. "approved" \in DraftStates \ {"sent"}
      BY DEF DraftStates
    <3>3. /\ Moves(h) /\ failures' \in 0..MaxFailures
          /\ draft' \in Drafts /\ (draft' = draft \/ draft'.status # "sent")
      BY <1>t, <2>1, <3>1, <3>2, StoreKeeps
    <3> QED BY <1>2, <1>t, <1>a, <3>3 DEF threadRow, Approve, TypeOK
  <2>2. CASE Leave(h) /\ UNCHANGED <<draft, failures>>
    BY <1>2, <1>t, <1>a, <2>2, LeaveMoves DEF threadRow, Approve, TypeOK
  <2> QED BY <1>2, <2>1, <2>2 DEF Approve
<1>3. CASE Reject(h)
  <2>1. Goto(h, "close") => Moves(h)
    BY GotoMoves DEF Points
  <2>2. "rejected" \in DraftStates \ {"sent"}
    BY DEF DraftStates
  <2>3. StoreDraft(h, Draft("rejected", text[h]), Goto(h, "close"))
    BY <1>3 DEF Reject
  <2>4. /\ Moves(h) /\ failures' \in 0..MaxFailures
        /\ draft' \in Drafts /\ (draft' = draft \/ draft'.status # "sent")
    BY <1>t, <2>1, <2>2, <2>3, StoreKeeps
  <2> QED BY <1>3, <1>t, <1>a, <2>4 DEF threadRow, Reject, TypeOK
<1>4. CASE CloseThread(h)
  <2>1. ThreadAfter(job[h]) \in ThreadStates
    BY DEF ThreadAfter, ThreadStates
  <2>2. thread' \in ThreadStates /\ crowded' \in BOOLEAN /\ failures' \in 0..MaxFailures
    BY <1>4, <1>t, <2>1, WriteThreadType DEF CloseThread
  <2>3. Moves(h)
    BY <1>4, LeaveMoves DEF CloseThread
  <2> QED BY <1>4, <1>t, <1>a, <2>2, <2>3 DEF CloseThread, TypeOK
<1> QED BY <1>1, <1>2, <1>3, <1>4

\* The mailbox and other conversations touch no draft, a crash forgets copies.
LEMMA WorldInv ==
    ASSUME IndInv, NewMail \/ AgeOut \/ Crowd \/ Disconnect \/ Reconnect \/ Crash
    PROVE  IndInv'
<1>t. TypeOK
  BY DEF IndInv
<1>1. CASE NewMail \/ AgeOut \/ Crowd \/ Disconnect \/ Reconnect
  <2>1. UNCHANGED <<thread, draft, failures, sent, locals>>
    BY <1>1 DEF NewMail, AgeOut, Crowd, Disconnect, Reconnect, rows, threadRow, world
  <2>2. /\ Local'
        /\ \A h \in Procs : pc'[h] = "mark" => pc[h] = "mark" /\ text'[h] = text[h]
    BY <1>t, <2>1 DEF Local, locals, TypeOK
  <2>3. inbox' \in BOOLEAN /\ connected' \in BOOLEAN /\ crowded' \in BOOLEAN
    BY <1>1, <1>t DEF NewMail, AgeOut, Crowd, Disconnect, Reconnect, rows, threadRow, world, TypeOK
  <2> QED BY <1>t, <2>1, <2>2, <2>3, Assemble DEF TypeOK
<1>2. CASE Crash
  <2>1. PICK P \in SUBSET Procs :
          /\ pc' = [p \in Procs |-> IF p \in P THEN "idle" ELSE pc[p]]
          /\ job' = [p \in Procs |-> IF p \in P THEN "none" ELSE job[p]]
          /\ watched' = [p \in Procs |-> IF p \in P THEN FALSE ELSE watched[p]]
          /\ text' = [p \in Procs |-> IF p \in P THEN NoBody ELSE text[p]]
    BY <1>2 DEF Crash
  <2>2. Local'
    <3>1. pc' \in [Procs -> Points] /\ job' \in [Procs -> Jobs]
      BY <1>t, <2>1 DEF TypeOK, Points, Jobs
    <3>2. watched' \in [Procs -> BOOLEAN]
      BY <1>t, <2>1, Zenon DEF TypeOK
    <3>3. text' \in [Procs -> Bodies \cup {NoBody}]
      BY <1>t, <2>1 DEF TypeOK
    <3> QED BY <3>1, <3>2, <3>3 DEF Local
  <2>3. \A h \in Procs : pc'[h] = "mark" => pc[h] = "mark" /\ text'[h] = text[h]
    BY <2>1
  <2>4. failures' \in 0..MaxFailures
    BY <1>2, <1>t, MailAssumption DEF Crash, TypeOK
  <2> QED BY <1>2, <1>t, <2>2, <2>3, <2>4, Assemble DEF Crash, rows, threadRow, world, TypeOK
<1> QED BY <1>1, <1>2

\* The invariant is inductive.
LEMMA NextInv == IndInv /\ [Next]_vars => IndInv'
<1> SUFFICES ASSUME IndInv, [Next]_vars PROVE IndInv'
  OBVIOUS
<1>1. ASSUME NEW r \in Replicas, SyncConnection(r) PROVE IndInv'
  BY <1>1, StartInv DEF Procs
<1>2. ASSUME NEW h \in Handlers, User(h) PROVE IndInv'
  BY <1>2, StartInv DEF User, Procs
<1>3. ASSUME NEW p \in Procs, Step(p) PROVE IndInv'
  BY <1>3, SyncInv, SendInv, MarkSentInv, ReviewInv DEF Step
<1>4. CASE NewMail \/ AgeOut \/ Crowd \/ Disconnect \/ Reconnect \/ Crash
  BY <1>4, WorldInv
<1>5. CASE UNCHANGED vars
  BY <1>5 DEF vars, rows, threadRow, world, locals, IndInv, TypeOK, MarkInv, SentTextIsTrue
<1> QED BY <1>1, <1>2, <1>3, <1>4, <1>5 DEF Next

\* The rows of the Mail Agent and the copies of them stay within their types.
THEOREM Typing == Spec => []TypeOK
<1>1. IndInv => TypeOK
  BY DEF IndInv
<1> QED BY <1>1, InitInv, NextInv, PTL DEF Spec

\* IndInv is an invariant.
LEMMA Inductive == Spec => []IndInv
BY InitInv, NextInv, PTL DEF Spec

-----------------------------------------------------------------------------
(* What went out *)

\* The points at which a request carries the text of the draft it has read.
Carrying == {"edit", "approve", "send", "mark", "reject"}

\* A request that has read a draft carries its text and not the empty one; it
\* closes the conversation as sent only behind "mark".
CarryInv ==
    /\ draft.status # "none" => draft.body \in Bodies
    /\ sent \subseteq Bodies
    /\ \A h \in Procs : pc[h] \in Carrying => text[h] \in Bodies
    /\ \A h \in Procs : pc[h] = "reject" => job[h] = "reject"
    /\ \A h \in Procs : pc[h] = "close" /\ job[h] = "approve" => sent # {}
    /\ thread = "sent" => sent # {}

\* A step of a process that neither carries a text nor closes the
\* conversation afterwards, and does not record it as sent, keeps CarryInv.
LEMMA CarryKept ==
    ASSUME CarryInv, sent' = sent,
           thread' = thread \/ thread' # "sent",
           draft' = draft \/ draft'.body \in Bodies,
           \A h \in Procs : \/ pc'[h] = pc[h] /\ text'[h] = text[h] /\ job'[h] = job[h]
                            \/ pc'[h] \notin Carrying \cup {"close"}
    PROVE  CarryInv'
<1>1. \A h \in Procs : pc'[h] \in Carrying \cup {"close"} =>
         pc'[h] = pc[h] /\ text'[h] = text[h] /\ job'[h] = job[h]
  OBVIOUS
<1>2. \A h \in Procs : pc'[h] = "reject" => pc'[h] \in Carrying \cup {"close"}
  BY DEF Carrying
<1> QED BY <1>1, <1>2 DEF CarryInv

\* The first action of a request: a draft that may be edited, approved or
\* rejected exists.
LEMMA StartCarry ==
    ASSUME IndInv, CarryInv, NEW p \in Procs,
           SyncConnection(p) \/ PullInbox(p) \/ DraftIgnored(p)
              \/ \E j \in {"edit", "approve", "reject"} : OwnedDraft(p, j)
    PROVE  CarryInv'
<1> USE DEF IndInv, TypeOK, Start, rows, threadRow, world
<1>1. CASE SyncConnection(p) \/ PullInbox(p) \/ DraftIgnored(p)
  <2>1. \A h \in Procs : \/ pc'[h] = pc[h] /\ text'[h] = text[h] /\ job'[h] = job[h]
                         \/ pc'[h] \notin Carrying \cup {"close"}
    BY <1>1 DEF SyncConnection, PullInbox, DraftIgnored, Carrying
  <2>2. UNCHANGED <<thread, draft, sent>>
    BY <1>1 DEF SyncConnection, PullInbox, DraftIgnored
  <2> QED BY <2>1, <2>2, CarryKept
<1>2. ASSUME NEW j \in {"edit", "approve", "reject"}, OwnedDraft(p, j)
      PROVE  CarryInv'
  <2>1. draft.body \in Bodies
    BY <1>2 DEF OwnedDraft, Allows, CarryInv
  <2>2. /\ pc'[p] = j /\ job'[p] = j /\ text'[p] = draft.body
        /\ \A h \in Procs : h # p => pc'[h] = pc[h] /\ text'[h] = text[h] /\ job'[h] = job[h]
        /\ UNCHANGED <<thread, draft, sent>>
    BY <1>2 DEF OwnedDraft
  <2> QED BY <2>1, <2>2 DEF CarryInv, Carrying
<1> QED BY <1>1, <1>2

\* The steps of a sync carry no text and record nothing as sent.
LEMMA SyncCarry ==
    ASSUME IndInv, CarryInv, NEW p \in Procs,
           \/ Ingest(p) \/ UpsertThread(p) \/ Reopen(p) \/ ProcessQueued(p)
           \/ MarkClassifying(p) \/ Classify(p) \/ UpsertDraft(p) \/ DraftReady(p)
    PROVE  CarryInv'
<1>1. ASSUME NEW l \in Points \ (Carrying \cup {"close"}), Goto(p, l) \/ Leave(p)
      PROVE  \A h \in Procs : \/ pc'[h] = pc[h] /\ text'[h] = text[h] /\ job'[h] = job[h]
                              \/ pc'[h] \notin Carrying \cup {"close"}
  BY <1>1 DEF Goto, Leave, IndInv, TypeOK, Carrying
<1>2. Goto(p, "upsert") \/ Goto(p, "reupsert") \/ Goto(p, "reopen") \/ Goto(p, "classifying")
         \/ Goto(p, "classify") \/ Goto(p, "draft") \/ Goto(p, "ready") \/ Leave(p)
  BY DEF Ingest, UpsertThread, Reopen, AfterUpsert, ProcessQueued, MarkClassifying, Classify,
     UpsertDraft, DraftReady
<1>3. \A h \in Procs : \/ pc'[h] = pc[h] /\ text'[h] = text[h] /\ job'[h] = job[h]
                       \/ pc'[h] \notin Carrying \cup {"close"}
  BY <1>1, <1>2 DEF Points, Carrying
<1>4. sent' = sent /\ (thread' = thread \/ thread' # "sent")
  BY DEF Ingest, UpsertThread, Reopen, ProcessQueued, MarkClassifying, Classify, UpsertDraft,
     DraftReady, WriteThread, Touch, rows, threadRow, world
<1>5. draft' = draft \/ draft'.body \in Bodies
  <2>1. draft' = draft \/ \E b \in Bodies : draft' = Draft("draft", b)
    BY DEF Ingest, UpsertThread, Reopen, ProcessQueued, MarkClassifying, Classify, UpsertDraft,
       DraftReady, rows, threadRow
  <2> QED BY <2>1, DraftType DEF DraftStates
<1> QED BY <1>3, <1>4, <1>5, CarryKept

\* The steps of a request: what it stores and sends is the text it carries.
LEMMA RequestCarry ==
    ASSUME IndInv, CarryInv, NEW h \in Procs,
           UpdateDraft(h) \/ Approve(h) \/ Send(h) \/ MarkSent(h) \/ Reject(h) \/ CloseThread(h)
    PROVE  CarryInv'
<1> USE DEF IndInv, TypeOK, rows, threadRow, world
<1>1. Leave(h) => \A k \in Procs : \/ pc'[k] = pc[k] /\ text'[k] = text[k] /\ job'[k] = job[k]
                                   \/ pc'[k] \notin Carrying \cup {"close"}
  BY DEF Leave, Carrying
<1>2. CASE UpdateDraft(h)
  <2>1. PICK b \in Bodies : StoreDraft(h, Draft("draft", b), Leave(h))
    BY <1>2 DEF UpdateDraft
  <2>2. Leave(h) /\ (draft' = draft \/ draft' = Draft("draft", b))
    BY <2>1 DEF StoreDraft
  <2>3. draft' = draft \/ draft'.body \in Bodies
    BY <2>2, DraftType DEF DraftStates
  <2>4. UNCHANGED <<thread, sent>>
    BY <1>2 DEF UpdateDraft
  <2> QED BY <1>1, <2>2, <2>3, <2>4, CarryKept
<1>3. CASE Approve(h)
  <2>1. text[h] \in Bodies /\ UNCHANGED <<thread, sent>>
    BY <1>3 DEF Approve, CarryInv, Carrying
  <2>2. CASE Leave(h) /\ UNCHANGED draft
    BY <1>1, <2>1, <2>2, CarryKept
  <2>3. CASE draft' = Draft("approved", text[h]) /\ Goto(h, "send")
    BY <2>1, <2>3 DEF Goto, Draft, CarryInv, Carrying
  <2> QED BY <1>3, <2>2, <2>3 DEF Approve, StoreDraft
<1>4. CASE Send(h)
  <2>1. text[h] \in Bodies /\ UNCHANGED <<thread, draft>> /\ sent \subseteq sent'
        /\ sent' \subseteq sent \cup {text[h]}
    BY <1>4 DEF Send, CarryInv, Carrying
  <2>2. \A k \in Procs : \/ pc'[k] = pc[k] /\ text'[k] = text[k] /\ job'[k] = job[k]
                         \/ pc'[k] = "mark" /\ text'[k] = text[k] /\ k = h
                         \/ pc'[k] = "idle"
    BY <1>4 DEF Send, Goto, Leave
  <2> QED BY <2>1, <2>2 DEF CarryInv, Carrying
<1>5. CASE MarkSent(h)
  <2>1. text[h] \in Bodies /\ text[h] \in sent /\ UNCHANGED <<thread, sent>>
    BY <1>5 DEF MarkSent, CarryInv, Carrying, MarkInv
  <2>2. CASE Leave(h) /\ UNCHANGED draft
    BY <1>1, <2>1, <2>2, CarryKept
  <2>3. CASE draft' = SentRow(h) /\ Goto(h, "close")
    BY <2>1, <2>3 DEF Goto, SentRow, Draft, CarryInv, Carrying
  <2> QED BY <1>5, <2>2, <2>3 DEF MarkSent, StoreDraft
<1>6. CASE Reject(h)
  <2>1. text[h] \in Bodies /\ job[h] = "reject" /\ UNCHANGED <<thread, sent>>
    BY <1>6 DEF Reject, CarryInv, Carrying
  <2>2. CASE Leave(h) /\ UNCHANGED draft
    BY <1>1, <2>1, <2>2, CarryKept
  <2>3. CASE draft' = Draft("rejected", text[h]) /\ Goto(h, "close")
    BY <2>1, <2>3 DEF Goto, Draft, CarryInv, Carrying
  <2> QED BY <1>6, <2>2, <2>3 DEF Reject, StoreDraft
<1>7. CASE CloseThread(h)
  <2>1. Leave(h) /\ UNCHANGED <<draft, sent>>
    BY <1>7 DEF CloseThread
  <2>2. thread' = thread \/ thread' # "sent" \/ sent # {}
    BY <1>7 DEF threadRow, Touch, CloseThread, WriteThread, ThreadAfter, CarryInv
  <2>3. CASE thread' = thread \/ thread' # "sent"
    BY <1>1, <2>1, <2>3, CarryKept
  <2>4. CASE sent # {}
    BY <1>1, <2>1, <2>4 DEF CarryInv, Carrying
  <2> QED BY <2>2, <2>3, <2>4
<1> QED BY <1>2, <1>3, <1>4, <1>5, <1>6, <1>7

\* CarryInv is inductive relative to IndInv.
LEMMA CarryInvariant == Spec => []CarryInv
<1>1. Init => CarryInv
  BY DEF Init, CarryInv, Carrying, Draft
<1>2. IndInv /\ CarryInv /\ [Next]_vars => CarryInv'
  <2> SUFFICES ASSUME IndInv, CarryInv, [Next]_vars PROVE CarryInv'
    OBVIOUS
  <2>1. ASSUME NEW r \in Replicas, SyncConnection(r) PROVE CarryInv'
    BY <2>1, StartCarry DEF Procs
  <2>2. ASSUME NEW h \in Handlers, User(h) PROVE CarryInv'
    BY <2>2, StartCarry DEF User, Procs
  <2>3. ASSUME NEW p \in Procs, Step(p) PROVE CarryInv'
    BY <2>3, SyncCarry, RequestCarry DEF Step
  <2>4. CASE NewMail \/ AgeOut \/ Crowd \/ Disconnect \/ Reconnect \/ UNCHANGED vars
    <3>1. UNCHANGED <<thread, draft, sent, pc, text, job>>
      BY <2>4 DEF NewMail, AgeOut, Crowd, Disconnect, Reconnect, vars, rows, threadRow, world, locals
    <3> QED BY <3>1 DEF CarryInv
  <2>5. CASE Crash
    <3>1. UNCHANGED <<thread, draft, sent>>
      BY <2>5 DEF Crash, rows, threadRow, world
    <3>2. \A h \in Procs : \/ pc'[h] = pc[h] /\ text'[h] = text[h] /\ job'[h] = job[h]
                           \/ pc'[h] \notin Carrying \cup {"close"}
      BY <2>5 DEF Crash, Carrying
    <3> QED BY <3>1, <3>2, CarryKept
  <2> QED BY <2>1, <2>2, <2>3, <2>4, <2>5 DEF Next
<1> QED BY <1>1, <1>2, Inductive, PTL DEF Spec

\* The records of what was sent are true, for any number of reconcilers and of
\* requests that edit, approve and reject (ApproveSend): the text of a sent
\* draft, the status of a sent conversation, and that every mail was a draft.
THEOREM SentRecord == Spec => []SentRecordIsTrue
<1>1. IndInv /\ CarryInv => SentRecordIsTrue
  BY DEF IndInv, CarryInv, SentRecordIsTrue
<1> QED BY <1>1, Inductive, CarryInvariant, PTL
=============================================================================
