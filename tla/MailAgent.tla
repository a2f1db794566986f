------------------------------ MODULE MailAgent ------------------------------
(***************************************************************************)
(* The Mail Agent: one conversation of a connected Gmail mailbox and the   *)
(* draft that answers it.                                                  *)
(*                                                                         *)
(* The reconcilers of all replicas (ProcessDueSyncs) and the requests of   *)
(* users (sync, draft an ignored mail, edit, approve, reject) work on the  *)
(* same rows of mail_threads and mail_drafts.  None of them holds a lock   *)
(* between two statements, and an update stores the whole row that was     *)
(* read earlier.  One action is one statement, or one call of Gmail or of  *)
(* a model, with the local code up to the next.                            *)
(*                                                                         *)
(* The row of the connection is left out.  Its lease of two minutes keeps  *)
(* no two syncs apart: a sync has no deadline, its model calls and its     *)
(* research may take longer, and EnqueueSync removes the lease.  So any    *)
(* number of syncs may overlap, and each reads the watch rules as they are *)
(* when it begins.  The text of a draft, with its subject and addresses,   *)
(* is an element of Bodies.                                                *)
(***************************************************************************)
EXTENDS Naturals

CONSTANTS
    Replicas,     \* the reconciler loops
    Handlers,     \* requests of users in flight
    Bodies,       \* texts a draft may have
    NoBody,
    MaxFailures   \* bound: crashes, failed statements, lost answers of Gmail

ASSUME MailAssumption ==
    /\ Replicas \cap Handlers = {}
    /\ NoBody \notin Bodies
    /\ MaxFailures \in Nat

VARIABLES
    thread,    \* status of the mail_threads row, "none" before it exists
    draft,     \* the mail_drafts row
    crowded,   \* fifty other conversations were updated after it
    inbox,     \* Gmail lists the conversation: a mail of the last 7 days that
               \* the query of the watch rules finds
    connected, \* the mailbox is granted and Gmail answers
    sent,      \* the bodies Gmail has accepted
    pc, job,   \* where a reconciler or a request is, and what it is doing
    watched,   \* its copy of the watch rules matches the conversation
    text,      \* its copy of the text of the draft
    failures

threadRow == <<thread, crowded>>
rows == <<threadRow, draft>>
world == <<inbox, connected, sent>>
locals == <<pc, job, watched, text>>
vars == <<rows, world, locals, failures>>

Procs == Replicas \cup Handlers

ThreadStates == {"none", "new", "classifying", "researching", "ignored",
                 "draft_ready", "sent", "rejected", "failed"}

DraftStates == {"none", "draft", "approved", "sent", "rejected"}
Drafts == [status : DraftStates, body : Bodies \cup {NoBody}]
Draft(s, b) == [status |-> s, body |-> b]

Jobs == {"none", "sync", "inbox", "reply", "edit", "approve", "reject"}

Points == {"idle", "ingest", "upsert", "reupsert", "reopen", "queued",
           "classifying", "classify", "draft", "ready",
           "edit", "approve", "send", "mark", "reject", "close"}

Init ==
    /\ thread = "none"
    /\ draft = Draft("none", NoBody)
    /\ crowded = FALSE
    /\ inbox = TRUE
    /\ connected = TRUE
    /\ sent = {}
    /\ pc = [p \in Procs |-> "idle"]
    /\ job = [p \in Procs |-> "none"]
    /\ watched = [p \in Procs |-> FALSE]
    /\ text = [p \in Procs |-> NoBody]
    /\ failures = 0

-----------------------------------------------------------------------------
(* Control *)

Start(p, j, l, w, b) ==
    /\ pc[p] = "idle"
    /\ pc' = [pc EXCEPT ![p] = l]
    /\ job' = [job EXCEPT ![p] = j]
    /\ watched' = [watched EXCEPT ![p] = w]
    /\ text' = [text EXCEPT ![p] = b]
    /\ UNCHANGED <<rows, failures, world>>

Goto(p, l) == pc' = [pc EXCEPT ![p] = l] /\ UNCHANGED <<job, watched, text>>

Leave(p) ==
    /\ pc' = [pc EXCEPT ![p] = "idle"]
    /\ job' = [job EXCEPT ![p] = "none"]
    /\ watched' = [watched EXCEPT ![p] = FALSE]
    /\ text' = [text EXCEPT ![p] = NoBody]

\* A statement or a call that succeeds, or one that fails.
Outcome(ok) ==
    \/ ok /\ UNCHANGED failures
    \/ ~ok /\ failures < MaxFailures /\ failures' = failures + 1

\* An update of the row of the conversation: its updated_at is the latest.
Touch(s) == thread' = s /\ crowded' = FALSE

\* One whose error is ignored.
WriteThread(s) ==
    \/ Outcome(TRUE) /\ Touch(s)
    \/ Outcome(FALSE) /\ UNCHANGED threadRow

-----------------------------------------------------------------------------
(* A sync *)

\* syncConnection has its access token and the listing of Gmail.  A sync
\* without them ends here and touches only the connection.
SyncConnection(p) ==
    /\ connected
    /\ \E w \in BOOLEAN :
          Start(p, "sync", IF inbox THEN "ingest" ELSE "queued", w, NoBody)

\* SyncInbox, which stores the listed conversations and leaves them to the
\* reconciler.
PullInbox(h) ==
    connected /\ inbox /\ \E w \in BOOLEAN : Start(h, "inbox", "ingest", w, NoBody)

\* DraftIgnored: a user wants a reply to an ignored mail or retries a failed one.
DraftIgnored(h) ==
    /\ thread \in {"ignored", "failed"}
    /\ \E w \in BOOLEAN : Start(h, "reply", "classifying", w, NoBody)

\* A known conversation is left alone unless it is new, failed, or ignored
\* and now watched.
Skipped(p) ==
    /\ thread \notin {"none", "new", "failed"}
    /\ ~(thread = "ignored" /\ watched[p])

\* upsertThreadFromMessage: GetThreadByGmailID.  The conversation counts as
\* seen, so the queued pass of this sync leaves it alone as well.
Ingest(p) ==
    /\ pc[p] = "ingest"
    /\ \/ /\ ~Skipped(p)
          /\ Goto(p, IF thread = "ignored" THEN "reupsert" ELSE "upsert")
          /\ UNCHANGED failures
       \/ Outcome(Skipped(p)) /\ Leave(p)
    /\ UNCHANGED <<rows, world>>

\* SyncInbox ends with the stored conversation, a sync goes on to process it.
AfterUpsert(p) == IF job[p] = "inbox" THEN Leave(p) ELSE Goto(p, "classifying")

\* UpsertThread inserts the row, or leaves its status alone and returns it.
UpsertThread(p) ==
    /\ pc[p] \in {"upsert", "reupsert"}
    /\ \/ /\ Touch(IF thread = "none" THEN "new" ELSE thread)
          /\ IF pc[p] = "reupsert" /\ thread' # "new"
                THEN Goto(p, "reopen") ELSE AfterUpsert(p)
          /\ UNCHANGED failures
       \/ Outcome(FALSE) /\ Leave(p) /\ UNCHANGED threadRow
    /\ UNCHANGED <<draft, world>>

\* An ignored conversation that is now watched becomes new.
Reopen(p) ==
    /\ pc[p] = "reopen"
    /\ \/ Touch("new") /\ AfterUpsert(p) /\ UNCHANGED failures
       \/ Outcome(FALSE) /\ Leave(p) /\ UNCHANGED threadRow
    /\ UNCHANGED <<draft, world>>

\* Mutant of QueuedThread: a conversation left half-way is not queued.
QueuedThreadFresh(s) == s \in {"new", "failed"}

\* queuedThread
QueuedThread(s) == s \in {"new", "failed", "classifying", "researching"}

\* processQueuedThreads takes up what Gmail no longer lists, as far as it is
\* among the fifty conversations that were updated last.
Queued == QueuedThread(thread) /\ ~crowded
ProcessQueued(p) ==
    /\ pc[p] = "queued"
    /\ \/ Queued /\ Goto(p, "classifying") /\ UNCHANGED failures
       \/ Outcome(~Queued) /\ Leave(p)
    /\ UNCHANGED <<rows, world>>

-----------------------------------------------------------------------------
(* processThread *)

MarkClassifying(p) ==
    /\ pc[p] = "classifying"
    /\ WriteThread("classifying")
    /\ Goto(p, "classify")
    /\ UNCHANGED <<draft, world>>

\* What the operator asked for or watches is never ignored.
Honoured(p) == job[p] = "reply" \/ watched[p]

\* The classifier fails, ignores the mail, hands it to research, or lets it
\* be drafted at once.
Classify(p) ==
    /\ pc[p] = "classify"
    /\ \/ WriteThread("failed") /\ Leave(p)
       \/ ~Honoured(p) /\ WriteThread("ignored") /\ Leave(p)
       \/ WriteThread("researching") /\ Goto(p, "draft")
       \/ Goto(p, "draft") /\ UNCHANGED <<threadRow, failures>>
    /\ UNCHANGED <<draft, world>>

\* The drafter or the statement fails, or the text replaces the draft of the
\* conversation, whatever has become of it.
UpsertDraft(p) ==
    /\ pc[p] = "draft"
    /\ \/ WriteThread("failed") /\ Leave(p) /\ UNCHANGED draft
       \/ /\ \E b \in Bodies : draft' = Draft("draft", b)
          /\ Goto(p, "ready")
          /\ UNCHANGED <<threadRow, failures>>
    /\ UNCHANGED world

DraftReady(p) ==
    /\ pc[p] = "ready"
    /\ WriteThread("draft_ready")
    /\ Leave(p)
    /\ UNCHANGED <<draft, world>>

-----------------------------------------------------------------------------
(* The human and the draft *)

\* UpdateDraft, ApproveSend and Reject read the draft and look at its status.
Allows(j) ==
    \/ j = "edit" /\ draft.status = "draft"
    \/ j = "approve" /\ draft.status \in {"draft", "approved"}
    \/ j = "reject" /\ draft.status \notin {"none", "sent"}

OwnedDraft(h, j) == Allows(j) /\ Start(h, j, j, FALSE, draft.body)

\* repository UpdateDraft stores every column of the row that was read.
StoreDraft(h, row, next) ==
    \/ draft' = row /\ UNCHANGED failures /\ next
    \/ Outcome(FALSE) /\ UNCHANGED draft /\ Leave(h)

UpdateDraft(h) ==
    /\ pc[h] = "edit"
    /\ \E b \in Bodies : StoreDraft(h, Draft("draft", b), Leave(h))
    /\ UNCHANGED <<threadRow, world>>

\* A mailbox that is no longer connected is refused before anything is written.
Approve(h) ==
    /\ pc[h] = "approve"
    /\ \/ StoreDraft(h, Draft("approved", text[h]), Goto(h, "send"))
       \/ Leave(h) /\ UNCHANGED <<draft, failures>>
    /\ UNCHANGED <<threadRow, world>>

\* The mail is accepted; it is accepted and the answer is lost; or there is
\* no access token, or Gmail refuses.
Send(h) ==
    /\ pc[h] = "send"
    /\ \/ sent' = sent \cup {text[h]} /\ Goto(h, "mark") /\ UNCHANGED failures
       \/ sent' = sent \cup {text[h]} /\ Leave(h) /\ Outcome(FALSE)
       \/ Leave(h) /\ UNCHANGED <<sent, failures>>
    /\ UNCHANGED <<rows, inbox, connected>>

\* Mutant of SentRow: only the status of the stored draft is set.
SentRowInPlace(h) == [draft EXCEPT !.status = "sent"]

\* The row ApproveSend stores once Gmail has accepted the mail.
SentRow(h) == Draft("sent", text[h])

MarkSent(h) ==
    /\ pc[h] = "mark"
    /\ StoreDraft(h, SentRow(h), Goto(h, "close"))
    /\ UNCHANGED <<threadRow, world>>

Reject(h) ==
    /\ pc[h] = "reject"
    /\ StoreDraft(h, Draft("rejected", text[h]), Goto(h, "close"))
    /\ UNCHANGED <<threadRow, world>>

\* Mutant of ThreadAfter: the status of the draft is used for its thread.
ThreadAfterApproved(j) == IF j = "approve" THEN "approved" ELSE "rejected"

\* The status of a conversation whose draft was sent or rejected.
ThreadAfter(j) == IF j = "approve" THEN "sent" ELSE "rejected"

CloseThread(h) ==
    /\ pc[h] = "close"
    /\ WriteThread(ThreadAfter(job[h]))
    /\ Leave(h)
    /\ UNCHANGED <<draft, world>>

-----------------------------------------------------------------------------
(* The mailbox and failures *)

\* A further mail of the conversation arrives.
NewMail ==
    /\ ~inbox
    /\ inbox' = TRUE
    /\ UNCHANGED <<rows, connected, sent, locals, failures>>

\* The last mail is seven days old, or the query no longer finds it.
AgeOut ==
    /\ inbox
    /\ inbox' = FALSE
    /\ UNCHANGED <<rows, connected, sent, locals, failures>>

\* Fifty other conversations are updated.
Crowd ==
    /\ thread # "none" /\ ~crowded
    /\ crowded' = TRUE
    /\ UNCHANGED <<thread, draft, world, locals, failures>>

\* Gmail no longer answers, or the grant is revoked and recordSyncFailure drops
\* the token.
Disconnect ==
    /\ connected
    /\ connected' = FALSE
    /\ UNCHANGED <<rows, inbox, sent, locals, failures>>

\* Gmail answers again, or the user has granted access again.
Reconnect ==
    /\ ~connected
    /\ connected' = TRUE
    /\ UNCHANGED <<rows, inbox, sent, locals, failures>>

\* A pod dies with the reconciler and the requests it runs.
Crash ==
    /\ failures < MaxFailures
    /\ failures' = failures + 1
    /\ \E P \in SUBSET Procs :
          /\ pc' = [p \in Procs |-> IF p \in P THEN "idle" ELSE pc[p]]
          /\ job' = [p \in Procs |-> IF p \in P THEN "none" ELSE job[p]]
          /\ watched' = [p \in Procs |-> IF p \in P THEN FALSE ELSE watched[p]]
          /\ text' = [p \in Procs |-> IF p \in P THEN NoBody ELSE text[p]]
    /\ UNCHANGED <<rows, world>>

-----------------------------------------------------------------------------
(* Specification *)

Step(p) ==
    \/ Ingest(p) \/ UpsertThread(p) \/ Reopen(p) \/ ProcessQueued(p)
    \/ MarkClassifying(p) \/ Classify(p) \/ UpsertDraft(p) \/ DraftReady(p)
    \/ UpdateDraft(p) \/ Approve(p) \/ Send(p) \/ MarkSent(p) \/ Reject(p)
    \/ CloseThread(p)

\* SyncNow and a reconciler share syncConnection.
User(h) ==
    \/ SyncConnection(h) \/ PullInbox(h) \/ DraftIgnored(h)
    \/ \E j \in {"edit", "approve", "reject"} : OwnedDraft(h, j)

Next ==
    \/ \E r \in Replicas : SyncConnection(r)
    \/ \E h \in Handlers : User(h)
    \/ \E p \in Procs : Step(p)
    \/ NewMail \/ AgeOut \/ Crowd \/ Disconnect \/ Reconnect \/ Crash

Spec == Init /\ [][Next]_vars

\* The tickers run, the lease of a dead sync runs out, and what was begun goes
\* on.  Users, Gmail and failures owe nothing.
Fairness ==
    /\ \A r \in Replicas : WF_vars(SyncConnection(r))
    /\ \A p \in Procs : WF_vars(Step(p))

FairSpec == Spec /\ Fairness

-----------------------------------------------------------------------------
(* Properties *)

\* The rows and the copies of them have the types of their columns; the
\* status of a conversation and that of its draft are different enumerations.
TypeOK ==
    /\ thread \in ThreadStates
    /\ draft \in Drafts
    /\ crowded \in BOOLEAN
    /\ inbox \in BOOLEAN
    /\ connected \in BOOLEAN
    /\ sent \subseteq Bodies \cup {NoBody}
    /\ pc \in [Procs -> Points]
    /\ job \in [Procs -> Jobs]
    /\ watched \in [Procs -> BOOLEAN]
    /\ text \in [Procs -> Bodies \cup {NoBody}]
    /\ failures \in 0..MaxFailures

\* The text of a sent draft is one Gmail has accepted.
SentTextIsTrue == draft.status = "sent" => draft.body \in sent

\* A draft recorded as sent holds the very text Gmail has accepted, although
\* other requests and a second sync edit, re-draft, approve and reject it
\* between the approval and the record (ApproveSend); a conversation is only
\* recorded as sent when a mail went out; and every mail that went out, of a
\* failed request too, had the text of a draft.
SentRecordIsTrue ==
    /\ SentTextIsTrue
    /\ thread = "sent" => sent # {}
    /\ sent \subseteq Bodies

Unfinished == thread \in {"new", "classifying", "researching"}

\* A conversation that was taken up, or left half-way by a crash or a failed
\* write, is classified in the end: processQueuedThreads finds it.  For that
\* the mailbox must be reachable and the conversation no longer listed by
\* Gmail from some time on (a sync passes over what it has just seen), and
\* fifty others must not be updated before it is found: what is behind those
\* is left as it is.
UnfinishedIsHandled ==
    <>[](connected /\ ~inbox) => (Unfinished ~> ~Unfinished \/ crowded)
=============================================================================
