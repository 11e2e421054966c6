------------------------------ MODULE ChatRun -------------------------------
(***************************************************************************)
(* Generations of the assistant (assistant/chat.py): a send claims its     *)
(* conversation with a GenerationRun row, streams the provider's reply and *)
(* gives the run one verdict, while other requests cancel it, expire it,   *)
(* retry it, delete its conversation or revoke the session, and while the  *)
(* worker may crash and the database may fail.                             *)
(*                                                                         *)
(* A request is a process whose steps are its database accesses; what an   *)
(* atomic block writes is one step.  Simplifications:                      *)
(*  - Every request belongs to one user and repeats the payload of its run *)
(*    id; the account being ready and the session being valid are one flag *)
(*    that can be revoked.                                                 *)
(*  - A reply is counted in chunks, and MAX_OUTPUT_CHARS is MaxChunks.     *)
(*  - The cancellation token is left out: it only shortens a blocked read, *)
(*    and a read may fail at any time here.                                *)
(*  - The clock of a run row and of its stream, started a moment apart,    *)
(*    pass MAX_RUN_SECONDS together.                                       *)
(***************************************************************************)
EXTENDS Naturals, Sequences, FiniteSets

CONSTANTS Requests,        \* HTTP requests that send a message
          RunIds,          \* request_id values, the primary keys of runs
          Conversations,
          RunOf, ConversationOf,   \* what each request asks for
          MaxChunks,       \* MAX_OUTPUT_CHARS
          None

ASSUME ChatAssumption ==
    /\ RunOf \in [Requests -> RunIds]
    /\ ConversationOf \in [Requests -> Conversations]
    /\ MaxChunks \in Nat \ {0}

Statuses == {"running", "completed", "failed", "cancelled"}
Verdicts == Statuses \ {"running"}

\* The page draws a fresh id for each send (static/js/assistant-chat.js), so a
\* request that repeats an id repeats the send, in the same conversation.
RepeatsKeepConversation ==
    \A p, q \in Requests : RunOf[p] = RunOf[q] => ConversationOf[p] = ConversationOf[q]

\* A GenerationRun row; output is the length of its output message, 0 for none.
Run == [conversation : Conversations, status : Statuses, output : 0 .. MaxChunks]
ASSUME NoneAssumption == None \notin Run

Active == {"new", "expire", "lookup", "prepare", "create", "conflict", "opened", "check",
           "read", "tool", "recheck", "emit", "finish", "refinish", "closing",
           "replay", "replayEnd"}
Final == {"ended", "refused", "crashed"}

\* The run of the request is claimed and its stream is at work.
Streaming == {"opened", "check", "read", "tool", "recheck", "emit",
              "finish", "refinish", "closing"}

VARIABLES
    runs,           \* GenerationRun rows
    transcript,     \* Message rows of each conversation, in order of creation
    proposals,      \* ActionProposal rows of each run: none, unattached, attached
    conversations,  \* the conversations that exist
    overdue,        \* runs older than MAX_RUN_SECONDS
    authorized,     \* the session and the provider account are still good
    pc,             \* where each request is
    output,         \* the text its stream has gathered
    reply,          \* the provider event it has read
    verdict,        \* the verdict it is about to record
    replayed,       \* the run row a repeated send is answered from
    shown,          \* the chunks its client has been sent
    outcome,        \* the last event of its client: none, done, error
    late,           \* history: chunks sent after the run stopped running
    met             \* history: the stale runs a send found on arrival

rowVars == <<runs, transcript, proposals, conversations>>
streamVars == <<output, reply, verdict, replayed>>
clientVars == <<shown, outcome, late, met>>
vars == <<rowVars, overdue, authorized, pc, streamVars, clientVars>>
-----------------------------------------------------------------------------
Running(r) == runs[r] # None /\ runs[r].status = "running"

\* RunStream._authorized: the database row is the authority on cancellation.
Authorized(q) == Running(RunOf[q]) /\ authorized

Goto(q, label) == pc' = [pc EXCEPT ![q] = label]

\* The request is over and its stream with it.
Leave(q, label) ==
    /\ Goto(q, label)
    /\ output' = [output EXCEPT ![q] = 0]
    /\ reply' = [reply EXCEPT ![q] = "none"]
    /\ verdict' = [verdict EXCEPT ![q] = "failed"]
    /\ replayed' = [replayed EXCEPT ![q] = None]

\* Stop a stream with a verdict still to be recorded.
Conclude(q, how, label) ==
    /\ verdict' = [verdict EXCEPT ![q] = how]
    /\ Goto(q, label)

Init ==
    /\ runs = [r \in RunIds |-> None]
    /\ transcript = [c \in Conversations |-> <<>>]
    /\ proposals = [r \in RunIds |-> "none"]
    /\ conversations = Conversations
    /\ overdue = {}
    /\ authorized = TRUE
    /\ pc = [q \in Requests |-> "new"]
    /\ output = [q \in Requests |-> 0]
    /\ reply = [q \in Requests |-> "none"]
    /\ verdict = [q \in Requests |-> "failed"]
    /\ replayed = [q \in Requests |-> None]
    /\ shown = [q \in Requests |-> 0]
    /\ outcome = [q \in Requests |-> "none"]
    /\ late = [q \in Requests |-> 0]
    /\ met = [q \in Requests |-> {}]
-----------------------------------------------------------------------------
(* start_run                                                               *)

Occupies(r, c) == Running(r) /\ runs[r].conversation = c

\* Mutant of StaleRuns: any run in the way, whatever its age.
RunsInTheWay(c) == {r \in RunIds : Occupies(r, c)}

StaleRuns(c) == {r \in overdue : Occupies(r, c)}

\* _expire_stale_runs first reads which runs are stale ...
Arrive(q) ==
    /\ pc[q] = "new"
    /\ ConversationOf[q] \in conversations
    /\ Goto(q, IF StaleRuns(ConversationOf[q]) = {} THEN "lookup" ELSE "expire")
    /\ met' = [met EXCEPT ![q] = {r \in overdue : Occupies(r, ConversationOf[q])}]
    /\ UNCHANGED <<rowVars, overdue, authorized, streamVars, shown, outcome, late>>

\* ... and then fails those that still are.
Expire(q) ==
    /\ pc[q] = "expire"
    /\ runs' = [r \in RunIds |-> IF r \in StaleRuns(ConversationOf[q])
                                 THEN [runs[r] EXCEPT !.status = "failed"] ELSE runs[r]]
    /\ Goto(q, "lookup")
    /\ UNCHANGED <<transcript, proposals, conversations, overdue, authorized,
                   streamVars, clientVars>>

\* _existing, before the claim and again after it lost to another request.
Lookup(q) ==
    LET row == runs[RunOf[q]]
        mismatched == row # None /\ row.conversation # ConversationOf[q]
    IN  /\ pc[q] \in {"lookup", "conflict"}
        /\ IF row = None
           THEN /\ Goto(q, IF pc[q] = "lookup" THEN "prepare" ELSE "refused")
                /\ UNCHANGED replayed
           ELSE IF mismatched \/ Running(RunOf[q])
           THEN Goto(q, "refused") /\ UNCHANGED replayed
           ELSE Goto(q, "replay") /\ replayed' = [replayed EXCEPT ![q] = row]
        /\ UNCHANGED <<rowVars, overdue, authorized, output, reply, verdict, clientVars>>

\* Account, model and context are read outside any transaction; each may refuse.
Prepare(q) ==
    /\ pc[q] = "prepare"
    /\ \/ authorized /\ Goto(q, "create")
       \/ Goto(q, "refused")
    /\ UNCHANGED <<rowVars, overdue, authorized, streamVars, clientVars>>

\* Mutant of ClaimIsFree: only the key of the run is unique.
KeyIsFree(q) == runs[RunOf[q]] = None

\* Mutant of ClaimIsFree: only the conversation must be free.
ConversationIsFree(q) == \A r \in RunIds : ~Occupies(r, ConversationOf[q])

\* The unique constraints of the run table: its key, one running per conversation.
ClaimIsFree(q) ==
    /\ runs[RunOf[q]] = None
    /\ \A r \in RunIds : ~Occupies(r, ConversationOf[q])

\* The message and the run that claims the conversation, or an IntegrityError.
Create(q) ==
    LET r == RunOf[q]  c == ConversationOf[q]
    IN  /\ pc[q] = "create"
        /\ IF ClaimIsFree(q) /\ c \in conversations
           THEN /\ runs' = [runs EXCEPT ![r] =
                        [conversation |-> c, status |-> "running", output |-> 0]]
                /\ transcript' = [transcript EXCEPT ![c] =
                        Append(@, [run |-> r, role |-> "user"])]
                /\ overdue' = overdue \ {r}
                /\ Goto(q, "opened")
           ELSE Goto(q, "conflict") /\ UNCHANGED <<runs, transcript, overdue>>
        /\ UNCHANGED <<proposals, conversations, authorized, streamVars, clientVars>>
-----------------------------------------------------------------------------
(* RunStream                                                               *)

\* Mutant of Guarded: the run and the session are not looked up again.
GuardedByTime(q, label) ==
    IF RunOf[q] \in overdue THEN Conclude(q, "failed", "finish")
    ELSE Goto(q, label) /\ UNCHANGED verdict

\* The checks around every provider read: still running and allowed, in time.
Guarded(q, label) ==
    IF ~Authorized(q) THEN Conclude(q, "cancelled", "finish")
    ELSE IF RunOf[q] \in overdue THEN Conclude(q, "failed", "finish")
    ELSE Goto(q, label) /\ UNCHANGED verdict

\* Before the first event only the authorization is checked; then meta is sent.
Open(q) ==
    /\ pc[q] = "opened"
    /\ IF Authorized(q) THEN Goto(q, "check") /\ UNCHANGED verdict
       ELSE Conclude(q, "cancelled", "finish")
    /\ UNCHANGED <<rowVars, overdue, authorized, output, reply, replayed, clientVars>>

Check(q) ==
    /\ pc[q] = "check"
    /\ Guarded(q, "read")
    /\ UNCHANGED <<rowVars, overdue, authorized, output, reply, replayed, clientVars>>

\* The blocking read: an event, the end of the iterator, or an exception.
Read(q) ==
    /\ pc[q] = "read"
    /\ \/ /\ \E event \in {"text", "done", "error"} : reply' = [reply EXCEPT ![q] = event]
          /\ Goto(q, "recheck")
          /\ UNCHANGED verdict
       \/ /\ \E label \in {"finish", "refinish"} : Conclude(q, "failed", label)
          /\ UNCHANGED reply
    /\ UNCHANGED <<rowVars, overdue, authorized, output, replayed, clientVars>>

\* Mutant of CallTool: the callback does not look at the deadline.
CallToolUntimed(q) ==
    /\ pc[q] = "read"
    /\ IF Authorized(q) THEN Goto(q, "tool") /\ UNCHANGED reply
       ELSE Goto(q, "recheck") /\ reply' = [reply EXCEPT ![q] = "error"]
    /\ UNCHANGED <<rowVars, overdue, authorized, output, verdict, replayed, clientVars>>

\* RunStream._tool, called back during the read; refused, it ends the read.
CallTool(q) ==
    /\ pc[q] = "read"
    /\ IF Authorized(q) /\ RunOf[q] \notin overdue
       THEN Goto(q, "tool") /\ UNCHANGED reply
       ELSE Goto(q, "recheck") /\ reply' = [reply EXCEPT ![q] = "error"]
    /\ UNCHANGED <<rowVars, overdue, authorized, output, verdict, replayed, clientVars>>

\* prepare_action may store a proposal of the run, which by then may have been
\* stopped, but not deleted.  Other tools only read.
RunTool(q) ==
    LET r == RunOf[q]
    IN  /\ pc[q] = "tool"
        /\ \/ UNCHANGED proposals
           \/ /\ runs[r] # None /\ runs[r].conversation = ConversationOf[q]
              /\ proposals' = [proposals EXCEPT ![r] = "unattached"]
        /\ IF Authorized(q) THEN Goto(q, "read") /\ UNCHANGED reply
           ELSE Goto(q, "recheck") /\ reply' = [reply EXCEPT ![q] = "error"]
        /\ UNCHANGED <<runs, transcript, conversations, overdue, authorized, output,
                       verdict, replayed, clientVars>>

\* Mutant of Fits: one chunk too many.
FitsOneMore(q) == output[q] <= MaxChunks

Fits(q) == output[q] < MaxChunks

\* After the read, what its event leads to.
Recheck(q) ==
    LET continues == reply[q] = "text" /\ Fits(q)
        completes == reply[q] = "done" /\ output[q] > 0
    IN  /\ pc[q] = "recheck"
        /\ IF ~Authorized(q) \/ RunOf[q] \in overdue THEN Guarded(q, "emit")
           ELSE IF continues THEN Goto(q, "emit") /\ UNCHANGED verdict
           ELSE Conclude(q, IF completes THEN "completed" ELSE "failed", "finish")
        /\ reply' = [reply EXCEPT ![q] = "none"]
        /\ UNCHANGED <<rowVars, overdue, authorized, output, replayed, clientVars>>

Emit(q) ==
    /\ pc[q] = "emit"
    /\ output' = [output EXCEPT ![q] = @ + 1]
    /\ shown' = [shown EXCEPT ![q] = @ + 1]
    /\ late' = [late EXCEPT ![q] = IF Running(RunOf[q]) THEN @ ELSE @ + 1]
    /\ Goto(q, "check")
    /\ UNCHANGED <<rowVars, overdue, authorized, reply, verdict, replayed, outcome, met>>

\* Mutant of Concluded: the verdict is recorded whatever the status is.
ConcludedAnyway(q) == [runs[RunOf[q]] EXCEPT !.status = verdict[q], !.output = output[q]]

\* The row after _finish: only a running one takes the verdict; the text that
\* was gathered becomes its output message.
Concluded(q) ==
    LET row == runs[RunOf[q]]
    IN  [row EXCEPT !.status = IF @ = "running" THEN verdict[q] ELSE @,
                    !.output = IF @ = 0 THEN output[q] ELSE @]

\* Mutant of Attaches: a reply that was stopped attaches its proposals too.
AttachesAnyReply(row) == row.output > 0

Attaches(row) == row.status = "completed" /\ row.output > 0

\* The atomic block of _finish; a deleted run leaves nothing to write.
Settle(q) ==
    LET r == RunOf[q]
        row == Concluded(q)
        answers == output[q] > 0 /\ runs[r].output = 0
    IN  IF runs[r] = None THEN UNCHANGED <<runs, transcript, proposals>>
        ELSE /\ runs' = [runs EXCEPT ![r] = row]
             /\ transcript' = IF answers
                    THEN [transcript EXCEPT ![row.conversation] =
                              Append(@, [run |-> r, role |-> "assistant"])]
                    ELSE transcript
             /\ proposals' = IF Attaches(row) /\ proposals[r] = "unattached"
                    THEN [proposals EXCEPT ![r] = "attached"] ELSE proposals

\* Mutant of Reports: done is sent when the provider said so.
ReportsTheProvider(q) == IF verdict[q] = "completed" THEN "done" ELSE "error"

\* The last event: done only if this verdict is the one that was recorded.
Reports(q) ==
    IF verdict[q] = "completed" /\ Running(RunOf[q]) THEN "done" ELSE "error"

Finish(q) ==
    /\ pc[q] \in {"finish", "refinish"}
    /\ Settle(q)
    /\ outcome' = [outcome EXCEPT ![q] = Reports(q)]
    /\ Leave(q, "ended")
    /\ UNCHANGED <<conversations, overdue, authorized, shown, late, met>>

\* The client goes away while the stream waits at a yield, perhaps the first.
Disconnect(q) ==
    /\ pc[q] \in {"opened", "check"}
    /\ Conclude(q, "cancelled", "closing")
    /\ UNCHANGED <<rowVars, overdue, authorized, output, reply, replayed, clientVars>>

\* RunStream.close, and the GeneratorExit handler, record the cancellation.
CloseStream(q) ==
    /\ pc[q] = "closing"
    /\ Settle(q)
    /\ Leave(q, "ended")
    /\ UNCHANGED <<conversations, overdue, authorized, clientVars>>

\* The database fails.  The stream tries to record a failure, then once more
\* when it is closed, and then gives up.
StorageFails(q) ==
    /\ \/ /\ pc[q] \in {"opened", "check", "recheck", "finish"}
          /\ Conclude(q, "failed", "refinish")
          /\ UNCHANGED <<output, reply, replayed, outcome>>
       \/ /\ pc[q] = "refinish"
          /\ Conclude(q, "cancelled", "closing")
          /\ outcome' = [outcome EXCEPT ![q] = "error"]
          /\ UNCHANGED <<output, reply, replayed>>
       \/ /\ pc[q] = "closing"
          /\ Leave(q, "ended")
          /\ UNCHANGED outcome
       \/ /\ pc[q] \in {"new", "expire", "lookup", "create", "conflict"}
          /\ Leave(q, "refused")
          /\ UNCHANGED outcome
    /\ UNCHANGED <<rowVars, overdue, authorized, shown, late, met>>

\* The worker dies: nothing more is written for this request.
Crash(q) ==
    /\ pc[q] \in Active \ {"new"}
    /\ Leave(q, "crashed")
    /\ UNCHANGED <<rowVars, overdue, authorized, clientVars>>
-----------------------------------------------------------------------------
(* ReplayStream: a repeated send is answered from the run it repeats.      *)

MayReplay(q) == authorized /\ ConversationOf[q] \in conversations

Replay(q) ==
    /\ pc[q] = "replay"
    /\ IF MayReplay(q)
       THEN /\ shown' = [shown EXCEPT ![q] = replayed[q].output]
            /\ Goto(q, "replayEnd")
            /\ UNCHANGED <<streamVars, outcome>>
       ELSE /\ outcome' = [outcome EXCEPT ![q] = "error"]
            /\ Leave(q, "ended")
            /\ UNCHANGED shown
    /\ UNCHANGED <<rowVars, overdue, authorized, late, met>>

ReplayEnd(q) ==
    /\ pc[q] = "replayEnd"
    /\ outcome' = [outcome EXCEPT ![q] =
           IF MayReplay(q) /\ replayed[q].status = "completed" THEN "done" ELSE "error"]
    /\ Leave(q, "ended")
    /\ UNCHANGED <<rowVars, overdue, authorized, shown, late, met>>
-----------------------------------------------------------------------------
(* Other requests and the passage of time.                                 *)

\* cancel_run
Cancel(r) ==
    /\ Running(r) /\ authorized
    /\ runs' = [runs EXCEPT ![r].status = "cancelled"]
    /\ UNCHANGED <<transcript, proposals, conversations, overdue, authorized, pc,
                   streamVars, clientVars>>

\* The delete view; runs, messages and proposals cascade.
DeleteConversation(c) ==
    LET gone == {r \in RunIds : runs[r] # None /\ runs[r].conversation = c}
    IN  /\ c \in conversations
        /\ conversations' = conversations \ {c}
        /\ runs' = [r \in RunIds |-> IF r \in gone THEN None ELSE runs[r]]
        /\ proposals' = [r \in RunIds |-> IF r \in gone THEN "none" ELSE proposals[r]]
        /\ transcript' = [transcript EXCEPT ![c] = <<>>]
        /\ UNCHANGED <<overdue, authorized, pc, streamVars, clientVars>>

\* The user logs out, or the provider account is disconnected.
Revoke ==
    /\ authorized
    /\ authorized' = FALSE
    /\ UNCHANGED <<rowVars, overdue, pc, streamVars, clientVars>>

\* MAX_RUN_SECONDS pass after a run was created.
PassDeadline(r) ==
    /\ Running(r) /\ r \notin overdue
    /\ overdue' = overdue \union {r}
    /\ UNCHANGED <<rowVars, authorized, pc, streamVars, clientVars>>

\* What the thread serving a request does as long as it lives.
Step(q) ==
    \/ Arrive(q) \/ Expire(q) \/ Lookup(q) \/ Prepare(q) \/ Create(q)
    \/ Open(q) \/ Check(q) \/ Read(q) \/ CallTool(q) \/ RunTool(q) \/ Recheck(q) \/ Emit(q)
    \/ Finish(q) \/ CloseStream(q) \/ Replay(q) \/ ReplayEnd(q)

Next ==
    \/ \E q \in Requests : Step(q) \/ Disconnect(q) \/ StorageFails(q) \/ Crash(q)
    \/ \E r \in RunIds : Cancel(r) \/ PassDeadline(r)
    \/ \E c \in Conversations : DeleteConversation(c)
    \/ Revoke

Spec == Init /\ [][Next]_vars

\* The server keeps serving the requests it has accepted, provider reads are
\* bounded, and time passes.  Nothing obliges users to act or things to fail.
Fairness ==
    /\ \A q \in Requests : WF_vars(Step(q) /\ pc[q] # "new")
    /\ \A r \in RunIds : WF_vars(PassDeadline(r))

FairSpec == Spec /\ Fairness
-----------------------------------------------------------------------------
(* Properties                                                              *)

RowsOK ==
    /\ runs \in [RunIds -> Run \union {None}]
    /\ transcript \in [Conversations ->
           Seq([run : RunIds, role : {"user", "assistant"}])]
    /\ proposals \in [RunIds -> {"none", "unattached", "attached"}]
    /\ conversations \subseteq Conversations
    /\ overdue \subseteq RunIds
    /\ authorized \in BOOLEAN

StreamsOK ==
    /\ pc \in [Requests -> Active \union Final]
    /\ output \in [Requests -> 0 .. MaxChunks]
    /\ reply \in [Requests -> {"none", "text", "done", "error"}]
    /\ verdict \in [Requests -> Verdicts]
    /\ replayed \in [Requests -> Run \union {None}]

ClientsOK ==
    /\ shown \in [Requests -> 0 .. MaxChunks]
    /\ outcome \in [Requests -> {"none", "done", "error"}]
    /\ late \in [Requests -> Nat]
    /\ met \in [Requests -> SUBSET RunIds]

\* The shape of the state: rows, streams, clients.
TypeOK == RowsOK /\ StreamsOK /\ ClientsOK

\* The first verdict on a run stands: whichever of the stream, a cancel and an
\* expiry writes first, no later one changes the status while the row exists.
VerdictsAreFinal ==
    [][\A r \in RunIds :
          runs[r] # None /\ runs[r].status # "running" /\ runs'[r] # None
          => runs'[r].status = runs[r].status]_vars

\* A client that is told "done" was shown all of a reply that is stored as
\* completed: no cancel, expiry or revocation overtook it, nothing is missing.
DoneMeansWholeReply ==
    \A q \in Requests : outcome[q] = "done" =>
        /\ shown[q] > 0
        /\ runs[RunOf[q]] # None =>
               /\ runs[RunOf[q]].status = "completed"
               /\ runs[RunOf[q]].output = shown[q]

\* After a run is cancelled, expired or deleted its stream lets at most the one
\* chunk through that it had already cleared to send.
StopTakesEffect == \A q \in Requests : late[q] <= 1

\* A proposal can be reviewed (it hangs on a reply) only if its run completed
\* with a reply; a run that was stopped half way leaves nothing to confirm, and
\* a completed one leaves no proposal out.
ReviewableOnlyWhenCompleted ==
    \A r \in RunIds :
        /\ proposals[r] = "attached" =>
               runs[r] # None /\ runs[r].status = "completed" /\ runs[r].output > 0
        /\ runs[r] # None /\ runs[r].status = "completed" => proposals[r] # "unattached"

OfCompleted(m) == runs[m.run] # None /\ runs[m.run].status = "completed"

\* What _history gives the next request, by the place in the transcript.
Turns(c) == {i \in DOMAIN transcript[c] : OfCompleted(transcript[c][i])}

IsAnsweredBy(c, i, j) ==
    /\ i < j /\ transcript[c][i].role = "user"
    /\ transcript[c][j] = [run |-> transcript[c][i].run, role |-> "assistant"]
    /\ \A k \in Turns(c) : ~(i < k /\ k < j)

\* The turns of completed runs strictly alternate, each question directly
\* followed by its own answer, although stopped runs may write their partial
\* replies late and in between.
CompletedTurnsAlternate ==
    \A c \in Conversations : \A i \in Turns(c) :
        \E j \in Turns(c) : IsAnsweredBy(c, i, j) \/ IsAnsweredBy(c, j, i)

MessagesOf(r, role) ==
    UNION {{<<c, i>> : i \in {j \in DOMAIN transcript[c] :
                                 transcript[c][j] = [run |-> r, role |-> role]}}
           : c \in Conversations}

\* However often a send is repeated, and however often its end is recorded, its
\* run has one question, and one reply exactly if text was stored.
OneTurnPerRun ==
    \A r \in RunIds :
        /\ Cardinality(MessagesOf(r, "user")) = (IF runs[r] = None THEN 0 ELSE 1)
        /\ Cardinality(MessagesOf(r, "assistant")) =
              (IF runs[r] # None /\ runs[r].output > 0 THEN 1 ELSE 0)

\* A process exit cannot leave a conversation permanently occupied: past the
\* expiry step of a send, no run that was stale when it arrived still occupies
\* its conversation.
StaleRunsMakeWay ==
    \A q \in Requests : pc[q] \notin {"new", "expire", "crashed", "refused"} =>
        \A r \in met[q] : r \in overdue => ~Occupies(r, ConversationOf[q])

\* ... and a run whose stream is at work and in time is stopped by nobody but its
\* user, whoever clears the conversation of stale runs beside it.
LiveRunsAreLeftAlone ==
    \A q \in Requests :
        pc[q] \in Streaming /\ RunOf[q] \notin overdue /\ runs[RunOf[q]] # None =>
            runs[RunOf[q]].status \in {"running", "cancelled"}

\* Every accepted send ends, even when the provider keeps calling tools: the
\* deadline bounds it.
EverySendEnds == \A q \in Requests : pc[q] = "lookup" ~> pc[q] \in Final

\* What a run says of itself holds, however its stream, a cancel, an expiry and
\* the next send overtake one another.
RunsKeepTheirWord ==
    /\ StopTakesEffect
    /\ ReviewableOnlyWhenCompleted
    /\ StaleRunsMakeWay
    /\ LiveRunsAreLeftAlone
=============================================================================
