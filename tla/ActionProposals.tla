--------------------------- MODULE ActionProposals ---------------------------
(***************************************************************************)
(* Actions the assistant proposes (assistant/action_service.py): a tool    *)
(* call of a running reply prepares a proposal by reading the user's       *)
(* records outside any transaction; the user later confirms or discards it *)
(* from any number of tabs, while the records are edited elsewhere, the    *)
(* proposal expires and the conversation may be deleted.                   *)
(*                                                                         *)
(* Simplifications:                                                        *)
(*  - One user, one session, one conversation.  The request identity of a  *)
(*    proposal is its key here: preparing it again returns the stored one. *)
(*  - The state of a record is a revision number: every save writes all of *)
(*    it with a new updated_at, and no primary key is used twice.          *)
(*  - An atomic block is one step, because the database serializes writers *)
(*    from their first statement (core/settings.py); a claimed row in      *)
(*    "executing" is therefore never seen by anyone.                       *)
(*  - A row that a validation reads twice is read once here: two readings   *)
(*    that differ make a digest no confirmation can match.                 *)
(*  - Parameters, forms and what they reject are left out; a form that     *)
(*    rejects is a confirmation that fails.                                *)
(*  - A source whose schedule is beyond the projection limit is legacy     *)
(*    data: forms only let such a source be repaired or deleted.           *)
(***************************************************************************)
EXTENDS Naturals

CONSTANTS Sources,       \* Transaction rows
          References,    \* categories, accounts, banks and cards
          Proposals,
          DependsOn,     \* the rows whose state the digest of a proposal covers
          Effect,        \* the action; goals and budgets are "other"
          Source,        \* the transaction it writes or deletes, or None
          RunOf, Runs,   \* the generation that proposes it
          Confirms, Cancels,   \* requests of the user
          TargetOf,            \* the proposal each of them is about
          Gone, Unread, None,
          MaxRevision    \* bound: revisions explored of each row

Rows == Sources \union References
Requests == Confirms \union Cancels
Revisions == Nat \union {Gone}
Effects == {"create", "update", "categorize", "delete", "other"}

ASSUME ProposalAssumption ==
    /\ DependsOn \in [Proposals -> SUBSET Rows]
    /\ Effect \in [Proposals -> Effects]
    /\ Source \in [Proposals -> Sources \union {None}]
    /\ \A p \in Proposals : IF Effect[p] \in {"update", "categorize", "delete"}
                            THEN Source[p] \in DependsOn[p] ELSE Source[p] = None
    /\ RunOf \in [Proposals -> Runs]
    /\ TargetOf \in [Requests -> Proposals]
ASSUME DistinctAssumption ==
    /\ Confirms \intersect Cancels = {} /\ Sources \intersect References = {}
    /\ Gone \notin Nat /\ Unread \notin Nat \union {Gone} /\ None \notin Rows
    /\ MaxRevision \in Nat

VARIABLES
    world,         \* the state of each row
    excessive,     \* the sources whose schedule is beyond the projection limit
    synced,        \* the ledger was reconciled with the sources as they are
    conversation,  \* it exists
    runs,          \* GenerationRun.status
    preparing,     \* how far the preparation of each proposal is
    digest,        \* dependency_digest: the revisions read for it, row by row
    shown,         \* the revisions the summary was rendered from
    status,        \* ActionProposal.status; absent before, deleted after
    expired,       \* the proposals past expires_at
    pc,            \* where each request is
    answer,        \* what it told the user
    applied        \* history: how often each proposal took effect

ledgerVars == <<world, excessive, synced>>
chatVars == <<conversation, runs>>
reviewVars == <<preparing, digest, shown>>
requestVars == <<pc, answer>>
vars == <<ledgerVars, chatVars, reviewVars, status, expired, requestVars, applied>>

Init ==
    /\ world = [r \in Rows |-> 0]
    /\ excessive \in SUBSET Sources
    /\ synced = (excessive = {})
    /\ conversation = TRUE
    /\ runs = [r \in Runs |-> "running"]
    /\ preparing = [p \in Proposals |-> "idle"]
    /\ digest = [p \in Proposals |-> [r \in Rows |-> Unread]]
    /\ shown = [p \in Proposals |-> [r \in Rows |-> Unread]]
    /\ status = [p \in Proposals |-> "absent"]
    /\ expired = {}
    /\ pc = [q \in Requests |-> "new"]
    /\ answer = [q \in Requests |-> "none"]
    /\ applied = [p \in Proposals |-> 0]
-----------------------------------------------------------------------------
(* prepare_action                                                          *)

Begin(p) ==
    /\ preparing[p] = "idle" /\ status[p] = "absent"
    /\ conversation /\ runs[RunOf[p]] \in {"running", "completed"}
    /\ preparing' = [preparing EXCEPT ![p] = "reading"]
    /\ UNCHANGED <<ledgerVars, chatVars, digest, shown, status, expired, requestVars, applied>>

\* Mutant of Found: a missing row is not refused.
FoundOrNot(r) == TRUE

\* A row the reference resolves to, or the proposal is refused.
Found(r) == world[r] # Gone

Refuse(p) ==
    /\ preparing' = [preparing EXCEPT ![p] = "refused"]
    /\ digest' = [digest EXCEPT ![p] = [r \in Rows |-> Unread]]
    /\ shown' = [shown EXCEPT ![p] = [r \in Rows |-> Unread]]

\* _validate reads the rows one after another; their state goes into the digest.
ReadRow(p, r) ==
    /\ preparing[p] = "reading" /\ r \in DependsOn[p] /\ digest[p][r] = Unread
    /\ IF Found(r)
       THEN digest' = [digest EXCEPT ![p][r] = world[r]] /\ UNCHANGED <<preparing, shown>>
       ELSE Refuse(p)
    /\ UNCHANGED <<ledgerVars, chatVars, status, expired, requestVars, applied>>

\* Mutant of MayRender: rows are shown before they are read for the digest.
MayRenderAnytime(p) == TRUE

MayRender(p) == \A r \in DependsOn[p] : digest[p][r] # Unread

\* Binding the form fetches rows again, and the summary shows these or the ones
\* at hand.
RenderRow(p, r) ==
    /\ preparing[p] = "reading" /\ MayRender(p)
    /\ r \in DependsOn[p] /\ shown[p][r] = Unread
    /\ \/ /\ digest[p][r] # Unread
          /\ shown' = [shown EXCEPT ![p][r] = digest[p][r]]
          /\ UNCHANGED <<preparing, digest>>
       \/ /\ Found(r)
          /\ shown' = [shown EXCEPT ![p][r] = world[r]]
          /\ UNCHANGED <<preparing, digest>>
       \/ ~Found(r) /\ Refuse(p)
    /\ UNCHANGED <<ledgerVars, chatVars, status, expired, requestVars, applied>>

\* The proposal is stored, whatever became of its run, unless that is deleted.
Store(p) ==
    /\ preparing[p] = "reading"
    /\ \A r \in DependsOn[p] : digest[p][r] # Unread /\ shown[p][r] # Unread
    /\ IF conversation
       THEN /\ status' = [status EXCEPT ![p] = "pending"]
            /\ preparing' = [preparing EXCEPT ![p] = "stored"]
            /\ UNCHANGED <<digest, shown>>
       ELSE Refuse(p) /\ UNCHANGED status
    /\ UNCHANGED <<ledgerVars, chatVars, expired, requestVars, applied>>
-----------------------------------------------------------------------------
(* What a change of the sources does to the ledger.                        *)

Writes(p) == {Source[p]} \ {None}

\* Mutant of SyncedAfter: a ledger that was blocked is left to the next page.
SyncedLater(left) == left = {} /\ synced

\* sync_user_ledger reconciles everything or, past the limit, nothing.
SyncedAfter(left) == left = {}

\* Mutant of Tolerated: the limit never refuses a change.
AlwaysTolerated(changed, left) == TRUE

\* The limit refuses a change unless it repairs one of the excessive sources.
Tolerated(changed, left) == left = {} \/ changed \intersect excessive # {}

\* A revision is written, or the row deleted.
Write(rows, how) ==
    world' = [r \in Rows |-> IF r \in rows
                             THEN IF how = "delete" THEN Gone ELSE world[r] + 1
                             ELSE world[r]]
-----------------------------------------------------------------------------
(* confirm_action and cancel_action                                        *)

Answer(q, what) ==
    /\ pc' = [pc EXCEPT ![q] = "done"]
    /\ answer' = [answer EXCEPT ![q] = what]

Reply(q, what) ==
    /\ Answer(q, what)
    /\ UNCHANGED <<ledgerVars, chatVars, reviewVars, status, expired, applied>>

RunCompleted(p) == conversation /\ runs[RunOf[p]] = "completed"

\* The checks before the transaction.
Look(q) ==
    LET p == TargetOf[q]
    IN  /\ q \in Confirms /\ pc[q] = "new"
        /\ \/ /\ RunCompleted(p) /\ status[p] = "executed"
              /\ Reply(q, "executed")
           \/ /\ RunCompleted(p) /\ status[p] = "pending" /\ p \notin expired
              /\ pc' = [pc EXCEPT ![q] = "claim"]
              /\ UNCHANGED <<ledgerVars, chatVars, reviewVars, status, expired, answer, applied>>
           \/ /\ \/ ~RunCompleted(p) \/ status[p] \notin {"pending", "executed"}
                 \/ status[p] = "pending" /\ p \in expired
              /\ Reply(q, "refused")

\* Mutant of Claims: the earlier check of the status is relied upon.
ClaimsUnchecked(p) == conversation /\ p \notin expired

\* The conditional update that claims the row.
Claims(p) == status[p] = "pending" /\ p \notin expired

\* Mutant of Unchanged: only the transaction itself is compared.
SourceUnchanged(p) == \A r \in Writes(p) : world[r] = digest[p][r]

\* The digest computed again from the rows as they are.
Unchanged(p) == \A r \in DependsOn[p] : world[r] = digest[p][r]

Executes(p) ==
    LET left == excessive \ Writes(p)
    IN  /\ Claims(p) /\ RunCompleted(p) /\ Unchanged(p)
        /\ \/ Effect[p] = "other" \/ left = {}
           \/ Effect[p] \in {"update", "delete"} /\ Tolerated(Writes(p), left)

\* The atomic block: everything, or nothing and the proposal stays pending.
Apply(q) ==
    LET p == TargetOf[q]  left == excessive \ Writes(p)
    IN  /\ q \in Confirms /\ pc[q] = "claim"
        /\ \/ /\ Executes(p)
              /\ Write(Writes(p), Effect[p])
              /\ excessive' = left
              /\ synced' = IF Effect[p] = "other" THEN synced ELSE SyncedAfter(left)
              /\ status' = [status EXCEPT ![p] = "executed"]
              /\ applied' = [applied EXCEPT ![p] = @ + 1]
              /\ Answer(q, "executed")
              /\ UNCHANGED <<chatVars, reviewVars, expired>>
           \/ Reply(q, "refused")

\* cancel_action: a discarded proposal is discarded again without a write ...
LookToCancel(q) ==
    LET p == TargetOf[q]
    IN  /\ q \in Cancels /\ pc[q] = "new"
        /\ \/ status[p] = "cancelled" /\ Reply(q, "cancelled")
           \/ status[p] \in {"absent", "deleted"} /\ Reply(q, "refused")
           \/ /\ status[p] \in {"pending", "executed"}
              /\ pc' = [pc EXCEPT ![q] = "claim"]
              /\ UNCHANGED <<ledgerVars, chatVars, reviewVars, status, expired, answer, applied>>

\* Mutant of Discards: the row is updated whatever its status.
DiscardsAnything(p) == status[p] # "deleted"

Discards(p) == status[p] = "pending"

\* ... and otherwise the update is conditional.
Cancel(q) ==
    LET p == TargetOf[q]
    IN  /\ q \in Cancels /\ pc[q] = "claim"
        /\ IF Discards(p)
           THEN /\ status' = [status EXCEPT ![p] = "cancelled"]
                /\ Answer(q, "cancelled")
                /\ UNCHANGED <<ledgerVars, chatVars, reviewVars, expired, applied>>
           ELSE Reply(q, "refused")
-----------------------------------------------------------------------------
(* The rest of the application.                                            *)

\* The forms of transactions, under the same projection limit.
EditSource(s, how) ==
    LET left == excessive \ {s}
    IN  /\ world[s] # Gone /\ world[s] < MaxRevision
        /\ Tolerated({s}, left)
        /\ Write({s}, how)
        /\ excessive' = left
        /\ synced' = SyncedAfter(left)
        /\ UNCHANGED <<chatVars, reviewVars, status, expired, requestVars, applied>>

\* The forms of categories, accounts, banks and cards.  (A card's save reconciles
\* the ledger too: nothing to do where it is synced, refused where it is blocked.)
EditReference(r, how) ==
    /\ world[r] # Gone /\ world[r] < MaxRevision
    /\ Write({r}, how)
    /\ UNCHANGED <<excessive, synced, chatVars, reviewVars, status, expired, requestVars, applied>>

\* The reply ends (module ChatRun).
EndRun(r) ==
    /\ runs[r] = "running"
    /\ \E verdict \in {"completed", "stopped"} : runs' = [runs EXCEPT ![r] = verdict]
    /\ UNCHANGED <<ledgerVars, conversation, reviewVars, status, expired, requestVars, applied>>

\* PROPOSAL_LIFETIME passes.
PassExpiry(p) ==
    /\ status[p] = "pending" /\ p \notin expired
    /\ expired' = expired \union {p}
    /\ UNCHANGED <<ledgerVars, chatVars, reviewVars, status, requestVars, applied>>

\* Proposals cascade; what they did to the records stays.
DeleteConversation ==
    /\ conversation
    /\ conversation' = FALSE
    /\ status' = [p \in Proposals |-> IF status[p] = "absent" THEN "absent" ELSE "deleted"]
    /\ UNCHANGED <<ledgerVars, runs, reviewVars, expired, requestVars, applied>>

Next ==
    \/ \E p \in Proposals : Begin(p) \/ Store(p) \/ PassExpiry(p)
    \/ \E p \in Proposals, r \in Rows : ReadRow(p, r) \/ RenderRow(p, r)
    \/ \E q \in Requests : Look(q) \/ Apply(q) \/ LookToCancel(q) \/ Cancel(q)
    \/ \E s \in Sources, how \in {"update", "delete"} : EditSource(s, how)
    \/ \E r \in References, how \in {"update", "delete"} : EditReference(r, how)
    \/ \E r \in Runs : EndRun(r)
    \/ DeleteConversation

Spec == Init /\ [][Next]_vars
-----------------------------------------------------------------------------
(* Properties.                                                             *)

RowsOK ==
    /\ world \in [Rows -> Revisions]
    /\ excessive \subseteq Sources
    /\ synced \in BOOLEAN
    /\ conversation \in BOOLEAN
    /\ runs \in [Runs -> {"running", "completed", "stopped"}]

ReviewsOK ==
    /\ preparing \in [Proposals -> {"idle", "reading", "refused", "stored"}]
    /\ digest \in [Proposals -> [Rows -> Nat \union {Unread}]]
    /\ shown \in [Proposals -> [Rows -> Nat \union {Unread}]]
    /\ status \in [Proposals -> {"absent", "pending", "executed", "cancelled", "deleted"}]
    /\ expired \subseteq Proposals
    /\ applied \in [Proposals -> Nat]

RequestsOK ==
    /\ pc \in [Requests -> {"new", "claim", "done"}]
    /\ answer \in [Requests -> {"none", "executed", "cancelled", "refused"}]

\* The shape of the state; in particular no review rests on a deleted row.
TypeOK == RowsOK /\ ReviewsOK /\ RequestsOK

\* A proposal takes effect at most once, exactly when its row says executed,
\* however many tabs confirm it and whatever fails in between.
AtMostOnce ==
    \A p \in Proposals :
        /\ applied[p] =< 1
        /\ status[p] = "executed" => applied[p] = 1
        /\ status[p] \in {"absent", "pending", "cancelled"} => applied[p] = 0

\* What a tab was told stays true: told executed, it took effect; told
\* cancelled, it never did and never will.
AnswersAreTrue ==
    \A q \in Requests :
        /\ answer[q] = "executed" => applied[TargetOf[q]] = 1
        /\ answer[q] = "cancelled" => applied[TargetOf[q]] = 0

\* While a source beyond the limit keeps the ledger from being reconciled, no
\* other transaction is written, through a form or a confirmed proposal.
BlockedLedgerAdmitsOnlyRepairs ==
    [][/\ excessive' # {} => \A s \in Sources : world'[s] # world[s] => s \in excessive
       /\ \A p \in Proposals : Effect[p] = "create" /\ applied'[p] # applied[p]
                                  => excessive = {}]_vars

\* The ledger lags behind its sources only while one of them is beyond the
\* limit: the last repair reconciles it.
LedgerKeepsUp == synced \/ excessive # {}

\* The abstract promise, of the same records, reviews and statuses.
Review == INSTANCE ReviewedActions

\* An action is decided once, and executed only while all the records it rests
\* on are, at that moment, as its summary showed them: whatever was edited while
\* the review was read row by row and rendered, or since, nothing is overwritten
\* or acted upon unseen (confirm_action's second digest).
KeepsThePromise == Review!Spec

\* A proposal takes effect once, when its row and every tab says so.
TakesEffectAsTold == AtMostOnce /\ AnswersAreTrue
=============================================================================
