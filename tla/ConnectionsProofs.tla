-------------------------- MODULE ConnectionsProofs -------------------------
(***************************************************************************)
(* Proofs about Connections, for any attempts, connections, accounts and   *)
(* requests: what rows and requests do implements LinkedAccounts, an       *)
(* authorization that was cancelled or refused keeps no secrets, and the   *)
(* vault holds for a connection what its row says.                         *)
(***************************************************************************)
EXTENDS Connections, FiniteSetTheorems, FunctionTheorems, TLAPS

States == {"absent", "ready", "identity_only", "reconnect", "disconnected"}
Linking == {"ready", "identity_only"}
Files == Attempts \union Connections

Shape ==
    /\ DOMAIN status = Attempts /\ DOMAIN linked = Attempts /\ passed \subseteq Attempts
    /\ DOMAIN state = Connections /\ DOMAIN account = Connections
    /\ \A c \in Connections : state[c] \in States
    /\ DOMAIN records = Files
    /\ DOMAIN lock = Locks
    /\ DOMAIN pc = Requests /\ DOMAIN hand = Requests /\ DOMAIN target = Requests
    /\ DOMAIN previous = Requests /\ DOMAIN todo = Requests

\* What a request has locked, by where it is.
HoldsUser(q) ==
    \/ Kind[q] = "begin" /\ pc[q] \in {"sweep", "insert"}
    \/ /\ Kind[q] = "finish"
       /\ pc[q] \in {"claim", "open", "target", "replace", "commit", "tidy", "undo"}
    \/ Kind[q] = "disconnect" /\ pc[q] \in {"second", "revoke", "clear", "drop", "tidy"}

HoldsAttempt(q) ==
    \/ Kind[q] = "callback" /\ pc[q] \in {"exchange", "keep", "advance"}
    \/ Kind[q] = "finish" /\ pc[q] \in {"target", "replace", "commit", "tidy"}

HoldsConnection(q) ==
    \/ Kind[q] = "finish" /\ pc[q] \in {"replace", "commit"}
    \/ Renews(q) /\ pc[q] \in {"consult", "renew", "rotate", "note", "mark", "marked"}
    \/ Kind[q] = "disconnect" /\ pc[q] \in {"revoke", "clear", "drop"}

At(q) == IF Kind[q] = "finish" THEN target[q] ELSE ConnectionOf[q]

Locked(q) ==
    /\ HoldsUser(q) => lock["user"] = q
    /\ HoldsAttempt(q) => lock[AttemptOf[q]] = q
    /\ HoldsConnection(q) => lock[At(q)] = q

\* A confirmation past its claim and short of its end.
Deciding(q) == Kind[q] = "finish" /\ pc[q] \in {"open", "target", "replace", "commit"}

\* What a request knows of its attempt, of the attempts it cleans up, and of its
\* connection.
KnowsAttempt(q) ==
    /\ Kind[q] = "begin" /\ pc[q] \in {"sweep", "insert"} => status[AttemptOf[q]] = "absent"
    /\ Kind[q] = "callback" /\ pc[q] # "start" => status[AttemptOf[q]] # "absent"
    /\ Deciding(q) => status[AttemptOf[q]] \in {"finishing", "expired"}

KnowsTodo(q) == \A t \in todo[q] : t[1] \in Attempts /\ status[t[1]] # "absent"

KnowsConnection(q) ==
    /\ Kind[q] = "finish" /\ pc[q] \in {"target", "replace", "commit"}
       => target[q] \in Connections
    /\ Renews(q) /\ pc[q] \in {"consult", "renew", "rotate", "note"}
       => state[ConnectionOf[q]] # "absent"
    /\ Renews(q) /\ pc[q] \in {"renew", "rotate", "note"}
       => state[ConnectionOf[q]] \in Linking

Facts(q) == KnowsAttempt(q) /\ KnowsTodo(q) /\ KnowsConnection(q)

LinksInv == Shape /\ \A q \in Requests : Locked(q) /\ Facts(q)

\* The secrets of a failed attempt are gone, or a request is about to delete
\* them or was cut short.
Discarding(q, a) ==
    /\ Kind[q] \in {"callback", "cancel"} /\ AttemptOf[q] = a
    /\ pc[q] \in {"discard", "advance", "dead"}

FailedInv ==
    /\ LinksInv
    /\ \A a \in Attempts :
          status[a] = "failed" => Holds(a, "none") \/ \E q \in Requests : Discarding(q, a)
-----------------------------------------------------------------------------
(* The step of a request                                                   *)

\* What the step of a request leaves to the others.
Frame(q) ==
    /\ \A p \in Requests \ {q} : /\ pc'[p] = pc[p] /\ target'[p] = target[p]
                                 /\ todo'[p] = todo[p] /\ hand'[p] = hand[p]
                                 /\ previous'[p] = previous[p]
    /\ \A i \in Locks : \/ lock'[i] = lock[i]
                        \/ lock[i] = q /\ lock'[i] = None
                        \/ lock[i] = None /\ lock'[i] = q

Hopeful == Open \union {"absent"}

\* An attempt begins, and a confirmation on its way is decided, under the lock
\* of the user; what was decided stays so; a connection changes under its lock.
RowFrame(q) ==
    /\ \A a \in Attempts :
          /\ status[a] # "absent" => status'[a] # "absent"
          /\ status[a] = "absent" /\ status'[a] # "absent" => HoldsUser(q)
          /\ /\ status[a] \in {"finishing", "expired"}
             /\ status'[a] \notin {"finishing", "expired"}
             => HoldsUser(q)
          /\ status'[a] \in Hopeful => status[a] \in Hopeful
    /\ \A c \in Connections :
          /\ state[c] # "absent" => state'[c] # "absent"
          /\ state'[c] # state[c] => HoldsConnection(q) /\ At(q) = c

LEMMA Given ==
  ASSUME NEW q \in Requests
  PROVE  /\ AttemptOf[q] \in Attempts /\ ConnectionOf[q] \in Connections
         /\ Selected[AttemptOf[q]] \in Connections \union {None}
         /\ Staged[AttemptOf[q]] \in Connections
         /\ \A a \in Attempts, c \in Connections : a # c /\ a # "user" /\ c # "user"
         /\ None \notin Connections /\ None \notin Requests
  BY ConnectionAssumption

\* RefreshConsult and FinishCommit by their outcomes.
Consulted(q) ==
    LET c == ConnectionOf[q]
    IN  /\ Renews(q) /\ pc[q] = "consult"
        /\ \/ /\ Go(q, "done") /\ Release(q, Locks) /\ UNCHANGED state
           \/ /\ Go(q, "mark") /\ UNCHANGED <<lock, state>>
           \/ /\ Renewable(c) /\ state' = [state EXCEPT ![c] = Metadata(records[c])]
              /\ Release(q, {c})
              /\ Go(q, "serve again") \/ Go(q, "done")
           \/ /\ Renewable(c) /\ Go(q, "renew") /\ UNCHANGED <<lock, state>>
        /\ UNCHANGED <<status, linked, account, active, passed, records, providerVars, stale,
                       carried, apart>>

LEMMA Consults == \A q \in Requests : RefreshConsult(q) => Consulted(q)
  BY DEF RefreshConsult, Consulted, End, Renewed

Linked(q) ==
    LET a == AttemptOf[q]  c == target[q]
    IN  /\ Is(q, "finish", "commit")
        /\ state' = [state EXCEPT ![c] = Metadata(hand[q])]
        /\ account' = [account EXCEPT ![c] = hand[q].account]
        /\ status' = [status EXCEPT ![a] = "complete"]
        /\ linked' = [linked EXCEPT ![a] = c]
        /\ Go(q, "tidy") /\ Release(q, {c})
        /\ UNCHANGED <<passed, records, carried>>

Unlinked(q) ==
    /\ Is(q, "finish", "commit")
    /\ Put(target[q], previous[q]) \/ UNCHANGED records
    /\ Go(q, "undo") /\ Release(q, Locks \ {"user"})
    /\ UNCHANGED <<status, linked, state, account, passed, carried>>

LEMMA Commits == \A q \in Requests : FinishCommit(q) => Linked(q) \/ Unlinked(q)
  BY DEF FinishCommit, Linked, Unlinked

LEMMA NoteGoesOn ==
  ASSUME NEW q \in Requests, Shape, RefreshNote(q)
  PROVE  Renews(q) /\ pc'[q] \in {"serve again", "done"}
  BY DEF Shape, RefreshNote, Renewed, Go

LEMMA TidyShrinks ==
  ASSUME NEW q \in Requests, Shape, DisconnectTidy(q)
  PROVE  status' = status /\ todo'[q] \subseteq todo[q]
  BY DEF Shape, DisconnectTidy, rowVars

LEMMA RenewedHoldsNothing ==
  ASSUME NEW q \in Requests, Renews(q), pc'[q] \in {"serve again", "done"}
  PROVE  Locked(q)'
  BY DEF Renews, Locked, HoldsUser, HoldsAttempt, HoldsConnection

LEMMA StepFrame ==
  ASSUME NEW q \in Requests, Shape, Step(q)
  PROVE  Shape' /\ Frame(q)
<1> DEFINE Goal == Shape' /\ Frame(q)
<1> SUFFICES Goal
  OBVIOUS
<1> USE DEF Shape, Frame, States, Metadata, Is, Go, Acquire, Release, End, Put, Delete, Free,
            rowVars, providerVars, carried, Issue, AdvanceOrTakeBack, Renewed, Renews, Files
<1>1. CASE BeginLock(q)
  BY <1>1 DEF BeginLock
<1>2. CASE BeginWrite(q) \/ BeginInsert(q)
  BY <1>2 DEF BeginWrite, BeginInsert
<1>3. CASE CallbackLook(q) \/ CallbackTime(q) \/ CallbackExpire(q) \/ CallbackExpired(q)
  BY <1>3 DEF CallbackLook, CallbackTime, CallbackExpire, CallbackExpired
<1>4. CASE CallbackClaim(q) \/ CallbackOpen(q) \/ CallbackExchange(q)
  BY <1>4 DEF CallbackClaim, CallbackOpen, CallbackExchange
<1>5. CASE CallbackKeep(q) \/ CallbackAdvance(q) \/ CallbackReread(q) \/ CallbackFail(q)
  BY <1>5 DEF CallbackKeep, CallbackAdvance, CallbackReread, CallbackFail
<1>6. CASE Cancel(q) \/ Discard(q)
  BY <1>6 DEF Cancel, Discard
<1>7. CASE FinishLook(q) \/ FinishEnter(q) \/ FinishClaim(q)
  BY <1>7 DEF FinishLook, FinishEnter, FinishClaim
<1>8. CASE FinishOpen(q)
  BY <1>8 DEF FinishOpen
<1>9. CASE FinishTarget(q) \/ FinishReplace(q)
  BY <1>9 DEF FinishTarget, FinishReplace
<1>10. CASE FinishCommit(q)
  <2>1. CASE Linked(q)
    BY <2>1 DEF Linked
  <2>2. CASE Unlinked(q)
    BY <2>2 DEF Unlinked
  <2> QED
    BY <1>10, <2>1, <2>2, Commits
<1>11. CASE FinishTidy(q) \/ FinishUndo(q)
  BY <1>11 DEF FinishTidy, FinishUndo
<1>12. CASE TokenLook(q) \/ TokenServe(q)
  BY <1>12 DEF TokenLook, TokenServe
<1>13. CASE RefreshEnter(q)
  BY <1>13 DEF RefreshEnter
<1>14. CASE RefreshConsult(q)
  <2>1. Consulted(q)
    BY ONLY <1>14, Consults
  <2> QED
    BY <2>1 DEF Consulted
<1>15. CASE RefreshRenew(q) \/ RefreshRotate(q)
  BY <1>15 DEF RefreshRenew, RefreshRotate
<1>16. CASE RefreshNote(q)
  BY <1>16 DEF RefreshNote
<1>17. CASE RefreshMark(q) \/ RefreshMarked(q)
  BY <1>17 DEF RefreshMark, RefreshMarked
<1>18. CASE Activate(q) \/ DisconnectEnter(q) \/ DisconnectLock(q)
  BY <1>18 DEF Activate, DisconnectEnter, DisconnectLock
<1>19. CASE DisconnectRevoke(q) \/ DisconnectClear(q)
  BY <1>19 DEF DisconnectRevoke, DisconnectClear
<1>20. CASE DisconnectDrop(q)
  BY <1>20 DEF DisconnectDrop
<1>21. CASE DisconnectTidy(q)
  BY <1>21 DEF DisconnectTidy
<1>22. ASSUME NEW a \in Attempts, SweepRecord(q, a) \/ SweepStaged(q, a)
      PROVE  Goal
  BY <1>22 DEF SweepRecord, SweepStaged, SweepTarget
<1> QED
  BY <1>1, <1>2, <1>3, <1>4, <1>5, <1>6, <1>7, <1>8, <1>9, <1>10, <1>11, <1>12, <1>13, <1>14,
     <1>15, <1>16, <1>17, <1>18, <1>19, <1>20, <1>21, <1>22
     DEF Step

LEMMA StepLocked ==
  ASSUME NEW q \in Requests, Shape, Locked(q), KnowsConnection(q), Step(q)
  PROVE  Locked(q)'
<1> DEFINE Goal == Locked(q)'
<1> SUFFICES Goal
  OBVIOUS
<1> USE Given
<1> USE DEF Shape, Locked, HoldsUser, HoldsAttempt, HoldsConnection, At, Locks, DisconnectOrder,
            KnowsConnection, Is, Go, Acquire, Release, End, Put, Delete, Free, rowVars,
            providerVars, carried, Issue, AdvanceOrTakeBack, Renewed, Renews, Files
<1>1. CASE BeginLock(q)
  BY <1>1 DEF BeginLock
<1>2. CASE BeginWrite(q) \/ BeginInsert(q)
  BY <1>2 DEF BeginWrite, BeginInsert
<1>3. CASE CallbackLook(q) \/ CallbackTime(q) \/ CallbackExpire(q) \/ CallbackExpired(q)
  BY <1>3 DEF CallbackLook, CallbackTime, CallbackExpire, CallbackExpired
<1>4. CASE CallbackClaim(q) \/ CallbackOpen(q) \/ CallbackExchange(q)
  BY <1>4 DEF CallbackClaim, CallbackOpen, CallbackExchange
<1>5. CASE CallbackKeep(q) \/ CallbackAdvance(q) \/ CallbackReread(q) \/ CallbackFail(q)
  BY <1>5 DEF CallbackKeep, CallbackAdvance, CallbackReread, CallbackFail
<1>6. CASE Cancel(q) \/ Discard(q)
  BY <1>6 DEF Cancel, Discard
<1>7. CASE FinishLook(q) \/ FinishEnter(q) \/ FinishClaim(q)
  BY <1>7 DEF FinishLook, FinishEnter, FinishClaim
<1>8. CASE FinishOpen(q)
  BY <1>8 DEF FinishOpen
<1>9. CASE FinishTarget(q) \/ FinishReplace(q)
  BY <1>9 DEF FinishTarget, FinishReplace
<1>10. CASE FinishCommit(q)
  <2>1. CASE Linked(q)
    BY <2>1 DEF Linked
  <2>2. CASE Unlinked(q)
    BY <2>2 DEF Unlinked
  <2> QED
    BY <1>10, <2>1, <2>2, Commits
<1>11. CASE FinishTidy(q) \/ FinishUndo(q)
  BY <1>11 DEF FinishTidy, FinishUndo
<1>12. CASE TokenLook(q) \/ TokenServe(q)
  <2>1. CASE TokenLook(q)
    BY <2>1 DEF TokenLook
  <2>2. CASE TokenServe(q)
    BY <2>2 DEF TokenServe
  <2> QED
    BY <1>12, <2>1, <2>2
<1>13. CASE RefreshEnter(q)
  BY <1>13 DEF RefreshEnter
<1>14. CASE RefreshConsult(q)
  <2>1. Consulted(q)
    BY ONLY <1>14, Consults
  <2> QED
    BY <2>1 DEF Consulted
<1>15. CASE RefreshRenew(q) \/ RefreshRotate(q)
  BY <1>15 DEF RefreshRenew, RefreshRotate
<1>16. CASE RefreshNote(q)
  <2>1. Renews(q) /\ pc'[q] \in {"serve again", "done"}
    BY <1>16, NoteGoesOn
  <2> QED
    BY <2>1, RenewedHoldsNothing
<1>17. CASE RefreshMark(q) \/ RefreshMarked(q)
  BY <1>17 DEF RefreshMark, RefreshMarked
<1>18. CASE Activate(q) \/ DisconnectEnter(q) \/ DisconnectLock(q)
  BY <1>18 DEF Activate, DisconnectEnter, DisconnectLock
<1>19. CASE DisconnectRevoke(q) \/ DisconnectClear(q)
  BY <1>19 DEF DisconnectRevoke, DisconnectClear
<1>20. CASE DisconnectDrop(q)
  BY <1>20 DEF DisconnectDrop
<1>21. CASE DisconnectTidy(q)
  BY <1>21 DEF DisconnectTidy
<1>22. ASSUME NEW a \in Attempts, SweepRecord(q, a) \/ SweepStaged(q, a)
      PROVE  Goal
  BY <1>22 DEF SweepRecord, SweepStaged, SweepTarget
<1> QED
  BY <1>1, <1>2, <1>3, <1>4, <1>5, <1>6, <1>7, <1>8, <1>9, <1>10, <1>11, <1>12, <1>13, <1>14,
     <1>15, <1>16, <1>17, <1>18, <1>19, <1>20, <1>21, <1>22
     DEF Step

LEMMA StepRows ==
  ASSUME NEW q \in Requests, Shape, Facts(q), Step(q)
  PROVE  RowFrame(q)
<1> DEFINE Goal == RowFrame(q)
<1> SUFFICES Goal
  OBVIOUS
<1> USE DEF Shape, Facts, KnowsAttempt, KnowsTodo, KnowsConnection, RowFrame, HoldsUser,
            HoldsConnection, At, Hopeful, Open, Metadata, Deciding, Claimable, Cancellable, Is,
            Go, Acquire, Release, End, Put, Delete, Free, rowVars, providerVars, carried, Issue,
            AdvanceOrTakeBack, Renewed, Renews, Files
<1>1. CASE BeginLock(q)
  BY <1>1 DEF BeginLock
<1>2. CASE BeginWrite(q) \/ BeginInsert(q)
  BY <1>2 DEF BeginWrite, BeginInsert
<1>3. CASE CallbackLook(q) \/ CallbackTime(q) \/ CallbackExpire(q) \/ CallbackExpired(q)
  BY <1>3 DEF CallbackLook, CallbackTime, CallbackExpire, CallbackExpired
<1>4. CASE CallbackClaim(q) \/ CallbackOpen(q) \/ CallbackExchange(q)
  BY <1>4 DEF CallbackClaim, CallbackOpen, CallbackExchange
<1>5. CASE CallbackKeep(q) \/ CallbackAdvance(q) \/ CallbackReread(q) \/ CallbackFail(q)
  BY <1>5 DEF CallbackKeep, CallbackAdvance, CallbackReread, CallbackFail
<1>6. CASE Cancel(q) \/ Discard(q)
  BY <1>6 DEF Cancel, Discard
<1>7. CASE FinishLook(q) \/ FinishEnter(q) \/ FinishClaim(q)
  BY <1>7 DEF FinishLook, FinishEnter, FinishClaim
<1>8. CASE FinishOpen(q)
  BY <1>8 DEF FinishOpen
<1>9. CASE FinishTarget(q) \/ FinishReplace(q)
  BY <1>9 DEF FinishTarget, FinishReplace
<1>10. CASE FinishCommit(q)
  <2>1. CASE Linked(q)
    BY <2>1 DEF Linked
  <2>2. CASE Unlinked(q)
    BY <2>2 DEF Unlinked
  <2> QED
    BY <1>10, <2>1, <2>2, Commits
<1>11. CASE FinishTidy(q) \/ FinishUndo(q)
  BY <1>11 DEF FinishTidy, FinishUndo
<1>12. CASE TokenLook(q) \/ TokenServe(q)
  BY <1>12 DEF TokenLook, TokenServe
<1>13. CASE RefreshEnter(q)
  BY <1>13 DEF RefreshEnter
<1>14. CASE RefreshConsult(q)
  <2>1. Consulted(q)
    BY ONLY <1>14, Consults
  <2> QED
    BY <2>1 DEF Consulted
<1>15. CASE RefreshRenew(q) \/ RefreshRotate(q)
  BY <1>15 DEF RefreshRenew, RefreshRotate
<1>16. CASE RefreshNote(q)
  BY <1>16 DEF RefreshNote
<1>17. CASE RefreshMark(q) \/ RefreshMarked(q)
  BY <1>17 DEF RefreshMark, RefreshMarked
<1>18. CASE Activate(q) \/ DisconnectEnter(q) \/ DisconnectLock(q)
  BY <1>18 DEF Activate, DisconnectEnter, DisconnectLock
<1>19. CASE DisconnectRevoke(q) \/ DisconnectClear(q)
  BY <1>19 DEF DisconnectRevoke, DisconnectClear
<1>20. CASE DisconnectDrop(q)
  BY <1>20 DEF DisconnectDrop
<1>21. CASE DisconnectTidy(q)
  BY <1>21 DEF DisconnectTidy
<1>22. ASSUME NEW a \in Attempts, SweepRecord(q, a) \/ SweepStaged(q, a)
      PROVE  Goal
  BY <1>22 DEF SweepRecord, SweepStaged, SweepTarget
<1> QED
  BY <1>1, <1>2, <1>3, <1>4, <1>5, <1>6, <1>7, <1>8, <1>9, <1>10, <1>11, <1>12, <1>13, <1>14,
     <1>15, <1>16, <1>17, <1>18, <1>19, <1>20, <1>21, <1>22
     DEF Step

LEMMA StepKnowsAttempt ==
  ASSUME NEW q \in Requests, Shape, KnowsAttempt(q), KnowsTodo(q), Step(q)
  PROVE  KnowsAttempt(q)'
<1> DEFINE Goal == KnowsAttempt(q)'
<1> SUFFICES Goal
  OBVIOUS
<1> USE Given
<1> USE DEF Shape, KnowsAttempt, KnowsTodo, Deciding, Claimable, Cancellable, Open, Is, Go,
            Acquire, Release, End, Put, Delete, Free, rowVars, providerVars, carried, Issue,
            AdvanceOrTakeBack, Renewed, Renews, Files
<1>1. CASE BeginLock(q)
  BY <1>1 DEF BeginLock
<1>2. CASE BeginWrite(q) \/ BeginInsert(q)
  BY <1>2 DEF BeginWrite, BeginInsert
<1>3. CASE CallbackLook(q) \/ CallbackTime(q) \/ CallbackExpire(q) \/ CallbackExpired(q)
  BY <1>3 DEF CallbackLook, CallbackTime, CallbackExpire, CallbackExpired
<1>4. CASE CallbackClaim(q) \/ CallbackOpen(q) \/ CallbackExchange(q)
  BY <1>4 DEF CallbackClaim, CallbackOpen, CallbackExchange
<1>5. CASE CallbackKeep(q) \/ CallbackAdvance(q) \/ CallbackReread(q) \/ CallbackFail(q)
  BY <1>5 DEF CallbackKeep, CallbackAdvance, CallbackReread, CallbackFail
<1>6. CASE Cancel(q) \/ Discard(q)
  BY <1>6 DEF Cancel, Discard
<1>7. CASE FinishLook(q) \/ FinishEnter(q) \/ FinishClaim(q)
  BY <1>7 DEF FinishLook, FinishEnter, FinishClaim
<1>8. CASE FinishOpen(q)
  BY <1>8 DEF FinishOpen
<1>9. CASE FinishTarget(q) \/ FinishReplace(q)
  BY <1>9 DEF FinishTarget, FinishReplace
<1>10. CASE FinishCommit(q)
  <2>1. CASE Linked(q)
    BY <2>1 DEF Linked
  <2>2. CASE Unlinked(q)
    BY <2>2 DEF Unlinked
  <2> QED
    BY <1>10, <2>1, <2>2, Commits
<1>11. CASE FinishTidy(q) \/ FinishUndo(q)
  BY <1>11 DEF FinishTidy, FinishUndo
<1>12. CASE TokenLook(q) \/ TokenServe(q)
  BY <1>12 DEF TokenLook, TokenServe
<1>13. CASE RefreshEnter(q)
  BY <1>13 DEF RefreshEnter
<1>14. CASE RefreshConsult(q)
  <2>1. Consulted(q)
    BY ONLY <1>14, Consults
  <2> QED
    BY <2>1 DEF Consulted
<1>15. CASE RefreshRenew(q) \/ RefreshRotate(q)
  BY <1>15 DEF RefreshRenew, RefreshRotate
<1>16. CASE RefreshNote(q)
  BY <1>16 DEF RefreshNote
<1>17. CASE RefreshMark(q) \/ RefreshMarked(q)
  BY <1>17 DEF RefreshMark, RefreshMarked
<1>18. CASE Activate(q) \/ DisconnectEnter(q) \/ DisconnectLock(q)
  BY <1>18 DEF Activate, DisconnectEnter, DisconnectLock
<1>19. CASE DisconnectRevoke(q) \/ DisconnectClear(q)
  BY <1>19 DEF DisconnectRevoke, DisconnectClear
<1>20. CASE DisconnectDrop(q)
  BY <1>20 DEF DisconnectDrop
<1>21. CASE DisconnectTidy(q)
  BY <1>21 DEF DisconnectTidy
<1>22. ASSUME NEW a \in Attempts, SweepRecord(q, a) \/ SweepStaged(q, a)
      PROVE  Goal
  BY <1>22 DEF SweepRecord, SweepStaged, SweepTarget
<1> QED
  BY <1>1, <1>2, <1>3, <1>4, <1>5, <1>6, <1>7, <1>8, <1>9, <1>10, <1>11, <1>12, <1>13, <1>14,
     <1>15, <1>16, <1>17, <1>18, <1>19, <1>20, <1>21, <1>22
     DEF Step

LEMMA StepKnowsTodo ==
  ASSUME NEW q \in Requests, Shape, KnowsTodo(q), RowFrame(q), Step(q)
  PROVE  KnowsTodo(q)'
<1> DEFINE Goal == KnowsTodo(q)'
<1> SUFFICES Goal
  OBVIOUS
<1> USE DEF Shape, KnowsTodo, RowFrame, Is, Go, Acquire, Release, End, Put, Delete, Free,
            rowVars, providerVars, carried, Issue, AdvanceOrTakeBack, Renewed, Renews, Files
<1>1. CASE BeginLock(q)
  <2>1. status' = status /\ passed \subseteq Attempts
    BY <1>1 DEF BeginLock
  <2>2. todo'[q] = {<<x, "record">> : x \in {y \in passed : status[y] # "absent"}}
    BY <1>1 DEF BeginLock
  <2> QED
    BY ONLY <2>1, <2>2 DEF KnowsTodo
<1>2. CASE BeginWrite(q) \/ BeginInsert(q)
  BY <1>2 DEF BeginWrite, BeginInsert
<1>3. CASE CallbackLook(q) \/ CallbackTime(q) \/ CallbackExpire(q) \/ CallbackExpired(q)
  BY <1>3 DEF CallbackLook, CallbackTime, CallbackExpire, CallbackExpired
<1>4. CASE CallbackClaim(q) \/ CallbackOpen(q) \/ CallbackExchange(q)
  BY <1>4 DEF CallbackClaim, CallbackOpen, CallbackExchange
<1>5. CASE CallbackKeep(q) \/ CallbackAdvance(q) \/ CallbackReread(q) \/ CallbackFail(q)
  BY <1>5 DEF CallbackKeep, CallbackAdvance, CallbackReread, CallbackFail
<1>6. CASE Cancel(q) \/ Discard(q)
  BY <1>6 DEF Cancel, Discard
<1>7. CASE FinishLook(q) \/ FinishEnter(q) \/ FinishClaim(q)
  BY <1>7 DEF FinishLook, FinishEnter, FinishClaim
<1>8. CASE FinishOpen(q)
  BY <1>8 DEF FinishOpen
<1>9. CASE FinishTarget(q) \/ FinishReplace(q)
  BY <1>9 DEF FinishTarget, FinishReplace
<1>10. CASE FinishCommit(q)
  <2>1. CASE Linked(q)
    BY <2>1 DEF Linked
  <2>2. CASE Unlinked(q)
    BY <2>2 DEF Unlinked
  <2> QED
    BY <1>10, <2>1, <2>2, Commits
<1>11. CASE FinishTidy(q) \/ FinishUndo(q)
  BY <1>11 DEF FinishTidy, FinishUndo
<1>12. CASE TokenLook(q) \/ TokenServe(q)
  BY <1>12 DEF TokenLook, TokenServe
<1>13. CASE RefreshEnter(q)
  BY <1>13 DEF RefreshEnter
<1>14. CASE RefreshConsult(q)
  <2>1. Consulted(q)
    BY ONLY <1>14, Consults
  <2> QED
    BY <2>1 DEF Consulted
<1>15. CASE RefreshRenew(q) \/ RefreshRotate(q)
  BY <1>15 DEF RefreshRenew, RefreshRotate
<1>16. CASE RefreshNote(q)
  BY <1>16 DEF RefreshNote
<1>17. CASE RefreshMark(q) \/ RefreshMarked(q)
  BY <1>17 DEF RefreshMark, RefreshMarked
<1>18. CASE Activate(q) \/ DisconnectEnter(q) \/ DisconnectLock(q)
  BY <1>18 DEF Activate, DisconnectEnter, DisconnectLock
<1>19. CASE DisconnectRevoke(q) \/ DisconnectClear(q)
  BY <1>19 DEF DisconnectRevoke, DisconnectClear
<1>20. CASE DisconnectDrop(q)
  BY <1>20 DEF DisconnectDrop
<1>21. CASE DisconnectTidy(q)
  <2>1. status' = status /\ todo'[q] \subseteq todo[q]
    BY <1>21, TidyShrinks
  <2> QED
    BY ONLY <2>1, KnowsTodo(q) DEF KnowsTodo
<1>22. ASSUME NEW a \in Attempts, SweepRecord(q, a) \/ SweepStaged(q, a)
      PROVE  Goal
  BY <1>22 DEF SweepRecord, SweepStaged, SweepTarget
<1> QED
  BY <1>1, <1>2, <1>3, <1>4, <1>5, <1>6, <1>7, <1>8, <1>9, <1>10, <1>11, <1>12, <1>13, <1>14,
     <1>15, <1>16, <1>17, <1>18, <1>19, <1>20, <1>21, <1>22
     DEF Step

LEMMA StepKnowsConnection ==
  ASSUME NEW q \in Requests, Shape, KnowsConnection(q), Step(q)
  PROVE  KnowsConnection(q)'
<1> DEFINE Goal == KnowsConnection(q)'
<1> SUFFICES Goal
  OBVIOUS
<1> USE Given
<1> USE DEF Shape, States, KnowsConnection, Linking, Metadata, Renewable, Target, Is, Go,
            Acquire, Release, End, Put, Delete, Free, rowVars, providerVars, carried, Issue,
            AdvanceOrTakeBack, Renewed, Renews, Files
<1>1. CASE BeginLock(q)
  BY <1>1 DEF BeginLock
<1>2. CASE BeginWrite(q) \/ BeginInsert(q)
  BY <1>2 DEF BeginWrite, BeginInsert
<1>3. CASE CallbackLook(q) \/ CallbackTime(q) \/ CallbackExpire(q) \/ CallbackExpired(q)
  BY <1>3 DEF CallbackLook, CallbackTime, CallbackExpire, CallbackExpired
<1>4. CASE CallbackClaim(q) \/ CallbackOpen(q) \/ CallbackExchange(q)
  BY <1>4 DEF CallbackClaim, CallbackOpen, CallbackExchange
<1>5. CASE CallbackKeep(q) \/ CallbackAdvance(q) \/ CallbackReread(q) \/ CallbackFail(q)
  BY <1>5 DEF CallbackKeep, CallbackAdvance, CallbackReread, CallbackFail
<1>6. CASE Cancel(q) \/ Discard(q)
  BY <1>6 DEF Cancel, Discard
<1>7. CASE FinishLook(q) \/ FinishEnter(q) \/ FinishClaim(q)
  BY <1>7 DEF FinishLook, FinishEnter, FinishClaim
<1>8. CASE FinishOpen(q)
  BY <1>8 DEF FinishOpen
<1>9. CASE FinishTarget(q) \/ FinishReplace(q)
  BY <1>9 DEF FinishTarget, FinishReplace
<1>10. CASE FinishCommit(q)
  <2>1. CASE Linked(q)
    BY <2>1 DEF Linked
  <2>2. CASE Unlinked(q)
    BY <2>2 DEF Unlinked
  <2> QED
    BY <1>10, <2>1, <2>2, Commits
<1>11. CASE FinishTidy(q) \/ FinishUndo(q)
  BY <1>11 DEF FinishTidy, FinishUndo
<1>12. CASE TokenLook(q) \/ TokenServe(q)
  BY <1>12 DEF TokenLook, TokenServe
<1>13. CASE RefreshEnter(q)
  BY <1>13 DEF RefreshEnter
<1>14. CASE RefreshConsult(q)
  <2>1. Consulted(q)
    BY ONLY <1>14, Consults
  <2> QED
    BY <2>1 DEF Consulted
<1>15. CASE RefreshRenew(q) \/ RefreshRotate(q)
  BY <1>15 DEF RefreshRenew, RefreshRotate
<1>16. CASE RefreshNote(q)
  BY <1>16 DEF RefreshNote
<1>17. CASE RefreshMark(q) \/ RefreshMarked(q)
  BY <1>17 DEF RefreshMark, RefreshMarked
<1>18. CASE Activate(q) \/ DisconnectEnter(q) \/ DisconnectLock(q)
  BY <1>18 DEF Activate, DisconnectEnter, DisconnectLock
<1>19. CASE DisconnectRevoke(q) \/ DisconnectClear(q)
  BY <1>19 DEF DisconnectRevoke, DisconnectClear
<1>20. CASE DisconnectDrop(q)
  BY <1>20 DEF DisconnectDrop
<1>21. CASE DisconnectTidy(q)
  BY <1>21 DEF DisconnectTidy
<1>22. ASSUME NEW a \in Attempts, SweepRecord(q, a) \/ SweepStaged(q, a)
      PROVE  Goal
  BY <1>22 DEF SweepRecord, SweepStaged, SweepTarget
<1> QED
  BY <1>1, <1>2, <1>3, <1>4, <1>5, <1>6, <1>7, <1>8, <1>9, <1>10, <1>11, <1>12, <1>13, <1>14,
     <1>15, <1>16, <1>17, <1>18, <1>19, <1>20, <1>21, <1>22
     DEF Step

-----------------------------------------------------------------------------
(* The invariant of rows, locks and requests                               *)

\* The step of one request leaves the locks and the knowledge of the others.
LEMMA OthersStay ==
  ASSUME NEW q \in Requests, NEW p \in Requests \ {q}, Frame(q), RowFrame(q),
         Locked(q), Locked(p), Facts(p)
  PROVE  Locked(p)' /\ Facts(p)'
<1> USE Given
<1>1. /\ pc'[p] = pc[p] /\ target'[p] = target[p] /\ todo'[p] = todo[p]
      /\ \A i \in Locks : lock[i] = p => lock'[i] = p
  BY DEF Frame
<1>2. HoldsUser(p)' = HoldsUser(p) /\ HoldsAttempt(p)' = HoldsAttempt(p)
  BY <1>1 DEF HoldsUser, HoldsAttempt
<1>3. HoldsConnection(p)' = HoldsConnection(p) /\ At(p)' = At(p) /\ Deciding(p)' = Deciding(p)
  BY <1>1 DEF HoldsConnection, At, Deciding, Renews
<1>4. HoldsConnection(p) => At(p) \in Connections
  BY DEF Facts, KnowsConnection, HoldsConnection, At, Renews
<1>5. Locked(p)'
  BY <1>1, <1>2, <1>3, <1>4 DEF Locked, Locks
<1>6. ~(HoldsUser(p) /\ HoldsUser(q))
  BY DEF Locked
<1>7. ~(HoldsConnection(p) /\ HoldsConnection(q) /\ At(p) = At(q))
  BY DEF Locked
<1>8. KnowsAttempt(p)'
  <2>1. Deciding(p) => HoldsUser(p)
    BY DEF Deciding, HoldsUser
  <2>2. Kind[p] = "begin" /\ pc[p] \in {"sweep", "insert"} => HoldsUser(p)
    BY DEF HoldsUser
  <2> QED
    BY <1>1, <1>3, <1>6, <2>1, <2>2 DEF Facts, KnowsAttempt, RowFrame
<1>9. KnowsTodo(p)'
  BY <1>1 DEF Facts, KnowsTodo, RowFrame
<1>10. KnowsConnection(p)'
  <2>1. Renews(p) /\ pc[p] \in {"consult", "renew", "rotate", "note"}
        => HoldsConnection(p) /\ At(p) = ConnectionOf[p]
    BY DEF HoldsConnection, At, Renews
  <2>2. HoldsConnection(p) => state'[At(p)] = state[At(p)]
    BY <1>4, <1>7 DEF RowFrame
  <2> QED
    BY <1>1, <2>1, <2>2 DEF Facts, KnowsConnection, Renews
<1> QED
  BY <1>5, <1>8, <1>9, <1>10 DEF Facts

LEMMA StepKeepsLinksInv ==
  ASSUME LinksInv, NEW q \in Requests, Step(q)
  PROVE  LinksInv' /\ Frame(q) /\ RowFrame(q)
<1>1. Shape /\ \A p \in Requests : Locked(p) /\ Facts(p)
  BY DEF LinksInv
<1>2. Shape' /\ Frame(q)
  BY <1>1, StepFrame
<1>3. RowFrame(q)
  BY <1>1, StepRows
<1>4. Locked(q)' /\ Facts(q)'
  BY <1>1, <1>3, StepLocked, StepKnowsAttempt, StepKnowsTodo, StepKnowsConnection DEF Facts
<1>5. \A p \in Requests \ {q} : Locked(p)' /\ Facts(p)'
  BY <1>1, <1>2, <1>3, OthersStay
<1> QED
  BY <1>2, <1>3, <1>4, <1>5 DEF LinksInv

\* A crash releases what the request had locked; time passes beside it.
LEMMA CrashKeepsLinksInv ==
  ASSUME LinksInv, NEW q \in Requests, Crash(q)
  PROVE  LinksInv'
<1>1. /\ Shape' /\ Frame(q) /\ RowFrame(q) /\ pc'[q] = "dead" /\ todo'[q] = todo[q]
      /\ status' = status /\ pc[q] # "start"
  BY DEF LinksInv, Shape, Crash, Frame, RowFrame, Go, Release, rowVars, carried
<1>2. Locked(q)' /\ KnowsConnection(q)'
  BY <1>1 DEF Locked, HoldsUser, HoldsAttempt, HoldsConnection, KnowsConnection
<1>3. KnowsAttempt(q)' /\ KnowsTodo(q)'
  BY <1>1 DEF LinksInv, Facts, KnowsAttempt, KnowsTodo, Deciding
<1>4. \A p \in Requests \ {q} : Locked(p)' /\ Facts(p)'
  BY <1>1, OthersStay DEF LinksInv
<1> QED
  BY <1>1, <1>2, <1>3, <1>4 DEF LinksInv, Facts

Idle == \/ \E a \in Attempts : PassAttempt(a)
        \/ \E t \in 1 .. MaxTokens : AccessEnds(t)
        \/ UNCHANGED vars

LEMMA IdleChangesLittle ==
  ASSUME Idle
  PROVE  /\ UNCHANGED <<rowVars, records, lock, pc, carried>>
         /\ passed \subseteq Attempts => passed' \subseteq Attempts
  BY DEF Idle, PassAttempt, AccessEnds, vars, rowVars

LEMMA IdleKeepsLinksInv ==
  ASSUME LinksInv, Idle
  PROVE  LinksInv'
<1>1. UNCHANGED <<status, linked, state, account, records, lock, pc, hand, target, previous, todo>>
  BY IdleChangesLittle DEF rowVars, carried
<1>2. Shape'
  BY <1>1, IdleChangesLittle DEF LinksInv, Shape
<1>3. ASSUME NEW q \in Requests
      PROVE  Locked(q)' /\ Facts(q)'
  <2>1. Locked(q)' = Locked(q)
    BY <1>1 DEF Locked, HoldsUser, HoldsAttempt, HoldsConnection, At, Renews
  <2>2. Facts(q)' = Facts(q)
    BY <1>1 DEF Facts, KnowsAttempt, KnowsTodo, KnowsConnection, Deciding, Renews
  <2> QED
    BY <2>1, <2>2 DEF LinksInv
<1> QED
  BY <1>2, <1>3 DEF LinksInv

LEMMA NextIs ==
  ASSUME [Next]_vars
  PROVE  (\E q \in Requests : Step(q) \/ Crash(q)) \/ Idle
  BY DEF Next, Idle

LEMMA NextKeepsLinksInv ==
  ASSUME LinksInv, [Next]_vars
  PROVE  LinksInv'
  BY NextIs, StepKeepsLinksInv, CrashKeepsLinksInv, IdleKeepsLinksInv

LEMMA InitHasLinksInv == Init => LinksInv
<1> SUFFICES ASSUME Init PROVE LinksInv
  OBVIOUS
<1>1. Shape
  BY DEF Init, Shape, Files, States
<1>2. \A q \in Requests : pc[q] = "start" /\ todo[q] = {}
  BY DEF Init
<1> QED
  BY <1>1, <1>2
     DEF LinksInv, Locked, HoldsUser, HoldsAttempt, HoldsConnection, Facts, KnowsAttempt,
                    KnowsTodo, KnowsConnection, Deciding
-----------------------------------------------------------------------------
(* Rows and requests implement LinkedAccounts                              *)

Joined == {c \in Connections : state[c] \in Linking}
Undecideds(a) ==
    \/ status[a] \in Hopeful
    \/ \E q \in Requests : Deciding(q) /\ AttemptOf[q] = a /\ status[a] = "expired"

LEMMA LinksAre ==
  /\ Links!vars = <<Undecided, Joined>>
  /\ \A a \in Attempts : a \in Undecided <=> Undecideds(a)
  /\ \A a \in Attempts : (a \in Undecided)' <=> Undecideds(a)'
  BY DEF Links!vars, Undecided, Joined, Undecideds, Hopeful, Deciding, Linking

LEMMA FinishSteps ==
  ASSUME NEW q \in Requests, Kind[q] = "finish", Step(q)
  PROVE  \/ FinishLook(q) \/ FinishEnter(q) \/ FinishClaim(q) \/ FinishOpen(q) \/ FinishTarget(q)
         \/ FinishReplace(q) \/ FinishCommit(q) \/ FinishTidy(q) \/ FinishUndo(q)
<1>1. /\ ~BeginLock(q) /\ ~BeginWrite(q) /\ ~BeginInsert(q)
      /\ \A a \in Attempts : ~SweepRecord(q, a) /\ ~SweepStaged(q, a)
  BY DEF BeginLock, BeginWrite, BeginInsert, SweepRecord, SweepStaged, Is
<1>2. /\ ~CallbackLook(q) /\ ~CallbackTime(q) /\ ~CallbackExpire(q) /\ ~CallbackExpired(q)
      /\ ~CallbackClaim(q) /\ ~CallbackOpen(q) /\ ~CallbackExchange(q) /\ ~CallbackKeep(q)
      /\ ~CallbackAdvance(q) /\ ~CallbackReread(q) /\ ~CallbackFail(q)
  BY DEF CallbackLook, CallbackTime, CallbackExpire, CallbackExpired, CallbackClaim,
         CallbackOpen,
         CallbackExchange, CallbackKeep, CallbackAdvance, CallbackReread, CallbackFail, Is
<1>3. /\ ~Cancel(q) /\ ~Discard(q) /\ ~TokenLook(q) /\ ~TokenServe(q) /\ ~RefreshEnter(q)
      /\ ~RefreshConsult(q) /\ ~RefreshRenew(q) /\ ~RefreshRotate(q) /\ ~RefreshNote(q)
      /\ ~RefreshMark(q) /\ ~RefreshMarked(q)
  BY DEF Cancel, Discard, TokenLook, TokenServe, RefreshEnter, RefreshConsult, RefreshRenew,
         RefreshRotate, RefreshNote, RefreshMark, RefreshMarked, Is, Renews
<1>4. /\ ~Activate(q) /\ ~DisconnectEnter(q) /\ ~DisconnectLock(q) /\ ~DisconnectRevoke(q)
      /\ ~DisconnectClear(q) /\ ~DisconnectDrop(q) /\ ~DisconnectTidy(q)
  BY DEF Activate, DisconnectEnter, DisconnectLock, DisconnectRevoke, DisconnectClear,
         DisconnectDrop, DisconnectTidy, Is
<1> QED
  BY <1>1, <1>2, <1>3, <1>4 DEF Step

\* A confirmation that is on its way was so before, or has just claimed its
\* attempt.
LEMMA DecidingFromClaim ==
  ASSUME NEW q \in Requests, Shape, Step(q), Deciding(q)'
  PROVE  Deciding(q) \/ status'[AttemptOf[q]] = "finishing"
<1> DEFINE Goal == Deciding(q) \/ status'[AttemptOf[q]] = "finishing"
<1> SUFFICES Goal
  OBVIOUS
<1>1. Kind[q] = "finish" /\ pc'[q] \in {"open", "target", "replace", "commit"}
  BY DEF Deciding
<1>2. CASE pc[q] \in {"open", "target", "replace", "commit"}
  BY <1>1, <1>2 DEF Deciding
<1>3. CASE FinishClaim(q)
  BY <1>1, <1>3, Given DEF FinishClaim, Is, Go, End, Shape
<1>4. CASE \/ FinishLook(q) \/ FinishEnter(q) \/ FinishTidy(q) \/ FinishUndo(q)
  BY <1>1, <1>4 DEF FinishLook, FinishEnter, FinishTidy, FinishUndo, Go, End, Shape
<1>5. CASE FinishOpen(q) \/ FinishTarget(q) \/ FinishReplace(q) \/ FinishCommit(q)
  BY <1>1, <1>2, <1>5 DEF FinishOpen, FinishTarget, FinishReplace, FinishCommit, Is
<1> QED
  BY <1>1, <1>3, <1>4, <1>5, FinishSteps

LEMMA UndecidedShrinks ==
  ASSUME LinksInv, NEW q \in Requests, Step(q)
  PROVE  \A a \in Attempts : Undecideds(a)' => Undecideds(a)
<1>1. Shape /\ Frame(q) /\ RowFrame(q) /\ \A p \in Requests : KnowsAttempt(p)
  BY StepKeepsLinksInv DEF LinksInv, Facts
<1>2. ASSUME NEW a \in Attempts, status'[a] \in Hopeful
      PROVE  Undecideds(a)
  BY <1>1, <1>2 DEF RowFrame, Undecideds
<1>3. ASSUME NEW a \in Attempts, NEW p \in Requests, Deciding(p)', AttemptOf[p] = a,
             status'[a] = "expired"
      PROVE  Undecideds(a)
  <2>1. Deciding(p)
    <3>1. CASE p = q
      BY <1>1, <1>3, <3>1, DecidingFromClaim
    <3>2. CASE p # q
      BY <1>1, <1>3, <3>2 DEF Frame, Deciding
    <3> QED
      BY <3>1, <3>2
  <2>2. status[a] \in {"finishing", "expired"}
    BY <1>1, <1>3, <2>1 DEF KnowsAttempt
  <2> QED
    BY <1>3, <2>1, <2>2 DEF Undecideds, Hopeful, Open
<1> QED
  BY <1>2, <1>3 DEF Undecideds

\* Only a confirmation links a connection, and what parts one is a renewal that
\* was refused or a disconnect.
LEMMA StepJoins ==
  ASSUME NEW q \in Requests, Shape, KnowsConnection(q), Step(q)
  PROVE  \/ \A c \in Connections : state'[c] \in Linking <=> state[c] \in Linking
         \/ Linked(q) \/ RefreshMarked(q) \/ DisconnectDrop(q)
<1> DEFINE Goal == \/ \A c \in Connections : state'[c] \in Linking <=> state[c] \in Linking
                   \/ Linked(q) \/ RefreshMarked(q) \/ DisconnectDrop(q)
<1> SUFFICES Goal
  OBVIOUS
<1> USE DEF Shape, States, Linking, Metadata, KnowsConnection, Is, Go, Acquire, Release, End,
            rowVars, Renewed, Renews
<1>1. CASE BeginLock(q)
  BY <1>1 DEF BeginLock
<1>2. CASE BeginWrite(q) \/ BeginInsert(q)
  BY <1>2 DEF BeginWrite, BeginInsert
<1>3. CASE CallbackLook(q) \/ CallbackTime(q) \/ CallbackExpire(q) \/ CallbackExpired(q)
  BY <1>3 DEF CallbackLook, CallbackTime, CallbackExpire, CallbackExpired
<1>4. CASE CallbackClaim(q) \/ CallbackOpen(q) \/ CallbackExchange(q)
  BY <1>4 DEF CallbackClaim, CallbackOpen, CallbackExchange
<1>5. CASE CallbackKeep(q) \/ CallbackAdvance(q) \/ CallbackReread(q) \/ CallbackFail(q)
  BY <1>5 DEF CallbackKeep, CallbackAdvance, CallbackReread, CallbackFail
<1>6. CASE Cancel(q) \/ Discard(q)
  BY <1>6 DEF Cancel, Discard
<1>7. CASE FinishLook(q) \/ FinishEnter(q) \/ FinishClaim(q)
  BY <1>7 DEF FinishLook, FinishEnter, FinishClaim
<1>8. CASE FinishOpen(q)
  BY <1>8 DEF FinishOpen
<1>9. CASE FinishTarget(q) \/ FinishReplace(q)
  BY <1>9 DEF FinishTarget, FinishReplace
<1>10. CASE FinishCommit(q)
  BY <1>10, Commits DEF Unlinked
<1>11. CASE FinishTidy(q) \/ FinishUndo(q)
  BY <1>11 DEF FinishTidy, FinishUndo
<1>12. CASE TokenLook(q) \/ TokenServe(q)
  BY <1>12 DEF TokenLook, TokenServe
<1>13. CASE RefreshEnter(q)
  BY <1>13 DEF RefreshEnter
<1>14. CASE RefreshConsult(q)
  <2>1. Consulted(q)
    BY ONLY <1>14, Consults
  <2> QED
    BY <2>1 DEF Consulted, Renewable
<1>15. CASE RefreshRenew(q) \/ RefreshRotate(q)
  BY <1>15 DEF RefreshRenew, RefreshRotate
<1>16. CASE RefreshNote(q)
  BY <1>16 DEF RefreshNote
<1>17. CASE RefreshMark(q) \/ RefreshMarked(q)
  BY <1>17 DEF RefreshMark
<1>18. CASE Activate(q) \/ DisconnectEnter(q) \/ DisconnectLock(q)
  BY <1>18 DEF Activate, DisconnectEnter, DisconnectLock
<1>19. CASE DisconnectRevoke(q) \/ DisconnectClear(q)
  BY <1>19 DEF DisconnectRevoke, DisconnectClear
<1>20. CASE DisconnectDrop(q)
  BY <1>20
<1>21. CASE DisconnectTidy(q)
  BY <1>21 DEF DisconnectTidy
<1>22. ASSUME NEW a \in Attempts, SweepRecord(q, a) \/ SweepStaged(q, a)
      PROVE  Goal
  BY <1>22 DEF SweepRecord, SweepStaged, SweepTarget
<1> QED
  BY <1>1, <1>2, <1>3, <1>4, <1>5, <1>6, <1>7, <1>8, <1>9, <1>10, <1>11, <1>12, <1>13, <1>14,
     <1>15, <1>16, <1>17, <1>18, <1>19, <1>20, <1>21, <1>22
     DEF Step

\* A confirmation brings its attempt to its end and its connection to its
\* account.
LEMMA CommitConfirms ==
  ASSUME LinksInv, NEW q \in Requests, Step(q), Linked(q)
  PROVE  Links!Confirm(AttemptOf[q], target[q])
<1> DEFINE a == AttemptOf[q]
           c == target[q]
<1>1. Shape /\ Frame(q) /\ KnowsAttempt(q) /\ KnowsConnection(q)
  BY StepKeepsLinksInv DEF LinksInv, Facts
<1>2. Deciding(q) /\ a \in Attempts /\ c \in Connections
  BY <1>1, Given DEF Linked, Is, Deciding, KnowsConnection
<1>3. Undecideds(a)
  BY <1>1, <1>2 DEF KnowsAttempt, Undecideds, Hopeful, Open
<1>4. /\ status'[a] = "complete" /\ \A b \in Attempts \ {a} : status'[b] = status[b]
      /\ state'[c] \in Linking /\ \A d \in Connections \ {c} : state'[d] = state[d]
  BY <1>1, <1>2 DEF Linked, Shape, Metadata, Linking
<1>5. ~Undecideds(a)'
  BY <1>4 DEF Undecideds, Hopeful, Open
<1>6. ASSUME NEW b \in Attempts \ {a}, Undecideds(b)
      PROVE  Undecideds(b)'
  BY <1>1, <1>4, <1>6 DEF Undecideds, Frame, Deciding
<1>7. Undecided' = Undecided \ {a}
  BY <1>2, <1>5, <1>6, UndecidedShrinks, LinksAre DEF Undecided
<1>8. Joined' = Joined \union {c}
  BY <1>2, <1>4 DEF Joined
<1> QED
  BY <1>2, <1>3, <1>7, <1>8, LinksAre DEF Links!Confirm, Joined, Linking

LEMMA LinksStep ==
  ASSUME LinksInv, [Next]_vars
  PROVE  [Links!Next]_(Links!vars)
<1>1. ASSUME NEW q \in Requests, Step(q)
      PROVE  Links!Next
  <2>1. Shape /\ KnowsConnection(q) /\ Frame(q) /\ Undecided' \subseteq Undecided
    BY <1>1, StepKeepsLinksInv, UndecidedShrinks, LinksAre DEF LinksInv, Facts, Undecided
  <2>2. CASE Linked(q)
    <3>1. AttemptOf[q] \in Attempts /\ target[q] \in Connections
      BY <2>1, <2>2, Given DEF Linked, Is, KnowsConnection
    <3>2. Links!Confirm(AttemptOf[q], target[q])
      BY <1>1, <2>2, CommitConfirms
    <3> QED
      BY <3>1, <3>2 DEF Links!Next, Links!Confirm
  <2>3. CASE RefreshMarked(q) \/ DisconnectDrop(q)
    <3>1. /\ ConnectionOf[q] \in Connections /\ state'[ConnectionOf[q]] \notin Linking
          /\ \A d \in Connections \ {ConnectionOf[q]} : state'[d] = state[d]
      BY <2>1, <2>3, Given DEF Shape, RefreshMarked, DisconnectDrop, Linking
    <3>2. Joined' = Joined \ {ConnectionOf[q]}
      BY <3>1 DEF Joined
    <3>3. status' = status /\ Kind[q] # "finish"
      BY <2>3 DEF RefreshMarked, DisconnectDrop, Renews, Is
    <3>4. \A p \in Requests : Deciding(p)' = Deciding(p)
      BY <2>1, <3>3 DEF Frame, Deciding
    <3>5. \A a \in Attempts : Undecideds(a)' = Undecideds(a)
      BY <3>3, <3>4 DEF Undecideds
    <3>6. Undecided' = Undecided
      BY <3>5, LinksAre DEF Undecided
    <3> QED
      BY <3>1, <3>2, <3>6 DEF Links!Next, Links!Part, Joined, Linking
  <2>4. CASE \A c \in Connections : state'[c] \in Linking <=> state[c] \in Linking
    BY <2>1, <2>4 DEF Links!Next, Links!Abandon, Linking
  <2> QED
    BY <1>1, <2>1, <2>2, <2>3, <2>4, StepJoins
<1>2. ASSUME NEW q \in Requests, Crash(q)
      PROVE  Links!Next
  <2>1. status' = status /\ state' = state /\ \A p \in Requests : Deciding(p)' => Deciding(p)
    BY <1>2 DEF LinksInv, Shape, Crash, Go, Deciding, rowVars
  <2>2. \A a \in Attempts : Undecideds(a)' => Undecideds(a)
    BY <2>1 DEF Undecideds
  <2>3. Undecided' \subseteq Undecided /\ Joined' = Joined
    BY <2>1, <2>2, LinksAre DEF Undecided, Joined
  <2> QED
    BY <2>3 DEF Links!Next, Links!Abandon, Joined, Linking
<1>3. ASSUME Idle
      PROVE  UNCHANGED Links!vars
  <2>1. status' = status /\ state' = state /\ pc' = pc
    BY <1>3, IdleChangesLittle DEF rowVars
  <2>2. Undecided' = Undecided /\ Joined' = Joined
    BY <2>1 DEF Undecided, Joined
  <2> QED
    BY <2>2 DEF Links!vars, Joined, Linking
<1> QED
  BY <1>1, <1>2, <1>3, NextIs

\* Spec => KeepsLinks: rows and requests implement what linking promises
\* (LinkedAccounts).
THEOREM LinkingIsKept == Spec => KeepsLinks
<1>1. Init => Links!Init
  BY DEF Init, Links!Init, Undecided, Open
<1>2. LinksInv /\ [Next]_vars => [Links!Next]_(Links!vars)
  BY LinksStep
<1>3. LinksInv /\ [Next]_vars => LinksInv'
  BY NextKeepsLinksInv
<1>4. Init => LinksInv
  BY InitHasLinksInv
<1> QED
  BY <1>1, <1>2, <1>3, <1>4, PTL DEF Spec, KeepsLinks, Links!Spec
-----------------------------------------------------------------------------
(* A cancelled attempt keeps no secrets                                    *)

\* Who fails an attempt goes on to delete its file; who writes the file of one
\* that failed goes on to take it back; and who deletes it does.
FailureFrame(q, a) ==
    /\ status'[a] = "failed" /\ status[a] # "failed" => Discarding(q, a)'
    /\ status[a] = "failed" => \/ records'[a] = records[a] /\ ~Discarding(q, a)
                               \/ records'[a].kind = "none"
                               \/ Discarding(q, a)' /\ ~Discarding(q, a)

LEMMA TidyDeletes ==
  ASSUME NEW q \in Requests, NEW b \in Attempts, Shape, DisconnectTidy(q)
  PROVE  /\ Kind[q] = "disconnect" /\ status' = status
         /\ records'[b] = records[b] \/ records'[b].kind = "none"
<1>1. Kind[q] = "disconnect" /\ status' = status
  BY DEF DisconnectTidy, Is, rowVars
<1>2. \/ records' = records
      \/ \E a \in Attempts : records' = [records EXCEPT ![a] = Missing]
  BY DEF DisconnectTidy, Delete, Put
<1>3. Missing.kind = "none" /\ b \in DOMAIN records
  BY DEF Missing, Plain, Shape, Files
<1> QED
  BY <1>1, <1>2, <1>3

LEMMA StepFailures ==
  ASSUME NEW q \in Requests, NEW b \in Attempts,
         Shape, KnowsAttempt(q), KnowsConnection(q), Step(q)
  PROVE  FailureFrame(q, b)
<1> DEFINE Goal == FailureFrame(q, b)
<1> SUFFICES Goal
  OBVIOUS
<1> USE Given
<1> USE DEF Shape, FailureFrame, Discarding, KnowsAttempt, KnowsConnection, Claimable,
            Cancellable, Is, Go, Release, End, Put, Delete, rowVars, AdvanceOrTakeBack, Renewed,
            Renews, Files, Missing, Plain
<1>1. CASE BeginLock(q)
  BY <1>1 DEF BeginLock
<1>2. CASE BeginWrite(q) \/ BeginInsert(q)
  BY <1>2 DEF BeginWrite, BeginInsert
<1>3. CASE CallbackLook(q) \/ CallbackTime(q) \/ CallbackExpire(q) \/ CallbackExpired(q)
  BY <1>3 DEF CallbackLook, CallbackTime, CallbackExpire, CallbackExpired
<1>4. CASE CallbackClaim(q) \/ CallbackOpen(q) \/ CallbackExchange(q)
  BY <1>4 DEF CallbackClaim, CallbackOpen, CallbackExchange
<1>5. CASE CallbackKeep(q) \/ CallbackAdvance(q) \/ CallbackReread(q) \/ CallbackFail(q)
  BY <1>5 DEF CallbackKeep, CallbackAdvance, CallbackReread, CallbackFail
<1>6. CASE Cancel(q) \/ Discard(q)
  BY <1>6 DEF Cancel, Discard
<1>7. CASE FinishLook(q) \/ FinishEnter(q) \/ FinishClaim(q)
  BY <1>7 DEF FinishLook, FinishEnter, FinishClaim
<1>8. CASE FinishOpen(q)
  BY <1>8 DEF FinishOpen
<1>9. CASE FinishTarget(q) \/ FinishReplace(q)
  BY <1>9 DEF FinishTarget, FinishReplace
<1>10. CASE FinishCommit(q)
  BY <1>10, Commits DEF Linked, Unlinked
<1>11. CASE FinishTidy(q) \/ FinishUndo(q)
  BY <1>11 DEF FinishTidy, FinishUndo
<1>12. CASE TokenLook(q) \/ TokenServe(q)
  BY <1>12 DEF TokenLook, TokenServe
<1>13. CASE RefreshEnter(q)
  BY <1>13 DEF RefreshEnter
<1>14. CASE RefreshConsult(q)
  <2>1. Consulted(q)
    BY ONLY <1>14, Consults
  <2> QED
    BY <2>1 DEF Consulted
<1>15. CASE RefreshRenew(q) \/ RefreshRotate(q)
  BY <1>15 DEF RefreshRenew, RefreshRotate
<1>16. CASE RefreshNote(q)
  BY <1>16 DEF RefreshNote
<1>17. CASE RefreshMark(q) \/ RefreshMarked(q)
  BY <1>17 DEF RefreshMark, RefreshMarked
<1>18. CASE Activate(q) \/ DisconnectEnter(q) \/ DisconnectLock(q)
  BY <1>18 DEF Activate, DisconnectEnter, DisconnectLock
<1>19. CASE DisconnectRevoke(q) \/ DisconnectClear(q)
  BY <1>19 DEF DisconnectRevoke, DisconnectClear
<1>20. CASE DisconnectDrop(q)
  BY <1>20 DEF DisconnectDrop
<1>21. CASE DisconnectTidy(q)
  BY <1>21, TidyDeletes
<1>22. ASSUME NEW a \in Attempts, SweepRecord(q, a) \/ SweepStaged(q, a)
      PROVE  Goal
  BY <1>22 DEF SweepRecord, SweepStaged, SweepTarget
<1> QED
  BY <1>1, <1>2, <1>3, <1>4, <1>5, <1>6, <1>7, <1>8, <1>9, <1>10, <1>11, <1>12, <1>13, <1>14,
     <1>15, <1>16, <1>17, <1>18, <1>19, <1>20, <1>21, <1>22
     DEF Step

LEMMA NextKeepsFailedInv ==
  ASSUME FailedInv, [Next]_vars
  PROVE  FailedInv'
<1>1. LinksInv /\ LinksInv'
  BY NextKeepsLinksInv DEF FailedInv
<1>2. ASSUME NEW a \in Attempts, status'[a] = "failed", NEW q \in Requests, Step(q)
      PROVE  Holds(a, "none")' \/ \E p \in Requests : Discarding(p, a)'
  <2>1. FailureFrame(q, a) /\ Frame(q)
    BY <1>1, <1>2, StepFailures, StepKeepsLinksInv DEF LinksInv, Facts
  <2>2. CASE status[a] # "failed"
    BY <1>2, <2>1, <2>2 DEF FailureFrame
  <2>3. CASE status[a] = "failed" /\ Holds(a, "none")
    BY <2>1, <2>3 DEF FailureFrame, Holds
  <2>4. ASSUME status[a] = "failed", NEW p \in Requests, Discarding(p, a)
        PROVE  Holds(a, "none")' \/ \E r \in Requests : Discarding(r, a)'
    <3>1. CASE p = q
      BY <2>1, <2>4, <3>1 DEF FailureFrame, Holds
    <3>2. CASE p # q
      BY <2>1, <2>4, <3>2 DEF Frame, Discarding
    <3> QED
      BY <3>1, <3>2
  <2> QED
    BY <2>2, <2>3, <2>4 DEF FailedInv
<1>3. ASSUME NEW q \in Requests, Crash(q)
      PROVE  /\ status' = status /\ records' = records
             /\ \A p \in Requests, a \in Attempts : Discarding(p, a) => Discarding(p, a)'
  BY <1>1, <1>3 DEF LinksInv, Shape, Crash, Go, Discarding, rowVars
<1>4. ASSUME Idle
      PROVE  /\ status' = status /\ records' = records
             /\ \A p \in Requests, a \in Attempts : Discarding(p, a) => Discarding(p, a)'
  BY <1>4, IdleChangesLittle DEF Discarding, rowVars
<1>5. CASE \E q \in Requests : Step(q)
  BY <1>1, <1>2, <1>5 DEF FailedInv
<1>6. CASE (\E q \in Requests : Crash(q)) \/ Idle
  BY <1>1, <1>3, <1>4, <1>6 DEF FailedInv, Holds
<1> QED
  BY <1>5, <1>6, NextIs

\* Spec => []CancelledKeepsNoSecrets: when the requests of a cancelled or refused
\* authorization are over, none of them has left its secrets in the vault.
THEOREM FailuresAreCleared == Spec => []CancelledKeepsNoSecrets
<1>1. Init => FailedInv
  <2> SUFFICES ASSUME Init PROVE FailedInv
    OBVIOUS
  <2>1. \A a \in Attempts : status[a] \in {"verified", "absent"}
    BY DEF Init
  <2> QED
    BY <2>1, InitHasLinksInv DEF FailedInv
<1>2. FailedInv /\ [Next]_vars => FailedInv'
  BY NextKeepsFailedInv
<1>3. FailedInv => CancelledKeepsNoSecrets
  BY DEF FailedInv, CancelledKeepsNoSecrets, Discarding, Away
<1> QED
  BY <1>1, <1>2, <1>3, PTL DEF Spec
-----------------------------------------------------------------------------
(* What the vault holds is what the rows say                               *)

Committing(q) == Kind[q] = "finish" /\ pc[q] = "commit"
Rotating(q) == Renews(q) /\ pc[q] = "rotate"
Keeping(q) == Kind[q] = "callback" /\ pc[q] = "keep"

\* The credentials that may come to be used, each at the file it is for: in that
\* file, replaced there by a confirmation that may put them back, or in the hand of
\* the request that is about to write them.
Carries(q, x, r) ==
    \/ Committing(q) /\ x = target[q] /\ r = previous[q]
    \/ Rotating(q) /\ x = ConnectionOf[q] /\ r = hand[q]
    \/ Keeping(q) /\ x = AttemptOf[q] /\ r = hand[q]

Piece(x, r) ==
    /\ r.kind = "credentials"
    /\ \/ /\ x \in Connections /\ r = records[x]
          /\ \A q \in Requests : Committing(q) => target[q] # x
       \/ x \in Attempts /\ Undecideds(x) /\ r = records[x]
       \/ \E q \in Requests : Carries(q, x, r)

\* A token is one the provider issued, and of one file alone.
Issued == /\ issued \in Nat /\ live \subseteq 1 .. issued
          /\ \A x, r : Piece(x, r) => r.token \in 1 .. issued
Apart ==
    \A x, y, r, s :
        Piece(x, r) /\ Piece(y, s) /\ x # y /\ r.token = s.token => x \in apart /\ y \in apart

\* The tokens of an attempt have not been used ...
Unspent == \A a \in Attempts \ apart : \A r : Piece(a, r) => r.token \in live

\* ... and are what its confirmation carries.
KnowsTokens(q) ==
    /\ Kind[q] = "finish" /\ pc[q] \in {"target", "replace", "commit"}
       => hand[q] = records[AttemptOf[q]] /\ hand[q].kind = "credentials"
    /\ Committing(q) => records[target[q]] = hand[q]
    /\ Keeping(q) => hand[q].kind = "credentials"
    /\ Kind[q] = "disconnect" /\ pc[q] = "drop" => ~Holds(ConnectionOf[q], "credentials")
    /\ Renews(q) /\ pc[q] = "renew" => Holds(ConnectionOf[q], "credentials")
    /\ Renews(q) /\ pc[q] \in {"mark", "marked"} => ConnectionOf[q] \in apart

Good(c, r) == r.kind = "credentials" /\ r.account = account[c] /\ r.token \in live
Sound(c, r) == IF state[c] \in Linking THEN Good(c, r) ELSE r.kind # "credentials"

\* A request that is changing the file of a connection.
Changing(q, c) ==
    \/ Committing(q) /\ target[q] = c
    \/ Rotating(q) /\ ConnectionOf[q] = c
    \/ Kind[q] = "disconnect" /\ pc[q] \in {"clear", "drop"} /\ ConnectionOf[q] = c

\* The file of a connection, the one that may be put back and the one that is
\* about to be written are what its row says.
Follows(c) ==
    /\ (\A q \in Requests : ~Changing(q, c)) => Sound(c, records[c])
    /\ \A q \in Requests : Committing(q) /\ target[q] = c => Sound(c, previous[q])
    /\ \A q \in Requests : Rotating(q) /\ ConnectionOf[q] = c => Good(c, hand[q])

\* A callback that won its claim decides alone.
Claiming(q) == Kind[q] = "callback" /\ pc[q] \in {"open", "exchange", "keep", "advance"}
Claimed(q) ==
    Claiming(q) =>
        /\ status[AttemptOf[q]] \in {"exchanging", "failed", "expired"}
        /\ \A p \in Requests \ {q} : Claiming(p) \/ Deciding(p) => AttemptOf[p] # AttemptOf[q]

\* The duplicate a confirmation left goes with the tokens of the connection.
Tidied(c, a) ==
    /\ state[c] = "disconnected" /\ status[a] = "complete" /\ linked[a] = c
    /\ Holds(a, "credentials")
    => \E q \in Requests : /\ Kind[q] = "disconnect" /\ ConnectionOf[q] = c
                           /\ pc[q] = "tidy" /\ <<a, "record">> \in todo[q]

TokensInv ==
    /\ LinksInv /\ Issued /\ Apart /\ Unspent
    /\ \A q \in Requests : KnowsTokens(q) /\ Claimed(q)
    /\ \A c \in Connections \ apart : Follows(c) /\ \A a \in Attempts : Tidied(c, a)

-----------------------------------------------------------------------------
(* The steps that concern what the vault holds                             *)

Owns(q, c) == HoldsConnection(q) /\ At(q) = c

\* Who changes a file, and how: an attempt's loses its tokens or gets those its
\* callback carries, a connection's is its owner's or the remains of no row.
FileFrame(q) ==
    \A i \in Files :
        records'[i] # records[i] =>
            \/ i \in Connections /\ Owns(q, i)
            \/ /\ records'[i].kind # "credentials"
               /\ \/ lock[i] = None /\ (i \in Connections => state[i] = "absent")
                  \/ i \in Attempts /\ (lock[i] = q \/ status[i] = "absent")
            \/ Keeping(q) /\ i = AttemptOf[q] /\ records'[i] = hand[q]

LEMMA StepFiles ==
  ASSUME NEW q \in Requests, Shape, Locked(q), Facts(q), Step(q)
  PROVE  FileFrame(q)
<1> DEFINE Goal == FileFrame(q)
<1> SUFFICES Goal
  OBVIOUS
<1> USE Given
<1> USE DEF Shape, Is, Go, Acquire, Release, End, Put, Delete, Free, rowVars, providerVars, carried,
            Issue, AdvanceOrTakeBack, Renewed, Renews, Files, Missing, Plain, Facts, KnowsAttempt,
            KnowsConnection, FileFrame, Owns, HoldsConnection, At, Keeping
<1>1. CASE BeginLock(q)
  BY <1>1 DEF BeginLock
<1>2. CASE BeginWrite(q) \/ BeginInsert(q)
  BY <1>2 DEF BeginWrite, BeginInsert
<1>3. CASE CallbackLook(q) \/ CallbackTime(q) \/ CallbackExpire(q) \/ CallbackExpired(q)
  BY <1>3 DEF CallbackLook, CallbackTime, CallbackExpire, CallbackExpired
<1>4. CASE CallbackClaim(q) \/ CallbackOpen(q) \/ CallbackExchange(q)
  BY <1>4 DEF CallbackClaim, CallbackOpen, CallbackExchange
<1>5. CASE CallbackKeep(q) \/ CallbackAdvance(q) \/ CallbackReread(q) \/ CallbackFail(q)
  BY <1>5 DEF CallbackKeep, CallbackAdvance, CallbackReread, CallbackFail, Locked, HoldsAttempt
<1>6. CASE Cancel(q) \/ Discard(q)
  BY <1>6 DEF Cancel, Discard
<1>7. CASE FinishLook(q) \/ FinishEnter(q) \/ FinishClaim(q)
  BY <1>7 DEF FinishLook, FinishEnter, FinishClaim
<1>8. CASE FinishOpen(q)
  BY <1>8 DEF FinishOpen
<1>9. CASE FinishTarget(q) \/ FinishReplace(q)
  BY <1>9 DEF FinishTarget, FinishReplace
<1>10. CASE FinishCommit(q)
  <2>1. CASE Linked(q)
    BY <2>1 DEF Linked
  <2>2. CASE Unlinked(q)
    BY <2>2 DEF Unlinked
  <2> QED
    BY <1>10, <2>1, <2>2, Commits
<1>11. CASE FinishTidy(q) \/ FinishUndo(q)
  BY <1>11 DEF FinishTidy, FinishUndo, Locked, HoldsAttempt
<1>12. CASE TokenLook(q) \/ TokenServe(q)
  BY <1>12 DEF TokenLook, TokenServe
<1>13. CASE RefreshEnter(q)
  BY <1>13 DEF RefreshEnter
<1>14. CASE RefreshConsult(q)
  <2>1. Consulted(q)
    BY ONLY <1>14, Consults
  <2> QED
    BY <2>1 DEF Consulted
<1>15. CASE RefreshRenew(q) \/ RefreshRotate(q)
  BY <1>15 DEF RefreshRenew, RefreshRotate
<1>16. CASE RefreshNote(q)
  BY <1>16 DEF RefreshNote
<1>17. CASE RefreshMark(q) \/ RefreshMarked(q)
  BY <1>17 DEF RefreshMark, RefreshMarked
<1>18. CASE Activate(q) \/ DisconnectEnter(q) \/ DisconnectLock(q)
  BY <1>18 DEF Activate, DisconnectEnter, DisconnectLock
<1>19. CASE DisconnectRevoke(q) \/ DisconnectClear(q)
  BY <1>19 DEF DisconnectRevoke, DisconnectClear
<1>20. CASE DisconnectDrop(q)
  BY <1>20 DEF DisconnectDrop
<1>21. CASE DisconnectTidy(q)
  <2>1. \/ records' = records
        \/ \E a \in Attempts : lock[a] = None /\ records' = [records EXCEPT ![a] = Missing]
    BY <1>21 DEF DisconnectTidy
  <2>2. Missing.kind = "none"
    OBVIOUS
  <2> QED
    BY ONLY <2>1, <2>2, Shape, Given DEF Shape, FileFrame, Files
<1>22. ASSUME NEW a \in Attempts, SweepRecord(q, a) \/ SweepStaged(q, a)
      PROVE  Goal
  BY <1>22 DEF SweepRecord, SweepStaged, SweepTarget
<1> QED
  BY <1>1, <1>2, <1>3, <1>4, <1>5, <1>6, <1>7, <1>8, <1>9, <1>10, <1>11, <1>12, <1>13, <1>14,
     <1>15, <1>16, <1>17, <1>18, <1>19, <1>20, <1>21, <1>22
     DEF Step

\* Only its owner rewrites the account of a connection, parts it from its file no
\* longer, or starts to change the file; and a token is spent where it is kept.
TokenFrame(q) ==
    /\ \A c \in Connections :
          account'[c] # account[c] \/ Changing(q, c)' => Owns(q, c)
    /\ \A i \in apart \ apart' : i \in Connections /\ Owns(q, i)
    /\ \A n \in live \ live' :
          /\ HoldsConnection(q) /\ Kind[q] # "finish"
          /\ Holds(At(q), "credentials") /\ n = records[At(q)].token

LEMMA StepTokens ==
  ASSUME NEW q \in Requests, Shape, Locked(q), Facts(q), Step(q), KnowsTokens(q)
  PROVE  TokenFrame(q)
<1> DEFINE Goal == TokenFrame(q)
<1> SUFFICES Goal
  OBVIOUS
<1> USE Given
<1> USE DEF Shape, Is, Go, Acquire, Release, End, Put, Delete, Free, rowVars, providerVars, carried,
            Issue, AdvanceOrTakeBack, Renewed, Renews, Files, TokenFrame, Owns, HoldsConnection, At,
            Changing, Committing, Rotating, Facts, KnowsConnection, Holds
<1>1. CASE BeginLock(q)
  BY <1>1 DEF BeginLock
<1>2. CASE BeginWrite(q) \/ BeginInsert(q)
  BY <1>2 DEF BeginWrite, BeginInsert
<1>3. CASE CallbackLook(q) \/ CallbackTime(q) \/ CallbackExpire(q) \/ CallbackExpired(q)
  BY <1>3 DEF CallbackLook, CallbackTime, CallbackExpire, CallbackExpired
<1>4. CASE CallbackClaim(q) \/ CallbackOpen(q) \/ CallbackExchange(q)
  BY <1>4 DEF CallbackClaim, CallbackOpen, CallbackExchange
<1>5. CASE CallbackKeep(q) \/ CallbackAdvance(q) \/ CallbackReread(q) \/ CallbackFail(q)
  BY <1>5 DEF CallbackKeep, CallbackAdvance, CallbackReread, CallbackFail
<1>6. CASE Cancel(q) \/ Discard(q)
  BY <1>6 DEF Cancel, Discard
<1>7. CASE FinishLook(q) \/ FinishEnter(q) \/ FinishClaim(q)
  BY <1>7 DEF FinishLook, FinishEnter, FinishClaim
<1>8. CASE FinishOpen(q)
  BY <1>8 DEF FinishOpen
<1>9. CASE FinishTarget(q) \/ FinishReplace(q)
  BY <1>9 DEF FinishTarget, FinishReplace
<1>10. CASE FinishCommit(q)
  BY <1>10 DEF FinishCommit
<1>11. CASE FinishTidy(q) \/ FinishUndo(q)
  BY <1>11 DEF FinishTidy, FinishUndo
<1>12. CASE TokenLook(q) \/ TokenServe(q)
  BY <1>12 DEF TokenLook, TokenServe
<1>13. CASE RefreshEnter(q)
  BY <1>13 DEF RefreshEnter
<1>14. CASE RefreshConsult(q)
  <2>1. Consulted(q)
    BY ONLY <1>14, Consults
  <2> QED
    BY <2>1 DEF Consulted
<1>15. CASE RefreshRenew(q) \/ RefreshRotate(q)
  <2>1. CASE RefreshRenew(q)
    <3>1. live' = live \/ live' = (live \ {records[ConnectionOf[q]].token}) \union {issued + 1}
      BY <2>1 DEF RefreshRenew
    <3>2. (live' # live => Holds(ConnectionOf[q], "credentials"))
      BY <2>1 DEF RefreshRenew, KnowsTokens
    <3> QED
      BY <2>1, <3>1, <3>2 DEF RefreshRenew
  <2>2. CASE RefreshRotate(q)
    BY <2>2 DEF RefreshRotate
  <2> QED
    BY <1>15, <2>1, <2>2
<1>16. CASE RefreshNote(q)
  BY <1>16 DEF RefreshNote
<1>17. CASE RefreshMark(q) \/ RefreshMarked(q)
  BY <1>17 DEF RefreshMark, RefreshMarked
<1>18. CASE Activate(q) \/ DisconnectEnter(q) \/ DisconnectLock(q)
  BY <1>18 DEF Activate, DisconnectEnter, DisconnectLock
<1>19. CASE DisconnectRevoke(q) \/ DisconnectClear(q)
  BY <1>19 DEF DisconnectRevoke, DisconnectClear
<1>20. CASE DisconnectDrop(q)
  BY <1>20 DEF DisconnectDrop
<1>21. CASE DisconnectTidy(q)
  BY <1>21 DEF DisconnectTidy
<1>22. ASSUME NEW a \in Attempts, SweepRecord(q, a) \/ SweepStaged(q, a)
      PROVE  Goal
  BY <1>22 DEF SweepRecord, SweepStaged, SweepTarget
<1> QED
  BY <1>1, <1>2, <1>3, <1>4, <1>5, <1>6, <1>7, <1>8, <1>9, <1>10, <1>11, <1>12, <1>13, <1>14,
     <1>15, <1>16, <1>17, <1>18, <1>19, <1>20, <1>21, <1>22
     DEF Step

\* A callback's claim and a confirmation's: what an attempt that was decided may
\* become, and by whom.
ClaimFrame(q) ==
    /\ \A a \in Attempts :
          /\ status[a] \in {"exchanging", "failed", "expired"}
             => \/ status'[a] \in {"exchanging", "failed", "expired"}
                \/ (Claiming(q) \/ Deciding(q)) /\ a = AttemptOf[q]
          /\ status'[a] = "complete"
             => \/ status[a] = "complete" /\ linked'[a] = linked[a]
                \/ Linked(q) /\ a = AttemptOf[q]
    /\ Claiming(q)' => \/ Claiming(q)
                       \/ status[AttemptOf[q]] = "pending"
    /\ Claiming(q)' => status'[AttemptOf[q]] \in {"exchanging", "failed", "expired"}
    /\ Deciding(q)' => Deciding(q) \/ status[AttemptOf[q]] = "verified"

LEMMA StepClaims ==
  ASSUME NEW q \in Requests, Shape, Locked(q), Facts(q), Step(q), Claimed(q)
  PROVE  ClaimFrame(q)
<1> DEFINE Goal == ClaimFrame(q)
<1> SUFFICES Goal
  OBVIOUS
<1> USE Given
<1> USE DEF Shape, Is, Go, Acquire, Release, End, Put, Delete, Free, rowVars, providerVars, carried,
            Issue, AdvanceOrTakeBack, Renewed, Renews, Files, ClaimFrame, Claiming, Claimed,
            Deciding, Claimable, Cancellable, Open, Facts, KnowsAttempt, KnowsTodo
<1>1. CASE BeginLock(q)
  BY <1>1 DEF BeginLock
<1>2. CASE BeginWrite(q) \/ BeginInsert(q)
  BY <1>2 DEF BeginWrite, BeginInsert
<1>3. CASE CallbackLook(q) \/ CallbackTime(q) \/ CallbackExpire(q) \/ CallbackExpired(q)
  BY <1>3 DEF CallbackLook, CallbackTime, CallbackExpire, CallbackExpired
<1>4. CASE CallbackClaim(q) \/ CallbackOpen(q) \/ CallbackExchange(q)
  BY <1>4 DEF CallbackClaim, CallbackOpen, CallbackExchange
<1>5. CASE CallbackKeep(q) \/ CallbackAdvance(q) \/ CallbackReread(q) \/ CallbackFail(q)
  BY <1>5 DEF CallbackKeep, CallbackAdvance, CallbackReread, CallbackFail
<1>6. CASE Cancel(q) \/ Discard(q)
  BY <1>6 DEF Cancel, Discard
<1>7. CASE FinishLook(q) \/ FinishEnter(q) \/ FinishClaim(q)
  BY <1>7 DEF FinishLook, FinishEnter, FinishClaim
<1>8. CASE FinishOpen(q)
  BY <1>8 DEF FinishOpen
<1>9. CASE FinishTarget(q) \/ FinishReplace(q)
  BY <1>9 DEF FinishTarget, FinishReplace
<1>10. CASE FinishCommit(q)
  <2>1. CASE Linked(q)
    <3>1. status'[AttemptOf[q]] = "complete" /\ \A a \in Attempts \ {AttemptOf[q]} :
              status'[a] = status[a] /\ linked'[a] = linked[a]
      BY <2>1 DEF Linked
    <3> QED
      BY <2>1, <3>1 DEF Linked
  <2>2. CASE Unlinked(q)
    BY <2>2 DEF Unlinked
  <2> QED
    BY <1>10, <2>1, <2>2, Commits
<1>11. CASE FinishTidy(q) \/ FinishUndo(q)
  BY <1>11 DEF FinishTidy, FinishUndo
<1>12. CASE TokenLook(q) \/ TokenServe(q)
  BY <1>12 DEF TokenLook, TokenServe
<1>13. CASE RefreshEnter(q)
  BY <1>13 DEF RefreshEnter
<1>14. CASE RefreshConsult(q)
  <2>1. Consulted(q)
    BY ONLY <1>14, Consults
  <2> QED
    BY <2>1 DEF Consulted
<1>15. CASE RefreshRenew(q) \/ RefreshRotate(q)
  BY <1>15 DEF RefreshRenew, RefreshRotate
<1>16. CASE RefreshNote(q)
  BY <1>16 DEF RefreshNote
<1>17. CASE RefreshMark(q) \/ RefreshMarked(q)
  BY <1>17 DEF RefreshMark, RefreshMarked
<1>18. CASE Activate(q) \/ DisconnectEnter(q) \/ DisconnectLock(q)
  BY <1>18 DEF Activate, DisconnectEnter, DisconnectLock
<1>19. CASE DisconnectRevoke(q) \/ DisconnectClear(q)
  BY <1>19 DEF DisconnectRevoke, DisconnectClear
<1>20. CASE DisconnectDrop(q)
  BY <1>20 DEF DisconnectDrop
<1>21. CASE DisconnectTidy(q)
  BY <1>21 DEF DisconnectTidy
<1>22. ASSUME NEW a \in Attempts, SweepRecord(q, a) \/ SweepStaged(q, a)
      PROVE  Goal
  BY <1>22 DEF SweepRecord, SweepStaged, SweepTarget
<1> QED
  BY <1>1, <1>2, <1>3, <1>4, <1>5, <1>6, <1>7, <1>8, <1>9, <1>10, <1>11, <1>12, <1>13, <1>14,
     <1>15, <1>16, <1>17, <1>18, <1>19, <1>20, <1>21, <1>22
     DEF Step

\* A connection is disconnected with what is to be tidied in hand, and that is
\* tidied one file after another.
TidyFrame(q) ==
    /\ \A c \in Connections :
          state'[c] = "disconnected" /\ state[c] # "disconnected"
          => DisconnectDrop(q) /\ c = ConnectionOf[q]
    /\ Kind[q] = "disconnect" /\ pc[q] = "tidy"
       => \A a \in Attempts :
             <<a, "record">> \in todo[q]
             => \/ pc'[q] = "tidy" /\ <<a, "record">> \in todo'[q]
                \/ records'[a].kind = "none"

LEMMA StepTidies ==
  ASSUME NEW q \in Requests, Shape, Locked(q), Facts(q), Step(q)
  PROVE  TidyFrame(q)
<1> DEFINE Goal == TidyFrame(q)
<1> SUFFICES Goal
  OBVIOUS
<1> USE Given
<1> USE DEF Shape, Is, Go, Acquire, Release, End, Put, Delete, Free, rowVars, providerVars, carried,
            Issue, AdvanceOrTakeBack, Renewed, Renews, Files, TidyFrame, States, Metadata, Missing,
            Plain
<1>1. CASE BeginLock(q)
  BY <1>1 DEF BeginLock
<1>2. CASE BeginWrite(q) \/ BeginInsert(q)
  BY <1>2 DEF BeginWrite, BeginInsert
<1>3. CASE CallbackLook(q) \/ CallbackTime(q) \/ CallbackExpire(q) \/ CallbackExpired(q)
  BY <1>3 DEF CallbackLook, CallbackTime, CallbackExpire, CallbackExpired
<1>4. CASE CallbackClaim(q) \/ CallbackOpen(q) \/ CallbackExchange(q)
  BY <1>4 DEF CallbackClaim, CallbackOpen, CallbackExchange
<1>5. CASE CallbackKeep(q) \/ CallbackAdvance(q) \/ CallbackReread(q) \/ CallbackFail(q)
  BY <1>5 DEF CallbackKeep, CallbackAdvance, CallbackReread, CallbackFail
<1>6. CASE Cancel(q) \/ Discard(q)
  BY <1>6 DEF Cancel, Discard
<1>7. CASE FinishLook(q) \/ FinishEnter(q) \/ FinishClaim(q)
  BY <1>7 DEF FinishLook, FinishEnter, FinishClaim
<1>8. CASE FinishOpen(q)
  BY <1>8 DEF FinishOpen
<1>9. CASE FinishTarget(q) \/ FinishReplace(q)
  BY <1>9 DEF FinishTarget, FinishReplace
<1>10. CASE FinishCommit(q)
  <2>1. CASE Linked(q)
    BY <2>1 DEF Linked
  <2>2. CASE Unlinked(q)
    BY <2>2 DEF Unlinked
  <2> QED
    BY <1>10, <2>1, <2>2, Commits
<1>11. CASE FinishTidy(q) \/ FinishUndo(q)
  BY <1>11 DEF FinishTidy, FinishUndo
<1>12. CASE TokenLook(q) \/ TokenServe(q)
  BY <1>12 DEF TokenLook, TokenServe
<1>13. CASE RefreshEnter(q)
  BY <1>13 DEF RefreshEnter
<1>14. CASE RefreshConsult(q)
  <2>1. Consulted(q)
    BY ONLY <1>14, Consults
  <2> QED
    BY <2>1 DEF Consulted
<1>15. CASE RefreshRenew(q) \/ RefreshRotate(q)
  BY <1>15 DEF RefreshRenew, RefreshRotate
<1>16. CASE RefreshNote(q)
  BY <1>16 DEF RefreshNote
<1>17. CASE RefreshMark(q) \/ RefreshMarked(q)
  BY <1>17 DEF RefreshMark, RefreshMarked
<1>18. CASE Activate(q) \/ DisconnectEnter(q) \/ DisconnectLock(q)
  BY <1>18 DEF Activate, DisconnectEnter, DisconnectLock
<1>19. CASE DisconnectRevoke(q) \/ DisconnectClear(q)
  BY <1>19 DEF DisconnectRevoke, DisconnectClear
<1>20. CASE DisconnectDrop(q)
  BY <1>20 DEF DisconnectDrop
<1>21. CASE DisconnectTidy(q)
  <2>1. state' = state
    BY <1>21 DEF DisconnectTidy
  <2>2. ASSUME NEW a \in Attempts, records' = [records EXCEPT ![a] = Missing],
               todo'[q] = todo[q] \ {<<a, "record">>}, pc'[q] = "tidy"
        PROVE  \A b \in Attempts : <<b, "record">> \in todo[q]
                  => \/ pc'[q] = "tidy" /\ <<b, "record">> \in todo'[q]
                     \/ records'[b].kind = "none"
    BY <2>2
  <2>3. \/ todo[q] = {}
        \/ \E a \in Attempts : /\ records' = [records EXCEPT ![a] = Missing]
                              /\ todo'[q] = todo[q] \ {<<a, "record">>} /\ pc'[q] = "tidy"
    BY <1>21 DEF DisconnectTidy
  <2> QED
    BY ONLY <2>1, <2>2, <2>3 DEF TidyFrame
<1>22. ASSUME NEW a \in Attempts, SweepRecord(q, a) \/ SweepStaged(q, a)
      PROVE  Goal
  BY <1>22 DEF SweepRecord, SweepStaged, SweepTarget
<1> QED
  BY <1>1, <1>2, <1>3, <1>4, <1>5, <1>6, <1>7, <1>8, <1>9, <1>10, <1>11, <1>12, <1>13, <1>14,
     <1>15, <1>16, <1>17, <1>18, <1>19, <1>20, <1>21, <1>22
     DEF Step

\* A renewal that finds credentials of its account has no reason to drop them.
LEMMA GoodConsult ==
  ASSUME NEW q \in Requests, Shape, RefreshConsult(q),
         Fits(records[ConnectionOf[q]], ConnectionOf[q]), Holds(ConnectionOf[q], "credentials")
  PROVE  /\ Kind[q] \in {"refresh", "token"} /\ UNCHANGED <<records, apart>>
         /\ pc'[q] \in {"done", "serve again", "renew"}
<1>1. Kind[q] \in {"refresh", "token"} /\ UNCHANGED <<records, apart>>
  BY DEF RefreshConsult, Renews
<1>2. ~Holds(ConnectionOf[q], "none")
  BY DEF Holds
<1>3. \/ Go(q, "done") \/ Go(q, "serve again") \/ Go(q, "renew")
  BY <1>2 DEF RefreshConsult, Renewed, End
<1> QED
  BY <1>1, <1>3 DEF Go, Shape

LEMMA StepKnowsTokens ==
  ASSUME NEW q \in Requests, Shape, Locked(q), Facts(q), Step(q), KnowsTokens(q), TokenFrame(q),
         Renews(q) /\ pc[q] \in {"consult", "renew"} /\ ConnectionOf[q] \notin apart
            => Sound(ConnectionOf[q], records[ConnectionOf[q]])
  PROVE  KnowsTokens(q)'
<1> DEFINE Goal == KnowsTokens(q)'
<1> SUFFICES Goal
  OBVIOUS
<1> USE Given
<1> USE DEF Shape, Is, Go, Acquire, Release, End, Put, Delete, Free, rowVars, providerVars, carried,
            Issue, AdvanceOrTakeBack, Renewed, Renews, Files, Missing, Plain, KnowsTokens,
            Committing, Keeping, Facts, KnowsConnection, Holds
<1>1. CASE BeginLock(q)
  BY <1>1 DEF BeginLock
<1>2. CASE BeginWrite(q) \/ BeginInsert(q)
  BY <1>2 DEF BeginWrite, BeginInsert
<1>3. CASE CallbackLook(q) \/ CallbackTime(q) \/ CallbackExpire(q) \/ CallbackExpired(q)
  BY <1>3 DEF CallbackLook, CallbackTime, CallbackExpire, CallbackExpired
<1>4. CASE CallbackClaim(q) \/ CallbackOpen(q) \/ CallbackExchange(q)
  BY <1>4 DEF CallbackClaim, CallbackOpen, CallbackExchange
<1>5. CASE CallbackKeep(q) \/ CallbackAdvance(q) \/ CallbackReread(q) \/ CallbackFail(q)
  BY <1>5 DEF CallbackKeep, CallbackAdvance, CallbackReread, CallbackFail
<1>6. CASE Cancel(q) \/ Discard(q)
  BY <1>6 DEF Cancel, Discard
<1>7. CASE FinishLook(q) \/ FinishEnter(q) \/ FinishClaim(q)
  BY <1>7 DEF FinishLook, FinishEnter, FinishClaim
<1>8. CASE FinishOpen(q)
  BY <1>8 DEF FinishOpen
<1>9. CASE FinishTarget(q) \/ FinishReplace(q)
  BY <1>9 DEF FinishTarget, FinishReplace
<1>10. CASE FinishCommit(q)
  <2>1. CASE Linked(q)
    BY <2>1 DEF Linked
  <2>2. CASE Unlinked(q)
    BY <2>2 DEF Unlinked
  <2> QED
    BY <1>10, <2>1, <2>2, Commits
<1>11. CASE FinishTidy(q) \/ FinishUndo(q)
  BY <1>11 DEF FinishTidy, FinishUndo
<1>12. CASE TokenLook(q) \/ TokenServe(q)
  BY <1>12 DEF TokenLook, TokenServe
<1>13. CASE RefreshEnter(q)
  BY <1>13 DEF RefreshEnter
<1>14. CASE RefreshConsult(q)
  <2>1. CASE /\ Fits(records[ConnectionOf[q]], ConnectionOf[q])
             /\ Holds(ConnectionOf[q], "credentials")
    <3>1. /\ Kind[q] \in {"refresh", "token"} /\ UNCHANGED <<records, apart>>
          /\ pc'[q] \in {"done", "serve again", "renew"}
      BY ONLY <1>14, <2>1, Shape, GoodConsult
    <3> QED
      BY <2>1, <3>1
  <2>2. CASE ~(/\ Fits(records[ConnectionOf[q]], ConnectionOf[q])
               /\ Holds(ConnectionOf[q], "credentials"))
    <3>1. pc[q] = "consult" /\ (pc'[q] = "mark" => Renewable(ConnectionOf[q]))
          /\ pc'[q] \in {"mark", "done"} /\ apart' = apart
      BY <1>14, <2>2 DEF RefreshConsult
    <3>2. Renewable(ConnectionOf[q]) => state[ConnectionOf[q]] \in Linking
      BY <1>14, <3>1 DEF Renewable, Linking, States, RefreshConsult
    <3>3. Renewable(ConnectionOf[q]) => ConnectionOf[q] \in apart
      BY <1>14, <2>2, <3>1, <3>2 DEF Sound, Good, Fits, RefreshConsult
    <3> QED
      BY <1>14, <3>1, <3>3 DEF RefreshConsult
  <2> QED
    BY <2>1, <2>2
<1>15. CASE RefreshRenew(q) \/ RefreshRotate(q)
  <2>1. CASE RefreshRenew(q)
    <3>1. ConnectionOf[q] \notin apart => records[ConnectionOf[q]].token \in live
      BY <2>1 DEF RefreshRenew, Sound, Good
    <3> QED
      BY <2>1, <3>1 DEF RefreshRenew
  <2>2. CASE RefreshRotate(q)
    BY <2>2 DEF RefreshRotate
  <2> QED
    BY <1>15, <2>1, <2>2
<1>16. CASE RefreshNote(q)
  <2>1. Renews(q) /\ pc'[q] \in {"serve again", "done"}
    BY <1>16, NoteGoesOn
  <2> QED
    BY <2>1
<1>17. CASE RefreshMark(q) \/ RefreshMarked(q)
  BY <1>17 DEF RefreshMark, RefreshMarked
<1>18. CASE Activate(q) \/ DisconnectEnter(q) \/ DisconnectLock(q)
  BY <1>18 DEF Activate, DisconnectEnter, DisconnectLock
<1>19. CASE DisconnectRevoke(q) \/ DisconnectClear(q)
  BY <1>19 DEF DisconnectRevoke, DisconnectClear
<1>20. CASE DisconnectDrop(q)
  BY <1>20 DEF DisconnectDrop
<1>21. CASE DisconnectTidy(q)
  BY <1>21 DEF DisconnectTidy
<1>22. ASSUME NEW a \in Attempts, SweepRecord(q, a) \/ SweepStaged(q, a)
      PROVE  Goal
  BY <1>22 DEF SweepRecord, SweepStaged, SweepTarget
<1> QED
  BY <1>1, <1>2, <1>3, <1>4, <1>5, <1>6, <1>7, <1>8, <1>9, <1>10, <1>11, <1>12, <1>13, <1>14,
     <1>15, <1>16, <1>17, <1>18, <1>19, <1>20, <1>21, <1>22
     DEF Step

LEMMA OthersKnowTokens ==
  ASSUME NEW q \in Requests, NEW p \in Requests \ {q}, Frame(q), FileFrame(q), TokenFrame(q),
         Locked(q), Locked(p), Facts(q), Facts(p), KnowsTokens(p)
  PROVE  KnowsTokens(p)'
<1> USE Given
<1>1. /\ pc'[p] = pc[p] /\ target'[p] = target[p] /\ hand'[p] = hand[p]
  BY DEF Frame
<1>2. ASSUME HoldsConnection(p)
      PROVE  /\ records'[At(p)] = records[At(p)]
             /\ At(p) \in apart => At(p) \in apart'
  <2>1. At(p) \in Connections /\ lock[At(p)] = p /\ ~Owns(q, At(p))
    BY <1>2 DEF Owns, Locked, Facts, KnowsConnection, HoldsConnection, At, Renews
  <2> QED
    BY <1>2, <2>1 DEF FileFrame, TokenFrame, Files, Keeping
<1>3. ASSUME HoldsAttempt(p), Kind[p] = "finish", pc[p] # "tidy"
      PROVE  records'[AttemptOf[p]] = records[AttemptOf[p]]
  <2>1. lock[AttemptOf[p]] = p /\ status[AttemptOf[p]] # "absent"
    BY <1>3 DEF Locked, Facts, KnowsAttempt, Deciding, HoldsAttempt
  <2>2. Keeping(q) => AttemptOf[q] # AttemptOf[p]
    BY <2>1 DEF Keeping, Locked, HoldsAttempt
  <2> QED
    BY <2>1, <2>2 DEF FileFrame, Files
<1> QED
  BY <1>1, <1>2, <1>3
     DEF KnowsTokens, Committing, Keeping, Renews, HoldsConnection, HoldsAttempt, At, Holds

-----------------------------------------------------------------------------
(* Every token stays where it is for                                       *)

\* The steps that bring credentials anywhere, and all the others.
Lively(q) == \/ CallbackExchange(q) \/ CallbackKeep(q) \/ FinishReplace(q)
             \/ FinishCommit(q) \/ RefreshRenew(q) \/ RefreshRotate(q)
Calm(q) ==
    /\ \A i \in Files : records'[i] = records[i] \/ records'[i].kind # "credentials"
    /\ ~Committing(q) /\ ~Committing(q)' /\ ~Rotating(q)' /\ ~Keeping(q)'
    /\ issued' = issued /\ live' \subseteq live
    /\ apart' = apart \/ DisconnectDrop(q)

LEMMA StepCalm ==
  ASSUME NEW q \in Requests, Shape, Locked(q), Facts(q), Step(q)
  PROVE  Calm(q) \/ Lively(q)
<1> DEFINE Goal == Calm(q) \/ Lively(q)
<1> SUFFICES Goal
  OBVIOUS
<1> USE Given
<1> USE DEF Shape, Is, Go, Acquire, Release, End, Put, Delete, Free, rowVars, providerVars, carried,
            AdvanceOrTakeBack, Renewed, Renews, Files, Missing, Plain, Calm, Committing, Rotating,
            Keeping
<1>1. CASE BeginLock(q)
  BY <1>1 DEF BeginLock
<1>2. CASE BeginWrite(q) \/ BeginInsert(q)
  BY <1>2 DEF BeginWrite, BeginInsert
<1>3. CASE CallbackLook(q) \/ CallbackTime(q) \/ CallbackExpire(q) \/ CallbackExpired(q)
  BY <1>3 DEF CallbackLook, CallbackTime, CallbackExpire, CallbackExpired
<1>4. CASE CallbackClaim(q) \/ CallbackOpen(q) \/ CallbackExchange(q)
  BY <1>4 DEF CallbackClaim, CallbackOpen, Lively
<1>5. CASE CallbackKeep(q) \/ CallbackAdvance(q) \/ CallbackReread(q) \/ CallbackFail(q)
  BY <1>5 DEF CallbackAdvance, CallbackReread, CallbackFail, Lively
<1>6. CASE Cancel(q) \/ Discard(q)
  BY <1>6 DEF Cancel, Discard
<1>7. CASE FinishLook(q) \/ FinishEnter(q) \/ FinishClaim(q)
  BY <1>7 DEF FinishLook, FinishEnter, FinishClaim
<1>8. CASE FinishOpen(q)
  BY <1>8 DEF FinishOpen
<1>9. CASE FinishTarget(q) \/ FinishReplace(q)
  BY <1>9 DEF FinishTarget, Lively
<1>10. CASE FinishCommit(q)
  BY <1>10 DEF Lively
<1>11. CASE FinishTidy(q) \/ FinishUndo(q)
  BY <1>11 DEF FinishTidy, FinishUndo
<1>12. CASE TokenLook(q) \/ TokenServe(q)
  BY <1>12 DEF TokenLook, TokenServe
<1>13. CASE RefreshEnter(q)
  BY <1>13 DEF RefreshEnter
<1>14. CASE RefreshConsult(q)
  <2>1. Consulted(q)
    BY ONLY <1>14, Consults
  <2> QED
    BY <2>1 DEF Consulted
<1>15. CASE RefreshRenew(q) \/ RefreshRotate(q)
  BY <1>15 DEF Lively
<1>16. CASE RefreshNote(q)
  <2>1. Renews(q) /\ pc'[q] \in {"serve again", "done"}
    BY <1>16, NoteGoesOn
  <2>2. UNCHANGED <<records, issued, live, apart>> /\ pc[q] = "note"
    BY <1>16 DEF RefreshNote
  <2> QED
    BY <2>1, <2>2
<1>17. CASE RefreshMark(q) \/ RefreshMarked(q)
  BY <1>17 DEF RefreshMark, RefreshMarked
<1>18. CASE Activate(q) \/ DisconnectEnter(q) \/ DisconnectLock(q)
  BY <1>18 DEF Activate, DisconnectEnter, DisconnectLock
<1>19. CASE DisconnectRevoke(q) \/ DisconnectClear(q)
  BY <1>19 DEF DisconnectRevoke, DisconnectClear
<1>20. CASE DisconnectDrop(q)
  BY <1>20 DEF DisconnectDrop
<1>21. CASE DisconnectTidy(q)
  <2>1. \/ records' = records
        \/ \E a \in Attempts : records' = [records EXCEPT ![a] = Missing]
    BY <1>21 DEF DisconnectTidy
  <2>2. Missing.kind = "none"
    OBVIOUS
  <2>3. \A i \in Files : records'[i] = records[i] \/ records'[i].kind # "credentials"
    BY ONLY <2>1, <2>2, Shape DEF Shape, Files
  <2> QED
    BY <1>21, <2>3 DEF DisconnectTidy
<1>22. ASSUME NEW a \in Attempts, SweepRecord(q, a) \/ SweepStaged(q, a)
      PROVE  Goal
  BY <1>22 DEF SweepRecord, SweepStaged, SweepTarget
<1> QED
  BY <1>1, <1>2, <1>3, <1>4, <1>5, <1>6, <1>7, <1>8, <1>9, <1>10, <1>11, <1>12, <1>13, <1>14,
     <1>15, <1>16, <1>17, <1>18, <1>19, <1>20, <1>21, <1>22
     DEF Step

\* Two requests never commit at a time, nor change one connection.
LEMMA OneChanges ==
  ASSUME NEW p \in Requests, NEW q \in Requests, Locked(p), Locked(q)
  PROVE  /\ Committing(p) /\ Committing(q) => p = q
         /\ \A c : Owns(p, c) /\ Owns(q, c) => p = q
         /\ \A c : Changing(p, c) => Owns(p, c)
         /\ Keeping(p) /\ Keeping(q) /\ AttemptOf[p] = AttemptOf[q] => p = q
  BY Given DEF Locked, HoldsUser, HoldsAttempt, HoldsConnection, At, Owns, Changing, Committing,
         Rotating, Keeping, Renews

\* A piece that is not where it was: in the hand of the request that steps, in a
\* file it changes, or in the one it was replacing.
LEMMA PieceCases ==
  ASSUME NEW q \in Requests, Frame(q), \A a \in Attempts : Undecideds(a)' => Undecideds(a),
         KnowsConnection(q)', NEW x, NEW r, Piece(x, r)', ~Piece(x, r)
  PROVE  \/ Carries(q, x, r)'
         \/ /\ x \in Files /\ r = records'[x] /\ ~(Committing(q)' /\ x = target'[q])
            /\ records'[x] # records[x] \/ (Committing(q) /\ x = target[q])
<1>1. r.kind = "credentials"
  BY DEF Piece
<1>2. \A p \in Requests \ {q} : /\ Carries(p, x, r)' = Carries(p, x, r)
                               /\ Committing(p)' = Committing(p) /\ target'[p] = target[p]
  BY DEF Frame, Carries, Committing, Rotating, Keeping, Renews
<1>3. CASE /\ x \in Connections /\ r = records'[x]
           /\ \A p \in Requests : Committing(p)' => target'[p] # x
  <2>1. ASSUME records'[x] = records[x]
        PROVE  Committing(q) /\ x = target[q]
    <3>1. PICK p \in Requests : Committing(p) /\ target[p] = x
      BY <1>1, <1>3, <2>1 DEF Piece
    <3> QED
      BY <1>2, <1>3, <3>1
  <2> QED
    BY <1>3, <2>1 DEF Files, Committing
<1>4. CASE x \in Attempts /\ Undecideds(x)' /\ r = records'[x]
  <2>1. records'[x] # records[x]
    BY <1>1, <1>4 DEF Piece
  <2>2. ~(Committing(q)' /\ x = target'[q])
    BY <1>4, Given DEF KnowsConnection, Committing
  <2> QED
    BY <1>4, <2>1, <2>2 DEF Files, Committing
<1>5. CASE \E p \in Requests : Carries(p, x, r)'
  BY <1>1, <1>2, <1>5 DEF Piece
<1> QED
  BY <1>3, <1>4, <1>5 DEF Piece

\* A connection's own file is a piece while its owner is not replacing it.
LEMMA OwnPiece ==
  ASSUME TokensInv, NEW q \in Requests, HoldsConnection(q), ~Committing(q),
         Holds(At(q), "credentials")
  PROVE  Piece(At(q), records[At(q)]) /\ At(q) \in Connections
<1>1. At(q) \in Connections
  BY Given DEF TokensInv, LinksInv, Facts, KnowsConnection, HoldsConnection, At, Renews
<1>2. ASSUME NEW p \in Requests, Committing(p), target[p] = At(q)
      PROVE  FALSE
  <2>1. Owns(p, At(q)) /\ Owns(q, At(q))
    BY <1>2 DEF Owns, HoldsConnection, At, Committing
  <2> QED
    BY <1>2, <2>1, OneChanges DEF TokensInv, LinksInv
<1> QED
  BY <1>1, <1>2 DEF Piece, Holds

\* A confirmation carries a piece of its attempt.
LEMMA OwnAttempt ==
  ASSUME TokensInv, NEW q \in Requests, Kind[q] = "finish",
         pc[q] \in {"target", "replace", "commit"}
  PROVE  Piece(AttemptOf[q], hand[q]) /\ target[q] \in Connections
<1>1. /\ hand[q] = records[AttemptOf[q]] /\ hand[q].kind = "credentials"
      /\ target[q] \in Connections /\ Deciding(q)
      /\ status[AttemptOf[q]] \in {"finishing", "expired"}
  BY DEF TokensInv, LinksInv, Facts, KnowsTokens, KnowsConnection, KnowsAttempt, Deciding
<1>2. Undecideds(AttemptOf[q])
  BY <1>1 DEF Undecideds, Hopeful, Open
<1> QED
  BY <1>1, <1>2, Given DEF Piece

\* What the step of a request may build on.
Known(q) ==
    /\ Shape /\ Shape' /\ Frame(q) /\ Locked(q) /\ Facts(q) /\ Facts(q)' /\ KnowsTokens(q)
    /\ FileFrame(q) /\ TokenFrame(q) /\ \A a \in Attempts : Undecideds(a)' => Undecideds(a)

LEMMA Knows ==
  ASSUME TokensInv, NEW q \in Requests, Step(q)
  PROVE  Known(q)
  BY StepKeepsLinksInv, StepFiles, StepTokens, UndecidedShrinks DEF TokensInv, LinksInv, Known

\* Credentials that change their place within the vault or leave a hand.
Settles(q) == /\ \A x, r : Piece(x, r)' => Piece(x, r)
              /\ issued' = issued /\ live' \subseteq live
              /\ apart \subseteq apart' \/ DisconnectDrop(q)

LEMMA CalmSettles ==
  ASSUME NEW q \in Requests, Known(q), Calm(q)
  PROVE  Settles(q)
<1>1. ASSUME NEW x, NEW r, Piece(x, r)', ~Piece(x, r)
      PROVE  FALSE
  <2>1. r.kind = "credentials" /\ ~Carries(q, x, r)'
    BY <1>1 DEF Piece, Calm, Carries
  <2>2. /\ x \in Files /\ r = records'[x] /\ records'[x] # records[x]
    BY <1>1, <2>1, PieceCases DEF Known, Facts, Calm
  <2> QED
    BY <2>1, <2>2 DEF Calm
<1> QED
  BY <1>1 DEF Settles, Calm

LEMMA KeepSettles ==
  ASSUME NEW q \in Requests, Known(q), CallbackKeep(q)
  PROVE  Settles(q)
<1>1. /\ Keeping(q) /\ ~Committing(q) /\ ~Committing(q)' /\ ~Rotating(q)' /\ ~Keeping(q)'
      /\ UNCHANGED <<issued, live, apart>>
  BY DEF CallbackKeep, Is, Go, Known, Shape, Committing, Rotating, Keeping, Renews, providerVars
<1>2. \A i \in Files : records'[i] = records[i] \/ (i = AttemptOf[q] /\ records'[i] = hand[q])
  <2>1. DOMAIN records = Files
    BY DEF Known, Shape
  <2> QED
    BY <2>1 DEF CallbackKeep, Put
<1>3. ASSUME NEW x, NEW r, Piece(x, r)', ~Piece(x, r)
      PROVE  FALSE
  <2>1. r.kind = "credentials" /\ ~Carries(q, x, r)'
    BY <1>1, <1>3 DEF Piece, Carries
  <2>2. /\ x \in Files /\ r = records'[x] /\ records'[x] # records[x]
    BY <1>1, <1>3, <2>1, PieceCases DEF Known, Facts
  <2>3. Carries(q, x, r)
    BY <1>1, <1>2, <2>2 DEF Carries
  <2> QED
    BY <1>3, <2>1, <2>3 DEF Piece
<1> QED
  BY <1>1, <1>3 DEF Settles

LEMMA RotateSettles ==
  ASSUME NEW q \in Requests, Known(q), RefreshRotate(q)
  PROVE  Settles(q)
<1>1. /\ Rotating(q) /\ ~Committing(q) /\ ~Committing(q)' /\ ~Rotating(q)' /\ ~Keeping(q)'
      /\ UNCHANGED <<issued, live, apart>>
  BY DEF RefreshRotate, Go, Known, Shape, Committing, Rotating, Keeping, Renews, providerVars
<1>2. \A i \in Files : records'[i] = records[i] \/ (i = ConnectionOf[q] /\ records'[i] = hand[q])
  <2>1. DOMAIN records = Files
    BY DEF Known, Shape
  <2> QED
    BY <2>1 DEF RefreshRotate, Put
<1>3. ASSUME NEW x, NEW r, Piece(x, r)', ~Piece(x, r)
      PROVE  FALSE
  <2>1. r.kind = "credentials" /\ ~Carries(q, x, r)'
    BY <1>1, <1>3 DEF Piece, Carries
  <2>2. /\ x \in Files /\ r = records'[x] /\ records'[x] # records[x]
    BY <1>1, <1>3, <2>1, PieceCases DEF Known, Facts
  <2>3. Carries(q, x, r)
    BY <1>1, <1>2, <2>2 DEF Carries
  <2> QED
    BY <1>3, <2>1, <2>3 DEF Piece
<1> QED
  BY <1>1, <1>3 DEF Settles

LEMMA ReplaceSettles ==
  ASSUME TokensInv, NEW q \in Requests, Known(q), FinishReplace(q)
  PROVE  Settles(q)
<1>1. /\ ~Committing(q) /\ ~Rotating(q)' /\ ~Keeping(q)' /\ UNCHANGED <<issued, live, apart>>
      /\ Kind[q] = "finish" /\ pc[q] = "replace"
  BY DEF FinishReplace, Is, Go, Known, Shape, Committing, Rotating, Keeping, Renews, providerVars
<1>2. /\ \A i \in Files : records'[i] # records[i] => i = target[q] /\ Committing(q)'
      /\ target' = target
      /\ Committing(q)' => previous'[q] = records[target[q]]
  BY <1>1 DEF FinishReplace, Put, Known, Shape, Go, Committing
<1>3. HoldsConnection(q) /\ At(q) = target[q]
  BY <1>1 DEF HoldsConnection, At
<1>4. ASSUME NEW x, NEW r, Piece(x, r)', ~Piece(x, r)
      PROVE  FALSE
  <2>1. CASE Carries(q, x, r)'
    <3>1. x = target[q] /\ r = records[x] /\ r.kind = "credentials"
      BY <1>1, <1>2, <1>4, <2>1 DEF Carries, Piece
    <3> QED
      BY <1>1, <1>3, <1>4, <3>1, OwnPiece DEF Holds
  <2>2. CASE ~Carries(q, x, r)'
    BY <1>1, <1>2, <1>4, <2>2, PieceCases DEF Known, Facts
  <2> QED
    BY <2>1, <2>2
<1> QED
  BY <1>1, <1>4 DEF Settles

\* The provider issues a token to the request that asks.
Issues(q) ==
    /\ issued' = issued + 1 /\ live' \subseteq live \union {issued'}
    /\ apart \subseteq apart'
    /\ \E w : \A x, r : Piece(x, r)' =>
          Piece(x, r) \/ (x = w /\ r.token = issued' /\ issued' \in live')

LEMMA ExchangeIssues ==
  ASSUME NEW q \in Requests, Known(q), CallbackExchange(q)
  PROVE  Settles(q) \/ Issues(q)
<1>1. /\ ~Committing(q) /\ ~Committing(q)' /\ ~Rotating(q)' /\ UNCHANGED <<records, apart>>
      /\ AttemptOf[q] \in Attempts
  <2>1. DOMAIN pc = Requests
    BY DEF Known, Shape
  <2> QED
    BY <2>1, Given DEF CallbackExchange, Is, Committing, Rotating, Renews
<1>2. ASSUME NEW x, NEW r, Piece(x, r)', ~Piece(x, r)
      PROVE  x = AttemptOf[q] /\ r = hand'[q] /\ Keeping(q)'
  <2>1. Carries(q, x, r)'
    BY <1>1, <1>2, PieceCases DEF Known, Facts
  <2> QED
    BY <1>1, <2>1 DEF Carries
<1>3. CASE \E who \in Accounts : Issue(q, who, {})
  <2>1. /\ issued' = issued + 1 /\ live' = live \union {issued'}
        /\ hand'[q].token = issued'
    <3>1. DOMAIN hand = Requests
      BY DEF Known, Shape
    <3> QED
      BY <1>3, <3>1 DEF Issue
  <2> QED
    BY <1>1, <1>2, <2>1 DEF Issues
<1>4. CASE ~\E who \in Accounts : Issue(q, who, {})
  <2>1. /\ issued' = issued /\ live' = live /\ pc' = [pc EXCEPT ![q] = "fail"]
    BY <1>4 DEF CallbackExchange, providerVars, Go
  <2>2. ~Keeping(q)'
    BY <2>1 DEF Known, Shape, Keeping
  <2> QED
    BY <1>1, <1>2, <2>1, <2>2 DEF Settles
<1> QED
  BY <1>3, <1>4

LEMMA RenewIssues ==
  ASSUME NEW q \in Requests, Known(q), RefreshRenew(q)
  PROVE  Settles(q) \/ Issues(q)
<1> DEFINE c == ConnectionOf[q]
           t == records[c].token
<1>1. /\ ~Committing(q) /\ ~Committing(q)' /\ ~Keeping(q)' /\ records' = records
      /\ apart \subseteq apart' /\ c \in Connections
  <2>1. DOMAIN pc = Requests
    BY DEF Known, Shape
  <2> QED
    BY <2>1, Given DEF RefreshRenew, Committing, Keeping, Renews
<1>2. ASSUME NEW x, NEW r, Piece(x, r)', ~Piece(x, r)
      PROVE  x = c /\ r = hand'[q] /\ Rotating(q)'
  <2>1. Carries(q, x, r)'
    BY <1>1, <1>2, PieceCases DEF Known, Facts
  <2> QED
    BY <1>1, <2>1 DEF Carries
<1>3. CASE Issue(q, records[c].account, {t})
  <2>1. /\ issued' = issued + 1 /\ live' = (live \ {t}) \union {issued'}
        /\ hand'[q].token = issued'
    <3>1. DOMAIN hand = Requests
      BY DEF Known, Shape
    <3> QED
      BY <1>3, <3>1 DEF Issue
  <2> QED
    BY <1>1, <1>2, <2>1 DEF Issues
<1>4. CASE ~Issue(q, records[c].account, {t})
  <2>1. /\ issued' = issued /\ live' = live
        /\ pc' = [pc EXCEPT ![q] = "done"] \/ pc' = [pc EXCEPT ![q] = "mark"]
    BY <1>4 DEF RefreshRenew, providerVars, Go, End
  <2>2. ~Rotating(q)'
    BY <2>1 DEF Known, Shape, Rotating
  <2> QED
    BY <1>1, <1>2, <2>1, <2>2 DEF Settles
<1> QED
  BY <1>3, <1>4

\* A confirmation takes the tokens of its attempt along ...
Takes(q) ==
    LET a == AttemptOf[q]  c == target[q]
    IN  /\ a \in Attempts /\ c \in Connections /\ Piece(a, hand[q])
        /\ \A x, r : Piece(x, r)' => Piece(x, r) \/ (x = c /\ r = hand[q])
        /\ \A x, r : Piece(x, r)' => x # a /\ (x = c => r = hand[q])
        /\ apart' = IF a \in apart THEN apart \union {c} ELSE apart \ {c}
        /\ UNCHANGED <<issued, live>>

\* ... or loses track of them.
Doubles(q) ==
    LET a == AttemptOf[q]  c == target[q]
    IN  /\ a \in Attempts /\ c \in Connections /\ Piece(a, hand[q])
        /\ \A x, r : Piece(x, r)' => Piece(x, r) \/ (x = c /\ r = hand[q])
        /\ apart' = apart \union {a, c}
        /\ UNCHANGED <<issued, live>>

LEMMA CommitTakes ==
  ASSUME TokensInv, NEW q \in Requests, Known(q), FinishCommit(q)
  PROVE  Takes(q) \/ Doubles(q) \/ Settles(q)
<1> DEFINE a == AttemptOf[q]
           c == target[q]
<1>1. /\ Committing(q) /\ ~Committing(q)' /\ ~Rotating(q)' /\ ~Keeping(q)'
      /\ UNCHANGED <<issued, live>>
  BY DEF FinishCommit, Is, Go, Known, Shape, Committing, Rotating, Keeping, Renews, providerVars
<1>2. /\ a \in Attempts /\ c \in Connections /\ Piece(a, hand[q]) /\ Owns(q, c)
      /\ records[c] = hand[q]
  BY <1>1, OwnAttempt, Given
     DEF Committing, Known, KnowsTokens, Owns, HoldsConnection, At
<1>3. ASSUME NEW x, NEW r, Piece(x, r)', ~Piece(x, r)
      PROVE  /\ x \in Files /\ r = records'[x]
             /\ records'[x] # records[x] \/ x = c
  BY <1>1, <1>3, PieceCases DEF Known, Facts, Carries
<1>4. CASE Put(c, previous[q]) /\ UNCHANGED apart
  <2>1. \A i \in Files : records'[i] # records[i] => i = c
    BY <1>4 DEF Put, Known, Shape
  <2>2. records'[c] = previous[q]
    BY <1>2, <1>4 DEF Put, Known, Shape, Files
  <2>3. ASSUME NEW x, NEW r, Piece(x, r)', ~Piece(x, r)
        PROVE  FALSE
    <3>1. x = c /\ r = previous[q]
      BY <1>3, <2>1, <2>2, <2>3
    <3>2. r.kind = "credentials" /\ Carries(q, x, r)
      BY <1>1, <2>3, <3>1 DEF Carries, Piece
    <3> QED
      BY <2>3, <3>2 DEF Piece
  <2> QED
    BY <1>1, <1>4, <2>3 DEF Settles
<1>5. ASSUME records' = records
      PROVE  \A x, r : Piece(x, r)' => Piece(x, r) \/ (x = c /\ r = hand[q])
  BY <1>2, <1>3, <1>5
<1>6. CASE UNCHANGED records /\ apart' = apart \union {a, c}
  BY <1>1, <1>2, <1>5, <1>6 DEF Doubles
<1>7. CASE /\ UNCHANGED records /\ status' = [status EXCEPT ![a] = "complete"]
           /\ apart' = IF a \in apart THEN apart \union {c} ELSE apart \ {c}
  <2>1. ASSUME NEW r, Piece(a, r)'
        PROVE  FALSE
    <3>1. ~Undecideds(a)'
      BY <1>2, <1>7 DEF Undecideds, Hopeful, Open, Known, Shape
    <3>2. PICK p \in Requests : Carries(p, a, r)'
      BY <1>2, <2>1, <3>1, Given DEF Piece
    <3>3. p # q
      BY <1>1, <3>2 DEF Carries
    <3>4. Carries(p, a, r) /\ Facts(p) /\ Claimed(p)
      BY <3>2, <3>3
         DEF Known, Frame, Carries, Committing, Rotating, Keeping, Renews, TokensInv, LinksInv
    <3>5. Keeping(p) /\ AttemptOf[p] = a
      BY <1>2, <3>4, Given DEF Carries, Facts, KnowsConnection, Committing
    <3> QED
      BY <1>1, <3>3, <3>4, <3>5 DEF Claimed, Claiming, Keeping, Deciding, Committing
  <2>2. ASSUME NEW x, NEW r, Piece(x, r)', x = c, r # hand[q]
        PROVE  FALSE
    <3>1. x \in Connections /\ x \notin Attempts /\ records'[x] = hand[q]
      BY <1>2, <1>7, <2>2, Given
    <3>2. PICK p \in Requests : Carries(p, x, r)'
      BY <2>2, <3>1 DEF Piece
    <3>3. p # q
      BY <1>1, <3>2 DEF Carries
    <3>4. Carries(p, x, r) /\ Locked(p) /\ Locked(q)
      BY <3>2, <3>3
         DEF Known, Frame, Carries, Committing, Rotating, Keeping, Renews, TokensInv, LinksInv
    <3>5. Changing(p, x)
      BY <3>1, <3>4, Given DEF Carries, Changing
    <3> QED
      BY <1>2, <2>2, <3>3, <3>4, <3>5, OneChanges
  <2> QED
    BY <1>1, <1>2, <1>5, <1>7, <2>1, <2>2 DEF Takes
<1> QED
  BY <1>4, <1>6, <1>7 DEF FinishCommit

-----------------------------------------------------------------------------
(* Tokens after a step                                                     *)

Moves(q) == Settles(q) \/ Issues(q) \/ Takes(q) \/ Doubles(q)

LEMMA StepMoves ==
  ASSUME TokensInv, NEW q \in Requests, Step(q)
  PROVE  Moves(q)
<1>1. Known(q) /\ Shape /\ Locked(q) /\ Facts(q)
  BY Knows DEF TokensInv, LinksInv
<1>2. Calm(q) \/ Lively(q)
  BY <1>1, StepCalm
<1> QED
  BY <1>1, <1>2, CalmSettles, KeepSettles, RotateSettles, ReplaceSettles, ExchangeIssues,
     RenewIssues, CommitTakes
     DEF Lively, Moves

\* What a step does, or a crash: it keeps to what is its own.
Moved(q) ==
    /\ Frame(q) /\ RowFrame(q) /\ FileFrame(q) /\ TokenFrame(q) /\ ClaimFrame(q) /\ Moves(q)
    /\ LinksInv' /\ KnowsTokens(q)'

\* The file of a connection whose owner is not changing it says what its row says.
LEMMA OwnFollows ==
  ASSUME TokensInv, NEW q \in Requests, NEW c \in Connections \ apart, Owns(q, c),
         ~Changing(q, c)
  PROVE  Sound(c, records[c])
<1>1. ASSUME NEW p \in Requests, Changing(p, c)
      PROVE  FALSE
  BY <1>1, OneChanges DEF TokensInv, LinksInv
<1> QED
  BY <1>1 DEF TokensInv, Follows

LEMMA StepIsMoved ==
  ASSUME TokensInv, NEW q \in Requests, Step(q)
  PROVE  Moved(q)
<1>1. /\ Known(q) /\ Shape /\ Locked(q) /\ Facts(q) /\ KnowsTokens(q) /\ Claimed(q)
  BY Knows DEF TokensInv, LinksInv
<1>2. LinksInv' /\ Frame(q) /\ RowFrame(q)
  BY StepKeepsLinksInv DEF TokensInv
<1>3. FileFrame(q) /\ TokenFrame(q) /\ ClaimFrame(q)
  BY <1>1, StepFiles, StepTokens, StepClaims
<1>4. ASSUME Renews(q), pc[q] \in {"consult", "renew"}, ConnectionOf[q] \notin apart
      PROVE  Sound(ConnectionOf[q], records[ConnectionOf[q]])
  <2>1. Owns(q, ConnectionOf[q]) /\ ~Changing(q, ConnectionOf[q])
    BY <1>4 DEF Owns, HoldsConnection, At, Changing, Committing, Rotating, Renews
  <2> QED
    BY <1>4, <2>1, OwnFollows, Given
<1>5. KnowsTokens(q)'
  BY <1>1, <1>3, <1>4, StepKnowsTokens
<1> QED
  BY <1>2, <1>3, <1>5, StepMoves DEF Moved

\* A crash moves nothing; one between the file and the rows of a confirmation
\* leaves its tokens in two files.
LEMMA CrashIsMoved ==
  ASSUME TokensInv, NEW q \in Requests, Crash(q)
  PROVE  Moved(q)
<1>1. /\ Shape /\ Shape' /\ Locked(q) /\ Facts(q) /\ KnowsTokens(q) /\ LinksInv'
  BY CrashKeepsLinksInv DEF TokensInv, LinksInv
<1>2. /\ UNCHANGED <<rowVars, records, providerVars, carried>> /\ pc' = [pc EXCEPT ![q] = "dead"]
      /\ apart \subseteq apart' /\ pc[q] \notin {"start", "done", "dead"}
      /\ Committing(q) => apart' = apart \union {AttemptOf[q], target[q]}
  BY DEF Crash, Go, Is, Committing
<1>3. pc'[q] = "dead"
  BY <1>1, <1>2 DEF Shape
<1>4. Frame(q) /\ RowFrame(q)
  BY <1>1, <1>2 DEF Shape, Crash, Frame, RowFrame, Go, Release, rowVars, carried
<1>5. /\ ~Committing(q)' /\ ~Rotating(q)' /\ ~Keeping(q)' /\ ~Claiming(q)' /\ ~Deciding(q)'
      /\ \A c : ~Changing(q, c)'
  BY <1>3 DEF Committing, Rotating, Keeping, Claiming, Deciding, Changing
<1>6. FileFrame(q) /\ TokenFrame(q) /\ ClaimFrame(q)
  BY <1>2, <1>5 DEF FileFrame, TokenFrame, ClaimFrame, rowVars, providerVars
<1>7. KnowsTokens(q)'
  BY <1>3, <1>5 DEF KnowsTokens
<1>8. \A a \in Attempts : Undecideds(a)' => Undecideds(a)
  BY <1>2, <1>4, <1>5 DEF Undecideds, Deciding, Frame, rowVars
<1>9. ASSUME NEW x, NEW r, Piece(x, r)', ~Piece(x, r)
      PROVE  Committing(q) /\ x = target[q] /\ r = records[x]
  <2>1. ~Carries(q, x, r)'
    BY <1>5 DEF Carries
  <2>2. Facts(q)'
    BY <1>1 DEF LinksInv
  <2> QED
    BY <1>2, <1>4, <1>8, <1>9, <2>1, <2>2, PieceCases DEF Facts
<1>10. CASE Committing(q)
  <2>1. Piece(AttemptOf[q], hand[q]) /\ target[q] \in Connections /\ records[target[q]] = hand[q]
    BY <1>1, <1>10, OwnAttempt DEF Committing, KnowsTokens
  <2> QED
    BY <1>1, <1>2, <1>4, <1>6, <1>7, <1>9, <1>10, <2>1, Given
       DEF Moved, Moves, Doubles, providerVars
<1>11. CASE ~Committing(q)
  BY <1>1, <1>2, <1>4, <1>6, <1>7, <1>9, <1>11 DEF Moved, Moves, Settles, providerVars
<1> QED
  BY <1>10, <1>11

\* A disconnect leaves its connection's file alone once it has cleared it.
LEMMA DropHasNoPiece ==
  ASSUME TokensInv, NEW q \in Requests, DisconnectDrop(q), NEW r, Piece(ConnectionOf[q], r)
  PROVE  FALSE
<1> DEFINE c == ConnectionOf[q]
<1>1. Kind[q] = "disconnect" /\ pc[q] = "drop" /\ c \in Connections /\ c \notin Attempts
  BY Given DEF DisconnectDrop, Is
<1>2. records[c].kind # "credentials" /\ Owns(q, c)
  BY <1>1 DEF TokensInv, KnowsTokens, Holds, Owns, HoldsConnection, At
<1>3. PICK p \in Requests : Carries(p, c, r)
  BY <1>1, <1>2 DEF Piece
<1>4. Changing(p, c) /\ p # q
  BY <1>1, <1>3, Given DEF Carries, Changing, Committing, Rotating, Keeping, Renews
<1> QED
  BY <1>2, <1>4, OneChanges DEF TokensInv, LinksInv

\* A token is spent by who has its file locked, or was in two files.
LEMMA SpentAtHome ==
  ASSUME TokensInv, NEW q \in Requests, TokenFrame(q), NEW x, NEW r, Piece(x, r), x \notin apart,
         r.token \in live, r.token \notin live'
  PROVE  x \in Connections /\ Owns(q, x) /\ Kind[q] # "finish"
<1>1. /\ HoldsConnection(q) /\ Kind[q] # "finish" /\ Holds(At(q), "credentials")
      /\ r.token = records[At(q)].token
  BY DEF TokenFrame
<1>2. Piece(At(q), records[At(q)]) /\ At(q) \in Connections
  BY <1>1, OwnPiece DEF Committing
<1>3. x = At(q)
  BY <1>1, <1>2 DEF TokensInv, Apart
<1> QED
  BY <1>1, <1>2, <1>3 DEF Owns

LEMMA MovedKeepsIssued ==
  ASSUME TokensInv, NEW q \in Requests, Moved(q)
  PROVE  Issued'
<1>1. Issued /\ Moves(q)
  BY DEF TokensInv, Moved
<1>2. CASE Settles(q)
  BY <1>1, <1>2 DEF Settles, Issued
<1>3. CASE Issues(q)
  <2>1. issued' \in Nat /\ live' \subseteq 1 .. issued'
    BY <1>1, <1>3 DEF Issues, Issued
  <2>2. ASSUME NEW x, NEW r, Piece(x, r)'
        PROVE  r.token \in 1 .. issued'
    <3>1. Piece(x, r) \/ r.token = issued'
      BY <1>3, <2>2 DEF Issues
    <3> QED
      BY <1>1, <1>3, <3>1 DEF Issues, Issued
  <2> QED
    BY <2>1, <2>2 DEF Issued
<1>4. CASE Takes(q) \/ Doubles(q)
  <2>1. /\ UNCHANGED <<issued, live>> /\ Piece(AttemptOf[q], hand[q])
        /\ \A x, r : Piece(x, r)' => Piece(x, r) \/ r = hand[q]
    BY <1>4 DEF Takes, Doubles
  <2> QED
    BY <1>1, <2>1 DEF Issued
<1> QED
  BY <1>1, <1>2, <1>3, <1>4 DEF Moves

LEMMA MovedKeepsApart ==
  ASSUME TokensInv, NEW q \in Requests, Moved(q)
  PROVE  Apart'
<1>1. Issued /\ Apart /\ Moves(q)
  BY DEF TokensInv, Moved
<1>2. SUFFICES ASSUME NEW x, NEW y, NEW r, NEW s, Piece(x, r)', Piece(y, s)', x # y,
                      r.token = s.token
               PROVE  x \in apart' /\ y \in apart'
  BY DEF Apart
<1>3. CASE Settles(q)
  <2>1. Piece(x, r) /\ Piece(y, s)
    BY <1>2, <1>3 DEF Settles
  <2>2. x \in apart /\ y \in apart
    BY <1>1, <1>2, <2>1 DEF Apart
  <2>3. CASE DisconnectDrop(q)
    <3>1. x # ConnectionOf[q] /\ y # ConnectionOf[q]
      BY <2>1, <2>3, DropHasNoPiece
    <3> QED
      BY <2>2, <2>3, <3>1 DEF DisconnectDrop
  <2> QED
    BY <1>3, <2>2, <2>3 DEF Settles
<1>4. CASE Issues(q)
  <2>1. PICK w : \A z, t : Piece(z, t)' => Piece(z, t) \/ (z = w /\ t.token = issued')
    BY <1>4 DEF Issues
  <2>2. ASSUME NEW z, NEW t, Piece(z, t)
        PROVE  t.token # issued'
    <3>1. t.token \in 1 .. issued /\ issued \in Nat /\ issued' = issued + 1
      BY <1>1, <1>4, <2>2 DEF Issued, Issues
    <3> QED
      BY <3>1
  <2>3. Piece(x, r) /\ Piece(y, s)
    BY <1>2, <2>1, <2>2
  <2> QED
    BY <1>1, <1>2, <1>4, <2>3 DEF Apart, Issues
<1>5. CASE Takes(q)
  <2> DEFINE a == AttemptOf[q]
             c == target[q]
  <2>1. /\ Piece(a, hand[q]) /\ x # a /\ y # a
        /\ x = c => r = hand[q]
        /\ y = c => s = hand[q]
        /\ x # c => Piece(x, r)
        /\ y # c => Piece(y, s)
        /\ apart' = IF a \in apart THEN apart \union {c} ELSE apart \ {c}
    BY <1>2, <1>5 DEF Takes
  <2> QED
    BY <1>1, <1>2, <2>1 DEF Apart
<1>6. CASE Doubles(q)
  <2> DEFINE a == AttemptOf[q]
             c == target[q]
  <2>1. /\ Piece(a, hand[q])
        /\ Piece(x, r) \/ (x = c /\ r = hand[q])
        /\ Piece(y, s) \/ (y = c /\ s = hand[q])
        /\ apart' = apart \union {a, c}
    BY <1>2, <1>6 DEF Doubles
  <2> QED
    BY <1>1, <1>2, <2>1 DEF Apart
<1> QED
  BY <1>1, <1>3, <1>4, <1>5, <1>6 DEF Moves

LEMMA MovedKeepsUnspent ==
  ASSUME TokensInv, NEW q \in Requests, Moved(q)
  PROVE  Unspent'
<1>1. Unspent /\ Moves(q) /\ TokenFrame(q)
  BY DEF TokensInv, Moved
<1>2. SUFFICES ASSUME NEW a \in Attempts, a \notin apart', NEW r, Piece(a, r)'
               PROVE  r.token \in live'
  BY DEF Unspent
<1>3. a \notin apart /\ a \notin Connections
  BY <1>1, <1>2, ConnectionAssumption DEF TokenFrame
<1>4. CASE Piece(a, r)
  <2>1. r.token \in live
    BY <1>1, <1>2, <1>3, <1>4 DEF Unspent
  <2> QED
    BY <1>1, <1>3, <1>4, <2>1, SpentAtHome
<1>5. CASE ~Piece(a, r)
  BY <1>2, <1>3, <1>5, <1>1 DEF Moves, Settles, Issues, Takes, Doubles
<1> QED
  BY <1>4, <1>5

LEMMA MovedKeepsClaims ==
  ASSUME TokensInv, NEW q \in Requests, Moved(q)
  PROVE  \A p \in Requests : KnowsTokens(p)' /\ Claimed(p)'
<1>1. /\ Frame(q) /\ FileFrame(q) /\ TokenFrame(q) /\ ClaimFrame(q) /\ KnowsTokens(q)'
      /\ \A p \in Requests : Locked(p) /\ Facts(p) /\ KnowsTokens(p) /\ Claimed(p)
  BY DEF Moved, TokensInv, LinksInv
<1>2. \A p \in Requests : KnowsTokens(p)'
  BY <1>1, OthersKnowTokens
<1>3. \A p \in Requests \ {q} : Claiming(p)' = Claiming(p) /\ Deciding(p)' = Deciding(p)
  BY <1>1 DEF Frame, Claiming, Deciding
<1>4. ASSUME NEW p \in Requests \ {q}, Claiming(p) \/ Deciding(p), Claiming(q)'
      PROVE  AttemptOf[p] # AttemptOf[q]
  <2>1. CASE Claiming(q)
    BY <1>1, <1>4, <2>1 DEF Claimed
  <2>2. CASE status[AttemptOf[q]] = "pending"
    BY <1>1, <1>4, <2>2 DEF Claimed, Facts, KnowsAttempt
  <2> QED
    BY <1>1, <1>4, <2>1, <2>2 DEF ClaimFrame
<1>5. ASSUME NEW p \in Requests \ {q}, Claiming(p), Claiming(q)' \/ Deciding(q)'
      PROVE  AttemptOf[p] # AttemptOf[q]
  <2>1. CASE Deciding(q)
    BY <1>1, <1>5, <2>1 DEF Claimed
  <2>2. CASE Deciding(q)' /\ status[AttemptOf[q]] = "verified"
    BY <1>1, <1>5, <2>2 DEF Claimed
  <2> QED
    BY <1>1, <1>4, <1>5, <2>1, <2>2 DEF ClaimFrame
<1>6. Claimed(q)'
  BY <1>1, <1>3, <1>4 DEF Claimed, ClaimFrame
<1>7. ASSUME NEW p \in Requests \ {q}, Claiming(p)'
      PROVE  Claimed(p)'
  <2>1. Claiming(p) /\ status[AttemptOf[p]] \in {"exchanging", "failed", "expired"}
    BY <1>1, <1>3, <1>7 DEF Claimed
  <2>2. (Claiming(q) \/ Deciding(q)) => AttemptOf[p] # AttemptOf[q]
    BY <1>1, <2>1 DEF Claimed
  <2>3. status'[AttemptOf[p]] \in {"exchanging", "failed", "expired"}
    BY <1>1, <2>1, <2>2, Given DEF ClaimFrame
  <2>4. ASSUME NEW o \in Requests \ {p}, Claiming(o)' \/ Deciding(o)'
        PROVE  AttemptOf[o] # AttemptOf[p]
    BY <1>1, <1>3, <1>5, <2>1, <2>4 DEF Claimed
  <2> QED
    BY <2>3, <2>4 DEF Claimed
<1>8. \A p \in Requests \ {q} : ~Claiming(p)' => Claimed(p)'
  BY DEF Claimed
<1> QED
  BY <1>2, <1>6, <1>7, <1>8

\* A request leaves the connections it does not own as they were.
LEMMA MovedFollowsElsewhere ==
  ASSUME TokensInv, NEW q \in Requests, Moved(q), NEW c \in Connections, c \notin apart',
         ~Owns(q, c)
  PROVE  Follows(c)'
<1>1. /\ Frame(q) /\ RowFrame(q) /\ FileFrame(q) /\ TokenFrame(q) /\ Locked(q)
      /\ c \notin apart /\ Follows(c) /\ c \notin Attempts
  BY ConnectionAssumption DEF Moved, TokensInv, LinksInv, TokenFrame
<1>2. /\ account'[c] = account[c] /\ ~Changing(q, c)'
  BY <1>1 DEF TokenFrame
<1>3. state'[c] = state[c]
  BY <1>1 DEF RowFrame, Owns
<1>4. ~Changing(q, c)
  BY <1>1, OneChanges
<1>5. \A p \in Requests : Changing(p, c)' = Changing(p, c)
  BY <1>1, <1>2, <1>4 DEF Frame, Changing, Committing, Rotating, Renews
<1>6. \/ records'[c] = records[c]
      \/ state[c] = "absent" /\ records'[c].kind # "credentials"
  BY <1>1, Given DEF FileFrame, Files, Keeping
<1>7. ASSUME NEW r, Piece(c, r) \/ r.kind # "credentials", Sound(c, r)
      PROVE  Sound(c, r)'
  <2>1. CASE state[c] \in Linking
    <3>1. Good(c, r)
      BY <1>7, <2>1 DEF Sound
    <3>2. r.token \in live'
      BY <1>1, <1>7, <3>1, SpentAtHome DEF Good
    <3> QED
      BY <1>2, <1>3, <2>1, <3>1, <3>2 DEF Sound, Good
  <2>2. CASE state[c] \notin Linking
    BY <1>3, <1>7, <2>2 DEF Sound
  <2> QED
    BY <2>1, <2>2
<1>8. ASSUME \A p \in Requests : ~Changing(p, c)'
      PROVE  Sound(c, records[c])'
  <2>1. Sound(c, records[c]) /\ \A p \in Requests : ~Changing(p, c)
    BY <1>1, <1>5, <1>8 DEF Follows
  <2>2. Piece(c, records[c]) \/ records[c].kind # "credentials"
    BY <2>1 DEF Piece, Changing
  <2>3. CASE records'[c] = records[c]
    BY <1>7, <2>1, <2>2, <2>3 DEF Sound, Good
  <2>4. CASE state[c] = "absent" /\ records'[c].kind # "credentials"
    BY <1>3, <2>4 DEF Sound, Linking
  <2> QED
    BY <1>6, <2>3, <2>4
<1>9. ASSUME NEW p \in Requests, Committing(p)', target'[p] = c
      PROVE  Sound(c, previous[p])'
  <2>1. p # q
    BY <1>2, <1>9 DEF Changing
  <2>2. Committing(p) /\ target[p] = c /\ previous'[p] = previous[p]
    BY <1>1, <1>9, <2>1 DEF Frame, Committing
  <2>3. Sound(c, previous[p])
    BY <1>1, <2>2 DEF Follows
  <2>4. Piece(c, previous[p]) \/ previous[p].kind # "credentials"
    BY <2>2 DEF Piece, Carries
  <2> QED
    BY <1>7, <2>2, <2>3, <2>4 DEF Sound, Good
<1>10. ASSUME NEW p \in Requests, Rotating(p)', ConnectionOf[p] = c
       PROVE  Good(c, hand[p])'
  <2>1. p # q
    BY <1>2, <1>10 DEF Changing
  <2>2. Rotating(p) /\ hand'[p] = hand[p]
    BY <1>1, <1>10, <2>1 DEF Frame, Rotating, Renews
  <2>3. Good(c, hand[p])
    BY <1>1, <1>10, <2>2 DEF Follows
  <2>4. Piece(c, hand[p])
    BY <1>10, <2>2, <2>3 DEF Piece, Carries, Good
  <2>5. hand[p].token \in live'
    BY <1>1, <2>3, <2>4, SpentAtHome DEF Good
  <2> QED
    BY <1>2, <2>2, <2>3, <2>5 DEF Good
<1> QED
  BY <1>8, <1>9, <1>10 DEF Follows

-----------------------------------------------------------------------------
(* What the owner of a connection makes of it                              *)

\* The steps of a request that has a connection locked.
LEMMA OwnSteps ==
  ASSUME NEW q \in Requests, HoldsConnection(q), Step(q)
  PROVE  \/ FinishReplace(q) \/ FinishCommit(q)
         \/ RefreshConsult(q) \/ RefreshRenew(q) \/ RefreshRotate(q) \/ RefreshNote(q)
         \/ RefreshMark(q) \/ RefreshMarked(q)
         \/ DisconnectRevoke(q) \/ DisconnectClear(q) \/ DisconnectDrop(q)
<1> USE DEF HoldsConnection, Is, Renews
<1>1. /\ ~BeginLock(q) /\ ~BeginWrite(q) /\ ~BeginInsert(q)
      /\ \A a \in Attempts : ~SweepRecord(q, a) /\ ~SweepStaged(q, a)
  BY DEF BeginLock, BeginWrite, BeginInsert, SweepRecord, SweepStaged
<1>2. /\ ~CallbackLook(q) /\ ~CallbackTime(q) /\ ~CallbackExpire(q) /\ ~CallbackExpired(q)
      /\ ~CallbackClaim(q) /\ ~CallbackOpen(q) /\ ~CallbackExchange(q) /\ ~CallbackKeep(q)
      /\ ~CallbackAdvance(q) /\ ~CallbackReread(q) /\ ~CallbackFail(q)
  BY DEF CallbackLook, CallbackTime, CallbackExpire, CallbackExpired, CallbackClaim,
         CallbackOpen, CallbackExchange, CallbackKeep, CallbackAdvance, CallbackReread,
         CallbackFail
<1>3. /\ ~Cancel(q) /\ ~Discard(q) /\ ~FinishLook(q) /\ ~FinishEnter(q) /\ ~FinishClaim(q)
      /\ ~FinishOpen(q) /\ ~FinishTarget(q) /\ ~FinishTidy(q) /\ ~FinishUndo(q)
  BY DEF Cancel, Discard, FinishLook, FinishEnter, FinishClaim, FinishOpen, FinishTarget,
         FinishTidy, FinishUndo
<1>4. /\ ~TokenLook(q) /\ ~TokenServe(q) /\ ~RefreshEnter(q) /\ ~Activate(q)
      /\ ~DisconnectEnter(q) /\ ~DisconnectLock(q) /\ ~DisconnectTidy(q)
  BY DEF TokenLook, TokenServe, RefreshEnter, Activate, DisconnectEnter, DisconnectLock,
         DisconnectTidy
<1> QED
  BY <1>1, <1>2, <1>3, <1>4 DEF Step

\* Follows, where only the owner counts.
Mine(q, c) ==
    /\ ~Changing(q, c) => Sound(c, records[c])
    /\ Committing(q) /\ target[q] = c => Sound(c, previous[q])
    /\ Rotating(q) /\ ConnectionOf[q] = c => Good(c, hand[q])

LEMMA MineFollows ==
  ASSUME TokensInv, NEW q \in Requests, Frame(q), NEW c \in Connections, Owns(q, c), Mine(q, c)'
  PROVE  Follows(c)'
<1>1. ASSUME NEW p \in Requests \ {q}
      PROVE  ~Changing(p, c)'
  <2>1. ~Changing(p, c)
    BY <1>1, OneChanges DEF TokensInv, LinksInv
  <2> QED
    BY <1>1, <2>1 DEF Frame, Changing, Committing, Rotating, Renews
<1>2. \A p \in Requests \ {q} : /\ ~(Committing(p)' /\ target'[p] = c)
                               /\ ~(Rotating(p)' /\ ConnectionOf[p] = c)
  BY <1>1 DEF Changing
<1> QED
  BY <1>1, <1>2 DEF Mine, Follows

LEMMA FollowsMine ==
  ASSUME TokensInv, NEW q \in Requests, NEW c \in Connections \ apart, Owns(q, c)
  PROVE  Mine(q, c)
  BY OwnFollows DEF TokensInv, Follows, Mine

\* A confirmation.
LEMMA ReplaceFollows ==
  ASSUME TokensInv, NEW q \in Requests, Known(q), FinishReplace(q),
         NEW c \in Connections \ apart', Owns(q, c)
  PROVE  Mine(q, c)'
<1>1. /\ Kind[q] = "finish" /\ pc[q] = "replace" /\ c = target[q]
      /\ UNCHANGED <<state, account, live, target, apart>>
  BY DEF FinishReplace, Is, Owns, At, rowVars, providerVars
<1>2. /\ ~Changing(q, c) /\ ~Committing(q) /\ ~Rotating(q) /\ ~Rotating(q)'
  BY <1>1 DEF Changing, Committing, Rotating, Renews
<1>3. Sound(c, records[c])
  BY <1>1, <1>2, FollowsMine DEF Mine
<1>4. \/ pc'[q] = "undo" /\ records' = records
      \/ pc'[q] = "commit" /\ previous'[q] = records[c]
  BY <1>1 DEF FinishReplace, Go, Known, Shape
<1>5. CASE pc'[q] = "undo" /\ records' = records
  BY <1>1, <1>2, <1>3, <1>5 DEF Mine, Committing, Sound, Good
<1>6. CASE pc'[q] = "commit" /\ previous'[q] = records[c]
  <2>1. Changing(q, c)'
    BY <1>1, <1>6 DEF Changing, Committing
  <2> QED
    BY <1>1, <1>2, <1>3, <1>6, <2>1 DEF Mine, Sound, Good
<1> QED
  BY <1>4, <1>5, <1>6

LEMMA CommitFollows ==
  ASSUME TokensInv, NEW q \in Requests, Known(q), FinishCommit(q),
         NEW c \in Connections \ apart', Owns(q, c)
  PROVE  Mine(q, c)'
<1> DEFINE a == AttemptOf[q]
<1>1. /\ Kind[q] = "finish" /\ pc[q] = "commit" /\ c = target[q] /\ Committing(q)
      /\ UNCHANGED <<live, target>>
  BY DEF FinishCommit, Is, Owns, At, providerVars, carried, Committing
<1>2. pc'[q] \in {"tidy", "undo"} /\ ~Changing(q, c)' /\ ~Committing(q)' /\ ~Rotating(q)'
  BY <1>1 DEF FinishCommit, Go, Known, Shape, Changing, Committing, Rotating, Renews
<1>3. SUFFICES Sound(c, records[c])'
  BY <1>2 DEF Mine
<1>4. CASE /\ state' = [state EXCEPT ![c] = Metadata(hand[q])] /\ UNCHANGED records
           /\ account' = [account EXCEPT ![c] = hand[q].account]
           /\ apart' = IF a \in apart THEN apart \union {c} ELSE apart \ {c}
  <2>1. a \in Attempts /\ a \notin apart
    BY <1>4, Given
  <2>2. Piece(a, hand[q]) /\ records[c] = hand[q] /\ hand[q].kind = "credentials"
    BY <1>1, OwnAttempt DEF TokensInv, KnowsTokens
  <2>3. hand[q].token \in live
    BY <2>1, <2>2 DEF TokensInv, Unspent
  <2>4. state'[c] \in Linking /\ account'[c] = hand[q].account
    BY <1>4 DEF Known, Shape, Linking, Metadata
  <2> QED
    BY <1>1, <1>4, <2>2, <2>3, <2>4 DEF Sound, Good
<1>5. CASE Put(c, previous[q]) /\ UNCHANGED <<apart, state, account>>
  <2>1. Sound(c, previous[q])
    BY <1>1, <1>5, FollowsMine DEF Mine
  <2>2. records'[c] = previous[q]
    BY <1>5 DEF Put, Known, Shape, Files
  <2> QED
    BY <1>1, <1>5, <2>1, <2>2 DEF Sound, Good
<1>6. CASE apart' = apart \union {a, c}
  BY <1>6
<1> QED
  BY <1>1, <1>4, <1>5, <1>6 DEF FinishCommit

\* A renewal.
LEMMA RefreshFollows ==
  ASSUME TokensInv, NEW q \in Requests, Known(q), NEW c \in Connections \ apart', Owns(q, c),
         \/ RefreshConsult(q) \/ RefreshRenew(q) \/ RefreshRotate(q) \/ RefreshNote(q)
         \/ RefreshMark(q) \/ RefreshMarked(q)
  PROVE  Mine(q, c)'
<1>1. /\ Renews(q) /\ c = ConnectionOf[q] /\ UNCHANGED <<account, target>>
      /\ pc[q] \in {"consult", "renew", "rotate", "note", "mark", "marked"}
      /\ ~Committing(q) /\ ~Committing(q)'
  BY DEF RefreshConsult, RefreshRenew, RefreshRotate, RefreshNote, RefreshMark, RefreshMarked,
         Owns, At, Renews, rowVars, carried, Committing
<1>2. c \notin apart
  BY DEF RefreshConsult, RefreshRenew, RefreshRotate, RefreshNote, RefreshMark, RefreshMarked
<1>3. pc[q] \notin {"mark", "marked"}
  BY <1>1, <1>2 DEF Known, KnowsTokens
<1>4. state[c] \in States \ {"absent"}
  BY <1>1, <1>3 DEF Known, Shape, Facts, KnowsConnection
<1>5. Mine(q, c)
  BY <1>2, FollowsMine
<1>6. Changing(q, c) <=> pc[q] = "rotate"
  BY <1>1 DEF Changing, Committing, Rotating, Renews
<1>7. Changing(q, c)' <=> Rotating(q)'
  BY <1>1 DEF Changing, Rotating, Renews
<1>8. CASE RefreshConsult(q)
  <2>1. Consulted(q) /\ pc[q] = "consult"
    BY <1>8, Consults DEF Consulted
  <2>2. Sound(c, records[c])
    BY <1>5, <1>6, <2>1 DEF Mine
  <2>3. pc'[q] # "rotate" /\ UNCHANGED <<records, live>>
    BY <2>1 DEF Consulted, Go, Known, Shape, providerVars
  <2>4. state'[c] = state[c] \/ (state[c] \in Linking /\ state'[c] \in Linking)
    BY <1>1, <1>4, <2>1
       DEF Consulted, Known, Shape, Renewable, Metadata, Linking, States
  <2> QED
    BY <1>1, <1>7, <2>2, <2>3, <2>4 DEF Mine, Sound, Good, Rotating
<1>9. CASE RefreshRenew(q)
  <2>1. pc[q] = "renew" /\ UNCHANGED <<state, records>>
    BY <1>9 DEF RefreshRenew, rowVars
  <2>2. state[c] \in Linking
    BY <1>1, <2>1 DEF Known, Facts, KnowsConnection
  <2>3. Good(c, records[c])
    BY <1>5, <1>6, <2>1, <2>2 DEF Mine, Sound
  <2>4. CASE Issue(q, records[c].account, {records[c].token}) /\ Go(q, "rotate")
    <3>1. Good(c, hand[q])' /\ pc'[q] = "rotate"
      BY <1>1, <2>3, <2>4 DEF Issue, Go, Good, Known, Shape
    <3> QED
      BY <1>1, <1>7, <3>1 DEF Mine, Rotating, Renews
  <2>5. CASE UNCHANGED live /\ pc'[q] = "done"
    BY <1>1, <1>7, <2>1, <2>2, <2>3, <2>5 DEF Mine, Sound, Good, Rotating
  <2>6. \/ Issue(q, records[c].account, {records[c].token}) /\ Go(q, "rotate")
        \/ UNCHANGED live /\ pc'[q] = "done"
    BY <1>1, <1>9, <2>3 DEF RefreshRenew, Good, End, Go, providerVars, Known, Shape
  <2> QED
    BY <2>4, <2>5, <2>6
<1>10. CASE RefreshRotate(q)
  <2>1. /\ pc[q] = "rotate" /\ pc'[q] = "note" /\ UNCHANGED <<state, live>>
        /\ records'[c] = hand[q]
    BY <1>1, <1>10
       DEF RefreshRotate, Go, Put, Known, Shape, Files, rowVars, providerVars
  <2>2. state[c] \in Linking
    BY <1>1, <2>1 DEF Known, Facts, KnowsConnection
  <2>3. Good(c, hand[q])
    BY <1>1, <1>5, <2>1 DEF Mine, Rotating
  <2> QED
    BY <1>1, <1>7, <2>1, <2>2, <2>3 DEF Mine, Sound, Good, Rotating
<1>11. CASE RefreshNote(q)
  <2>1. /\ pc[q] = "note" /\ UNCHANGED <<records, live>> /\ state'[c] \in Linking
    BY <1>1, <1>11 DEF RefreshNote, Known, Shape, Linking, Metadata, providerVars
  <2>2. pc'[q] # "rotate"
    BY <1>11, NoteGoesOn DEF Known
  <2>3. state[c] \in Linking
    BY <1>1, <2>1 DEF Known, Facts, KnowsConnection
  <2>4. Good(c, records[c])
    BY <1>5, <1>6, <2>1, <2>3 DEF Mine, Sound
  <2> QED
    BY <1>1, <1>7, <2>1, <2>2, <2>4 DEF Mine, Sound, Good, Rotating
<1> QED
  BY <1>3, <1>8, <1>9, <1>10, <1>11 DEF RefreshMark, RefreshMarked

\* A disconnect.
LEMMA DisconnectFollows ==
  ASSUME TokensInv, NEW q \in Requests, Known(q), NEW c \in Connections, Owns(q, c),
         DisconnectRevoke(q) \/ DisconnectClear(q) \/ DisconnectDrop(q)
  PROVE  Mine(q, c)'
<1>1. /\ Kind[q] = "disconnect" /\ c = ConnectionOf[q] /\ ~Committing(q)' /\ ~Rotating(q)'
  BY DEF DisconnectRevoke, DisconnectClear, DisconnectDrop, Is, Owns, At, Committing, Rotating,
         Renews
<1>2. CASE DisconnectRevoke(q) \/ DisconnectClear(q)
  <2>1. pc'[q] \in {"clear", "drop"}
    BY <1>2 DEF DisconnectRevoke, DisconnectClear, Go, Known, Shape
  <2> QED
    BY <1>1, <2>1 DEF Mine, Changing
<1>3. CASE DisconnectDrop(q)
  <2>1. /\ records' = records /\ state'[c] = "disconnected" /\ records[c].kind # "credentials"
    BY <1>1, <1>3 DEF DisconnectDrop, Is, Known, Shape, KnowsTokens, Holds
  <2> QED
    BY <1>1, <2>1 DEF Mine, Sound, Linking
<1> QED
  BY <1>2, <1>3

\* A crash: what it interrupts counts as parted.
LEMMA CrashFollows ==
  ASSUME TokensInv, NEW q \in Requests, Crash(q), NEW c \in Connections \ apart', Owns(q, c)
  PROVE  Mine(q, c)'
<1>1. /\ UNCHANGED <<rowVars, records, providerVars, carried>> /\ pc' = [pc EXCEPT ![q] = "dead"]
      /\ c \notin apart
  BY DEF Crash, Go
<1>2. pc'[q] = "dead"
  BY <1>1 DEF TokensInv, LinksInv, Shape
<1>3. ~Committing(q)' /\ ~Rotating(q)'
  BY <1>2 DEF Committing, Rotating
<1>4. ~Changing(q, c)
  BY DEF Crash, Changing, Committing, Rotating, Is, Owns, At, Renews
<1>5. Sound(c, records[c])
  BY <1>1, <1>4, OwnFollows
<1> QED
  BY <1>1, <1>3, <1>5 DEF Mine, Sound, Good, rowVars, providerVars

LEMMA StepKeepsFollows ==
  ASSUME TokensInv, NEW q \in Requests, Step(q) \/ Crash(q), NEW c \in Connections \ apart'
  PROVE  Follows(c)'
<1>1. Moved(q)
  BY StepIsMoved, CrashIsMoved
<1>2. CASE ~Owns(q, c)
  BY <1>1, <1>2, MovedFollowsElsewhere
<1>3. CASE Owns(q, c)
  <2>1. ASSUME Step(q)
        PROVE  Mine(q, c)'
    <3>1. Known(q) /\ HoldsConnection(q)
      BY <1>3, <2>1, Knows DEF Owns
    <3> QED
      BY <1>3, <2>1, <3>1, OwnSteps, ReplaceFollows, CommitFollows, RefreshFollows,
         DisconnectFollows
  <2>2. Mine(q, c)'
    BY <1>3, <2>1, CrashFollows
  <2> QED
    BY <1>1, <1>3, <2>2, MineFollows DEF Moved
<1> QED
  BY <1>2, <1>3
-----------------------------------------------------------------------------
(* Duplicates                                                              *)

\* What parted a connection is mended by the confirmation or the disconnect that
\* writes both again.
LEMMA Mending ==
  ASSUME TokensInv, NEW q \in Requests, Step(q) \/ Crash(q), NEW c \in apart \ apart'
  PROVE  \/ DisconnectDrop(q) /\ c = ConnectionOf[q]
         \/ Linked(q) /\ c = target[q]
<1>1. CASE Crash(q)
  BY <1>1 DEF Crash
<1>2. CASE Step(q)
  <2>1. Calm(q) \/ Lively(q)
    BY <1>2, StepCalm DEF TokensInv, LinksInv
  <2>2. CASE Calm(q)
    BY <2>2 DEF Calm, DisconnectDrop
  <2>3. CASE Lively(q)
    <3>1. CASE FinishCommit(q)
      <4>1. Linked(q) \/ apart \subseteq apart'
        BY <3>1 DEF FinishCommit, Linked
      <4>2. apart \ {target[q]} \subseteq apart'
        BY <3>1 DEF FinishCommit
      <4> QED
        BY <4>1, <4>2
    <3>2. CASE \/ CallbackExchange(q) \/ CallbackKeep(q) \/ FinishReplace(q)
               \/ RefreshRenew(q) \/ RefreshRotate(q)
      BY <3>2
         DEF CallbackExchange, CallbackKeep, FinishReplace, RefreshRenew, RefreshRotate
    <3> QED
      BY <2>3, <3>1, <3>2 DEF Lively
  <2> QED
    BY <2>1, <2>2, <2>3
<1> QED
  BY <1>1, <1>2

LEMMA StepKeepsTidied ==
  ASSUME TokensInv, NEW q \in Requests, Step(q) \/ Crash(q), NEW c \in Connections \ apart',
         NEW a \in Attempts
  PROVE  Tidied(c, a)'
<1>1. /\ Frame(q) /\ FileFrame(q) /\ ClaimFrame(q)
      /\ Shape /\ Shape' /\ Locked(q) /\ Facts(q) /\ Claimed(q)
  BY StepIsMoved, CrashIsMoved DEF Moved, TokensInv, LinksInv
<1>2. SUFFICES ASSUME state'[c] = "disconnected", status'[a] = "complete", linked'[a] = c,
                      records'[a].kind = "credentials"
               PROVE  \E p \in Requests :
                         /\ Kind[p] = "disconnect" /\ ConnectionOf[p] = c
                         /\ pc'[p] = "tidy" /\ <<a, "record">> \in todo'[p]
  BY DEF Tidied, Holds
<1>3. CASE DisconnectDrop(q) /\ c = ConnectionOf[q]
  <2>1. /\ Kind[q] = "disconnect" /\ pc'[q] = "tidy" /\ UNCHANGED <<status, linked>>
        /\ todo'[q] = {<<x, "record">> :
                          x \in {y \in Attempts : status[y] = "complete" /\ linked[y] = c}}
    BY <1>1, <1>3 DEF DisconnectDrop, Is, Go, Shape
  <2>2. <<a, "record">> \in todo'[q]
    BY <1>2, <2>1
  <2> QED
    BY <1>3, <2>1, <2>2
<1>4. CASE ~(DisconnectDrop(q) /\ c = ConnectionOf[q])
  <2>1. ~(Linked(q) /\ c = target[q])
    BY <1>1, <1>2 DEF Linked, Metadata, Shape
  <2>2. c \notin apart
    BY <1>4, <2>1, Mending
  <2>3. state[c] = "disconnected"
    <3>1. CASE Step(q)
      BY <1>1, <1>2, <1>4, <3>1, StepTidies DEF TidyFrame
    <3>2. CASE Crash(q)
      BY <1>2, <3>2 DEF Crash, rowVars
    <3> QED
      BY <3>1, <3>2
  <2>4. status[a] = "complete" /\ linked[a] = c
    <3>1. \/ status[a] = "complete" /\ linked'[a] = linked[a]
          \/ Linked(q) /\ a = AttemptOf[q]
      BY <1>1, <1>2 DEF ClaimFrame
    <3>2. Linked(q) /\ a = AttemptOf[q] => linked'[a] = target[q]
      BY <1>1 DEF Linked, Shape
    <3> QED
      BY <1>2, <2>1, <3>1, <3>2
  <2>5. records'[a] = records[a]
    <3>1. ~(Keeping(q) /\ a = AttemptOf[q])
      BY <1>1, <2>4 DEF Keeping, Claimed, Claiming
    <3> QED
      BY <1>1, <1>2, <3>1, ConnectionAssumption DEF FileFrame, Files
  <2>6. PICK p \in Requests : /\ Kind[p] = "disconnect" /\ ConnectionOf[p] = c
                              /\ pc[p] = "tidy" /\ <<a, "record">> \in todo[p]
    BY <1>2, <2>2, <2>3, <2>4, <2>5 DEF TokensInv, Tidied, Holds
  <2>7. CASE p # q
    BY <1>1, <2>6, <2>7 DEF Frame
  <2>8. CASE p = q
    <3>1. ~Crash(q)
      BY <2>6, <2>8 DEF Crash
    <3>2. pc'[q] = "tidy" /\ <<a, "record">> \in todo'[q]
      BY <1>1, <1>2, <2>6, <2>8, <3>1, StepTidies DEF TidyFrame
    <3> QED
      BY <2>6, <2>8, <3>2
  <2> QED
    BY <2>7, <2>8
<1> QED
  BY <1>3, <1>4
-----------------------------------------------------------------------------
(* The invariant of tokens                                                 *)

LEMMA StepKeepsTokensInv ==
  ASSUME TokensInv, NEW q \in Requests, Step(q) \/ Crash(q)
  PROVE  TokensInv'
<1>1. Moved(q)
  BY StepIsMoved, CrashIsMoved
<1>2. LinksInv' /\ Issued' /\ Apart' /\ Unspent'
  BY <1>1, MovedKeepsIssued, MovedKeepsApart, MovedKeepsUnspent DEF Moved
<1>3. \A p \in Requests : KnowsTokens(p)' /\ Claimed(p)'
  BY <1>1, MovedKeepsClaims
<1>4. \A c \in Connections \ apart' : Follows(c)' /\ \A a \in Attempts : Tidied(c, a)'
  BY StepKeepsFollows, StepKeepsTidied
<1> QED
  BY <1>2, <1>3, <1>4 DEF TokensInv

LEMMA IdleKeepsTokensInv ==
  ASSUME TokensInv, Idle
  PROVE  TokensInv'
<1>1. UNCHANGED <<status, linked, state, account, records, issued, live, lock, pc, hand, target,
                  previous, todo, apart>>
  BY DEF Idle, PassAttempt, AccessEnds, vars, rowVars, providerVars, carried
<1>2. LinksInv'
  BY IdleKeepsLinksInv DEF TokensInv
<1>3. \A x, r : Piece(x, r)' <=> Piece(x, r)
  BY <1>1 DEF Piece, Carries, Committing, Rotating, Keeping, Renews, Undecideds, Deciding
<1>4. Issued' /\ Apart' /\ Unspent'
  BY <1>1, <1>3 DEF TokensInv, Issued, Apart, Unspent
<1>5. \A q \in Requests : KnowsTokens(q)' /\ Claimed(q)'
  BY <1>1 DEF TokensInv, KnowsTokens, Claimed, Claiming, Committing, Keeping, Deciding, Renews,
              Holds
<1>6. ASSUME NEW c \in Connections \ apart'
      PROVE  Follows(c)'
  BY <1>1, <1>6
     DEF TokensInv, Follows, Sound, Good, Changing, Committing, Rotating, Renews
<1>7. ASSUME NEW c \in Connections \ apart', NEW a \in Attempts
      PROVE  Tidied(c, a)'
  BY <1>1, <1>7 DEF TokensInv, Tidied, Holds
<1> QED
  BY <1>2, <1>4, <1>5, <1>6, <1>7 DEF TokensInv

LEMMA NextKeepsTokensInv ==
  ASSUME TokensInv, [Next]_vars
  PROVE  TokensInv'
  BY NextIs, StepKeepsTokensInv, IdleKeepsTokensInv

\* What is held at the start has a token each.
LEMMA FirstTells ==
  /\ Cardinality(Held) \in Nat
  /\ \A x \in Held : First[x] \in 1 .. Cardinality(Held)
  /\ \A x, y \in Held : First[x] = First[y] => x = y
<1> DEFINE N == Cardinality(Held)
           selected == [a \in Attempts |-> Selected[a]]
           chosen == {Selected[a] : a \in Attempts}
           telling == {f \in [Held -> 1 .. N] : \A x, y \in Held : f[x] = f[y] => x = y}
<1>1. IsFiniteSet(Attempts) /\ IsFiniteSet(Awaiting)
  BY ConnectionAssumption, FS_Subset
<1>2. selected \in Surjection(Attempts, chosen)
  BY Fun_IsSurj
<1>3. IsFiniteSet(chosen)
  BY <1>1, <1>2, FS_Surjection
<1>4. IsFiniteSet(Existing)
  BY <1>3, FS_Subset DEF Existing
<1>5. IsFiniteSet(Held)
  BY <1>1, <1>4, FS_Union DEF Held
<1>6. N \in Nat /\ ExistsBijection(1 .. N, Held)
  BY <1>5, FS_CardinalityType
<1>7. PICK g : g \in Bijection(1 .. N, Held)
  BY <1>6, Fun_ExistsBij
<1>8. /\ g \in [1 .. N -> Held]
      /\ \A h \in Held : \E i \in 1 .. N : g[i] = h
  BY <1>7 DEF Bijection, Injection, Surjection
<1>9. [h \in Held |-> CHOOSE i \in 1 .. N : g[i] = h] \in telling
  BY <1>8
<1>10. First \in telling
  BY <1>9 DEF First
<1> QED
  BY <1>6, <1>10

LEMMA InitHasTokensInv == Init => TokensInv
<1> SUFFICES ASSUME Init PROVE TokensInv
  OBVIOUS
<1>1. LinksInv
  BY InitHasLinksInv
<1>2. /\ \A q \in Requests : pc[q] = "start"
      /\ \A a \in Attempts : status[a] \in {"verified", "absent"}
      /\ issued = Cardinality(Held) /\ live = 1 .. issued /\ apart = {}
  BY DEF Init
<1>3. \A q \in Requests : /\ ~Committing(q) /\ ~Rotating(q) /\ ~Keeping(q) /\ ~Claiming(q)
                          /\ ~Deciding(q) /\ \A c : ~Changing(q, c)
  BY <1>2 DEF Committing, Rotating, Keeping, Claiming, Deciding, Changing
<1>4. PICK who \in [Held -> Accounts], state0 \in [Existing -> {"ready", "disconnected"}] :
        LET ready == {c \in Existing : state0[c] = "ready"}
        IN  /\ \A c, d \in Existing : who[c] = who[d] => c = d
            /\ \A a \in Awaiting : Selected[a] # None => who[a] = who[Selected[a]]
            /\ state = [c \in Connections |-> IF c \in Existing THEN state0[c] ELSE "absent"]
            /\ account = [c \in Connections |-> IF c \in Existing THEN who[c] ELSE None]
            /\ records = [i \in Attempts \union Connections |->
                  IF i \in Awaiting \union ready
                  THEN [kind |-> "credentials", token |-> First[i], account |-> who[i],
                        plan |-> TRUE]
                  ELSE IF i \in Existing THEN Plain("registration") ELSE Missing]
            /\ IF ready = {} THEN active = {} ELSE \E c \in ready : active = {c}
  BY DEF Init
<1>5. ASSUME NEW i \in Files, records[i].kind = "credentials"
      PROVE  /\ i \in Held /\ records[i].token = First[i] /\ records[i].account = who[i]
             /\ i \in Connections => state[i] = "ready"
  <2>1. i \in Awaiting \union {c \in Existing : state0[c] = "ready"}
    BY <1>4, <1>5 DEF Files, Plain, Missing
  <2> QED
    BY <1>4, <2>1, ConnectionAssumption DEF Files, Held
<1>6. \A x, r : Piece(x, r) => x \in Files /\ r = records[x] /\ r.kind = "credentials"
  BY <1>3 DEF Piece, Carries, Files
<1>7. Issued /\ Apart /\ Unspent
  <2>1. issued \in Nat /\ live = 1 .. issued
    BY <1>2, FirstTells
  <2>2. \A x, r : Piece(x, r) => x \in Held /\ r.token = First[x]
    BY <1>5, <1>6
  <2>3. \A x, r : Piece(x, r) => r.token \in 1 .. issued
    BY <1>2, <2>2, FirstTells
  <2>4. Apart
    BY <2>2, FirstTells DEF Apart
  <2> QED
    BY <2>1, <2>3, <2>4 DEF Issued, Unspent
<1>8. \A q \in Requests : KnowsTokens(q) /\ Claimed(q)
  BY <1>2, <1>3 DEF KnowsTokens, Claimed
<1>9. ASSUME NEW c \in Connections
      PROVE  Follows(c)
  <2>1. CASE state[c] \in Linking
    <3>1. c \in Existing /\ state0[c] = "ready" /\ account[c] = who[c]
      BY <1>4, <2>1 DEF Linking
    <3>2. records[c].kind = "credentials"
      BY <1>4, <3>1
    <3>3. records[c].account = account[c] /\ records[c].token \in live
      BY <1>2, <1>5, <3>1, <3>2, FirstTells DEF Files
    <3> QED
      BY <1>3, <2>1, <3>2, <3>3 DEF Follows, Sound, Good
  <2>2. CASE state[c] \notin Linking
    <3>1. records[c].kind # "credentials"
      BY <1>5, <2>2 DEF Files, Linking
    <3> QED
      BY <1>3, <2>2, <3>1 DEF Follows, Sound
  <2> QED
    BY <2>1, <2>2
<1>10. \A c \in Connections, a \in Attempts : Tidied(c, a)
  BY <1>2 DEF Tidied
<1> QED
  BY <1>1, <1>7, <1>8, <1>9, <1>10 DEF TokensInv

\* Who changes a connection has it locked, and its row is not disconnected before
\* its file is cleared.
LEMMA TokensInvMeans == TokensInv => CredentialsFollowRows
<1> SUFFICES ASSUME TokensInv PROVE TokensAreLive /\ DisconnectedKeepsNoTokens
  BY DEF CredentialsFollowRows
<1>1. \A q \in Requests : Locked(q) /\ Facts(q)
  BY DEF TokensInv, LinksInv
<1>2. ASSUME NEW c \in Connections \ apart, state[c] = "ready", Free(c)
      PROVE  Holds(c, "credentials") /\ records[c].token \in live
  <2>1. ASSUME NEW q \in Requests, Changing(q, c)
        PROVE  FALSE
    <3>1. lock[c] = q
      BY <1>1, <2>1, OneChanges DEF Owns, Locked
    <3> QED
      BY <1>2, <3>1, Given DEF Free
  <2>2. Sound(c, records[c])
    BY <2>1 DEF TokensInv, Follows
  <2> QED
    BY <1>2, <2>2 DEF Sound, Good, Linking, Holds
<1>3. ASSUME NEW c \in Connections \ apart, state[c] = "disconnected",
             \A q \in Requests :
                /\ Kind[q] = "finish" /\ target[q] = c => Away(q)
                /\ Kind[q] = "disconnect" /\ ConnectionOf[q] = c => Away(q)
      PROVE  /\ ~Holds(c, "credentials")
             /\ \A a \in Attempts :
                   status[a] = "complete" /\ linked[a] = c => ~Holds(a, "credentials")
  <2>1. ASSUME NEW q \in Requests, Changing(q, c)
        PROVE  FALSE
    <3>1. ~Rotating(q) \/ ConnectionOf[q] # c
      BY <1>1, <1>3 DEF Rotating, Facts, KnowsConnection, Linking
    <3> QED
      BY <1>3, <2>1, <3>1 DEF Changing, Committing, Away
  <2>2. ~Holds(c, "credentials")
    BY <1>3, <2>1 DEF TokensInv, Follows, Sound, Linking, Holds
  <2>3. ASSUME NEW a \in Attempts, status[a] = "complete", linked[a] = c,
               Holds(a, "credentials")
        PROVE  FALSE
    <3>1. PICK q \in Requests : /\ Kind[q] = "disconnect" /\ ConnectionOf[q] = c
                                /\ pc[q] = "tidy" /\ <<a, "record">> \in todo[q]
      BY <1>3, <2>3 DEF TokensInv, Tidied
    <3> QED
      BY <1>3, <3>1 DEF Away
  <2> QED
    BY <2>2, <2>3
<1> QED
  BY <1>2, <1>3 DEF TokensAreLive, DisconnectedKeepsNoTokens

\* Whatever renewals, confirmations, disconnects, sweeps and crashes meet, a ready
\* connection holds a token the provider still accepts and a disconnected one
\* holds none, unless one of them was cut short there.
THEOREM CredentialsAreKept == Spec => []CredentialsFollowRows
<1>1. TokensInv /\ [Next]_vars => TokensInv'
  BY NextKeepsTokensInv
<1> QED
  BY <1>1, InitHasTokensInv, TokensInvMeans, PTL DEF Spec

=============================================================================
