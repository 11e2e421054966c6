----------------------- MODULE ActionProposalsProofs -----------------------
(***************************************************************************)
(* Proofs about ActionProposals, for any records, proposals and requests:  *)
(* the state keeps its shape, a proposal takes effect at most once and its *)
(* answers stay true, and the whole protocol implements ReviewedActions.   *)
(*                                                                         *)
(* The refinement rests on the order of three readings of every record:    *)
(* the one the digest covers, the one the summary shows and the one the    *)
(* confirmation compares.  Records only move on, so a record found at the  *)
(* end as it was at the beginning was shown like that in between.          *)
(***************************************************************************)
EXTENDS ActionProposals, TLAPS

LEMMA ConstantFacts ==
    /\ Gone \notin Nat /\ Unread \notin Nat /\ Unread # Gone
    /\ DependsOn \in [Proposals -> SUBSET Rows]
    /\ \A p \in Proposals : Source[p] \in Sources \union {None}
    /\ \A p \in Proposals : Writes(p) \subseteq Rows /\ Writes(p) \subseteq {Source[p]}
    /\ \A p \in Proposals : Writes(p) \subseteq DependsOn[p]
    /\ \A q \in Requests : TargetOf[q] \in Proposals
    /\ Sources \subseteq Rows /\ References \subseteq Rows
  BY ProposalAssumption, DistinctAssumption DEF Rows, Requests, Writes, Effects

-----------------------------------------------------------------------------
(* The shape of the state.                                                 *)

\* The initial state has the declared shape.
LEMMA InitTyped == Init => TypeOK
  BY ConstantFacts, DistinctAssumption
  DEF Init, TypeOK, RowsOK, ReviewsOK, RequestsOK, Revisions

\* A write of rows that exist moves on exactly these.
LEMMA Writing ==
  ASSUME RowsOK, NEW rows \in SUBSET Rows, NEW how,
         \A r \in rows : world[r] # Gone, Write(rows, how)
  PROVE  /\ world' \in [Rows -> Revisions]
         /\ \A r \in Rows : Review!Follows(world'[r], world[r])
         /\ \A r \in Rows \ rows : world'[r] = world[r]
  BY ConstantFacts DEF Write, RowsOK, Revisions, Review!Follows

\* A refused proposal loses its readings, and no other does.
LEMMA Refusing ==
  ASSUME ReviewsOK, NEW p \in Proposals, Refuse(p)
  PROVE  /\ preparing' \in [Proposals -> {"idle", "reading", "refused", "stored"}]
         /\ digest' \in [Proposals -> [Rows -> Nat \union {Unread}]]
         /\ shown' \in [Proposals -> [Rows -> Nat \union {Unread}]]
         /\ \A r \in Rows : digest'[p][r] = Unread /\ shown'[p][r] = Unread
         /\ \A o \in Proposals \ {p} : digest'[o] = digest[o] /\ shown'[o] = shown[o]
<1> DEFINE nothing == [r \in Rows |-> Unread]
<1>1. nothing \in [Rows -> Nat \union {Unread}] /\ \A r \in Rows : nothing[r] = Unread
  OBVIOUS
<1>2. /\ digest' = [digest EXCEPT ![p] = nothing]
      /\ shown' = [shown EXCEPT ![p] = nothing]
      /\ preparing' = [preparing EXCEPT ![p] = "refused"]
  BY DEF Refuse
<1> HIDE DEF nothing
<1> QED
  BY <1>1, <1>2 DEF ReviewsOK

\* Every step keeps the shape; a write finds the revision it was reviewed
\* with, so it never rests on a deleted row.
LEMMA TypeStep == TypeOK /\ [Next]_vars => TypeOK'
<1> SUFFICES ASSUME TypeOK, [Next]_vars
             PROVE  TypeOK'
  OBVIOUS
<1>1. ASSUME NEW p \in Proposals, Begin(p)
     PROVE  TypeOK'
  BY <1>1, ConstantFacts
    DEF TypeOK, RowsOK, ReviewsOK, RequestsOK, Begin, ledgerVars, chatVars,
        reviewVars, requestVars
<1>2. ASSUME NEW p \in Proposals, Store(p)
     PROVE  TypeOK'
  <2>1. CASE Refuse(p)
    <3>1. ReviewsOK'
      BY <1>2, <2>1, Refusing DEF Store, TypeOK, ReviewsOK
    <3> QED
      BY <1>2, <3>1 DEF Store, TypeOK, RowsOK, RequestsOK, ledgerVars, chatVars, requestVars
  <2>2. CASE ~Refuse(p)
    <3>1. ReviewsOK'
      BY <1>2, <2>2 DEF Store, TypeOK, ReviewsOK
    <3> QED
      BY <1>2, <3>1 DEF Store, TypeOK, RowsOK, RequestsOK, ledgerVars, chatVars, requestVars
  <2> QED
    BY <2>1, <2>2
<1>3. ASSUME NEW p \in Proposals, PassExpiry(p)
     PROVE  TypeOK'
  BY <1>3, ConstantFacts
    DEF TypeOK, RowsOK, ReviewsOK, RequestsOK, PassExpiry, ledgerVars, chatVars,
        reviewVars, requestVars
<1>4. ASSUME NEW p \in Proposals, NEW r \in Rows, ReadRow(p, r)
     PROVE  TypeOK'
  <2>1. /\ digest[p] \in [Rows -> Nat \union {Unread}] /\ world[r] \in Nat \union {Gone}
        /\ digest \in [Proposals -> [Rows -> Nat \union {Unread}]]
    BY DEF TypeOK, RowsOK, ReviewsOK, Revisions
  <2>2. /\ preparing' \in [Proposals -> {"idle", "reading", "refused", "stored"}]
        /\ shown' \in [Proposals -> [Rows -> Nat \union {Unread}]]
        /\ UNCHANGED <<status, expired, applied>>
    BY <1>4, Refusing DEF ReadRow, TypeOK, ReviewsOK
  <2>3. digest' \in [Proposals -> [Rows -> Nat \union {Unread}]]
    <3>1. CASE UNCHANGED digest
      BY <2>1, <3>1
    <3>2. CASE digest' = [digest EXCEPT ![p][r] = world[r]] /\ Found(r)
      BY <2>1, <3>2 DEF Found
    <3> QED
      BY <1>4, <3>1, <3>2, Refusing DEF ReadRow, TypeOK
  <2>4. ReviewsOK'
    BY <2>2, <2>3 DEF TypeOK, ReviewsOK
  <2> QED
    BY <1>4, <2>4 DEF ReadRow, TypeOK, RowsOK, RequestsOK, ledgerVars, chatVars, requestVars
<1>5. ASSUME NEW p \in Proposals, NEW r \in Rows, RenderRow(p, r)
     PROVE  TypeOK'
  <2>1. /\ shown \in [Proposals -> [Rows -> Nat \union {Unread}]]
        /\ shown[p] \in [Rows -> Nat \union {Unread}]
        /\ digest[p][r] \in Nat \union {Unread} /\ world[r] \in Nat \union {Gone}
    BY DEF TypeOK, RowsOK, ReviewsOK, Revisions
  <2>2. /\ preparing' \in [Proposals -> {"idle", "reading", "refused", "stored"}]
        /\ digest' \in [Proposals -> [Rows -> Nat \union {Unread}]]
        /\ UNCHANGED <<status, expired, applied>>
    BY <1>5, Refusing DEF RenderRow, TypeOK, ReviewsOK
  <2>3. shown' \in [Proposals -> [Rows -> Nat \union {Unread}]]
    <3>1. CASE UNCHANGED shown
      BY <2>1, <3>1
    <3>2. CASE shown' = [shown EXCEPT ![p][r] = digest[p][r]]
      BY <2>1, <3>2
    <3>3. CASE shown' = [shown EXCEPT ![p][r] = world[r]] /\ Found(r)
      BY <2>1, <3>3 DEF Found
    <3> QED
      BY <1>5, <3>1, <3>2, <3>3, Refusing DEF RenderRow, TypeOK
  <2>4. ReviewsOK'
    BY <2>2, <2>3 DEF TypeOK, ReviewsOK
  <2> QED
    BY <1>5, <2>4 DEF RenderRow, TypeOK, RowsOK, RequestsOK, ledgerVars, chatVars, requestVars
<1>6. ASSUME NEW q \in Requests, Look(q)
     PROVE  TypeOK'
  <2>1. RowsOK'
    BY <1>6 DEF Look, Reply, TypeOK, RowsOK, ledgerVars, chatVars
  <2>2. ReviewsOK'
    BY <1>6, ConstantFacts DEF Look, Reply, TypeOK, ReviewsOK, reviewVars
  <2>3. RequestsOK'
    BY <1>6 DEF Look, Reply, Answer, TypeOK, RequestsOK
  <2> QED
    BY <2>1, <2>2, <2>3 DEF TypeOK
<1>7. ASSUME NEW q \in Requests, Apply(q)
     PROVE  TypeOK'
  <2> DEFINE t == TargetOf[q]
  <2>1. t \in Proposals
    BY ConstantFacts
  <2>2. CASE Reply(q, "refused")
    BY <2>2 DEF Reply, Answer, TypeOK, RowsOK, ReviewsOK, RequestsOK, ledgerVars, chatVars,
                reviewVars
  <2>3. CASE ~Reply(q, "refused")
    <3>1. /\ Executes(t) /\ Write(Writes(t), Effect[t])
          /\ excessive' = excessive \ Writes(t)
          /\ synced' = IF Effect[t] = "other" THEN synced
                       ELSE SyncedAfter(excessive \ Writes(t))
          /\ status' = [status EXCEPT ![t] = "executed"]
          /\ applied' = [applied EXCEPT ![t] = @ + 1]
          /\ Answer(q, "executed")
          /\ UNCHANGED <<chatVars, reviewVars, expired>>
      BY <1>7, <2>3 DEF Apply
    <3>2. world' \in [Rows -> Revisions]
      <4>1. \A r \in Writes(t) : digest[t][r] \in Nat \union {Unread}
        BY <2>1, ConstantFacts DEF TypeOK, ReviewsOK
      <4>2. \A r \in Writes(t) : world[r] # Gone
        BY <2>1, <3>1, <4>1, ConstantFacts DEF Executes, Unchanged
      <4> QED
        BY <2>1, <3>1, <4>2, Writing, ConstantFacts DEF TypeOK
    <3>3. synced' \in BOOLEAN
      BY <3>1 DEF TypeOK, RowsOK, SyncedAfter
    <3>4. RowsOK'
      BY <3>1, <3>2, <3>3 DEF TypeOK, RowsOK, chatVars
    <3>5. ReviewsOK'
      BY <2>1, <3>1 DEF TypeOK, ReviewsOK, reviewVars
    <3>6. RequestsOK'
      BY <3>1 DEF TypeOK, RequestsOK, Answer
    <3> QED
      BY <3>4, <3>5, <3>6 DEF TypeOK
  <2> QED
    BY <2>2, <2>3
<1>8. ASSUME NEW q \in Requests, LookToCancel(q)
     PROVE  TypeOK'
  <2>1. RowsOK'
    BY <1>8 DEF LookToCancel, Reply, TypeOK, RowsOK, ledgerVars, chatVars
  <2>2. ReviewsOK'
    BY <1>8, ConstantFacts DEF LookToCancel, Reply, TypeOK, ReviewsOK, reviewVars
  <2>3. RequestsOK'
    BY <1>8 DEF LookToCancel, Reply, Answer, TypeOK, RequestsOK
  <2> QED
    BY <2>1, <2>2, <2>3 DEF TypeOK
<1>9. ASSUME NEW q \in Requests, Cancel(q)
     PROVE  TypeOK'
  <2>1. RowsOK'
    BY <1>9 DEF Cancel, Reply, TypeOK, RowsOK, ledgerVars, chatVars
  <2>2. ReviewsOK'
    BY <1>9, ConstantFacts DEF Cancel, Reply, TypeOK, ReviewsOK, reviewVars
  <2>3. RequestsOK'
    BY <1>9 DEF Cancel, Reply, Answer, TypeOK, RequestsOK
  <2> QED
    BY <2>1, <2>2, <2>3 DEF TypeOK
<1>10. ASSUME NEW s \in Sources, NEW how \in {"update", "delete"}, EditSource(s, how)
     PROVE  TypeOK'
  <2>1. world' \in [Rows -> Revisions]
    BY <1>10, Writing, ConstantFacts DEF EditSource, TypeOK
  <2>2. synced' \in BOOLEAN /\ excessive' \subseteq Sources
    BY <1>10 DEF EditSource, SyncedAfter, TypeOK, RowsOK
  <2> QED
    BY <1>10, <2>1, <2>2
    DEF EditSource, TypeOK, RowsOK, ReviewsOK, RequestsOK, chatVars, reviewVars, requestVars
<1>11. ASSUME NEW r \in References, NEW how \in {"update", "delete"}, EditReference(r, how)
     PROVE  TypeOK'
  <2>1. world' \in [Rows -> Revisions]
    BY <1>11, Writing, ConstantFacts DEF EditReference, TypeOK
  <2> QED
    BY <1>11, <2>1
    DEF EditReference, TypeOK, RowsOK, ReviewsOK, RequestsOK, chatVars, reviewVars, requestVars
<1>12. ASSUME NEW r \in Runs, EndRun(r)
     PROVE  TypeOK'
  BY <1>12, ConstantFacts
    DEF TypeOK, RowsOK, ReviewsOK, RequestsOK, EndRun, ledgerVars, chatVars,
        reviewVars, requestVars
<1>13. CASE DeleteConversation
  BY <1>13, ConstantFacts
    DEF TypeOK, RowsOK, ReviewsOK, RequestsOK, DeleteConversation, ledgerVars,
        chatVars, reviewVars, requestVars
<1>14. CASE UNCHANGED vars
  BY <1>14, ConstantFacts
    DEF TypeOK, RowsOK, ReviewsOK, RequestsOK, vars, ledgerVars, chatVars,
        reviewVars, requestVars
<1> QED
  BY <1>1, <1>2, <1>3, <1>4, <1>5, <1>6, <1>7, <1>8, <1>9, <1>10, <1>11, <1>12,
     <1>13, <1>14 DEF Next

\* The state keeps its shape (TypeOK): digests and summaries hold only rows that
\* were found, whatever is deleted while a proposal is prepared.
THEOREM ProposalsAreTyped == Spec => []TypeOK
  BY InitTyped, TypeStep, PTL DEF Spec

-----------------------------------------------------------------------------
(* Records only move on.                                                   *)

\* What a confirmation that goes through does, in full.
LEMMA ApplyWrites ==
  ASSUME TypeOK, NEW q \in Requests, Apply(q), ~Reply(q, "refused")
  PROVE  /\ Claims(TargetOf[q]) /\ RunCompleted(TargetOf[q]) /\ Unchanged(TargetOf[q])
         /\ \A r \in Rows : Review!Follows(world'[r], world[r])
         /\ \A r \in Rows \ Writes(TargetOf[q]) : world'[r] = world[r]
         /\ status' = [status EXCEPT ![TargetOf[q]] = "executed"]
         /\ applied' = [applied EXCEPT ![TargetOf[q]] = @ + 1]
         /\ Answer(q, "executed")
         /\ UNCHANGED <<chatVars, reviewVars, expired>>
<1> DEFINE t == TargetOf[q]
<1>1. t \in Proposals
  BY ConstantFacts
<1>2. /\ Executes(t) /\ Write(Writes(t), Effect[t])
      /\ status' = [status EXCEPT ![t] = "executed"]
      /\ applied' = [applied EXCEPT ![t] = @ + 1]
      /\ Answer(q, "executed")
      /\ UNCHANGED <<chatVars, reviewVars, expired>>
  BY DEF Apply
<1>3. Claims(t) /\ RunCompleted(t) /\ Unchanged(t)
  BY <1>2 DEF Executes
<1>4. \A r \in Writes(t) : digest[t][r] \in Nat \union {Unread}
  BY <1>1, ConstantFacts DEF TypeOK, ReviewsOK
<1>5. \A r \in Writes(t) : world[r] # Gone
  BY <1>1, <1>3, <1>4, ConstantFacts DEF Unchanged
<1> QED
  BY <1>1, <1>2, <1>3, <1>5, Writing, ConstantFacts DEF TypeOK

\* A step leaves a row as it is, writes its next revision or deletes it.
LEMMA RowsMoveOn ==
  TypeOK /\ [Next]_vars => \A x \in Rows : Review!Follows(world'[x], world[x])
<1> SUFFICES ASSUME TypeOK, [Next]_vars
             PROVE  \A x \in Rows : Review!Follows(world'[x], world[x])
  OBVIOUS
<1>0. world' = world => \A x \in Rows : Review!Follows(world'[x], world[x])
  BY DEF TypeOK, RowsOK, Revisions, Review!Follows
<1>1. ASSUME NEW p \in Proposals, Begin(p)
     PROVE  \A x \in Rows : Review!Follows(world'[x], world[x])
  BY <1>1, <1>0 DEF Begin, ledgerVars
<1>2. ASSUME NEW p \in Proposals, Store(p)
     PROVE  \A x \in Rows : Review!Follows(world'[x], world[x])
  BY <1>2, <1>0 DEF Store, ledgerVars
<1>3. ASSUME NEW p \in Proposals, PassExpiry(p)
     PROVE  \A x \in Rows : Review!Follows(world'[x], world[x])
  BY <1>3, <1>0 DEF PassExpiry, ledgerVars
<1>4. ASSUME NEW p \in Proposals, NEW r \in Rows, ReadRow(p, r)
     PROVE  \A x \in Rows : Review!Follows(world'[x], world[x])
  BY <1>4, <1>0 DEF ReadRow, ledgerVars
<1>5. ASSUME NEW p \in Proposals, NEW r \in Rows, RenderRow(p, r)
     PROVE  \A x \in Rows : Review!Follows(world'[x], world[x])
  BY <1>5, <1>0 DEF RenderRow, ledgerVars
<1>6. ASSUME NEW q \in Requests, Look(q)
     PROVE  \A x \in Rows : Review!Follows(world'[x], world[x])
  BY <1>6, <1>0 DEF Look, Reply, ledgerVars
<1>7. ASSUME NEW q \in Requests, Apply(q)
     PROVE  \A x \in Rows : Review!Follows(world'[x], world[x])
  BY <1>7, <1>0, ApplyWrites DEF Apply, Reply, ledgerVars
<1>8. ASSUME NEW q \in Requests, LookToCancel(q)
     PROVE  \A x \in Rows : Review!Follows(world'[x], world[x])
  BY <1>8, <1>0 DEF LookToCancel, Reply, ledgerVars
<1>9. ASSUME NEW q \in Requests, Cancel(q)
     PROVE  \A x \in Rows : Review!Follows(world'[x], world[x])
  BY <1>9, <1>0 DEF Cancel, Reply, ledgerVars
<1>10. ASSUME NEW s \in Sources, NEW how \in {"update", "delete"}, EditSource(s, how)
     PROVE  \A x \in Rows : Review!Follows(world'[x], world[x])
  BY <1>10, Writing, ConstantFacts DEF EditSource, TypeOK
<1>11. ASSUME NEW r \in References, NEW how \in {"update", "delete"}, EditReference(r, how)
     PROVE  \A x \in Rows : Review!Follows(world'[x], world[x])
  BY <1>11, Writing, ConstantFacts DEF EditReference, TypeOK
<1>12. ASSUME NEW r \in Runs, EndRun(r)
     PROVE  \A x \in Rows : Review!Follows(world'[x], world[x])
  BY <1>12, <1>0 DEF EndRun, ledgerVars
<1>13. CASE DeleteConversation
  BY <1>13, <1>0 DEF DeleteConversation, ledgerVars
<1>14. CASE UNCHANGED vars
  BY <1>14, <1>0 DEF vars, ledgerVars
<1> QED
  BY <1>1, <1>2, <1>3, <1>4, <1>5, <1>6, <1>7, <1>8, <1>9, <1>10, <1>11, <1>12,
     <1>13, <1>14 DEF Next

-----------------------------------------------------------------------------
(* Reviews.                                                                *)

\* A stored proposal was read and rendered in full, and is so no more.
StoredOnce ==
    \A p \in Proposals :
        status[p] # "absent" =>
            /\ preparing[p] = "stored"
            /\ \A r \in DependsOn[p] : digest[p][r] # Unread /\ shown[p][r] # Unread

\* The digest is older than the summary, and the summary than the rows.
OlderFirst ==
    \A p \in Proposals, r \in Rows :
        /\ digest[p][r] # Unread => Review!Follows(world[r], digest[p][r])
        /\ shown[p][r] # Unread =>
              /\ \A d \in DependsOn[p] : digest[p][d] # Unread
              /\ r \in DependsOn[p]
              /\ Review!Follows(world[r], shown[p][r])
              /\ Review!Follows(shown[p][r], digest[p][r])

\* Nothing is prepared when the user arrives.
LEMMA InitReviews == Init => StoredOnce /\ OlderFirst
  BY ConstantFacts DEF Init, StoredOnce, OlderFirst

\* A proposal is prepared once: Begin finds none, Store ends its preparation.
LEMMA StoredStep == TypeOK /\ StoredOnce /\ [Next]_vars => StoredOnce'
<1> SUFFICES ASSUME TypeOK, StoredOnce, [Next]_vars
             PROVE  StoredOnce'
  OBVIOUS
<1>0. UNCHANGED <<status, preparing, digest, shown>> => StoredOnce'
  BY DEF StoredOnce
<1>1. ASSUME NEW p \in Proposals, Begin(p)
     PROVE  StoredOnce'
  <2>1. \A o \in Proposals \ {p} :
          status'[o] = status[o] /\ preparing'[o] = preparing[o] /\ digest'[o] = digest[o]
          /\ shown'[o] = shown[o]
    BY <1>1 DEF Begin, Refuse, TypeOK, ReviewsOK
  <2>2. status'[p] = "absent"
    BY <1>1 DEF Begin, Refuse, StoredOnce, TypeOK, ReviewsOK
  <2> QED
    BY <2>1, <2>2 DEF StoredOnce
<1>2. ASSUME NEW p \in Proposals, Store(p)
     PROVE  StoredOnce'
  <2>1. \A o \in Proposals \ {p} :
          status'[o] = status[o] /\ preparing'[o] = preparing[o] /\ digest'[o] = digest[o]
          /\ shown'[o] = shown[o]
    BY <1>2 DEF Store, Refuse, TypeOK, ReviewsOK
  <2>2. status'[p] # "absent" =>
          /\ preparing'[p] = "stored"
          /\ \A r \in DependsOn[p] : digest'[p][r] # Unread /\ shown'[p][r] # Unread
    BY <1>2 DEF Store, Refuse, StoredOnce, TypeOK, ReviewsOK
  <2> QED
    BY <2>1, <2>2 DEF StoredOnce
<1>3. ASSUME NEW p \in Proposals, PassExpiry(p)
     PROVE  StoredOnce'
  BY <1>3, <1>0 DEF PassExpiry, reviewVars
<1>4. ASSUME NEW p \in Proposals, NEW r \in Rows, ReadRow(p, r)
     PROVE  StoredOnce'
  <2>1. \A o \in Proposals \ {p} :
          status'[o] = status[o] /\ preparing'[o] = preparing[o] /\ digest'[o] = digest[o]
          /\ shown'[o] = shown[o]
    BY <1>4 DEF ReadRow, Refuse, TypeOK, ReviewsOK
  <2>2. status'[p] = "absent"
    BY <1>4 DEF ReadRow, Refuse, StoredOnce, TypeOK, ReviewsOK
  <2> QED
    BY <2>1, <2>2 DEF StoredOnce
<1>5. ASSUME NEW p \in Proposals, NEW r \in Rows, RenderRow(p, r)
     PROVE  StoredOnce'
  <2>1. \A o \in Proposals \ {p} :
          status'[o] = status[o] /\ preparing'[o] = preparing[o] /\ digest'[o] = digest[o]
          /\ shown'[o] = shown[o]
    BY <1>5 DEF RenderRow, Refuse, TypeOK, ReviewsOK
  <2>2. status'[p] = "absent"
    BY <1>5 DEF RenderRow, Refuse, StoredOnce, TypeOK, ReviewsOK
  <2> QED
    BY <2>1, <2>2 DEF StoredOnce
<1>6. ASSUME NEW q \in Requests, Look(q)
     PROVE  StoredOnce'
  BY <1>6, <1>0 DEF Look, Reply, reviewVars
<1>7. ASSUME NEW q \in Requests, Apply(q)
     PROVE  StoredOnce'
  <2>1. TargetOf[q] \in Proposals
    BY ConstantFacts
  <2>2. CASE Reply(q, "refused")
    BY <2>2, <1>0 DEF Reply, reviewVars
  <2>3. CASE ~Reply(q, "refused")
    BY <1>7, <2>1, <2>3, ApplyWrites DEF Claims, StoredOnce, reviewVars, TypeOK, ReviewsOK
  <2> QED
    BY <2>2, <2>3
<1>8. ASSUME NEW q \in Requests, LookToCancel(q)
     PROVE  StoredOnce'
  BY <1>8, <1>0 DEF LookToCancel, Reply, reviewVars
<1>9. ASSUME NEW q \in Requests, Cancel(q)
     PROVE  StoredOnce'
  <2>1. TargetOf[q] \in Proposals
    BY ConstantFacts
  <2>2. CASE Reply(q, "refused")
    BY <2>2, <1>0 DEF Reply, reviewVars
  <2>3. CASE ~Reply(q, "refused")
    BY <1>9, <2>1, <2>3 DEF Cancel, Discards, StoredOnce, reviewVars, TypeOK, ReviewsOK
  <2> QED
    BY <2>2, <2>3
<1>10. ASSUME NEW s \in Sources, NEW how \in {"update", "delete"}, EditSource(s, how)
     PROVE  StoredOnce'
  BY <1>10, <1>0 DEF EditSource, reviewVars
<1>11. ASSUME NEW r \in References, NEW how \in {"update", "delete"}, EditReference(r, how)
     PROVE  StoredOnce'
  BY <1>11, <1>0 DEF EditReference, reviewVars
<1>12. ASSUME NEW r \in Runs, EndRun(r)
     PROVE  StoredOnce'
  BY <1>12, <1>0 DEF EndRun, reviewVars
<1>13. CASE DeleteConversation
  BY <1>13 DEF DeleteConversation, reviewVars, StoredOnce
<1>14. CASE UNCHANGED vars
  BY <1>14, <1>0 DEF vars, reviewVars
<1> QED
  BY <1>1, <1>2, <1>3, <1>4, <1>5, <1>6, <1>7, <1>8, <1>9, <1>10, <1>11, <1>12,
     <1>13, <1>14 DEF Next

\* Rows move on, a row is read before it is rendered, and what is rendered is
\* what was read or newer.
LEMMA OlderStep == TypeOK /\ OlderFirst /\ [Next]_vars => OlderFirst'
<1> SUFFICES ASSUME TypeOK, OlderFirst, [Next]_vars
             PROVE  OlderFirst'
  OBVIOUS
<1>a. \A x \in Rows : Review!Follows(world'[x], world[x])
  BY RowsMoveOn
<1>0. UNCHANGED <<digest, shown>> => OlderFirst'
  <2> SUFFICES ASSUME UNCHANGED <<digest, shown>>, NEW p \in Proposals, NEW r \in Rows
               PROVE  /\ digest[p][r] # Unread => Review!Follows(world'[r], digest[p][r])
                      /\ shown[p][r] # Unread => Review!Follows(world'[r], shown[p][r])
    BY DEF OlderFirst
  <2>1. \A old \in Nat : Review!Follows(world[r], old) => Review!Follows(world'[r], old)
    BY <1>a, ConstantFacts DEF Review!Follows
  <2>2. digest[p][r] \in Nat \union {Unread} /\ shown[p][r] \in Nat \union {Unread}
    BY DEF TypeOK, ReviewsOK
  <2> QED
    BY <2>1, <2>2 DEF OlderFirst
<1>r. ASSUME NEW p \in Proposals, Refuse(p), UNCHANGED world
      PROVE  OlderFirst'
  <2> SUFFICES ASSUME NEW o \in Proposals, NEW x \in Rows
               PROVE  /\ digest'[o][x] # Unread => Review!Follows(world[x], digest'[o][x])
                      /\ shown'[o][x] # Unread =>
                            /\ \A d \in DependsOn[o] : digest'[o][d] # Unread
                            /\ x \in DependsOn[o]
                            /\ Review!Follows(world[x], shown'[o][x])
                            /\ Review!Follows(shown'[o][x], digest'[o][x])
    BY <1>r DEF OlderFirst, Review!Follows
  <2>1. CASE o = p
    BY <1>r, <2>1, Refusing DEF TypeOK
  <2>2. CASE o # p
    <3>1. digest'[o] = digest[o] /\ shown'[o] = shown[o]
      BY <1>r, <2>2, Refusing DEF TypeOK
    <3> QED
      BY <3>1 DEF OlderFirst
  <2> QED
    BY <2>1, <2>2
<1>1. ASSUME NEW p \in Proposals, Begin(p)
     PROVE  OlderFirst'
  BY <1>1, <1>0 DEF Begin
<1>2. ASSUME NEW p \in Proposals, Store(p)
     PROVE  OlderFirst'
  BY <1>2, <1>0, <1>r DEF Store, ledgerVars
<1>3. ASSUME NEW p \in Proposals, PassExpiry(p)
     PROVE  OlderFirst'
  BY <1>3, <1>0 DEF PassExpiry, reviewVars
<1>4. ASSUME NEW p \in Proposals, NEW r \in Rows, ReadRow(p, r)
     PROVE  OlderFirst'
  <2>1. CASE Refuse(p)
    BY <1>4, <2>1, <1>r DEF ReadRow, ledgerVars
  <2>2. CASE digest' = [digest EXCEPT ![p][r] = world[r]] /\ Found(r)
    <3>1. /\ r \in DependsOn[p] /\ digest[p][r] = Unread
          /\ UNCHANGED <<world, shown>>
      BY <1>4, <2>2, <2>1 DEF ReadRow, ledgerVars
    <3>2. /\ world[r] \in Nat
          /\ \A o \in Proposals, x \in Rows :
                digest'[o][x] = IF o = p /\ x = r THEN world[r] ELSE digest[o][x]
      BY <2>2 DEF Found, TypeOK, RowsOK, ReviewsOK, Revisions
    <3>3. \A x \in Rows : shown[p][x] = Unread
      BY <3>1 DEF OlderFirst
    <3>4. Review!Follows(world[r], world[r])
      BY <3>2 DEF Review!Follows
    <3>5. DependsOn[p] \subseteq Rows
      BY ConstantFacts
    <3> SUFFICES ASSUME NEW o \in Proposals, NEW x \in Rows
                 PROVE  /\ digest'[o][x] # Unread => Review!Follows(world[x], digest'[o][x])
                        /\ shown[o][x] # Unread =>
                              /\ \A d \in DependsOn[o] : digest'[o][d] # Unread
                              /\ x \in DependsOn[o]
                              /\ Review!Follows(world[x], shown[o][x])
                              /\ Review!Follows(shown[o][x], digest'[o][x])
      BY <3>1 DEF OlderFirst, Review!Follows
    <3>6. CASE o = p
      BY <3>2, <3>3, <3>4, <3>6 DEF OlderFirst
    <3>7. CASE o # p
      <4>1. \A d \in Rows : digest'[o][d] = digest[o][d]
        BY <3>2, <3>7
      <4>2. DependsOn[o] \subseteq Rows
        BY ConstantFacts
      <4> QED
        BY <4>1, <4>2 DEF OlderFirst
    <3> QED
      BY <3>6, <3>7
  <2> QED
    BY <1>4, <2>1, <2>2 DEF ReadRow
<1>5. ASSUME NEW p \in Proposals, NEW r \in Rows, RenderRow(p, r)
     PROVE  OlderFirst'
  <2>1. CASE Refuse(p)
    BY <1>5, <2>1, <1>r DEF RenderRow, ledgerVars
  <2>2. CASE ~Refuse(p)
    <3>1. /\ r \in DependsOn[p] /\ \A d \in DependsOn[p] : digest[p][d] # Unread
          /\ UNCHANGED <<world, digest>>
          /\ \/ shown' = [shown EXCEPT ![p][r] = digest[p][r]] /\ digest[p][r] # Unread
             \/ shown' = [shown EXCEPT ![p][r] = world[r]] /\ Found(r)
      BY <1>5, <2>2 DEF RenderRow, MayRender, ledgerVars
    <3>2. /\ Review!Follows(world[r], digest[p][r])
          /\ digest[p][r] \in Nat
      BY <3>1 DEF OlderFirst, TypeOK, ReviewsOK
    <3>3. PICK new \in Nat :
            /\ shown' = [shown EXCEPT ![p][r] = new]
            /\ Review!Follows(world[r], new) /\ Review!Follows(new, digest[p][r])
      <4>1. CASE shown' = [shown EXCEPT ![p][r] = digest[p][r]]
        <5>1. Review!Follows(digest[p][r], digest[p][r])
          BY <3>2 DEF Review!Follows
        <5> QED
          BY <3>2, <4>1, <5>1
      <4>2. CASE shown' = [shown EXCEPT ![p][r] = world[r]] /\ Found(r)
        <5>1. world[r] \in Nat
          BY <4>2 DEF Found, TypeOK, RowsOK, Revisions
        <5>2. Review!Follows(world[r], world[r])
          BY <5>1 DEF Review!Follows
        <5> QED
          BY <3>2, <4>2, <5>1, <5>2
      <4> QED
        BY <3>1, <4>1, <4>2
    <3>4. \A o \in Proposals, x \in Rows :
            shown'[o][x] = IF o = p /\ x = r THEN new ELSE shown[o][x]
      BY <3>3 DEF TypeOK, ReviewsOK
    <3> SUFFICES ASSUME NEW o \in Proposals, NEW x \in Rows
                 PROVE  /\ digest[o][x] # Unread => Review!Follows(world[x], digest[o][x])
                        /\ shown'[o][x] # Unread =>
                              /\ \A d \in DependsOn[o] : digest[o][d] # Unread
                              /\ x \in DependsOn[o]
                              /\ Review!Follows(world[x], shown'[o][x])
                              /\ Review!Follows(shown'[o][x], digest[o][x])
      BY <3>1 DEF OlderFirst, Review!Follows
    <3>5. CASE o = p /\ x = r
      <4>1. shown'[o][x] = new
        BY <3>4, <3>5
      <4> QED
        BY <3>1, <3>3, <3>5, <4>1 DEF OlderFirst
    <3>6. CASE ~(o = p /\ x = r)
      <4>1. shown'[o][x] = shown[o][x]
        BY <3>4, <3>6
      <4> QED
        BY <4>1 DEF OlderFirst
    <3> QED
      BY <3>5, <3>6
  <2> QED
    BY <2>1, <2>2
<1>6. ASSUME NEW q \in Requests, Look(q)
     PROVE  OlderFirst'
  BY <1>6, <1>0 DEF Look, Reply, reviewVars
<1>7. ASSUME NEW q \in Requests, Apply(q)
     PROVE  OlderFirst'
  BY <1>7, <1>0, ApplyWrites DEF Reply, reviewVars
<1>8. ASSUME NEW q \in Requests, LookToCancel(q)
     PROVE  OlderFirst'
  BY <1>8, <1>0 DEF LookToCancel, Reply, reviewVars
<1>9. ASSUME NEW q \in Requests, Cancel(q)
     PROVE  OlderFirst'
  BY <1>9, <1>0 DEF Cancel, Reply, reviewVars
<1>10. ASSUME NEW s \in Sources, NEW how \in {"update", "delete"}, EditSource(s, how)
     PROVE  OlderFirst'
  BY <1>10, <1>0 DEF EditSource, reviewVars
<1>11. ASSUME NEW r \in References, NEW how \in {"update", "delete"}, EditReference(r, how)
     PROVE  OlderFirst'
  BY <1>11, <1>0 DEF EditReference, reviewVars
<1>12. ASSUME NEW r \in Runs, EndRun(r)
     PROVE  OlderFirst'
  BY <1>12, <1>0 DEF EndRun, reviewVars
<1>13. CASE DeleteConversation
  BY <1>13, <1>0 DEF DeleteConversation, reviewVars
<1>14. CASE UNCHANGED vars
  BY <1>14, <1>0 DEF vars, reviewVars
<1> QED
  BY <1>1, <1>2, <1>3, <1>4, <1>5, <1>6, <1>7, <1>8, <1>9, <1>10, <1>11, <1>12,
     <1>13, <1>14 DEF Next

-----------------------------------------------------------------------------
(* Decisions.                                                              *)

\* AtMostOnce with what makes it inductive: an answer fixes the status.
DecidedOnce ==
    /\ AtMostOnce
    /\ \A q \in Requests :
          /\ answer[q] = "executed" =>
                status[TargetOf[q]] \in {"executed", "deleted"} /\ applied[TargetOf[q]] = 1
          /\ answer[q] = "cancelled" =>
                status[TargetOf[q]] \in {"cancelled", "deleted"} /\ applied[TargetOf[q]] = 0

\* Nothing is decided when the user arrives.
LEMMA InitDecided == Init => DecidedOnce
  BY ConstantFacts DEF Init, DecidedOnce, AtMostOnce

\* No step decides twice: only a pending proposal is claimed or discarded, and
\* no other step touches a status but to delete it.
LEMMA DecidedStep == TypeOK /\ StoredOnce /\ DecidedOnce /\ [Next]_vars => DecidedOnce'
<1> SUFFICES ASSUME TypeOK, StoredOnce, DecidedOnce, [Next]_vars
             PROVE  DecidedOnce'
  OBVIOUS
<1>0. UNCHANGED <<status, applied, answer>> => DecidedOnce'
  BY DEF DecidedOnce, AtMostOnce
<1>1. ASSUME NEW p \in Proposals, Begin(p)
     PROVE  DecidedOnce'
  BY <1>1, <1>0 DEF Begin, requestVars
<1>2. ASSUME NEW p \in Proposals, Store(p)
     PROVE  DecidedOnce'
  <2>1. CASE UNCHANGED status
    BY <1>2, <2>1, <1>0 DEF Store, requestVars
  <2>2. CASE status' = [status EXCEPT ![p] = "pending"]
    <3>1. status[p] = "absent"
      BY <1>2 DEF Store, StoredOnce
    <3> QED
      BY <1>2, <2>2, <3>1, ConstantFacts
      DEF Store, TypeOK, ReviewsOK, DecidedOnce, AtMostOnce, requestVars
  <2> QED
    BY <1>2, <2>1, <2>2 DEF Store
<1>3. ASSUME NEW p \in Proposals, PassExpiry(p)
     PROVE  DecidedOnce'
  BY <1>3, <1>0 DEF PassExpiry, requestVars
<1>4. ASSUME NEW p \in Proposals, NEW r \in Rows, ReadRow(p, r)
     PROVE  DecidedOnce'
  BY <1>4, <1>0 DEF ReadRow, requestVars
<1>5. ASSUME NEW p \in Proposals, NEW r \in Rows, RenderRow(p, r)
     PROVE  DecidedOnce'
  BY <1>5, <1>0 DEF RenderRow, requestVars
<1>6. ASSUME NEW q \in Requests, Look(q)
     PROVE  DecidedOnce'
  <2> DEFINE t == TargetOf[q]
  <2>1. t \in Proposals
    BY ConstantFacts
  <2>2. /\ UNCHANGED <<status, applied>>
        /\ \/ UNCHANGED answer
           \/ answer' = [answer EXCEPT ![q] = "executed"] /\ status[t] = "executed"
           \/ answer' = [answer EXCEPT ![q] = "refused"]
    BY <1>6 DEF Look, Reply, Answer
  <2> QED
    BY <2>1, <2>2 DEF TypeOK, RequestsOK, DecidedOnce, AtMostOnce
<1>7. ASSUME NEW q \in Requests, Apply(q)
     PROVE  DecidedOnce'
  <2> DEFINE t == TargetOf[q]
  <2>1. t \in Proposals
    BY ConstantFacts
  <2>2. CASE Reply(q, "refused")
    BY <2>1, <2>2 DEF Reply, Answer, TypeOK, RequestsOK, DecidedOnce, AtMostOnce
  <2>3. CASE ~Reply(q, "refused")
    <3>1. /\ status[t] = "pending"
          /\ status' = [status EXCEPT ![t] = "executed"]
          /\ applied' = [applied EXCEPT ![t] = @ + 1]
          /\ answer' = [answer EXCEPT ![q] = "executed"]
      BY <1>7, <2>3, ApplyWrites DEF Claims, Answer
    <3>2. applied'[t] = 1 /\ status'[t] = "executed"
      BY <2>1, <3>1 DEF DecidedOnce, AtMostOnce, TypeOK, ReviewsOK
    <3>3. \A p \in Proposals \ {t} : applied'[p] = applied[p] /\ status'[p] = status[p]
      BY <3>1 DEF TypeOK, ReviewsOK
    <3>4. AtMostOnce'
      BY <3>2, <3>3 DEF DecidedOnce, AtMostOnce
    <3>5. \A a \in Requests : TargetOf[a] = t => answer[a] \notin {"executed", "cancelled"}
      BY <3>1 DEF DecidedOnce
    <3>6. /\ answer'[q] = "executed"
          /\ \A a \in Requests \ {q} : answer'[a] = answer[a]
      BY <3>1 DEF TypeOK, RequestsOK
    <3> QED
      BY <2>1, <3>2, <3>3, <3>4, <3>5, <3>6, ConstantFacts DEF DecidedOnce
  <2> QED
    BY <2>2, <2>3
<1>8. ASSUME NEW q \in Requests, LookToCancel(q)
     PROVE  DecidedOnce'
  <2> DEFINE t == TargetOf[q]
  <2>1. t \in Proposals
    BY ConstantFacts
  <2>2. /\ UNCHANGED <<status, applied>>
        /\ \/ UNCHANGED answer
           \/ answer' = [answer EXCEPT ![q] = "cancelled"] /\ status[t] = "cancelled"
           \/ answer' = [answer EXCEPT ![q] = "refused"]
    BY <1>8 DEF LookToCancel, Reply, Answer
  <2> QED
    BY <2>1, <2>2 DEF TypeOK, RequestsOK, DecidedOnce, AtMostOnce
<1>9. ASSUME NEW q \in Requests, Cancel(q)
     PROVE  DecidedOnce'
  <2> DEFINE t == TargetOf[q]
  <2>1. t \in Proposals
    BY ConstantFacts
  <2>2. CASE Reply(q, "refused")
    BY <2>1, <2>2 DEF Reply, Answer, TypeOK, RequestsOK, DecidedOnce, AtMostOnce
  <2>3. CASE ~Reply(q, "refused")
    <3>1. /\ status[t] = "pending"
          /\ status' = [status EXCEPT ![t] = "cancelled"]
          /\ UNCHANGED applied
          /\ answer' = [answer EXCEPT ![q] = "cancelled"]
      BY <1>9, <2>3 DEF Cancel, Discards, Answer
    <3>2. applied'[t] = 0 /\ status'[t] = "cancelled"
      BY <2>1, <3>1 DEF DecidedOnce, AtMostOnce, TypeOK, ReviewsOK
    <3>3. \A p \in Proposals \ {t} : applied'[p] = applied[p] /\ status'[p] = status[p]
      BY <3>1 DEF TypeOK, ReviewsOK
    <3>4. AtMostOnce'
      BY <3>2, <3>3 DEF DecidedOnce, AtMostOnce
    <3>5. \A a \in Requests : TargetOf[a] = t => answer[a] \notin {"executed", "cancelled"}
      BY <3>1 DEF DecidedOnce
    <3>6. /\ answer'[q] = "cancelled"
          /\ \A a \in Requests \ {q} : answer'[a] = answer[a]
      BY <3>1 DEF TypeOK, RequestsOK
    <3> QED
      BY <2>1, <3>2, <3>3, <3>4, <3>5, <3>6, ConstantFacts DEF DecidedOnce
  <2> QED
    BY <2>2, <2>3
<1>10. ASSUME NEW s \in Sources, NEW how \in {"update", "delete"}, EditSource(s, how)
     PROVE  DecidedOnce'
  BY <1>10, <1>0 DEF EditSource, requestVars
<1>11. ASSUME NEW r \in References, NEW how \in {"update", "delete"}, EditReference(r, how)
     PROVE  DecidedOnce'
  BY <1>11, <1>0 DEF EditReference, requestVars
<1>12. ASSUME NEW r \in Runs, EndRun(r)
     PROVE  DecidedOnce'
  BY <1>12, <1>0 DEF EndRun, requestVars
<1>13. CASE DeleteConversation
  <2>1. /\ UNCHANGED <<applied, answer>>
        /\ \A p \in Proposals : status'[p] = IF status[p] = "absent" THEN "absent"
                                             ELSE "deleted"
    BY <1>13 DEF DeleteConversation, requestVars
  <2> QED
    BY <2>1, ConstantFacts DEF DecidedOnce, AtMostOnce
<1>14. CASE UNCHANGED vars
  BY <1>14, <1>0 DEF vars, requestVars
<1> QED
  BY <1>1, <1>2, <1>3, <1>4, <1>5, <1>6, <1>7, <1>8, <1>9, <1>10, <1>11, <1>12,
     <1>13, <1>14 DEF Next

-----------------------------------------------------------------------------
(* The promise.                                                            *)

\* The inductive invariant.
ProposalInv == TypeOK /\ StoredOnce /\ OlderFirst /\ DecidedOnce

LEMMA InvariantHolds == Spec => []ProposalInv
<1>1. Init => ProposalInv
  BY InitTyped, InitReviews, InitDecided DEF ProposalInv
<1>2. ProposalInv /\ [Next]_vars => ProposalInv'
  BY TypeStep, StoredStep, OlderStep, DecidedStep DEF ProposalInv
<1> QED
  BY <1>1, <1>2, PTL DEF Spec

\* A proposal takes effect at most once, whoever confirms it how often.
THEOREM ProposalsTakeEffectOnce == Spec => []AtMostOnce
<1>1. ProposalInv => AtMostOnce
  BY DEF ProposalInv, DecidedOnce
<1> QED
  BY <1>1, InvariantHolds, PTL

\* What a tab was told of a proposal stays true.
THEOREM AnswersStayTrue == Spec => []AnswersAreTrue
<1>1. ProposalInv => AnswersAreTrue
  BY DEF ProposalInv, DecidedOnce, AnswersAreTrue
<1> QED
  BY <1>1, InvariantHolds, PTL

\* A confirmation that goes through executes the abstract action: digest and rows
\* agree, and the summary was rendered between the two.
LEMMA ApplyExecutes ==
  ASSUME ProposalInv, NEW q \in Requests, Apply(q), ~Reply(q, "refused")
  PROVE  Review!Execute(TargetOf[q])
<1> DEFINE t == TargetOf[q]
<1>1. t \in Proposals /\ DependsOn[t] \subseteq Rows /\ Writes(t) \subseteq {Source[t]}
  BY ConstantFacts
<1>2. /\ status[t] = "pending" /\ Unchanged(t)
      /\ \A r \in Rows : Review!Follows(world'[r], world[r])
      /\ \A r \in Rows \ Writes(t) : world'[r] = world[r]
      /\ status' = [status EXCEPT ![t] = "executed"]
      /\ UNCHANGED shown
  BY ApplyWrites DEF Claims, ProposalInv, reviewVars
<1>3. ASSUME NEW r \in DependsOn[t]
      PROVE  world[r] = shown[t][r]
  <2>1. /\ digest[t][r] # Unread /\ shown[t][r] # Unread
        /\ digest[t][r] \in Nat /\ shown[t][r] \in Nat
    <3>1. digest[t][r] # Unread /\ shown[t][r] # Unread
      BY <1>1, <1>2 DEF ProposalInv, StoredOnce
    <3>2. digest[t][r] \in Nat \union {Unread} /\ shown[t][r] \in Nat \union {Unread}
      BY <1>1 DEF ProposalInv, TypeOK, ReviewsOK
    <3> QED
      BY <3>1, <3>2
  <2>2. Review!Follows(world[r], shown[t][r]) /\ Review!Follows(shown[t][r], digest[t][r])
    BY <1>1, <2>1 DEF ProposalInv, OlderFirst
  <2>3. world[r] = digest[t][r]
    BY <1>2 DEF Unchanged
  <2> QED
    BY <2>1, <2>2, <2>3, ConstantFacts DEF Review!Follows
<1> QED
  BY <1>1, <1>2, <1>3 DEF Review!Execute

\* Every step of the protocol is a step of the promise, or does not concern it.
LEMMA StepsKeepThePromise == ProposalInv /\ [Next]_vars => [Review!Next]_Review!vars
<1> SUFFICES ASSUME ProposalInv, [Next]_vars
             PROVE  Review!Next \/ UNCHANGED Review!vars
  OBVIOUS
<1>0. UNCHANGED <<world, shown, status>> => UNCHANGED Review!vars
  BY DEF Review!vars
<1>a. TypeOK
  BY DEF ProposalInv
<1>1. ASSUME NEW p \in Proposals, Begin(p)
     PROVE  Review!Next \/ UNCHANGED Review!vars
  BY <1>1, <1>0 DEF Begin, ledgerVars
<1>2. ASSUME NEW p \in Proposals, Store(p)
     PROVE  Review!Next \/ UNCHANGED Review!vars
  <2>1. status[p] = "absent"
    BY <1>2 DEF Store, ProposalInv, StoredOnce
  <2> QED
    <3>1. CASE Refuse(p) /\ UNCHANGED status
      BY <1>2, <2>1, <3>1, <1>a, Refusing
        DEF Store, ledgerVars, TypeOK, Review!Next, Review!Draft
    <3>2. CASE ~(Refuse(p) /\ UNCHANGED status)
      BY <1>2, <2>1, <3>2 DEF Store, ledgerVars, Review!Next, Review!Publish
    <3> QED
      BY <3>1, <3>2
<1>3. ASSUME NEW p \in Proposals, PassExpiry(p)
     PROVE  Review!Next \/ UNCHANGED Review!vars
  BY <1>3, <1>0 DEF PassExpiry, ledgerVars, reviewVars
<1>4. ASSUME NEW p \in Proposals, NEW r \in Rows, ReadRow(p, r)
     PROVE  Review!Next \/ UNCHANGED Review!vars
  <2>1. CASE Refuse(p)
    <3>1. status[p] = "absent"
      BY <1>4 DEF ReadRow, ProposalInv, StoredOnce
    <3> QED
      BY <1>4, <2>1, <3>1, <1>a, Refusing
        DEF ReadRow, ledgerVars, TypeOK, Review!Next, Review!Draft
  <2>2. CASE ~Refuse(p)
    BY <1>4, <2>2, <1>0 DEF ReadRow, ledgerVars
  <2> QED
    BY <2>1, <2>2
<1>5. ASSUME NEW p \in Proposals, NEW r \in Rows, RenderRow(p, r)
     PROVE  Review!Next \/ UNCHANGED Review!vars
  <2>1. status[p] = "absent"
    BY <1>5 DEF RenderRow, ProposalInv, StoredOnce
  <2>2. UNCHANGED <<world, status>> /\ \A o \in Proposals \ {p} : shown'[o] = shown[o]
    BY <1>5, <1>a, Refusing DEF RenderRow, ledgerVars, TypeOK, ReviewsOK
  <2> QED
    BY <2>1, <2>2 DEF Review!Next, Review!Draft
<1>6. ASSUME NEW q \in Requests, Look(q)
     PROVE  Review!Next \/ UNCHANGED Review!vars
  BY <1>6, <1>0 DEF Look, Reply, ledgerVars, reviewVars
<1>7. ASSUME NEW q \in Requests, Apply(q)
     PROVE  Review!Next \/ UNCHANGED Review!vars
  <2>1. CASE Reply(q, "refused")
    BY <2>1, <1>0 DEF Reply, ledgerVars, reviewVars
  <2>2. CASE ~Reply(q, "refused")
    BY <1>7, <2>2, ApplyExecutes, ConstantFacts DEF Review!Next
  <2> QED
    BY <2>1, <2>2
<1>8. ASSUME NEW q \in Requests, LookToCancel(q)
     PROVE  Review!Next \/ UNCHANGED Review!vars
  BY <1>8, <1>0 DEF LookToCancel, Reply, ledgerVars, reviewVars
<1>9. ASSUME NEW q \in Requests, Cancel(q)
     PROVE  Review!Next \/ UNCHANGED Review!vars
  <2>1. CASE Reply(q, "refused")
    BY <2>1, <1>0 DEF Reply, ledgerVars, reviewVars
  <2>2. CASE ~Reply(q, "refused")
    <3>1. Review!Discard(TargetOf[q])
      BY <1>9, <2>2 DEF Cancel, Discards, ledgerVars, reviewVars, Review!Discard
    <3> QED
      BY <3>1, ConstantFacts DEF Review!Next
  <2> QED
    BY <2>1, <2>2
<1>10. ASSUME NEW s \in Sources, NEW how \in {"update", "delete"}, EditSource(s, how)
     PROVE  Review!Next \/ UNCHANGED Review!vars
  <2>1. UNCHANGED <<shown, status>>
    BY <1>10 DEF EditSource, reviewVars
  <2>2. Review!Edit
    BY <2>1, <1>a, RowsMoveOn DEF Review!Edit
  <2> QED
    BY <2>2 DEF Review!Next
<1>11. ASSUME NEW r \in References, NEW how \in {"update", "delete"}, EditReference(r, how)
     PROVE  Review!Next \/ UNCHANGED Review!vars
  <2>1. UNCHANGED <<shown, status>>
    BY <1>11 DEF EditReference, reviewVars
  <2>2. Review!Edit
    BY <2>1, <1>a, RowsMoveOn DEF Review!Edit
  <2> QED
    BY <2>2 DEF Review!Next
<1>12. ASSUME NEW r \in Runs, EndRun(r)
     PROVE  Review!Next \/ UNCHANGED Review!vars
  BY <1>12, <1>0 DEF EndRun, ledgerVars, reviewVars
<1>13. CASE DeleteConversation
  BY <1>13 DEF DeleteConversation, ledgerVars, reviewVars, Review!Next, Review!Withdraw
<1>14. CASE UNCHANGED vars
  BY <1>14, <1>0 DEF vars, ledgerVars, reviewVars
<1> QED
  BY <1>1, <1>2, <1>3, <1>4, <1>5, <1>6, <1>7, <1>8, <1>9, <1>10, <1>11, <1>12,
     <1>13, <1>14 DEF Next

\* What the user was shown is what is executed: the detailed protocol implements
\* ReviewedActions, for any number of rows, proposals and tabs.
THEOREM PromiseIsKept == Spec => KeepsThePromise
<1>1. Init => Review!Init
  BY DEF Init, Review!Init
<1>2. ProposalInv /\ [Next]_vars => [Review!Next]_Review!vars
  BY StepsKeepThePromise
<1> QED
  BY <1>1, <1>2, InvariantHolds, PTL DEF Spec, KeepsThePromise, Review!Spec

-----------------------------------------------------------------------------
(* The ledger.                                                             *)

\* The ledger lags only while a source is beyond the limit: whatever repairs the
\* last of them reconciles it.
THEOREM LedgerIsCaughtUp == Spec => []LedgerKeepsUp
<1>1. Init => LedgerKeepsUp
  BY DEF Init, LedgerKeepsUp
<1>2. LedgerKeepsUp /\ [Next]_vars => LedgerKeepsUp'
  <2> SUFFICES ASSUME LedgerKeepsUp, [Next]_vars
               PROVE  LedgerKeepsUp'
    OBVIOUS
  <2>0. UNCHANGED <<excessive, synced>> => LedgerKeepsUp'
    BY DEF LedgerKeepsUp
  <2>1. ASSUME NEW p \in Proposals, Begin(p)
       PROVE  LedgerKeepsUp'
    BY <2>1, <2>0 DEF Begin, ledgerVars
  <2>2. ASSUME NEW p \in Proposals, Store(p)
       PROVE  LedgerKeepsUp'
    BY <2>2, <2>0 DEF Store, ledgerVars
  <2>3. ASSUME NEW p \in Proposals, PassExpiry(p)
       PROVE  LedgerKeepsUp'
    BY <2>3, <2>0 DEF PassExpiry, ledgerVars
  <2>4. ASSUME NEW p \in Proposals, NEW r \in Rows, ReadRow(p, r)
       PROVE  LedgerKeepsUp'
    BY <2>4, <2>0 DEF ReadRow, ledgerVars
  <2>5. ASSUME NEW p \in Proposals, NEW r \in Rows, RenderRow(p, r)
       PROVE  LedgerKeepsUp'
    BY <2>5, <2>0 DEF RenderRow, ledgerVars
  <2>6. ASSUME NEW q \in Requests, Look(q)
       PROVE  LedgerKeepsUp'
    BY <2>6, <2>0 DEF Look, Reply, ledgerVars
  <2>7. ASSUME NEW q \in Requests, Apply(q)
       PROVE  LedgerKeepsUp'
    <3>1. CASE Reply(q, "refused")
      BY <3>1, <2>0 DEF Reply, ledgerVars
    <3>2. CASE ~Reply(q, "refused")
      <4>1. /\ excessive' = excessive \ Writes(TargetOf[q])
            /\ synced' = IF Effect[TargetOf[q]] = "other" THEN synced
                         ELSE SyncedAfter(excessive \ Writes(TargetOf[q]))
        BY <2>7, <3>2 DEF Apply
      <4>2. Effect[TargetOf[q]] = "other" => Writes(TargetOf[q]) = {}
        BY ConstantFacts, ProposalAssumption DEF Writes
      <4> QED
        BY <4>1, <4>2 DEF SyncedAfter, LedgerKeepsUp
    <3> QED
      BY <3>1, <3>2
  <2>8. ASSUME NEW q \in Requests, LookToCancel(q)
       PROVE  LedgerKeepsUp'
    BY <2>8, <2>0 DEF LookToCancel, Reply, ledgerVars
  <2>9. ASSUME NEW q \in Requests, Cancel(q)
       PROVE  LedgerKeepsUp'
    BY <2>9, <2>0 DEF Cancel, Reply, ledgerVars
  <2>10. ASSUME NEW s \in Sources, NEW how \in {"update", "delete"}, EditSource(s, how)
       PROVE  LedgerKeepsUp'
    BY <2>10 DEF EditSource, SyncedAfter, LedgerKeepsUp
  <2>11. ASSUME NEW r \in References, NEW how \in {"update", "delete"}, EditReference(r, how)
       PROVE  LedgerKeepsUp'
    BY <2>11, <2>0 DEF EditReference
  <2>12. ASSUME NEW r \in Runs, EndRun(r)
       PROVE  LedgerKeepsUp'
    BY <2>12, <2>0 DEF EndRun, ledgerVars
  <2>13. CASE DeleteConversation
    BY <2>13, <2>0 DEF DeleteConversation, ledgerVars
  <2>14. CASE UNCHANGED vars
    BY <2>14, <2>0 DEF vars, ledgerVars
  <2> QED
    BY <2>1, <2>2, <2>3, <2>4, <2>5, <2>6, <2>7, <2>8, <2>9, <2>10, <2>11, <2>12,
       <2>13, <2>14 DEF Next
<1> QED
  BY <1>1, <1>2, PTL DEF Spec

\* The two together, as the tabs see it: an action takes effect once, and what
\* each tab was told of it stays true.
THEOREM EffectsAreAsTold == Spec => []TakesEffectAsTold
  BY ProposalsTakeEffectOnce, AnswersStayTrue, PTL DEF TakesEffectAsTold

-----------------------------------------------------------------------------
(* The projection limit.                                                   *)

\* What a step may do to the sources, and to the count of created rows, while
\* some source stays beyond the limit.
RepairStep ==
    /\ excessive' # {} => \A s \in Sources : world'[s] # world[s] => s \in excessive
    /\ \A p \in Proposals : Effect[p] = "create" /\ applied'[p] # applied[p]
                               => excessive = {}

\* A confirmation writes at most its own source, which the limit lets through only
\* as a repair; a creation writes no source, so it waits for a ledger without any.
LEMMA ApplyRepairs ==
  ASSUME TypeOK, NEW q \in Requests, Apply(q)
  PROVE  RepairStep
<1> DEFINE t == TargetOf[q]
           left == excessive \ Writes(t)
<1>1. t \in Proposals /\ Writes(t) \subseteq {Source[t]}
  BY ConstantFacts
<1>2. CASE Reply(q, "refused")
  BY <1>2 DEF Reply, ledgerVars, RepairStep
<1>3. CASE ~Reply(q, "refused")
  <2>1. /\ Executes(t) /\ excessive' = left
        /\ applied' = [applied EXCEPT ![t] = @ + 1]
    BY <1>3 DEF Apply
  <2>2. \A s \in Sources \ Writes(t) : world'[s] = world[s]
    BY <1>3, ApplyWrites, ConstantFacts
  <2>3. left # {} => \A s \in Writes(t) : s \in excessive
    <3>1. CASE Effect[t] = "other"
      BY <1>1, <3>1, ProposalAssumption DEF Writes
    <3>2. CASE Effect[t] # "other"
      BY <1>1, <2>1, <3>2 DEF Executes, Tolerated
    <3> QED
      BY <3>1, <3>2
  <2>4. Effect[t] = "create" => excessive = {}
    BY <1>1, <2>1, ProposalAssumption DEF Executes, Writes
  <2>5. \A p \in Proposals \ {t} : applied'[p] = applied[p]
    BY <2>1 DEF TypeOK, RequestsOK
  <2> QED
    BY <2>1, <2>2, <2>3, <2>4, <2>5 DEF RepairStep
<1> QED
  BY <1>2, <1>3

\* The forms of transactions are under the same limit; those of other records
\* write no source, and the other steps no record at all.
LEMMA StepRepairs == TypeOK /\ [Next]_vars => RepairStep
<1> SUFFICES ASSUME TypeOK, [Next]_vars
             PROVE  RepairStep
  OBVIOUS
<1>0. UNCHANGED <<world, applied>> => RepairStep
  BY DEF RepairStep
<1>1. ASSUME NEW p \in Proposals, Begin(p)
     PROVE  RepairStep
  BY <1>1, <1>0 DEF Begin, ledgerVars
<1>2. ASSUME NEW p \in Proposals, Store(p)
     PROVE  RepairStep
  BY <1>2, <1>0 DEF Store, ledgerVars
<1>3. ASSUME NEW p \in Proposals, PassExpiry(p)
     PROVE  RepairStep
  BY <1>3, <1>0 DEF PassExpiry, ledgerVars
<1>4. ASSUME NEW p \in Proposals, NEW r \in Rows, ReadRow(p, r)
     PROVE  RepairStep
  BY <1>4, <1>0 DEF ReadRow, ledgerVars
<1>5. ASSUME NEW p \in Proposals, NEW r \in Rows, RenderRow(p, r)
     PROVE  RepairStep
  BY <1>5, <1>0 DEF RenderRow, ledgerVars
<1>6. ASSUME NEW q \in Requests, Look(q)
     PROVE  RepairStep
  BY <1>6, <1>0 DEF Look, Reply, ledgerVars
<1>7. ASSUME NEW q \in Requests, Apply(q)
     PROVE  RepairStep
  BY <1>7, ApplyRepairs
<1>8. ASSUME NEW q \in Requests, LookToCancel(q)
     PROVE  RepairStep
  BY <1>8, <1>0 DEF LookToCancel, Reply, ledgerVars
<1>9. ASSUME NEW q \in Requests, Cancel(q)
     PROVE  RepairStep
  BY <1>9, <1>0 DEF Cancel, Reply, ledgerVars
<1>10. ASSUME NEW s \in Sources, NEW how \in {"update", "delete"}, EditSource(s, how)
     PROVE  RepairStep
  <2>1. \A o \in Sources \ {s} : world'[o] = world[o]
    BY <1>10, ConstantFacts DEF EditSource, Write
  <2>2. excessive' # {} => s \in excessive
    BY <1>10 DEF EditSource, Tolerated
  <2>3. UNCHANGED applied
    BY <1>10 DEF EditSource
  <2> QED
    BY <2>1, <2>2, <2>3 DEF RepairStep
<1>11. ASSUME NEW r \in References, NEW how \in {"update", "delete"}, EditReference(r, how)
     PROVE  RepairStep
  <2>1. \A s \in Sources : world'[s] = world[s]
    BY <1>11, ConstantFacts, DistinctAssumption DEF EditReference, Write
  <2> QED
    BY <1>11, <2>1 DEF EditReference, RepairStep
<1>12. ASSUME NEW r \in Runs, EndRun(r)
     PROVE  RepairStep
  BY <1>12, <1>0 DEF EndRun, ledgerVars
<1>13. CASE DeleteConversation
  BY <1>13, <1>0 DEF DeleteConversation, ledgerVars
<1>14. CASE UNCHANGED vars
  BY <1>14, <1>0 DEF vars, ledgerVars
<1> QED
  BY <1>1, <1>2, <1>3, <1>4, <1>5, <1>6, <1>7, <1>8, <1>9, <1>10, <1>11, <1>12,
     <1>13, <1>14 DEF Next

\* While a legacy source keeps the ledger beyond its projection limit, nothing but
\* repairs of such sources is written, by forms or by confirmed proposals, and no
\* confirmed proposal creates a record (BlockedLedgerAdmitsOnlyRepairs).
THEOREM BlockedLedgerIsOnlyRepaired == Spec => BlockedLedgerAdmitsOnlyRepairs
<1>1. TypeOK /\ [Next]_vars => [RepairStep]_vars
  BY StepRepairs
<1>2. [RepairStep]_vars =>
        [/\ excessive' # {} => \A s \in Sources : world'[s] # world[s] => s \in excessive
         /\ \A p \in Proposals : Effect[p] = "create" /\ applied'[p] # applied[p]
                                    => excessive = {}]_vars
  BY DEF RepairStep
<1> QED
  BY <1>1, <1>2, ProposalsAreTyped, PTL DEF Spec, BlockedLedgerAdmitsOnlyRepairs
=============================================================================
