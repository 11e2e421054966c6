--------------------------- MODULE ChatRunProofs ----------------------------
(***************************************************************************)
(* What TLAPS proves about ChatRun for any number of requests, runs,       *)
(* conversations and chunks, and about ProviderStream for any functions,   *)
(* output items and limits.                                                *)
(***************************************************************************)
EXTENDS ChatRun, ProviderStream, Sums, SequenceTheorems, FiniteSetTheorems, TLAPS

\* The bookkeeping of one stream: its client has been sent what it gathered,
\* which stays within the limit, and a replay has a row to be answered from.
Counted(q) ==
    /\ IF pc[q] \in Streaming THEN shown[q] = output[q] ELSE output[q] = 0
    /\ pc[q] \in {"new", "expire", "lookup", "prepare", "create", "conflict"} => shown[q] = 0
    /\ pc[q] = "emit" => output[q] < MaxChunks
    /\ pc[q] \in {"replay", "replayEnd"} => replayed[q] \in Run

Typed == TypeOK /\ \A q \in Requests : Counted(q)

USE ChatAssumption, NoneAssumption

LEMMA InitTyped == Init => Typed
  BY
    DEF Init, Typed, TypeOK, RowsOK, StreamsOK, ClientsOK, Counted, Active, Final, Verdicts,
        Statuses, Streaming, Run

\* The row a stream leaves is a row, no longer running.
LEMMA ConcludedTyped ==
  ASSUME Typed, NEW q \in Requests, runs[RunOf[q]] # None
  PROVE  /\ Concluded(q) \in Run
         /\ Concluded(q).status # "running"
         /\ Concluded(q).conversation = runs[RunOf[q]].conversation
         /\ runs[RunOf[q]].output # 0 => Concluded(q).output = runs[RunOf[q]].output
         /\ runs[RunOf[q]].output = 0 => Concluded(q).output = output[q]
         /\ runs[RunOf[q]].status # "running" => Concluded(q).status = runs[RunOf[q]].status
         /\ runs[RunOf[q]].status = "running" => Concluded(q).status = verdict[q]
  <1>1. RunOf[q] \in RunIds /\ runs[RunOf[q]] \in Run
    BY DEF Typed, TypeOK, RowsOK
  <1>. QED BY <1>1 DEF Concluded, Typed, TypeOK, StreamsOK, Run, Verdicts, Statuses

\* What Settle leaves is well-typed.
LEMMA SettleTyped ==
  ASSUME Typed, NEW q \in Requests, Settle(q)
  PROVE  /\ runs' \in [RunIds -> Run \union {None}]
         /\ transcript' \in [Conversations ->
                Seq([run : RunIds, role : {"user", "assistant"}])]
         /\ proposals' \in [RunIds -> {"none", "unattached", "attached"}]
  <1>1. CASE runs[RunOf[q]] = None
    BY <1>1 DEF Settle, Typed, TypeOK, RowsOK, StreamsOK
  <1>2. CASE runs[RunOf[q]] # None
    <2>1. RunOf[q] \in RunIds /\ runs[RunOf[q]] \in Run
      BY <1>2 DEF Typed, TypeOK, RowsOK, StreamsOK
    <2>2. Concluded(q) \in Run
      BY <1>2, ConcludedTyped
    <2>3. runs' \in [RunIds -> Run \union {None}]
      BY <1>2, <2>2 DEF Settle, Typed, TypeOK, RowsOK, StreamsOK
    <2>4. Concluded(q).conversation \in Conversations
      BY <2>2 DEF Run
    <2>5. transcript' \in [Conversations ->
                Seq([run : RunIds, role : {"user", "assistant"}])]
      <3>. DEFINE M == [run : RunIds, role : {"user", "assistant"}]
                  c == Concluded(q).conversation
                  m == [run |-> RunOf[q], role |-> "assistant"]
      <3>1. transcript \in [Conversations -> Seq(M)] /\ c \in Conversations
        BY <2>4 DEF Typed, TypeOK, RowsOK, StreamsOK
      <3>2. m \in M
        BY <2>1
      <3>3. Append(transcript[c], m) \in Seq(M)
        <4>. HIDE DEF M, c, m
        <4>. QED BY <3>1, <3>2
      <3>4. \/ transcript' = transcript
            \/ transcript' = [transcript EXCEPT ![c] = Append(@, m)]
        BY <1>2 DEF Settle
      <3>. HIDE DEF M, c, m
      <3>5. transcript' \in [Conversations -> Seq(M)]
        BY <3>1, <3>3, <3>4
      <3>. QED BY <3>5 DEF M
    <2>6. proposals' \in [RunIds -> {"none", "unattached", "attached"}]
      <3>1. proposals \in [RunIds -> {"none", "unattached", "attached"}]
        BY DEF Typed, TypeOK, RowsOK
      <3>2. \/ proposals' = proposals
            \/ proposals' = [proposals EXCEPT ![RunOf[q]] = "attached"]
        BY <1>2 DEF Settle
      <3>. QED BY <3>1, <3>2
    <2>. QED BY <2>3, <2>5, <2>6
  <1>. QED BY <1>1, <1>2

\* Every label is one of the two sets, which need not be expanded again.
LEMMA Labels ==
    /\ {"new", "expire", "lookup", "prepare", "create", "conflict", "opened", "check",
        "read", "tool", "recheck", "emit", "finish", "refinish", "closing", "replay",
        "replayEnd", "ended", "refused", "crashed"} \subseteq Active \union Final
    /\ {"cancelled", "failed", "completed"} \subseteq Verdicts
  BY DEF Active, Final, Verdicts, Statuses

LEMMA NextTyped == Typed /\ [Next]_vars => Typed'
  <1>. SUFFICES ASSUME Typed, [Next]_vars PROVE Typed'
    OBVIOUS
  <1>. USE DEF Typed, TypeOK
  <1>1. ASSUME NEW q \in Requests, Arrive(q) PROVE Typed'
    <2>1. RowsOK'
      BY <1>1 DEF Arrive, rowVars, RowsOK
    <2>2. StreamsOK'
      BY <1>1, Labels DEF Arrive, Goto, streamVars, StreamsOK
    <2>3. ClientsOK'
      BY <1>1 DEF Arrive, RowsOK, ClientsOK
    <2>4. \A p \in Requests : Counted(p)'
      BY <1>1 DEF Arrive, Goto, streamVars, StreamsOK, ClientsOK, RowsOK, Counted, Streaming
    <2>. QED BY <2>1, <2>2, <2>3, <2>4
  <1>2. ASSUME NEW q \in Requests, Expire(q) PROVE Typed'
    <2>1. RowsOK'
      <3>1. \A r \in StaleRuns(ConversationOf[q]) :
                r \in RunIds /\ [runs[r] EXCEPT !.status = "failed"] \in Run
        BY DEF RowsOK, StaleRuns, Occupies, Running, Run, Statuses
      <3>. QED BY <1>2, <3>1 DEF Expire, RowsOK
    <2>2. StreamsOK'
      BY <1>2, Labels DEF Expire, Goto, StreamsOK, streamVars
    <2>3. ClientsOK'
      BY <1>2 DEF Expire, clientVars, ClientsOK
    <2>4. \A p \in Requests : Counted(p)'
      BY <1>2
        DEF Expire, Goto, streamVars, clientVars, Run, StaleRuns, Occupies, Running,
            StreamsOK, ClientsOK, RowsOK, Counted, Streaming
    <2>. QED BY <2>1, <2>2, <2>3, <2>4
  <1>3. ASSUME NEW q \in Requests, Lookup(q) PROVE Typed'
    <2>1. RowsOK'
      BY <1>3 DEF Lookup, rowVars, RowsOK
    <2>2. StreamsOK'
      <3>1. \E label \in {"prepare", "refused", "replay"} : pc' = [pc EXCEPT ![q] = label]
        BY <1>3 DEF Lookup, Goto
      <3>2. pc' \in [Requests -> Active \union Final]
        BY <3>1, Labels DEF StreamsOK
      <3>3. runs[RunOf[q]] \in Run \union {None}
        BY ChatAssumption DEF RowsOK
      <3>4. \/ replayed' = replayed
            \/ replayed' = [replayed EXCEPT ![q] = runs[RunOf[q]]]
        BY <1>3 DEF Lookup
      <3>5. replayed' \in [Requests -> Run \union {None}]
        BY <3>3, <3>4 DEF StreamsOK
      <3>6. UNCHANGED <<output, reply, verdict>>
        BY <1>3 DEF Lookup
      <3>. QED BY <3>2, <3>5, <3>6 DEF StreamsOK
    <2>3. ClientsOK'
      BY <1>3 DEF Lookup, clientVars, ClientsOK
    <2>4. \A p \in Requests : Counted(p)'
      BY <1>3
        DEF Lookup, Goto, clientVars, Running, Run, StreamsOK, ClientsOK, RowsOK, Counted,
            Streaming
    <2>. QED BY <2>1, <2>2, <2>3, <2>4
  <1>4. ASSUME NEW q \in Requests, Prepare(q) PROVE Typed'
    <2>1. RowsOK'
      BY <1>4 DEF Prepare, rowVars, RowsOK
    <2>2. StreamsOK'
      BY <1>4, Labels DEF Prepare, Goto, streamVars, clientVars, StreamsOK
    <2>3. ClientsOK'
      BY <1>4 DEF Prepare, clientVars, ClientsOK
    <2>4. \A p \in Requests : Counted(p)'
      BY <1>4
        DEF Prepare, Goto, streamVars, clientVars, StreamsOK, ClientsOK, RowsOK, Counted,
            Streaming
    <2>. QED BY <2>1, <2>2, <2>3, <2>4
  <1>5. ASSUME NEW q \in Requests, Create(q) PROVE Typed'
    <2>1. RowsOK'
      <3>. DEFINE M == [run : RunIds, role : {"user", "assistant"}]
                  c == ConversationOf[q]
                  m == [run |-> RunOf[q], role |-> "user"]
                  row == [conversation |-> c, status |-> "running", output |-> 0]
      <3>1. row \in Run
        BY DEF Run, Statuses
      <3>2. m \in M /\ transcript \in [Conversations -> Seq(M)] /\ c \in Conversations
        BY DEF RowsOK
      <3>3. Append(transcript[c], m) \in Seq(M)
        <4>. HIDE DEF M, c, m
        <4>. QED BY <3>2
      <3>4. /\ UNCHANGED <<proposals, conversations, authorized>>
            /\ \/ UNCHANGED <<runs, transcript, overdue>>
               \/ /\ runs' = [runs EXCEPT ![RunOf[q]] = row]
                  /\ transcript' = [transcript EXCEPT ![c] = Append(@, m)]
                  /\ overdue' = overdue \ {RunOf[q]}
        BY <1>5 DEF Create
      <3>. HIDE DEF M, c, m, row
      <3>5. transcript' \in [Conversations -> Seq(M)]
        BY <3>2, <3>3, <3>4
      <3>6. runs' \in [RunIds -> Run \union {None}]
        BY <3>1, <3>4 DEF RowsOK
      <3>. QED BY <3>4, <3>5, <3>6 DEF RowsOK, M
    <2>2. StreamsOK'
      BY <1>5, Labels DEF Create, Goto, StreamsOK, streamVars
    <2>3. ClientsOK'
      BY <1>5 DEF Create, clientVars, ClientsOK
    <2>4. \A p \in Requests : Counted(p)'
      BY <1>5
        DEF Create, Goto, streamVars, clientVars, Run, StreamsOK, ClientsOK, RowsOK, Counted,
            Streaming
    <2>. QED BY <2>1, <2>2, <2>3, <2>4
  <1>6. ASSUME NEW q \in Requests, Open(q) PROVE Typed'
    <2>1. RowsOK'
      BY <1>6 DEF Open, rowVars, RowsOK
    <2>2. StreamsOK'
      BY <1>6, Labels DEF Open, Goto, Conclude, clientVars, Verdicts, StreamsOK
    <2>3. ClientsOK'
      BY <1>6 DEF Open, clientVars, ClientsOK
    <2>4. \A p \in Requests : Counted(p)'
      BY <1>6
        DEF Open, Goto, Conclude, clientVars, Verdicts, StreamsOK, ClientsOK, RowsOK, Counted,
            Streaming
    <2>. QED BY <2>1, <2>2, <2>3, <2>4
  <1>7. ASSUME NEW q \in Requests, Check(q) PROVE Typed'
    <2>1. RowsOK'
      BY <1>7 DEF Check, rowVars, RowsOK
    <2>2. StreamsOK'
      BY <1>7, Labels DEF Check, Goto, Conclude, Guarded, clientVars, StreamsOK
    <2>3. ClientsOK'
      BY <1>7 DEF Check, clientVars, ClientsOK
    <2>4. \A p \in Requests : Counted(p)'
      BY <1>7
        DEF Check, Goto, Conclude, Guarded, clientVars, StreamsOK, ClientsOK, RowsOK, Counted,
            Streaming
    <2>. QED BY <2>1, <2>2, <2>3, <2>4
  <1>8. ASSUME NEW q \in Requests, Read(q) PROVE Typed'
    <2>1. RowsOK'
      BY <1>8 DEF Read, rowVars, RowsOK
    <2>2. StreamsOK'
      BY <1>8, Labels DEF Read, Goto, Conclude, clientVars, StreamsOK
    <2>3. ClientsOK'
      BY <1>8 DEF Read, clientVars, ClientsOK
    <2>4. \A p \in Requests : Counted(p)'
      BY <1>8
        DEF Read, Goto, Conclude, clientVars, StreamsOK, ClientsOK, RowsOK, Counted, Streaming
    <2>. QED BY <2>1, <2>2, <2>3, <2>4
  <1>9. ASSUME NEW q \in Requests, CallTool(q) PROVE Typed'
    <2>1. RowsOK'
      BY <1>9 DEF CallTool, rowVars, RowsOK
    <2>2. StreamsOK'
      BY <1>9, Labels DEF CallTool, Goto, clientVars, StreamsOK
    <2>3. ClientsOK'
      BY <1>9 DEF CallTool, clientVars, ClientsOK
    <2>4. \A p \in Requests : Counted(p)'
      BY <1>9 DEF CallTool, Goto, clientVars, StreamsOK, ClientsOK, RowsOK, Counted, Streaming
    <2>. QED BY <2>1, <2>2, <2>3, <2>4
  <1>10. ASSUME NEW q \in Requests, RunTool(q) PROVE Typed'
    <2>1. RowsOK'
      BY <1>10 DEF RunTool, Goto, clientVars, RowsOK
    <2>2. StreamsOK'
      BY <1>10, Labels DEF RunTool, Goto, clientVars, StreamsOK
    <2>3. ClientsOK'
      BY <1>10 DEF RunTool, clientVars, ClientsOK
    <2>4. \A p \in Requests : Counted(p)'
      BY <1>10 DEF RunTool, Goto, clientVars, StreamsOK, ClientsOK, RowsOK, Counted, Streaming
    <2>. QED BY <2>1, <2>2, <2>3, <2>4
  <1>11. ASSUME NEW q \in Requests, Recheck(q) PROVE Typed'
    <2>1. RowsOK'
      BY <1>11 DEF Recheck, rowVars, RowsOK
    <2>2. StreamsOK'
      BY <1>11, Labels DEF Recheck, Goto, Conclude, Guarded, Fits, clientVars, StreamsOK
    <2>3. ClientsOK'
      BY <1>11 DEF Recheck, clientVars, ClientsOK
    <2>4. \A p \in Requests : Counted(p)'
      BY <1>11
        DEF Recheck, Goto, Conclude, Guarded, Fits, clientVars, StreamsOK, ClientsOK, RowsOK,
            Counted, Streaming
    <2>. QED BY <2>1, <2>2, <2>3, <2>4
  <1>12. ASSUME NEW q \in Requests, Emit(q) PROVE Typed'
    <2>1. RowsOK'
      BY <1>12 DEF Emit, rowVars, RowsOK
    <2>2. StreamsOK'
      BY <1>12, Labels DEF Emit, Goto, StreamsOK, Counted, Streaming
    <2>3. ClientsOK'
      BY <1>12 DEF Emit, Goto, StreamsOK, ClientsOK, Counted, Streaming
    <2>4. \A p \in Requests : Counted(p)'
      BY <1>12 DEF Emit, Goto, StreamsOK, ClientsOK, RowsOK, Counted, Streaming
    <2>. QED BY <2>1, <2>2, <2>3, <2>4
  <1>13. ASSUME NEW q \in Requests, Finish(q) PROVE Typed'
    <2>1. RowsOK'
      BY <1>13, SettleTyped DEF Finish, Goto, Leave, Reports, RowsOK
    <2>2. StreamsOK'
      BY <1>13, Labels DEF Finish, Goto, Leave, Reports, StreamsOK
    <2>3. ClientsOK'
      BY <1>13 DEF Finish, Goto, Leave, Reports, ClientsOK
    <2>4. \A p \in Requests : Counted(p)'
      BY <1>13
        DEF Finish, Goto, Leave, Reports, StreamsOK, ClientsOK, RowsOK, Counted, Streaming
    <2>. QED BY <2>1, <2>2, <2>3, <2>4
  <1>14. ASSUME NEW q \in Requests, CloseStream(q) PROVE Typed'
    <2>1. RowsOK'
      BY <1>14, SettleTyped DEF CloseStream, Goto, Leave, clientVars, RowsOK
    <2>2. StreamsOK'
      BY <1>14, Labels DEF CloseStream, Goto, Leave, clientVars, StreamsOK
    <2>3. ClientsOK'
      BY <1>14 DEF CloseStream, clientVars, ClientsOK
    <2>4. \A p \in Requests : Counted(p)'
      BY <1>14
        DEF CloseStream, Goto, Leave, clientVars, StreamsOK, ClientsOK, RowsOK, Counted,
            Streaming
    <2>. QED BY <2>1, <2>2, <2>3, <2>4
  <1>15. ASSUME NEW q \in Requests, Replay(q) PROVE Typed'
    <2>1. RowsOK'
      BY <1>15 DEF Replay, rowVars, RowsOK
    <2>2. StreamsOK'
      BY <1>15, Labels DEF Replay, Goto, Leave, StreamsOK, streamVars
    <2>3. ClientsOK'
      BY <1>15
        DEF Replay, Goto, Leave, MayReplay, streamVars, Run, StreamsOK, ClientsOK, Counted
    <2>4. \A p \in Requests : Counted(p)'
      BY <1>15
        DEF Replay, Goto, Leave, MayReplay, streamVars, Run, StreamsOK, ClientsOK, RowsOK,
            Counted, Streaming
    <2>. QED BY <2>1, <2>2, <2>3, <2>4
  <1>16. ASSUME NEW q \in Requests, ReplayEnd(q) PROVE Typed'
    <2>1. RowsOK'
      BY <1>16 DEF ReplayEnd, rowVars, RowsOK
    <2>2. StreamsOK'
      BY <1>16, Labels DEF ReplayEnd, Goto, Leave, MayReplay, StreamsOK
    <2>3. ClientsOK'
      BY <1>16 DEF ReplayEnd, Goto, Leave, MayReplay, ClientsOK
    <2>4. \A p \in Requests : Counted(p)'
      BY <1>16
        DEF ReplayEnd, Goto, Leave, MayReplay, StreamsOK, ClientsOK, RowsOK, Counted, Streaming
    <2>. QED BY <2>1, <2>2, <2>3, <2>4
  <1>17. ASSUME NEW q \in Requests, Disconnect(q) PROVE Typed'
    <2>1. RowsOK'
      BY <1>17 DEF Disconnect, rowVars, RowsOK
    <2>2. StreamsOK'
      BY <1>17, Labels DEF Disconnect, Goto, Conclude, clientVars, StreamsOK
    <2>3. ClientsOK'
      BY <1>17 DEF Disconnect, clientVars, ClientsOK
    <2>4. \A p \in Requests : Counted(p)'
      BY <1>17
        DEF Disconnect, Goto, Conclude, clientVars, StreamsOK, ClientsOK, RowsOK, Counted,
            Streaming
    <2>. QED BY <2>1, <2>2, <2>3, <2>4
  <1>18. ASSUME NEW q \in Requests, StorageFails(q) PROVE Typed'
    <2>1. RowsOK'
      BY <1>18 DEF StorageFails, rowVars, RowsOK
    <2>2. StreamsOK'
      BY <1>18, Labels DEF StorageFails, Goto, Conclude, Leave, StreamsOK
    <2>3. ClientsOK'
      BY <1>18 DEF StorageFails, clientVars, ClientsOK
    <2>4. \A p \in Requests : Counted(p)'
      <3>1. UNCHANGED shown
        BY <1>18 DEF StorageFails
      <3>2. CASE pc[q] \in {"opened", "check", "recheck", "finish", "refinish"}
        BY <1>18, <3>1, <3>2 DEF StorageFails, Goto, Conclude, StreamsOK, Counted, Streaming
      <3>3. CASE pc[q] \in {"closing", "new", "expire", "lookup", "create", "conflict"}
        BY <1>18, <3>1, <3>3 DEF StorageFails, Leave, Goto, StreamsOK, Counted, Streaming
      <3>. QED BY <1>18, <3>2, <3>3 DEF StorageFails
    <2>. QED BY <2>1, <2>2, <2>3, <2>4
  <1>19. ASSUME NEW q \in Requests, Crash(q) PROVE Typed'
    <2>1. RowsOK'
      BY <1>19 DEF Crash, rowVars, RowsOK
    <2>2. StreamsOK'
      BY <1>19, Labels DEF Crash, Goto, Leave, clientVars, StreamsOK
    <2>3. ClientsOK'
      BY <1>19 DEF Crash, clientVars, ClientsOK
    <2>4. \A p \in Requests : Counted(p)'
      BY <1>19
        DEF Crash, Goto, Leave, clientVars, StreamsOK, ClientsOK, RowsOK, Counted, Streaming
    <2>. QED BY <2>1, <2>2, <2>3, <2>4
  <1>20. ASSUME NEW r \in RunIds, Cancel(r) PROVE Typed'
    <2>1. [runs[r] EXCEPT !.status = "cancelled"] \in Run
      BY <1>20 DEF Cancel, Running, RowsOK, Run, Statuses
    <2>2. RowsOK'
      BY <1>20, <2>1 DEF Cancel, RowsOK
    <2>. QED BY <1>20, <2>2
             DEF Cancel, streamVars, clientVars, StreamsOK, ClientsOK, Counted
  <1>21. ASSUME NEW r \in RunIds, PassDeadline(r) PROVE Typed'
    BY <1>21
      DEF PassDeadline, rowVars, streamVars, clientVars, RowsOK, StreamsOK, ClientsOK, Counted
  <1>22. ASSUME NEW c \in Conversations, DeleteConversation(c) PROVE Typed'
    <2>1. RowsOK'
      <3>. DEFINE M == [run : RunIds, role : {"user", "assistant"}]
      <3>1. transcript \in [Conversations -> Seq(M)]
        BY DEF RowsOK
      <3>2. transcript' = [transcript EXCEPT ![c] = <<>>] /\ <<>> \in Seq(M)
        BY <1>22 DEF DeleteConversation
      <3>. HIDE DEF M
      <3>3. transcript' \in [Conversations -> Seq(M)]
        BY <3>1, <3>2
      <3>. QED BY <1>22, <3>3 DEF DeleteConversation, RowsOK, M
    <2>. QED BY <1>22, <2>1
             DEF DeleteConversation, streamVars, clientVars, StreamsOK, ClientsOK, Counted
  <1>23. CASE Revoke
    BY <1>23 DEF Revoke, rowVars, streamVars, clientVars, RowsOK, StreamsOK, ClientsOK, Counted
  <1>24. CASE UNCHANGED vars
    BY <1>24 DEF rowVars, streamVars, clientVars, vars, RowsOK, StreamsOK, ClientsOK, Counted
  <1>. QED
    BY <1>1, <1>2, <1>3, <1>4, <1>5, <1>6, <1>7, <1>8, <1>9, <1>10, <1>11, <1>12, <1>13,
       <1>14, <1>15, <1>16, <1>17, <1>18, <1>19, <1>20, <1>21, <1>22, <1>23, <1>24
      DEF Next, Step

LEMMA TypedAlways == Spec => []Typed
  BY InitTyped, NextTyped, PTL DEF Spec

\* The state keeps its shape: rows, messages, proposals, streams and clients.
THEOREM ShapeIsKept == Spec => []TypeOK
  BY TypedAlways, PTL DEF Typed
-----------------------------------------------------------------------------
(* What a step may do to one run row.                                      *)

\* A request claims its conversation with a new row ...
Claimed(r) ==
    \E q \in Requests :
        /\ RunOf[q] = r /\ ConversationOf[q] \in conversations
        /\ pc[q] = "create" /\ pc' = [pc EXCEPT ![q] = "opened"]
        /\ runs[r] = None
        /\ runs'[r] = [conversation |-> ConversationOf[q], status |-> "running", output |-> 0]
        /\ overdue' = overdue \ {r}

\* ... which a cancel or an expiry stops ...
Stopped(r) ==
    /\ Running(r)
    /\ \E v \in {"cancelled", "failed"} : runs'[r] = [runs[r] EXCEPT !.status = v]

\* ... or its stream concludes ...
StreamEnds(r) ==
    \E q \in Requests :
        /\ RunOf[q] = r /\ runs[r] # None
        /\ pc[q] \in {"finish", "refinish", "closing"} /\ pc' = [pc EXCEPT ![q] = "ended"]
        /\ runs'[r] = Concluded(q)

\* ... and which goes with its conversation.
Removed(r) ==
    /\ runs[r] # None /\ runs'[r] = None
    /\ runs[r].conversation \notin conversations'

RowStep(r) ==
    \/ runs'[r] = runs[r]
    \/ Claimed(r) \/ Stopped(r) \/ StreamEnds(r) \/ Removed(r)

LEMMA RowSteps ==
  ASSUME Typed, [Next]_vars, NEW r \in RunIds
  PROVE  RowStep(r) /\ conversations' \subseteq conversations
  <1>. USE DEF RowStep, Typed, TypeOK
  <1>1. ASSUME NEW q \in Requests, Expire(q) PROVE RowStep(r) /\ UNCHANGED conversations
    BY <1>1 DEF Expire, RowsOK, StaleRuns, Occupies, Stopped
  <1>2. ASSUME NEW q \in Requests, Create(q) PROVE RowStep(r) /\ UNCHANGED conversations
    BY <1>2 DEF Create, RowsOK, ClaimIsFree, Claimed, Goto
  <1>3. ASSUME NEW q \in Requests, Settle(q), pc[q] \in {"finish", "refinish", "closing"},
               Leave(q, "ended")
        PROVE  RowStep(r)
    BY <1>3 DEF Settle, Leave, Goto, RowsOK, StreamEnds
  <1>4. ASSUME NEW s \in RunIds, Cancel(s) PROVE RowStep(r) /\ UNCHANGED conversations
    BY <1>4 DEF Cancel, RowsOK, Stopped
  <1>5. ASSUME NEW c \in Conversations, DeleteConversation(c)
        PROVE  RowStep(r) /\ conversations' \subseteq conversations
    BY <1>5 DEF DeleteConversation, RowsOK, Removed
  <1>6. ASSUME NEW q \in Requests,
               \/ Arrive(q) \/ Lookup(q) \/ Prepare(q) \/ Open(q) \/ Check(q) \/ Read(q)
               \/ CallTool(q) \/ RunTool(q) \/ Recheck(q) \/ Emit(q)
               \/ Replay(q) \/ ReplayEnd(q) \/ Disconnect(q) \/ StorageFails(q) \/ Crash(q)
        PROVE  UNCHANGED <<runs, conversations>>
    BY <1>6 DEF rowVars, Arrive, Lookup, Prepare, Open, Check, Read, CallTool, RunTool, Recheck,
                Emit, Replay, ReplayEnd, Disconnect, StorageFails, Crash
  <1>7. ASSUME Revoke \/ (\E s \in RunIds : PassDeadline(s)) \/ UNCHANGED vars
        PROVE  UNCHANGED <<runs, conversations>>
    BY <1>7 DEF Revoke, PassDeadline, vars, rowVars
  <1>8. ASSUME NEW q \in Requests, Finish(q) \/ CloseStream(q)
        PROVE  RowStep(r) /\ UNCHANGED conversations
    BY <1>3, <1>8 DEF Finish, CloseStream
  <1>. QED
    BY <1>1, <1>2, <1>4, <1>5, <1>6, <1>7, <1>8 DEF Next, Step

\* Whichever of a stream, a cancel and an expiry is first to stop a run decides
\* its status for good.
THEOREM FirstVerdictStands == Spec => VerdictsAreFinal
  <1>. DEFINE Keeps(r) == runs[r] # None /\ runs[r].status # "running" /\ runs'[r] # None
                            => runs'[r].status = runs[r].status
  <1>1. ASSUME Typed, [Next]_vars, NEW r \in RunIds PROVE Keeps(r)
    <2>. SUFFICES ASSUME runs[r] # None, runs[r].status # "running", runs'[r] # None
                  PROVE  runs'[r].status = runs[r].status
      OBVIOUS
    <2>1. ASSUME StreamEnds(r) PROVE runs'[r].status = runs[r].status
      BY <1>1, <2>1, ConcludedTyped DEF StreamEnds
    <2>. QED BY <1>1, <2>1, RowSteps DEF RowStep, Claimed, Stopped, Removed, Running
  <1>2. Typed /\ [Next]_vars => [\A r \in RunIds : Keeps(r)]_vars
    BY <1>1
  <1>. QED BY <1>2, TypedAlways, PTL DEF Spec, VerdictsAreFinal
-----------------------------------------------------------------------------
(* Which request a run belongs to, when repeated sends keep conversation.  *)

Named(r, c) == \E q \in Requests : RunOf[q] = r /\ ConversationOf[q] = c

\* The row of run r is in conversation c, or went with it and cannot come back.
Tied(r, c) ==
    IF runs[r] = None THEN c \notin conversations ELSE runs[r].conversation = c

\* A run that is tied to its conversation is never claimed again, so that
\* what stopped it stands.
LEMMA TiedKept ==
  ASSUME RepeatsKeepConversation, Typed, [Next]_vars,
         NEW r \in RunIds, NEW c \in Conversations, Named(r, c), Tied(r, c)
  PROVE  /\ ~Claimed(r)
         /\ Tied(r, c)'
         /\ ~Running(r) => ~Running(r)'
  <1>1. ~Claimed(r)
    BY DEF RepeatsKeepConversation, Claimed, Tied, Named
  <1>2. RowStep(r) /\ conversations' \subseteq conversations
    BY RowSteps
  <1>3. runs[r] # None => runs[r] \in Run
    BY DEF Typed, TypeOK, RowsOK
  <1>5. CASE runs'[r] = runs[r]
    BY <1>1, <1>2, <1>5 DEF Tied, Running
  <1>6. CASE Stopped(r)
    BY <1>1, <1>3, <1>6, NextTyped DEF Stopped, Tied, Running, Run, Statuses
  <1>7. CASE StreamEnds(r)
    BY <1>1, <1>7, ConcludedTyped DEF StreamEnds, Tied, Running
  <1>8. CASE Removed(r)
    BY <1>1, <1>8 DEF Removed, Tied, Running
  <1>. QED BY <1>1, <1>2, <1>5, <1>6, <1>7, <1>8 DEF RowStep

\* A request moves by itself; every other step leaves all it has alone.
Moves(q) == Step(q) \/ Disconnect(q) \/ StorageFails(q) \/ Crash(q)

Rests(q) ==
    /\ pc'[q] = pc[q] /\ output'[q] = output[q] /\ verdict'[q] = verdict[q]
    /\ replayed'[q] = replayed[q] /\ shown'[q] = shown[q] /\ outcome'[q] = outcome[q]
    /\ late'[q] = late[q] /\ met'[q] = met[q]

LEMMA OthersRest ==
  ASSUME Typed, [Next]_vars, NEW q \in Requests
  PROVE  Moves(q) \/ Rests(q)
  <1>. USE DEF Rests, streamVars, clientVars
  <1>1. ASSUME NEW p \in Requests, p # q, Moves(p) PROVE Rests(q)
    <2>. USE <1>1 DEF Typed, TypeOK, StreamsOK, ClientsOK, Goto
    <2>1. CASE Arrive(p) \/ Expire(p) \/ Lookup(p) \/ Prepare(p) \/ Create(p)
      BY <2>1 DEF Arrive, Expire, Lookup, Prepare, Create
    <2>2. CASE Open(p) \/ Check(p) \/ Recheck(p) \/ Disconnect(p)
      BY <2>2 DEF Open, Check, Recheck, Disconnect, Guarded, Conclude
    <2>3. CASE Read(p) \/ CallTool(p) \/ RunTool(p) \/ Emit(p)
      BY <2>3 DEF Read, CallTool, RunTool, Emit, Conclude
    <2>4. CASE Finish(p) \/ CloseStream(p) \/ Crash(p)
      BY <2>4 DEF Finish, CloseStream, Crash, Leave
    <2>5. CASE Replay(p) \/ ReplayEnd(p)
      BY <2>5 DEF Replay, ReplayEnd, Leave
    <2>6. CASE StorageFails(p)
      BY <2>6 DEF StorageFails, Leave, Conclude
    <2>. QED BY <1>1, <2>1, <2>2, <2>3, <2>4, <2>5, <2>6 DEF Moves, Step
  <1>2. ASSUME Revoke \/ (\E r \in RunIds : Cancel(r) \/ PassDeadline(r))
               \/ (\E c \in Conversations : DeleteConversation(c)) \/ UNCHANGED vars
        PROVE  Rests(q)
    BY <1>2 DEF Revoke, Cancel, PassDeadline, DeleteConversation, vars
  <1>. QED BY <1>1, <1>2 DEF Next, Moves

\* A stream begins with a claim and changes no row before its end.
LEMMA StreamSteps ==
  ASSUME Typed, NEW q \in Requests, Moves(q), pc'[q] \in Streaming
  PROVE  \/ /\ pc[q] \in Streaming
            /\ UNCHANGED <<runs, conversations>>
         \/ /\ pc[q] = "create" /\ runs[RunOf[q]] = None
            /\ ConversationOf[q] \in conversations
            /\ runs'[RunOf[q]] = [conversation |-> ConversationOf[q], status |-> "running",
                                  output |-> 0]
            /\ UNCHANGED conversations
  <1>. USE DEF Typed, TypeOK, RowsOK, StreamsOK, Streaming, Goto
  <1>1. ASSUME Arrive(q) \/ Expire(q) \/ Lookup(q) \/ Prepare(q) \/ Replay(q) \/ ReplayEnd(q)
               \/ Finish(q) \/ CloseStream(q) \/ Crash(q)
        PROVE  pc'[q] \notin Streaming
    BY <1>1 DEF Arrive, Expire, Lookup, Prepare, Replay, ReplayEnd, Finish, CloseStream, Crash,
                Leave, streamVars
  <1>2. CASE Create(q)
    BY <1>2 DEF Create, ClaimIsFree
  <1>3. CASE Open(q) \/ Check(q) \/ Read(q) \/ CallTool(q) \/ RunTool(q) \/ Recheck(q) \/ Emit(q)
             \/ Disconnect(q)
    BY <1>3 DEF Open, Check, Read, CallTool, RunTool, Recheck, Emit, Disconnect, rowVars
  <1>4. CASE StorageFails(q)
    BY <1>4 DEF StorageFails, Leave, rowVars
  <1>. QED BY <1>1, <1>2, <1>3, <1>4 DEF Moves, Step
-----------------------------------------------------------------------------
(* The inductive invariant: who may write what about which run.            *)

\* The run of a stream is in its conversation, not completed and unanswered.
Owned(q) ==
    pc[q] \in Streaming =>
        /\ Tied(RunOf[q], ConversationOf[q])
        /\ runs[RunOf[q]] # None => /\ runs[RunOf[q]].status # "completed"
                                    /\ runs[RunOf[q]].output = 0

\* The run of a stream that is in time was stopped by its user, if at all.
Spared(q) ==
    pc[q] \in Streaming /\ RunOf[q] \notin overdue /\ runs[RunOf[q]] # None =>
        runs[RunOf[q]].status \in {"running", "cancelled"}

\* A run has one stream, however often its send is repeated.
OneStream ==
    \A p, q \in Requests :
        RunOf[p] = RunOf[q] /\ pc[p] \in Streaming /\ pc[q] \in Streaming => p = q

\* Only a stream that ends with text is about to record a completion.
Judged(q) == verdict[q] = "completed" => pc[q] = "finish" /\ output[q] > 0

RowSound(r) ==
    runs[r] # None => /\ runs[r].status = "running" => runs[r].output = 0
                      /\ runs[r].status = "completed" => runs[r].output > 0

\* What a client was told, and what a replay will tell, is still stored.
Told(q) ==
    outcome[q] = "done" =>
        /\ pc[q] = "ended" /\ shown[q] > 0
        /\ Tied(RunOf[q], ConversationOf[q])
        /\ runs[RunOf[q]] # None => /\ runs[RunOf[q]].status = "completed"
                                    /\ runs[RunOf[q]].output = shown[q]

Replaying(q) ==
    pc[q] \in {"replay", "replayEnd"} =>
        /\ Tied(RunOf[q], ConversationOf[q])
        /\ replayed[q].status = "completed" =>
              /\ replayed[q].output > 0
              /\ runs[RunOf[q]] # None => /\ runs[RunOf[q]].status = "completed"
                                          /\ runs[RunOf[q]].output = replayed[q].output
        /\ pc[q] = "replayEnd" => shown[q] = replayed[q].output

\* A stream that sent a chunk too late has not read again since.
Quiet(q) ==
    /\ late[q] \in {0, 1}
    /\ late[q] = 1 => /\ Tied(RunOf[q], ConversationOf[q]) /\ ~Running(RunOf[q])
                      /\ pc[q] \in {"check", "finish", "refinish", "closing"} \union Final

\* The stale runs a send met are stopped in its expiry step, if not before.
Met(q) ==
    /\ pc[q] = "new" => met[q] = {}
    /\ \A r \in met[q] :
          /\ Tied(r, ConversationOf[q]) /\ Named(r, ConversationOf[q])
          /\ pc[q] = "expire" => (Running(r) => r \in overdue)
          /\ pc[q] \notin {"expire", "crashed", "refused"} => ~Running(r)

IInv ==
    /\ Typed /\ OneStream
    /\ \A q \in Requests :
          Owned(q) /\ Spared(q) /\ Judged(q) /\ Told(q) /\ Replaying(q) /\ Quiet(q) /\ Met(q)
    /\ \A r \in RunIds : RowSound(r) /\ (runs[r] # None => Named(r, runs[r].conversation))
    /\ ReviewableOnlyWhenCompleted

LEMMA InitIInv == Init => IInv
  BY InitTyped
     DEF Init, IInv, OneStream, Owned, Spared, Judged, Told, Replaying, Quiet, Met, RowSound,
         ReviewableOnlyWhenCompleted, Streaming

LEMMA OwnedKept ==
  ASSUME RepeatsKeepConversation, IInv, [Next]_vars, NEW q \in Requests
  PROVE  Owned(q)'
  <1>. DEFINE r == RunOf[q]
  <1>. SUFFICES ASSUME pc'[q] \in Streaming
                PROVE  /\ Tied(r, ConversationOf[q])'
                       /\ runs'[r] # None => /\ runs'[r].status # "completed"
                                             /\ runs'[r].output = 0
    BY DEF Owned, Streaming
  <1>1. r \in RunIds /\ ConversationOf[q] \in Conversations /\ Named(r, ConversationOf[q])
    BY DEF Named
  <1>2. CASE Moves(q)
    <2>1. Typed /\ Owned(q)
      BY DEF IInv
    <2>2. \/ pc[q] \in Streaming /\ UNCHANGED <<runs, conversations>>
          \/ runs'[r] = [conversation |-> ConversationOf[q], status |-> "running", output |-> 0]
      BY <1>2, <2>1, StreamSteps
    <2>3. runs'[r] \in Run \union {None}
      BY <2>1, NextTyped DEF Typed, TypeOK, RowsOK
    <2>. QED BY <2>1, <2>2, <2>3 DEF Owned, Tied, Run, Statuses
  <1>3. CASE Rests(q)
    <2>1. pc[q] \in Streaming /\ Owned(q)
      BY <1>3 DEF Rests, IInv
    <2>2. ~Claimed(r) /\ Tied(r, ConversationOf[q])'
      BY <1>1, <2>1, TiedKept DEF IInv, Owned
    <2>3. ~StreamEnds(r)
      <3>1. ASSUME NEW p \in Requests, RunOf[p] = r, pc' = [pc EXCEPT ![p] = "ended"],
                   pc[p] \in {"finish", "refinish", "closing"}
            PROVE  FALSE
        BY <2>1, <3>1 DEF IInv, OneStream, Typed, TypeOK, StreamsOK, Streaming
      <3>. QED BY <3>1 DEF StreamEnds
    <2>4. runs[r] # None => runs[r] \in Run
      BY DEF IInv, Typed, TypeOK, RowsOK
    <2>. QED BY <1>1, <2>1, <2>2, <2>3, <2>4, RowSteps
             DEF IInv, Owned, RowStep, Stopped, Removed, Run, Running
  <1>. QED BY <1>2, <1>3, OthersRest DEF IInv

\* A run past its deadline stays so until it is claimed anew, and nothing but a
\* cancel and its own stream stops one that is in time.
LEMMA DeadlinesStand ==
  ASSUME Typed, [Next]_vars, NEW r \in RunIds
  PROVE  /\ r \in overdue => r \in overdue' \/ Claimed(r)
         /\ Stopped(r) /\ r \notin overdue => runs'[r].status = "cancelled" \/ StreamEnds(r)
  <1>. USE DEF Typed, TypeOK, RowsOK
  <1>0. ASSUME Stopped(r)
        PROVE  runs[r] # None /\ runs'[r] # None /\ runs'[r] # runs[r]
    <2>1. runs[r] \in Run /\ runs[r].status = "running"
      BY <1>0 DEF Stopped, Running
    <2>2. PICK v \in {"cancelled", "failed"} : runs'[r] = [runs[r] EXCEPT !.status = v]
      BY <1>0 DEF Stopped
    <2>3. runs'[r] \in Run /\ runs'[r].status = v
      BY <2>1, <2>2 DEF Run, Statuses
    <2>. QED BY <2>1, <2>3, NoneAssumption
  <1>1. ASSUME NEW q \in Requests, Expire(q)
        PROVE  UNCHANGED overdue /\ (r \notin overdue => ~Stopped(r))
    <2>1. UNCHANGED overdue /\ (r \notin overdue => runs'[r] = runs[r])
      BY <1>1 DEF Expire, StaleRuns
    <2>. QED BY <1>0, <2>1
  <1>2. ASSUME NEW q \in Requests, Create(q)
        PROVE  (r \in overdue => r \in overdue' \/ Claimed(r)) /\ ~Stopped(r)
    <2>1. /\ r # RunOf[q] => runs'[r] = runs[r]
          /\ runs'[RunOf[q]] = runs[RunOf[q]] \/ runs[RunOf[q]] = None
      BY <1>2 DEF Create, ClaimIsFree
    <2>2. r \in overdue => r \in overdue' \/ Claimed(r)
      BY <1>2 DEF Create, ClaimIsFree, Claimed, Goto
    <2>. QED BY <1>0, <2>1, <2>2
  <1>3. ASSUME NEW q \in Requests, Finish(q) \/ CloseStream(q)
        PROVE  UNCHANGED overdue /\ (Stopped(r) => StreamEnds(r))
    BY <1>3 DEF Finish, CloseStream, Settle, Leave, Goto, StreamEnds, Stopped, Run, Running
  <1>4. ASSUME NEW s \in RunIds, Cancel(s)
        PROVE  UNCHANGED overdue /\ (Stopped(r) => runs'[r].status = "cancelled")
    <2>1. UNCHANGED overdue /\ runs' = [runs EXCEPT ![s].status = "cancelled"]
      BY <1>4 DEF Cancel
    <2>2. CASE r = s
      <3>1. ASSUME Stopped(r) PROVE runs'[r].status = "cancelled"
        <4>1. runs[r] \in Run
          BY <3>1 DEF Stopped, Running
        <4>. QED BY <2>1, <2>2, <4>1 DEF Run
      <3>. QED BY <2>1, <3>1
    <2>3. CASE r # s
      BY <1>0, <2>1, <2>3
    <2>. QED BY <2>2, <2>3
  <1>5. ASSUME NEW c \in Conversations, DeleteConversation(c)
        PROVE  UNCHANGED overdue /\ ~Stopped(r)
    BY <1>0, <1>5 DEF DeleteConversation
  <1>6. ASSUME NEW q \in Requests,
               \/ Arrive(q) \/ Lookup(q) \/ Prepare(q) \/ Open(q) \/ Check(q) \/ Read(q)
               \/ CallTool(q) \/ RunTool(q) \/ Recheck(q) \/ Emit(q)
               \/ Replay(q) \/ ReplayEnd(q) \/ Disconnect(q) \/ StorageFails(q) \/ Crash(q)
        PROVE  UNCHANGED <<runs, overdue>>
    BY <1>6 DEF rowVars, Arrive, Lookup, Prepare, Open, Check, Read, CallTool, RunTool, Recheck,
                Emit, Replay, ReplayEnd, Disconnect, StorageFails, Crash
  <1>7. ASSUME Revoke \/ (\E s \in RunIds : PassDeadline(s)) \/ UNCHANGED vars
        PROVE  runs' = runs /\ overdue \subseteq overdue'
    BY <1>7 DEF Revoke, PassDeadline, vars, rowVars
  <1>8. runs' = runs => ~Stopped(r)
    BY <1>0
  <1>. QED
    BY <1>1, <1>2, <1>3, <1>4, <1>5, <1>6, <1>7, <1>8 DEF Next, Step

LEMMA SparedKept ==
  ASSUME RepeatsKeepConversation, IInv, [Next]_vars, NEW q \in Requests
  PROVE  Spared(q)'
  <1>. DEFINE r == RunOf[q]
  <1>. SUFFICES ASSUME pc'[q] \in Streaming, r \notin overdue', runs'[r] # None
                PROVE  runs'[r].status \in {"running", "cancelled"}
    BY DEF Spared, Streaming
  <1>1. Typed /\ Spared(q) /\ r \in RunIds
    BY DEF IInv
  <1>2. r \notin overdue \/ Claimed(r)
    BY <1>1, DeadlinesStand
  <1>3. CASE Moves(q)
    <2>1. \/ pc[q] \in Streaming /\ UNCHANGED <<runs, conversations>>
          \/ runs'[r] = [conversation |-> ConversationOf[q], status |-> "running", output |-> 0]
      BY <1>1, <1>3, StreamSteps
    <2>2. CASE pc[q] \in Streaming /\ UNCHANGED <<runs, conversations>>
      <3>1. r \notin overdue /\ runs[r] # None
        BY <1>2, <2>2 DEF Claimed
      <3>. QED BY <1>1, <2>2, <3>1 DEF Spared
    <2>. QED BY <2>1, <2>2
  <1>4. CASE Rests(q)
    <2>1. pc[q] \in Streaming /\ Owned(q)
      BY <1>4 DEF Rests, IInv
    <2>2. ~Claimed(r)
      <3>1. Named(r, ConversationOf[q]) /\ ConversationOf[q] \in Conversations
        BY DEF Named
      <3>. QED BY <1>1, <2>1, <3>1, TiedKept DEF IInv, Owned
    <2>3. ~StreamEnds(r)
      <3>1. ASSUME NEW p \in Requests, RunOf[p] = r, pc' = [pc EXCEPT ![p] = "ended"],
                   pc[p] \in {"finish", "refinish", "closing"}
            PROVE  FALSE
        BY <2>1, <3>1 DEF IInv, OneStream, Typed, TypeOK, StreamsOK, Streaming
      <3>. QED BY <3>1 DEF StreamEnds
    <2>4. runs'[r] = runs[r] \/ Stopped(r)
      BY <1>1, <2>2, <2>3, RowSteps DEF RowStep, Removed
    <2>. QED BY <1>1, <1>2, <2>1, <2>2, <2>3, <2>4, DeadlinesStand DEF Spared
  <1>. QED BY <1>3, <1>4, OthersRest DEF IInv

LEMMA OneStreamKept ==
  ASSUME RepeatsKeepConversation, IInv, [Next]_vars
  PROVE  OneStream'
  <1>0. Typed
    BY DEF IInv
  <1>1. ASSUME NEW p \in Requests, NEW q \in Requests, RunOf[p] = RunOf[q],
               pc'[p] \in Streaming, pc'[q] \in Streaming, p # q
        PROVE  FALSE
    <2>1. ASSUME NEW s \in Requests, Moves(s), pc'[s] \in Streaming
          PROVE  \/ pc[s] \in Streaming
                 \/ (runs[RunOf[s]] = None /\ ConversationOf[s] \in conversations)
      BY <1>0, <2>1, StreamSteps
    <2>2. ASSUME NEW s \in Requests, NEW t \in Requests, RunOf[s] = RunOf[t],
                 pc[s] \in Streaming, runs[RunOf[s]] = None
          PROVE  ConversationOf[t] \notin conversations
      BY <2>2 DEF IInv, Owned, Tied, RepeatsKeepConversation
    <2>3. pc[p] \in Streaming \/ Moves(p)
      BY <1>1, OthersRest DEF IInv, Rests
    <2>4. pc[q] \in Streaming \/ Moves(q)
      BY <1>1, OthersRest DEF IInv, Rests
    <2>5. pc[p] \in Streaming \/ pc[q] \in Streaming
      <3>1. ASSUME Create(p) PROVE pc'[q] = pc[q]
        BY <1>1, <3>1 DEF Create, Goto, IInv, Typed, TypeOK, StreamsOK
      <3>2. ASSUME NEW s \in Requests, Moves(s), pc'[s] \in Streaming, pc[s] \notin Streaming
            PROVE  Create(s)
        BY <3>2 DEF Moves, Step, Arrive, Expire, Lookup, Prepare, Replay, ReplayEnd, Finish,
                    CloseStream, Crash, Open, Check, Read, CallTool, RunTool, Recheck, Emit,
                    Disconnect, StorageFails, Leave, Goto, IInv, Typed, TypeOK, StreamsOK, Streaming
      <3>. QED BY <1>1, <2>3, <2>4, <3>1, <3>2
    <2>6. pc[p] \in Streaming /\ pc[q] \in Streaming
      BY <1>1, <2>1, <2>2, <2>3, <2>4, <2>5
    <2>. QED BY <1>1, <2>6 DEF IInv, OneStream
  <1>. QED BY <1>1 DEF OneStream

LEMMA JudgedKept ==
  ASSUME IInv, [Next]_vars, NEW q \in Requests
  PROVE  Judged(q)'
  <1>. USE DEF Judged, Typed, TypeOK, StreamsOK, Goto
  <1>1. Typed /\ Judged(q)
    BY DEF IInv
  <1>2. CASE Rests(q)
    BY <1>1, <1>2 DEF Rests
  <1>3. CASE Arrive(q) \/ Expire(q) \/ Lookup(q) \/ Prepare(q) \/ Create(q)
    BY <1>1, <1>3 DEF Arrive, Expire, Lookup, Prepare, Create, streamVars
  <1>4. CASE Open(q) \/ Check(q) \/ Disconnect(q)
    BY <1>1, <1>4 DEF Open, Check, Disconnect, Guarded, Conclude
  <1>5. CASE Read(q) \/ CallTool(q) \/ RunTool(q) \/ Emit(q)
    BY <1>1, <1>5 DEF Read, CallTool, RunTool, Emit, Conclude
  <1>6. CASE Recheck(q)
    BY <1>1, <1>6 DEF Recheck, Guarded, Conclude
  <1>7. CASE Finish(q) \/ CloseStream(q) \/ Crash(q) \/ ReplayEnd(q)
    BY <1>1, <1>7 DEF Finish, CloseStream, Crash, ReplayEnd, Leave
  <1>8. CASE Replay(q)
    BY <1>1, <1>8 DEF Replay, Leave, streamVars
  <1>9. CASE StorageFails(q)
    BY <1>1, <1>9 DEF StorageFails, Leave, Conclude
  <1>. QED BY <1>1, <1>2, <1>3, <1>4, <1>5, <1>6, <1>7, <1>8, <1>9, OthersRest DEF Moves, Step

LEMMA RowsKept ==
  ASSUME IInv, [Next]_vars, NEW r \in RunIds
  PROVE  (RowSound(r) /\ (runs[r] # None => Named(r, runs[r].conversation)))'
  <1>1. Typed /\ RowSound(r) /\ (runs[r] # None => Named(r, runs[r].conversation))
    BY DEF IInv
  <1>2. runs[r] # None => runs[r] \in Run
    BY <1>1 DEF Typed, TypeOK, RowsOK
  <1>3. CASE runs'[r] = runs[r]
    BY <1>1, <1>3 DEF RowSound, Named
  <1>4. CASE Claimed(r)
    BY <1>4 DEF Claimed, RowSound, Named
  <1>5. CASE Stopped(r)
    BY <1>1, <1>2, <1>5 DEF Stopped, Running, RowSound, Named, Run
  <1>6. CASE StreamEnds(r)
    <2>1. PICK q \in Requests : /\ RunOf[q] = r /\ runs[r] # None
                                /\ runs'[r] = Concluded(q)
      BY <1>6 DEF StreamEnds
    <2>2. Judged(q)
      BY DEF IInv
    <2>. QED BY <1>1, <2>1, <2>2, ConcludedTyped DEF RowSound, Judged, Named
  <1>7. CASE Removed(r)
    BY <1>7 DEF Removed, RowSound
  <1>. QED BY <1>1, <1>3, <1>4, <1>5, <1>6, <1>7, RowSteps DEF RowStep

\* A completed row stays as it is while it exists.
LEMMA CompletedKept ==
  ASSUME IInv, [Next]_vars, NEW r \in RunIds,
         runs[r] # None, runs[r].status = "completed"
  PROVE  runs'[r] # None => runs'[r].status = "completed" /\ runs'[r].output = runs[r].output
  <1>1. Typed /\ RowSound(r)
    BY DEF IInv
  <1>2. runs[r] \in Run
    BY <1>1 DEF Typed, TypeOK, RowsOK
  <1>3. CASE StreamEnds(r)
    BY <1>1, <1>2, <1>3, ConcludedTyped DEF StreamEnds, RowSound, Run
  <1>. QED BY <1>1, <1>3, RowSteps DEF RowStep, Claimed, Stopped, Removed, Running

LEMMA ToldKept ==
  ASSUME RepeatsKeepConversation, IInv, [Next]_vars, NEW q \in Requests
  PROVE  Told(q)'
  <1>. DEFINE r == RunOf[q]
  <1>1. /\ Typed /\ Told(q) /\ Replaying(q) /\ Judged(q) /\ Owned(q) /\ Counted(q) /\ RowSound(r)
        /\ r \in RunIds /\ ConversationOf[q] \in Conversations /\ Named(r, ConversationOf[q])
    BY DEF IInv, Typed, Named
  <1>2. CASE outcome[q] = "done" /\ Rests(q)
    <2>1. Tied(r, ConversationOf[q])'
      BY <1>1, <1>2, TiedKept DEF Told
    <2>2. runs'[r] # None => runs[r] # None
      BY <1>1, <1>2, RowSteps, TiedKept DEF RowStep, Stopped, StreamEnds, Removed, Running, Told
    <2>. QED BY <1>1, <1>2, <2>1, <2>2, CompletedKept DEF Told, Rests
  <1>3. ASSUME outcome[q] # "done", outcome'[q] = "done"
        PROVE  Finish(q) \/ ReplayEnd(q)
    <2>1. Moves(q)
      BY <1>1, <1>3, OthersRest DEF Rests
    <2>2. outcome \in [Requests -> {"none", "done", "error"}]
      BY <1>1 DEF Typed, TypeOK, ClientsOK
    <2>. QED BY <1>3, <2>1, <2>2
             DEF Moves, Step, clientVars, Arrive, Expire, Lookup, Prepare, Create, Open,
                 Check, Read,
                 CallTool, RunTool, Recheck, Emit, CloseStream, Replay, Disconnect, StorageFails, Crash
  <1>4. CASE outcome[q] = "done" /\ Moves(q)
    BY <1>1, <1>4
       DEF Told, Moves, Step, Active, Arrive, Expire, Lookup, Prepare, Create, Open, Check,
           Read,
           CallTool, RunTool, Recheck, Emit, Finish, CloseStream, Replay, ReplayEnd, Disconnect,
           StorageFails, Crash
  <1>5. ASSUME Finish(q), outcome'[q] = "done" PROVE Told(q)'
    <2>1. /\ verdict[q] = "completed" /\ Running(r) /\ UNCHANGED <<shown, conversations>>
          /\ Settle(q) /\ Leave(q, "ended") /\ pc[q] \in {"finish", "refinish"}
      BY <1>1, <1>5 DEF Finish, Reports, Typed, TypeOK, ClientsOK
    <2>2. output[q] > 0 /\ shown[q] = output[q] /\ Tied(r, ConversationOf[q])
      BY <1>1, <2>1 DEF Judged, Counted, Owned, Streaming
    <2>3. runs'[r] = Concluded(q) /\ pc'[q] = "ended" /\ runs[r] # None
      BY <1>1, <2>1 DEF Settle, Leave, Goto, Running, Typed, TypeOK, RowsOK, StreamsOK
    <2>4. Concluded(q) \in Run /\ Concluded(q).status = "completed"
          /\ Concluded(q).output = output[q] /\ Concluded(q).conversation = ConversationOf[q]
      BY <1>1, <2>1, <2>2, <2>3, ConcludedTyped DEF Running, RowSound, Tied
    <2>. QED BY <2>1, <2>2, <2>3, <2>4 DEF Told, Tied
  <1>6. ASSUME ReplayEnd(q), outcome'[q] = "done" PROVE Told(q)'
    <2>1. /\ replayed[q].status = "completed" /\ UNCHANGED <<shown, rowVars>>
          /\ pc[q] = "replayEnd" /\ pc'[q] = "ended"
      BY <1>1, <1>6 DEF ReplayEnd, Leave, Goto, Typed, TypeOK, ClientsOK, StreamsOK
    <2>. QED BY <1>1, <2>1 DEF Replaying, Told, Tied, rowVars
  <1>. QED BY <1>1, <1>2, <1>3, <1>4, <1>5, <1>6, OthersRest DEF Told

LEMMA ReplayingKept ==
  ASSUME RepeatsKeepConversation, IInv, [Next]_vars, NEW q \in Requests
  PROVE  Replaying(q)'
  <1>. DEFINE r == RunOf[q]
  <1>1. /\ Typed /\ Replaying(q)
        /\ r \in RunIds /\ ConversationOf[q] \in Conversations /\ Named(r, ConversationOf[q])
        /\ RowSound(r)
    BY DEF IInv, Named
  <1>2. CASE pc[q] \in {"replay", "replayEnd"} /\ Rests(q)
    <2>1. Tied(r, ConversationOf[q])' /\ Tied(r, ConversationOf[q])
      BY <1>1, <1>2, TiedKept DEF Replaying
    <2>2. runs'[r] # None => runs[r] # None
      BY <1>1, <2>1, RowSteps, TiedKept DEF RowStep, Stopped, StreamEnds, Removed, Running
    <2>. QED BY <1>1, <1>2, <2>1, <2>2, CompletedKept DEF Replaying, Rests
  <1>3. CASE pc[q] \notin {"replay", "replayEnd"} /\ Rests(q)
    BY <1>3 DEF Replaying, Rests
  <1>4. CASE Lookup(q)
    BY <1>1, <1>4
       DEF Lookup, Goto, Replaying, Tied, RowSound, rowVars, Typed, TypeOK, StreamsOK
  <1>5. CASE Replay(q)
    BY <1>1, <1>5
       DEF Replay, Leave, Goto, Replaying, Tied, rowVars, streamVars, Typed, TypeOK, StreamsOK,
           ClientsOK
  <1>6. CASE ~Lookup(q) /\ ~Replay(q) /\ Moves(q)
    <2>1. pc'[q] \notin {"replay", "replayEnd"}
      <3>. USE DEF Typed, TypeOK, StreamsOK, Goto
      <3>1. CASE Arrive(q) \/ Expire(q) \/ Prepare(q) \/ Create(q)
        BY <1>1, <3>1 DEF Arrive, Expire, Prepare, Create
      <3>2. CASE Open(q) \/ Check(q) \/ Disconnect(q) \/ Recheck(q)
        BY <1>1, <3>2 DEF Open, Check, Disconnect, Recheck, Guarded, Conclude
      <3>3. CASE Read(q) \/ CallTool(q) \/ RunTool(q) \/ Emit(q)
        BY <1>1, <3>3 DEF Read, CallTool, RunTool, Emit, Conclude
      <3>4. CASE Finish(q) \/ CloseStream(q) \/ Crash(q) \/ ReplayEnd(q)
        BY <1>1, <3>4 DEF Finish, CloseStream, Crash, ReplayEnd, Leave
      <3>5. CASE StorageFails(q)
        BY <1>1, <3>5 DEF StorageFails, Leave, Conclude
      <3>. QED BY <1>6, <3>1, <3>2, <3>3, <3>4, <3>5 DEF Moves, Step
    <2>. QED BY <2>1 DEF Replaying
  <1>. QED BY <1>1, <1>2, <1>3, <1>4, <1>5, <1>6, OthersRest

LEMMA QuietKept ==
  ASSUME RepeatsKeepConversation, IInv, [Next]_vars, NEW q \in Requests
  PROVE  Quiet(q)'
  <1>. DEFINE r == RunOf[q]
  <1>1. /\ Typed /\ Quiet(q) /\ Owned(q)
        /\ r \in RunIds /\ ConversationOf[q] \in Conversations /\ Named(r, ConversationOf[q])
    BY DEF IInv, Named
  <1>2. late[q] = 1 => Tied(r, ConversationOf[q])' /\ ~Running(r)'
    BY <1>1, TiedKept DEF Quiet
  <1>3. CASE Rests(q)
    BY <1>1, <1>2, <1>3 DEF Quiet, Rests
  <1>4. ASSUME Emit(q) PROVE Quiet(q)'
    BY <1>1, <1>4
       DEF Emit, Goto, Quiet, Final, rowVars, Owned, Streaming, Tied, Running,
           Typed, TypeOK, StreamsOK, ClientsOK
  <1>5. ASSUME Moves(q), ~Emit(q) PROVE late'[q] = late[q]
    BY <1>1, <1>5
       DEF Moves, Step, clientVars, Arrive, Expire, Lookup, Prepare, Create, Open, Check, Read,
           CallTool, RunTool, Recheck, Finish, CloseStream, Replay, ReplayEnd, Disconnect,
           StorageFails, Crash
  <1>6. ASSUME Moves(q), ~Emit(q), late[q] = 1
        PROVE  pc'[q] \in {"check", "finish", "refinish", "closing"} \union Final
    <2>1. pc[q] \in {"check", "finish", "refinish", "closing"} \union Final /\ ~Running(r)
      BY <1>1, <1>6 DEF Quiet
    <2>. USE DEF Typed, TypeOK, StreamsOK, Goto, Final
    <2>2. CASE Check(q)
      BY <1>1, <2>1, <2>2 DEF Check, Guarded, Authorized, Conclude
    <2>3. CASE Finish(q) \/ CloseStream(q) \/ Crash(q) \/ ReplayEnd(q) \/ Replay(q)
      BY <1>1, <2>1, <2>3 DEF Finish, CloseStream, Crash, ReplayEnd, Replay, Leave
    <2>4. CASE StorageFails(q) \/ Disconnect(q)
      BY <1>1, <2>1, <2>4 DEF StorageFails, Disconnect, Leave, Conclude
    <2>5. CASE Arrive(q) \/ Expire(q) \/ Lookup(q) \/ Prepare(q) \/ Create(q)
      BY <2>1, <2>5 DEF Arrive, Expire, Lookup, Prepare, Create
    <2>6. CASE Open(q) \/ Recheck(q) \/ Read(q) \/ CallTool(q) \/ RunTool(q)
      BY <2>1, <2>6 DEF Open, Recheck, Read, CallTool, RunTool
    <2>. QED BY <1>6, <2>2, <2>3, <2>4, <2>5, <2>6 DEF Moves, Step
  <1>. QED BY <1>1, <1>2, <1>3, <1>4, <1>5, <1>6, OthersRest DEF Quiet

LEMMA MetKept ==
  ASSUME RepeatsKeepConversation, IInv, [Next]_vars, NEW q \in Requests
  PROVE  Met(q)'
  <1>. DEFINE c == ConversationOf[q]
  <1>1. Typed /\ Met(q) /\ c \in Conversations /\ met[q] \subseteq RunIds
    BY DEF IInv, Typed, TypeOK, ClientsOK
  <1>2. ASSUME NEW r \in met[q]
        PROVE  /\ r \in RunIds /\ Named(r, c)' /\ Tied(r, c)' /\ ~Claimed(r)
               /\ ~Running(r) => ~Running(r)'
    BY <1>1, <1>2, TiedKept DEF Met, Named
  <1>3. ASSUME NEW r \in met[q], r \in overdue PROVE r \in overdue'
    <2>1. ASSUME NEW p \in Requests, Create(p) PROVE r \in overdue'
      BY <1>1, <1>2, <1>3, <2>1
         DEF Create, ClaimIsFree, Claimed, Goto, Typed, TypeOK, RowsOK, StreamsOK
    <2>2. ASSUME NEW p \in Requests, Moves(p), ~Create(p) PROVE r \in overdue'
      BY <1>3, <2>2
         DEF Moves, Step, Arrive, Expire, Lookup, Prepare, Open, Check, Read, CallTool, RunTool,
             Recheck, Emit, Finish, CloseStream, Replay, ReplayEnd, Disconnect, StorageFails, Crash
    <2>. QED BY <1>3, <2>1, <2>2
             DEF Next, Moves, Cancel, PassDeadline, DeleteConversation, Revoke, vars
  <1>4. CASE Rests(q)
    BY <1>1, <1>2, <1>3, <1>4 DEF Met, Rests, Running
  <1>5. CASE Arrive(q)
    <2>1. /\ met'[q] = {r \in overdue : Occupies(r, c)} /\ UNCHANGED <<rowVars, overdue>>
          /\ pc'[q] = IF StaleRuns(c) = {} THEN "lookup" ELSE "expire"
      BY <1>1, <1>5 DEF Arrive, Goto, Typed, TypeOK, ClientsOK, StreamsOK
    <2>2. ASSUME NEW r \in met'[q]
          PROVE  r \in overdue /\ Occupies(r, c) /\ Tied(r, c)' /\ Named(r, c)'
      BY <2>1, <2>2 DEF Occupies, Running, Tied, Named, rowVars, IInv, Typed, TypeOK, RowsOK
    <2>. QED BY <1>5, <2>1, <2>2 DEF Met, StaleRuns
  <1>6. CASE Expire(q)
    <2>1. UNCHANGED <<met, overdue>> /\ pc[q] = "expire" /\ pc'[q] = "lookup"
      BY <1>1, <1>6 DEF Expire, Goto, Typed, TypeOK, StreamsOK, clientVars
    <2>2. ASSUME NEW r \in met[q] PROVE ~Running(r)'
      BY <1>1, <1>2, <1>6, <2>1, <2>2
         DEF Expire, Met, StaleRuns, Occupies, Tied, Running, Typed, TypeOK, RowsOK, Run
    <2>. QED BY <1>1, <1>2, <2>1, <2>2 DEF Met
  <1>7. ASSUME Moves(q), ~Arrive(q), ~Expire(q)
        PROVE  /\ met'[q] = met[q] /\ pc'[q] \notin {"new", "expire"}
               /\ pc'[q] \in {"crashed", "refused"} \/ pc[q] \notin {"expire", "crashed", "refused"}
    <2>. USE DEF Typed, TypeOK, StreamsOK, Goto, clientVars
    <2>1. CASE Lookup(q) \/ Prepare(q) \/ Create(q)
      BY <1>1, <2>1 DEF Lookup, Prepare, Create
    <2>2. CASE Open(q) \/ Check(q) \/ Disconnect(q) \/ Recheck(q)
      BY <1>1, <2>2 DEF Open, Check, Disconnect, Recheck, Guarded, Conclude
    <2>3. CASE Read(q) \/ CallTool(q) \/ RunTool(q) \/ Emit(q)
      BY <1>1, <2>3 DEF Read, CallTool, RunTool, Emit, Conclude
    <2>4. CASE Finish(q) \/ CloseStream(q) \/ Crash(q) \/ ReplayEnd(q)
      BY <1>1, <2>4 DEF Finish, CloseStream, Crash, ReplayEnd, Leave
    <2>5. CASE Replay(q)
      BY <1>1, <2>5 DEF Replay, Leave, streamVars
    <2>6. CASE StorageFails(q)
      BY <1>1, <2>6 DEF StorageFails, Leave, Conclude
    <2>. QED BY <1>7, <2>1, <2>2, <2>3, <2>4, <2>5, <2>6 DEF Moves, Step
  <1>8. CASE Moves(q) /\ ~Arrive(q) /\ ~Expire(q)
    BY <1>1, <1>2, <1>7, <1>8 DEF Met
  <1>. QED BY <1>1, <1>4, <1>5, <1>6, <1>8, OthersRest

LEMMA ReviewKept ==
  ASSUME RepeatsKeepConversation, IInv, [Next]_vars
  PROVE  ReviewableOnlyWhenCompleted'
  <1>. DEFINE Sound(r) ==
         /\ proposals[r] = "attached" =>
                runs[r] # None /\ runs[r].status = "completed" /\ runs[r].output > 0
         /\ runs[r] # None /\ runs[r].status = "completed" => proposals[r] # "unattached"
  <1>1. SUFFICES ASSUME NEW r \in RunIds PROVE Sound(r)'
    BY DEF ReviewableOnlyWhenCompleted
  <1>2. Typed /\ Sound(r) /\ RowSound(r)
    BY DEF IInv, ReviewableOnlyWhenCompleted
  <1>3. runs[r] # None => runs[r] \in Run
    BY <1>2 DEF Typed, TypeOK, RowsOK
  <1>4. ASSUME NEW q \in Requests, Settle(q), UNCHANGED conversations PROVE Sound(r)'
    <2>1. CASE r # RunOf[q] \/ runs[RunOf[q]] = None
      BY <1>2, <1>4, <2>1 DEF Settle, Typed, TypeOK, RowsOK
    <2>2. CASE r = RunOf[q] /\ runs[r] # None
      <3>1. runs'[r] = Concluded(q)
        BY <1>2, <1>4, <2>2 DEF Settle, Typed, TypeOK, RowsOK
      <3>2. proposals'[r] = IF Attaches(Concluded(q)) /\ proposals[r] = "unattached"
                            THEN "attached" ELSE proposals[r]
        BY <1>2, <1>4, <2>2 DEF Settle, Typed, TypeOK, RowsOK
      <3>3. Concluded(q).status = "completed" => Concluded(q).output > 0
        BY <1>2, <2>2, ConcludedTyped DEF IInv, Judged, RowSound
      <3>4. proposals[r] = "attached" => Concluded(q).status = "completed"
        BY <1>2, <2>2, ConcludedTyped
      <3>5. Concluded(q) # None
        BY <1>2, <2>2, ConcludedTyped
      <3>. QED BY <3>1, <3>2, <3>3, <3>4, <3>5 DEF Attaches
    <2>. QED BY <2>1, <2>2
  <1>5. CASE \E q \in Requests : Finish(q) \/ CloseStream(q)
    BY <1>4, <1>5 DEF Finish, CloseStream
  <1>6. ASSUME NEW q \in Requests, RunTool(q) PROVE Sound(r)'
    <2>1. Owned(q) /\ pc[q] = "tool" /\ UNCHANGED runs
      BY <1>6 DEF IInv, RunTool
    <2>. QED BY <1>2, <1>6, <2>1 DEF RunTool, Owned, Streaming, Typed, TypeOK, RowsOK
  <1>7. ASSUME NEW c \in Conversations, DeleteConversation(c) PROVE Sound(r)'
    BY <1>2, <1>7 DEF DeleteConversation, Typed, TypeOK, RowsOK
  <1>8. ASSUME UNCHANGED proposals, runs'[r] = runs[r] \/ Claimed(r) \/ Stopped(r)
        PROVE  Sound(r)'
    <2>1. CASE runs'[r] = runs[r]
      BY <1>2, <1>8, <2>1
    <2>2. CASE Claimed(r)
      BY <1>2, <1>8, <2>2 DEF Claimed
    <2>3. CASE Stopped(r)
      BY <1>2, <1>3, <1>8, <2>3 DEF Stopped, Running, Run
    <2>. QED BY <1>8, <2>1, <2>2, <2>3
  <1>9. ASSUME NEW q \in Requests, Expire(q) \/ Create(q) PROVE Sound(r)'
    <2>1. runs'[r] = runs[r] \/ Claimed(r) \/ Stopped(r)
      <3>1. CASE Expire(q)
        BY <1>2, <3>1 DEF Expire, Typed, TypeOK, RowsOK, StaleRuns, Occupies, Stopped
      <3>2. CASE Create(q)
        BY <1>2, <3>2 DEF Create, Typed, TypeOK, RowsOK, ClaimIsFree, Claimed, Goto
      <3>. QED BY <1>9, <3>1, <3>2
    <2>. QED BY <1>8, <1>9, <2>1 DEF Expire, Create
  <1>10. ASSUME NEW s \in RunIds, Cancel(s) PROVE Sound(r)'
    <2>1. runs'[r] = runs[r] \/ Stopped(r)
      BY <1>2, <1>10 DEF Cancel, Typed, TypeOK, RowsOK, Stopped
    <2>. QED BY <1>8, <1>10, <2>1 DEF Cancel
  <1>11. ASSUME NEW q \in Requests,
                \/ Arrive(q) \/ Lookup(q) \/ Prepare(q) \/ Open(q) \/ Check(q) \/ Read(q)
                \/ CallTool(q) \/ Recheck(q) \/ Emit(q) \/ Replay(q) \/ ReplayEnd(q)
                \/ Disconnect(q) \/ StorageFails(q) \/ Crash(q)
         PROVE  Sound(r)'
    <2>1. UNCHANGED <<runs, proposals>>
      BY <1>11 DEF rowVars, Arrive, Lookup, Prepare, Open, Check, Read, CallTool, Recheck, Emit,
                   Replay, ReplayEnd, Disconnect, StorageFails, Crash
    <2>. QED BY <1>8, <2>1
  <1>12. ASSUME Revoke \/ (\E s \in RunIds : PassDeadline(s)) \/ UNCHANGED vars
         PROVE  Sound(r)'
    <2>1. UNCHANGED <<runs, proposals>>
      BY <1>12 DEF Revoke, PassDeadline, vars, rowVars
    <2>. QED BY <1>8, <2>1
  <1>. QED
    BY <1>5, <1>6, <1>7, <1>9, <1>10, <1>11, <1>12 DEF Next, Step

LEMMA NextIInv == RepeatsKeepConversation /\ IInv /\ [Next]_vars => IInv'
  <1>. SUFFICES ASSUME RepeatsKeepConversation, IInv, [Next]_vars PROVE IInv'
    OBVIOUS
  <1>1. Typed'
    BY NextTyped DEF IInv
  <1>2. ASSUME NEW q \in Requests
        PROVE  (Owned(q) /\ Spared(q) /\ Judged(q) /\ Told(q) /\ Replaying(q) /\ Quiet(q) /\ Met(q))'
    BY OwnedKept, SparedKept, JudgedKept, ToldKept, ReplayingKept, QuietKept, MetKept
  <1>. QED BY <1>1, <1>2, OneStreamKept, RowsKept, ReviewKept DEF IInv

LEMMA IInvAlways == ASSUME RepeatsKeepConversation PROVE Spec => []IInv
  BY InitIInv, NextIInv, PTL DEF Spec

\* A client told "done" has seen the whole of a reply that is stored as completed.
THEOREM DoneIsTrue == ASSUME RepeatsKeepConversation PROVE Spec => []DoneMeansWholeReply
  <1>1. IInv => DoneMeansWholeReply
    BY DEF IInv, Told, DoneMeansWholeReply
  <1>. QED BY <1>1, IInvAlways, PTL

\* A stream lets at most one chunk through after its run was stopped.
THEOREM StopIsPrompt == ASSUME RepeatsKeepConversation PROVE Spec => []StopTakesEffect
  <1>1. IInv => StopTakesEffect
    BY DEF IInv, Quiet, StopTakesEffect
  <1>. QED BY <1>1, IInvAlways, PTL

\* Only the proposals of completed replies can be reviewed, and all of them can.
THEOREM ReviewsAreOfCompletedReplies ==
    ASSUME RepeatsKeepConversation PROVE Spec => []ReviewableOnlyWhenCompleted
  <1>1. IInv => ReviewableOnlyWhenCompleted
    BY DEF IInv
  <1>. QED BY <1>1, IInvAlways, PTL

\* No conversation stays occupied by a run that was stale when a send came.
THEOREM SendsPassStaleRuns == ASSUME RepeatsKeepConversation PROVE Spec => []StaleRunsMakeWay
  <1>1. IInv => StaleRunsMakeWay
    BY DEF IInv, Met, StaleRunsMakeWay, Occupies
  <1>. QED BY <1>1, IInvAlways, PTL

\* No send fails the run of another one that is still at work in time.
THEOREM LiveRunsAreSpared == ASSUME RepeatsKeepConversation PROVE Spec => []LiveRunsAreLeftAlone
  <1>1. IInv => LiveRunsAreLeftAlone
    BY DEF IInv, Spared, LiveRunsAreLeftAlone
  <1>. QED BY <1>1, IInvAlways, PTL

\* The four together: stopping is prompt, only completed replies are reviewed,
\* stale runs make way and live ones are left alone, for any number of sends
\* and runs.
THEOREM RunsKeepWord == ASSUME RepeatsKeepConversation PROVE Spec => []RunsKeepTheirWord
  BY StopIsPrompt, ReviewsAreOfCompletedReplies, SendsPassStaleRuns, LiveRunsAreSpared, PTL
     DEF RunsKeepTheirWord
-----------------------------------------------------------------------------
(* The messages of the conversations.                                      *)

Said(r, role) == [run |-> r, role |-> role]

\* A message is of a run of its conversation, an answer of one with text, ...
Written ==
    \A c \in Conversations : \A i \in DOMAIN transcript[c] :
        LET m == transcript[c][i]
        IN  /\ runs[m.run] # None /\ runs[m.run].conversation = c
            /\ m.role = "assistant" => runs[m.run].output > 0

\* ... there once, ...
Once ==
    \A c \in Conversations : \A i, j \in DOMAIN transcript[c] :
        transcript[c][i] = transcript[c][j] => i = j

\* ... and missing for no run.
Holds(turn, m) == \E i \in DOMAIN turn : turn[i] = m

Complete ==
    \A r \in RunIds : runs[r] # None =>
        /\ Holds(transcript[runs[r].conversation], Said(r, "user"))
        /\ runs[r].output > 0 => Holds(transcript[runs[r].conversation], Said(r, "assistant"))

\* A conversation has one running run, and nothing is completed after its
\* question.
Sole ==
    \A r, s \in RunIds :
        Running(r) /\ Running(s) /\ runs[r].conversation = runs[s].conversation => r = s
Latest ==
    \A r \in RunIds : Running(r) =>
        \A c \in Conversations : \A i \in DOMAIN transcript[c] :
            transcript[c][i] = Said(r, "user") => \A k \in Turns(c) : k < i

MessagesInv == Written /\ Once /\ Complete

\* How a step changes the rows and the messages.
Alike(r) ==
    /\ runs'[r] = None <=> runs[r] = None
    /\ runs[r] # None => /\ runs'[r].conversation = runs[r].conversation
                         /\ runs'[r].output = runs[r].output
                         /\ runs'[r].status = "completed" <=> runs[r].status = "completed"
    /\ Running(r)' => Running(r)

Says(c, m) ==
    /\ DOMAIN transcript'[c] = DOMAIN transcript[c] \union {Len(transcript[c]) + 1}
    /\ \A i \in DOMAIN transcript[c] : /\ i < Len(transcript[c]) + 1
                                       /\ transcript'[c][i] = transcript[c][i]
    /\ transcript'[c][Len(transcript[c]) + 1] = m
    /\ \A d \in Conversations \ {c} : transcript'[d] = transcript[d]

Asks(r, c) ==
    /\ runs[r] = None /\ \A s \in RunIds : ~Occupies(s, c)
    /\ runs'[r] # None /\ runs'[r].conversation = c /\ runs'[r].output = 0
    /\ runs'[r].status = "running"
    /\ \A s \in RunIds \ {r} : runs'[s] = runs[s]
    /\ Says(c, Said(r, "user"))

AnswersIn(r, c) ==
    /\ runs[r] # None /\ runs[r].conversation = c /\ runs[r].output = 0
    /\ runs'[r] # None /\ runs'[r].conversation = c /\ runs'[r].output > 0
    /\ runs'[r].status # "running"
    /\ runs'[r].status = "completed" => runs[r].status = "running"
    /\ \A s \in RunIds \ {r} : runs'[s] = runs[s]
    /\ Says(c, Said(r, "assistant"))

Empties(c) ==
    /\ \A r \in RunIds : IF runs[r] # None /\ runs[r].conversation = c THEN runs'[r] = None
                         ELSE runs'[r] = runs[r]
    /\ DOMAIN transcript'[c] = {}
    /\ \A d \in Conversations \ {c} : transcript'[d] = transcript[d]

LEMMA AppendSays ==
  ASSUME Typed, NEW c \in Conversations, NEW m,
         transcript' = [transcript EXCEPT ![c] = Append(@, m)]
  PROVE  Says(c, m)
  <1>. DEFINE M == [run : RunIds, role : {"user", "assistant"}]
  <1>1. transcript \in [Conversations -> Seq(M)]
    BY DEF Typed, TypeOK, RowsOK
  <1>. HIDE DEF M
  <1>2. /\ transcript[c] \in Seq(M) /\ transcript'[c] = Append(transcript[c], m)
        /\ \A d \in Conversations \ {c} : transcript'[d] = transcript[d]
    BY <1>1
  <1>. QED BY <1>2 DEF Says

LEMMA SettleSays ==
  ASSUME IInv, NEW q \in Requests, Settle(q)
  PROVE  \/ UNCHANGED transcript /\ \A r \in RunIds : Alike(r)
         \/ \E c \in Conversations : AnswersIn(RunOf[q], c)
  <1>. DEFINE r == RunOf[q]
              row == runs[r]
  <1>1. /\ Typed /\ RowSound(r) /\ Judged(q) /\ r \in RunIds
        /\ runs \in [RunIds -> Run \union {None}]
        /\ output[q] \in 0 .. MaxChunks /\ verdict[q] \in Verdicts
    BY DEF IInv, Typed, TypeOK, RowsOK, StreamsOK
  <1>2. CASE row = None
    BY <1>1, <1>2 DEF Settle, Alike, Running
  <1>3. CASE row # None
    <2>1. /\ row \in Run /\ row.output \in 0 .. MaxChunks /\ row.conversation \in Conversations
      BY <1>1, <1>3 DEF Run
    <2>2. /\ Concluded(q) \in Run /\ Concluded(q) # None
          /\ Concluded(q).status # "running" /\ Concluded(q).conversation = row.conversation
          /\ row.output # 0 => Concluded(q).output = row.output
          /\ row.output = 0 => Concluded(q).output = output[q]
          /\ row.status # "running" => Concluded(q).status = row.status
          /\ row.status = "running" => Concluded(q).status = verdict[q]
      BY <1>1, <1>3, ConcludedTyped
    <2>3. runs'[r] = Concluded(q) /\ \A s \in RunIds \ {r} : runs'[s] = runs[s]
      BY <1>1, <1>3 DEF Settle
    <2>4. CASE output[q] > 0 /\ row.output = 0
      <3>1. transcript' = [transcript EXCEPT ![row.conversation] = Append(@, Said(r, "assistant"))]
        BY <1>3, <2>2, <2>4 DEF Settle, Said
      <3>2. Says(row.conversation, Said(r, "assistant"))
        BY <1>1, <2>1, <3>1, AppendSays
      <3>3. row.status = "completed" => row.output > 0
        BY <1>1, <1>3 DEF RowSound
      <3>. QED BY <1>3, <2>1, <2>2, <2>3, <2>4, <3>2, <3>3 DEF AnswersIn
    <2>5. CASE ~(output[q] > 0 /\ row.output = 0)
      <3>1. UNCHANGED transcript
        BY <1>3, <2>5 DEF Settle
      <3>2. Concluded(q).output = row.output
        BY <1>1, <2>1, <2>2, <2>5
      <3>3. Concluded(q).status = "completed" <=> row.status = "completed"
        BY <1>1, <1>3, <2>2, <2>5 DEF Judged, RowSound
      <3>4. Alike(r)
        BY <1>3, <2>2, <2>3, <3>2, <3>3 DEF Alike, Running
      <3>5. \A s \in RunIds \ {r} : Alike(s)
        BY <2>3 DEF Alike, Running
      <3>. QED BY <3>1, <3>4, <3>5
    <2>. QED BY <2>4, <2>5
  <1>. QED BY <1>2, <1>3

MessageStep ==
    \/ UNCHANGED transcript /\ \A r \in RunIds : Alike(r)
    \/ \E r \in RunIds, c \in Conversations : Asks(r, c) \/ AnswersIn(r, c)
    \/ \E c \in Conversations : Empties(c)

LEMMA MessageSteps ==
  ASSUME IInv, [Next]_vars
  PROVE  MessageStep
  <1>1. Typed /\ runs \in [RunIds -> Run \union {None}]
    BY DEF IInv, Typed, TypeOK, RowsOK
  <1>2. ASSUME UNCHANGED <<runs, transcript>> PROVE MessageStep
    BY <1>2 DEF MessageStep, Alike, Running
  <1>3. ASSUME NEW q \in Requests, Expire(q) PROVE MessageStep
    <2>1. \A r \in RunIds : Alike(r)
      <3>1. ASSUME NEW r \in RunIds, r \in StaleRuns(ConversationOf[q]) PROVE Alike(r)
        <4>1. /\ runs[r] \in Run /\ runs[r].status = "running"
              /\ runs'[r] = [runs[r] EXCEPT !.status = "failed"]
          BY <1>1, <1>3, <3>1 DEF Expire, StaleRuns, Occupies, Running
        <4>2. /\ runs'[r] \in Run /\ runs'[r].status = "failed"
              /\ runs'[r].conversation = runs[r].conversation
              /\ runs'[r].output = runs[r].output
          BY <4>1 DEF Run, Statuses
        <4>. QED BY <4>1, <4>2 DEF Alike, Running
      <3>2. ASSUME NEW r \in RunIds, r \notin StaleRuns(ConversationOf[q]) PROVE Alike(r)
        BY <1>3, <3>2 DEF Expire, Alike, Running
      <3>. QED BY <3>1, <3>2
    <2>. QED BY <1>3, <2>1 DEF Expire, MessageStep
  <1>4. ASSUME NEW q \in Requests, Create(q) PROVE MessageStep
    <2>. DEFINE r == RunOf[q]
                c == ConversationOf[q]
                row == [conversation |-> c, status |-> "running", output |-> 0]
    <2>1. CASE UNCHANGED <<runs, transcript>>
      BY <1>2, <2>1
    <2>2. CASE /\ ClaimIsFree(q) /\ runs' = [runs EXCEPT ![r] = row]
               /\ transcript' = [transcript EXCEPT ![c] = Append(@, Said(r, "user"))]
      <3>1. r \in RunIds /\ c \in Conversations /\ row \in Run
        BY DEF Run, Statuses
      <3>2. runs[r] = None /\ \A s \in RunIds : ~Occupies(s, c)
        BY <2>2 DEF ClaimIsFree
      <3>3. runs'[r] = row /\ row # None /\ \A s \in RunIds \ {r} : runs'[s] = runs[s]
        BY <1>1, <2>2, <3>1
      <3>4. Says(c, Said(r, "user"))
        BY <1>1, <2>2, <3>1, AppendSays
      <3>5. Asks(r, c)
        BY <3>2, <3>3, <3>4 DEF Asks
      <3>. QED BY <3>1, <3>5 DEF MessageStep
    <2>. QED BY <1>4, <2>1, <2>2 DEF Create, Said
  <1>5. ASSUME NEW q \in Requests, Settle(q) PROVE MessageStep
    BY <1>5, SettleSays DEF MessageStep
  <1>6. ASSUME NEW r \in RunIds, Cancel(r) PROVE MessageStep
    <2>1. runs[r] \in Run /\ runs[r].status = "running"
      BY <1>1, <1>6 DEF Cancel, Running
    <2>2. /\ runs'[r] = [runs[r] EXCEPT !.status = "cancelled"]
          /\ \A s \in RunIds \ {r} : runs'[s] = runs[s]
      BY <1>1, <1>6 DEF Cancel
    <2>3. /\ runs'[r] \in Run /\ runs'[r].status = "cancelled"
          /\ runs'[r].conversation = runs[r].conversation
          /\ runs'[r].output = runs[r].output
      BY <2>1, <2>2 DEF Run, Statuses
    <2>4. Alike(r)
      BY <2>1, <2>3 DEF Alike, Running
    <2>5. \A s \in RunIds \ {r} : Alike(s)
      BY <2>2 DEF Alike, Running
    <2>. QED BY <1>6, <2>4, <2>5 DEF Cancel, MessageStep
  <1>7. ASSUME NEW c \in Conversations, DeleteConversation(c) PROVE MessageStep
    <2>1. Empties(c)
      BY <1>1, <1>7 DEF DeleteConversation, Empties, Typed, TypeOK, RowsOK
    <2>. QED BY <2>1 DEF MessageStep
  <1>8. ASSUME NEW q \in Requests,
               \/ Arrive(q) \/ Lookup(q) \/ Prepare(q) \/ Open(q) \/ Check(q) \/ Read(q)
               \/ CallTool(q) \/ RunTool(q) \/ Recheck(q) \/ Emit(q)
               \/ Replay(q) \/ ReplayEnd(q) \/ Disconnect(q) \/ StorageFails(q) \/ Crash(q)
        PROVE  UNCHANGED <<runs, transcript>>
    BY <1>8 DEF rowVars, Arrive, Lookup, Prepare, Open, Check, Read, CallTool, RunTool, Recheck,
                Emit, Replay, ReplayEnd, Disconnect, StorageFails, Crash
  <1>9. ASSUME Revoke \/ (\E s \in RunIds : PassDeadline(s)) \/ UNCHANGED vars
        PROVE  UNCHANGED <<runs, transcript>>
    BY <1>9 DEF Revoke, PassDeadline, vars, rowVars
  <1>10. ASSUME NEW q \in Requests, Finish(q) \/ CloseStream(q) PROVE MessageStep
    BY <1>5, <1>10 DEF Finish, CloseStream
  <1>. QED BY <1>2, <1>3, <1>4, <1>6, <1>7, <1>8, <1>9, <1>10 DEF Next, Step

LEMMA MessageTypes ==
  ASSUME Typed
  PROVE  /\ \A c \in Conversations : /\ Len(transcript[c]) \in Nat
                                     /\ DOMAIN transcript[c] = 1 .. Len(transcript[c])
         /\ \A c \in Conversations : \A i \in DOMAIN transcript[c] :
               /\ transcript[c][i].run \in RunIds
               /\ transcript[c][i].role \in {"user", "assistant"}
               /\ transcript[c][i] = Said(transcript[c][i].run, transcript[c][i].role)
         /\ \A r \in RunIds : runs[r] # None => /\ runs[r].conversation \in Conversations
                                                /\ runs[r].output \in Nat
  <1>. DEFINE M == [run : RunIds, role : {"user", "assistant"}]
  <1>1. transcript \in [Conversations -> Seq(M)] /\ runs \in [RunIds -> Run \union {None}]
    BY DEF Typed, TypeOK, RowsOK
  <1>2. \A m \in M : m.run \in RunIds /\ m.role \in {"user", "assistant"} /\ m = Said(m.run, m.role)
    BY DEF Said
  <1>. HIDE DEF M
  <1>3. \A c \in Conversations : /\ Len(transcript[c]) \in Nat
                                 /\ DOMAIN transcript[c] = 1 .. Len(transcript[c])
                                 /\ \A i \in DOMAIN transcript[c] : transcript[c][i] \in M
    BY <1>1
  <1>4. ASSUME NEW r \in RunIds, runs[r] # None
        PROVE  runs[r].conversation \in Conversations /\ runs[r].output \in Nat
    <2>1. runs[r] \in Run
      BY <1>1, <1>4
    <2>2. runs[r].conversation \in Conversations /\ runs[r].output \in 0 .. MaxChunks
      BY <2>1 DEF Run
    <2>. QED BY <2>2
  <1>. QED BY <1>2, <1>3, <1>4

\* What a conversation holds after a message.
LEMMA SaysHolds ==
  ASSUME NEW c \in Conversations, NEW m, Says(c, m), NEW d \in Conversations, NEW x
  PROVE  Holds(transcript'[d], x) <=> Holds(transcript[d], x) \/ (d = c /\ x = m)
  <1>1. CASE d # c
    BY <1>1 DEF Says, Holds
  <1>2. CASE d = c
    BY <1>2 DEF Says, Holds
  <1>. QED BY <1>1, <1>2

\* No run is asked or answered twice, nor answered unasked.
LEMMA MessagesKept ==
  ASSUME Typed, MessagesInv, MessageStep
  PROVE  MessagesInv'
  <1>1. /\ \A c \in Conversations : \A i \in DOMAIN transcript[c] :
              /\ transcript[c][i].run \in RunIds
              /\ transcript[c][i] = Said(transcript[c][i].run, transcript[c][i].role)
        /\ \A r \in RunIds : runs[r] # None => /\ runs[r].conversation \in Conversations
                                               /\ runs[r].output \in Nat
    BY MessageTypes
  <1>2. CASE UNCHANGED transcript /\ \A r \in RunIds : Alike(r)
    <2>1. Written'
      BY <1>1, <1>2 DEF MessagesInv, Written, Alike
    <2>2. Once'
      BY <1>2 DEF MessagesInv, Once
    <2>3. Complete'
      BY <1>2 DEF MessagesInv, Complete, Alike
    <2>. QED BY <2>1, <2>2, <2>3 DEF MessagesInv
  <1>3. ASSUME NEW r \in RunIds, NEW c \in Conversations, Asks(r, c) PROVE MessagesInv'
    <2>1. \A d \in Conversations : \A i \in DOMAIN transcript[d] : transcript[d][i].run # r
      BY <1>3 DEF MessagesInv, Written, Asks
    <2>2. Written'
      <3>1. SUFFICES ASSUME NEW d \in Conversations, NEW i \in DOMAIN transcript'[d]
                     PROVE  LET m == transcript'[d][i]
                            IN  /\ runs'[m.run] # None /\ runs'[m.run].conversation = d
                                /\ m.role = "assistant" => runs'[m.run].output > 0
        BY DEF Written
      <3>2. CASE i \in DOMAIN transcript[d]
        <4>1. transcript'[d][i] = transcript[d][i] /\ transcript[d][i].run \in RunIds \ {r}
          BY <1>1, <1>3, <2>1, <3>2 DEF Asks, Says
        <4>. QED BY <1>3, <3>2, <4>1 DEF MessagesInv, Written, Asks
      <3>3. CASE i \notin DOMAIN transcript[d]
        <4>1. d = c /\ transcript'[d][i] = Said(r, "user")
          BY <1>3, <3>3 DEF Asks, Says
        <4>. QED BY <1>3, <4>1 DEF Asks, Said
      <3>. QED BY <3>2, <3>3
    <2>3. Once'
      BY <1>3, <2>1 DEF MessagesInv, Once, Asks, Says, Said
    <2>4. Complete'
      <3>1. ASSUME NEW s \in RunIds, s # r, runs'[s] # None
            PROVE  /\ Holds(transcript'[runs'[s].conversation], Said(s, "user"))
                   /\ runs'[s].output > 0
                         => Holds(transcript'[runs'[s].conversation], Said(s, "assistant"))
        <4>1. runs'[s] = runs[s]
          BY <1>3, <3>1 DEF Asks
        <4>. QED BY <1>1, <1>3, <3>1, <4>1, SaysHolds DEF MessagesInv, Complete, Asks
      <3>2. Holds(transcript'[c], Said(r, "user"))
        BY <1>3, SaysHolds DEF Asks
      <3>. QED BY <1>3, <3>1, <3>2 DEF Complete, Asks
    <2>. QED BY <2>2, <2>3, <2>4 DEF MessagesInv
  <1>4. ASSUME NEW r \in RunIds, NEW c \in Conversations, AnswersIn(r, c) PROVE MessagesInv'
    <2>1. \A d \in Conversations : \A i \in DOMAIN transcript[d] :
              transcript[d][i] # Said(r, "assistant")
      BY <1>1, <1>4 DEF MessagesInv, Written, AnswersIn, Said
    <2>2. Written'
      <3>1. SUFFICES ASSUME NEW d \in Conversations, NEW i \in DOMAIN transcript'[d]
                     PROVE  LET m == transcript'[d][i]
                            IN  /\ runs'[m.run] # None /\ runs'[m.run].conversation = d
                                /\ m.role = "assistant" => runs'[m.run].output > 0
        BY DEF Written
      <3>2. CASE i \in DOMAIN transcript[d]
        <4>1. transcript'[d][i] = transcript[d][i] /\ transcript[d][i].run \in RunIds
          BY <1>1, <1>4, <3>2 DEF AnswersIn, Says
        <4>. QED BY <1>4, <3>2, <4>1 DEF MessagesInv, Written, AnswersIn
      <3>3. CASE i \notin DOMAIN transcript[d]
        <4>1. d = c /\ transcript'[d][i] = Said(r, "assistant")
          BY <1>4, <3>3 DEF AnswersIn, Says
        <4>. QED BY <1>4, <4>1 DEF AnswersIn, Said
      <3>. QED BY <3>2, <3>3
    <2>3. Once'
      BY <1>4, <2>1 DEF MessagesInv, Once, AnswersIn, Says
    <2>4. Complete'
      <3>1. ASSUME NEW s \in RunIds, s # r, runs'[s] # None
            PROVE  /\ Holds(transcript'[runs'[s].conversation], Said(s, "user"))
                   /\ runs'[s].output > 0
                         => Holds(transcript'[runs'[s].conversation], Said(s, "assistant"))
        <4>1. runs'[s] = runs[s]
          BY <1>4, <3>1 DEF AnswersIn
        <4>. QED BY <1>1, <1>4, <3>1, <4>1, SaysHolds DEF MessagesInv, Complete, AnswersIn
      <3>2. /\ Holds(transcript'[c], Said(r, "assistant"))
            /\ Holds(transcript'[c], Said(r, "user"))
        BY <1>4, SaysHolds DEF AnswersIn, MessagesInv, Complete
      <3>. QED BY <1>4, <3>1, <3>2 DEF Complete, AnswersIn
    <2>. QED BY <2>2, <2>3, <2>4 DEF MessagesInv
  <1>5. ASSUME NEW c \in Conversations, Empties(c) PROVE MessagesInv'
    <2>1. \A d \in Conversations \ {c} : transcript'[d] = transcript[d]
      BY <1>5 DEF Empties
    <2>2. Written'
      BY <1>1, <1>5, <2>1 DEF MessagesInv, Written, Empties
    <2>3. Once'
      BY <1>5, <2>1 DEF MessagesInv, Once, Empties
    <2>4. Complete'
      <3>1. ASSUME NEW s \in RunIds, runs'[s] # None
            PROVE  /\ runs[s] # None /\ runs'[s] = runs[s]
                   /\ transcript'[runs'[s].conversation] = transcript[runs[s].conversation]
        BY <1>1, <1>5, <2>1, <3>1 DEF Empties
      <3>. QED BY <3>1 DEF MessagesInv, Complete
    <2>. QED BY <2>2, <2>3, <2>4 DEF MessagesInv
  <1>. QED BY <1>2, <1>3, <1>4, <1>5 DEF MessageStep

TurnsInv == MessagesInv /\ Sole /\ Latest /\ CompletedTurnsAlternate

\* Where neither the messages nor what is completed change, the turns stay.
LEMMA SameTurns ==
  ASSUME NEW c \in Conversations,
         DOMAIN transcript[c] \subseteq DOMAIN transcript'[c],
         \A i \in DOMAIN transcript[c] : transcript'[c][i] = transcript[c][i],
         \A i \in DOMAIN transcript'[c] :
            OfCompleted(transcript[c][i])' <=> i \in Turns(c)
  PROVE  /\ Turns(c)' = Turns(c)
         /\ (\A i \in Turns(c) : \E j \in Turns(c) : IsAnsweredBy(c, i, j) \/ IsAnsweredBy(c, j, i))
            => (\A i \in Turns(c) : \E j \in Turns(c) :
                   IsAnsweredBy(c, i, j) \/ IsAnsweredBy(c, j, i))'
  <1>1. Turns(c)' = Turns(c)
    BY DEF Turns
  <1>2. \A i, j \in Turns(c) : IsAnsweredBy(c, i, j)' <=> IsAnsweredBy(c, i, j)
    BY <1>1 DEF IsAnsweredBy, Turns
  <1>. QED BY <1>1, <1>2

\* The messages of the other conversations are of other runs.
LEMMA OtherTurns ==
  ASSUME Typed, MessagesInv, NEW c \in Conversations, NEW d \in Conversations, d # c,
         transcript'[d] = transcript[d],
         \A r \in RunIds : runs[r] # None /\ runs[r].conversation # c => runs'[r] = runs[r]
  PROVE  /\ Turns(d)' = Turns(d)
         /\ \A i \in DOMAIN transcript[d] : transcript[d][i].run \in RunIds
  <1>1. \A i \in DOMAIN transcript[d] :
            /\ transcript[d][i].run \in RunIds
            /\ runs[transcript[d][i].run] # None /\ runs[transcript[d][i].run].conversation = d
    BY MessageTypes DEF MessagesInv, Written
  <1>2. \A i \in DOMAIN transcript'[d] : OfCompleted(transcript[d][i])' <=> i \in Turns(d)
    BY <1>1 DEF Turns, OfCompleted
  <1>. QED BY <1>1, <1>2, SameTurns

\* A step that changes no turn and sets nothing running keeps what is known
\* of the turns.
LEMMA TurnsStay ==
  ASSUME TurnsInv,
         \A c \in Conversations : /\ DOMAIN transcript[c] \subseteq DOMAIN transcript'[c]
                                  /\ \A i \in DOMAIN transcript[c] :
                                        transcript'[c][i] = transcript[c][i]
                                  /\ Turns(c)' = Turns(c)
  PROVE  CompletedTurnsAlternate'
  <1>1. \A c \in Conversations : \A i, j \in Turns(c) : IsAnsweredBy(c, i, j)' <=> IsAnsweredBy(c, i, j)
    BY DEF IsAnsweredBy, Turns
  <1>. QED BY <1>1 DEF CompletedTurnsAlternate, TurnsInv

LEMMA AlikeKeepsTurns ==
  ASSUME Typed, TurnsInv, UNCHANGED transcript, \A r \in RunIds : Alike(r)
  PROVE  Sole' /\ Latest' /\ CompletedTurnsAlternate'
  <1>1. \A c \in Conversations : Turns(c)' = Turns(c)
    <2>. TAKE c \in Conversations
    <2>1. \A i \in DOMAIN transcript[c] : transcript[c][i].run \in RunIds
      BY MessageTypes
    <2>2. \A i \in DOMAIN transcript'[c] : OfCompleted(transcript[c][i])' <=> i \in Turns(c)
      BY <2>1 DEF Alike, OfCompleted, Turns
    <2>. QED BY <2>2, SameTurns
  <1>2. CompletedTurnsAlternate'
    BY <1>1, TurnsStay
  <1>3. \A r \in RunIds : Running(r)' => Running(r) /\ runs'[r].conversation = runs[r].conversation
    BY DEF Alike, Running
  <1>4. Sole'
    BY <1>3 DEF TurnsInv, Sole
  <1>5. Latest'
    BY <1>1, <1>3 DEF TurnsInv, Latest
  <1>. QED BY <1>2, <1>4, <1>5

LEMMA AskKeepsTurns ==
  ASSUME Typed, TurnsInv, NEW r \in RunIds, NEW c \in Conversations, Asks(r, c)
  PROVE  Sole' /\ Latest' /\ CompletedTurnsAlternate'
  <1>1. \A d \in Conversations : \A i \in DOMAIN transcript[d] :
            transcript[d][i].run \in RunIds /\ transcript[d][i].run # r
    BY MessageTypes DEF TurnsInv, MessagesInv, Written, Asks
  <1>2. /\ \A d \in Conversations :
              /\ DOMAIN transcript[d] \subseteq DOMAIN transcript'[d]
              /\ \A i \in DOMAIN transcript[d] : transcript'[d][i] = transcript[d][i]
              /\ \A i \in DOMAIN transcript'[d] \ DOMAIN transcript[d] :
                    d = c /\ transcript'[d][i] = Said(r, "user") /\ \A k \in DOMAIN transcript[d] : k < i
        /\ \A s \in RunIds \ {r} : runs'[s] = runs[s]
        /\ runs'[r].status = "running"
    BY DEF Asks, Says
  <1>3. \A d \in Conversations : Turns(d)' = Turns(d)
    <2>. TAKE d \in Conversations
    <2>1. \A i \in DOMAIN transcript'[d] : OfCompleted(transcript[d][i])' <=> i \in Turns(d)
      <3>. TAKE i \in DOMAIN transcript'[d]
      <3>1. CASE i \in DOMAIN transcript[d]
        BY <1>1, <1>2, <3>1 DEF OfCompleted, Turns
      <3>2. CASE i \notin DOMAIN transcript[d]
        <4>1. transcript'[d][i].run = r
          BY <1>2, <3>2 DEF Said
        <4>. QED BY <1>2, <3>2, <4>1 DEF OfCompleted, Turns
      <3>. QED BY <3>1, <3>2
    <2>. QED BY <1>2, <2>1, SameTurns
  <1>4. CompletedTurnsAlternate'
    BY <1>2, <1>3, TurnsStay
  <1>5. \A s \in RunIds \ {r} : Running(s)' => Running(s) /\ runs'[s].conversation # c
    BY <1>2 DEF Running, Asks, Occupies
  <1>6. Sole'
    BY <1>2, <1>5 DEF TurnsInv, Sole, Asks
  <1>7. Latest'
    <2>. SUFFICES ASSUME NEW s \in RunIds, Running(s)', NEW d \in Conversations,
                         NEW i \in DOMAIN transcript'[d], transcript'[d][i] = Said(s, "user"),
                         NEW k \in Turns(d)
                  PROVE  k < i
      BY <1>3 DEF Latest
    <2>1. k \in DOMAIN transcript[d]
      BY DEF Turns
    <2>2. CASE i \in DOMAIN transcript[d]
      <3>1. transcript[d][i] = Said(s, "user") /\ s # r
        BY <1>1, <1>2, <2>2 DEF Said
      <3>. QED BY <1>5, <2>2, <3>1 DEF TurnsInv, Latest
    <2>3. CASE i \notin DOMAIN transcript[d]
      BY <1>2, <2>1, <2>3
    <2>. QED BY <2>2, <2>3
  <1>. QED BY <1>4, <1>6, <1>7

LEMMA EmptyingKeepsTurns ==
  ASSUME Typed, TurnsInv, NEW c \in Conversations, Empties(c)
  PROVE  Sole' /\ Latest' /\ CompletedTurnsAlternate'
  <1>1. \A r \in RunIds : Running(r)' => Running(r) /\ runs'[r] = runs[r]
    BY DEF Empties, Running
  <1>2. Turns(c)' = {} /\ DOMAIN transcript'[c] = {}
    BY DEF Empties, Turns
  <1>3. \A d \in Conversations \ {c} : Turns(d)' = Turns(d) /\ transcript'[d] = transcript[d]
    BY OtherTurns DEF Empties, TurnsInv
  <1>4. Sole'
    BY <1>1 DEF TurnsInv, Sole
  <1>5. Latest'
    BY <1>1, <1>2, <1>3 DEF TurnsInv, Latest
  <1>6. CompletedTurnsAlternate'
    <2>1. ASSUME NEW d \in Conversations, d # c, NEW i \in Turns(d), NEW j \in Turns(d)
          PROVE  IsAnsweredBy(d, i, j)' <=> IsAnsweredBy(d, i, j)
      BY <1>3, <2>1 DEF IsAnsweredBy
    <2>. QED BY <1>2, <1>3, <2>1 DEF TurnsInv, CompletedTurnsAlternate
  <1>. QED BY <1>4, <1>5, <1>6

\* An answer closes the turn its question opened: nothing of a completed run
\* stands after the question of a running one.
LEMMA AnswerKeepsTurns ==
  ASSUME IInv, TurnsInv, NEW r \in RunIds, NEW c \in Conversations, AnswersIn(r, c)
  PROVE  Sole' /\ Latest' /\ CompletedTurnsAlternate'
  <1>0. PICK L : L = Len(transcript[c]) + 1
    OBVIOUS
  <1>1. /\ Typed /\ MessagesInv /\ runs[r].status # "completed"
        /\ Len(transcript[c]) \in Nat /\ DOMAIN transcript[c] = 1 .. Len(transcript[c])
    BY MessageTypes DEF IInv, TurnsInv, AnswersIn, RowSound
  <1>2. /\ \A d \in Conversations : \A i \in DOMAIN transcript[d] :
              /\ i \in DOMAIN transcript'[d] /\ transcript'[d][i] = transcript[d][i]
              /\ transcript[d][i].run \in RunIds
              /\ transcript[d][i] = Said(transcript[d][i].run, transcript[d][i].role)
              /\ transcript[d][i].role \in {"user", "assistant"}
        /\ \A d \in Conversations : \A i \in DOMAIN transcript'[d] \ DOMAIN transcript[d] :
              d = c /\ i = L /\ transcript'[d][i] = Said(r, "assistant")
        /\ L \in DOMAIN transcript'[c] /\ L \notin DOMAIN transcript[c]
        /\ transcript'[c][L] = Said(r, "assistant")
        /\ \A s \in RunIds \ {r} : runs'[s] = runs[s]
    BY <1>0, <1>1, MessageTypes DEF AnswersIn, Says
  <1>3. \A s \in RunIds : Running(s)' => s # r /\ Running(s) /\ runs'[s] = runs[s]
    BY <1>2 DEF Running, AnswersIn
  <1>4. Sole'
    BY <1>3 DEF TurnsInv, Sole
  <1>5. ASSUME NEW s \in RunIds, Running(s)', NEW d \in Conversations,
               NEW i \in DOMAIN transcript'[d], transcript'[d][i] = Said(s, "user")
        PROVE  i \in DOMAIN transcript[d] /\ transcript[d][i] = Said(s, "user")
    <2>1. Said(r, "assistant") # Said(s, "user")
      BY DEF Said
    <2>2. i \in DOMAIN transcript[d]
      BY <1>2, <1>5, <2>1
    <2>. QED BY <1>2, <1>5, <2>2
  <1>6. CASE runs'[r].status # "completed"
    <2>1. \A d \in Conversations : Turns(d)' = Turns(d)
      <3>. TAKE d \in Conversations
      <3>1. \A i \in DOMAIN transcript'[d] : OfCompleted(transcript[d][i])' <=> i \in Turns(d)
        <4>. TAKE i \in DOMAIN transcript'[d]
        <4>1. CASE i \in DOMAIN transcript[d]
          BY <1>1, <1>2, <1>6, <4>1 DEF OfCompleted, Turns
        <4>2. CASE i \notin DOMAIN transcript[d]
          <5>1. transcript'[d][i].run = r
            BY <1>2, <4>2 DEF Said
          <5>. QED BY <1>6, <4>2, <5>1 DEF OfCompleted, Turns
        <4>. QED BY <4>1, <4>2
      <3>. QED BY <1>2, <3>1, SameTurns
    <2>2. CompletedTurnsAlternate'
      BY <1>2, <2>1, TurnsStay
    <2>3. Latest'
      BY <1>3, <1>5, <2>1 DEF TurnsInv, Latest
    <2>. QED BY <1>4, <2>2, <2>3
  <1>7. CASE runs'[r].status = "completed"
    <2>1. Running(r) /\ runs[r].conversation = c
      BY <1>7 DEF AnswersIn, Running
    <2>2. PICK p \in DOMAIN transcript[c] : transcript[c][p] = Said(r, "user")
      BY <1>1, <2>1 DEF MessagesInv, Complete, Holds, Running
    <2>3. \A k \in Turns(c) : k < p /\ k \in DOMAIN transcript[c]
      BY <2>1, <2>2 DEF TurnsInv, Latest, Turns
    <2>4. \A i \in DOMAIN transcript[c] : transcript[c][i].run = r <=> i = p
      <3>1. \A i \in DOMAIN transcript[c] : transcript[c][i] # Said(r, "assistant")
        BY <1>1 DEF MessagesInv, Written, AnswersIn, Said
      <3>2. \A i \in DOMAIN transcript[c] : transcript[c][i] = Said(r, "user") <=> i = p
        BY <1>1, <2>2 DEF MessagesInv, Once
      <3>3. \A i \in DOMAIN transcript[c] :
                transcript[c][i].run = r
                => \/ transcript[c][i] = Said(r, "user")
                   \/ transcript[c][i] = Said(r, "assistant")
        BY <1>2
      <3>4. transcript[c][p].run = r
        BY <2>2 DEF Said
      <3>. QED BY <3>1, <3>2, <3>3, <3>4
    <2>5. Turns(c)' = Turns(c) \union {p, L}
      <3>1. ASSUME NEW i \in DOMAIN transcript'[c]
            PROVE  OfCompleted(transcript[c][i])' <=> i \in Turns(c) \union {p, L}
        <4>1. CASE i \in DOMAIN transcript[c] /\ i # p
          <5>1. transcript[c][i].run \in RunIds \ {r} /\ transcript'[c][i] = transcript[c][i]
            BY <1>2, <2>4, <4>1
          <5>. QED BY <1>2, <4>1, <5>1 DEF OfCompleted, Turns
        <4>2. CASE i = p
          BY <1>2, <1>7, <2>4, <4>2 DEF OfCompleted, AnswersIn
        <4>3. CASE i \notin DOMAIN transcript[c]
          <5>1. i = L /\ transcript'[c][i].run = r
            BY <1>2, <4>3 DEF Said
          <5>. QED BY <1>7, <5>1 DEF OfCompleted, AnswersIn
        <4>. QED BY <4>1, <4>2, <4>3
      <3>2. Turns(c) \union {p, L} \subseteq DOMAIN transcript'[c]
        BY <1>2, <2>3
      <3>. QED BY <3>1, <3>2 DEF Turns
    <2>6. p < L /\ p \in Nat /\ L \in Nat /\ \A k \in Turns(c) : k \in Nat
      BY <1>0, <1>1, <2>3
    <2>7. IsAnsweredBy(c, p, L)'
      <3>1. transcript'[c][p] = Said(r, "user") /\ transcript'[c][L] = Said(r, "assistant")
        BY <1>2, <2>2
      <3>2. \A k \in Turns(c) \union {p, L} : ~(p < k /\ k < L)
        BY <2>3, <2>6
      <3>3. /\ transcript'[c][p].role = "user"
            /\ transcript'[c][L] = [run |-> transcript'[c][p].run, role |-> "assistant"]
        BY <3>1 DEF Said
      <3>. QED BY <2>5, <2>6, <3>2, <3>3 DEF IsAnsweredBy
    <2>8. ASSUME NEW i \in Turns(c), NEW j \in Turns(c), IsAnsweredBy(c, i, j)
          PROVE  IsAnsweredBy(c, i, j)'
      <3>1. transcript'[c][i] = transcript[c][i] /\ transcript'[c][j] = transcript[c][j]
        BY <1>2, <2>3
      <3>2. \A k \in Turns(c) \union {p, L} : ~(i < k /\ k < j)
        BY <2>3, <2>6, <2>8 DEF IsAnsweredBy
      <3>. QED BY <2>5, <2>8, <3>1, <3>2 DEF IsAnsweredBy
    <2>9. \A d \in Conversations \ {c} : Turns(d)' = Turns(d) /\ transcript'[d] = transcript[d]
      <3>1. \A d \in Conversations \ {c} : transcript'[d] = transcript[d]
        BY DEF AnswersIn, Says
      <3>2. \A s \in RunIds : runs[s] # None /\ runs[s].conversation # c => runs'[s] = runs[s]
        BY <1>2, <2>1
      <3>. QED BY <1>1, <3>1, <3>2, OtherTurns
    <2>10. CompletedTurnsAlternate'
      <3>1. ASSUME NEW i \in Turns(c)'
            PROVE  \E j \in Turns(c)' : (IsAnsweredBy(c, i, j) \/ IsAnsweredBy(c, j, i))'
        <4>1. CASE i \in Turns(c)
          <5>1. PICK j \in Turns(c) : IsAnsweredBy(c, i, j) \/ IsAnsweredBy(c, j, i)
            BY <4>1 DEF TurnsInv, CompletedTurnsAlternate
          <5>. QED BY <2>5, <2>8, <4>1, <5>1
        <4>2. CASE i \in {p, L}
          <5>1. p \in Turns(c)' /\ L \in Turns(c)'
            BY <2>5
          <5>. QED BY <2>7, <4>2, <5>1
        <4>. QED BY <2>5, <3>1, <4>1, <4>2
      <3>2. ASSUME NEW d \in Conversations, d # c, NEW i \in Turns(d), NEW j \in Turns(d)
            PROVE  IsAnsweredBy(d, i, j)' <=> IsAnsweredBy(d, i, j)
        BY <2>9, <3>2 DEF IsAnsweredBy
      <3>. QED BY <2>9, <3>1, <3>2 DEF TurnsInv, CompletedTurnsAlternate
    <2>11. Latest'
      <3>. SUFFICES ASSUME NEW s \in RunIds, Running(s)', NEW d \in Conversations,
                           NEW i \in DOMAIN transcript'[d], transcript'[d][i] = Said(s, "user")
                    PROVE  \A k \in Turns(d)' : k < i
        BY DEF Latest
      <3>1. i \in DOMAIN transcript[d] /\ transcript[d][i] = Said(s, "user")
        BY <1>5
      <3>2. Running(s) /\ runs[s].conversation = d /\ d # c
        BY <1>1, <1>3, <2>1, <3>1 DEF TurnsInv, MessagesInv, Written, Sole, Said
      <3>. QED BY <2>9, <3>1, <3>2 DEF TurnsInv, Latest
    <2>. QED BY <1>4, <2>10, <2>11
  <1>. QED BY <1>6, <1>7

LEMMA InitTurns == Init => TurnsInv
  <1>. SUFFICES ASSUME Init PROVE TurnsInv
    OBVIOUS
  <1>1. \A c \in Conversations : DOMAIN transcript[c] = {} /\ Turns(c) = {}
    BY DEF Init, Turns
  <1>2. \A r \in RunIds : runs[r] = None
    BY DEF Init
  <1>. QED BY <1>1, <1>2
           DEF TurnsInv, MessagesInv, Written, Once, Complete, Sole, Latest, Running,
               CompletedTurnsAlternate

LEMMA NextTurns == IInv /\ TurnsInv /\ [Next]_vars => TurnsInv'
  <1>. SUFFICES ASSUME IInv, TurnsInv, [Next]_vars PROVE TurnsInv'
    OBVIOUS
  <1>1. Typed /\ MessageStep
    BY MessageSteps DEF IInv
  <1>2. MessagesInv'
    BY <1>1, MessagesKept DEF TurnsInv
  <1>3. Sole' /\ Latest' /\ CompletedTurnsAlternate'
    BY <1>1, AlikeKeepsTurns, AskKeepsTurns, AnswerKeepsTurns, EmptyingKeepsTurns
       DEF MessageStep
  <1>. QED BY <1>2, <1>3 DEF TurnsInv

LEMMA TurnsAlways == ASSUME RepeatsKeepConversation PROVE Spec => [](IInv /\ TurnsInv)
  BY InitIInv, NextIInv, InitTurns, NextTurns, PTL DEF Spec

\* The history a provider is given strictly alternates, each question directly
\* followed by its own answer, however late the stopped runs write theirs.
THEOREM TurnsAlternate ==
    ASSUME RepeatsKeepConversation PROVE Spec => []CompletedTurnsAlternate
  <1>1. TurnsInv => CompletedTurnsAlternate
    BY DEF TurnsInv
  <1>. QED BY <1>1, TurnsAlways, PTL

\* The messages of a run lie in its conversation, at most one of each kind.
LEMMA MessagesAreCounted ==
  ASSUME Typed, MessagesInv, NEW r \in RunIds, NEW role \in {"user", "assistant"}
  PROVE  Cardinality(MessagesOf(r, role)) =
            IF /\ runs[r] # None
               /\ Holds(transcript[runs[r].conversation], Said(r, role)) THEN 1 ELSE 0
  <1>1. \A c \in Conversations : \A i \in DOMAIN transcript[c] :
            transcript[c][i] = Said(r, role)
            => runs[r] # None /\ runs[r].conversation = c
    BY DEF MessagesInv, Written, Said
  <1>2. MessagesOf(r, role) =
            UNION {{<<c, i>> : i \in {j \in DOMAIN transcript[c] :
                                         transcript[c][j] = Said(r, role)}}
                   : c \in Conversations}
    BY DEF MessagesOf, Said
  <1>3. CASE runs[r] # None /\ Holds(transcript[runs[r].conversation], Said(r, role))
    <2>. DEFINE d == runs[r].conversation
    <2>1. d \in Conversations
      BY <1>3, MessageTypes
    <2>2. PICK p \in DOMAIN transcript[d] : transcript[d][p] = Said(r, role)
      BY <1>3 DEF Holds
    <2>3. \A i \in DOMAIN transcript[d] : transcript[d][i] = Said(r, role) <=> i = p
      BY <2>1, <2>2 DEF MessagesInv, Once
    <2>4. MessagesOf(r, role) = {<<d, p>>}
      BY <1>1, <1>2, <2>1, <2>2, <2>3
    <2>. QED BY <1>3, <2>4, FS_Singleton
  <1>4. CASE ~(runs[r] # None /\ Holds(transcript[runs[r].conversation], Said(r, role)))
    <2>1. MessagesOf(r, role) = {}
      BY <1>1, <1>2, <1>4 DEF Holds
    <2>. QED BY <1>4, <2>1, FS_EmptySet
  <1>. QED BY <1>3, <1>4

\* A run has one question, and one reply exactly if text was stored, however
\* often its send is repeated and its end recorded.
THEOREM OneTurnEach == ASSUME RepeatsKeepConversation PROVE Spec => []OneTurnPerRun
  <1>1. IInv /\ TurnsInv => OneTurnPerRun
    <2>. SUFFICES ASSUME Typed, MessagesInv, NEW r \in RunIds
                  PROVE  /\ Cardinality(MessagesOf(r, "user")) = (IF runs[r] = None THEN 0 ELSE 1)
                         /\ Cardinality(MessagesOf(r, "assistant")) =
                               (IF runs[r] # None /\ runs[r].output > 0 THEN 1 ELSE 0)
      BY DEF IInv, TurnsInv, OneTurnPerRun
    <2>1. runs[r] # None => Holds(transcript[runs[r].conversation], Said(r, "user"))
      BY DEF MessagesInv, Complete
    <2>2. runs[r] # None =>
              (Holds(transcript[runs[r].conversation], Said(r, "assistant"))
               <=> runs[r].output > 0)
      <3>1. ASSUME runs[r] # None, NEW i \in DOMAIN transcript[runs[r].conversation],
                   transcript[runs[r].conversation][i] = Said(r, "assistant")
            PROVE  runs[r].output > 0
        <4>1. runs[r].conversation \in Conversations
          BY <3>1, MessageTypes
        <4>. QED BY <3>1, <4>1 DEF MessagesInv, Written, Said
      <3>. QED BY <3>1 DEF MessagesInv, Complete, Holds
    <2>. QED BY <2>1, <2>2, MessagesAreCounted
  <1>. QED BY <1>1, TurnsAlways, PTL
-----------------------------------------------------------------------------
(* The stream of a reply, for any calls, slots, rounds and limits, as long *)
(* as a message is no function call and there are finitely many slots.     *)

ItemsAreApart == Message \notin Calls /\ MaxSlots \in Nat

AdapterSteps == {"idle", "start", "opening", "admitted", "headers", "reading", "yielded",
           "tools", "running", "ended"}

\* What was heard is placed in slots, and what is to be run are calls.
HeardInv ==
    /\ tools \in BOOLEAN /\ step \in AdapterSteps
    /\ functions \subseteq Slots /\ sawFunction \in BOOLEAN
    /\ doneItems \in [Slots -> Items \union {Unset}]
    /\ calls \in Seq(Slots \X Calls) /\ ran \in Seq(Calls)

\* What is still to be run was neither run before nor is twice in the queue.
QueueInv ==
    /\ RunsOnce
    /\ step = "tools" => calls # <<>> /\ AreFresh(calls)
    /\ step = "running" => calls # <<>> /\ AreFresh(Tail(calls))

Attached == {"headers", "reading", "yielded"}

\* An open source that may be read is among the closers until a cancel has taken
\* it off, and only this side cuts.
CutInv ==
    /\ step \in Attached /\ source = "open" => registered /\ cancel # "over"
    /\ source = "cut" => Halted /\ told \notin {"interrupted", "transport_error"}
    /\ (told = "none" <=> step # "ended") /\ (step = "ended" => source # "open")

StreamInv == HeardInv /\ QueueInv /\ CutInv

\* The function CallsOf names: the calls among the first k items.
CallsUpTo(items, f, k) ==
    IF k = 0 THEN <<>>
    ELSE IF items[k] \in Calls THEN Append(f[k - 1], <<k, items[k]>>)
    ELSE f[k - 1]

\* Calls at their slots, none of the first n left out.
Collects(items, n, taken) ==
    /\ taken \in Seq((1 .. n) \X Calls)
    /\ \A i \in DOMAIN taken : items[taken[i][1]] = taken[i][2]
    /\ \A s \in 1 .. n : items[s] \in Calls => \E i \in DOMAIN taken : taken[i][1] = s

LEMMA CallsUpToExists ==
  ASSUME NEW items, NEW n \in Nat
  PROVE  \E f : f = [k \in 0 .. n |-> CallsUpTo(items, f, k)]
  <1>. DEFINE Is(f, k) == f = [j \in 0 .. k |-> CallsUpTo(items, f, j)]
              Good == {k \in Nat : \E f : Is(f, k)}
  <1>1. 0 \in Good
    <2>1. Is([k \in 0 .. 0 |-> <<>>], 0)
      BY DEF CallsUpTo
    <2>. QED BY <2>1
  <1>2. ASSUME NEW k \in Nat, k \in Good PROVE k + 1 \in Good
    <2>1. PICK f : Is(f, k)
      BY <1>2
    <2>. DEFINE last == IF items[k + 1] \in Calls THEN Append(f[k], <<k + 1, items[k + 1]>>)
                        ELSE f[k]
                next == [j \in 0 .. (k + 1) |-> IF j = k + 1 THEN last ELSE f[j]]
    <2>2. \A j \in 0 .. k : f[j] = CallsUpTo(items, f, j)
      BY <2>1
    <2>3. ASSUME NEW j \in 0 .. (k + 1) PROVE next[j] = CallsUpTo(items, next, j)
      <3>1. CASE j = k + 1
        <4>1. next[j - 1] = f[k] /\ next[j] = last /\ j # 0
          BY <3>1
        <4>. QED BY ONLY <3>1, <4>1 DEF CallsUpTo
      <3>2. CASE j # k + 1
        <4>1. j \in 0 .. k /\ next[j] = f[j] /\ (j # 0 => next[j - 1] = f[j - 1])
          BY <3>2
        <4>2. CallsUpTo(items, next, j) = CallsUpTo(items, f, j)
          <5>. HIDE DEF next
          <5>. QED BY <4>1 DEF CallsUpTo
        <4>. QED BY <2>2, <4>1, <4>2
      <3>. QED BY <3>1, <3>2
    <2>4. Is(next, k + 1)
      <3>1. next = [j \in 0 .. (k + 1) |-> next[j]]
        OBVIOUS
      <3>. HIDE DEF next
      <3>. QED BY <2>3, <3>1
    <2>. HIDE DEF next, Is
    <2>. QED BY <2>4
  <1>. HIDE DEF Good
  <1>3. n \in Good
    BY <1>1, <1>2, NumberInduction
  <1>. QED BY <1>3 DEF Good

\* CallsOf takes exactly the calls, each from its slot.
LEMMA CallsOfCollects ==
  ASSUME NEW items, Len(items) \in Nat
  PROVE  Collects(items, Len(items), CallsOf(items))
  <1>. DEFINE n == Len(items)
              F == CHOOSE f : f = [k \in 0 .. n |->
                      IF k = 0 THEN <<>>
                      ELSE IF items[k] \in Calls THEN Append(f[k - 1], <<k, items[k]>>)
                      ELSE f[k - 1]]
              Good == {k \in Nat : k =< n => Collects(items, k, F[k])}
  <1>1. CallsOf(items) = F[n]
    BY DEF CallsOf
  <1>2. PICK f : f = [k \in 0 .. n |-> CallsUpTo(items, f, k)]
    BY CallsUpToExists
  <1>3. f = [k \in 0 .. n |->
                      IF k = 0 THEN <<>>
                      ELSE IF items[k] \in Calls THEN Append(f[k - 1], <<k, items[k]>>)
                      ELSE f[k - 1]]
    BY <1>2 DEF CallsUpTo
  <1>4. F = [k \in 0 .. n |->
                      IF k = 0 THEN <<>>
                      ELSE IF items[k] \in Calls THEN Append(F[k - 1], <<k, items[k]>>)
                      ELSE F[k - 1]]
    BY ONLY <1>3, Zenon
  <1>. HIDE DEF F
  <1>5. \A k \in 0 .. n : F[k] = CallsUpTo(items, F, k)
    BY <1>4 DEF CallsUpTo
  <1>. HIDE DEF n
  <1>6. n \in Nat
    BY DEF n
  <1>7. 0 \in Good
    <2>1. 0 \in 0 .. n
      BY <1>6
    <2>2. F[0] = <<>>
      BY <1>5, <2>1 DEF CallsUpTo
    <2>3. /\ <<>> \in Seq((1 .. 0) \X Calls) /\ DOMAIN <<>> = {}
          /\ \A s \in 1 .. 0 : FALSE
      OBVIOUS
    <2>4. Collects(items, 0, <<>>)
      BY <2>3 DEF Collects
    <2>. QED BY <2>2, <2>4
  <1>8. ASSUME NEW k \in Nat, k \in Good PROVE k + 1 \in Good
    <2>. SUFFICES ASSUME k + 1 =< n PROVE Collects(items, k + 1, F[k + 1])
      OBVIOUS
    <2>1. Collects(items, k, F[k])
      BY <1>6, <1>8
    <2>2. PICK before : before = F[k]
      OBVIOUS
    <2>3. before \in Seq((1 .. (k + 1)) \X Calls)
      <3>1. before \in Seq((1 .. k) \X Calls)
        BY <2>1, <2>2 DEF Collects
      <3>2. (1 .. k) \X Calls \subseteq (1 .. (k + 1)) \X Calls
        OBVIOUS
      <3>. QED BY <3>1, <3>2
    <2>4. F[k + 1] = IF items[k + 1] \in Calls THEN Append(before, <<k + 1, items[k + 1]>>)
                     ELSE before
      <3>1. k + 1 \in 0 .. n /\ k + 1 # 0 /\ (k + 1) - 1 = k
        BY <1>6
      <3>. QED BY <1>5, <2>2, <3>1 DEF CallsUpTo
    <2>5. \A s \in 1 .. (k + 1) : s = k + 1 \/ s \in 1 .. k
      OBVIOUS
    <2>6. CASE items[k + 1] \in Calls
      <3>1. PICK c \in (1 .. (k + 1)) \X Calls : c = <<k + 1, items[k + 1]>>
        <4>1. k + 1 \in 1 .. (k + 1)
          OBVIOUS
        <4>. QED BY <2>6, <4>1
      <3>2. PICK after : after = Append(before, c)
        OBVIOUS
      <3>3. /\ after \in Seq((1 .. (k + 1)) \X Calls)
            /\ DOMAIN after = 1 .. (Len(before) + 1) /\ DOMAIN before = 1 .. Len(before)
            /\ Len(before) \in Nat
            /\ after[Len(before) + 1] = c
            /\ \A i \in 1 .. Len(before) : after[i] = before[i]
        BY <2>3, <3>2
      <3>4. \A i \in DOMAIN after : items[after[i][1]] = after[i][2]
        <4>1. ASSUME NEW i \in 1 .. Len(before) PROVE items[after[i][1]] = after[i][2]
          BY <2>1, <2>2, <3>3 DEF Collects
        <4>2. items[c[1]] = c[2]
          BY <3>1
        <4>3. \A i \in DOMAIN after : i \in 1 .. Len(before) \/ i = Len(before) + 1
          BY <3>3
        <4>. QED BY <3>3, <4>1, <4>2, <4>3
      <3>5. ASSUME NEW s \in 1 .. (k + 1), items[s] \in Calls
            PROVE  \E i \in DOMAIN after : after[i][1] = s
        <4>1. CASE s = k + 1
          <5>1. Len(before) + 1 \in DOMAIN after
            BY <3>3
          <5>2. after[Len(before) + 1][1] = s
            BY <3>1, <3>3, <4>1
          <5>. QED BY <5>1, <5>2
        <4>2. CASE s \in 1 .. k
          <5>1. PICK i \in DOMAIN before : before[i][1] = s
            BY <2>1, <2>2, <3>5, <4>2 DEF Collects
          <5>2. i \in DOMAIN after /\ after[i] = before[i]
            BY <3>3
          <5>. QED BY <5>1, <5>2
        <4>. QED BY <2>5, <4>1, <4>2
      <3>. QED BY <2>4, <2>6, <3>1, <3>2, <3>3, <3>4, <3>5 DEF Collects
    <2>7. CASE items[k + 1] \notin Calls
      BY <2>1, <2>2, <2>3, <2>4, <2>5, <2>7 DEF Collects
    <2>. QED BY <2>6, <2>7
  <1>. HIDE DEF Good
  <1>9. n \in Good
    BY <1>6, <1>7, <1>8, NumberInduction
  <1>. QED BY <1>1, <1>6, <1>9 DEF Good, n

\* What a completed response is taken to contain is what was completed in its
\* slots, and all of it lies in slots.
LEMMA OutputIsWhatWasShown ==
  ASSUME ItemsAreApart, HeardInv, NEW n \in 0 .. MaxSlots, NEW items \in [1 .. n -> Items],
         Accepts(items)
  PROVE  \E k \in 0 .. MaxSlots :
            /\ Output(items) \in [1 .. k -> Items] /\ Len(Output(items)) = k
            /\ \A s \in 1 .. k : doneItems[s] \in {Unset, Output(items)[s]}
  <1>1. MaxSlots \in Nat /\ doneItems \in [Slots -> Items \union {Unset}]
    BY DEF ItemsAreApart, HeardInv
  <1>2. CASE items # <<>>
    <2>1. Output(items) = items /\ Len(items) = n
      BY <1>2 DEF Output
    <2>2. \A s \in Slots : doneItems[s] # Unset => items[s] = doneItems[s]
      BY <1>2 DEF Accepts, Agrees, Placed
    <2>3. 1 .. n \subseteq Slots
      BY <1>1 DEF Slots
    <2>. QED BY <2>1, <2>2, <2>3
  <1>3. CASE items = <<>>
    <2>1. PICK c : c = Cardinality(Placed(doneItems))
      OBVIOUS
    <2>2. Output(items) = [s \in 1 .. c |-> doneItems[s]]
      BY <1>3, <2>1 DEF Output
    <2>3. /\ IsFiniteSet(Placed(doneItems)) /\ c \in Nat /\ c =< MaxSlots
          /\ Placed(doneItems) = {} => c = 0
      <3>1. IsFiniteSet(Slots) /\ Cardinality(Slots) = MaxSlots
        BY <1>1, FS_Interval DEF Slots
      <3>2. Placed(doneItems) \subseteq Slots
        BY DEF Placed
      <3>. QED BY <1>1, <2>1, <3>1, <3>2, FS_Subset, FS_CardinalityType, FS_EmptySet
    <2>4. \A s \in 1 .. c : s \in Slots /\ doneItems[s] # Unset
      <3>1. CASE Placed(doneItems) = {}
        BY <2>3, <3>1
      <3>2. CASE Placed(doneItems) # {}
        <4>1. Placed(doneItems) = 1 .. c
          BY <1>3, <2>1, <3>2 DEF Accepts, AllClosed
        <4>. QED BY <4>1 DEF Placed
      <3>. QED BY <3>1, <3>2
    <2>5. Output(items) \in [1 .. c -> Items]
      BY <1>1, <2>2, <2>4
    <2>6. Len(Output(items)) = c
      BY <2>2, <2>3
    <2>7. \A s \in 1 .. c : Output(items)[s] = doneItems[s]
      BY <2>2
    <2>8. c \in 0 .. MaxSlots
      BY <1>1, <2>3
    <2>. QED BY <2>5, <2>6, <2>7, <2>8
  <1>. QED BY <1>2, <1>3

\* The calls of an accepted response are those that were streamed.
LEMMA CallsAreShown ==
  ASSUME ItemsAreApart, HeardInv, NEW n \in 0 .. MaxSlots, NEW items \in [1 .. n -> Items],
         Accepts(items)
  PROVE  /\ CallsOf(Output(items)) \in Seq(Slots \X Calls)
         /\ TakesWhatWasShown(CallsOf(Output(items)))
         /\ CallsOf(Output(items)) = <<>> => ~sawFunction
  <1>. DEFINE out == Output(items)
              todo == CallsOf(out)
  <1>1. PICK k \in 0 .. MaxSlots : /\ out \in [1 .. k -> Items] /\ Len(out) = k
                                   /\ \A s \in 1 .. k : doneItems[s] \in {Unset, out[s]}
    BY OutputIsWhatWasShown
  <1>2. Collects(out, k, todo)
    <2>1. Len(out) \in Nat
      BY <1>1 DEF ItemsAreApart
    <2>. QED BY <1>1, <2>1, CallsOfCollects
  <1>3. 1 .. k \subseteq Slots
    BY <1>1 DEF Slots, ItemsAreApart
  <1>4. /\ \A s \in functions : s =< k /\ out[s] \in Calls
        /\ sawFunction => \E i \in 1 .. k : out[i] \in Calls
        /\ \A s \in Placed(observed) : Matches(out[s], observed[s])
    BY <1>1 DEF Accepts, CallsAreThere
  <1>. HIDE DEF out, todo
  <1>5. todo \in Seq(Slots \X Calls)
    <2>1. todo \in Seq((1 .. k) \X Calls)
      BY <1>2 DEF Collects
    <2>2. (1 .. k) \X Calls \subseteq Slots \X Calls
      BY <1>3
    <2>. QED BY <2>1, <2>2
  <1>6. \A s \in functions : \E i \in DOMAIN todo : todo[i][1] = s
    <2>1. \A s \in functions : s \in 1 .. k
      BY <1>1, <1>4 DEF HeardInv, Slots, ItemsAreApart
    <2>. QED BY <1>2, <1>4, <2>1 DEF Collects
  <1>7. ASSUME NEW i \in DOMAIN todo
        PROVE  /\ doneItems[todo[i][1]] \in {Unset, todo[i][2]}
               /\ observed[todo[i][1]] # Unset => Matches(todo[i][2], observed[todo[i][1]])
    <2>1. todo[i] \in (1 .. k) \X Calls
      BY <1>2 DEF Collects
    <2>2. PICK s \in 1 .. k : s = todo[i][1]
      BY <2>1
    <2>3. out[s] = todo[i][2]
      BY <1>2, <2>2 DEF Collects
    <2>4. observed[s] # Unset => s \in Placed(observed)
      BY <1>3 DEF Placed
    <2>. QED BY <1>1, <1>4, <2>2, <2>3, <2>4
  <1>8. todo = <<>> => ~sawFunction
    <2>1. todo = <<>> => DOMAIN todo = {}
      OBVIOUS
    <2>. QED BY <1>2, <1>4, <2>1 DEF Collects
  <1>. QED BY <1>5, <1>6, <1>7, <1>8 DEF TakesWhatWasShown, out, todo

\* The ways a step of the adapter leaves the invariant alone: the stream ends ...
LEMMA EndingKeeps ==
  ASSUME StreamInv, NEW code, code # "none", Ends(code),
         code \in {"interrupted", "transport_error"} => ~Halted,
         UNCHANGED <<tools, ran, cancel, timedOut>>
  PROVE  StreamInv'
  <1>1. HeardInv'
    <2>1. /\ functions' = {} /\ sawFunction' = FALSE /\ calls' = <<>> /\ step' = "ended"
          /\ doneItems' = [s \in Slots |-> Unset]
      BY DEF Ends, ForgetsRound
    <2>2. doneItems' \in [Slots -> Items \union {Unset}]
      BY <2>1
    <2>3. calls' \in Seq(Slots \X Calls)
      BY <2>1
    <2>. QED BY <2>1, <2>2, <2>3 DEF StreamInv, HeardInv, AdapterSteps
  <1>2. QueueInv'
    BY DEF StreamInv, QueueInv, Ends, RunsOnce
  <1>3. CutInv'
    BY DEF StreamInv, CutInv, Ends, Halted, Cancelled
  <1>. QED BY <1>1, <1>2, <1>3 DEF StreamInv

\* ... or goes on, with what it has heard.
LEMMA ContinuingKeeps ==
  ASSUME StreamInv, NEW label \in AdapterSteps \ {"ended", "tools", "running"},
         Proceeds(label), step # "ended", label \in Attached => step \in Attached,
         functions' \subseteq Slots, sawFunction' \in BOOLEAN,
         doneItems' \in [Slots -> Items \union {Unset}],
         UNCHANGED <<tools, ran, cancel, timedOut>>
  PROVE  StreamInv'
  <1>1. HeardInv'
    BY DEF StreamInv, HeardInv, Proceeds
  <1>2. QueueInv'
    BY DEF StreamInv, QueueInv, Proceeds, RunsOnce
  <1>3. CutInv'
    BY DEF StreamInv, CutInv, Proceeds, Halted, Cancelled
  <1>. QED BY <1>1, <1>2, <1>3 DEF StreamInv

LEMMA GoingKeeps ==
  ASSUME StreamInv, NEW label \in AdapterSteps \ {"ended", "tools", "running"},
         MovesTo(label), step # "ended", label \in Attached => step \in Attached,
         UNCHANGED <<tools, ran, cancel, timedOut>>
  PROVE  StreamInv'
  <1>1. /\ functions' \subseteq Slots /\ sawFunction' \in BOOLEAN
        /\ doneItems' \in [Slots -> Items \union {Unset}]
    BY DEF MovesTo, heardVars, StreamInv, HeardInv
  <1>. QED BY <1>1, ContinuingKeeps DEF MovesTo

\* Cancelling, the deadline and its timer.
LEMMA StoppingKeeps ==
  ASSUME StreamInv, CancelFlags \/ CancelCopies \/ CancelCloses \/ Elapse \/ TimerCloses
  PROVE  StreamInv'
  <1>1. UNCHANGED <<tools, step, functions, sawFunction, doneItems, calls, ran, told>>
    BY DEF CancelFlags, CancelCopies, CancelCloses, Elapse, TimerCloses, heardVars, callVars
  <1>2. HeardInv'
    BY <1>1 DEF StreamInv, HeardInv
  <1>3. QueueInv'
    BY <1>1 DEF StreamInv, QueueInv, RunsOnce, AreFresh
  <1>4. CutInv'
    <2>1. CASE CancelFlags
      BY <2>1 DEF StreamInv, CutInv, CancelFlags, Halted, Cancelled
    <2>2. CASE CancelCopies
      BY <2>2 DEF StreamInv, CutInv, CancelCopies, Halted, Cancelled
    <2>3. CASE CancelCloses
      BY <2>3 DEF StreamInv, CutInv, CancelCloses, Cuts, Halted, Cancelled, Attached
    <2>4. CASE Elapse
      BY <2>4 DEF StreamInv, CutInv, Elapse, Halted, Cancelled
    <2>5. CASE TimerCloses
      BY <2>5 DEF StreamInv, CutInv, TimerCloses, Cuts, Halted, Cancelled, Attached
    <2>. QED BY <2>1, <2>2, <2>3, <2>4, <2>5
  <1>. QED BY <1>2, <1>3, <1>4 DEF StreamInv

\* Asking for a round, and the consumer.
LEMMA AskingKeeps ==
  ASSUME StreamInv, BeginReply \/ StartRound \/ Ask \/ Admit \/ Headers \/ Resume \/ Abandon
  PROVE  StreamInv'
  <1>. USE DEF AdapterSteps, Attached
  <1>1. StopCode # "none" /\ StopCode \notin {"interrupted", "transport_error"}
    BY DEF StopCode
  <1>2. \A code \in ReadCodes : code # "none" /\ (code \in {"interrupted", "transport_error"}
                                                  => ~Halted)
    BY <1>1 DEF ReadCodes
  <1>3. CASE BeginReply
    BY <1>3, GoingKeeps DEF BeginReply
  <1>4. CASE StartRound
    <2>1. CASE Halted
      BY <1>1, <1>4, <2>1, EndingKeeps DEF StartRound
    <2>2. CASE ~Halted
      BY <1>4, <2>2, GoingKeeps DEF StartRound
    <2>. QED BY <2>1, <2>2
  <1>5. CASE Ask
    <2>1. ASSUME NEW code \in {"unauthorized"} \union (ReadCodes \ {"interrupted"}), Ends(code)
          PROVE  StreamInv'
      <3>1. code # "none" /\ (code \in {"interrupted", "transport_error"} => ~Halted)
        BY <1>2, <2>1
      <3>. QED BY <1>5, <2>1, <3>1, EndingKeeps DEF Ask
    <2>2. ASSUME step' = "admitted", source' = "open", UNCHANGED <<told, calls, heardVars>>
          PROVE  StreamInv'
      <3>1. HeardInv'
        BY <1>5, <2>2 DEF Ask, StreamInv, HeardInv, heardVars
      <3>2. QueueInv'
        BY <1>5, <2>2 DEF Ask, StreamInv, QueueInv, RunsOnce
      <3>3. CutInv'
        BY <1>5, <2>2 DEF Ask, StreamInv, CutInv
      <3>. QED BY <3>1, <3>2, <3>3 DEF StreamInv
    <2>. QED BY <1>5, <2>1, <2>2 DEF Ask
  <1>6. CASE Admit
    <2>1. HeardInv'
      BY <1>6 DEF Admit, StreamInv, HeardInv, heardVars, callVars
    <2>2. QueueInv'
      BY <1>6 DEF Admit, StreamInv, QueueInv, RunsOnce, callVars
    <2>3. CutInv'
      BY <1>6 DEF Admit, StreamInv, CutInv, ClosesAtOnce, Halted, Cancelled
    <2>. QED BY <2>1, <2>2, <2>3 DEF StreamInv
  <1>7. CASE Headers
    <2>1. CASE MovesTo("reading")
      BY <1>7, <2>1, GoingKeeps DEF Headers
    <2>2. ASSUME NEW code \in {"refused"} \union (ReadCodes \ {"interrupted"}), Ends(code)
          PROVE  StreamInv'
      <3>1. code # "none" /\ (code \in {"interrupted", "transport_error"} => ~Halted)
        BY <1>2, <2>2
      <3>. QED BY <1>7, <2>2, <3>1, EndingKeeps DEF Headers
    <2>. QED BY <1>7, <2>1, <2>2 DEF Headers
  <1>8. CASE Resume
    <2>1. CASE Cancelled
      BY <1>8, <2>1, EndingKeeps DEF Resume
    <2>2. CASE ~Cancelled
      BY <1>8, <2>2, GoingKeeps DEF Resume
    <2>. QED BY <2>1, <2>2
  <1>9. CASE Abandon
    BY <1>9, EndingKeeps DEF Abandon
  <1>. QED BY <1>3, <1>4, <1>5, <1>6, <1>7, <1>8, <1>9

\* Events of a round, up to its completion.
LEMMA HearingKeeps ==
  ASSUME StreamInv,
         \/ \E slot \in Slots \union {Unplaced} :
               \/ \E identity \in Identities : HearAdded(slot, identity)
               \/ \E item \in Items : HearDone(slot, item)
               \/ HearArguments(slot)
         \/ HearText \/ HearFailure \/ ReadEnds
  PROVE  StreamInv'
  <1>. USE DEF AdapterSteps, Attached
  <1>0. /\ functions \subseteq Slots /\ sawFunction \in BOOLEAN
        /\ doneItems \in [Slots -> Items \union {Unset}]
    BY DEF StreamInv, HeardInv
  <1>1. ASSUME NEW slot, NoticeFunction(slot)
        PROVE  functions' \subseteq Slots /\ sawFunction' \in BOOLEAN
    BY <1>0, <1>1 DEF NoticeFunction
  <1>2. ASSUME NEW slot, NEW identity, HearAdded(slot, identity) PROVE StreamInv'
    <2>1. step = "reading" /\ UNCHANGED <<tools, ran, cancel, timedOut>>
      BY <1>2 DEF HearAdded, Reading
    <2>2. CASE Ends("invalid_response")
      BY <2>1, <2>2, EndingKeeps
    <2>3. CASE ~Ends("invalid_response")
      <3>1. /\ Proceeds("reading") /\ doneItems' = doneItems
            /\ NoticeFunction(slot) \/ UNCHANGED <<sawFunction, functions>>
        BY <1>2, <2>3 DEF HearAdded
      <3>2. functions' \subseteq Slots /\ sawFunction' \in BOOLEAN
        BY <1>0, <1>1, <3>1
      <3>. QED BY <1>0, <2>1, <3>1, <3>2, ContinuingKeeps
    <2>. QED BY <2>2, <2>3
  <1>3. ASSUME NEW slot, NEW item \in Items, HearDone(slot, item) PROVE StreamInv'
    <2>1. step = "reading" /\ UNCHANGED <<tools, ran, cancel, timedOut>>
      BY <1>3 DEF HearDone, Reading
    <2>2. CASE Ends("invalid_response")
      BY <2>1, <2>2, EndingKeeps
    <2>3. CASE ~Ends("invalid_response")
      <3>1. /\ Proceeds("reading")
            /\ NoticeFunction(slot) \/ UNCHANGED <<sawFunction, functions>>
            /\ doneItems' = [doneItems EXCEPT ![slot] = item] \/ doneItems' = doneItems
        BY <1>3, <2>3 DEF HearDone
      <3>2. functions' \subseteq Slots /\ sawFunction' \in BOOLEAN
        BY <1>0, <1>1, <3>1
      <3>3. doneItems' \in [Slots -> Items \union {Unset}]
        BY <1>0, <3>1
      <3>. QED BY <2>1, <3>1, <3>2, <3>3, ContinuingKeeps
    <2>. QED BY <2>2, <2>3
  <1>4. ASSUME NEW slot, HearArguments(slot) PROVE StreamInv'
    <2>1. /\ step = "reading" /\ UNCHANGED <<tools, ran, cancel, timedOut>>
          /\ Proceeds("reading") /\ NoticeFunction(slot) /\ doneItems' = doneItems
      BY <1>4 DEF HearArguments, Reading
    <2>2. functions' \subseteq Slots /\ sawFunction' \in BOOLEAN
      BY <1>1, <2>1
    <2>. QED BY <1>0, <2>1, <2>2, ContinuingKeeps
  <1>5. CASE HearText
    <2>1. step = "reading" /\ UNCHANGED <<tools, ran, cancel, timedOut>>
      BY <1>5 DEF HearText, Reading
    <2>2. CASE text < MaxText
      <3>1. MovesTo("yielded")
        BY <1>5, <2>2 DEF HearText
      <3>. QED BY <2>1, <3>1, GoingKeeps
    <2>3. CASE ~(text < MaxText)
      <3>1. Ends("limit_exceeded")
        BY <1>5, <2>3 DEF HearText
      <3>. QED BY <2>1, <3>1, EndingKeeps
    <2>. QED BY <2>2, <2>3
  <1>6. CASE HearFailure
    <2>1. PICK code \in {"incomplete", "provider_error", "invalid_response", "interrupted"} :
             Ends(code)
      BY <1>6 DEF HearFailure
    <2>. QED BY <1>6, <2>1, EndingKeeps DEF HearFailure, Reading
  <1>7. CASE ReadEnds
    <2>1. PICK code \in ReadCodes : Ends(code)
      BY <1>7 DEF ReadEnds
    <2>2. code # "none" /\ (code \in {"interrupted", "transport_error"} => ~Halted)
      BY <2>1 DEF ReadCodes, StopCode
    <2>. QED BY <1>7, <2>1, <2>2, EndingKeeps DEF ReadEnds
  <1>. QED BY <1>2, <1>3, <1>4, <1>5, <1>6, <1>7

\* A completed round takes fresh calls, those it showed, or says "done" with none.
LEMMA CompletionTakes ==
  ASSUME ItemsAreApart, StreamInv, NEW n \in 0 .. MaxSlots, NEW items \in [1 .. n -> Items],
         HearCompleted(items)
  PROVE  /\ StreamInv'
         /\ step' = "tools" => TakesWhatWasShown(calls')
         /\ told' = "done" => ~sawFunction
  <1>. DEFINE todo == IF tools THEN CallsOf(Output(items)) ELSE <<>>
  <1>1. /\ step = "reading" /\ ~Halted /\ HeardInv /\ tools \in BOOLEAN
        /\ UNCHANGED <<tools, ran, cancel, timedOut>>
    BY DEF HearCompleted, Reading, StreamInv, HeardInv
  <1>2. CASE \E code \in {"invalid_response", "limit_exceeded"} : Ends(code)
    <2>1. PICK code \in {"invalid_response", "limit_exceeded"} : Ends(code)
      BY <1>2
    <2>2. StreamInv'
      BY <1>1, <2>1, EndingKeeps
    <2>3. step' = "ended" /\ told' = code
      BY <2>1 DEF Ends
    <2>. QED BY <2>1, <2>2, <2>3
  <1>3. CASE ~\E code \in {"invalid_response", "limit_exceeded"} : Ends(code)
    <2>1. Accepts(items) /\ AreFresh(todo)
      BY <1>3 DEF HearCompleted
    <2>2. CASE todo = <<>>
      <3>1. Ends("done")
        BY <1>3, <2>2 DEF HearCompleted
      <3>2. StreamInv'
        BY <1>1, <3>1, EndingKeeps
      <3>3. ~sawFunction
        <4>1. CASE tools
          BY <1>1, <2>1, <2>2, <4>1, CallsAreShown
        <4>2. CASE ~tools
          BY <2>1, <4>2 DEF Accepts, CallsAreThere, ItemsAreApart
        <4>. QED BY <4>1, <4>2
      <3>4. step' = "ended"
        BY <3>1 DEF Ends
      <3>. QED BY <3>2, <3>3, <3>4
    <2>3. CASE todo # <<>>
      <3>1. tools /\ todo = CallsOf(Output(items))
        BY <2>3
      <3>2. /\ calls' = todo /\ step' = "tools" /\ source' = "closed" /\ registered' = FALSE
            /\ ForgetsRound /\ UNCHANGED told
        BY <1>3, <2>1, <2>3 DEF HearCompleted
      <3>3. todo \in Seq(Slots \X Calls) /\ TakesWhatWasShown(todo)
        BY <1>1, <2>1, <3>1, CallsAreShown
      <3>. HIDE DEF todo
      <3>4. HeardInv'
        <4>1. doneItems' \in [Slots -> Items \union {Unset}]
          BY <3>2 DEF ForgetsRound
        <4>. QED BY <1>1, <3>2, <3>3, <4>1 DEF HeardInv, ForgetsRound, AdapterSteps
      <3>5. QueueInv'
        BY <1>1, <2>1, <2>3, <3>2 DEF StreamInv, QueueInv, RunsOnce, AreFresh
      <3>6. CutInv'
        BY <1>1, <3>2 DEF StreamInv, CutInv, Halted, Cancelled, Attached
      <3>7. told' # "done"
        BY <1>1, <3>2 DEF StreamInv, CutInv
      <3>. QED BY <3>2, <3>3, <3>4, <3>5, <3>6, <3>7 DEF StreamInv
    <2>. QED BY <2>2, <2>3
  <1>. QED BY <1>2, <1>3

\* The functions of a round: the first of the queue is run and then leaves it.
LEMMA RunningKeeps ==
  ASSUME StreamInv, RunCall \/ ToolReturns
  PROVE  StreamInv'
  <1>. USE DEF AdapterSteps, Attached
  <1>0. calls \in Seq(Slots \X Calls) /\ ran \in Seq(Calls)
    BY DEF StreamInv, HeardInv
  <1>1. StopCode # "none" /\ StopCode \notin {"interrupted", "transport_error"}
    BY DEF StopCode
  <1>2. ASSUME RunCall, ~Halted PROVE StreamInv'
    <2>1. /\ step = "tools" /\ step' = "running" /\ ran' = Append(ran, Head(calls)[2])
          /\ UNCHANGED <<tools, cancel, timedOut, source, registered, told, calls, heardVars>>
      BY <1>2 DEF RunCall, MovesTo, Proceeds
    <2>2. calls # <<>> /\ AreFresh(calls)
      BY <2>1 DEF StreamInv, QueueInv
    <2>3. PICK c : c = Head(calls)[2]
      OBVIOUS
    <2>4. c \in Calls /\ c = calls[1][2]
      BY <1>0, <2>2, <2>3
    <2>5. /\ Tail(calls) \in Seq(Slots \X Calls)
          /\ DOMAIN calls = 1 .. Len(calls) /\ DOMAIN Tail(calls) = 1 .. (Len(calls) - 1)
          /\ \A i \in DOMAIN Tail(calls) : Tail(calls)[i] = calls[i + 1]
          /\ Len(calls) \in Nat /\ Len(calls) > 0
      BY <1>0, <2>2
    <2>6. /\ ran' \in Seq(Calls) /\ Len(ran) \in Nat
          /\ DOMAIN ran = 1 .. Len(ran) /\ DOMAIN ran' = 1 .. (Len(ran) + 1)
          /\ ran'[Len(ran) + 1] = c /\ \A j \in 1 .. Len(ran) : ran'[j] = ran[j]
      BY <1>0, <2>1, <2>3, <2>4
    <2>7. \A j \in DOMAIN ran' : j = Len(ran) + 1 \/ j \in DOMAIN ran
      BY <2>6
    <2>8. \A j \in DOMAIN ran : ran[j] # c
      BY <2>2, <2>4, <2>5 DEF AreFresh
    <2>9. RunsOnce'
      BY <2>6, <2>7, <2>8 DEF StreamInv, QueueInv, RunsOnce
    <2>10. AreFresh(Tail(calls))'
      <3>1. \A i \in DOMAIN Tail(calls) : i + 1 \in DOMAIN calls /\ i + 1 # 1
        BY <2>5
      <3>2. ASSUME NEW i \in DOMAIN Tail(calls), NEW j \in DOMAIN Tail(calls), i # j
            PROVE  Tail(calls)[i][2] # Tail(calls)[j][2]
        <4>1. i + 1 # j + 1
          BY <2>5, <3>2
        <4>. QED BY <2>2, <2>5, <3>1, <4>1 DEF AreFresh
      <3>3. ASSUME NEW i \in DOMAIN Tail(calls), NEW j \in DOMAIN ran'
            PROVE  Tail(calls)[i][2] # ran'[j]
        <4>1. Tail(calls)[i][2] # c
          <5>1. 1 \in DOMAIN calls
            BY <2>5
          <5>. QED BY <2>2, <2>4, <2>5, <3>1, <5>1 DEF AreFresh
        <4>2. \A k \in DOMAIN ran : Tail(calls)[i][2] # ran[k]
          BY <2>2, <2>5, <3>1 DEF AreFresh
        <4>. QED BY <2>6, <2>7, <4>1, <4>2
      <3>4. calls' = calls
        BY <2>1
      <3>. QED BY <3>2, <3>3, <3>4 DEF AreFresh
    <2>11. HeardInv'
      BY <1>0, <2>1, <2>6 DEF StreamInv, HeardInv, heardVars
    <2>12. QueueInv'
      BY <2>1, <2>2, <2>9, <2>10 DEF QueueInv
    <2>13. CutInv'
      BY <2>1 DEF StreamInv, CutInv, Halted, Cancelled
    <2>. QED BY <2>11, <2>12, <2>13 DEF StreamInv
  <1>3. ASSUME RunCall, Halted PROVE StreamInv'
    BY <1>1, <1>3, EndingKeeps DEF RunCall
  <1>4. CASE ToolReturns
    <2>1. step = "running" /\ UNCHANGED <<tools, ran, cancel, timedOut>>
      BY <1>4 DEF ToolReturns
    <2>2. ASSUME NEW code \in {"refused", "cancelled", "timeout", StopCode}, Ends(code)
          PROVE  StreamInv'
      BY <1>1, <2>1, <2>2, EndingKeeps
    <2>3. ASSUME calls' = Tail(calls), UNCHANGED <<source, registered, told, heardVars>>,
                 step' = IF Len(calls) > 1 THEN "tools" ELSE "start"
          PROVE  StreamInv'
      <3>1. calls # <<>> /\ AreFresh(Tail(calls))
        BY <2>1 DEF StreamInv, QueueInv
      <3>2. Tail(calls) \in Seq(Slots \X Calls) /\ (Len(calls) > 1 => Tail(calls) # <<>>)
        <4>1. PICK rest : rest = Tail(calls)
          OBVIOUS
        <4>2. rest \in Seq(Slots \X Calls) /\ Len(rest) = Len(calls) - 1 /\ Len(calls) \in Nat
          BY <1>0, <3>1, <4>1, HeadTailProperties
        <4>3. rest = <<>> => Len(rest) = 0
          OBVIOUS
        <4>4. Len(calls) > 1 => rest # <<>>
          BY <4>2, <4>3
        <4>. QED BY <4>1, <4>2, <4>4
      <3>3. HeardInv'
        BY <2>1, <2>3, <3>2 DEF StreamInv, HeardInv, heardVars
      <3>4. QueueInv'
        <4>1. AreFresh(calls)'
          BY <2>1, <2>3, <3>1 DEF AreFresh
        <4>. QED BY <2>1, <2>3, <3>2, <4>1 DEF StreamInv, QueueInv, RunsOnce
      <3>5. CutInv'
        BY <2>1, <2>3 DEF StreamInv, CutInv, Halted, Cancelled
      <3>. QED BY <3>3, <3>4, <3>5 DEF StreamInv
    <2>. QED BY <1>4, <2>2, <2>3 DEF ToolReturns
  <1>. QED BY <1>2, <1>3, <1>4

LEMMA StreamStarts == StreamInit => StreamInv
  <1>. SUFFICES ASSUME StreamInit PROVE StreamInv
    OBVIOUS
  <1>1. HeardInv
    <2>1. doneItems \in [Slots -> Items \union {Unset}]
      BY DEF StreamInit, NothingHeard
    <2>2. calls \in Seq(Slots \X Calls) /\ ran \in Seq(Calls)
      BY DEF StreamInit
    <2>. QED BY <2>1, <2>2 DEF StreamInit, NothingHeard, HeardInv, AdapterSteps
  <1>2. QueueInv /\ CutInv
    BY DEF StreamInit, QueueInv, RunsOnce, CutInv, Attached
  <1>. QED BY <1>1, <1>2 DEF StreamInv

LEMMA StreamStep ==
  ASSUME ItemsAreApart, StreamInv, [StreamNext]_adapterVars
  PROVE  StreamInv'
  <1>1. CASE StreamNext
    <2>1. ASSUME NEW n \in 0 .. MaxSlots, NEW items \in [1 .. n -> Items],
                 HearCompleted(items)
          PROVE  StreamInv'
      BY <2>1, CompletionTakes
    <2>2. CASE Hears \/ ReadEnds
      <3>1. CASE \E items \in UNION {[1 .. n -> Items] : n \in 0 .. MaxSlots} :
                    HearCompleted(items)
        BY <2>1, <3>1
      <3>. QED BY <2>2, <3>1, HearingKeeps DEF Hears
    <2>3. CASE ~(Hears \/ ReadEnds)
      BY <1>1, <2>3, AskingKeeps, RunningKeeps, StoppingKeeps DEF StreamNext
    <2>. QED BY <2>2, <2>3
  <1>2. CASE UNCHANGED adapterVars
    <2>1. UNCHANGED <<tools, step, functions, sawFunction, doneItems, calls, ran, told,
                      source, registered, cancel, timedOut>>
      BY <1>2 DEF adapterVars, heardVars, callVars
    <2>2. HeardInv'
      BY <2>1 DEF StreamInv, HeardInv
    <2>3. QueueInv'
      BY <2>1 DEF StreamInv, QueueInv, RunsOnce, AreFresh
    <2>4. CutInv'
      BY <2>1 DEF StreamInv, CutInv, Halted, Cancelled
    <2>. QED BY <2>2, <2>3, <2>4 DEF StreamInv
  <1>. QED BY <1>1, <1>2

\* The invariant of the adapter (openai.py, OpenAIProvider.stream): what it holds
\* is of the right kind, nothing waits to be run a second time, and every open
\* source that is read from can be closed by a cancel.
THEOREM StreamIsInOrder == ASSUME ItemsAreApart PROVE StreamSpec => []StreamInv
  BY StreamStarts, StreamStep, PTL DEF StreamSpec

\* Only the completion of a round takes calls, and only it says "done".
LEMMA OnlyCompletionTakes ==
  ASSUME StreamInv, StreamNext,
         \/ step = "reading" /\ step' = "tools"
         \/ told' = "done" /\ told # "done"
  PROVE  \E n \in 0 .. MaxSlots : \E items \in [1 .. n -> Items] : HearCompleted(items)
  <1>1. CASE BeginReply \/ StartRound \/ Ask \/ Admit \/ Headers \/ Resume \/ Abandon
    BY <1>1 DEF BeginReply, StartRound, Ask, Admit, Headers, Resume, Abandon, MovesTo, Proceeds, Ends,
                StopCode, ReadCodes
  <1>2. CASE RunCall \/ ToolReturns
    BY <1>2 DEF RunCall, ToolReturns, MovesTo, Proceeds, Ends, StopCode
  <1>3. CASE CancelFlags \/ CancelCopies \/ CancelCloses \/ Elapse \/ TimerCloses
    BY <1>3 DEF CancelFlags, CancelCopies, CancelCloses, Elapse, TimerCloses
  <1>4. CASE ReadEnds \/ HearFailure \/ HearText
    BY <1>4 DEF ReadEnds, HearFailure, HearText, Reading, MovesTo, Proceeds, Ends, StopCode, ReadCodes
  <1>5. ASSUME NEW slot, NEW x, HearAdded(slot, x) \/ HearDone(slot, x) \/ HearArguments(slot)
        PROVE  FALSE
    BY <1>5 DEF HearAdded, HearDone, HearArguments, Proceeds, Ends
  <1>. QED BY <1>1, <1>2, <1>3, <1>4, <1>5 DEF StreamNext, Hears

\* No call is run twice in a reply, those run are the ones the stream showed at
\* their slots, and "done" hides none (openai.py, _tool_calls, _completed_output).
THEOREM CallsRunAsShown == ASSUME ItemsAreApart PROVE StreamSpec => CallsAreRunAsStreamed
  <1>1. StreamInv => RunsOnce
    BY DEF StreamInv, QueueInv
  <1>2. ASSUME StreamInv, [StreamNext]_adapterVars
        PROVE  [/\ step' = "tools" /\ step = "reading" => TakesWhatWasShown(calls')
                /\ told' = "done" => told = "done" \/ ~sawFunction]_adapterVars
    <2>. SUFFICES ASSUME StreamNext
                  PROVE  /\ step' = "tools" /\ step = "reading" => TakesWhatWasShown(calls')
                         /\ told' = "done" => told = "done" \/ ~sawFunction
      BY <1>2
    <2>1. CASE \E n \in 0 .. MaxSlots : \E items \in [1 .. n -> Items] : HearCompleted(items)
      BY <1>2, <2>1, CompletionTakes
    <2>2. CASE ~\E n \in 0 .. MaxSlots : \E items \in [1 .. n -> Items] : HearCompleted(items)
      BY <1>2, <2>2, OnlyCompletionTakes
    <2>. QED BY <2>1, <2>2
  <1>. QED BY <1>1, <1>2, StreamIsInOrder, PTL DEF CallsAreRunAsStreamed, StreamSpec

\* A cancel that has returned leaves no read on an open connection, and a stream
\* that this side cut is not blamed on the other (base.py, CancellationToken).
THEOREM CancelSticks == ASSUME ItemsAreApart PROVE StreamSpec => CancelTakesHold
  <1>1. StreamInv => CancelCuts
    BY DEF StreamInv, CutInv, CancelCuts, Attached
  <1>. QED BY <1>1, StreamIsInOrder, PTL DEF CancelTakesHold
=============================================================================
