----------------------------- MODULE MCChatRun ------------------------------
(***************************************************************************)
(* Two instances of ChatRun over one conversation, with replies of up to   *)
(* two chunks.  MCChatRun.cfg: two sends with run ids of their own, which  *)
(* compete for the conversation.  MCChatRepeat.cfg: a send and its         *)
(* repetition under the same run id, with the fair specification.          *)
(***************************************************************************)
EXTENDS ChatRun, TLC

CONSTANTS first, again, other, r1, r2, chat

MCRunOf == [q \in Requests |-> IF q = other THEN r2 ELSE r1]
MCConversationOf == [q \in Requests |-> chat]

\* Two competing sends differ by nothing but their names and those of their runs.
Symmetry ==
    {f \in Permutations({first, other, r1, r2}) :
        \A q \in {first, other} :
            f[q] \in {first, other} /\ f[MCRunOf[q]] = MCRunOf[f[q]]}
=============================================================================
