--------------------------- MODULE ReviewedActions ---------------------------
(***************************************************************************)
(* What the assistant promises about the actions it proposes, and nothing  *)
(* about how (docs/assistant/actions.md, assistant/action_service.py): an  *)
(* action is decided once, and it is executed only while every record it   *)
(* rests on is exactly as its review shows it.                             *)
(***************************************************************************)
EXTENDS Naturals

CONSTANTS Rows,          \* the user's records
          Proposals,     \* the actions
          DependsOn,     \* the records an action rests on
          Source,        \* the record it writes, if it is one of these
          Gone

VARIABLES world,     \* the state of each record: a revision number, or Gone
          shown,     \* the state of the records in the review of each action
          status     \* absent, pending, executed, cancelled or deleted

vars == <<world, shown, status>>

\* Records only move on: no revision returns, no deleted record comes back.
Follows(new, old) ==
    \/ new = Gone
    \/ old \in Nat /\ new \in Nat /\ old =< new

Init ==
    /\ world \in [Rows -> Nat]
    /\ status = [p \in Proposals |-> "absent"]

\* A review is written; it may be out of date before it is published.
Draft(p) ==
    /\ status[p] = "absent"
    /\ \A q \in Proposals \ {p} : shown'[q] = shown[q]
    /\ UNCHANGED <<world, status>>

Publish(p) ==
    /\ status[p] = "absent"
    /\ status' = [status EXCEPT ![p] = "pending"]
    /\ UNCHANGED <<world, shown>>

Execute(p) ==
    /\ status[p] = "pending"
    /\ \A r \in DependsOn[p] : world[r] = shown[p][r]
    /\ status' = [status EXCEPT ![p] = "executed"]
    /\ \A r \in Rows : IF r = Source[p] THEN Follows(world'[r], world[r])
                       ELSE world'[r] = world[r]
    /\ UNCHANGED shown

Discard(p) ==
    /\ status[p] = "pending"
    /\ status' = [status EXCEPT ![p] = "cancelled"]
    /\ UNCHANGED <<world, shown>>

\* The conversation goes, with every review it holds.
Withdraw ==
    /\ status' = [p \in Proposals |-> IF status[p] = "absent" THEN "absent" ELSE "deleted"]
    /\ UNCHANGED <<world, shown>>

\* Anything else the user does.
Edit ==
    /\ \A r \in Rows : Follows(world'[r], world[r])
    /\ UNCHANGED <<shown, status>>

Next ==
    \/ \E p \in Proposals : Draft(p) \/ Publish(p) \/ Execute(p) \/ Discard(p)
    \/ Withdraw \/ Edit

Spec == Init /\ [][Next]_vars
=============================================================================
