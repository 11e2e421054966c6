--------------------------- MODULE ReviewedPostings -------------------------
(***************************************************************************)
(* What importing a statement promises (docs of ingestion/services.py:     *)
(* "Review locally, post atomically and undo only unchanged imported       *)
(* sources"): a statement is posted at most once, with the decisions the   *)
(* confirming page showed, and once undone it stays undone.                *)
(***************************************************************************)
CONSTANTS Tabs, Statements, None, Pending, Withdrawn

VARIABLES shown,   \* the statement and the decisions on each tab's page, or None
          posted   \* the decisions each statement was posted with

vars == <<shown, posted>>

Init ==
    /\ shown = [t \in Tabs |-> None]
    /\ posted = [s \in Statements |-> Pending]

\* A tab loads another page; a statement is still being decided.
Load(t) ==
    /\ \A u \in Tabs \ {t} : shown'[u] = shown[u]
    /\ UNCHANGED posted

Post(t) ==
    /\ shown[t] # None
    /\ posted[shown[t].statement] = Pending
    /\ posted' = [posted EXCEPT ![shown[t].statement] = shown[t].decisions]
    /\ UNCHANGED shown

Undo(s) ==
    /\ posted[s] \notin {Pending, Withdrawn}
    /\ posted' = [posted EXCEPT ![s] = Withdrawn]
    /\ UNCHANGED shown

Next ==
    \/ \E t \in Tabs : Load(t) \/ Post(t)
    \/ \E s \in Statements : Undo(s)

Spec == Init /\ [][Next]_vars
=============================================================================
