--------------------------- MODULE LinkedAccounts ---------------------------
(***************************************************************************)
(* What linking provider accounts promises, and nothing about how          *)
(* (docs/apps/assistant.md, "Protocol and account lifecycle"): an          *)
(* authorization is decided once, and a connection is linked only by the   *)
(* confirmation of an authorization that is undecided.  A link may be lost *)
(* at any time; nothing else brings it back.                               *)
(***************************************************************************)
CONSTANTS Attempts, Connections

VARIABLES undecided,   \* the authorizations that may still be confirmed
          joined       \* the connections with an account behind them

vars == <<undecided, joined>>

Init ==
    /\ undecided = Attempts
    /\ joined \subseteq Connections

Confirm(a, c) ==
    /\ a \in undecided
    /\ undecided' = undecided \ {a}
    /\ joined' = joined \union {c}

\* An authorization fails, is cancelled or expires.
Abandon ==
    /\ undecided' \subseteq undecided
    /\ UNCHANGED joined

\* A renewal is refused, or the user disconnects.
Part(c) ==
    /\ joined' = joined \ {c}
    /\ UNCHANGED undecided

Next ==
    \/ \E a \in Attempts, c \in Connections : Confirm(a, c)
    \/ \E c \in Connections : Part(c)
    \/ Abandon

Spec == Init /\ [][Next]_vars
=============================================================================
