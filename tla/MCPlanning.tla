----------------------------- MODULE MCPlanning -----------------------------
(***************************************************************************)
(* An account with a wallet beside it, a pot, two goals; three categories  *)
(* and two months.                                                         *)
(***************************************************************************)
EXTENDS Planning, TLC

CONSTANTS checking, wallet, pot, house, trip, food, market, fruit

MCFiles == {(food :> Category("EXPENSE", NoCategory)) @@ (fruit :> Category("EXPENSE", food)),
            (market :> Category("EXPENSE", fruit)) @@ (fruit :> Category("EXPENSE", market))}

Unset(s) == settings[s] = [enabled |-> TRUE, reserved |-> 0]

\* Goals and budgets have nothing to do with each other: a behaviour that
\* touches the ones leaves the others as they began.
OneSide == \/ /\ tree = [c \in Categories |-> NoCategory]
              /\ drafted = NoCategory
           \/ /\ goals = [g \in GoalIds |-> None]
              /\ \A s \in Sources : balance[s] = 0 /\ Unset(s)

\* The wallet lends the account money and is not reserved; settings change
\* what is shown, never what is saved.
Little ==
    /\ balance[wallet] \in {-1, 0} /\ balance[pot] \in {0, 1} /\ Unset(wallet)
    /\ \A a \in Held : allocations[a].source # wallet
    /\ Unset(checking) \/ Unset(pot)
    /\ loaded # None => Unset(checking) /\ Unset(pot)

\* Only one category is ever an income.
Spending == \A c \in Known(tree) : tree[c].type = "INCOME" => c = fruit

Scenes == OneSide /\ Little /\ Spending

Alike == Permutations(GoalIds)
=============================================================================
