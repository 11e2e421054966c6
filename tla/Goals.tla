-------------------------------- MODULE Goals --------------------------------
(***************************************************************************)
(* Goals and the parts of real balances reserved for them: the allocations *)
(* of planning/services.py, the views that write them, the transfers of    *)
(* banking/services.py and the cash it reports as available for planning.  *)
(*                                                                         *)
(* A view loads a goal and the reservation to edit, then saves; between    *)
(* the two, another tab may save, archive or spend.  Amounts are in the    *)
(* smallest unit of one currency.                                          *)
(***************************************************************************)
EXTENDS Rounding, FiniteSets, FiniteSetsExt, SequencesExt

CONSTANTS None,
          Accounts, Pots,        \* where money is kept
          GoalIds, AllocationIds,
          Amounts,               \* what may be moved, spent or reserved
          MaxBalance             \* bound of a balance, above and below zero

Sources == Accounts \union Pots

Allocation == [goal : GoalIds, source : Sources, amount : Amounts]
Loaded == [goal : GoalIds, status : {"active", "archived"}, allocation : AllocationIds \union {None}]

ASSUME AllocationsAreNumbered ==
    IsFiniteSet(AllocationIds) /\ AllocationIds = 1..Cardinality(AllocationIds)

\* As the database requires (planning_allocation_positive).
ASSUME AmountsArePositive == Amounts \subseteq Nat \ {0} /\ MaxBalance \in Nat

ASSUME NoneIsNothing == /\ None \notin {"active", "archived"} /\ None \notin AllocationIds
                        /\ None \notin Allocation /\ None \notin Loaded

VARIABLES balance,      \* of each source
          goals,        \* "active", "archived" or None
          allocations,  \* each a goal, a source and an amount, or None
          allocated,    \* the last allocation number given
          settings,     \* of each source: whether it counts, the manual reserve
          loaded        \* the goal and the allocation a view loaded, or None

goalVars == <<balance, goals, allocations, allocated, settings, loaded>>

GoalsInit ==
    /\ balance = [s \in Sources |-> 0]
    /\ goals = [g \in GoalIds |-> None]
    /\ allocations = [a \in AllocationIds |-> None]
    /\ allocated = 0
    /\ settings = [s \in Sources |-> [enabled |-> TRUE, reserved |-> 0]]
    /\ loaded = None

Positive(n) == Max({n, 0})
Reserving(rows) == SumFunction([a \in rows |-> allocations[a].amount])

Held == {a \in AllocationIds : allocations[a] # None}
Of(g) == {a \in Held : allocations[a].goal = g}
ActiveOn(s) == {a \in Held : allocations[a].source = s /\ goals[allocations[a].goal] = "active"}
Declared(s) == Reserving(ActiveOn(s))

-----------------------------------------------------------------------------
(* Money moves.                                                            *)

Within(n) == n \in -MaxBalance..MaxBalance

\* Both sides of a transfer, equal in one currency, whatever the balance.
Transfer(from, to, amount) ==
    /\ from # to
    /\ Within(balance[from] - amount) /\ Within(balance[to] + amount)
    /\ balance' = [balance EXCEPT ![from] = @ - amount, ![to] = @ + amount]
    /\ UNCHANGED <<goals, allocations, allocated, settings, loaded>>

\* Any other movement, of the ledger or of a pot.
Post(s, amount) ==
    /\ Within(balance[s] + amount)
    /\ balance' = [balance EXCEPT ![s] = @ + amount]
    /\ UNCHANGED <<goals, allocations, allocated, settings, loaded>>

-----------------------------------------------------------------------------
(* Reservations.                                                           *)

\* Mutant of Others: only the goal's own reservations count against it.
OthersOfGoal(g, s, a) == Reserving({b \in ActiveOn(s) \ {a} : allocations[b].goal = g})
\* What other active reservations take of a source.
Others(g, s, a) == Reserving(ActiveOn(s) \ {a})

MayReserve(g, s, a, amount) == amount + Others(g, s, a) =< Positive(balance[s])

IsOnlyOne(g, s, a) == \A b \in Of(g) \ {a} : allocations[b].source # s

Reserve(g, s, a, amount) ==
    /\ a \in AllocationIds
    /\ IsOnlyOne(g, s, a)
    /\ MayReserve(g, s, a, amount)
    /\ allocations' = [allocations EXCEPT ![a] = [goal |-> g, source |-> s, amount |-> amount]]
    /\ allocated' = IF a > allocated THEN a ELSE allocated

CreateGoal(g) ==
    /\ goals[g] = None
    /\ goals' = [goals EXCEPT ![g] = "active"]
    /\ \/ UNCHANGED <<allocations, allocated>>
       \/ \E s \in Sources, n \in Amounts : Reserve(g, s, allocated + 1, n)
    /\ UNCHANGED <<balance, settings, loaded>>

Load(g, a) ==
    /\ loaded = None
    /\ goals[g] # None
    /\ a # None => a \in Of(g)
    /\ loaded' = [goal |-> g, status |-> goals[g], allocation |-> a]
    /\ UNCHANGED <<balance, goals, allocations, allocated, settings>>

\* A reservation form is not shown for an archived goal; the goal's status is
\* not read again when it is saved.
SaveAllocation(s, n) ==
    /\ loaded # None /\ loaded.status = "active"
    /\ Reserve(loaded.goal, s, IF loaded.allocation = None THEN allocated + 1 ELSE loaded.allocation, n)
    /\ loaded' = None
    /\ UNCHANGED <<balance, goals, settings>>

\* The goal's form writes every column of the row it loaded.
SaveGoal ==
    /\ loaded # None /\ loaded.allocation = None
    /\ goals' = [goals EXCEPT ![loaded.goal] = loaded.status]
    /\ loaded' = None
    /\ UNCHANGED <<balance, allocations, allocated, settings>>

DeleteAllocation(a) ==
    /\ allocations[a] # None
    /\ allocations' = [allocations EXCEPT ![a] = None]
    /\ UNCHANGED <<balance, goals, allocated, settings, loaded>>

Archive(g) ==
    /\ goals[g] = "active"
    /\ goals' = [goals EXCEPT ![g] = "archived"]
    /\ UNCHANGED <<balance, allocations, allocated, settings, loaded>>

\* Restoring takes the reservations up again, each beside the active ones.
Restore(g) ==
    /\ goals[g] = "archived"
    /\ \A a \in Of(g) : MayReserve(g, allocations[a].source, a, allocations[a].amount)
    /\ goals' = [goals EXCEPT ![g] = "active"]
    /\ UNCHANGED <<balance, allocations, allocated, settings, loaded>>

\* An account or a position is set aside, or an account's manual reserve set.
SetPlanning(s, enabled) ==
    /\ settings[s].enabled # enabled
    /\ settings' = [settings EXCEPT ![s].enabled = enabled]
    /\ UNCHANGED <<balance, goals, allocations, allocated, loaded>>

SetReserve(s, n) ==
    /\ s \in Accounts
    /\ settings[s].reserved # n
    /\ settings' = [settings EXCEPT ![s].reserved = n]
    /\ UNCHANGED <<balance, goals, allocations, allocated, loaded>>

-----------------------------------------------------------------------------
(* What the balances are worth to the goals and to the plans.              *)

Backing(s) == Min({Declared(s), Positive(balance[s])})

\* Mutant of BackedUpTo: each reservation is rounded on its own.
BackedAlone(s, a) ==
    MapThenSumSet(LAMBDA b : HalfEven(Backing(s) * allocations[b].amount, Declared(s)),
                  {b \in ActiveOn(s) : b =< a})
\* What backs the reservations of a source up to one of them, in their order.
BackedUpTo(s, a) ==
    HalfEven(Backing(s) * Reserving({b \in ActiveOn(s) : b =< a}), Declared(s))

Backed(s, a) ==
    LET before == {b \in ActiveOn(s) : b < a}
    IN  BackedUpTo(s, a) - (IF before = {} THEN 0 ELSE BackedUpTo(s, Max(before)))

\* Mutant of Requested: an account's manual reserve hides its goals.
RequestedByHand(s) == IF s \in Accounts THEN settings[s].reserved ELSE Declared(s)
\* Named goals label an account's manual reserve rather than adding to it.
Requested(s) == Max({Declared(s), settings[s].reserved})

Reserved(s) ==
    IF settings[s].enabled THEN Min({Requested(s), Positive(balance[s])}) ELSE Positive(balance[s])
Available(s) == balance[s] - Reserved(s)

-----------------------------------------------------------------------------

GoalsNext ==
    \/ \E from, to \in Accounts, n \in Amounts : Transfer(from, to, n)
    \/ \E s \in Sources, n \in Amounts : Post(s, n) \/ Post(s, -n)
    \/ \E g \in GoalIds : CreateGoal(g) \/ Archive(g) \/ Restore(g)
    \/ \E g \in GoalIds, a \in Held \union {None} : Load(g, a)
    \/ \E s \in Sources, n \in Amounts : SaveAllocation(s, n)
    \/ SaveGoal
    \/ \E a \in AllocationIds : DeleteAllocation(a)
    \/ \E s \in Sources, enabled \in BOOLEAN : SetPlanning(s, enabled)
    \/ \E s \in Sources, n \in Amounts \union {0} : SetReserve(s, n)

-----------------------------------------------------------------------------
(* Properties.                                                             *)

\* A goal's form saved over an archived goal brings it back as it was loaded.
RevivedByForm ==
    /\ loaded # None /\ loaded' = None
    /\ loaded.status = "active" /\ goals[loaded.goal] = "archived"
    /\ goals' # goals

\* Money is promised once: no step makes the reservations of a source grow
\* past its positive balance, whichever goals, tabs and archived goals they
\* come from ("A source cannot be pledged twice beyond its available backing",
\* docs/apps/planning.md:42).  Spending may leave them short; so may the form
\* of a goal archived since it was loaded, which planning/views.py:122 saves
\* with its old status.
PledgedOnce ==
    [][\A s \in Sources :
          Declared(s)' > Declared(s) =>
             Declared(s)' =< Positive(balance[s])' \/ RevivedByForm]_goalVars

\* What is left of a balance is shared out exactly: each reservation is backed
\* by no more than it asked, and together by all there is (planning/services.py,
\* goal_progress "Cumulative rounding apportions cents without over-claiming").
BackingIsShared ==
    \A s \in Sources : ActiveOn(s) # {} =>
       /\ \A a \in ActiveOn(s) : Backed(s, a) \in 0..allocations[a].amount
       /\ SumFunction([a \in ActiveOn(s) |-> Backed(s, a)]) = Backing(s)

\* The same money is never both available and promised: what planning says is
\* free and what backs the goals fit in the balance together, whatever the
\* manual reserve and the sources set aside (banking/services.py:104, "Named
\* goals label the existing reserve rather than reserving it twice").
FreeMoneyIsUnpledged ==
    \A s \in Sources :
       /\ Available(s) + Backing(s) =< Positive(balance[s])
       /\ balance[s] < 0 => Available(s) = balance[s]

\* Reserved money is counted as backed once and as free never.
BackingIsReal == BackingIsShared /\ FreeMoneyIsUnpledged
=============================================================================
