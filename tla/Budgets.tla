------------------------------- MODULE Budgets -------------------------------
(***************************************************************************)
(* The tree of categories and the monthly limits set on its branches:      *)
(* categories/models.py, categories/views.py, categories/importing.py and  *)
(* the budgets of planning/services.py.                                    *)
(*                                                                         *)
(* A month stands for a month and a currency, which budgets never mix.     *)
(***************************************************************************)
EXTENDS Integers, FiniteSets, FiniteSetsExt

CONSTANTS NoCategory, Categories, Months,
          Types,   \* of categories; only an income type is told apart
          Files    \* each a file of categories to import

Category(type, parent) == [type |-> type, parent |-> parent]
CategoryRows == [type : Types, parent : Categories \union {NoCategory}]

ASSUME MonthsAreNumbered == Months = 1..Cardinality(Months)

\* A file names categories once each.
ASSUME CategoriesAreFinite ==
    /\ IsFiniteSet(Categories)
    /\ NoCategory \notin Categories /\ NoCategory \notin CategoryRows
    /\ \A file \in Files : DOMAIN file \subseteq Categories /\ \A c \in DOMAIN file : file[c] \in CategoryRows

VARIABLES tree,     \* the type and the parent of each category, or NoCategory
          limits,   \* the categories limited in each month
          drafted   \* the category a budget form checked, as it read it, or NoCategory

budgetVars == <<tree, limits, drafted>>

BudgetsInit ==
    /\ tree = [c \in Categories |-> NoCategory]
    /\ limits = [m \in Months |-> {}]
    /\ drafted = NoCategory

Known(cats) == {c \in Categories : cats[c] # NoCategory}
Parent(cats, c) == cats[c].parent

\* The categories above c, and c: as many steps up as there are categories.
Ancestors(cats, c) ==
    LET up[n \in 0..Cardinality(Categories)] ==
            IF n = 0 THEN {c}
            ELSE up[n - 1] \union {Parent(cats, d) : d \in {e \in up[n - 1] : Parent(cats, e) # NoCategory}}
    IN  up[Cardinality(Categories)]
Descendants(cats, c) == {d \in Known(cats) : c \in Ancestors(cats, d)}

\* Mutant of Family: only the branches below count.
FamilyBelow(cats, c) == Descendants(cats, c)
\* The categories whose expenses a limit on c would count, or be counted by.
Family(cats, c) == Ancestors(cats, c) \union Descendants(cats, c)

IsForest(cats) ==
    \A c \in Known(cats) :
       /\ Parent(cats, c) \in Known(cats) \union {NoCategory}
       /\ Parent(cats, c) # NoCategory => c \notin Ancestors(cats, Parent(cats, c))

-----------------------------------------------------------------------------
(* Categories.                                                             *)

\* Mutant of LimitsStayApart: a move is not checked against the limits.
LimitsMayMeet(cats, c) == TRUE
\* A move leaves no two limits of one month on the same branch.
LimitsStayApart(cats, c) ==
    Parent(cats, c) # Parent(tree, c) =>
       \A m \in Months : \A b, d \in limits[m] : b # d => b \notin Descendants(cats, d)

IsLimited(c) == \E m \in Months : c \in limits[m]

\* The form is checked again inside the transaction that saves it.
SaveCategory(c, type, parent) ==
    LET cats == [tree EXCEPT ![c] = Category(type, parent)]
    IN  /\ cats # tree
        /\ parent # NoCategory => parent \in Known(tree) /\ c \notin Ancestors(cats, parent)
        /\ tree[c] # NoCategory =>
              /\ type = "INCOME" /\ tree[c].type # "INCOME" => ~IsLimited(c)
              /\ LimitsStayApart(cats, c)
        /\ tree' = cats
        /\ UNCHANGED <<limits, drafted>>

\* A deleted category's children are left at the top.
DeleteCategory(c) ==
    /\ tree[c] # NoCategory
    /\ ~IsLimited(c)
    /\ tree' = [d \in Categories |->
                   IF d = c \/ tree[d] = NoCategory THEN NoCategory
                   ELSE IF tree[d].parent = c THEN [tree[d] EXCEPT !.parent = NoCategory] ELSE tree[d]]
    /\ drafted' = IF drafted # NoCategory /\ drafted.category = c THEN NoCategory ELSE drafted
    /\ UNCHANGED limits

DeleteAllCategories ==
    /\ \A m \in Months : limits[m] = {}
    /\ tree' = [c \in Categories |-> NoCategory]
    /\ drafted' = NoCategory
    /\ UNCHANGED limits

\* A file only adds: a row that names a category that exists is skipped.
Merged(file) ==
    [c \in Categories |-> IF tree[c] = NoCategory /\ c \in DOMAIN file THEN file[c] ELSE tree[c]]

ImportCategories(file) ==
    LET cats == Merged(file)
    IN  /\ \A c \in DOMAIN file : file[c].parent # NoCategory => file[c].parent \in Known(cats)
        /\ IsForest(cats)
        /\ tree' = cats
        /\ UNCHANGED <<limits, drafted>>

-----------------------------------------------------------------------------
(* Limits.                                                                 *)

IsFree(c, m, old) == Family(tree, c) \intersect (limits[m] \ {old}) = {}

\* The form reads the category; saving checks the limits again, but of the
\* category only what the form read.
DraftBudget(c) ==
    /\ drafted = NoCategory
    /\ tree[c] # NoCategory /\ tree[c].type # "INCOME"
    /\ drafted' = [category |-> c, type |-> tree[c].type]
    /\ UNCHANGED <<tree, limits>>

\* A new limit, or the limit of another category or month changed into this.
SaveBudget(m, old, month) ==
    LET c == drafted.category
    IN  /\ drafted # NoCategory
        /\ drafted.type # "INCOME"
        /\ old # NoCategory => old \in limits[month]
        /\ IsFree(c, m, IF month = m THEN old ELSE NoCategory)
        /\ limits' = [n \in Months |->
                         (IF n = month THEN limits[n] \ {old} ELSE limits[n])
                           \union (IF n = m THEN {c} ELSE {})]
        /\ drafted' = NoCategory
        /\ UNCHANGED tree

DeleteBudget(c, m) ==
    /\ c \in limits[m]
    /\ limits' = [limits EXCEPT ![m] = @ \ {c}]
    /\ UNCHANGED <<tree, drafted>>

\* The limits of the month before, each beside those already there, one after
\* the other in the order of the categories' names.
CopyPrevious(m) ==
    LET fits(kept, c) == tree[c].type # "INCOME" /\ Family(tree, c) \intersect kept = {}
        pick(c, kept) == IF fits(kept, c) THEN kept \union {c} ELSE kept
    IN  /\ m - 1 \in Months
        /\ limits' = [limits EXCEPT ![m] = FoldSet(pick, limits[m], limits[m - 1])]
        /\ UNCHANGED <<tree, drafted>>

BudgetsNext ==
    \/ \E c \in Categories, t \in Types, p \in Categories \union {NoCategory} : SaveCategory(c, t, p)
    \/ \E c \in Categories : DeleteCategory(c) \/ DraftBudget(c)
    \/ DeleteAllCategories
    \/ \E file \in Files : ImportCategories(file)
    \/ \E m, month \in Months, old \in Categories \union {NoCategory} : SaveBudget(m, old, month)
    \/ \E c \in Categories, m \in Months : DeleteBudget(c, m)
    \/ \E m \in Months : CopyPrevious(m)

-----------------------------------------------------------------------------
(* Properties.                                                             *)

\* An expense counts against one limit a month at most: no limited category is
\* above another, however categories are moved, deleted, imported and copied
\* (docs/apps/planning.md "Overlapping ancestor/descendant budgets in the same
\* month and currency are rejected"), and the tree they are read from has no
\* cycle to go round.
LimitsAreApart ==
    /\ \A m \in Months : \A c, d \in limits[m] : c # d => c \notin Descendants(tree, d)
    /\ IsForest(tree)
=============================================================================
