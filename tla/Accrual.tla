------------------------------ MODULE Accrual -------------------------------
(***************************************************************************)
(* One transaction followed month by month, the way the statements, the    *)
(* account movements and the category reports read it: each month bills    *)
(* AmountForMonth and charges its category rows.  What the months add up   *)
(* to is what the closed forms of the code must say.                       *)
(***************************************************************************)
EXTENDS Occurrences

CONSTANTS Cards,        \* card settings to try: [closing, due], or NoCard
          Items,        \* items to try
          SplitsOf(_),  \* the category rows to try for an item
          LastMonth     \* bound: the month the walk ends in

\* Settings and fields as the forms read them, on a calendar that reaches the
\* due dates of the purchases and of the months walked.
ASSUME AccrualAssumption ==
    /\ Cards \subseteq {NoCard} \union [closing : 1 .. 31, due : 1 .. 31]
    /\ NoCard \notin [closing : 1 .. 31, due : 1 .. 31]
    /\ Items \subseteq [date : Date, amount : Nat, fixed : BOOLEAN, until : Months \union {NoMonth},
                        installments : Nat \ {0}, start : Nat, override : {NoOverride, 0, 1}]
    /\ NoMonth \notin Months /\ NoMonth \notin Date
    /\ \A i \in Items : /\ i.date.month + 3 \in Months
                       /\ \A split \in SplitsOf(i) : split \in Seq(Nat \ {0}) /\ Total(split) = i.amount
    /\ LastMonth \in Nat /\ LastMonth + 1 \in Months

VARIABLES item,    \* the transaction
          card,    \* its card, or NoCard
          rows,    \* its category rows: positive, adding up to its amount
          month,   \* the month to bill next
          billed,  \* what the months before it billed
          left     \* what they left of each category row

vars == <<item, card, rows, month, billed, left>>

TypeOK ==
    /\ item \in Items /\ card \in Cards /\ WellFormed(item, card)
    /\ rows \in SplitsOf(item)
    /\ month \in 0 .. LastMonth + 1
    /\ billed \in Nat
    /\ left \in [DOMAIN rows -> Int]

Init ==
    /\ card \in Cards
    /\ item \in {i \in Items : WellFormed(i, card)}
    /\ rows \in SplitsOf(item)
    /\ month = 0 /\ billed = 0 /\ left = rows

\* One month of a purchase or a plan: its allocation comes out of the rows.
BillMonth ==
    /\ month =< LastMonth /\ ~item.fixed
    /\ LET allocation == AllocationsForMonth(item, card, rows, month)
       IN  left' = [i \in DOMAIN rows |-> left[i] - allocation[i]]
    /\ billed' = billed + AmountForMonth(item, card, month)
    /\ month' = month + 1
    /\ UNCHANGED <<item, card, rows>>

\* One month of a recurring item, whose rows are charged in full every month.
BillRecurringMonth ==
    /\ month =< LastMonth /\ item.fixed
    /\ billed' = billed + Total(AllocationsForMonth(item, card, rows, month))
    /\ month' = month + 1
    /\ UNCHANGED <<item, card, rows, left>>

Next == BillMonth \/ BillRecurringMonth

Spec == Init /\ [][Next]_vars
-----------------------------------------------------------------------------
\* The running total the reports show for a month (amount_through_month) is
\* the sum of what that month and every earlier one billed, whatever the mix
\* of installments, a later first tracked installment, an end month and a
\* statement shifted by the closing day.
CumulativeIsSum ==
    month > 0 => billed = AmountThroughMonth(item, card, month - 1)

\* A plan tracked from its first installment closes: once its last month has
\* passed, the installments add up to the purchase and every row is used up.
PlanCloses ==
    ~item.fixed /\ item.start = 1 /\ month >= BilledMonth(item, card) + item.installments
        => billed = item.amount /\ \A i \in DOMAIN rows : left[i] = 0

\* Replaying installments over the category rows never takes from a category
\* more than it was given, and the categories together are charged exactly
\* what was billed: no cent is lost or invented by rounding, up to the last
\* installment, which uses every row up.
SplitsNeverOverdraw ==
    /\ ~item.fixed =>
          /\ \A i \in DOMAIN rows : left[i] \in 0 .. rows[i]
          /\ Total(rows) - Total(left) = billed
    /\ PlanCloses

\* The months the projection visits, counted by arithmetic, are exactly those
\* up to the horizon that bill something: the window neither skips a billed
\* month nor projects one after the end.  An account movement also has to
\* take effect by the horizon day itself.
WindowIsWhatBills ==
    \A day \in 1 .. DaysIn[month] :
        LET horizon == [month |-> month, day |-> day]
            bills(m) == AmountForMonth(item, card, m) > 0
        IN  {m \in OccurrenceMonths(item, card, horizon) : bills(m)}
              = {m \in 0 .. month :
                    bills(m) /\ (IsCard(card) \/ NotAfter(EffectiveDate(item, m), horizon))}

\* Unless the user moved it to another bill, a purchase is never due on or
\* before the day it was made, and a later purchase never enters an earlier
\* statement, whichever of the two days the months are too short to have.
StatementFollowsPurchase ==
    IsCard(card) =>
        \A a, b \in DatesIn({item.date.month, item.date.month + 1}) :
            /\ Before(a, DueDate(card, StatementMonth(card, a, NoOverride)))
            /\ NotAfter(a, b) => StatementMonth(card, a, NoOverride)
                                   =< StatementMonth(card, b, NoOverride)

\* The closed forms of a schedule are true to it: the running total and the
\* projection both go by what single months bill, and the statement a purchase
\* enters follows it.
SchedulesAgree == CumulativeIsSum /\ WindowIsWhatBills /\ StatementFollowsPurchase
=============================================================================
