------------------------------ MODULE MCLedger ------------------------------
(***************************************************************************)
(* The instance of Ledger: one card, months of three and two days, a       *)
(* horizon one month ahead and six days to live through.  The card closes  *)
(* on day 2 and is due on day 1 of the next month or day 3 of the same,    *)
(* so that days are clamped, statements shift and due dates pass.          *)
(***************************************************************************)
EXTENDS Commitments, TLC

CONSTANTS c1, a1, i1, i2, p1, p2

MCMonths == 0 .. 3
MCDaysIn == [m \in MCMonths |-> IF m % 2 = 0 THEN 3 ELSE 2]
MCAccountOf == [c \in {c1} |-> a1]
Day(m, d) == [month |-> m, day |-> d]
MCOpeningOf == [a \in {a1} |-> Day(0, 1)]

Single == [fixed |-> FALSE, until |-> NoMonth, installments |-> 1, start |-> 1,
           override |-> NoOverride, date |-> Day(0, 1), amount |-> 2, instrument |-> c1]

MCItems ==
    {Single,
     [Single EXCEPT !.date = Day(0, 3), !.amount = 3, !.installments = 2],
     [Single EXCEPT !.fixed = TRUE, !.until = 1, !.amount = 1],
     [Single EXCEPT !.instrument = a1, !.fixed = TRUE, !.date = Day(0, 3)]}

Settings(due, from) == [closing |-> 2, due |-> due, manualFrom |-> from]
MCSettings == {Settings(3, None), Settings(3, Day(0, 3)),
               Settings(1, None), Settings(1, Day(1, 1))}

CreditRow(amount, date) == [card |-> c1, month |-> 0, amount |-> amount, date |-> date]
MCCredits == {CreditRow(3, Day(0, 2)), CreditRow(1, Day(1, 1))}

PaymentRow(m, amount) == [invoice |-> <<c1, m>>, account |-> a1, amount |-> amount,
                          date |-> Day(0, 2)]
MCPayments == {PaymentRow(0, 1), PaymentRow(0, 2), PaymentRow(1, 1)}

MCFirstDay == Day(0, 1)
MCLastDay == Day(1, 1)

\* Rows of one kind differ by their keys alone.
Symmetry == Permutations({i1, i2}) \union Permutations({p1, p2})
=============================================================================
