---------------------------- MODULE Occurrences -----------------------------
(***************************************************************************)
(* What one transaction bills in each month: the amounts of                *)
(* transactions/models.py and the occurrence windows of                    *)
(* transactions/projection.py.  Amounts are integers in cents.             *)
(*                                                                         *)
(* An item is [instrument, date, amount, fixed, until, installments,       *)
(* start, override].  Its instrument is a card, with its closing and due   *)
(* days, or NoCard for a bank account or a debit card.                     *)
(***************************************************************************)
EXTENDS Calendar, Sequences

CONSTANT NoCard, NoMonth

\* Mutant of Positive: nothing is clamped.
Unclamped(n) == n

\* max(ZERO, n)
Positive(n) == IF n \in Nat THEN n ELSE 0

\* What a purchase may be, before Transaction.clean looks at it.
ItemOf(instruments) ==
    [instrument : instruments, date : Date, amount : Nat, fixed : BOOLEAN,
     until : Months \union {NoMonth}, installments : Nat \ {0}, start : Nat,
     override : {NoOverride, 0, 1}]

IsCard(card) == card # NoCard
IsPlan(item) == item.installments > 1

\* What Transaction.clean accepts of these fields.
WellFormed(item, card) ==
    /\ item.amount > 0
    /\ item.start \in 1 .. item.installments
    /\ IsPlan(item) => IsCard(card) /\ ~item.fixed
    /\ item.override # NoOverride => IsCard(card)
    /\ item.until # NoMonth => item.fixed /\ item.until >= item.date.month

\* Mutant of InstallmentAmount: rounded up.
InstallmentAmountUp(item) ==
    IF IsPlan(item) THEN (item.amount + item.installments - 1) \div item.installments
    ELSE item.amount

InstallmentAmount(item) ==
    IF IsPlan(item) THEN item.amount \div item.installments ELSE item.amount

\* Mutant of FirstInstallmentAmount: the remainder of the division is lost.
EqualInstallment(item) == InstallmentAmount(item)

\* The first installment takes what rounding down left over.
FirstInstallmentAmount(item) ==
    IF IsPlan(item)
    THEN item.amount - InstallmentAmount(item) * (item.installments - 1)
    ELSE item.amount

BillingOffset(item, card) ==
    IF IsCard(card)
    THEN StatementMonth(card, item.date, item.override) - item.date.month
    ELSE 0

BilledMonth(item, card) == item.date.month + BillingOffset(item, card)

LastFixedOffset(item) == Positive(item.until - item.date.month)

AmountForMonth(item, card, m) ==
    LET offset == m - BilledMonth(item, card)
        installments ==
            IF offset < item.start - 1 \/ offset >= item.installments THEN 0
            ELSE IF offset = 0 THEN FirstInstallmentAmount(item)
            ELSE InstallmentAmount(item)
    IN  CASE offset < 0 -> 0
          [] offset >= 0 /\ item.fixed ->
                IF item.until # NoMonth /\ offset > LastFixedOffset(item)
                THEN 0 ELSE item.amount
          [] offset >= 0 /\ IsPlan(item) -> installments
          [] OTHER -> IF offset = 0 THEN item.amount ELSE 0

\* Mutant of TrackedInstallments: the installment it starts from is left out.
TrackedAfterStart(item, offset) ==
    Positive(Least(offset + 1, item.installments) - item.start)

\* Installments billed up to an offset, not counting those before the start.
TrackedInstallments(item, offset) ==
    Positive(Least(offset + 1, item.installments) - item.start + 1)

AmountThroughMonth(item, card, m) ==
    LET offset == m - BilledMonth(item, card)
        events == 1 + IF item.until = NoMonth THEN offset
                      ELSE Least(offset, LastFixedOffset(item))
        tracked == TrackedInstallments(item, offset)
        installments ==
            IF tracked = 0 THEN 0
            ELSE IF item.start = 1
            THEN FirstInstallmentAmount(item) + InstallmentAmount(item) * (tracked - 1)
            ELSE InstallmentAmount(item) * tracked
    IN  CASE offset < 0 -> 0
          [] offset >= 0 /\ item.fixed -> item.amount * events
          [] offset >= 0 /\ IsPlan(item) -> installments
          [] OTHER -> item.amount

-----------------------------------------------------------------------------
(* occurrence_window and occurrence_months: the billed months up to a      *)
(* horizon, counted without walking the calendar.                          *)

\* The day on which an account item moves money in a month it occurs in.
EffectiveDate(item, m) == Clamped(m, item.date.day)

\* Mutant of WindowStart: a plan is projected from its first installment.
WindowFromBilledMonth(item, card) == BilledMonth(item, card)

WindowStart(item, card) ==
    BilledMonth(item, card) + IF IsPlan(item) THEN item.start - 1 ELSE 0

WindowLength(item, card, horizon) ==
    LET start == WindowStart(item, card)
        open == Positive(horizon.month - start + 1)
        bounded ==
            IF item.fixed
            THEN IF item.until = NoMonth THEN open
                 ELSE Least(open, LastFixedOffset(item) + 1)
            ELSE Least(open, IF IsPlan(item)
                             THEN item.installments - (item.start - 1) ELSE 1)
        lastIsLate == /\ bounded > 0
                      /\ ~IsCard(card)
                      /\ Before(horizon, EffectiveDate(item, start + bounded - 1))
    IN  IF lastIsLate THEN bounded - 1 ELSE bounded

OccurrenceMonths(item, card, horizon) ==
    LET start == WindowStart(item, card)
    IN  start .. (start + WindowLength(item, card, horizon) - 1)

-----------------------------------------------------------------------------
(* Category splits: rows of positive amounts that add up to the item.      *)

Total(values) == SumFunction(values)

\* _split_amount: the largest remainders, ties to the earlier row, take the
\* cents that rounding down left over.
SplitAmount(amount, capacities) ==
    LET rows == DOMAIN capacities
        total == Total(capacities)
        floor == [i \in rows |-> (amount * capacities[i]) \div total]
        remainder == [i \in rows |-> (amount * capacities[i]) % total]
        cents == amount - Total(floor)
        rank(i) == Cardinality({j \in rows : \/ remainder[j] > remainder[i]
                                             \/ remainder[j] = remainder[i] /\ j < i})
    IN  IF amount = 0 \/ total = 0 THEN [i \in rows |-> 0]
        ELSE [i \in rows |-> floor[i] + IF rank(i) < cents THEN 1 ELSE 0]

\* Mutant of AllocationsForMonth: every installment is split over whole rows.
AllocationsOverWholeRows(item, card, rows, m) ==
    SplitAmount(AmountForMonth(item, card, m), rows)

\* What the first k installments leave of every row, for each k.
RowsLeft(item, rows) ==
    LET left[k \in 0 .. item.installments] ==
            IF k = 0 THEN rows
            ELSE LET amount == IF k = 1 THEN FirstInstallmentAmount(item)
                               ELSE InstallmentAmount(item)
                     split == SplitAmount(amount, left[k - 1])
                 IN  [i \in DOMAIN rows |-> left[k - 1][i] - split[i]]
    IN  left

\* category_allocations_for_month: each installment is split over what the
\* earlier ones, tracked or not, left of every row.
AllocationsForMonth(item, card, rows, m) ==
    LET amount == AmountForMonth(item, card, m)
    IN  SplitAmount(amount, IF IsPlan(item) /\ amount # 0
                            THEN RowsLeft(item, rows)[m - BilledMonth(item, card)]
                            ELSE rows)
=============================================================================
