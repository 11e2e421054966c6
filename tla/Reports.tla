------------------------------- MODULE Reports -------------------------------
(***************************************************************************)
(* What the dashboard and the plans read from the ledger: balances, the    *)
(* projected close, card debt and net worth, the expenses of a month and   *)
(* the ways they are divided, a budget's progress and the cash shortage    *)
(* warning (dashboard/services.py, dashboard/wealth.py,                    *)
(* dashboard/details.py, planning/services.py).                            *)
(*                                                                         *)
(* Nothing is stored: each figure is read from the sources and the rows    *)
(* derived from them.  Every item is an expense, as in Ledger.             *)
(***************************************************************************)
EXTENDS Ledger

\* An entry of a month is a row of one of two tables.
ASSUME EntriesAssumption == ItemIds \intersect CreditKeys = {}

InMonths(first, last) == {m \in Months : first =< m /\ m =< last}
MonthEnd(m) == [month |-> m, day |-> DaysIn[m]]

Moved(rows, keys, day) ==
    SumFunction([k \in {k \in keys : rows[k] # None /\ NotAfter(rows[k].date, day)} |-> rows[k].amount])

AccountMoves(day) == Moved(itemMoves, ItemIds \X Months, day)
\* What the accounts hold on a day, their openings aside.
Balance(day) ==
    -(AccountMoves(day) + Moved(invoiceMoves, InvoiceKeys, day) + Moved(paymentMoves, PaymentKeys, day))

-----------------------------------------------------------------------------
(* The projected close: a bill to be confirmed is an obligation, no debit. *)

PaidBy(key, day) ==
    SumPayments(payments, {k \in PaymentsOf(payments, key) : NotAfter(payments[k].date, day)})

RemainingAt(key, cutoff) ==
    Positive(StatementAmountAt(Sources, invoices[key], key, cutoff) - PaidBy(key, cutoff))

Confirmed == {key \in InvoiceKeys : invoices[key] # None /\ invoices[key].manual}

\* An overdue bill is expected today.
ExpectedOn(key, from) == IF Before(invoices[key].due, from) THEN from ELSE invoices[key].due

\* Mutant of ProjectedBalance: an overdue bill is forgotten.
ProjectedWithoutOverdue(day, from) ==
    Balance(day) - SumFunction([key \in {key \in Confirmed : /\ NotAfter(from, invoices[key].due)
                                                         /\ NotAfter(invoices[key].due, day)} |->
                                   RemainingAt(key, from)])
ProjectedBalance(day, from) ==
    Balance(day) - SumFunction([key \in {key \in Confirmed : NotAfter(ExpectedOn(key, from), day)} |->
                                   RemainingAt(key, from)])

\* What the bills expected on a day take.
ExpectedBills(day, from) ==
    SumFunction([key \in {key \in Confirmed : ExpectedOn(key, from) = day} |-> RemainingAt(key, from)])

\* The shortage warning walks from today's balance, day by day.
DaysBetween(first, last) ==
    {d \in DatesIn(InMonths(first.month, last.month)) : Before(first, d) /\ NotAfter(d, last)}

DayChange(day, from) ==
    Balance(day) - Balance(IF day.day > 1 THEN [day EXCEPT !.day = @ - 1] ELSE MonthEnd(day.month - 1))
      - ExpectedBills(day, from)

Walked(from, end) ==
    Balance(from) - ExpectedBills(from, from)
      + SumFunction([day \in DaysBetween(from, end) |-> DayChange(day, from)])

-----------------------------------------------------------------------------
(* Card debt: what was bought by a day, whatever its statement, unpaid.    *)

\* A plan imported midway is not known before its first tracked month.
IsKnown(item, c, day) ==
    /\ NotAfter(item.date, day)
    /\ IsPlan(item) /\ item.start > 1 =>
          BilledMonth(item, cards[c]) + item.start - 1 =< day.month

IncurredMonths(item, c, day) ==
    LET first == BilledMonth(item, cards[c])
        elapsed == day.month - item.date.month
        last == IF item.until = NoMonth THEN elapsed ELSE Least(elapsed, LastFixedOffset(item))
    IN  IF item.fixed
        THEN {first + k : k \in {n \in 0 .. last :
                 NotAfter(Clamped(item.date.month + n, item.date.day), day)}}
        ELSE first .. (first + item.installments - 1)

Incurs(i, key, day) ==
    /\ i \in CardItems(Sources, key[1])
    /\ IsKnown(items[i], key[1], day)
    /\ key[2] \in IncurredMonths(items[i], key[1], day)

Incurred(key, day) == SumItems(Sources, {i \in ItemIds : Incurs(i, key, day)}, key[1], key[2])

CreditedBy(key, day) == CreditsPostedBy(Sources, key[1], key[2], day)

\* Mutant of IsListed: a statement paid before its purchase is not looked at.
IsListedByAmount(key, day) ==
    (\E i \in ItemIds : Incurs(i, key, day)) \/ CreditedBy(key, day) # 0
\* A statement counts once something was bought, credited or paid for it.
IsListed(key, day) ==
    \/ \E i \in ItemIds : Incurs(i, key, day)
    \/ CreditedBy(key, day) # 0
    \/ key \in Confirmed /\ PaidBy(key, day) # 0
    \/ /\ invoices[key] # None /\ key \notin Confirmed
       /\ invoiceMoves[key] # None /\ NotAfter(invoiceMoves[key].date, day)

SettledOf(key, day) ==
    LET card == cards[key[1]]
        due == DueDate(card, key[2])
        manual == key \in Confirmed \/ (card.manualFrom # None /\ NotAfter(card.manualFrom, due))
    IN  IF manual THEN PaidBy(key, day)
        ELSE IF invoiceMoves[key] # None /\ NotAfter(invoiceMoves[key].date, day)
        THEN invoiceMoves[key].amount
        ELSE IF invoices[key] = None /\ NotAfter(due, day)
        THEN Positive(Incurred(key, day) - CreditedBy(key, day)) ELSE 0

CardDebt(day) ==
    SumFunction([key \in {key \in InvoiceKeys : IsListed(key, day)} |->
                    Incurred(key, day) - CreditedBy(key, day) - SettledOf(key, day)])

NetWorth(day) == Balance(day) - CardDebt(day)

-----------------------------------------------------------------------------
(* The expenses of a month: an entry is an item, or a credit counted off.  *)

Entries == {i \in ItemIds : items[i] # None} \union {k \in CreditKeys : credits[k] # None}
IsCredit(e) == e \in CreditKeys

Instrument(e) == IF IsCredit(e) THEN credits[e].card ELSE items[e].instrument
CardOf(e) == IF Instrument(e) \in CardIds THEN cards[Instrument(e)] ELSE NoCard

EntryAmount(e, m) ==
    IF ~IsCredit(e) THEN AmountForMonth(items[e], CardOf(e), m)
    ELSE IF credits[e].month = m THEN -credits[e].amount ELSE 0

OccurrenceDate(e, m) ==
    IF IsCredit(e) THEN credits[e].date
    ELSE IF items[e].fixed
    THEN Clamped(m - BillingOffset(items[e], CardOf(e)), items[e].date.day)
    ELSE items[e].date

SumEntries(entries, m) == SumFunction([e \in entries |-> EntryAmount(e, m)])
Charging(m) == {e \in Entries : EntryAmount(e, m) # 0}

FullMonth(m) == SumEntries(Charging(m), m)
ThroughCutoff(m, cutoff) == SumEntries({e \in Charging(m) : NotAfter(OccurrenceDate(e, m), cutoff)}, m)

Bucket(e) ==
    IF IsCredit(e) THEN "one_off"
    ELSE IF IsPlan(items[e]) THEN "installment" ELSE IF items[e].fixed THEN "fixed" ELSE "one_off"

\* Each chart's rows, and the composition shown for one of them.
ByInstrument(m) ==
    [key \in {Instrument(e) : e \in Charging(m)} |->
        SumEntries({e \in Charging(m) : Instrument(e) = key}, m)]
ByRecurrence(m) ==
    [bucket \in {"installment", "fixed", "one_off"} |->
        SumEntries({e \in Charging(m) : Bucket(e) = bucket}, m)]
Composition(m, key, bucket) ==
    {e \in Charging(m) : Instrument(e) = key /\ Bucket(e) = bucket}
Composed(m, key, bucket) == SumEntries(Composition(m, key, bucket), m)

\* A budget over every category: its own reading of when a month's amount
\* occurs, and of what is a fact already.
BudgetOccurrence(e, m) ==
    IF IsCredit(e) THEN credits[e].date
    ELSE IF IsPlan(items[e]) \/ ~items[e].fixed THEN items[e].date
    ELSE LET shift == m - items[e].date.month - BillingOffset(items[e], CardOf(e))
         IN  Clamped(items[e].date.month + shift, items[e].date.day)

\* Mutant of BudgetActual: an installment is a fact once it was bought.
BudgetActualEarly(m, day) == SumEntries({e \in Charging(m) : NotAfter(BudgetOccurrence(e, m), day)}, m)
BudgetActual(m, day) ==
    IF m > day.month THEN 0
    ELSE SumEntries({e \in Charging(m) : NotAfter(BudgetOccurrence(e, m), day)}, m)

-----------------------------------------------------------------------------
(* Properties.                                                             *)

\* Net worth changes when something is bought, credited or moved on an account
\* and at no other time: paying a bill, by hand or by its automatic debit,
\* early, late or for a purchase moved to an earlier bill, takes from the cash
\* exactly what it takes from the debt (dashboard/wealth.py:28 "Confirmed
\* payments are applied to their invoice").
NetWorthIsWhatWasBought ==
    Fresh => \A day \in DatesIn(InMonths(FirstDay.month, today.month)) : NotAfter(day, today) =>
        NetWorth(day)
          = SumFunction([key \in InvoiceKeys |-> CreditedBy(key, day) - Incurred(key, day)])
              - AccountMoves(day)

\* A bill is not paid beyond its statement.
PaidFor(key) == PaidBy(key, today) =< StatementAmountAt(Sources, invoices[key], key, today)
\* Confirming, correcting or deleting a payment moves no forecast: by the time
\* every bill is due, the projected close is what it was.  A bill paid beyond its
\* statement, which a later credit can make of it, has nothing to give back.
ForecastKeepsItsClose ==
    [][Fresh /\ payments' # payments =>
          \A k \in PaymentKeys :
              LET row == IF payments[k] # None THEN payments[k] ELSE payments'[k]
                  close == MonthEnd(Horizon(today).month + 1)
              IN  payments'[k] # payments[k] /\ PaidFor(row.invoice) =>
                     ProjectedBalance(close, today)' = ProjectedBalance(close, today)]_vars

\* The divisions of a month, and what a past one was credited since its end.
Divides(whole, byInstrument, byRecurrence, m) ==
    /\ whole = SumFunction(byInstrument)
    /\ whole = SumFunction(byRecurrence)
    /\ whole = SumFunction([c \in (DOMAIN byInstrument) \X (DOMAIN byRecurrence) |->
                               Composed(m, c[1], c[2])])

PostedSince(m) ==
    SumEntries({e \in Charging(m) : IsCredit(e) /\ Before(MonthEnd(m), OccurrenceDate(e, m))
                                     /\ NotAfter(OccurrenceDate(e, m), today)}, m)

\* The same month adds up to the same amount wherever it is shown: by
\* instrument, by recurrence, row by row in the details of either chart, in the
\* dashboard's expenses so far and in a budget that covers everything (which
\* takes a past month as it stands today, with the credits posted since); and
\* the shortage warning, walking day by day, arrives at the projected balance
\* (planning/services.py:106 "as on the dashboard").
ReportsAgree ==
    Fresh =>
        /\ \A m \in InMonths(FirstDay.month, Horizon(today).month) :
              Divides(FullMonth(m), ByInstrument(m), ByRecurrence(m), m)
        /\ \A m \in InMonths(FirstDay.month, today.month) :
              BudgetActual(m, today) =
                IF m = today.month THEN ThroughCutoff(m, today)
                ELSE ThroughCutoff(m, MonthEnd(m)) + PostedSince(m)
        /\ BudgetActual(today.month + 1, today) = 0
        /\ \A m \in InMonths(today.month, Horizon(today).month) :
              Walked(today, MonthEnd(m)) = ProjectedBalance(MonthEnd(m), today)
=============================================================================
