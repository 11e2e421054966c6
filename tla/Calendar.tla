------------------------------ MODULE Calendar ------------------------------
(***************************************************************************)
(* Months, dates and the statement calendar of a credit card               *)
(* (transactions/projection.py and CreditCard in banking/models.py).       *)
(*                                                                         *)
(* A month is the integer the code calls month_index; a date is a record   *)
(* of a month and a day inside it, as month_at and date.replace build it.  *)
(* How long each month is stays a constant function: every clamp in the    *)
(* code goes through monthrange, and nothing else about the Gregorian      *)
(* calendar matters to it.                                                 *)
(***************************************************************************)
EXTENDS Integers, FiniteSetsExt

CONSTANTS Months,            \* the calendar: 0 .. some last month
          DaysIn,            \* DaysIn[m] is monthrange(m)[1]
          ProjectionMonths,  \* DEFAULT_PROJECTION_MONTHS
          NoOverride         \* the None of billing_override

\* Every month has a first day.  Months follow one another.
ASSUME CalendarAssumption == /\ Months \subseteq Nat
                             /\ DaysIn \in [Months -> Nat \ {0}]
ASSUME ContiguousAssumption == \A m \in Months : 0 .. m \subseteq Months
ASSUME ProjectionAssumption == ProjectionMonths \in Nat
ASSUME OverrideAssumption == NoOverride \notin {0, 1}

DatesIn(months) == UNION {[month : {m}, day : 1 .. DaysIn[m]] : m \in months}
Date == DatesIn(Months)

Before(a, b) == a.month < b.month \/ (a.month = b.month /\ a.day < b.day)
NotAfter(a, b) == a = b \/ Before(a, b)
Latest(dates) == CHOOSE a \in dates : \A b \in dates : NotAfter(b, a)

Least(a, b) == IF a =< b THEN a ELSE b

\* The day of a month, clamped to its length: replace(day=min(day, monthrange)).
Clamped(m, day) == [month |-> m, day |-> Least(day, DaysIn[m])]

NextDay(date) == IF date.day < DaysIn[date.month]
                 THEN [date EXCEPT !.day = @ + 1]
                 ELSE [month |-> date.month + 1, day |-> 1]

\* projection_horizon: the same day, clamped, a fixed number of months ahead.
Horizon(today) == Clamped(today.month + ProjectionMonths, today.day)

-----------------------------------------------------------------------------
(* A card closes and is due on days 1..31 that its months may not have.    *)

\* Mutant of StatementMonth: a purchase on the closing day stays in the bill.
StatementMonthAfterClosing(card, date, override) ==
    date.month + (IF override # NoOverride THEN override
                  ELSE IF date.day > Least(card.closing, DaysIn[date.month])
                       THEN 1 ELSE 0)

\* statement_month: a purchase on or after the closing day enters the next
\* statement, unless the user chose the current (0) or the next bill (1).
StatementMonth(card, date, override) ==
    date.month + (IF override # NoOverride THEN override
                  ELSE IF date.day >= Least(card.closing, DaysIn[date.month])
                       THEN 1 ELSE 0)

\* due_date_for: a due day before the closing day falls in the next month.
DueDate(card, statement) ==
    Clamped(IF card.due < card.closing THEN statement + 1 ELSE statement,
            card.due)
=============================================================================
