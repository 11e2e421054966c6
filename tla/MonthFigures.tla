---------------------------- MODULE MonthFigures ----------------------------
(***************************************************************************)
(* The dashboard's figures of one month for one transaction, in the base   *)
(* currency: what a month amounts to, what of it has happened by a day,    *)
(* what remains planned, and how it divides into categories                *)
(* (dashboard/services.py).                                                *)
(*                                                                         *)
(* An amount in the base currency is a Decimal: an integer of Scale parts  *)
(* of a cent that keeps a fixed number of digits, the rest being rounded   *)
(* to the nearest, ties to even.  What one place is left of it depends on  *)
(* its size, and so a sum is rounded as a quotient is.                     *)
(***************************************************************************)
EXTENDS Accrual, Rounding, SequencesExt

CONSTANTS RateOn,   \* what one unit converts to on each date, or Unknown
          Scale,    \* parts of a cent
          Kept,     \* the power of ten that has one digit more than are kept
          Places,   \* the places a number can end in: powers of ten
          Unknown,  \* the None of _convert_or_missing
          Raised    \* an exception instead of a figure

\* A rate is a fraction: the recorded one, or one over the inverse recorded.
\* The parts are small enough for the least amount that is converted.
ASSUME RatesAssumption ==
    /\ RateOn \in [Date -> [times : Nat \ {0}, over : Nat \ {0}] \union {Unknown}]
    /\ Scale \in Nat \ {0} /\ Kept \in Nat \ {0} /\ Places \subseteq Nat \ {0}
    /\ Unknown \notin Int
    /\ \A date \in Date : RateOn[date] # Unknown =>
          10 * Scale * RateOn[date].times >= Kept * RateOn[date].over

\* The last place of n/d: the one that uses every digit there is.
Place(n, d) == Max({1} \union {p \in Places : 10 * n >= Kept * p * d})
Nearest(n, d) == LET p == Place(n, d) IN p * HalfEven(n, d * p)
Rounded(n, d) == IF n < 0 THEN -Nearest(-n, d) ELSE Nearest(n, d)
Plus(a, b) == Rounded(a + b, 1)
Added(values) == FoldLeft(Plus, 0, values)

Converted(amount, rate) == Rounded(amount * Scale * rate.times, rate.over)

\* Nothing needs no rate.
Convert(amount, date) ==
    IF amount = 0 THEN 0
    ELSE IF RateOn[date] = Unknown THEN Unknown ELSE Converted(amount, RateOn[date])

MonthEnd(m) == [month |-> m, day |-> DaysIn[m]]
Earlier(a, b) == IF NotAfter(a, b) THEN a ELSE b

\* The day a month's amount is an obligation of: a plan's is its purchase.
OccurrenceDate(m) ==
    IF item.fixed THEN Clamped(m - BillingOffset(item, card), item.date.day) ELSE item.date

\* Mutant of RateDate: a whole month is always valued at its end.
RateDateAtEnd(m, today, cutoff) == IF cutoff = NoMonth THEN MonthEnd(m) ELSE Earlier(MonthEnd(m), cutoff)
\* Realized amounts of the month are valued on today's evidence in both figures.
RateDate(m, today, cutoff) ==
    IF cutoff # NoMonth THEN Earlier(MonthEnd(m), cutoff)
    ELSE IF m =< today.month /\ NotAfter(OccurrenceDate(m), today) THEN Earlier(MonthEnd(m), today)
    ELSE MonthEnd(m)

MonthValue(m, today, cutoff) ==
    Convert(AmountForMonth(item, card, m), RateDate(m, today, cutoff))

\* The value of each category's share, what has no rate left out; the last one
\* takes what conversion lost or gained, whatever its share.
Shared(total, allocated, date) ==
    LET each == [i \in DOMAIN allocated |-> Convert(allocated[i], date)]
        values == SelectSeq(each, LAMBDA v : v # Unknown)
    IN  CASE values = <<>> -> values
          [] values # <<>> /\ total = Unknown -> Raised
          [] OTHER -> [values EXCEPT ![Len(values)] = Plus(Plus(@, total), -Added(values))]

CategoryValues(m, today, cutoff) ==
    IF AmountForMonth(item, card, m) = 0 THEN <<>>
    ELSE Shared(MonthValue(m, today, cutoff), AllocationsForMonth(item, card, rows, m),
                RateDate(m, today, cutoff))

\* Nothing of a month to come has happened; a past month is cut at its end.
Cutoff(m, today) == Earlier(today, MonthEnd(m))
HasHappened(m, today) == m =< today.month /\ NotAfter(OccurrenceDate(m), Cutoff(m, today))

\* What has no rate is left out of a total.
OrZero(value) == IF value = Unknown THEN 0 ELSE value

FullMonth(m, today) == OrZero(MonthValue(m, today, NoMonth))
ThroughCutoff(m, today) ==
    IF HasHappened(m, today) THEN OrZero(MonthValue(m, today, Cutoff(m, today))) ELSE 0
Remaining(m, today) == FullMonth(m, today) - ThroughCutoff(m, today)

\* The categories beside the figures: all of a month to come, or what has
\* happened of a current or past one.
CategoriesShown(m, today) ==
    IF m > today.month THEN CategoryValues(m, today, NoMonth)
    ELSE IF HasHappened(m, today) THEN CategoryValues(m, today, Cutoff(m, today)) ELSE <<>>

-----------------------------------------------------------------------------
\* The figures of a month, and its categories, against what has happened of it.
Reconciles(m, today) ==
    /\ Remaining(m, today) = IF HasHappened(m, today) THEN 0 ELSE FullMonth(m, today)
    /\ CategoriesShown(m, today) =
          IF HasHappened(m, today) \/ m > today.month
          THEN CategoryValues(m, today, NoMonth) ELSE <<>>

\* Whatever the day, past, present or future, what remains planned of a month
\* is exactly what has not happened yet, and the categories shown are, to the
\* last place, those of the figure they stand beside: a rate that moved since,
\* or is not known, is not "remaining planned" activity (dashboard/services.py,
\* _activity_rate_date and get_dashboard_summary).
RemainingIsPlanned ==
    AmountForMonth(item, card, month) > 0 => \A today \in Date : Reconciles(month, today)

\* "If no rate exists, native data is preserved and conversion is marked
\* incomplete" (docs/data-model.md:393): the categories of a month without a
\* rate are left out, and asking for them is not an error.
MissingRateIsMarked ==
    AmountForMonth(item, card, month) > 0 =>
        \A today \in Date : CategoryValues(month, today, NoMonth) # Raised
=============================================================================
