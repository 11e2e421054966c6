------------------------------ MODULE Positions ------------------------------
(***************************************************************************)
(* What a history of investment operations amounts to: the replay of       *)
(* investments/positions.py, the position an operation finds, and the      *)
(* value of an operation in the reporting currency.                        *)
(*                                                                         *)
(* A history is a function from operation numbers, in registration order,  *)
(* to an operation or None.  A position is a pair of a product and an      *)
(* asset; a monetary one counts money, at price 1, the others units.       *)
(***************************************************************************)
EXTENDS Integers, FiniteSets, FiniteSetsExt, SequencesExt

CONSTANTS None,
          Pairs,      \* the positions: a product holding an asset
          UnitPairs,  \* those valued by units and price
          Undated     \* the date of an opening nobody dated

IsUnits(pair) == pair \in UnitPairs
Live(table) == {key \in DOMAIN table : table[key] # None}
SumOver(set, f) == SumFunctionOnSet(f, set)

Gross(op) == op.quantity * op.price
Signed(op, n) == IF op.kind = "WITHDRAWAL" THEN -n ELSE n
AppliedFee(op) == IF op.feesInCurrency THEN op.fees ELSE 0

HasOpening(opening) == opening.quantity # 0 \/ opening.price # 0

Of(ops, pair) == {o \in Live(ops) : ops[o].pair = pair}

\* The position just before a date and a registration number.
EarlierOps(ops, pair, date, o) ==
    {x \in Of(ops, pair) \ {o} : \/ ops[x].date < date
                                 \/ ops[x].date = date /\ x < o}

\* What each operation adds to its position.
Moves(ops) == [x \in Live(ops) |-> Signed(ops[x], ops[x].quantity)]

OpeningBy(opening, date) ==
    IF opening.date = Undated \/ opening.date =< date THEN opening.quantity ELSE 0

\* Mutant of Available: the day's earlier operations are left out.
AvailableBeforeDay(ops, opening, pair, date, o) ==
    OpeningBy(opening, date)
      + SumOver({x \in Of(ops, pair) \ {o} : ops[x].date < date}, Moves(ops))

Available(ops, opening, pair, date, o) ==
    OpeningBy(opening, date)
      + SumOver(EarlierOps(ops, pair, date, o), Moves(ops))

\* What strict replay refuses: an operation dated before the opening, or one
\* that takes more than the opening and the operations before it left.
Fits(ops, opening, o) ==
    LET op == ops[o]
        before == opening.quantity
                    + SumOver(EarlierOps(ops, op.pair, op.date, o), Moves(ops))
    IN  /\ HasOpening(opening) /\ opening.date # Undated => opening.date =< op.date
        /\ op.kind = "WITHDRAWAL" => op.quantity =< before

Covered(ops, opening, pair) == \A o \in Of(ops, pair) : Fits(ops, opening, o)

-----------------------------------------------------------------------------
(* Weighted acquisition cost.  A row says how much is held, what it cost   *)
(* and from which operations, and what was realized; its amounts are over  *)
(* a common denominator, for the quotients of Decimal at 40 digits.        *)

OpeningRow(ops, opening, asOf) ==
    LET counted == opening.date = Undated \/ opening.date =< asOf
        value == IF counted THEN opening.quantity * opening.price ELSE 0
    IN  [quantity |-> IF counted THEN opening.quantity ELSE 0,
         cost |-> value, gain |-> 0, over |-> 1,
         parts |-> [part \in {0} \union DOMAIN ops |-> IF part = 0 THEN value ELSE 0]]

Acquire(row, o, op) ==
    LET cost == (Gross(op) + AppliedFee(op)) * row.over
    IN  [row EXCEPT !.quantity = @ + op.quantity, !.cost = @ + cost, !.parts[o] = cost]

\* Mutant of Dispose: the parts that are left are not scaled down.
DisposeWhole(row, op) ==
    LET before == row.quantity
    IN  [quantity |-> before - op.quantity, over |-> row.over * before,
         cost |-> row.cost * (before - op.quantity),
         gain |-> (row.gain + (Gross(op) - AppliedFee(op)) * row.over) * before - row.cost * op.quantity,
         parts |-> [part \in DOMAIN row.parts |-> row.parts[part] * before]]

\* A sale releases its share of the cost, and of every part of it.
Dispose(row, op) ==
    LET before == row.quantity
        after == before - op.quantity
        scale == IF before = 0 THEN 1 ELSE before
        released == IF before = 0 THEN 0 ELSE row.cost * op.quantity
    IN  [quantity |-> after, over |-> row.over * scale,
         cost |-> IF after = 0 THEN 0 ELSE row.cost * scale - released,
         gain |-> (row.gain + (Gross(op) - AppliedFee(op)) * row.over) * scale - released,
         parts |-> [part \in DOMAIN row.parts |->
                       IF before = 0 THEN 0 ELSE row.parts[part] * after]]

\* A monetary position is its own cost.
Observe(row, o, op) ==
    LET value == Signed(op, Gross(op))
    IN  [row EXCEPT !.quantity = @ + value, !.cost = @ + value, !.parts[o] = value]

Replayed(ops, row, o) ==
    CASE ~IsUnits(ops[o].pair) -> Observe(row, o, ops[o])
      [] IsUnits(ops[o].pair) /\ ops[o].kind = "WITHDRAWAL" -> Dispose(row, ops[o])
      [] OTHER -> Acquire(row, o, ops[o])

Counted(ops, pair, asOf) == {o \in Of(ops, pair) : ops[o].date =< asOf}

\* The n-th operation, by date and then by registration.
Nth(ops, pair, asOf, n) ==
    CHOOSE o \in Counted(ops, pair, asOf) :
       Cardinality(EarlierOps(ops, pair, ops[o].date, o)) = n - 1

Replay(ops, opening, pair, asOf) ==
    LET last == Cardinality(Counted(ops, pair, asOf))
        row[n \in 0 .. last] ==
           IF n = 0 THEN OpeningRow(ops, opening, asOf)
           ELSE Replayed(ops, row[n - 1], Nth(ops, pair, asOf, n))
    IN  row[last]

\* What an operation puts in, or takes out if negative; a yield enters at the
\* value it declares.
PaidIn(op) ==
    IF ~IsUnits(op.pair) THEN Signed(op, Gross(op))
    ELSE IF op.kind = "WITHDRAWAL" THEN AppliedFee(op) - Gross(op)
    ELSE Gross(op) + AppliedFee(op)
Invested(ops, opening, pair, asOf) ==
    OpeningRow(ops, opening, asOf).cost
      + SumOver(Counted(ops, pair, asOf), [o \in Live(ops) |-> PaidIn(ops[o])])

\* The net profit still held, at the last price declared by a date.
Unrealized(row, price) == <<row.quantity * price * row.over - row.cost, row.over>>

-----------------------------------------------------------------------------
(* Conversion.  A rate is a numerator over a denominator, or None.         *)

\* The last rate declared on or before a date.
LatestRate(rates, date) ==
    LET dates == {d \in Live(rates) : d =< date}
    IN  IF dates = {} THEN None ELSE rates[Max(dates)]

\* The rate of a pair of currencies, from the direct or the inverse rows.
RateOf(rates, from, to, date) ==
    LET direct == LatestRate(rates[<<from, to>>], date)
        inverse == LatestRate(rates[<<to, from>>], date)
    IN  CASE from = to -> <<1, 1>>
          [] from # to /\ direct # None -> <<direct, 1>>
          [] from # to /\ direct = None /\ inverse # None -> <<1, inverse>>
          [] OTHER -> None

\* What refresh_fx_snapshot keeps with an operation.
Snapshot(rates, from, to, date) ==
    LET rate == RateOf(rates, from, to, date)
    IN  [source |-> from, target |-> to, rate |-> rate, captured |-> rate # None]

\* Mutant of HistoricalValue: today's rates are used for what was captured.
RevaluedValue(rates, op, currency, base) ==
    LET rate == RateOf(rates, currency, base, op.date)
    IN  IF rate = None THEN None ELSE <<Gross(op) * rate[1], rate[2]>>

\* An operation's value in the reporting currency, or None when unknown: one
\* whose rate was captured, or was found missing, is not looked up again.
HistoricalValue(rates, op, currency, base) ==
    IF currency = base THEN <<Gross(op), 1>>
    ELSE IF op.fx.captured /\ op.fx.source = currency /\ op.fx.target = base
    THEN <<Gross(op) * op.fx.rate[1], op.fx.rate[2]>>
    ELSE None
=============================================================================
