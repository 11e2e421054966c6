----------------------------- MODULE MCHoldings -----------------------------
(***************************************************************************)
(* A fund counted in units and a pot counted in money, both in euro, and   *)
(* two programmes of points.                                               *)
(***************************************************************************)
EXTENDS Holdings, TLC

CONSTANTS fund, pot, miles, stars, euro, real

MCCurrency == [p \in {fund, pot} |-> euro]

Form == [pair |-> fund, kind |-> "DEPOSIT", quantity |-> 2, price |-> 36, fees |-> 0,
         feesInCurrency |-> FALSE, cash |-> 24, program |-> None, points |-> 0, date |-> 1,
         ending |-> FALSE, capture |-> FALSE]

Buy == Form
BuyDearer == [Form EXCEPT !.cash = 25]
BuyLater == [Form EXCEPT !.date = 2, !.price = 54, !.fees = 12, !.feesInCurrency = TRUE]
Redeem == [Form EXCEPT !.program = miles, !.points = 2, !.cash = 0]
Sell == [Form EXCEPT !.kind = "WITHDRAWAL", !.date = 2, !.price = 72]
Save == [Form EXCEPT !.pair = pot, !.quantity = 3, !.price = 1, !.cash = 3]
Draw == [Save EXCEPT !.kind = "WITHDRAWAL", !.date = 2]
Grow == [Save EXCEPT !.kind = "YIELD", !.cash = 0, !.quantity = 5, !.ending = TRUE]
Capture == [Form EXCEPT !.capture = TRUE]

MCOperations == {Buy, BuyDearer, BuyLater, Redeem, Sell, Save, Draw, Grow, Capture}

Points == [program |-> miles, amount |-> 2, credit |-> TRUE, cash |-> 0]
MCEntries == {Points, [Points EXCEPT !.program = stars, !.cash = 5],
              [Points EXCEPT !.credit = FALSE, !.amount = 1]}

Conversion == [program |-> miles, points |-> 2, target |-> 3, iof |-> 1, by |-> "card"]
MCRedemptions == {Conversion, [Conversion EXCEPT !.program = stars, !.by = "account"]}

Opened(quantity, price, date) == [quantity |-> quantity, price |-> price, date |-> date]
MCOpenings == [p \in {fund, pot} |->
    IF p = fund THEN {Opened(2, 18, 1), Opened(2, 18, 2)} ELSE {}]

MCRates == {[from |-> euro, to |-> real, date |-> 1, rate |-> 5],
            [from |-> real, to |-> euro, date |-> 1, rate |-> 2]}

Undeclared == /\ \A c \in DOMAIN rates : Live(rates[c]) = {}
              /\ \A o \in Live(ops) : ops[o].fx.rate = None
Unopened == \A p \in Pairs : opening[p] = NoOpening

\* Three kinds of behaviour, which nothing in the code ties together: those
\* that open and sell positions, those that move points, and those that
\* declare rates.
Positioning ==
    /\ issued.entry = 0 /\ Undeclared /\ base = real
    /\ \A o \in Live(ops) : ops[o].cash # BuyDearer.cash
    /\ issued.op = 3 => request = None /\ \A o \in Live(ops) : ops[o].pair = fund
Spending ==
    /\ issued.op =< 1 /\ issued.op + issued.entry =< 3 /\ Undeclared /\ base = real /\ Unopened
    /\ \A o \in Live(ops) : ops[o].pair = fund /\ ops[o].date = 1 /\ ops[o].cash # BuyDearer.cash
Converting ==
    /\ issued.op =< 1 /\ issued.entry = 0 /\ Unopened
    /\ \A o \in Live(ops) : ops[o].kind # "WITHDRAWAL" /\ ops[o].cash # Save.cash /\ ops[o].date = 1

Scenes == Positioning \/ Spending \/ Converting
=============================================================================
