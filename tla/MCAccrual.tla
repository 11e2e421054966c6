----------------------------- MODULE MCAccrual ------------------------------
(***************************************************************************)
(* The instance of Accrual: months of four and three days, so that days 4  *)
(* and 5 have to be clamped; plans of up to three installments whose       *)
(* amounts do not divide; cards closing and due on every kind of day.      *)
(***************************************************************************)
EXTENDS MonthFigures

MCMonths == 0 .. 6
MCDaysIn == [m \in MCMonths |-> IF m % 2 = 0 THEN 4 ELSE 3]

MCCards == {NoCard} \union [closing : {1, 3, 5}, due : {1, 4}]

MCItems ==
    [date : {[month |-> 0, day |-> 1], [month |-> 0, day |-> 4], [month |-> 1, day |-> 3]},
     amount : {1, 5, 8}, fixed : BOOLEAN, until : {NoMonth, 1, 2},
     installments : 1 .. 3, start : 1 .. 3, override : {NoOverride, 0}]

\* One category, two uneven ones, or three.
MCSplitsOf(i) ==
    {<<i.amount>>} \union
    (IF i.amount > 2
     THEN {<<1, i.amount - 1>>, <<i.amount \div 2, i.amount - i.amount \div 2 - 1, 1>>}
     ELSE {})

\* A rate that moves every day: none yet, a recorded one, or the inverse of one.
MCRateOn ==
    [date \in Date |->
        CASE date.month = 0 /\ date.day < 3 -> Unknown
          [] date.month # 0 /\ (date.month + date.day) % 2 = 0 -> [times |-> 12 + date.day, over |-> 10]
          [] OTHER -> [times |-> 1, over |-> 6 + date.day]]

\* Numbers of two digits, in hundredths of a cent.
MCPlaces == {1, 10, 100, 1000}
=============================================================================
