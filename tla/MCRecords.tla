----------------------------- MODULE MCRecords ------------------------------
(***************************************************************************)
(* What one person records: a transaction followed through the months and, *)
(* in behaviours of their own, the operations, points and conversions.     *)
(***************************************************************************)
EXTENDS MCAccrual, MCHoldings

\* They share nothing: each behaviour is of one of them.
VARIABLE subject

AtRest ==
    /\ card = NoCard
    /\ item = [date |-> [month |-> 1, day |-> 3], amount |-> 1, fixed |-> FALSE,
               until |-> NoMonth, installments |-> 1, start |-> 1, override |-> NoOverride]
    /\ rows = <<1>>

BothInit == /\ Init /\ HoldingsInit
            /\ \/ subject = "schedule" /\ base = real
               \/ subject = "holdings" /\ AtRest
BothNext == /\ \/ subject = "schedule" /\ Next /\ UNCHANGED holdingVars
               \/ subject = "holdings" /\ HoldingsNext /\ UNCHANGED vars
            /\ UNCHANGED subject
BothSpec == BothInit /\ [][BothNext]_<<vars, holdingVars, subject>>
=============================================================================
