------------------------------- MODULE Holdings ------------------------------
(***************************************************************************)
(* Investment operations and the bank side they own: the movements, points *)
(* and rate evidence of investments/services.py, the purchases of points   *)
(* and the conversions of points of banking/services.py, and the forms and *)
(* views that write them.                                                  *)
(*                                                                         *)
(* A view that edits a row loads it, validates the form, and saves the row *)
(* it loaded: `request' is one such view between its load and its save.    *)
(* Every other submission is one transaction.                              *)
(***************************************************************************)
EXTENDS Positions

CONSTANTS OpIds, EntryIds, RedemptionIds, Programs,
          Currency,        \* of each pair's asset
          OperationForms,  \* what may be submitted of an operation
          EntryForms,      \* ... of an entry of points
          RedemptionForms, \* ... of a conversion of points
          Openings,        \* ... of the opening position of each pair's asset
          RateForms,       \* the rates the user may declare
          Currencies, Dates

Kinds == {"DEPOSIT", "WITHDRAWAL", "YIELD"}
Rates == (Nat \X Nat) \union {None}
PosNat == Nat \ {0}

Operation == [pair : Pairs, kind : Kinds, quantity : PosNat, price : Nat, fees : Nat,
              feesInCurrency : BOOLEAN, cash : Nat, program : Programs \union {None},
              points : Nat, date : Dates, movement : BOOLEAN, entry : EntryIds \union {None},
              fx : [source : Currencies, target : Currencies, rate : Rates,
                    captured : BOOLEAN]]
Movement == [debit : BOOLEAN, amount : PosNat]
PointsEntry == [program : Programs, amount : PosNat, credit : BOOLEAN, purchase : BOOLEAN,
                cash : Nat, funding : BOOLEAN]
Redemption == [program : Programs, points : PosNat, target : PosNat, iof : Nat,
               by : {"account", "card"}, entry : EntryIds,
               expense : [by : {"account", "card"}, amount : PosNat] \union {None}]
Opening == [quantity : Nat, price : Nat, date : Dates \union {Undated}]

OperationForm == [pair : Pairs, kind : Kinds, quantity : Nat, price : Nat, fees : Nat,
                  feesInCurrency : BOOLEAN, cash : Nat, program : Programs \union {None},
                  points : Nat, date : Dates, ending : BOOLEAN, capture : BOOLEAN]

WantsMovement(op) ==
    op.kind = "WITHDRAWAL" \/ (op.kind = "DEPOSIT" /\ op.program = None)
WantsPoints(op) == op.kind = "DEPOSIT" /\ op.program # None

ASSUME IdsAreNumbered ==
    \A ids \in {OpIds, EntryIds, RedemptionIds} :
       IsFiniteSet(ids) /\ ids = 1..Cardinality(ids)

\* What the forms let through: cash and points are positive where they are
\* used, an ending balance is of a yield in money, and money is counted at 1.
ASSUME FormsAreValid ==
    /\ OperationForms \subseteq OperationForm
    /\ \A form \in OperationForms :
          /\ WantsMovement(form) => form.cash > 0
          /\ WantsPoints(form) => form.points > 0
          /\ form.ending => form.kind = "YIELD" /\ ~IsUnits(form.pair)
          /\ ~IsUnits(form.pair) => form.price = 1
    /\ EntryForms \subseteq [program : Programs, amount : PosNat, credit : BOOLEAN, cash : Nat]
    /\ RedemptionForms \subseteq [program : Programs, points : PosNat, target : PosNat,
                                  iof : Nat, by : {"account", "card"}]
    /\ \A form \in RedemptionForms : form.by = "account" => form.iof > 0
    /\ \A p \in Pairs : Openings[p] \subseteq Opening
    /\ \A p \in Pairs \ UnitPairs : \A form \in Openings[p] : form.price = 1
    /\ RateForms \subseteq [from : Currencies, to : Currencies, date : Dates, rate : Nat]

ASSUME WorldIsNamed ==
    /\ IsFiniteSet(Dates) /\ Dates \subseteq Int
    /\ Currency \in [Pairs -> Currencies]
    /\ None \notin Operation \union Movement \union PointsEntry \union Redemption
                    \union Programs \union EntryIds \union Nat \union (Nat \X Nat)

VARIABLES ops,          \* the operations, by registration
          opening,      \* the opening position of each pair
          movements,    \* the bank movements, by source key
          entries,      \* the entries of points
          redemptions,  \* the conversions of points
          rates, base,  \* the declared rates, the reporting currency
          request,      \* the view that has loaded a row, or None
          issued        \* the last operation and entry numbers given

banking == <<movements, entries, redemptions>>
market == <<rates, base>>
holdingVars == <<ops, opening, banking, market, request, issued>>

Keys == {"operation"} \X OpIds \union {"purchase"} \X EntryIds
          \union {"reward", "iof"} \X RedemptionIds

NoOpening == [quantity |-> 0, price |-> 0, date |-> Undated]

HoldingsInit ==
    /\ ops = [o \in OpIds |-> None]
    /\ opening = [p \in Pairs |-> NoOpening]
    /\ movements = [k \in Keys |-> None]
    /\ entries = [e \in EntryIds |-> None]
    /\ redemptions = [r \in RedemptionIds |-> None]
    /\ rates = [pair \in Currencies \X Currencies |-> [d \in Dates |-> None]]
    /\ base \in Currencies
    /\ request = None
    /\ issued = [op |-> 0, entry |-> 0]

-----------------------------------------------------------------------------
(* Points.                                                                 *)

\* What an entry adds to the balance of a programme.
Effect(entry, p) ==
    IF entry = None \/ entry.program # p THEN 0
    ELSE IF entry.credit THEN entry.amount ELSE -entry.amount

Balance(table, p) == SumOver(EntryIds, [e \in EntryIds |-> Effect(table[e], p)])

\* An entry that takes points for an operation or a conversion.
Debit(program, amount) ==
    [program |-> program, amount |-> amount, credit |-> FALSE, purchase |-> FALSE,
     cash |-> 0, funding |-> FALSE]

\* What an operation may still take from a programme: its own entry counts as
\* not taken, whatever became of it since.
Restored(e, p) == IF e # None /\ entries[e].program = p THEN entries[e].amount ELSE 0

\* Mutant of GivenBack: the points come back whatever the programme.
GivenBackAnywhere(old, p) == IF old # None THEN old.points ELSE 0
\* The points of a conversion being edited, if they are of this programme.
GivenBack(old, p) == IF old # None /\ old.program = p THEN old.points ELSE 0

-----------------------------------------------------------------------------
(* Saving an operation.                                                    *)

\* A yield is declared by its amount, or by the balance it leads to.
Amount(o, form) ==
    IF form.ending THEN form.quantity - Available(ops, opening[form.pair], form.pair, form.date, o)
    ELSE form.quantity

\* The fields form_valid looks at; each pair is of an asset of its own here.
Figures(op) == <<op.pair, op.quantity, op.price, op.fees, op.date>>

\* Mutant of Refreshes: every save looks the rate up again.
RefreshesAlways(seen, form, figures) == TRUE
\* The save looks the rate up when a figure changed, or when it is asked to.
Refreshes(seen, form, figures) ==
    \/ seen = None
    \/ form.ending
    \/ figures # Figures(seen)
    \/ form.capture

\* The missing rate may be asked for when the row has none and one exists.
MayCapture(seen, form) ==
    form.capture => /\ seen # None /\ seen.fx.rate = None
                    /\ Currency[seen.pair] # base
                    /\ RateOf(rates, Currency[form.pair], base, form.date) # None

\* Mutant of Disturbed: the position an edit leaves is not replayed.
DisturbedNewOnly(o, form) == {form.pair}
\* The positions a save replays: the one it enters, and the one it leaves.
Disturbed(o, form) == {form.pair} \union (IF ops[o] = None THEN {} ELSE {ops[o].pair})

Written(o, seen, form, entry) ==
    LET amount == Amount(o, form)
        figures == <<form.pair, amount, form.price, form.fees, form.date>>
    IN  [pair |-> form.pair, kind |-> form.kind, quantity |-> amount, price |-> form.price,
         fees |-> form.fees, feesInCurrency |-> form.feesInCurrency, cash |-> form.cash,
         program |-> form.program, points |-> form.points, date |-> form.date,
         movement |-> WantsMovement(form), entry |-> entry,
         fx |-> IF Refreshes(seen, form, figures)
                THEN Snapshot(rates, Currency[form.pair], base, form.date)
                ELSE seen.fx]

\* Mutant of BookCash: a movement that exists is left as it is.
BookCashOnce(o, op, linked) ==
    movements' = [movements EXCEPT ![<<"operation", o>>] =
        CASE WantsMovement(op) /\ ~linked -> [debit |-> op.kind = "DEPOSIT", amount |-> op.cash]
          [] ~WantsMovement(op) /\ linked -> None
          [] OTHER -> @]
\* The movement of an operation is replaced, or removed with the link to it.
BookCash(o, op, linked) ==
    movements' = [movements EXCEPT ![<<"operation", o>>] =
        CASE WantsMovement(op) -> [debit |-> op.kind = "DEPOSIT", amount |-> op.cash]
          [] ~WantsMovement(op) /\ linked -> None
          [] OTHER -> @]

\* The form, the replay of the positions, then the bank side, in one
\* transaction: a save that cannot go all the way changes nothing.
SaveOperation(o, seen, form) ==
    LET linked == IF seen = None THEN None ELSE seen.entry
        fresh == issued.entry + 1
        entry == IF ~WantsPoints(form) THEN None ELSE IF linked = None THEN fresh ELSE linked
        op == Written(o, seen, form, entry)
    IN  /\ op.quantity > 0
        /\ MayCapture(seen, form)
        /\ \A p \in Disturbed(o, form) : Covered([ops EXCEPT ![o] = op], opening[p], p)
        /\ ops' = [ops EXCEPT ![o] = op]
        /\ BookCash(o, op, seen # None /\ seen.movement)
        /\ IF WantsPoints(form)
           THEN /\ Balance(entries, form.program) + Restored(linked, form.program) >= form.points
                /\ entry \in EntryIds
                /\ linked # None => ~entries[linked].purchase
                /\ entries' = [entries EXCEPT ![entry] = Debit(form.program, form.points)]
                /\ issued' = [op |-> IF o > issued.op THEN o ELSE issued.op,
                              entry |-> IF linked = None THEN fresh ELSE issued.entry]
           ELSE /\ entries' = IF linked = None THEN entries ELSE [entries EXCEPT ![linked] = None]
                /\ issued' = [issued EXCEPT !.op = IF o > @ THEN o ELSE @]
        /\ UNCHANGED <<opening, redemptions, market>>

RecordOperation(form) ==
    LET o == issued.op + 1
    IN  /\ o \in OpIds
        /\ SaveOperation(o, None, form)

-----------------------------------------------------------------------------
(* A row loaded by an edit or a deletion.                                  *)

Loads(kind, id, row) ==
    /\ request = None
    /\ request' = [of |-> kind, id |-> id, seen |-> row, gone |-> FALSE]
    /\ UNCHANGED <<ops, opening, banking, market, issued>>

\* A conversion's entry is not open to hand edits.
HandEntries == {e \in Live(entries) : \A r \in Live(redemptions) : redemptions[r].entry # e}

InFlight(kind) == request # None /\ request.of = kind

\* The step deletes a movement or an entry the row in flight links to.
CutsLink ==
    \/ /\ InFlight("operation")
       /\ \/ request.seen.movement /\ movements'[<<"operation", request.id>>] = None
          \/ request.seen.entry # None /\ entries'[request.seen.entry] = None
    \/ InFlight("entry") /\ request.seen.funding /\ movements'[<<"purchase", request.id>>] = None

\* A submission of another tab, loaded and saved in one step.
AtOnce == request' = IF CutsLink THEN [request EXCEPT !.gone = TRUE] ELSE request

\* The edit of an operation is saved over whatever the row has become.  One
\* that was deleted is inserted again, registered anew.
EditOperation(id, seen, form) ==
    LET o == IF ops[id] = None THEN issued.op + 1 ELSE id
    IN  o \in OpIds /\ SaveOperation(o, seen, form)

\* Deleting replays the position the loaded row was of, and removes what it
\* linked to.
DeleteOperation(id, seen) ==
    LET left == [ops EXCEPT ![id] = None]
    IN  /\ ops[id] # None
        /\ Covered(left, opening[seen.pair], seen.pair)
        /\ ops' = left
        /\ movements' = IF seen.movement THEN [movements EXCEPT ![<<"operation", id>>] = None]
                        ELSE movements
        /\ entries' = IF seen.entry # None THEN [entries EXCEPT ![seen.entry] = None] ELSE entries
        /\ UNCHANGED <<opening, redemptions, market, issued>>

-----------------------------------------------------------------------------
(* Entries of points written by hand.                                      *)

Entry(form, funding) ==
    [program |-> form.program, amount |-> form.amount, credit |-> form.credit,
     purchase |-> form.cash > 0, cash |-> form.cash, funding |-> funding]

\* Mutant of Funded: a purchase that stopped being one keeps its payment.
FundedForGood(e, form, linked) ==
    IF form.cash > 0 THEN [debit |-> TRUE, amount |-> form.cash] ELSE movements[<<"purchase", e>>]
\* Bought points are paid at once; the payment goes when they no longer are.
Funded(e, form, linked) ==
    CASE form.cash > 0 -> [debit |-> TRUE, amount |-> form.cash]
      [] form.cash = 0 /\ linked -> None
      [] OTHER -> movements[<<"purchase", e>>]

SaveEntry(e, form, linked) ==
    /\ form.cash > 0 => form.credit
    /\ entries' = [entries EXCEPT ![e] = Entry(form, form.cash > 0)]
    /\ movements' = [movements EXCEPT ![<<"purchase", e>>] = Funded(e, form, linked)]
    /\ UNCHANGED <<ops, opening, redemptions, market>>

AddEntry(form) ==
    /\ issued.entry + 1 \in EntryIds
    /\ SaveEntry(issued.entry + 1, form, FALSE)
    /\ issued' = [issued EXCEPT !.entry = @ + 1]

EditEntry(e, seen, form) == SaveEntry(e, form, seen.funding) /\ UNCHANGED issued

\* The operation whose entry it was is left without one.
DeleteEntry(e, seen) ==
    /\ seen.funding => entries[e] # None
    /\ entries' = [entries EXCEPT ![e] = None]
    /\ ops' = [o \in OpIds |-> IF ops[o] # None /\ ops[o].entry = e
                               THEN [ops[o] EXCEPT !.entry = None] ELSE ops[o]]
    /\ movements' = IF seen.funding THEN [movements EXCEPT ![<<"purchase", e>>] = None]
                    ELSE movements
    /\ UNCHANGED <<opening, redemptions, market, issued>>

-----------------------------------------------------------------------------
(* Conversions of points, which lock the row they edit.                    *)

SaveRedemption(r, form) ==
    LET old == redemptions[r]
        e == IF old = None THEN issued.entry + 1 ELSE old.entry
        byAccount == form.by = "account"
    IN  /\ e \in EntryIds
        /\ Balance(entries, form.program) + GivenBack(old, form.program) >= form.points
        /\ entries' = [entries EXCEPT ![e] = Debit(form.program, form.points)]
        /\ movements' = [movements EXCEPT
               ![<<"reward", r>>] = [debit |-> FALSE, amount |-> form.target],
               ![<<"iof", r>>] = CASE byAccount -> [debit |-> TRUE, amount |-> form.iof]
                                   [] ~byAccount /\ old # None -> None
                                   [] OTHER -> @]
        /\ redemptions' = [redemptions EXCEPT ![r] =
               [program |-> form.program, points |-> form.points, target |-> form.target,
                iof |-> form.iof, by |-> form.by, entry |-> e,
                expense |-> IF form.iof > 0 THEN [by |-> form.by, amount |-> form.iof] ELSE None]]
        /\ issued' = [issued EXCEPT !.entry = IF old = None THEN e ELSE @]
        /\ UNCHANGED <<ops, opening, market>>

NextRedemption == Cardinality(Live(redemptions)) + 1

-----------------------------------------------------------------------------
(* The opening position of an asset, and the rates.                        *)

\* Once an asset has operations only the date of its opening may change, and
\* not past the first of them.
MayOpen(p, form) ==
    /\ Of(ops, p) # {} => /\ form.quantity = opening[p].quantity
                          /\ form.price = opening[p].price
    /\ form.date # Undated => \A o \in Of(ops, p) : form.date =< ops[o].date

\* The form is checked first and the asset saved after, in a transaction of
\* its own that checks nothing again.
CheckOpening(p, form) ==
    /\ request = None
    /\ form # opening[p] /\ MayOpen(p, form)
    /\ request' = [of |-> "opening", id |-> p, seen |-> form, gone |-> FALSE]
    /\ UNCHANGED <<ops, opening, banking, market, issued>>

SaveOpening ==
    /\ request # None /\ request.of = "opening"
    /\ opening' = [opening EXCEPT ![request.id] = request.seen]
    /\ request' = None
    /\ UNCHANGED <<ops, banking, market, issued>>

SetRate(form) ==
    /\ rates' = [rates EXCEPT ![<<form.from, form.to>>][form.date] = form.rate]
    /\ UNCHANGED <<ops, opening, banking, base, request, issued>>

DeleteRate(from, to, date) ==
    /\ rates[<<from, to>>][date] # None
    /\ rates' = [rates EXCEPT ![<<from, to>>][date] = None]
    /\ UNCHANGED <<ops, opening, banking, base, request, issued>>

ChangeBase(c) ==
    /\ c # base
    /\ base' = c
    /\ UNCHANGED <<ops, opening, banking, rates, request, issued>>

-----------------------------------------------------------------------------

\* The save of the row in flight, whatever happened since it was loaded.
Resume ==
    /\ request # None
    /\ ~request.gone
    /\ \/ /\ InFlight("operation")
          /\ \/ \E form \in OperationForms : EditOperation(request.id, request.seen, form)
             \/ DeleteOperation(request.id, request.seen)
       \/ /\ InFlight("entry")
          /\ \/ \E form \in EntryForms : EditEntry(request.id, request.seen, form)
             \/ DeleteEntry(request.id, request.seen)
    /\ request' = None

Submit ==
    /\ \/ \E form \in OperationForms : RecordOperation(form)
       \/ \E o \in Live(ops), form \in OperationForms : EditOperation(o, ops[o], form)
       \/ \E o \in Live(ops) : DeleteOperation(o, ops[o])
       \/ \E form \in EntryForms : AddEntry(form)
       \/ \E e \in HandEntries, form \in EntryForms : EditEntry(e, entries[e], form)
       \/ \E e \in HandEntries : DeleteEntry(e, entries[e])
       \/ \E r \in Live(redemptions) \union {NextRedemption}, form \in RedemptionForms :
             r \in RedemptionIds /\ SaveRedemption(r, form)
    /\ AtOnce

HoldingsNext ==
    \/ Submit \/ Resume \/ SaveOpening
    \/ \E o \in Live(ops) : Loads("operation", o, ops[o])
    \/ \E e \in HandEntries : Loads("entry", e, entries[e])
    \/ \E p \in Pairs : \E form \in Openings[p] : CheckOpening(p, form)
    \/ \E form \in RateForms : SetRate(form)
    \/ \E form \in RateForms : DeleteRate(form.from, form.to, form.date)
    \/ \E c \in Currencies : ChangeBase(c)

HoldingsSpec == HoldingsInit /\ [][HoldingsNext]_holdingVars

-----------------------------------------------------------------------------
(* Properties.                                                             *)

\* The state is well formed: an operation always has a positive amount, a
\* movement a positive one, and its rate evidence has one rate or says none.
HoldingsTypeOK ==
    /\ ops \in [OpIds -> Operation \union {None}]
    /\ opening \in [Pairs -> Opening \union {NoOpening}]
    /\ movements \in [Keys -> Movement \union {None}]
    /\ entries \in [EntryIds -> PointsEntry \union {None}]
    /\ redemptions \in [RedemptionIds -> Redemption \union {None}]
    /\ rates \in [Currencies \X Currencies -> [Dates -> Nat \union {None}]]
    /\ base \in Currencies
    /\ issued \in [op : OpIds \union {0}, entry : EntryIds \union {0}]
    /\ \A o \in Live(ops) : ops[o].fx.captured <=> ops[o].fx.rate # None

\* The save in flight is over a row another tab changed since.
Stale ==
    \/ InFlight("operation") /\ ops[request.id] # request.seen
    \/ InFlight("entry") /\ entries[request.id] # request.seen
Resumes == request # None /\ request' = None

\* A position that is never sold short stays so: replaying the operations in
\* date order, whichever of them is recorded, edited, moved or deleted, never
\* finds a sale of more than was held.  Only a deletion whose row moved to
\* another position meanwhile, and an opening checked before the asset had
\* the operations it has when it is saved, escape (views/operations.py:247,
\* forms/setup.py:257).
PositionsStayCovered ==
    [][\A p \in Pairs :
          Covered(ops, opening[p], p) =>
             \/ Covered(ops', opening'[p], p)
             \/ Resumes /\ InFlight("opening") /\ ~MayOpen(p, request.seen)
             \/ Resumes /\ Stale /\ InFlight("operation") /\ p # request.seen.pair]_holdingVars

\* The parts a cost was paid in add up to the cost that is left, nothing is
\* left of a position that was sold out, and what was paid and not received
\* back is either cost that is left or a loss (positions.py, replay).
CostIsExplained ==
    \A p \in Pairs, d \in Dates :
       LET row == Replay(ops, opening[p], p, d)
       IN  Covered(ops, opening[p], p) =>
              /\ row.cost = SumOver(DOMAIN row.parts, row.parts)
              /\ row.cost - row.gain = row.over * Invested(ops, opening[p], p, d)
              /\ row.quantity >= 0 /\ row.cost >= 0 /\ row.over > 0
              /\ row.quantity = 0 => row.cost = 0

\* Every operation, bought entry and conversion has the bank side it says it
\* has, of its own amount (services.py, sync_investment_ledger "Create or
\* replace exactly the banking side owned by an operation").
BankSideIsBacked ==
    /\ \A o \in Live(ops) : WantsMovement(ops[o]) =>
          movements[<<"operation", o>>] = [debit |-> ops[o].kind = "DEPOSIT", amount |-> ops[o].cash]
    /\ \A e \in Live(entries) : entries[e].purchase =>
          movements[<<"purchase", e>>] = [debit |-> TRUE, amount |-> entries[e].cash]
    /\ \A r \in Live(redemptions) :
          LET red == redemptions[r]
          IN  /\ entries[red.entry] = Debit(red.program, red.points)
              /\ movements[<<"reward", r>>] = [debit |-> FALSE, amount |-> red.target]
              /\ red.by = "account" => movements[<<"iof", r>>] = [debit |-> TRUE, amount |-> red.iof]

Accounted(k) ==
    \/ k[1] = "operation" /\ ops[k[2]] # None /\ WantsMovement(ops[k[2]])
    \/ k[1] = "purchase" /\ entries[k[2]] # None /\ entries[k[2]].purchase
    \/ k[1] = "reward" /\ redemptions[k[2]] # None
    \/ k[1] = "iof" /\ redemptions[k[2]] # None /\ redemptions[k[2]].by = "account"
Strays == {k \in Live(movements) : ~Accounted(k)}

\* An entry an operation owned, turned into a purchase by hand.
Bought(e) == \E o \in Live(ops) : ops[o].entry = e /\ entries[e].purchase

\* No movement outlives what it was made for, unless the save came over a row
\* that another tab had changed, or an operation dropped its own entry after a
\* hand edit made a purchase of it (views/loyalty.py:195).
NothingIsLeftBehind ==
    [][\A k \in Strays' \ Strays :
          \/ Resumes /\ Stale
          \/ k[1] = "purchase" /\ Bought(k[2])]_holdingVars

\* Every bank side there should be is there, and no other is left behind.
BankSideHolds == []BankSideIsBacked /\ NothingIsLeftBehind

\* The entries operations and conversions own and that still take points.
SpendsOwn(o) == ops[o] # None /\ ops[o].entry # None /\ entries[ops[o].entry].credit

\* A programme goes below what it holds only by hand: an operation or a
\* conversion that takes points never takes more than there are ("The program
\* does not have enough points"), unless the operation's own entry had been
\* made a credit by hand, which services.py:184 counts twice.
PointsAreHeld ==
    [][\A p \in Programs :
          Balance(entries', p) < 0 /\ Balance(entries', p) < Balance(entries, p) =>
             \/ /\ redemptions' = redemptions
                /\ \A o \in OpIds : ops'[o] # None =>
                      /\ ops[o] # None
                      /\ ops'[o].program = ops[o].program /\ ops'[o].points = ops[o].points
             \/ \E o \in OpIds : SpendsOwn(o) /\ ops'[o] # ops[o]]_holdingVars

\* The step keeps the rate evidence of every operation whose figures it keeps.
KeepsEvidence(o) ==
    /\ ops[o] # None /\ ops'[o] # None
    /\ ops[o].fx.rate # None
    /\ Figures(ops'[o]) = Figures(ops[o])
    /\ ~(Resumes /\ Stale)
    => ops'[o].fx = ops[o].fx

\* What an operation was worth stays: neither a rate declared later, nor a new
\* reporting currency, nor an edit of its source, its cash or its notes
\* changes the rate it was recorded at (docs/apps/investments.md "Descriptive
\* edits retain the snapshot").  A yield declared by its ending balance is
\* looked up again whatever the edit.
HistoryKeepsItsRate ==
    [][\A o \in OpIds :
          \/ KeepsEvidence(o)
          \/ ops'[o].kind = "YIELD" /\ ~IsUnits(ops'[o].pair)]_holdingVars

\* The same of every operation, as the documentation says it.
DescriptiveEditsKeepEvidence == [][\A o \in OpIds : KeepsEvidence(o)]_holdingVars
=============================================================================
