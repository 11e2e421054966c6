------------------------------- MODULE Ledger -------------------------------
(***************************************************************************)
(* The ledger of one user: purchases, invoice credits and confirmed        *)
(* payments are its sources; card invoices and bank movements are derived  *)
(* from them by sync_user_ledger (transactions/services.py), and           *)
(* settled by banking/settlements.py and banking/credits.py.               *)
(*                                                                         *)
(* Simplifications, besides those of Calendar and Occurrences:             *)
(*  - The database runs every atomic block as one serialized writer        *)
(*    (core/settings.py, transaction_mode IMMEDIATE), so a request's       *)
(*    source change and the reconciliation it calls are one action.        *)
(*  - All accounts share a currency, and rows belong to the one user.      *)
(*  - Titles, categories, notes and a movement's direction and kind, which *)
(*    follow from its source, are left out.  A loyalty purchase on a card  *)
(*    is an item with a single occurrence.                                 *)
(*  - The unique keys of credits and payments stand for their rows: a form *)
(*    posted again finds its key taken and saves nothing new.              *)
(*  - The 1200-occurrence limit is taken as never reached.                 *)
(***************************************************************************)
EXTENDS Occurrences

CONSTANTS CardIds, Accounts,
          AccountOf,     \* the account a card is paid from; fixed once used
          OpeningOf,     \* the opening date of an account, or None
          ItemIds, CreditKeys, PaymentKeys,
          None           \* the absence of a row or of a value

\* What the users of this ledger may submit, and the bounds of the exploration.
CONSTANTS ItemInputs, SettingInputs, CreditInputs, PaymentInputs,
          FirstDay, LastDay

InvoiceKeys == CardIds \X Months

Statuses == {"SCHEDULED", "PARTIAL", "OVERDUE", "PAID"}

Item == ItemOf(CardIds \union Accounts)
Setting == [closing : 1 .. 31, due : 1 .. 31, manualFrom : Date \union {None}]
Credit == [card : CardIds, month : Months, amount : Nat \ {0}, date : Date]
Payment == [invoice : InvoiceKeys, account : Accounts, amount : Nat \ {0}, date : Date]
Invoice == [amount : Nat, due : Date, status : Statuses, manual : BOOLEAN,
            paidAt : Date \union {None}]
Movement == [account : Accounts, amount : Nat \ {0}, date : Date]

ASSUME LedgerAssumption ==
    /\ AccountOf \in [CardIds -> Accounts]
    /\ CardIds \intersect Accounts = {}
    /\ NoCard \notin Setting
ASSUME InputAssumption ==
    /\ ItemInputs \subseteq Item /\ SettingInputs \subseteq Setting
    /\ CreditInputs \subseteq Credit /\ PaymentInputs \subseteq Payment
ASSUME AbsenceAssumption ==
    /\ None \notin Item /\ None \notin Credit /\ None \notin Payment
    /\ None \notin Invoice /\ None \notin Movement /\ None \notin Date

\* A table holds finitely many rows, and the calendar ends (date.max).
ASSUME RowsAssumption ==
    /\ IsFiniteSet(CardIds) /\ IsFiniteSet(Months)
    /\ IsFiniteSet(ItemIds) /\ IsFiniteSet(CreditKeys) /\ IsFiniteSet(PaymentKeys)

\* The calendar reaches one month beyond the last horizon of the exploration.
ASSUME DaysAssumption ==
    /\ FirstDay \in Date /\ LastDay \in Date /\ NotAfter(FirstDay, LastDay)
    /\ LastDay.month + ProjectionMonths + 1 \in Months

VARIABLES
    today,         \* timezone.localdate()
    cards,         \* settings of each card: closing, due, manualFrom
    items,         \* Transaction rows
    credits,       \* CardInvoiceCredit rows
    payments,      \* InvoicePayment rows
    invoices,      \* CardInvoice rows, unique per card and month
    itemMoves,     \* BankMovement rows keyed transaction:<pk>:<month>
    invoiceMoves,  \* BankMovement rows keyed invoice:<pk>
    paymentMoves,  \* BankMovement rows keyed invoice-payment:<pk>
    syncedOn       \* history: the day of the last reconciliation

sourceVars == <<cards, items, credits>>
moveVars == <<itemMoves, invoiceMoves, paymentMoves>>
vars == <<today, cards, items, credits, payments, invoices, itemMoves,
          invoiceMoves, paymentMoves, syncedOn>>

Sources == [cards |-> cards, items |-> items, credits |-> credits]
-----------------------------------------------------------------------------
(* Sums over the sources of one statement.                                 *)

CardItems(s, c) == {i \in ItemIds : s.items[i] # None /\ s.items[i].instrument = c}

ItemAmount(s, i, c, m) == AmountForMonth(s.items[i], s.cards[c], m)

\* Mutant of Billed: the month of the horizon itself is left out.
BilledBeforeHorizon(s, c, m, horizon) ==
    {i \in CardItems(s, c) : /\ m \in OccurrenceMonths(s.items[i], s.cards[c], horizon)
                             /\ m < horizon.month
                             /\ ItemAmount(s, i, c, m) # 0}

Billed(s, c, m, horizon) ==
    {i \in CardItems(s, c) : /\ m \in OccurrenceMonths(s.items[i], s.cards[c], horizon)
                             /\ ItemAmount(s, i, c, m) # 0}

SumItems(s, ids, c, m) == SumFunction([i \in ids |-> ItemAmount(s, i, c, m)])

\* CardInvoice.gross_amount: every source of the statement, horizon or not.
Gross(s, c, m) == SumItems(s, CardItems(s, c), c, m)

CreditsOf(s, c, m) ==
    {k \in CreditKeys : s.credits[k] # None /\ s.credits[k].card = c /\ s.credits[k].month = m}

SumCredits(s, keys) == SumFunction([k \in keys |-> s.credits[k].amount])

CreditTotal(s, c, m) == SumCredits(s, CreditsOf(s, c, m))
CreditsPostedBy(s, c, m, date) ==
    SumCredits(s, {k \in CreditsOf(s, c, m) : NotAfter(s.credits[k].date, date)})

PaymentsOf(rows, key) == {k \in PaymentKeys : rows[k] # None /\ rows[k].invoice = key}
SumPayments(rows, keys) == SumFunction([k \in keys |-> rows[k].amount])
-----------------------------------------------------------------------------
(* banking/settlements.py                                                  *)

\* Mutant of AsksConfirmation: the invoice's own mode is forgotten.
AsksConfirmationByDate(card, invoice) ==
    card.manualFrom # None /\ NotAfter(card.manualFrom, invoice.due)

\* Manual confirmation is asked for from a due date on, and then sticks.
AsksConfirmation(card, invoice) ==
    \/ invoice.manual
    \/ card.manualFrom # None /\ NotAfter(card.manualFrom, invoice.due)

\* invoice_projection: the settlement fields an invoice gets at a cutoff, given
\* its payment rows and the statement amount that counts at that cutoff.
Settled(invoice, key, card, rows, statement, cutoff) ==
    LET confirmed == {k \in PaymentsOf(rows, key) : NotAfter(rows[k].date, cutoff)}
        paid == SumPayments(rows, confirmed)
        covered == statement =< paid /\ (confirmed # {} \/ statement = 0)
        manualStatus == IF covered THEN "PAID"
                        ELSE IF paid > 0 THEN "PARTIAL"
                        ELSE IF Before(invoice.due, cutoff) THEN "OVERDUE"
                        ELSE "SCHEDULED"
    IN  IF ~AsksConfirmation(card, invoice)
        THEN [invoice EXCEPT
                !.status = IF NotAfter(invoice.due, cutoff) THEN "PAID" ELSE "SCHEDULED",
                !.manual = FALSE]
        ELSE [invoice EXCEPT
                !.status = manualStatus,
                !.manual = TRUE,
                !.paidAt = IF covered /\ confirmed # {}
                           THEN Latest({rows[k].date : k \in confirmed}) ELSE None]

\* Mutant of StatementAmountAt: a forecast credit already counts.
StatementAmountWithForecasts(s, invoice, key, cutoff) == invoice.amount

\* _statement_amount_at: credits dated later are forecasts, not yet settlement.
StatementAmountAt(s, invoice, key, cutoff) ==
    LET future == {k \in CreditsOf(s, key[1], key[2]) : Before(cutoff, s.credits[k].date)}
    IN  IF future = {} THEN invoice.amount
        ELSE Positive(Gross(s, key[1], key[2]) - CreditsPostedBy(s, key[1], key[2], cutoff))

\* Mutant of Refreshed: settled against the stored amount.
RefreshedOnStoredAmount(key, rows) ==
    Settled(invoices[key], key, cards[key[1]], rows, invoices[key].amount, today)

\* _refresh: settle one invoice again after a payment changed.
Refreshed(key, rows) ==
    Settled(invoices[key], key, cards[key[1]], rows,
            StatementAmountAt(Sources, invoices[key], key, today), today)
-----------------------------------------------------------------------------
(* _sync_user_ledger, for given sources and the payments as they stand.    *)

\* A statement is computed when something bills it within the horizon, and
\* when confirmed payments keep it whatever became of its sources.
IsComputed(s, key) ==
    LET horizon == Horizon(today)
    IN  \/ Billed(s, key[1], key[2], horizon) # {}
        \/ CreditsOf(s, key[1], key[2]) # {} /\ key[2] =< horizon.month

\* Mutant of IsKept: payments do not keep an invoice.
NotKept(key) == FALSE

IsKept(key) == invoices[key] # None /\ PaymentsOf(payments, key) # {}

ComputedAmount(s, key) ==
    IF IsComputed(s, key)
    THEN SumItems(s, Billed(s, key[1], key[2], Horizon(today)), key[1], key[2])
    ELSE Gross(s, key[1], key[2])

SyncedInvoice(s, key) ==
    LET c == key[1]  m == key[2]
        gross == ComputedAmount(s, key)
        old == invoices[key]
        drawn == [amount |-> Positive(gross - CreditTotal(s, c, m)),
                  due |-> DueDate(s.cards[c], m),
                  status |-> "SCHEDULED",
                  manual |-> old # None /\ old.manual,
                  paidAt |-> IF old = None THEN None ELSE old.paidAt]
        settled == Settled(drawn, key, s.cards[c], payments,
                           Positive(gross - CreditsPostedBy(s, c, m, today)), today)
    IN  IF IsComputed(s, key) \/ IsKept(key) THEN settled ELSE None

\* Mutant of AutomaticDebit: every credit reduces the debit.
DebitLessAllCredits(s, key, due) ==
    Positive(ComputedAmount(s, key) - CreditTotal(s, key[1], key[2]))

\* A credit posted after the due date cannot reduce the debit of that date.
AutomaticDebit(s, key, due) ==
    Positive(ComputedAmount(s, key) - CreditsPostedBy(s, key[1], key[2], due))

\* The projected debit of an automatic invoice, on its due date.
SyncedInvoiceMove(s, key, invoice) ==
    LET debit == AutomaticDebit(s, key, invoice.due)
    IN  IF invoice # None /\ ~invoice.manual /\ debit > 0
        THEN [account |-> AccountOf[key[1]], amount |-> debit, date |-> invoice.due]
        ELSE None

\* The account movement of one occurrence of an account or debit card item.
SyncedItemMove(s, i, m) ==
    LET item == s.items[i]
        horizon == Horizon(today)
        occurs == IF item.fixed THEN m \in OccurrenceMonths(item, NoCard, horizon)
                  ELSE m = item.date.month
        amount == AmountForMonth(item, NoCard, m)
        effective == IF item.fixed THEN EffectiveDate(item, m) ELSE item.date
        moves == occurs /\ amount # 0 /\ NotAfter(effective, horizon)
    IN  IF item # None /\ item.instrument \notin CardIds /\ moves
        THEN [account |-> item.instrument, amount |-> amount, date |-> effective]
        ELSE None

\* The reconciliation a request runs in its own transaction, on the sources it
\* has just written.  Everything derived is recomputed; stale rows go.
Reconcile(s) ==
    /\ invoices' = [key \in InvoiceKeys |-> SyncedInvoice(s, key)]
    /\ invoiceMoves' = [key \in InvoiceKeys |-> SyncedInvoiceMove(s, key, invoices'[key])]
    /\ itemMoves' = [key \in ItemIds \X Months |-> SyncedItemMove(s, key[1], key[2])]
    /\ syncedOn' = today
-----------------------------------------------------------------------------
(* The requests.                                                           *)

PredatesOpening(account, date) ==
    OpeningOf[account] # None /\ Before(date, OpeningOf[account])

Init ==
    /\ today = FirstDay
    /\ cards \in [CardIds -> {settings \in SettingInputs : settings.manualFrom = None}]
    /\ items = [i \in ItemIds |-> None]
    /\ credits = [k \in CreditKeys |-> None]
    /\ payments = [k \in PaymentKeys |-> None]
    /\ invoices = [key \in InvoiceKeys |-> None]
    /\ itemMoves = [key \in ItemIds \X Months |-> None]
    /\ invoiceMoves = [key \in InvoiceKeys |-> None]
    /\ paymentMoves = [k \in PaymentKeys |-> None]
    /\ syncedOn = FirstDay

\* Create or edit a transaction (TransactionFormMixin.save_with_ledger).
SaveItem(i, item) ==
    LET onCard == item.instrument \in CardIds
        account == IF onCard THEN AccountOf[item.instrument] ELSE item.instrument
    IN  /\ items[i] # item
        /\ WellFormed(item, IF onCard THEN cards[item.instrument] ELSE NoCard)
        /\ ~PredatesOpening(account, item.date)
        /\ items' = [items EXCEPT ![i] = item]
        /\ UNCHANGED <<today, cards, credits, payments, paymentMoves>>
        /\ Reconcile(Sources')

\* TransactionDeleteView.form_valid.
DeleteItem(i) ==
    /\ items[i] # None
    /\ items' = [items EXCEPT ![i] = None]
    /\ UNCHANGED <<today, cards, credits, payments, paymentMoves>>
    /\ Reconcile(Sources')

\* Mutant of AcceptsConfirmationFrom: any date is accepted.
AcceptsAnyConfirmationFrom(c, from) == TRUE

\* clean_manual_settlement_from: a new confirmation date is not in the past.
AcceptsConfirmationFrom(c, from) ==
    from \notin {None, cards[c].manualFrom} => NotAfter(today, from)

\* The card form.
SaveCard(c, settings) ==
    /\ cards[c] # settings
    /\ AcceptsConfirmationFrom(c, settings.manualFrom)
    /\ cards' = [cards EXCEPT ![c] = settings]
    /\ UNCHANGED <<today, items, credits, payments, paymentMoves>>
    /\ Reconcile(Sources')

\* save_invoice_credit: created from the page of an invoice that exists, later
\* edited without moving to another one.
SaveCredit(k, credit) ==
    LET key == <<credit.card, credit.month>>
    IN  /\ IF credits[k] = None THEN invoices[key] # None
           ELSE <<credits[k].card, credits[k].month>> = key
        /\ credits[k] # credit
        /\ ~PredatesOpening(AccountOf[credit.card], credit.date)
        /\ credits' = [credits EXCEPT ![k] = credit]
        /\ UNCHANGED <<today, cards, items, payments, paymentMoves>>
        /\ Reconcile(Sources')

DeleteCredit(k) ==
    /\ credits[k] # None
    /\ credits' = [credits EXCEPT ![k] = None]
    /\ UNCHANGED <<today, cards, items, payments, paymentMoves>>
    /\ Reconcile(Sources')

\* Opening a page that reconciles first, and repeating a credit already saved.
OpenPage ==
    /\ UNCHANGED <<today, sourceVars, payments, paymentMoves>>
    /\ Reconcile(Sources)

\* Mutant of FitsBill: the other payments of the invoice are not counted.
FitsBillAlone(k, payment) ==
    payment.amount =< StatementAmountAt(Sources, invoices[payment.invoice],
                                        payment.invoice, today)

FitsBill(k, payment) ==
    SumPayments(payments, PaymentsOf(payments, payment.invoice) \ {k}) + payment.amount
      =< StatementAmountAt(Sources, invoices[payment.invoice], payment.invoice, today)

\* save_invoice_payment, which does not reconcile: it settles its invoice only.
SavePayment(k, payment) ==
    LET key == payment.invoice
        rows == [payments EXCEPT ![k] = payment]
    IN  /\ payments[k] # None => payments[k].invoice = key
        /\ invoices[key] # None
        /\ invoices[key].manual
        /\ NotAfter(payment.date, today)
        /\ ~PredatesOpening(payment.account, payment.date)
        /\ FitsBill(k, payment)
        /\ payments' = rows
        /\ paymentMoves' = [paymentMoves EXCEPT ![k] =
               [account |-> payment.account, amount |-> payment.amount, date |-> payment.date]]
        /\ invoices' = [invoices EXCEPT ![key] = Refreshed(key, rows)]
        /\ UNCHANGED <<today, sourceVars, itemMoves, invoiceMoves, syncedOn>>

DeletePayment(k) ==
    LET key == payments[k].invoice
        rows == [payments EXCEPT ![k] = None]
    IN  /\ payments[k] # None
        /\ payments' = rows
        /\ paymentMoves' = [paymentMoves EXCEPT ![k] = None]
        /\ invoices' = [invoices EXCEPT ![key] = Refreshed(key, rows)]
        /\ UNCHANGED <<today, sourceVars, itemMoves, invoiceMoves, syncedOn>>

\* Midnight.  Nothing is recomputed until the next request.
NewDay ==
    /\ Before(today, LastDay)
    /\ today' = NextDay(today)
    /\ UNCHANGED <<sourceVars, payments, invoices, moveVars, syncedOn>>

Next ==
    \/ \E i \in ItemIds : (\E item \in ItemInputs : SaveItem(i, item)) \/ DeleteItem(i)
    \/ \E c \in CardIds, settings \in SettingInputs : SaveCard(c, settings)
    \/ \E k \in CreditKeys :
          (\E credit \in CreditInputs : SaveCredit(k, credit)) \/ DeleteCredit(k)
    \/ \E k \in PaymentKeys :
          (\E payment \in PaymentInputs : SavePayment(k, payment)) \/ DeletePayment(k)
    \/ OpenPage
    \/ NewDay

Spec == Init /\ [][Next]_vars
-----------------------------------------------------------------------------
(* Properties.                                                             *)

SourcesOK ==
    /\ today \in Date /\ syncedOn \in Date
    /\ cards \in [CardIds -> SettingInputs]
    /\ items \in [ItemIds -> ItemInputs \union {None}]
    /\ credits \in [CreditKeys -> CreditInputs \union {None}]
    /\ payments \in [PaymentKeys -> PaymentInputs \union {None}]

DerivedOK ==
    /\ invoices \in [InvoiceKeys -> Invoice \union {None}]
    /\ itemMoves \in [ItemIds \X Months -> Movement \union {None}]
    /\ invoiceMoves \in [InvoiceKeys -> Movement \union {None}]
    /\ paymentMoves \in [PaymentKeys -> Movement \union {None}]

\* The rows a ledger holds are rows its users entered or the code derives:
\* no amount is negative, no movement is of nothing, every date exists.
TypeOK == SourcesOK /\ DerivedOK

\* No statement is settled twice: the projected debit of the automatic mode
\* and confirmed payments never stand side by side for one invoice, nor does
\* a debit outlive its invoice or its automatic mode.
NoDoubleSettlement ==
    \A key \in InvoiceKeys :
        invoiceMoves[key] # None =>
            /\ invoices[key] # None
            /\ ~invoices[key].manual
            /\ PaymentsOf(payments, key) = {}

\* Confirmed cash evidence survives every edit, deletion and reconciliation:
\* a payment keeps its invoice, in manual mode, and exactly one movement that
\* says what the payment says.
PaymentsAreBacked ==
    \A k \in PaymentKeys :
        IF payments[k] = None THEN paymentMoves[k] = None
        ELSE /\ invoices[payments[k].invoice] # None
             /\ invoices[payments[k].invoice].manual
             /\ paymentMoves[k] = [account |-> payments[k].account,
                                   amount |-> payments[k].amount,
                                   date |-> payments[k].date]

\* A statement is settled in one way, and by money that moved.
SettlementIsSound == NoDoubleSettlement /\ PaymentsAreBacked

Fresh == syncedOn = today

\* Reconciling again on the same day changes nothing, although payments are
\* confirmed, edited and deleted without reconciling: the two code paths that
\* settle an invoice agree.  The one thing left to clean up is an invoice
\* without sources that only its deleted payments were keeping.
ReconcileIsIdempotent ==
    Fresh =>
        /\ \A key \in InvoiceKeys :
              \/ invoices[key] = SyncedInvoice(Sources, key)
              \/ ~IsComputed(Sources, key) /\ ~IsKept(key)
        /\ invoiceMoves =
              [key \in InvoiceKeys |-> SyncedInvoiceMove(Sources, key, invoices[key])]
        /\ itemMoves = [key \in ItemIds \X Months |-> SyncedItemMove(Sources, key[1], key[2])]

CreditBalance(key) ==
    Positive(CreditTotal(Sources, key[1], key[2]) - Gross(Sources, key[1], key[2]))

\* Every purchase reaches the statements once: for each card, what its invoices
\* up to the horizon ask for, with the credit balances they could not use up,
\* is what its items amount to by then less the credits given.
NothingUnbilled ==
    Fresh => \A c \in CardIds :
        LET last == Horizon(today).month
            within == {m \in Months : m =< last}
            issued == {m \in within : invoices[<<c, m>>] # None}
        IN  SumFunction([m \in issued |-> invoices[<<c, m>>].amount])
              - SumFunction([m \in within |-> CreditBalance(<<c, m>>)])
            = SumFunction([i \in CardItems(Sources, c) |->
                              AmountThroughMonth(items[i], cards[c], last)])
              - SumFunction([m \in within |-> CreditTotal(Sources, c, m)])

\* A manual invoice never shows as paid while money is owed on it today: a
\* credit dated in the future is a forecast and does not settle anything.
PaidMeansCovered ==
    Fresh => \A key \in InvoiceKeys :
        LET paid == SumPayments(payments, PaymentsOf(payments, key))
            bill == Gross(Sources, key[1], key[2])
                      - CreditsPostedBy(Sources, key[1], key[2], today)
        IN  invoices[key] # None /\ invoices[key].manual /\ invoices[key].status = "PAID"
              => paid >= bill

\* Statements are whole: nothing bought is left out, nothing owed shows as paid.
StatementsAreWhole == NothingUnbilled /\ PaidMeansCovered

\* Once an invoice asks for confirmation it does so for as long as it exists,
\* even when the card's confirmation date is moved or cleared.
ManualIsSticky ==
    [][\A key \in InvoiceKeys :
          invoices[key] # None /\ invoices[key].manual /\ invoices'[key] # None
              => invoices'[key].manual]_vars

\* A confirmed or corrected payment never takes an invoice beyond its bill,
\* computed from the sources and not from the stored amount.
PaymentWithinBill ==
    [][\A k \in PaymentKeys :
          payments'[k] \notin {payments[k], None} =>
              LET key == payments'[k].invoice
              IN  SumPayments(payments', PaymentsOf(payments', key))
                    =< Positive(Gross(Sources, key[1], key[2])
                                - CreditsPostedBy(Sources, key[1], key[2], today))]_vars

\* A credit dated after the due date of an automatic invoice, added, changed or
\* removed, leaves the debit made on that date as it was.
LateCreditKeepsDebit ==
    [][\A k \in CreditKeys, key \in InvoiceKeys :
          LET late(row) == row = None \/ Before(invoices[key].due, row.date)
          IN  /\ Fresh /\ credits'[k] # credits[k]
              /\ invoices[key] # None /\ invoiceMoves[key] # None
              /\ late(credits[k]) /\ late(credits'[k])
              => invoiceMoves'[key] = invoiceMoves[key]]_vars

\* Asking for confirmation from a date on, or no longer asking, rewrites no
\* debit of an earlier day.
HistoricalDebitsKept ==
    [][\A key \in InvoiceKeys :
          LET debit == invoiceMoves[key]
              sameDays == \A c \in CardIds : /\ cards'[c].closing = cards[c].closing
                                             /\ cards'[c].due = cards[c].due
          IN  Fresh /\ cards' # cards /\ sameDays /\ debit # None /\ Before(debit.date, today)
              => invoiceMoves'[key] = debit]_vars

\* What has been settled stands: no step of any request takes a confirmation
\* back, pays an invoice beyond its bill, or rewrites a debit already made.
HistoryStands ==
    /\ ManualIsSticky
    /\ PaymentWithinBill
    /\ LateCreditKeepsDebit
    /\ HistoricalDebitsKept
=============================================================================
