---------------------------- MODULE LedgerProofs ----------------------------
(***************************************************************************)
(* What TLAPS proves about Ledger for any cards, accounts, inputs, numbers *)
(* of rows and month lengths.                                              *)
(***************************************************************************)
EXTENDS Commitments, Sums

LEMMA MonthsAreNaturals ==
    /\ Months \subseteq Nat /\ DaysIn \in [Months -> Nat \ {0}] /\ ProjectionMonths \in Nat
    /\ \A m \in Months, n \in Nat : n =< m => n \in Months
  BY CalendarAssumption, ProjectionAssumption, ContiguousAssumption

LEMMA DateIsRecord ==
    \A d : d \in Date <=>
        \E m \in Months : \E k \in 1 .. DaysIn[m] : d = [month |-> m, day |-> k]
  <1>1. ASSUME NEW d \in Date
        PROVE  \E m \in Months : \E k \in 1 .. DaysIn[m] : d = [month |-> m, day |-> k]
    <2>1. PICK m \in Months : d \in [month : {m}, day : 1 .. DaysIn[m]]
      BY DEF Date, DatesIn
    <2>. QED BY <2>1
  <1>2. ASSUME NEW m \in Months, NEW k \in 1 .. DaysIn[m]
        PROVE  [month |-> m, day |-> k] \in Date
    BY DEF Date, DatesIn
  <1>. QED BY <1>1, <1>2

LEMMA DateFields ==
  ASSUME NEW d \in Date
  PROVE  /\ d.month \in Months /\ d.month \in Nat
         /\ d.day \in 1 .. DaysIn[d.month] /\ d.day \in Nat
         /\ DaysIn[d.month] \in Nat \ {0}
         /\ d = [month |-> d.month, day |-> d.day]
  BY DateIsRecord, MonthsAreNaturals

LEMMA ClampedIsDate ==
  ASSUME NEW m \in Months, NEW day \in Nat \ {0}
  PROVE  Clamped(m, day) \in Date /\ Clamped(m, day).month = m
  <1>1. DaysIn[m] \in Nat \ {0}
    BY MonthsAreNaturals
  <1>2. Least(day, DaysIn[m]) \in 1 .. DaysIn[m]
    BY <1>1 DEF Least
  <1>. QED BY <1>2, DateIsRecord DEF Clamped

\* A nonempty set of dates none of which is later than a given one has a latest.
LEMMA LatestIsMember ==
  ASSUME NEW dates \in SUBSET Date, dates # {}, NEW last \in Date,
         \A d \in dates : NotAfter(d, last)
  PROVE  Latest(dates) \in dates
  <1>1. PICK a \in dates : \A b \in dates : b.month =< a.month
    <2>. DEFINE S == {last.month - d.month : d \in dates}
    <2>1. \A d \in dates : last.month - d.month \in Nat
      BY DateFields DEF NotAfter, Before
    <2>2. PICK n \in S : \A k \in S : n =< k
      <3>1. S \in SUBSET Nat /\ S # {}
        BY <2>1
      <3>. QED BY <3>1, NaturalsHaveLeast
    <2>3. PICK d \in dates : n = last.month - d.month
      BY <2>2
    <2>4. \A e \in dates : last.month - d.month =< last.month - e.month
      BY <2>2, <2>3
    <2>5. \A e \in dates : e.month =< d.month
      BY <2>4, DateFields
    <2>. QED BY <2>5
  <1>2. PICK c \in {d \in dates : d.month = a.month} :
              \A b \in {d \in dates : d.month = a.month} : b.day =< c.day
    <2>. DEFINE T == {d \in dates : d.month = a.month}
                S == {DaysIn[a.month] - d.day : d \in T}
    <2>1. \A d \in T : DaysIn[a.month] - d.day \in Nat
      BY DateFields
    <2>2. PICK n \in S : \A k \in S : n =< k
      <3>1. S \in SUBSET Nat /\ S # {}
        BY <2>1
      <3>. QED BY <3>1, NaturalsHaveLeast
    <2>3. PICK d \in T : n = DaysIn[a.month] - d.day
      BY <2>2
    <2>4. \A e \in T : DaysIn[a.month] - d.day =< DaysIn[a.month] - e.day
      BY <2>2, <2>3
    <2>5. \A e \in T : e.day =< d.day
      BY <2>4, DateFields
    <2>. QED BY <2>5
  <1>3. \A b \in dates : NotAfter(b, c)
    <2>1. ASSUME NEW b \in dates PROVE NotAfter(b, c)
      <3>1. CASE b.month < c.month
        BY <3>1 DEF NotAfter, Before
      <3>2. CASE b.month = c.month
        <4>1. b.day =< c.day
          BY <1>2, <3>2
        <4>2. CASE b.day < c.day
          BY <3>2, <4>2 DEF NotAfter, Before
        <4>3. CASE b.day = c.day
          BY <3>2, <4>3, DateFields DEF NotAfter
        <4>. QED BY <4>1, <4>2, <4>3, DateFields
      <3>. QED BY <1>1, <1>2, <3>1, <3>2, DateFields
    <2>. QED BY <2>1
  <1>. QED BY <1>2, <1>3 DEF Latest
-----------------------------------------------------------------------------
(* What the operators of the reconciliation return.                        *)

LEMMA PositiveIsNat ==
  ASSUME NEW n
  PROVE  Positive(n) \in Nat
  BY DEF Positive

LEMMA HorizonIsDate ==
  ASSUME NEW d \in Date, NotAfter(d, LastDay)
  PROVE  /\ Horizon(d) \in Date
         /\ Horizon(d).month \in Nat
         /\ Horizon(d).month =< LastDay.month + ProjectionMonths
  <1>1. d.month =< LastDay.month
    BY DateFields, DaysAssumption DEF NotAfter, Before
  <1>2. d.month + ProjectionMonths \in Months
    <2>1. d.month + ProjectionMonths =< LastDay.month + ProjectionMonths + 1
      BY <1>1, DateFields, DaysAssumption, MonthsAreNaturals
    <2>2. LastDay.month + ProjectionMonths + 1 \in Months
      BY DaysAssumption
    <2>3. d.month + ProjectionMonths \in Nat
      BY DateFields, MonthsAreNaturals
    <2>. QED BY <2>1, <2>2, <2>3, MonthsAreNaturals
  <1>3. Horizon(d) \in Date /\ Horizon(d).month = d.month + ProjectionMonths
    BY <1>2, ClampedIsDate, DateFields DEF Horizon
  <1>. QED BY <1>1, <1>3, DateFields, DaysAssumption, MonthsAreNaturals

LEMMA ItemFields ==
  ASSUME NEW item \in Item
  PROVE  /\ item.instrument \in CardIds \union Accounts
         /\ item.date \in Date /\ item.date.month \in Nat
         /\ item.amount \in Nat /\ item.fixed \in BOOLEAN
         /\ item.installments \in Nat \ {0} /\ item.start \in Nat
         /\ item.override \in {NoOverride, 0, 1}
  <1>1. item.date \in Date
    BY DEF Item, ItemOf
  <1>. QED BY <1>1, DateFields DEF Item, ItemOf

LEMMA BilledMonthIsInteger ==
  ASSUME NEW item \in Item, NEW card
  PROVE  BilledMonth(item, card) \in Int
  <1>1. StatementMonth(card, item.date, item.override) \in Int
    BY ItemFields, OverrideAssumption DEF StatementMonth
  <1>. QED BY <1>1, ItemFields DEF BilledMonth, BillingOffset

\* Occurrences are only projected up to the horizon.
LEMMA OccurrencesStayWithinHorizon ==
  ASSUME NEW item \in Item, NEW card, NEW horizon \in Date, NEW m \in Months,
         m \in OccurrenceMonths(item, card, horizon)
  PROVE  m =< horizon.month
  <1>. DEFINE start == WindowStart(item, card)
              open == Positive(horizon.month - start + 1)
              length == WindowLength(item, card, horizon)
  <1>1. start \in Int
    BY BilledMonthIsInteger, ItemFields DEF WindowStart
  <1>2. open \in Nat
    BY PositiveIsNat
  <1>3. length \in Int /\ length =< open
    <2>. DEFINE bounded ==
            IF item.fixed
            THEN IF item.until = NoMonth THEN open
                 ELSE Least(open, LastFixedOffset(item) + 1)
            ELSE Least(open, IF IsPlan(item)
                             THEN item.installments - (item.start - 1) ELSE 1)
    <2>1. LastFixedOffset(item) \in Nat
      BY PositiveIsNat DEF LastFixedOffset
    <2>2. bounded \in Int /\ bounded =< open
      BY <1>2, <2>1, ItemFields DEF Least
    <2>3. length = bounded \/ length = bounded - 1
      BY DEF WindowLength
    <2>. QED BY <1>2, <2>2, <2>3
  <1>4. m \in start .. (start + length - 1)
    BY DEF OccurrenceMonths
  <1>5. m \in Int /\ horizon.month \in Int
    BY DateFields, MonthsAreNaturals
  <1>6. open = IF horizon.month - start + 1 \in Nat THEN horizon.month - start + 1 ELSE 0
    BY DEF Positive
  <1>. HIDE DEF start, open, length
  <1>. QED BY <1>1, <1>2, <1>3, <1>4, <1>5, <1>6

\* What an account item moves in a month is nothing or its whole amount.
LEMMA AccountAmount ==
  ASSUME NEW item \in Item, NEW m \in Months, ~IsPlan(item)
  PROVE  AmountForMonth(item, NoCard, m) \in {0, item.amount}
  <1>1. BilledMonth(item, NoCard) \in Int /\ m \in Int
    BY BilledMonthIsInteger, MonthsAreNaturals
  <1>. DEFINE offset == m - BilledMonth(item, NoCard)
  <1>2. offset \in Int /\ (offset < 0 \/ offset >= 0)
    BY <1>1
  <1>. HIDE DEF offset
  <1>3. item.fixed \in BOOLEAN
    BY ItemFields
  <1>4. CASE offset < 0
    <2>1. AmountForMonth(item, NoCard, m) = 0
      BY <1>2, <1>4 DEF AmountForMonth, offset
    <2>. QED BY <2>1
  <1>5. CASE offset >= 0 /\ item.fixed
    BY <1>2, <1>5 DEF AmountForMonth, offset
  <1>6. CASE offset >= 0 /\ ~item.fixed
    BY <1>2, <1>6 DEF AmountForMonth, offset
  <1>. QED BY <1>2, <1>3, <1>4, <1>5, <1>6

LEMMA NextDayIsReached ==
  ASSUME NEW d \in Date, Before(d, LastDay)
  PROVE  NextDay(d) \in Date /\ NotAfter(NextDay(d), LastDay)
  <1>1. CASE d.day < DaysIn[d.month]
    <2>1. NextDay(d) = [month |-> d.month, day |-> d.day + 1]
      BY <1>1, DateFields DEF NextDay
    <2>2. NextDay(d) \in Date
      <3>1. d.day + 1 \in 1 .. DaysIn[d.month]
        BY <1>1, DateFields
      <3>. QED BY <2>1, <3>1, DateFields, DateIsRecord
    <2>3. d.month < LastDay.month \/ (d.month = LastDay.month /\ d.day + 1 =< LastDay.day)
      BY DateFields, DaysAssumption DEF Before
    <2>. QED BY <2>1, <2>2, <2>3, DateFields, DaysAssumption DEF NotAfter, Before
  <1>2. CASE ~(d.day < DaysIn[d.month])
    <2>1. NextDay(d) = [month |-> d.month + 1, day |-> 1]
      BY <1>2 DEF NextDay
    <2>2. d.month + 1 =< LastDay.month
      BY <1>2, DateFields, DaysAssumption DEF Before
    <2>3. d.month + 1 \in Months
      BY <2>2, DateFields, DaysAssumption, MonthsAreNaturals
    <2>4. NextDay(d) \in Date
      <3>1. 1 \in 1 .. DaysIn[d.month + 1]
        <4>1. DaysIn[d.month + 1] \in Nat \ {0}
          BY <2>3, MonthsAreNaturals
        <4>. QED BY <4>1
      <3>. QED BY <2>1, <2>3, <3>1, DateIsRecord
    <2>5. d.month + 1 < LastDay.month \/ (d.month + 1 = LastDay.month /\ 1 =< LastDay.day)
      BY <2>2, DateFields, DaysAssumption
    <2>. QED BY <2>1, <2>4, <2>5, DateFields, DaysAssumption DEF NotAfter, Before
  <1>. QED BY <1>1, <1>2

\* Settling keeps an invoice's shape; it never takes the manual mode away.
LEMMA SettledIsInvoice ==
  ASSUME NEW invoice \in Invoice, NEW key, NEW card, NEW statement,
         NEW rows \in [PaymentKeys -> Payment \union {None}],
         NEW cutoff \in Date
  PROVE  /\ Settled(invoice, key, card, rows, statement, cutoff) \in Invoice
         /\ invoice.manual => Settled(invoice, key, card, rows, statement, cutoff).manual
  <1>. DEFINE confirmed == {k \in PaymentsOf(rows, key) : NotAfter(rows[k].date, cutoff)}
              dates == {rows[k].date : k \in confirmed}
  <1>1. \A k \in confirmed : rows[k].date \in Date /\ NotAfter(rows[k].date, cutoff)
    <2>1. \A k \in confirmed : rows[k] \in Payment
      BY DEF PaymentsOf
    <2>. QED BY <2>1 DEF Payment
  <1>2. confirmed # {} => Latest(dates) \in Date
    <2>1. ASSUME confirmed # {} PROVE Latest(dates) \in Date
      <3>1. dates \in SUBSET Date /\ dates # {} /\ \A d \in dates : NotAfter(d, cutoff)
        BY <1>1, <2>1
      <3>. HIDE DEF dates
      <3>2. Latest(dates) \in dates
        BY <3>1, LatestIsMember
      <3>. QED BY <3>1, <3>2
    <2>. QED BY <2>1
  <1>3. ASSUME NEW status \in Statuses, NEW manual \in BOOLEAN, NEW at \in Date \union {None}
        PROVE  /\ [invoice EXCEPT !.status = status, !.manual = manual] \in Invoice
               /\ [invoice EXCEPT !.status = status, !.manual = manual].manual = manual
               /\ [invoice EXCEPT !.status = status, !.manual = manual, !.paidAt = at] \in Invoice
               /\ [invoice EXCEPT !.status = status, !.manual = manual, !.paidAt = at].manual = manual
    BY DEF Invoice
  <1>. DEFINE paid == SumPayments(rows, confirmed)
              covered == statement =< paid /\ (confirmed # {} \/ statement = 0)
              manualStatus == IF covered THEN "PAID"
                              ELSE IF paid > 0 THEN "PARTIAL"
                              ELSE IF Before(invoice.due, cutoff) THEN "OVERDUE"
                              ELSE "SCHEDULED"
              automatic == IF NotAfter(invoice.due, cutoff) THEN "PAID" ELSE "SCHEDULED"
              at == IF covered /\ confirmed # {} THEN Latest(dates) ELSE None
  <1>4. manualStatus \in Statuses /\ automatic \in Statuses
    BY DEF Statuses
  <1>5. at \in Date \union {None}
    BY <1>2
  <1>6. Settled(invoice, key, card, rows, statement, cutoff)
          = IF ~AsksConfirmation(card, invoice)
            THEN [invoice EXCEPT !.status = automatic, !.manual = FALSE]
            ELSE [invoice EXCEPT !.status = manualStatus, !.manual = TRUE, !.paidAt = at]
    BY DEF Settled
  <1>. HIDE DEF at, manualStatus, automatic
  <1>7. CASE AsksConfirmation(card, invoice)
    <2>1. Settled(invoice, key, card, rows, statement, cutoff)
            = [invoice EXCEPT !.status = manualStatus, !.manual = TRUE, !.paidAt = at]
      BY <1>6, <1>7
    <2>2. /\ [invoice EXCEPT !.status = manualStatus, !.manual = TRUE, !.paidAt = at] \in Invoice
          /\ [invoice EXCEPT !.status = manualStatus, !.manual = TRUE, !.paidAt = at].manual = TRUE
      BY <1>3, <1>4, <1>5
    <2>. QED BY <2>1, <2>2
  <1>8. CASE ~AsksConfirmation(card, invoice)
    <2>1. ~invoice.manual
      BY <1>8 DEF AsksConfirmation
    <2>2. Settled(invoice, key, card, rows, statement, cutoff)
            = [invoice EXCEPT !.status = automatic, !.manual = FALSE]
      BY <1>6, <1>8
    <2>3. [invoice EXCEPT !.status = automatic, !.manual = FALSE] \in Invoice
      BY <1>3, <1>4, <1>5
    <2>. QED BY <2>1, <2>2, <2>3
  <1>. QED BY <1>7, <1>8

-----------------------------------------------------------------------------
(* The reconciliation.  Written sources are typed, with plans on cards     *)
(* alone; stored invoices stay within the reach of the calendar.           *)

SourcesTyped(s) ==
    /\ s.cards \in [CardIds -> SettingInputs]
    /\ s.items \in [ItemIds -> ItemInputs \union {None}]
    /\ s.credits \in [CreditKeys -> CreditInputs \union {None}]

SoundItems(rows) ==
    \A i \in ItemIds : rows[i] # None =>
        /\ rows[i].start \in 1 .. rows[i].installments
        /\ IsPlan(rows[i]) => rows[i].instrument \in CardIds /\ ~rows[i].fixed

DaysLived == NotAfter(today, LastDay)
InvoicesWithinReach ==
    \A key \in InvoiceKeys :
        invoices[key] # None => key[2] =< LastDay.month + ProjectionMonths

\* The inductive invariant.
LedgerInv ==
    /\ TypeOK
    /\ DaysLived
    /\ InvoicesWithinReach
    /\ SoundItems(items)
    /\ NoDoubleSettlement
    /\ PaymentsAreBacked

LEMMA ComputedIsWithinReach ==
  ASSUME NEW s, SourcesTyped(s), today \in Date, DaysLived,
         NEW key \in InvoiceKeys, IsComputed(s, key)
  PROVE  key[2] =< LastDay.month + ProjectionMonths
  <1>. DEFINE horizon == Horizon(today)
  <1>1. /\ horizon \in Date /\ horizon.month \in Nat
        /\ horizon.month =< LastDay.month + ProjectionMonths
    BY HorizonIsDate DEF DaysLived
  <1>2. key[2] \in Months /\ key[2] \in Nat
    BY MonthsAreNaturals DEF InvoiceKeys
  <1>3. key[2] =< horizon.month
    <2>. HIDE DEF horizon
    <2>1. CASE Billed(s, key[1], key[2], horizon) # {}
      <3>1. PICK i \in ItemIds : /\ s.items[i] # None
                                 /\ key[2] \in OccurrenceMonths(s.items[i], s.cards[key[1]], horizon)
        BY <2>1 DEF Billed, CardItems
      <3>2. s.items[i] \in Item
        BY <3>1, InputAssumption DEF SourcesTyped
      <3>. QED BY <1>1, <1>2, <3>1, <3>2, OccurrencesStayWithinHorizon
    <2>2. CASE key[2] =< horizon.month
      BY <2>2
    <2>. QED BY <2>1, <2>2 DEF IsComputed, horizon
  <1>. QED BY <1>1, <1>2, <1>3, DaysAssumption, DateFields, MonthsAreNaturals

\* A statement month within reach has a due date.
LEMMA DueDateIsDate ==
  ASSUME NEW card \in Setting, NEW m \in Months, m =< LastDay.month + ProjectionMonths
  PROVE  DueDate(card, m) \in Date
  <1>1. m \in Nat /\ LastDay.month \in Nat /\ ProjectionMonths \in Nat
    BY MonthsAreNaturals, DaysAssumption, DateFields
  <1>2. m + 1 \in Months
    BY <1>1, DaysAssumption, MonthsAreNaturals
  <1>3. card.due \in Nat \ {0}
    BY DEF Setting
  <1>. QED BY <1>2, <1>3, ClampedIsDate DEF DueDate

LEMMA SyncedInvoiceIsInvoice ==
  ASSUME NEW s, SourcesTyped(s), TypeOK, DaysLived, InvoicesWithinReach,
         NEW key \in InvoiceKeys
  PROVE  LET new == SyncedInvoice(s, key)
         IN  /\ new \in Invoice \union {None}
             /\ new # None => key[2] =< LastDay.month + ProjectionMonths
             /\ IsKept(key) => new # None
             /\ new # None /\ invoices[key] # None /\ invoices[key].manual => new.manual
  <1>. DEFINE old == invoices[key]
              gross == ComputedAmount(s, key)
              drawn == [amount |-> Positive(gross - CreditTotal(s, key[1], key[2])),
                        due |-> DueDate(s.cards[key[1]], key[2]),
                        status |-> "SCHEDULED",
                        manual |-> old # None /\ old.manual,
                        paidAt |-> IF old = None THEN None ELSE old.paidAt]
              statement == Positive(gross - CreditsPostedBy(s, key[1], key[2], today))
              settled == Settled(drawn, key, s.cards[key[1]], payments, statement, today)
  <1>1. /\ today \in Date /\ old \in Invoice \union {None}
        /\ payments \in [PaymentKeys -> Payment \union {None}]
    BY InputAssumption DEF TypeOK, SourcesOK, DerivedOK
  <1>2. SyncedInvoice(s, key) = IF IsComputed(s, key) \/ IsKept(key) THEN settled ELSE None
    BY DEF SyncedInvoice
  <1>3. ASSUME IsComputed(s, key) \/ IsKept(key)
        PROVE  /\ key[2] =< LastDay.month + ProjectionMonths
               /\ settled \in Invoice
               /\ old # None /\ old.manual => settled.manual
    <2>1. key[2] =< LastDay.month + ProjectionMonths
      <3>1. CASE IsComputed(s, key)
        BY <1>1, <3>1, ComputedIsWithinReach
      <3>2. CASE IsKept(key)
        BY <3>2 DEF IsKept, InvoicesWithinReach
      <3>. QED BY <1>3, <3>1, <3>2
    <2>2. DueDate(s.cards[key[1]], key[2]) \in Date
      <3>1. s.cards[key[1]] \in Setting /\ key[2] \in Months
        BY InputAssumption DEF SourcesTyped, InvoiceKeys
      <3>. QED BY <2>1, <3>1, DueDateIsDate
    <2>3. /\ Positive(gross - CreditTotal(s, key[1], key[2])) \in Nat
          /\ (old # None /\ old.manual) \in BOOLEAN
          /\ (IF old = None THEN None ELSE old.paidAt) \in Date \union {None}
      <3>1. Positive(gross - CreditTotal(s, key[1], key[2])) \in Nat
        BY PositiveIsNat
      <3>. QED BY <1>1, <3>1 DEF Invoice
    <2>4. drawn \in Invoice /\ drawn.manual = (old # None /\ old.manual)
      BY <2>2, <2>3 DEF Invoice, Statuses
    <2>. HIDE DEF drawn, statement
    <2>5. settled \in Invoice /\ (drawn.manual => settled.manual)
      BY <1>1, <2>4, SettledIsInvoice
    <2>. QED BY <2>1, <2>4, <2>5
  <1>. HIDE DEF settled
  <1>. QED BY <1>2, <1>3, AbsenceAssumption

LEMMA SyncedInvoiceMoveIsMovement ==
  ASSUME NEW s, NEW key \in InvoiceKeys, NEW invoice \in Invoice \union {None}
  PROVE  LET move == SyncedInvoiceMove(s, key, invoice)
         IN  /\ move \in Movement \union {None}
             /\ move # None => invoice # None /\ ~invoice.manual
  <1>. DEFINE debit == AutomaticDebit(s, key, invoice.due)
              moved == [account |-> AccountOf[key[1]], amount |-> debit, date |-> invoice.due]
  <1>1. SyncedInvoiceMove(s, key, invoice)
          = IF invoice # None /\ ~invoice.manual /\ debit > 0 THEN moved ELSE None
    BY DEF SyncedInvoiceMove
  <1>2. debit \in Nat
    BY PositiveIsNat DEF AutomaticDebit
  <1>3. AccountOf[key[1]] \in Accounts
    BY LedgerAssumption DEF InvoiceKeys
  <1>4. invoice # None => invoice.due \in Date
    BY DEF Invoice
  <1>. HIDE DEF debit
  <1>5. invoice # None /\ debit > 0 => moved \in Movement
    BY <1>2, <1>3, <1>4 DEF Movement
  <1>. HIDE DEF moved
  <1>. QED BY <1>1, <1>5, AbsenceAssumption

LEMMA SyncedItemMoveIsMovement ==
  ASSUME NEW s, SourcesTyped(s), SoundItems(s.items),
         NEW i \in ItemIds, NEW m \in Months
  PROVE  SyncedItemMove(s, i, m) \in Movement \union {None}
  <1>. DEFINE item == s.items[i]
              amount == AmountForMonth(item, NoCard, m)
              effective == IF item.fixed THEN EffectiveDate(item, m) ELSE item.date
              moved == [account |-> item.instrument, amount |-> amount, date |-> effective]
  <1>1. \/ SyncedItemMove(s, i, m) = None
        \/ /\ item # None /\ item.instrument \notin CardIds /\ amount # 0
           /\ SyncedItemMove(s, i, m) = moved
    <2>. DEFINE horizon == Horizon(today)
                occurs == IF item.fixed THEN m \in OccurrenceMonths(item, NoCard, horizon)
                          ELSE m = item.date.month
                moves == occurs /\ amount # 0 /\ NotAfter(effective, horizon)
    <2>1. SyncedItemMove(s, i, m)
            = IF item # None /\ item.instrument \notin CardIds /\ moves THEN moved ELSE None
      BY DEF SyncedItemMove
    <2>2. moves => amount # 0
      OBVIOUS
    <2>. HIDE DEF item, amount, moved, moves
    <2>. QED BY <2>1, <2>2
  <1>2. ASSUME item # None, item.instrument \notin CardIds, amount # 0
        PROVE  moved \in Movement
    <2>1. item \in Item
      BY <1>2, InputAssumption DEF SourcesTyped
    <2>2. amount \in Nat \ {0}
      <3>1. ~IsPlan(item)
        BY <1>2 DEF SoundItems
      <3>2. amount \in {0, item.amount}
        BY <2>1, <3>1, AccountAmount
      <3>. QED BY <1>2, <2>1, <3>2, ItemFields
    <2>3. effective \in Date
      <3>1. item.date \in Date /\ item.date.day \in Nat \ {0}
        BY <2>1, ItemFields, DateFields
      <3>2. EffectiveDate(item, m) \in Date
        BY <3>1, ClampedIsDate DEF EffectiveDate
      <3>. QED BY <3>1, <3>2
    <2>4. item.instrument \in Accounts
      BY <1>2, <2>1, ItemFields
    <2>. HIDE DEF item, amount, effective
    <2>. QED BY <2>2, <2>3, <2>4 DEF Movement
  <1>. HIDE DEF moved, item, amount
  <1>. QED BY <1>1, <1>2

\* A reconciliation on written sources restores every part of the invariant
\* that is about derived rows.
LEMMA ReconcileKeepsInv ==
  ASSUME LedgerInv, NEW s, SourcesTyped(s), SoundItems(s.items),
         Reconcile(s), UNCHANGED <<today, payments, paymentMoves>>
  PROVE  /\ DerivedOK' /\ syncedOn' \in Date
         /\ DaysLived' /\ InvoicesWithinReach'
         /\ NoDoubleSettlement' /\ PaymentsAreBacked'
         /\ \A key \in InvoiceKeys :
               invoices[key] # None /\ invoices[key].manual /\ invoices'[key] # None
                  => invoices'[key].manual
  <1>. USE DEF LedgerInv
  <1>1. \A key \in InvoiceKeys :
           /\ invoices'[key] = SyncedInvoice(s, key)
           /\ invoices'[key] \in Invoice \union {None}
           /\ invoices'[key] # None => key[2] =< LastDay.month + ProjectionMonths
           /\ IsKept(key) => invoices'[key] # None
           /\ invoices'[key] # None /\ invoices[key] # None /\ invoices[key].manual
                => invoices'[key].manual
    BY SyncedInvoiceIsInvoice DEF Reconcile
  <1>2. \A key \in InvoiceKeys :
           /\ invoiceMoves'[key] \in Movement \union {None}
           /\ invoiceMoves'[key] # None => invoices'[key] # None /\ ~invoices'[key].manual
    BY <1>1, SyncedInvoiceMoveIsMovement DEF Reconcile
  <1>3. \A key \in ItemIds \X Months : itemMoves'[key] \in Movement \union {None}
    BY SyncedItemMoveIsMovement DEF Reconcile
  <1>4. DerivedOK' /\ syncedOn' \in Date
    BY <1>1, <1>2, <1>3 DEF Reconcile, TypeOK, SourcesOK, DerivedOK
  <1>5. DaysLived' /\ InvoicesWithinReach'
    BY <1>1 DEF DaysLived, InvoicesWithinReach
  <1>6. ASSUME NEW k \in PaymentKeys, payments[k] # None
        PROVE  LET key == payments[k].invoice
               IN  key \in InvoiceKeys /\ invoices'[key] # None /\ invoices'[key].manual
    <2>1. payments[k].invoice \in InvoiceKeys
      BY <1>6, InputAssumption DEF TypeOK, SourcesOK, Payment
    <2>2. /\ invoices[payments[k].invoice] # None
          /\ invoices[payments[k].invoice].manual
      BY <1>6 DEF PaymentsAreBacked
    <2>3. IsKept(payments[k].invoice)
      BY <1>6, <2>2 DEF IsKept, PaymentsOf
    <2>. QED BY <1>1, <2>1, <2>2, <2>3
  <1>7. NoDoubleSettlement'
    <2>1. ASSUME NEW key \in InvoiceKeys, invoiceMoves'[key] # None
          PROVE  PaymentsOf(payments', key) = {}
      <3>1. ~invoices'[key].manual
        BY <1>2, <2>1
      <3>. QED BY <1>6, <3>1 DEF PaymentsOf
    <2>. QED BY <1>2, <2>1 DEF NoDoubleSettlement
  <1>8. PaymentsAreBacked'
    BY <1>6 DEF PaymentsAreBacked
  <1>. QED BY <1>1, <1>4, <1>5, <1>7, <1>8

-----------------------------------------------------------------------------
(* The requests.                                                           *)

\* What every step keeps, and what no step takes away.
StillManual ==
    \A key \in InvoiceKeys :
        invoices[key] # None /\ invoices[key].manual /\ invoices'[key] # None
            => invoices'[key].manual

\* The requests that end in a reconciliation differ in the row they write.
LEMMA WrittenSourcesKeepInv ==
  ASSUME LedgerInv, SourcesTyped(Sources)', SoundItems(items)',
         Reconcile(Sources'), UNCHANGED <<today, payments, paymentMoves>>
  PROVE  LedgerInv' /\ StillManual
  <1>1. SourcesTyped(Sources') /\ SoundItems(Sources'.items)
    BY DEF SourcesTyped, Sources, SoundItems
  <1>2. /\ DerivedOK' /\ syncedOn' \in Date
        /\ DaysLived' /\ InvoicesWithinReach'
        /\ NoDoubleSettlement' /\ PaymentsAreBacked' /\ StillManual
    BY <1>1, ReconcileKeepsInv DEF StillManual
  <1>3. SourcesOK'
    BY <1>2 DEF LedgerInv, TypeOK, SourcesOK, SourcesTyped, Sources
  <1>. QED BY <1>2, <1>3 DEF LedgerInv, TypeOK

LEMMA InitEstablishesInv == Init => LedgerInv
  <1>. SUFFICES ASSUME Init PROVE LedgerInv
    OBVIOUS
  <1>1. TypeOK
    BY DaysAssumption DEF Init, TypeOK, SourcesOK, DerivedOK
  <1>. QED BY <1>1, DaysAssumption
           DEF Init, LedgerInv, DaysLived, InvoicesWithinReach, SoundItems,
               NoDoubleSettlement, PaymentsAreBacked

LEMMA SourcesAreTyped ==
  ASSUME LedgerInv
  PROVE  SourcesTyped(Sources) /\ SoundItems(items)
  BY DEF LedgerInv, TypeOK, SourcesOK, SourcesTyped, Sources

LEMMA SaveItemKeepsInv ==
  ASSUME LedgerInv, NEW i \in ItemIds, NEW item \in ItemInputs, SaveItem(i, item)
  PROVE  LedgerInv' /\ StillManual
  <1>1. item \in Item
    BY InputAssumption
  <1>2. /\ item.start \in 1 .. item.installments
        /\ IsPlan(item) => item.instrument \in CardIds /\ ~item.fixed
    BY DEF SaveItem, WellFormed, IsCard
  <1>3. SourcesTyped(Sources)'
    BY SourcesAreTyped DEF SaveItem, SourcesTyped, Sources
  <1>4. SoundItems(items)'
    BY <1>2, SourcesAreTyped DEF SaveItem, SoundItems, SourcesTyped, Sources
  <1>. QED BY <1>3, <1>4, WrittenSourcesKeepInv DEF SaveItem

LEMMA DeleteItemKeepsInv ==
  ASSUME LedgerInv, NEW i \in ItemIds, DeleteItem(i)
  PROVE  LedgerInv' /\ StillManual
  <1>1. SourcesTyped(Sources)'
    BY SourcesAreTyped DEF DeleteItem, SourcesTyped, Sources
  <1>2. SoundItems(items)'
    BY SourcesAreTyped DEF DeleteItem, SoundItems, SourcesTyped, Sources
  <1>. QED BY <1>1, <1>2, WrittenSourcesKeepInv DEF DeleteItem

LEMMA SaveCardKeepsInv ==
  ASSUME LedgerInv, NEW c \in CardIds, NEW settings \in SettingInputs, SaveCard(c, settings)
  PROVE  LedgerInv' /\ StillManual
  <1>1. SourcesTyped(Sources)'
    BY SourcesAreTyped DEF SaveCard, SourcesTyped, Sources
  <1>2. SoundItems(items)'
    BY SourcesAreTyped DEF SaveCard, SoundItems
  <1>. QED BY <1>1, <1>2, WrittenSourcesKeepInv DEF SaveCard

LEMMA CreditsKeepInv ==
  ASSUME LedgerInv, NEW k \in CreditKeys,
         \/ \E credit \in CreditInputs : SaveCredit(k, credit)
         \/ DeleteCredit(k)
  PROVE  LedgerInv' /\ StillManual
  <1>1. SourcesTyped(Sources)'
    BY SourcesAreTyped DEF SaveCredit, DeleteCredit, SourcesTyped, Sources
  <1>2. SoundItems(items)'
    BY SourcesAreTyped DEF SaveCredit, DeleteCredit, SoundItems
  <1>3. UNCHANGED <<today, payments, paymentMoves>> /\ Reconcile(Sources')
    BY DEF SaveCredit, DeleteCredit
  <1>. QED BY <1>1, <1>2, <1>3, WrittenSourcesKeepInv

LEMMA OpenPageKeepsInv ==
  ASSUME LedgerInv, OpenPage
  PROVE  LedgerInv' /\ StillManual
  <1>1. UNCHANGED <<cards, items, credits>>
    BY DEF OpenPage, sourceVars
  <1>2. SourcesTyped(Sources)' /\ SoundItems(items)'
    BY <1>1, SourcesAreTyped DEF SourcesTyped, Sources, SoundItems
  <1>3. Sources' = Sources
    BY <1>1 DEF Sources
  <1>. QED BY <1>2, <1>3, WrittenSourcesKeepInv DEF OpenPage

\* Settling one invoice again keeps its shape and its manual mode.
LEMMA RefreshedIsInvoice ==
  ASSUME TypeOK, NEW key \in InvoiceKeys, invoices[key] # None,
         NEW rows \in [PaymentKeys -> PaymentInputs \union {None}]
  PROVE  /\ Refreshed(key, rows) \in Invoice
         /\ invoices[key].manual => Refreshed(key, rows).manual
  <1>1. /\ invoices[key] \in Invoice /\ today \in Date
        /\ rows \in [PaymentKeys -> Payment \union {None}]
    BY InputAssumption DEF TypeOK, SourcesOK, DerivedOK
  <1>. QED BY <1>1, SettledIsInvoice DEF Refreshed

\* Confirming or deleting a payment settles one manual invoice, and neither
\* touches the sources nor the projected debits.
LEMMA PaymentStepKeepsInv ==
  ASSUME LedgerInv, NEW k \in PaymentKeys, NEW key \in InvoiceKeys,
         NEW row \in PaymentInputs \union {None},
         invoices[key] # None, invoices[key].manual,
         payments[k] # None => payments[k].invoice = key,
         row # None => row.invoice = key,
         payments' = [payments EXCEPT ![k] = row],
         paymentMoves' = [paymentMoves EXCEPT ![k] =
             IF row = None THEN None
             ELSE [account |-> row.account, amount |-> row.amount, date |-> row.date]],
         invoices' = [invoices EXCEPT ![key] = Refreshed(key, payments')],
         UNCHANGED <<today, sourceVars, itemMoves, invoiceMoves, syncedOn>>
  PROVE  LedgerInv' /\ StillManual
  <1>. USE DEF LedgerInv
  <1>1. payments' \in [PaymentKeys -> PaymentInputs \union {None}]
    BY DEF TypeOK, SourcesOK
  <1>2. /\ invoices'[key] \in Invoice /\ invoices'[key] # None /\ invoices'[key].manual
        /\ \A other \in InvoiceKeys \ {key} : invoices'[other] = invoices[other]
    <2>1. invoices'[key] = Refreshed(key, payments')
      BY DEF TypeOK, DerivedOK
    <2>2. Refreshed(key, payments') \in Invoice /\ Refreshed(key, payments').manual
      BY <1>1, RefreshedIsInvoice
    <2>3. \A other \in InvoiceKeys \ {key} : invoices'[other] = invoices[other]
      BY DEF TypeOK, DerivedOK
    <2>. QED BY <2>1, <2>2, <2>3, AbsenceAssumption
  <1>3. SourcesOK'
    BY <1>1 DEF TypeOK, SourcesOK, sourceVars
  <1>4. DerivedOK'
    <2>1. invoices' \in [InvoiceKeys -> Invoice \union {None}]
      BY <1>2 DEF TypeOK, DerivedOK
    <2>2. paymentMoves' \in [PaymentKeys -> Movement \union {None}]
      <3>1. row # None =>
              [account |-> row.account, amount |-> row.amount, date |-> row.date] \in Movement
        <4>1. row # None => row \in Payment
          BY InputAssumption
        <4>. QED BY <4>1 DEF Payment, Movement
      <3>. QED BY <3>1 DEF TypeOK, DerivedOK
    <2>. QED BY <2>1, <2>2 DEF TypeOK, DerivedOK
  <1>5. DaysLived' /\ InvoicesWithinReach'
    <2>1. key[2] =< LastDay.month + ProjectionMonths
      BY DEF InvoicesWithinReach
    <2>. QED BY <1>2, <2>1 DEF DaysLived, InvoicesWithinReach
  <1>6. SoundItems(items)'
    BY DEF SoundItems, sourceVars
  <1>7. NoDoubleSettlement'
    <2>1. invoiceMoves[key] = None
      BY DEF NoDoubleSettlement
    <2>2. \A other \in InvoiceKeys \ {key} :
             PaymentsOf(payments', other) = PaymentsOf(payments, other)
      BY DEF PaymentsOf, TypeOK, SourcesOK
    <2>. QED BY <1>2, <2>1, <2>2 DEF NoDoubleSettlement
  <1>8. PaymentsAreBacked'
    <2>1. ASSUME NEW j \in PaymentKeys \ {k}
          PROVE  /\ payments'[j] = payments[j] /\ paymentMoves'[j] = paymentMoves[j]
                 /\ payments[j] # None =>
                      /\ payments[j].invoice \in InvoiceKeys
                      /\ invoices'[payments[j].invoice] # None
                      /\ invoices'[payments[j].invoice].manual
      <3>1. payments'[j] = payments[j] /\ paymentMoves'[j] = paymentMoves[j]
        BY DEF TypeOK, SourcesOK, DerivedOK
      <3>2. payments[j] # None => payments[j].invoice \in InvoiceKeys
        BY InputAssumption DEF TypeOK, SourcesOK, Payment
      <3>3. payments[j] # None => /\ invoices[payments[j].invoice] # None
                                  /\ invoices[payments[j].invoice].manual
        BY DEF PaymentsAreBacked
      <3>. QED BY <1>2, <3>1, <3>2, <3>3
    <2>2. /\ payments'[k] = row
          /\ paymentMoves'[k] = IF row = None THEN None
               ELSE [account |-> row.account, amount |-> row.amount, date |-> row.date]
      BY DEF TypeOK, SourcesOK, DerivedOK
    <2>3. ASSUME NEW j \in PaymentKeys
          PROVE  IF payments'[j] = None THEN paymentMoves'[j] = None
                 ELSE /\ invoices'[payments'[j].invoice] # None
                      /\ invoices'[payments'[j].invoice].manual
                      /\ paymentMoves'[j] = [account |-> payments'[j].account,
                                             amount |-> payments'[j].amount,
                                             date |-> payments'[j].date]
      <3>1. CASE j = k
        BY <1>2, <2>2, <3>1
      <3>2. CASE j # k
        <4>1. /\ payments'[j] = payments[j] /\ paymentMoves'[j] = paymentMoves[j]
              /\ payments[j] # None => /\ invoices'[payments[j].invoice] # None
                                       /\ invoices'[payments[j].invoice].manual
          BY <2>1, <3>2
        <4>2. IF payments[j] = None THEN paymentMoves[j] = None
              ELSE paymentMoves[j] = [account |-> payments[j].account,
                                      amount |-> payments[j].amount,
                                      date |-> payments[j].date]
          BY DEF PaymentsAreBacked
        <4>. QED BY <4>1, <4>2
      <3>. QED BY <3>1, <3>2
    <2>. QED BY <2>3 DEF PaymentsAreBacked
  <1>9. StillManual
    BY <1>2 DEF StillManual
  <1>. QED BY <1>3, <1>4, <1>5, <1>6, <1>7, <1>8, <1>9 DEF TypeOK

LEMMA PaymentsKeepInv ==
  ASSUME LedgerInv, NEW k \in PaymentKeys,
         \/ \E payment \in PaymentInputs : SavePayment(k, payment)
         \/ DeletePayment(k)
  PROVE  LedgerInv' /\ StillManual
  <1>1. ASSUME NEW payment \in PaymentInputs, SavePayment(k, payment)
        PROVE  LedgerInv' /\ StillManual
    <2>1. payment # None /\ payment.invoice \in InvoiceKeys
      BY InputAssumption, AbsenceAssumption DEF Payment
    <2>. DEFINE moved == [account |-> payment.account, amount |-> payment.amount,
                          date |-> payment.date]
    <2>2. paymentMoves' = [paymentMoves EXCEPT ![k] = IF payment = None THEN None ELSE moved]
      BY <1>1, <2>1 DEF SavePayment
    <2>3. /\ invoices[payment.invoice] # None /\ invoices[payment.invoice].manual
          /\ payments[k] # None => payments[k].invoice = payment.invoice
          /\ payments' = [payments EXCEPT ![k] = payment]
          /\ invoices' = [invoices EXCEPT ![payment.invoice] =
                             Refreshed(payment.invoice, payments')]
          /\ UNCHANGED <<today, sourceVars, itemMoves, invoiceMoves, syncedOn>>
      BY <1>1 DEF SavePayment
    <2>. QED BY <2>1, <2>2, <2>3, PaymentStepKeepsInv
  <1>2. ASSUME DeletePayment(k)
        PROVE  LedgerInv' /\ StillManual
    <2>1. payments[k] # None
      BY <1>2 DEF DeletePayment
    <2>2. /\ payments[k].invoice \in InvoiceKeys
          /\ invoices[payments[k].invoice] # None /\ invoices[payments[k].invoice].manual
      BY <2>1, InputAssumption DEF LedgerInv, TypeOK, SourcesOK, Payment, PaymentsAreBacked
    <2>3. /\ payments' = [payments EXCEPT ![k] = None]
          /\ paymentMoves' = [paymentMoves EXCEPT ![k] = None]
          /\ invoices' = [invoices EXCEPT ![payments[k].invoice] =
                             Refreshed(payments[k].invoice, payments')]
          /\ UNCHANGED <<today, sourceVars, itemMoves, invoiceMoves, syncedOn>>
      BY <1>2 DEF DeletePayment
    <2>. DEFINE moved == IF None = None THEN None
                         ELSE [account |-> None.account, amount |-> None.amount,
                               date |-> None.date]
    <2>4. paymentMoves' = [paymentMoves EXCEPT ![k] = moved]
      BY <2>3
    <2>. QED BY <2>2, <2>3, <2>4, PaymentStepKeepsInv
  <1>. QED BY <1>1, <1>2

-----------------------------------------------------------------------------
(* Theorems.                                                               *)

LEMMA NextKeepsInv == LedgerInv /\ [Next]_vars => LedgerInv' /\ (StillManual \/ UNCHANGED vars)
  <1>. SUFFICES ASSUME LedgerInv, [Next]_vars
                PROVE  LedgerInv' /\ (StillManual \/ UNCHANGED vars)
    OBVIOUS
  <1>1. ASSUME NEW i \in ItemIds,
               (\E item \in ItemInputs : SaveItem(i, item)) \/ DeleteItem(i)
        PROVE  LedgerInv' /\ StillManual
    BY <1>1, SaveItemKeepsInv, DeleteItemKeepsInv
  <1>2. ASSUME NEW c \in CardIds, NEW settings \in SettingInputs, SaveCard(c, settings)
        PROVE  LedgerInv' /\ StillManual
    BY <1>2, SaveCardKeepsInv
  <1>3. ASSUME NEW k \in CreditKeys,
               (\E credit \in CreditInputs : SaveCredit(k, credit)) \/ DeleteCredit(k)
        PROVE  LedgerInv' /\ StillManual
    BY <1>3, CreditsKeepInv
  <1>4. ASSUME NEW k \in PaymentKeys,
               (\E payment \in PaymentInputs : SavePayment(k, payment)) \/ DeletePayment(k)
        PROVE  LedgerInv' /\ StillManual
    BY <1>4, PaymentsKeepInv
  <1>5. ASSUME OpenPage PROVE LedgerInv' /\ StillManual
    BY <1>5, OpenPageKeepsInv
  <1>6. ASSUME NewDay PROVE LedgerInv' /\ StillManual
    <2>1. /\ today \in Date /\ Before(today, LastDay) /\ today' = NextDay(today)
          /\ UNCHANGED <<cards, items, credits, payments, invoices, itemMoves,
                         invoiceMoves, paymentMoves, syncedOn>>
      BY <1>6 DEF NewDay, LedgerInv, TypeOK, SourcesOK, sourceVars, moveVars
    <2>2. today' \in Date /\ NotAfter(today', LastDay)
      BY <2>1, NextDayIsReached
    <2>3. TypeOK'
      BY <2>1, <2>2 DEF LedgerInv, TypeOK, SourcesOK, DerivedOK
    <2>4. SoundItems(items)' /\ InvoicesWithinReach' /\ StillManual
      BY <2>1 DEF LedgerInv, SoundItems, InvoicesWithinReach, StillManual
    <2>5. NoDoubleSettlement' /\ PaymentsAreBacked'
      BY <2>1 DEF LedgerInv, NoDoubleSettlement, PaymentsAreBacked, PaymentsOf
    <2>. QED BY <2>2, <2>3, <2>4, <2>5 DEF LedgerInv, DaysLived
  <1>7. CASE UNCHANGED vars
    <2>1. TypeOK'
      BY <1>7 DEF vars, LedgerInv, TypeOK, SourcesOK, DerivedOK
    <2>2. DaysLived' /\ SoundItems(items)' /\ InvoicesWithinReach'
      BY <1>7 DEF vars, LedgerInv, DaysLived, SoundItems, InvoicesWithinReach
    <2>3. NoDoubleSettlement' /\ PaymentsAreBacked'
      BY <1>7 DEF vars, LedgerInv, NoDoubleSettlement, PaymentsAreBacked, PaymentsOf
    <2>. QED BY <1>7, <2>1, <2>2, <2>3 DEF LedgerInv
  <1>. QED BY <1>1, <1>2, <1>3, <1>4, <1>5, <1>6, <1>7 DEF Next

\* The inductive invariant holds in every reachable state.
THEOREM LedgerInvariant == Spec => []LedgerInv
  BY InitEstablishesInv, NextKeepsInv, PTL DEF Spec

\* For every set of cards, accounts and inputs, whatever users submit in
\* whatever order, no derived row is malformed: no negative invoice, no
\* movement of nothing, no date the calendar does not have, although due dates
\* and horizons are clamped to months of any length.
THEOREM LedgerIsTyped == Spec => []TypeOK
  BY LedgerInvariant, PTL DEF LedgerInv

\* No statement is ever settled both by its projected debit and by confirmed
\* payments, whether rows change by reconciliation (_sync_user_ledger) or by
\* settling one invoice (save_invoice_payment, delete_invoice_payment).
THEOREM StatementsSettleOnce == Spec => []NoDoubleSettlement
  BY LedgerInvariant, PTL DEF LedgerInv

\* A confirmed payment keeps its manual invoice and its one movement for as
\* long as it exists, also when everything the invoice billed is deleted.
THEOREM PaymentsStayBacked == Spec => []PaymentsAreBacked
  BY LedgerInvariant, PTL DEF LedgerInv

\* Once an invoice asks for confirmation, no edit of its card and no
\* reconciliation returns it to the automatic mode.
THEOREM ConfirmationSticks == Spec => ManualIsSticky
  <1>1. LedgerInv /\ [Next]_vars => [StillManual]_vars
    BY NextKeepsInv
  <1>. QED BY <1>1, LedgerInvariant, PTL DEF Spec, ManualIsSticky, StillManual

\* The two together: however requests and days interleave, a statement is
\* settled in one way and every confirmed payment has its money.
THEOREM SettlementStaysSound == Spec => []SettlementIsSound
  BY StatementsSettleOnce, PaymentsStayBacked, PTL DEF SettlementIsSound
-----------------------------------------------------------------------------
(* The sums of the ledger.                                                 *)

LEMMA PaymentSums ==
  ASSUME NEW rows \in [PaymentKeys -> Payment \union {None}], NEW keys \in SUBSET PaymentKeys,
         \A k \in keys : rows[k] # None
  PROVE  /\ SumPayments(rows, keys) \in Nat
         /\ \A some \in SUBSET keys : SumPayments(rows, some) =< SumPayments(rows, keys)
         /\ \A k \in keys :
               SumPayments(rows, keys) = rows[k].amount + SumPayments(rows, keys \ {k})
         /\ SumPayments(rows, {}) = 0
  <1>. DEFINE f == [k \in keys |-> rows[k].amount]
  <1>1. IsFiniteSet(keys) /\ \A k \in keys : f[k] \in Nat
    BY RowsAssumption, FS_Subset DEF Payment
  <1>2. ASSUME NEW some \in SUBSET keys
        PROVE  SumPayments(rows, some) = SumFunctionOnSet(f, some)
    <2>. DEFINE g == [k \in some |-> rows[k].amount]
    <2>1. SumPayments(rows, some) = SumFunctionOnSet(g, some)
      BY DEF SumPayments, SumFunction
    <2>2. IsFiniteSet(some) /\ \A k \in some : g[k] = f[k] /\ g[k] \in Int
      BY <1>1, FS_Subset
    <2>. HIDE DEF f, g
    <2>. QED BY <2>1, <2>2, SumOfSame
  <1>. HIDE DEF f
  <1>3. SumPayments(rows, keys) \in Nat
    BY <1>1, <1>2, SumIsNat
  <1>4. ASSUME NEW some \in SUBSET keys
        PROVE  SumPayments(rows, some) =< SumPayments(rows, keys)
    <2>1. SumFunctionOnSet(f, some) =< SumFunctionOnSet(f, keys)
      BY <1>1, SumOfFewer
    <2>. QED BY <1>2, <2>1
  <1>5. ASSUME NEW k \in keys
        PROVE  SumPayments(rows, keys) = rows[k].amount + SumPayments(rows, keys \ {k})
    <2>1. SumFunctionOnSet(f, keys) = f[k] + SumFunctionOnSet(f, keys \ {k})
      BY <1>1, SumFromAny
    <2>2. keys \ {k} \in SUBSET keys
      OBVIOUS
    <2>. QED BY <1>2, <2>1, <2>2 DEF f
  <1>6. SumPayments(rows, {}) = 0
    BY <1>2, SumOfNothing
  <1>. QED BY <1>3, <1>4, <1>5, <1>6

\* Sums over the same payments are the same.
LEMMA SamePayments ==
  ASSUME NEW rows \in [PaymentKeys -> Payment \union {None}],
         NEW other \in [PaymentKeys -> Payment \union {None}],
         NEW keys \in SUBSET PaymentKeys, \A k \in keys : rows[k] = other[k]
  PROVE  SumPayments(rows, keys) = SumPayments(other, keys)
  <1>1. [k \in keys |-> rows[k].amount] = [k \in keys |-> other[k].amount]
    OBVIOUS
  <1>. QED BY <1>1 DEF SumPayments

LEMMA CreditSums ==
  ASSUME NEW s, SourcesTyped(s), NEW c \in CardIds, NEW m \in Months
  PROVE  /\ CreditTotal(s, c, m) \in Nat
         /\ \A date \in Date : /\ CreditsPostedBy(s, c, m, date) \in Nat
                               /\ CreditsPostedBy(s, c, m, date) =< CreditTotal(s, c, m)
         /\ CreditsOf(s, c, m) = {} => CreditTotal(s, c, m) = 0
  <1>. DEFINE keys == CreditsOf(s, c, m)
              f == [k \in keys |-> s.credits[k].amount]
  <1>1. IsFiniteSet(keys) /\ \A k \in keys : f[k] \in Nat
    <2>1. \A k \in keys : k \in CreditKeys /\ s.credits[k] \in Credit
      BY InputAssumption DEF CreditsOf, SourcesTyped
    <2>. QED BY <2>1, RowsAssumption, FS_Subset DEF Credit
  <1>. HIDE DEF keys
  <1>2. ASSUME NEW some \in SUBSET keys
        PROVE  SumCredits(s, some) = SumFunctionOnSet(f, some)
    <2>. DEFINE g == [k \in some |-> s.credits[k].amount]
    <2>1. SumCredits(s, some) = SumFunctionOnSet(g, some)
      BY DEF SumCredits, SumFunction
    <2>2. IsFiniteSet(some) /\ \A k \in some : g[k] = f[k] /\ g[k] \in Int
      BY <1>1, FS_Subset
    <2>. HIDE DEF f, g
    <2>. QED BY <2>1, <2>2, SumOfSame
  <1>. HIDE DEF f
  <1>3. CreditTotal(s, c, m) = SumFunctionOnSet(f, keys)
    BY <1>2 DEF CreditTotal, keys
  <1>4. SumFunctionOnSet(f, keys) \in Nat
    BY <1>1, SumIsNat
  <1>5. ASSUME NEW date \in Date
        PROVE  /\ CreditsPostedBy(s, c, m, date) \in Nat
               /\ CreditsPostedBy(s, c, m, date) =< SumFunctionOnSet(f, keys)
    <2>1. PICK some \in SUBSET keys : CreditsPostedBy(s, c, m, date) = SumFunctionOnSet(f, some)
      <3>1. {k \in keys : NotAfter(s.credits[k].date, date)} \in SUBSET keys
        OBVIOUS
      <3>. QED BY <1>2, <3>1 DEF CreditsPostedBy, keys
    <2>2. SumFunctionOnSet(f, some) \in Nat
      BY <1>1, SumIsNat
    <2>3. SumFunctionOnSet(f, some) =< SumFunctionOnSet(f, keys)
      BY <1>1, SumOfFewer
    <2>. QED BY <2>1, <2>2, <2>3
  <1>6. keys = {} => SumFunctionOnSet(f, keys) = 0
    BY SumOfNothing
  <1>. QED BY <1>3, <1>4, <1>5, <1>6 DEF keys

\* When no credit of a statement is dated in the future, all are posted.
LEMMA AllCreditsPosted ==
  ASSUME NEW s, SourcesTyped(s), NEW c \in CardIds, NEW m \in Months, NEW date \in Date,
         \A k \in CreditsOf(s, c, m) : ~Before(date, s.credits[k].date)
  PROVE  CreditsPostedBy(s, c, m, date) = CreditTotal(s, c, m)
  <1>1. ASSUME NEW k \in CreditsOf(s, c, m) PROVE NotAfter(s.credits[k].date, date)
    <2>1. s.credits[k].date \in Date
      BY InputAssumption DEF CreditsOf, SourcesTyped, Credit
    <2>. QED BY <2>1, DateFields DEF NotAfter, Before
  <1>2. {k \in CreditsOf(s, c, m) : NotAfter(s.credits[k].date, date)} = CreditsOf(s, c, m)
    BY <1>1
  <1>. QED BY <1>2 DEF CreditsPostedBy, CreditTotal
-----------------------------------------------------------------------------
(* What one item bills in a month.                                         *)

LEMMA AmountIsInteger ==
  ASSUME NEW item \in Item, NEW card, NEW m \in Months
  PROVE  AmountForMonth(item, card, m) \in Int
  <1>1. /\ BilledMonth(item, card) \in Int /\ m \in Int
        /\ item.amount \in Nat /\ item.installments \in Nat \ {0} /\ item.fixed \in BOOLEAN
    BY BilledMonthIsInteger, MonthsAreNaturals, ItemFields
  <1>2. InstallmentAmount(item) \in Int
    BY <1>1 DEF InstallmentAmount
  <1>3. FirstInstallmentAmount(item) \in Int
    BY <1>1, <1>2 DEF FirstInstallmentAmount
  <1>. DEFINE offset == m - BilledMonth(item, card)
              installments ==
                  IF offset < item.start - 1 \/ offset >= item.installments THEN 0
                  ELSE IF offset = 0 THEN FirstInstallmentAmount(item)
                  ELSE InstallmentAmount(item)
  <1>4. installments \in Int
    BY <1>2, <1>3
  <1>5. offset \in Int
    BY <1>1
  <1>6. AmountForMonth(item, card, m) =
            CASE offset < 0 -> 0
              [] offset >= 0 /\ item.fixed ->
                    IF item.until # NoMonth /\ offset > LastFixedOffset(item)
                    THEN 0 ELSE item.amount
              [] offset >= 0 /\ IsPlan(item) -> installments
              [] OTHER -> IF offset = 0 THEN item.amount ELSE 0
    BY DEF AmountForMonth
  <1>. HIDE DEF installments, offset
  <1>7. CASE offset < 0
    BY <1>5, <1>6, <1>7
  <1>8. CASE offset >= 0 /\ item.fixed /\ ~IsPlan(item)
    BY <1>1, <1>5, <1>6, <1>8
  <1>9. CASE offset >= 0 /\ ~item.fixed
    BY <1>1, <1>4, <1>5, <1>6, <1>9
  <1>10. CASE offset >= 0 /\ item.fixed /\ IsPlan(item)
    BY <1>1, <1>4, <1>5, <1>6, <1>10
  <1>. QED BY <1>5, <1>7, <1>8, <1>9, <1>10

\* A card's windows leave no month out in which an item bills something.
LEMMA AmountsFallInWindow ==
  ASSUME NEW item \in Item, NEW card, IsCard(card), NEW horizon \in Date,
         NEW m \in Months, m =< horizon.month,
         item.start \in 1 .. item.installments, IsPlan(item) => ~item.fixed,
         AmountForMonth(item, card, m) # 0
  PROVE  m \in OccurrenceMonths(item, card, horizon)
  <1>1. /\ BilledMonth(item, card) \in Int /\ m \in Int /\ horizon.month \in Int
        /\ item.installments \in Nat \ {0} /\ item.start \in Nat /\ item.fixed \in BOOLEAN
    BY BilledMonthIsInteger, MonthsAreNaturals, ItemFields, DateFields
  <1>. DEFINE billed == BilledMonth(item, card)
              offset == m - billed
              last == LastFixedOffset(item)
              start == WindowStart(item, card)
              open == Positive(horizon.month - start + 1)
              bounded ==
                  IF item.fixed
                  THEN IF item.until = NoMonth THEN open ELSE Least(open, last + 1)
                  ELSE Least(open, IF IsPlan(item)
                                   THEN item.installments - (item.start - 1) ELSE 1)
              length == WindowLength(item, card, horizon)
  <1>2. length = bounded
    BY DEF WindowLength
  <1>3. start = billed + IF IsPlan(item) THEN item.start - 1 ELSE 0
    BY DEF WindowStart
  <1>4. open = IF horizon.month - start + 1 \in Nat THEN horizon.month - start + 1 ELSE 0
    BY DEF Positive
  <1>5. last \in Nat
    BY PositiveIsNat DEF LastFixedOffset
  <1>6. ~(offset < 0)
    <2>1. offset < 0 => AmountForMonth(item, card, m) = 0
      BY <1>1 DEF AmountForMonth
    <2>. QED BY <2>1
  <1>7. item.fixed /\ item.until # NoMonth => offset =< last
    <2>1. offset >= 0 /\ offset > last /\ item.fixed /\ item.until # NoMonth
            => AmountForMonth(item, card, m) = 0
      BY <1>1 DEF AmountForMonth
    <2>. QED BY <1>1, <1>5, <1>6, <2>1
  <1>8. ~item.fixed /\ IsPlan(item) => item.start - 1 =< offset /\ offset < item.installments
    <2>1. ASSUME ~item.fixed, IsPlan(item), offset >= 0,
                 offset < item.start - 1 \/ offset >= item.installments
          PROVE  AmountForMonth(item, card, m) = 0
      BY <1>1, <2>1 DEF AmountForMonth
    <2>. QED BY <1>1, <1>6, <2>1
  <1>9. ~item.fixed /\ ~IsPlan(item) => offset = 0
    <2>1. ~item.fixed /\ ~IsPlan(item) /\ offset >= 0 /\ offset # 0
            => AmountForMonth(item, card, m) = 0
      BY <1>1 DEF AmountForMonth
    <2>. QED BY <1>1, <1>6, <2>1
  <1>10. m \in start .. (start + bounded - 1)
    <2>1. billed \in Int /\ offset \in Int /\ m = billed + offset /\ offset >= 0
      BY <1>1, <1>6
    <2>. HIDE DEF billed, offset, last, start, open
    <2>2. CASE item.fixed
      BY <1>1, <1>3, <1>4, <1>5, <1>7, <2>1, <2>2 DEF Least
    <2>3. CASE ~item.fixed /\ IsPlan(item)
      <3>1. start = billed + item.start - 1 /\ start \in Int /\ start =< m
        BY <1>1, <1>3, <1>8, <2>1, <2>3
      <3>2. open = horizon.month - start + 1 /\ open \in Nat
        BY <1>1, <1>4, <3>1
      <3>3. bounded = Least(open, item.installments - (item.start - 1))
        BY <2>3
      <3>4. m =< start + open - 1 /\ m =< start + (item.installments - (item.start - 1)) - 1
        BY <1>1, <1>8, <2>1, <2>3, <3>1, <3>2
      <3>. QED BY <1>1, <3>1, <3>2, <3>3, <3>4 DEF Least
    <2>4. CASE ~item.fixed /\ ~IsPlan(item)
      BY <1>1, <1>3, <1>4, <1>9, <2>1, <2>4 DEF Least
    <2>. QED BY <1>1, <2>2, <2>3, <2>4
  <1>. QED BY <1>2, <1>10 DEF OccurrenceMonths

\* What one statement bills, as a function of the items of its card.
LEMMA StatementAmounts ==
  ASSUME NEW s, SourcesTyped(s), NEW c \in CardIds, NEW m \in Months
  PROVE  LET f == [i \in CardItems(s, c) |-> ItemAmount(s, i, c, m)]
         IN  /\ IsFiniteSet(CardItems(s, c))
             /\ \A i \in CardItems(s, c) : f[i] \in Int
             /\ \A some \in SUBSET CardItems(s, c) :
                   SumItems(s, some, c, m) = SumFunctionOnSet(f, some)
             /\ Gross(s, c, m) \in Int
  <1>. DEFINE rows == CardItems(s, c)
              f == [i \in rows |-> ItemAmount(s, i, c, m)]
  <1>1. IsFiniteSet(rows)
    <2>1. rows \subseteq ItemIds
      BY DEF CardItems
    <2>. QED BY <2>1, RowsAssumption, FS_Subset
  <1>2. \A i \in rows : f[i] \in Int
    <2>1. \A i \in rows : s.items[i] \in Item
      BY InputAssumption DEF CardItems, SourcesTyped
    <2>. QED BY <2>1, AmountIsInteger DEF ItemAmount
  <1>3. ASSUME NEW some \in SUBSET rows
        PROVE  SumItems(s, some, c, m) = SumFunctionOnSet(f, some)
    <2>. DEFINE g == [i \in some |-> ItemAmount(s, i, c, m)]
    <2>1. SumItems(s, some, c, m) = SumFunctionOnSet(g, some)
      BY DEF SumItems, SumFunction
    <2>2. IsFiniteSet(some) /\ \A i \in some : g[i] = f[i] /\ g[i] \in Int
      BY <1>1, <1>2, FS_Subset
    <2>. HIDE DEF f, g, rows
    <2>. QED BY <2>1, <2>2, SumOfSame
  <1>4. Gross(s, c, m) \in Int
    <2>1. Gross(s, c, m) = SumFunctionOnSet(f, rows)
      BY <1>3 DEF Gross
    <2>. HIDE DEF f, rows
    <2>. QED BY <1>1, <1>2, <2>1, SumIsInt
  <1>. QED BY <1>1, <1>2, <1>3, <1>4

\* The sum over the occurrences up to the horizon is the sum over all items.
LEMMA BilledIsGross ==
  ASSUME NEW s, SourcesTyped(s), SoundItems(s.items), NEW c \in CardIds, NEW m \in Months,
         NEW horizon \in Date, m =< horizon.month
  PROVE  /\ SumItems(s, Billed(s, c, m, horizon), c, m) = Gross(s, c, m)
         /\ Billed(s, c, m, horizon) = {} => Gross(s, c, m) = 0
  <1>. DEFINE rows == CardItems(s, c)
              f == [i \in rows |-> ItemAmount(s, i, c, m)]
              some == Billed(s, c, m, horizon)
  <1>1. some \in SUBSET rows
    BY DEF Billed
  <1>2. /\ IsFiniteSet(rows) /\ \A i \in rows : f[i] \in Int
        /\ \A A \in SUBSET rows : SumItems(s, A, c, m) = SumFunctionOnSet(f, A)
    BY StatementAmounts
  <1>3. ASSUME NEW i \in rows \ some PROVE f[i] = 0
    <2>1. /\ s.items[i] \in Item /\ s.items[i].start \in 1 .. s.items[i].installments
          /\ IsPlan(s.items[i]) => ~s.items[i].fixed
      BY InputAssumption DEF CardItems, SourcesTyped, SoundItems
    <2>2. IsCard(s.cards[c])
      <3>1. s.cards[c] \in Setting
        BY InputAssumption DEF SourcesTyped
      <3>. QED BY <3>1, LedgerAssumption DEF IsCard
    <2>3. ItemAmount(s, i, c, m) # 0
            => m \in OccurrenceMonths(s.items[i], s.cards[c], horizon)
      BY <2>1, <2>2, AmountsFallInWindow DEF ItemAmount
    <2>. QED BY <2>3 DEF Billed
  <1>4. Gross(s, c, m) = SumFunctionOnSet(f, rows)
    BY <1>2 DEF Gross
  <1>. HIDE DEF f, some, rows
  <1>5. SumFunctionOnSet(f, rows) = SumFunctionOnSet(f, some)
    BY <1>1, <1>2, <1>3, SumWithoutZeros
  <1>6. SumItems(s, some, c, m) = SumFunctionOnSet(f, some)
    BY <1>1, <1>2
  <1>. QED BY <1>4, <1>5, <1>6, SumOfNothing DEF some

LEMMA ComputedIsWithinHorizon ==
  ASSUME NEW s, SourcesTyped(s), today \in Date, DaysLived,
         NEW key \in InvoiceKeys, IsComputed(s, key)
  PROVE  key[2] =< Horizon(today).month
  <1>. DEFINE horizon == Horizon(today)
  <1>1. horizon \in Date /\ key[2] \in Months
    BY HorizonIsDate DEF DaysLived, InvoiceKeys
  <1>. HIDE DEF horizon
  <1>2. CASE Billed(s, key[1], key[2], horizon) # {}
    <2>1. PICK i \in ItemIds : /\ s.items[i] # None
                               /\ key[2] \in OccurrenceMonths(s.items[i], s.cards[key[1]], horizon)
      BY <1>2 DEF Billed, CardItems
    <2>2. s.items[i] \in Item
      BY <2>1, InputAssumption DEF SourcesTyped
    <2>. QED BY <1>1, <2>1, <2>2, OccurrencesStayWithinHorizon DEF horizon
  <1>. QED BY <1>2 DEF IsComputed, horizon

\* The reconciliation and the statement itself agree on what is billed.
LEMMA ComputedIsGross ==
  ASSUME NEW s, SourcesTyped(s), SoundItems(s.items), today \in Date, DaysLived,
         NEW key \in InvoiceKeys
  PROVE  ComputedAmount(s, key) = Gross(s, key[1], key[2])
  <1>1. Horizon(today) \in Date /\ key[1] \in CardIds /\ key[2] \in Months
    BY HorizonIsDate DEF DaysLived, InvoiceKeys
  <1>. QED BY <1>1, ComputedIsWithinHorizon, BilledIsGross DEF ComputedAmount
-----------------------------------------------------------------------------
(* Settling again.                                                         *)

ConfirmedBy(rows, key, cutoff) == {k \in PaymentsOf(rows, key) : NotAfter(rows[k].date, cutoff)}

Covers(rows, key, statement, cutoff) ==
    /\ statement =< SumPayments(rows, ConfirmedBy(rows, key, cutoff))
    /\ ConfirmedBy(rows, key, cutoff) # {} \/ statement = 0

ManualStatus(rows, key, due, statement, cutoff) ==
    IF Covers(rows, key, statement, cutoff) THEN "PAID"
    ELSE IF SumPayments(rows, ConfirmedBy(rows, key, cutoff)) > 0 THEN "PARTIAL"
    ELSE IF Before(due, cutoff) THEN "OVERDUE"
    ELSE "SCHEDULED"

PaidOn(rows, key, statement, cutoff) ==
    IF Covers(rows, key, statement, cutoff) /\ ConfirmedBy(rows, key, cutoff) # {}
    THEN Latest({rows[k].date : k \in ConfirmedBy(rows, key, cutoff)}) ELSE None

\* Settling says the same of an invoice's amount and due date, and all it keeps
\* of the invoice besides them is the manual mode and, in the automatic mode,
\* the day it was paid.
LEMMA SettledIs ==
  ASSUME NEW invoice \in Invoice, NEW key, NEW card, NEW rows, NEW statement, NEW cutoff
  PROVE  Settled(invoice, key, card, rows, statement, cutoff)
           = IF AsksConfirmation(card, invoice)
             THEN [amount |-> invoice.amount, due |-> invoice.due,
                   status |-> ManualStatus(rows, key, invoice.due, statement, cutoff),
                   manual |-> TRUE,
                   paidAt |-> PaidOn(rows, key, statement, cutoff)]
             ELSE [amount |-> invoice.amount, due |-> invoice.due,
                   status |-> IF NotAfter(invoice.due, cutoff) THEN "PAID" ELSE "SCHEDULED",
                   manual |-> FALSE,
                   paidAt |-> invoice.paidAt]
  <1>1. ASSUME NEW status, NEW at
        PROVE  /\ [invoice EXCEPT !.status = status, !.manual = TRUE, !.paidAt = at]
                    = [amount |-> invoice.amount, due |-> invoice.due, status |-> status,
                       manual |-> TRUE, paidAt |-> at]
               /\ [invoice EXCEPT !.status = status, !.manual = FALSE]
                    = [amount |-> invoice.amount, due |-> invoice.due, status |-> status,
                       manual |-> FALSE, paidAt |-> invoice.paidAt]
    <2>1. invoice \in [amount : {invoice.amount}, due : {invoice.due}, status : Statuses,
                        manual : BOOLEAN, paidAt : {invoice.paidAt}]
      BY DEF Invoice
    <2>2. [invoice EXCEPT !.status = status, !.manual = TRUE, !.paidAt = at]
            \in [amount : {invoice.amount}, due : {invoice.due}, status : {status},
                 manual : {TRUE}, paidAt : {at}]
      BY <2>1
    <2>3. [invoice EXCEPT !.status = status, !.manual = FALSE]
            \in [amount : {invoice.amount}, due : {invoice.due}, status : {status},
                 manual : {FALSE}, paidAt : {invoice.paidAt}]
      BY <2>1
    <2>. DEFINE manually == [invoice EXCEPT !.status = status, !.manual = TRUE, !.paidAt = at]
                itself == [invoice EXCEPT !.status = status, !.manual = FALSE]
    <2>4. manually \in [amount : {invoice.amount}, due : {invoice.due}, status : {status},
                        manual : {TRUE}, paidAt : {at}]
      BY <2>2
    <2>5. itself \in [amount : {invoice.amount}, due : {invoice.due}, status : {status},
                      manual : {FALSE}, paidAt : {invoice.paidAt}]
      BY <2>3
    <2>. HIDE DEF manually, itself
    <2>6. manually = [amount |-> invoice.amount, due |-> invoice.due, status |-> status,
                      manual |-> TRUE, paidAt |-> at]
      BY <2>4
    <2>7. itself = [amount |-> invoice.amount, due |-> invoice.due, status |-> status,
                    manual |-> FALSE, paidAt |-> invoice.paidAt]
      BY <2>5
    <2>. QED BY <2>6, <2>7 DEF manually, itself
  <1>. DEFINE automatic == IF NotAfter(invoice.due, cutoff) THEN "PAID" ELSE "SCHEDULED"
              status == ManualStatus(rows, key, invoice.due, statement, cutoff)
              at == PaidOn(rows, key, statement, cutoff)
  <1>2. Settled(invoice, key, card, rows, statement, cutoff)
          = IF ~AsksConfirmation(card, invoice)
            THEN [invoice EXCEPT !.status = automatic, !.manual = FALSE]
            ELSE [invoice EXCEPT !.status = status, !.manual = TRUE, !.paidAt = at]
    BY DEF Settled, ManualStatus, PaidOn, Covers, ConfirmedBy
  <1>. HIDE DEF automatic, status, at
  <1>3. [invoice EXCEPT !.status = automatic, !.manual = FALSE]
           = [amount |-> invoice.amount, due |-> invoice.due, status |-> automatic,
              manual |-> FALSE, paidAt |-> invoice.paidAt]
    BY <1>1
  <1>4. [invoice EXCEPT !.status = status, !.manual = TRUE, !.paidAt = at]
           = [amount |-> invoice.amount, due |-> invoice.due, status |-> status,
              manual |-> TRUE, paidAt |-> at]
    BY <1>1
  <1>. QED BY <1>2, <1>3, <1>4 DEF automatic, status, at

\* What the reconciliation makes of an invoice, or of none, that it keeps.
Drawn(s, key, old) ==
    [amount |-> Positive(Gross(s, key[1], key[2]) - CreditTotal(s, key[1], key[2])),
     due |-> DueDate(s.cards[key[1]], key[2]),
     status |-> "SCHEDULED",
     manual |-> old # None /\ old.manual,
     paidAt |-> IF old = None THEN None ELSE old.paidAt]

Resettled(s, key, old, rows, date) ==
    Settled(Drawn(s, key, old), key, s.cards[key[1]], rows,
            Positive(Gross(s, key[1], key[2]) - CreditsPostedBy(s, key[1], key[2], date)), date)

LEMMA SyncedIs ==
  ASSUME NEW s, SourcesTyped(s), SoundItems(s.items), today \in Date, DaysLived,
         NEW key \in InvoiceKeys
  PROVE  SyncedInvoice(s, key) = IF IsComputed(s, key) \/ IsKept(key)
                                 THEN Resettled(s, key, invoices[key], payments, today)
                                 ELSE None
  BY ComputedIsGross DEF SyncedInvoice, Resettled, Drawn

LEMMA DrawnIsInvoice ==
  ASSUME NEW s, SourcesTyped(s), NEW key \in InvoiceKeys,
         key[2] =< LastDay.month + ProjectionMonths, NEW old \in Invoice \union {None}
  PROVE  /\ Drawn(s, key, old) \in Invoice
         /\ Drawn(s, key, old).manual = (old # None /\ old.manual)
  <1>1. DueDate(s.cards[key[1]], key[2]) \in Date
    <2>1. s.cards[key[1]] \in Setting /\ key[2] \in Months
      BY InputAssumption DEF SourcesTyped, InvoiceKeys
    <2>. QED BY <2>1, DueDateIsDate
  <1>2. Positive(Gross(s, key[1], key[2]) - CreditTotal(s, key[1], key[2])) \in Nat
    BY PositiveIsNat
  <1>3. /\ (old # None /\ old.manual) \in BOOLEAN
        /\ (IF old = None THEN None ELSE old.paidAt) \in Date \union {None}
    BY DEF Invoice
  <1>. QED BY <1>1, <1>2, <1>3 DEF Drawn, Invoice, Statuses

\* Drawn anew from the same sources, an invoice differs in the mode and in the
\* day it was paid, and settling it a second time changes nothing.
LEMMA ResettledTwice ==
  ASSUME NEW s, SourcesTyped(s), NEW key \in InvoiceKeys,
         key[2] =< LastDay.month + ProjectionMonths, NEW old \in Invoice \union {None},
         NEW rows \in [PaymentKeys -> Payment \union {None}], NEW date \in Date,
         NEW new, new = Resettled(s, key, old, rows, date)
  PROVE  new \in Invoice /\ new = Resettled(s, key, new, rows, date)
  <1>. DEFINE card == s.cards[key[1]]
              statement == Positive(Gross(s, key[1], key[2])
                                    - CreditsPostedBy(s, key[1], key[2], date))
              before == Drawn(s, key, old)
              after == Drawn(s, key, new)
  <1>1. /\ new = Settled(before, key, card, rows, statement, date)
        /\ Resettled(s, key, new, rows, date)
             = Settled(after, key, card, rows, statement, date)
    BY DEF Resettled
  <1>2. before \in Invoice
    BY DrawnIsInvoice
  <1>3. after.amount = before.amount /\ after.due = before.due
    BY DEF Drawn
  <1>. HIDE DEF card, statement, before
  <1>4. new \in Invoice /\ new # None /\ new.manual \in BOOLEAN
    <2>1. new \in Invoice
      BY <1>1, <1>2, SettledIsInvoice
    <2>. QED BY <2>1, AbsenceAssumption DEF Invoice
  <1>5. after \in Invoice /\ after.manual = new.manual /\ after.paidAt = new.paidAt
    <2>1. after \in Invoice /\ after.manual = (new # None /\ new.manual)
      BY <1>4, DrawnIsInvoice
    <2>2. after.paidAt = new.paidAt
      BY <1>4 DEF Drawn
    <2>. QED BY <1>4, <2>1, <2>2
  <1>. HIDE DEF after
  <1>6. CASE AsksConfirmation(card, before)
    <2>. DEFINE status == ManualStatus(rows, key, before.due, statement, date)
                paidOn == PaidOn(rows, key, statement, date)
    <2>1. new = [amount |-> before.amount, due |-> before.due, status |-> status,
                 manual |-> TRUE, paidAt |-> paidOn]
      BY <1>1, <1>2, <1>6, SettledIs
    <2>2. AsksConfirmation(card, after)
      BY <1>5, <2>1 DEF AsksConfirmation
    <2>3. Settled(after, key, card, rows, statement, date)
            = [amount |-> before.amount, due |-> before.due, status |-> status,
               manual |-> TRUE, paidAt |-> paidOn]
      BY <1>3, <1>5, <2>2, SettledIs
    <2>. QED BY <1>1, <1>4, <2>1, <2>3
  <1>7. CASE ~AsksConfirmation(card, before)
    <2>. DEFINE status == IF NotAfter(before.due, date) THEN "PAID" ELSE "SCHEDULED"
    <2>1. new = [amount |-> before.amount, due |-> before.due, status |-> status,
                 manual |-> FALSE, paidAt |-> before.paidAt]
      BY <1>1, <1>2, <1>7, SettledIs
    <2>2. new.manual = FALSE /\ new.paidAt = before.paidAt
      BY <2>1
    <2>3. ~AsksConfirmation(card, after)
      BY <1>3, <1>5, <1>7, <2>2 DEF AsksConfirmation
    <2>4. Settled(after, key, card, rows, statement, date)
            = [amount |-> before.amount, due |-> before.due, status |-> status,
               manual |-> FALSE, paidAt |-> before.paidAt]
      BY <1>3, <1>5, <2>2, <2>3, SettledIs
    <2>. QED BY <1>1, <1>4, <2>1, <2>4
  <1>. QED BY <1>6, <1>7

\* A settlement depends on the payments of its own invoice alone.
LEMMA OthersPaymentsDoNotCount ==
  ASSUME NEW rows \in [PaymentKeys -> Payment \union {None}],
         NEW other \in [PaymentKeys -> Payment \union {None}],
         NEW key, PaymentsOf(rows, key) = PaymentsOf(other, key),
         \A k \in PaymentsOf(rows, key) : rows[k] = other[k],
         NEW invoice, NEW card, NEW statement, NEW cutoff
  PROVE  Settled(invoice, key, card, rows, statement, cutoff)
           = Settled(invoice, key, card, other, statement, cutoff)
  <1>. DEFINE some == ConfirmedBy(rows, key, cutoff)
  <1>1. ConfirmedBy(other, key, cutoff) = some /\ some \in SUBSET PaymentKeys
    BY DEF ConfirmedBy, PaymentsOf
  <1>2. \A k \in some : rows[k] = other[k]
    BY DEF ConfirmedBy
  <1>. HIDE DEF some
  <1>3. SumPayments(rows, some) = SumPayments(other, some)
    BY <1>1, <1>2, SamePayments
  <1>4. {rows[k].date : k \in some} = {other[k].date : k \in some}
    BY <1>2
  <1>. QED BY <1>1, <1>3, <1>4 DEF Settled, ConfirmedBy, some

\* Settling an invoice after a payment changed (_refresh) counts the credits that
\* the reconciliation counts, whether or not some are dated in the future.
LEMMA StatementsAgree ==
  ASSUME NEW s, SourcesTyped(s), NEW key \in InvoiceKeys, NEW date \in Date, NEW invoice,
         invoice.amount = Positive(Gross(s, key[1], key[2]) - CreditTotal(s, key[1], key[2]))
  PROVE  StatementAmountAt(s, invoice, key, date)
           = Positive(Gross(s, key[1], key[2]) - CreditsPostedBy(s, key[1], key[2], date))
  <1>. DEFINE future == {k \in CreditsOf(s, key[1], key[2]) : Before(date, s.credits[k].date)}
  <1>1. CASE future = {}
    <2>1. CreditsPostedBy(s, key[1], key[2], date) = CreditTotal(s, key[1], key[2])
      <3>1. key[1] \in CardIds /\ key[2] \in Months
        BY DEF InvoiceKeys
      <3>2. \A k \in CreditsOf(s, key[1], key[2]) : ~Before(date, s.credits[k].date)
        BY <1>1
      <3>. QED BY <3>1, <3>2, AllCreditsPosted
    <2>. QED BY <1>1, <2>1 DEF StatementAmountAt
  <1>2. CASE future # {}
    BY <1>2 DEF StatementAmountAt
  <1>. QED BY <1>1, <1>2
-----------------------------------------------------------------------------
(* Reconciling again changes nothing.                                      *)

\* Every derived row is what a reconciliation on the sources of today makes of
\* it, but for an invoice that nothing asks for and that is left as it was.
IsReconciled ==
    /\ \A key \in InvoiceKeys :
          IF invoices[key] = None THEN ~IsComputed(Sources, key)
          ELSE invoices[key] = Resettled(Sources, key, invoices[key], payments, today)
    /\ invoiceMoves = [key \in InvoiceKeys |-> SyncedInvoiceMove(Sources, key, invoices[key])]
    /\ itemMoves = [key \in ItemIds \X Months |-> SyncedItemMove(Sources, key[1], key[2])]

FreshInv == NotAfter(syncedOn, today) /\ (Fresh => IsReconciled)

\* Only the sources and the day decide what is computed and moved.
LEMMA ComputedLater ==
  ASSUME today' = today, NEW s, s = Sources'
  PROVE  /\ \A key \in InvoiceKeys :
               /\ IsComputed(Sources, key)' <=> IsComputed(s, key)
               /\ ComputedAmount(Sources, key)' = ComputedAmount(s, key)
               /\ SyncedInvoiceMove(Sources, key, invoices[key])'
                    = SyncedInvoiceMove(s, key, invoices'[key])
         /\ \A i \in ItemIds, m \in Months :
               SyncedItemMove(Sources, i, m)' = SyncedItemMove(s, i, m)
  <1>1. ASSUME NEW key \in InvoiceKeys
        PROVE  /\ IsComputed(Sources, key)' <=> IsComputed(s, key)
               /\ ComputedAmount(Sources, key)' = ComputedAmount(s, key)
    BY DEF IsComputed, ComputedAmount
  <1>2. ASSUME NEW key \in InvoiceKeys
        PROVE  SyncedInvoiceMove(Sources, key, invoices[key])'
                 = SyncedInvoiceMove(s, key, invoices'[key])
    BY <1>1 DEF SyncedInvoiceMove, AutomaticDebit
  <1>3. ASSUME NEW i \in ItemIds, NEW m \in Months
        PROVE  SyncedItemMove(Sources, i, m)' = SyncedItemMove(s, i, m)
    BY DEF SyncedItemMove
  <1>. QED BY <1>1, <1>2, <1>3

LEMMA ReconcileIsFresh ==
  ASSUME LedgerInv, SourcesTyped(Sources)', SoundItems(items)',
         Reconcile(Sources'), UNCHANGED <<today, payments, paymentMoves>>
  PROVE  FreshInv'
  <1>1. PICK s : s = Sources'
    OBVIOUS
  <1>2. SourcesTyped(s) /\ SoundItems(s.items)
    BY <1>1 DEF SourcesTyped, Sources, SoundItems
  <1>3. /\ today \in Date /\ DaysLived /\ InvoicesWithinReach
        /\ payments \in [PaymentKeys -> Payment \union {None}]
        /\ invoices \in [InvoiceKeys -> Invoice \union {None}]
    BY InputAssumption DEF LedgerInv, TypeOK, SourcesOK, DerivedOK
  <1>4. /\ invoices' = [key \in InvoiceKeys |-> SyncedInvoice(s, key)]
        /\ invoiceMoves' = [key \in InvoiceKeys |-> SyncedInvoiceMove(s, key, invoices'[key])]
        /\ itemMoves' = [key \in ItemIds \X Months |-> SyncedItemMove(s, key[1], key[2])]
        /\ syncedOn' = today
    BY <1>1 DEF Reconcile
  <1>5. ASSUME NEW key \in InvoiceKeys
        PROVE  IF invoices'[key] = None THEN ~IsComputed(s, key)
               ELSE invoices'[key] = Resettled(s, key, invoices'[key], payments, today)
    <2>1. invoices'[key] = IF IsComputed(s, key) \/ IsKept(key)
                           THEN Resettled(s, key, invoices[key], payments, today)
                           ELSE None
      BY <1>2, <1>3, <1>4, SyncedIs
    <2>2. CASE IsComputed(s, key) \/ IsKept(key)
      <3>1. key[2] =< LastDay.month + ProjectionMonths
        BY <1>2, <1>3, <2>2, ComputedIsWithinReach DEF IsKept, InvoicesWithinReach
      <3>2. /\ invoices'[key] \in Invoice
            /\ invoices'[key] = Resettled(s, key, invoices'[key], payments, today)
        <4>1. invoices[key] \in Invoice \union {None}
          BY <1>3
        <4>2. invoices'[key] = Resettled(s, key, invoices[key], payments, today)
          BY <2>1, <2>2
        <4>3. PICK old, new, rows, date : /\ old = invoices[key] /\ new = invoices'[key]
                                          /\ rows = payments /\ date = today
          OBVIOUS
        <4>4. /\ rows \in [PaymentKeys -> Payment \union {None}] /\ date \in Date
              /\ old \in Invoice \union {None} /\ new = Resettled(s, key, old, rows, date)
          BY <1>3, <4>1, <4>2, <4>3
        <4>5. new \in Invoice /\ new = Resettled(s, key, new, rows, date)
          BY <1>2, <3>1, <4>4, ResettledTwice
        <4>. QED BY <4>3, <4>5
      <3>. QED BY <3>2, AbsenceAssumption
    <2>3. CASE ~(IsComputed(s, key) \/ IsKept(key))
      BY <2>1, <2>3
    <2>. QED BY <2>2, <2>3
  <1>6. \A key \in InvoiceKeys :
           IF invoices'[key] = None THEN ~IsComputed(Sources, key)'
           ELSE invoices'[key] = Resettled(Sources', key, invoices'[key], payments', today')
    BY <1>1, <1>5, ComputedLater
  <1>7. /\ invoiceMoves' = [key \in InvoiceKeys |->
                               SyncedInvoiceMove(Sources, key, invoices[key])']
        /\ itemMoves' = [key \in ItemIds \X Months |->
                            SyncedItemMove(Sources, key[1], key[2])']
    BY <1>1, <1>4, ComputedLater
  <1>8. NotAfter(syncedOn', today')
    BY <1>4 DEF NotAfter
  <1>. QED BY <1>6, <1>7, <1>8 DEF FreshInv, IsReconciled

\* Settling a manual invoice again, for other payments than it was settled for,
\* gives what the reconciliation would make of it.
LEMMA RefreshedIsResettled ==
  ASSUME NEW s, SourcesTyped(s), NEW key \in InvoiceKeys,
         key[2] =< LastDay.month + ProjectionMonths, NEW date \in Date,
         NEW was \in [PaymentKeys -> Payment \union {None}],
         NEW rows \in [PaymentKeys -> Payment \union {None}],
         NEW old \in Invoice, old.manual, old = Resettled(s, key, old, was, date),
         NEW new,
         new = Settled(old, key, s.cards[key[1]], rows,
                       StatementAmountAt(s, old, key, date), date)
  PROVE  new \in Invoice /\ new.manual /\ new = Resettled(s, key, new, rows, date)
  <1>. DEFINE statement == Positive(Gross(s, key[1], key[2])
                                    - CreditsPostedBy(s, key[1], key[2], date))
              card == s.cards[key[1]]
              again == Drawn(s, key, new)
  <1>1. Drawn(s, key, old) \in Invoice
    BY DrawnIsInvoice
  <1>2. /\ old.amount = Positive(Gross(s, key[1], key[2]) - CreditTotal(s, key[1], key[2]))
        /\ old.due = DueDate(s.cards[key[1]], key[2])
    BY <1>1, SettledIs DEF Resettled, Drawn
  <1>3. StatementAmountAt(s, old, key, date) = statement
    BY <1>2, StatementsAgree
  <1>4. /\ new = Settled(old, key, card, rows, statement, date)
        /\ Resettled(s, key, new, rows, date)
             = Settled(again, key, card, rows, statement, date)
    BY <1>3 DEF Resettled
  <1>5. again.amount = old.amount /\ again.due = old.due
    BY <1>2 DEF Drawn
  <1>. HIDE DEF statement, card
  <1>6. new \in Invoice /\ new.manual /\ new # None
    <2>1. new \in Invoice /\ new.manual
      BY <1>4, SettledIsInvoice
    <2>. QED BY <2>1, AbsenceAssumption
  <1>7. again \in Invoice /\ again.manual
    BY <1>6, DrawnIsInvoice
  <1>. HIDE DEF again
  <1>8. AsksConfirmation(card, old) /\ AsksConfirmation(card, again)
    BY <1>7 DEF AsksConfirmation
  <1>. DEFINE status == ManualStatus(rows, key, old.due, statement, date)
              paidOn == PaidOn(rows, key, statement, date)
  <1>9. new = [amount |-> old.amount, due |-> old.due, status |-> status,
               manual |-> TRUE, paidAt |-> paidOn]
    BY <1>4, <1>8, SettledIs
  <1>10. Settled(again, key, card, rows, statement, date)
           = [amount |-> old.amount, due |-> old.due, status |-> status,
              manual |-> TRUE, paidAt |-> paidOn]
    BY <1>5, <1>7, <1>8, SettledIs
  <1>. QED BY <1>4, <1>6, <1>9, <1>10

LEMMA OthersStay ==
  ASSUME NEW rows \in [PaymentKeys -> Payment \union {None}],
         NEW other \in [PaymentKeys -> Payment \union {None}],
         NEW key, PaymentsOf(rows, key) = PaymentsOf(other, key),
         \A k \in PaymentsOf(rows, key) : rows[k] = other[k],
         NEW s, NEW old, NEW date
  PROVE  Resettled(s, key, old, rows, date) = Resettled(s, key, old, other, date)
  BY OthersPaymentsDoNotCount DEF Resettled

\* Confirming, correcting or deleting a payment settles its invoice as the
\* reconciliation would, and no other.
LEMMA PaymentStepIsFresh ==
  ASSUME LedgerInv, FreshInv, NEW k \in PaymentKeys, NEW key \in InvoiceKeys,
         NEW row \in PaymentInputs \union {None},
         invoices[key] # None, invoices[key].manual,
         payments[k] # None => payments[k].invoice = key,
         row # None => row.invoice = key,
         payments' = [payments EXCEPT ![k] = row],
         invoices' = [invoices EXCEPT ![key] = Refreshed(key, payments')],
         UNCHANGED <<today, sourceVars, itemMoves, invoiceMoves, syncedOn>>
  PROVE  FreshInv'
  <1>1. /\ Sources' = Sources /\ today' = today /\ syncedOn' = syncedOn
        /\ itemMoves' = itemMoves /\ invoiceMoves' = invoiceMoves
    BY DEF Sources, sourceVars
  <1>2. PICK s : s = Sources
    OBVIOUS
  <1>3. SourcesTyped(s) /\ SoundItems(s.items)
    BY <1>2, SourcesAreTyped DEF Sources
  <1>4. /\ today \in Date /\ InvoicesWithinReach
        /\ payments \in [PaymentKeys -> Payment \union {None}]
        /\ payments' \in [PaymentKeys -> Payment \union {None}]
        /\ invoices \in [InvoiceKeys -> Invoice \union {None}]
    BY InputAssumption DEF LedgerInv, TypeOK, SourcesOK, DerivedOK
  <1>. SUFFICES ASSUME Fresh PROVE IsReconciled'
    BY <1>1 DEF FreshInv, Fresh
  <1>5. IsReconciled
    BY DEF FreshInv
  <1>. PICK rows : rows = payments'
    OBVIOUS
  <1>6. /\ invoices'[key] = Refreshed(key, rows)
        /\ \A other \in InvoiceKeys \ {key} : invoices'[other] = invoices[other]
    BY <1>4
  <1>0. rows \in [PaymentKeys -> Payment \union {None}]
    BY <1>4
  <1>7. /\ invoices'[key] # None /\ invoices'[key].manual
        /\ invoices'[key] = Resettled(s, key, invoices'[key], rows, today)
    <2>1. PICK old : old = invoices[key]
      OBVIOUS
    <2>2. old \in Invoice /\ old.manual
      BY <1>4, <2>1
    <2>3. old = Resettled(s, key, old, payments, today)
      BY <1>2, <1>5, <2>1 DEF IsReconciled
    <2>4. key[2] =< LastDay.month + ProjectionMonths
      BY <1>4 DEF InvoicesWithinReach
    <2>5. PICK new : new = invoices'[key]
      OBVIOUS
    <2>6. new = Settled(old, key, s.cards[key[1]], rows,
                        StatementAmountAt(s, old, key, today), today)
      BY <1>2, <1>6, <2>1, <2>5 DEF Refreshed, Sources
    <2>7. new \in Invoice /\ new.manual /\ new = Resettled(s, key, new, rows, today)
      BY ONLY <1>0, <1>3, <1>4, <2>2, <2>3, <2>4, <2>6, RefreshedIsResettled,
              key \in InvoiceKeys
    <2>. QED BY <2>5, <2>7, AbsenceAssumption
  <1>8. ASSUME NEW other \in InvoiceKeys \ {key}
        PROVE  IF invoices'[other] = None THEN ~IsComputed(s, other)
               ELSE invoices'[other] = Resettled(s, other, invoices'[other], rows, today)
    <2>1. /\ PaymentsOf(rows, other) = PaymentsOf(payments, other)
          /\ \A j \in PaymentsOf(payments, other) : payments[j] = rows[j]
      BY <1>4 DEF PaymentsOf
    <2>2. Resettled(s, other, invoices[other], payments, today)
            = Resettled(s, other, invoices[other], rows, today)
      BY ONLY <1>0, <1>4, <2>1, OthersStay
    <2>. QED BY <1>2, <1>5, <1>6, <2>2 DEF IsReconciled
  <1>9. \A other \in InvoiceKeys :
           IF invoices'[other] = None THEN ~IsComputed(Sources, other)'
           ELSE invoices'[other] = Resettled(Sources', other, invoices'[other], payments', today')
    BY <1>1, <1>2, <1>7, <1>8, ComputedLater
  <1>10. \A other \in InvoiceKeys :
            SyncedInvoiceMove(s, other, invoices'[other])
              = SyncedInvoiceMove(s, other, invoices[other])
    <2>1. /\ SyncedInvoiceMove(s, key, invoices'[key]) = None
          /\ SyncedInvoiceMove(s, key, invoices[key]) = None
      BY <1>7 DEF SyncedInvoiceMove
    <2>. QED BY <1>6, <2>1
  <1>11. invoiceMoves' = [other \in InvoiceKeys |->
                             SyncedInvoiceMove(Sources, other, invoices[other])']
    <2>1. \A other \in InvoiceKeys :
             SyncedInvoiceMove(Sources, other, invoices[other])'
               = SyncedInvoiceMove(s, other, invoices[other])
      BY <1>1, <1>2, <1>10, ComputedLater
    <2>2. invoiceMoves' = [other \in InvoiceKeys |->
                              SyncedInvoiceMove(s, other, invoices[other])]
      BY <1>1, <1>2, <1>5 DEF IsReconciled
    <2>. QED BY <2>1, <2>2
  <1>12. itemMoves' = [other \in ItemIds \X Months |->
                          SyncedItemMove(Sources, other[1], other[2])']
    BY <1>1, <1>2, <1>5, ComputedLater DEF IsReconciled
  <1>. QED BY <1>9, <1>11, <1>12 DEF IsReconciled

LEMMA InitIsFresh == Init => FreshInv
  <1>. SUFFICES ASSUME Init PROVE FreshInv
    OBVIOUS
  <1>1. NotAfter(syncedOn, today)
    BY DEF Init, NotAfter
  <1>2. ASSUME NEW key \in InvoiceKeys
        PROVE  invoices[key] = None /\ ~IsComputed(Sources, key)
    <2>1. CardItems(Sources, key[1]) = {} /\ CreditsOf(Sources, key[1], key[2]) = {}
      BY DEF Init, Sources, CardItems, CreditsOf
    <2>. QED BY <1>2, <2>1 DEF Init, IsComputed, Billed
  <1>3. \A key \in InvoiceKeys : SyncedInvoiceMove(Sources, key, invoices[key]) = None
    BY <1>2 DEF SyncedInvoiceMove
  <1>4. \A key \in ItemIds \X Months : SyncedItemMove(Sources, key[1], key[2]) = None
    BY DEF Init, Sources, SyncedItemMove
  <1>. QED BY <1>1, <1>2, <1>3, <1>4 DEF Init, FreshInv, IsReconciled

\* A request that writes sources ends in a reconciliation.
LEMMA WrittenSourcesAreFresh ==
  ASSUME LedgerInv, NEW W,
         W <=> \/ \E i \in ItemIds : (\E item \in ItemInputs : SaveItem(i, item)) \/ DeleteItem(i)
               \/ \E c \in CardIds, settings \in SettingInputs : SaveCard(c, settings)
               \/ \E k \in CreditKeys :
                     (\E credit \in CreditInputs : SaveCredit(k, credit)) \/ DeleteCredit(k)
               \/ OpenPage,
         W
  PROVE  FreshInv'
  <1>1. LedgerInv'
    BY SaveItemKeepsInv, DeleteItemKeepsInv, SaveCardKeepsInv, CreditsKeepInv, OpenPageKeepsInv
  <1>2. SourcesTyped(Sources)' /\ SoundItems(items)'
    BY <1>1 DEF LedgerInv, TypeOK, SourcesOK, SourcesTyped, Sources
  <1>3. Reconcile(Sources') /\ UNCHANGED <<today, payments, paymentMoves>>
    <2>1. OpenPage => Sources' = Sources
      BY DEF OpenPage, sourceVars, Sources
    <2>. QED BY <2>1 DEF SaveItem, DeleteItem, SaveCard, SaveCredit, DeleteCredit, OpenPage
  <1>. QED BY <1>2, <1>3, ReconcileIsFresh

LEMMA PaymentsAreFresh ==
  ASSUME LedgerInv, FreshInv, NEW k \in PaymentKeys,
         \/ \E payment \in PaymentInputs : SavePayment(k, payment)
         \/ DeletePayment(k)
  PROVE  FreshInv'
  <1>1. ASSUME NEW payment \in PaymentInputs, SavePayment(k, payment)
        PROVE  FreshInv'
    <2>1. payment.invoice \in InvoiceKeys
      BY InputAssumption DEF Payment
    <2>2. /\ invoices[payment.invoice] # None /\ invoices[payment.invoice].manual
          /\ payments[k] # None => payments[k].invoice = payment.invoice
          /\ payments' = [payments EXCEPT ![k] = payment]
          /\ invoices' = [invoices EXCEPT ![payment.invoice] =
                             Refreshed(payment.invoice, payments')]
          /\ UNCHANGED <<today, sourceVars, itemMoves, invoiceMoves, syncedOn>>
      BY <1>1 DEF SavePayment
    <2>. QED BY <2>1, <2>2, PaymentStepIsFresh
  <1>2. ASSUME DeletePayment(k)
        PROVE  FreshInv'
    <2>1. payments[k] # None
      BY <1>2 DEF DeletePayment
    <2>2. /\ payments[k].invoice \in InvoiceKeys
          /\ invoices[payments[k].invoice] # None /\ invoices[payments[k].invoice].manual
      BY <2>1, InputAssumption DEF LedgerInv, TypeOK, SourcesOK, Payment, PaymentsAreBacked
    <2>3. /\ payments' = [payments EXCEPT ![k] = None]
          /\ invoices' = [invoices EXCEPT ![payments[k].invoice] =
                             Refreshed(payments[k].invoice, payments')]
          /\ UNCHANGED <<today, sourceVars, itemMoves, invoiceMoves, syncedOn>>
      BY <1>2 DEF DeletePayment
    <2>. QED BY <2>2, <2>3, PaymentStepIsFresh
  <1>. QED BY <1>1, <1>2

\* Days do not come back.
LEMMA NextDayIsLater ==
  ASSUME NEW d \in Date, NEW e \in Date, NotAfter(e, d)
  PROVE  NotAfter(e, NextDay(d)) /\ e # NextDay(d)
  <1>1. CASE d.day < DaysIn[d.month]
    <2>1. NextDay(d) = [month |-> d.month, day |-> d.day + 1]
      BY <1>1, DateFields DEF NextDay
    <2>2. Before(e, NextDay(d))
      BY <2>1, DateFields DEF NotAfter, Before
    <2>. QED BY <2>1, <2>2, DateFields DEF NotAfter, Before
  <1>2. CASE ~(d.day < DaysIn[d.month])
    <2>1. NextDay(d) = [month |-> d.month + 1, day |-> 1]
      BY <1>2 DEF NextDay
    <2>2. Before(e, NextDay(d))
      BY <2>1, DateFields DEF NotAfter, Before
    <2>. QED BY <2>1, <2>2, DateFields DEF NotAfter, Before
  <1>. QED BY <1>1, <1>2

LEMMA NextKeepsFresh == LedgerInv /\ FreshInv /\ [Next]_vars => FreshInv'
  <1>. SUFFICES ASSUME LedgerInv, FreshInv, [Next]_vars PROVE FreshInv'
    OBVIOUS
  <1>1. ASSUME NEW k \in PaymentKeys,
               (\E payment \in PaymentInputs : SavePayment(k, payment)) \/ DeletePayment(k)
        PROVE  FreshInv'
    BY <1>1, PaymentsAreFresh
  <1>2. CASE NewDay
    <2>1. today \in Date /\ syncedOn \in Date /\ NotAfter(syncedOn, today)
      BY DEF LedgerInv, TypeOK, SourcesOK, FreshInv
    <2>2. today' = NextDay(today) /\ syncedOn' = syncedOn
      BY <1>2 DEF NewDay
    <2>. QED BY <2>1, <2>2, NextDayIsLater DEF FreshInv, Fresh
  <1>3. CASE UNCHANGED vars
    <2>1. IsReconciled => IsReconciled'
      <3>. SUFFICES ASSUME IsReconciled PROVE IsReconciled'
        OBVIOUS
      <3>1. PICK s : s = Sources
        OBVIOUS
      <3>2. /\ Sources' = s /\ today' = today /\ payments' = payments
            /\ invoices' = invoices /\ invoiceMoves' = invoiceMoves /\ itemMoves' = itemMoves
        BY <1>3, <3>1 DEF vars, Sources
      <3>3. \A key \in InvoiceKeys :
               IF invoices'[key] = None THEN ~IsComputed(Sources, key)'
               ELSE invoices'[key] = Resettled(Sources', key, invoices'[key], payments', today')
        BY <3>1, <3>2, ComputedLater DEF IsReconciled
      <3>4. invoiceMoves' = [key \in InvoiceKeys |->
                                SyncedInvoiceMove(Sources, key, invoices[key])']
        <4>1. \A key \in InvoiceKeys :
                 SyncedInvoiceMove(Sources, key, invoices[key])'
                   = SyncedInvoiceMove(s, key, invoices[key])
          BY <3>2, ComputedLater
        <4>2. invoiceMoves' = [key \in InvoiceKeys |->
                                  SyncedInvoiceMove(s, key, invoices[key])]
          BY <3>1, <3>2 DEF IsReconciled
        <4>. QED BY <4>1, <4>2
      <3>5. itemMoves' = [key \in ItemIds \X Months |->
                             SyncedItemMove(Sources, key[1], key[2])']
        BY <3>1, <3>2, ComputedLater DEF IsReconciled
      <3>. QED BY <3>3, <3>4, <3>5 DEF IsReconciled
    <2>. QED BY <1>3, <2>1 DEF vars, FreshInv, Fresh
  <1>4. CASE \/ \E i \in ItemIds :
                   (\E item \in ItemInputs : SaveItem(i, item)) \/ DeleteItem(i)
             \/ \E c \in CardIds, settings \in SettingInputs : SaveCard(c, settings)
             \/ \E k \in CreditKeys :
                   (\E credit \in CreditInputs : SaveCredit(k, credit)) \/ DeleteCredit(k)
             \/ OpenPage
    BY <1>4, WrittenSourcesAreFresh
  <1>. QED BY <1>1, <1>2, <1>3, <1>4 DEF Next

LEMMA FreshInvariant == Spec => [](LedgerInv /\ FreshInv)
  <1>1. Init => LedgerInv /\ FreshInv
    BY InitEstablishesInv, InitIsFresh
  <1>2. LedgerInv /\ FreshInv /\ [Next]_vars => LedgerInv' /\ FreshInv'
    BY NextKeepsInv, NextKeepsFresh
  <1>. QED BY <1>1, <1>2, PTL DEF Spec

\* On every day, for any history of purchases, credits and payments, a second
\* reconciliation would change no row: sync_user_ledger and the settlement of a
\* single invoice (_refresh) agree on every statement.
THEOREM ReconcilingAgainIsIdle == Spec => []ReconcileIsIdempotent
  <1>1. LedgerInv /\ FreshInv => ReconcileIsIdempotent
    <2>. SUFFICES ASSUME LedgerInv, FreshInv, Fresh
                  PROVE  /\ \A key \in InvoiceKeys :
                               \/ invoices[key] = SyncedInvoice(Sources, key)
                               \/ ~IsComputed(Sources, key) /\ ~IsKept(key)
                         /\ invoiceMoves = [key \in InvoiceKeys |->
                               SyncedInvoiceMove(Sources, key, invoices[key])]
                         /\ itemMoves = [key \in ItemIds \X Months |->
                               SyncedItemMove(Sources, key[1], key[2])]
      BY DEF ReconcileIsIdempotent
    <2>1. IsReconciled
      BY DEF FreshInv
    <2>2. /\ SourcesTyped(Sources) /\ SoundItems(Sources.items)
          /\ today \in Date /\ DaysLived
      BY SourcesAreTyped DEF Sources, LedgerInv, TypeOK, SourcesOK
    <2>3. ASSUME NEW key \in InvoiceKeys
          PROVE  \/ invoices[key] = SyncedInvoice(Sources, key)
                 \/ ~IsComputed(Sources, key) /\ ~IsKept(key)
      BY <2>1, <2>2, SyncedIs DEF IsReconciled, IsKept
    <2>. QED BY <2>1, <2>3 DEF IsReconciled
  <1>. QED BY <1>1, FreshInvariant, PTL
-----------------------------------------------------------------------------
(* Statements are whole.                                                   *)

LEMMA PaidIsCovered == LedgerInv /\ FreshInv => PaidMeansCovered
  <1>. SUFFICES ASSUME LedgerInv, FreshInv, Fresh, NEW key \in InvoiceKeys,
                       invoices[key] # None, invoices[key].manual,
                       invoices[key].status = "PAID"
                PROVE  SumPayments(payments, PaymentsOf(payments, key))
                         >= Gross(Sources, key[1], key[2])
                              - CreditsPostedBy(Sources, key[1], key[2], today)
    BY DEF PaidMeansCovered
  <1>. DEFINE bill == Gross(Sources, key[1], key[2])
                        - CreditsPostedBy(Sources, key[1], key[2], today)
              statement == Positive(bill)
              card == Sources.cards[key[1]]
              drawn == Drawn(Sources, key, invoices[key])
              rows == PaymentsOf(payments, key)
              some == ConfirmedBy(payments, key, today)
  <1>1. /\ SourcesTyped(Sources) /\ today \in Date
        /\ invoices[key] \in Invoice /\ key[2] =< LastDay.month + ProjectionMonths
        /\ payments \in [PaymentKeys -> Payment \union {None}]
        /\ key[1] \in CardIds /\ key[2] \in Months
    BY SourcesAreTyped, InputAssumption
       DEF LedgerInv, TypeOK, SourcesOK, DerivedOK, InvoicesWithinReach, InvoiceKeys
  <1>2. bill \in Int
    BY <1>1, StatementAmounts, CreditSums
  <1>3. drawn \in Invoice
    BY <1>1, DrawnIsInvoice
  <1>4. invoices[key] = Settled(drawn, key, card, payments, statement, today)
    BY DEF FreshInv, IsReconciled, Resettled
  <1>5. /\ SumPayments(payments, rows) \in Nat
        /\ SumPayments(payments, some) =< SumPayments(payments, rows)
        /\ SumPayments(payments, some) \in Nat
    <2>1. rows \in SUBSET PaymentKeys /\ some \in SUBSET rows /\ \A k \in rows : payments[k] # None
      BY DEF PaymentsOf, ConfirmedBy
    <2>2. some \in SUBSET PaymentKeys /\ \A k \in some : payments[k] # None
      BY <2>1
    <2>. HIDE DEF rows, some
    <2>3. /\ SumPayments(payments, rows) \in Nat
          /\ SumPayments(payments, some) =< SumPayments(payments, rows)
      BY <1>1, <2>1, PaymentSums
    <2>4. SumPayments(payments, some) \in Nat
      BY <1>1, <2>2, PaymentSums
    <2>. QED BY <2>3, <2>4
  <1>6. statement =< SumPayments(payments, some)
    <2>. HIDE DEF statement, card, drawn, some
    <2>1. AsksConfirmation(card, drawn)
      BY <1>3, <1>4, SettledIs
    <2>2. ManualStatus(payments, key, drawn.due, statement, today) = "PAID"
      BY <1>3, <1>4, <2>1, SettledIs
    <2>3. Covers(payments, key, statement, today)
      BY <2>2 DEF ManualStatus
    <2>. QED BY <2>3 DEF Covers, some
  <1>7. statement >= bill /\ statement \in Nat
    BY <1>2 DEF Positive
  <1>. HIDE DEF statement, bill, some, rows
  <1>8. SumPayments(payments, rows) >= bill
    BY <1>2, <1>5, <1>6, <1>7
  <1>. QED BY <1>8 DEF bill, rows

\* An item billed in a month adds to what it amounts to what it bills there.
LEMMA MonthsAddUp ==
  ASSUME NEW item \in Item, NEW card, NEW m \in Int,
         item.start \in 1 .. item.installments, IsPlan(item) => ~item.fixed
  PROVE  /\ AmountForMonth(item, card, m) \in Int
         /\ AmountThroughMonth(item, card, m) \in Int
         /\ AmountThroughMonth(item, card, m)
              = AmountThroughMonth(item, card, m - 1) + AmountForMonth(item, card, m)
         /\ m < BilledMonth(item, card) => AmountThroughMonth(item, card, m) = 0
  <1>. DEFINE billed == BilledMonth(item, card)
              offset == m - billed
              first == FirstInstallmentAmount(item)
              each == InstallmentAmount(item)
              last == LastFixedOffset(item)
              N == item.installments
              start == item.start
              events(o) == 1 + IF item.until = NoMonth THEN o ELSE Least(o, last)
              tracked(o) == TrackedInstallments(item, o)
              plan(o) == IF tracked(o) = 0 THEN 0
                         ELSE IF start = 1 THEN first + each * (tracked(o) - 1)
                         ELSE each * tracked(o)
              Through(o) == IF o < 0 THEN 0
                            ELSE IF item.fixed THEN item.amount * events(o)
                            ELSE IF IsPlan(item) THEN plan(o)
                            ELSE item.amount
              For(o) == IF o < 0 THEN 0
                        ELSE IF item.fixed
                        THEN IF item.until # NoMonth /\ o > last THEN 0 ELSE item.amount
                        ELSE IF IsPlan(item)
                        THEN IF o < start - 1 \/ o >= N THEN 0
                             ELSE IF o = 0 THEN first ELSE each
                        ELSE IF o = 0 THEN item.amount ELSE 0
  <1>1. /\ billed \in Int /\ offset \in Int /\ (m - 1) - billed = offset - 1
        /\ item.amount \in Int /\ N \in Nat \ {0} /\ start \in Nat /\ item.fixed \in BOOLEAN
        /\ start >= 1 /\ start =< N
    BY BilledMonthIsInteger, ItemFields
  <1>2. first \in Int /\ each \in Int
    <2>1. each \in Int
      BY <1>1 DEF InstallmentAmount
    <2>. QED BY <1>1, <2>1 DEF FirstInstallmentAmount
  <1>3. last \in Nat
    BY PositiveIsNat DEF LastFixedOffset
  <1>4. AmountForMonth(item, card, m) = For(offset)
    BY <1>1 DEF AmountForMonth
  <1>5. \A n \in Int : AmountThroughMonth(item, card, n) = Through(n - billed)
    <2>. TAKE n \in Int
    <2>1. PICK o \in Int : o = n - billed
      BY <1>1
    <2>2. CASE o < 0
      BY <1>1, <2>1, <2>2 DEF AmountThroughMonth
    <2>3. CASE o >= 0 /\ item.fixed
      BY <1>1, <2>1, <2>3 DEF AmountThroughMonth
    <2>4. CASE o >= 0 /\ ~item.fixed /\ IsPlan(item)
      BY <1>1, <2>1, <2>4 DEF AmountThroughMonth
    <2>5. CASE o >= 0 /\ ~item.fixed /\ ~IsPlan(item)
      BY <1>1, <2>1, <2>5 DEF AmountThroughMonth
    <2>. QED BY <1>1, <2>2, <2>3, <2>4, <2>5
  <1>6. \A o \in Int : /\ tracked(o) \in Nat
                       /\ o >= start - 1 /\ o < N => tracked(o) = o - start + 2
                       /\ o < start - 1 => tracked(o) = 0
                       /\ o >= N => tracked(o) = N - start + 1
    BY <1>1 DEF TrackedInstallments, Positive, Least
  <1>7. For(offset) \in Int
    BY <1>1, <1>2, <1>3
  <1>. HIDE DEF billed, offset, first, each, last, N, start, tracked
  <1>8. ASSUME NEW o \in Int PROVE Through(o) \in Int /\ Through(o) = Through(o - 1) + For(o)
    <2>1. CASE o < 0
      BY <2>1
    <2>2. CASE o >= 0 /\ item.fixed
      <3>1. events(o) \in Int /\ events(o - 1) \in Int /\ events(0) = 1
        BY <1>3 DEF Least
      <3>2. CASE o = 0
        BY <1>1, <2>2, <3>1, <3>2, <1>3
      <3>3. CASE o > 0
        <4>1. events(o) = IF item.until # NoMonth /\ o > last THEN events(o - 1)
                          ELSE events(o - 1) + 1
          BY <1>3, <3>3 DEF Least
        <4>2. \A a, e \in Int : a * e \in Int /\ a * (e + 1) = a * e + a
          OBVIOUS
        <4>. HIDE DEF events
        <4>3. Through(o) = item.amount * events(o) /\ Through(o - 1) = item.amount * events(o - 1)
          BY <2>2, <3>3
        <4>4. For(o) = IF item.until # NoMonth /\ o > last THEN 0 ELSE item.amount
          BY <2>2
        <4>. QED BY <1>1, <3>1, <4>1, <4>2, <4>3, <4>4
      <3>. QED BY <2>2, <3>2, <3>3
    <2>3. CASE o >= 0 /\ ~item.fixed /\ IsPlan(item)
      <3>1. \A a, e \in Int : a * e \in Int /\ a * (e + 1) = a * e + a /\ a * 0 = 0
        OBVIOUS
      <3>2. \A p \in Int : p >= -1 => plan(p) \in Int
        BY <1>2, <1>6, <3>1
      <3>3. Through(o) = plan(o) /\ For(o) = (IF o < start - 1 \/ o >= N THEN 0
                                             ELSE IF o = 0 THEN first ELSE each)
        <4>. HIDE DEF plan
        <4>1. Through(o) = plan(o)
          BY <2>3
        <4>2. For(o) = IF o < start - 1 \/ o >= N THEN 0 ELSE IF o = 0 THEN first ELSE each
          BY <1>1, <1>2, <2>3
        <4>. QED BY <4>1, <4>2
      <3>4. Through(o - 1) = plan(o - 1)
        BY <1>1, <1>6, <2>3
      <3>5. CASE o < start - 1
        BY <1>1, <1>6, <3>3, <3>4, <3>5
      <3>6. CASE o >= N
        <4>1. tracked(o) = N - start + 1 /\ tracked(o - 1) = N - start + 1
          BY <1>1, <1>6, <3>6
        <4>2. plan(o) = plan(o - 1)
          BY <4>1
        <4>. QED BY <3>2, <3>3, <3>4, <3>6, <4>2, <2>3
      <3>7. CASE o >= start - 1 /\ o < N
        <4>1. tracked(o) = o - start + 2 /\ tracked(o - 1) = o - start + 1
          BY <1>1, <1>6, <3>7
        <4>2. PICK t \in Nat : t = o - start + 1
          BY <1>1, <3>7
        <4>3. tracked(o) = t + 1 /\ tracked(o - 1) = t
          BY <1>1, <4>1, <4>2
        <4>4. CASE t = 0
          BY <1>1, <1>2, <3>1, <3>3, <3>4, <3>7, <4>2, <4>3, <4>4
        <4>5. CASE t > 0
          <5>1. CASE start = 1
            <6>1. plan(o) = first + each * t /\ plan(o - 1) = first + each * (t - 1)
              BY <4>3, <4>5, <5>1
            <6>2. each * t = each * (t - 1) + each /\ each * (t - 1) \in Int
              BY <1>2, <3>1, <4>5
            <6>3. For(o) = each
              BY <1>1, <3>3, <3>7, <4>2, <4>5, <5>1
            <6>. HIDE DEF plan, Through, For
            <6>. QED BY <1>2, <3>3, <3>4, <6>1, <6>2, <6>3
          <5>2. CASE start # 1
            <6>1. plan(o) = each * (t + 1) /\ plan(o - 1) = each * t
              BY <4>3, <4>5, <5>2
            <6>2. each * (t + 1) = each * t + each /\ each * t \in Int
              BY <1>2, <3>1
            <6>3. For(o) = each
              BY <1>1, <3>3, <3>7, <4>2, <4>5, <5>2
            <6>. HIDE DEF plan, Through, For
            <6>. QED BY <1>2, <3>3, <3>4, <6>1, <6>2, <6>3
          <5>. QED BY <5>1, <5>2
        <4>. QED BY <4>4, <4>5
      <3>. QED BY <1>1, <3>5, <3>6, <3>7
    <2>4. CASE o >= 0 /\ ~item.fixed /\ ~IsPlan(item)
      BY <1>1, <2>4
    <2>. QED BY <1>1, <2>1, <2>2, <2>3, <2>4
  <1>9. m < billed => offset < 0
    BY <1>1 DEF offset
  <1>10. /\ AmountThroughMonth(item, card, m) = Through(offset)
         /\ AmountThroughMonth(item, card, m - 1) = Through(offset - 1)
    BY <1>1, <1>5 DEF offset
  <1>. QED BY <1>1, <1>4, <1>7, <1>8, <1>9, <1>10 DEF billed

LEMMA BilledMonthIsNatural ==
  ASSUME NEW item \in Item, NEW card
  PROVE  BilledMonth(item, card) \in Nat
  BY ItemFields, OverrideAssumption DEF BilledMonth, BillingOffset, StatementMonth

\* Over the months of a calendar an item bills what it amounts to by the last.
LEMMA ItemAddsUp ==
  ASSUME NEW item \in Item, NEW card, NEW n \in Nat,
         item.start \in 1 .. item.installments, IsPlan(item) => ~item.fixed
  PROVE  SumFunctionOnSet([m \in 0 .. n |-> AmountForMonth(item, card, m)], 0 .. n)
           = AmountThroughMonth(item, card, n)
  <1>. DEFINE f == [m \in 0 .. n |-> AmountForMonth(item, card, m)]
              total == [m \in 0 .. n |-> AmountThroughMonth(item, card, m)]
  <1>1. \A m \in 0 .. n : f[m] \in Int
    BY MonthsAddUp
  <1>2. total[0] = f[0]
    <2>1. /\ AmountThroughMonth(item, card, 0)
               = AmountThroughMonth(item, card, 0 - 1) + AmountForMonth(item, card, 0)
          /\ AmountForMonth(item, card, 0) \in Int
      BY MonthsAddUp
    <2>2. 0 - 1 < BilledMonth(item, card)
      BY BilledMonthIsNatural
    <2>3. AmountThroughMonth(item, card, 0 - 1) = 0
      BY <2>2, MonthsAddUp
    <2>4. AmountThroughMonth(item, card, 0) = AmountForMonth(item, card, 0)
      BY <2>1, <2>3
    <2>. QED BY <2>4
  <1>3. ASSUME NEW m \in 1 .. n PROVE total[m] = total[m - 1] + f[m]
    <2>1. m \in 0 .. n /\ m - 1 \in 0 .. n /\ m \in Int
      OBVIOUS
    <2>2. AmountThroughMonth(item, card, m)
            = AmountThroughMonth(item, card, m - 1) + AmountForMonth(item, card, m)
      BY <2>1, MonthsAddUp
    <2>. QED BY <2>1, <2>2
  <1>4. total[n] = AmountThroughMonth(item, card, n)
    OBVIOUS
  <1>. HIDE DEF f, total
  <1>5. SumFunctionOnSet(f, 0 .. n) = total[n]
    BY <1>1, <1>2, <1>3, SumUpTo
  <1>. QED BY <1>4, <1>5 DEF f

\* The statements of a card up to a month add up to what its items amount to.
LEMMA StatementsAddUp ==
  ASSUME NEW s, SourcesTyped(s), SoundItems(s.items), NEW c \in CardIds, NEW n \in Months
  PROVE  SumFunctionOnSet([m \in 0 .. n |-> Gross(s, c, m)], 0 .. n)
           = SumFunction([i \in CardItems(s, c) |->
                             AmountThroughMonth(s.items[i], s.cards[c], n)])
  <1>. DEFINE rows == CardItems(s, c)
              row == [m \in 0 .. n |-> [i \in rows |-> ItemAmount(s, i, c, m)]]
              column == [i \in rows |-> [m \in 0 .. n |-> ItemAmount(s, i, c, m)]]
              rowSum == [m \in 0 .. n |-> Gross(s, c, m)]
              columnSum == [i \in rows |-> AmountThroughMonth(s.items[i], s.cards[c], n)]
  <1>1. n \in Nat /\ 0 .. n \subseteq Months /\ IsFiniteSet(0 .. n)
    BY MonthsAreNaturals, ContiguousAssumption, FS_Interval
  <1>2. IsFiniteSet(rows)
    BY StatementAmounts
  <1>3. \A i \in rows : /\ s.items[i] \in Item
                        /\ s.items[i].start \in 1 .. s.items[i].installments
                        /\ IsPlan(s.items[i]) => ~s.items[i].fixed
    BY InputAssumption DEF CardItems, SourcesTyped, SoundItems
  <1>4. \A m \in 0 .. n, i \in rows : row[m][i] \in Int /\ column[i][m] = row[m][i]
    BY <1>1, <1>3, AmountIsInteger DEF ItemAmount
  <1>5. \A m \in 0 .. n : rowSum[m] = SumFunctionOnSet(row[m], rows)
    <2>1. ASSUME NEW m \in 0 .. n
          PROVE  Gross(s, c, m) = SumFunctionOnSet([i \in rows |-> ItemAmount(s, i, c, m)], rows)
      BY <1>1, StatementAmounts DEF Gross
    <2>. QED BY <2>1
  <1>6. \A i \in rows : columnSum[i] = SumFunctionOnSet(column[i], 0 .. n)
    <2>. TAKE i \in rows
    <2>1. SumFunctionOnSet([m \in 0 .. n |-> AmountForMonth(s.items[i], s.cards[c], m)], 0 .. n)
            = AmountThroughMonth(s.items[i], s.cards[c], n)
      BY <1>1, <1>3, ItemAddsUp
    <2>2. column[i] = [m \in 0 .. n |-> AmountForMonth(s.items[i], s.cards[c], m)]
      BY DEF ItemAmount
    <2>. QED BY <2>1, <2>2
  <1>7. SumFunction(columnSum) = SumFunctionOnSet(columnSum, rows)
    BY DEF SumFunction
  <1>. HIDE DEF rows, row, column, rowSum, columnSum
  <1>8. SumFunctionOnSet(rowSum, 0 .. n) = SumFunctionOnSet(columnSum, rows)
    <2>1. PICK S, T : S = 0 .. n /\ T = rows
      OBVIOUS
    <2>2. IsFiniteSet(S) /\ IsFiniteSet(T) /\ \A x \in S, y \in T : row[x][y] \in Int
      BY <1>1, <1>2, <1>4, <2>1
    <2>3. SumFunctionOnSet([x \in S |-> SumFunctionOnSet(row[x], T)], S)
            = SumFunctionOnSet([y \in T |-> SumFunctionOnSet([x \in S |-> row[x][y]], S)], T)
      BY <2>2, SumExchange
    <2>4. rowSum = [x \in S |-> SumFunctionOnSet(row[x], T)]
      BY <1>5, <2>1 DEF rowSum
    <2>5. columnSum = [y \in T |-> SumFunctionOnSet([x \in S |-> row[x][y]], S)]
      <3>1. ASSUME NEW y \in T PROVE columnSum[y] = SumFunctionOnSet([x \in S |-> row[x][y]], S)
        <4>1. column[y] = [x \in S |-> row[x][y]]
          BY <1>4, <2>1 DEF column
        <4>. QED BY <1>6, <2>1, <4>1
      <3>. QED BY <2>1, <3>1 DEF columnSum
    <2>. QED BY <2>1, <2>3, <2>4, <2>5
  <1>. QED BY <1>7, <1>8 DEF rowSum, columnSum, rows

\* Within the horizon an invoice asks for its purchases less its credits, and
\* where there is none nothing was bought that credits do not cover.
LEMMA InvoiceAsksForTheRest ==
  ASSUME LedgerInv, FreshInv, Fresh, NEW key \in InvoiceKeys,
         key[2] =< Horizon(today).month
  PROVE  LET rest == Positive(Gross(Sources, key[1], key[2]) - CreditTotal(Sources, key[1], key[2]))
         IN  /\ invoices[key] # None => invoices[key].amount = rest
             /\ invoices[key] = None => rest = 0
  <1>. DEFINE c == key[1]
              m == key[2]
              rest == Positive(Gross(Sources, c, m) - CreditTotal(Sources, c, m))
  <1>1. /\ SourcesTyped(Sources) /\ SoundItems(Sources.items) /\ today \in Date /\ DaysLived
        /\ Horizon(today) \in Date /\ c \in CardIds /\ m \in Months
    BY SourcesAreTyped, HorizonIsDate
       DEF LedgerInv, TypeOK, SourcesOK, DaysLived, InvoiceKeys, Sources
  <1>2. ASSUME invoices[key] # None PROVE invoices[key].amount = rest
    <2>. DEFINE drawn == Drawn(Sources, key, invoices[key])
    <2>1. invoices[key] \in Invoice /\ key[2] =< LastDay.month + ProjectionMonths
      BY <1>2 DEF LedgerInv, TypeOK, DerivedOK, InvoicesWithinReach
    <2>2. drawn \in Invoice /\ drawn.amount = rest
      BY <1>1, <2>1, DrawnIsInvoice DEF Drawn
    <2>3. invoices[key] = Resettled(Sources, key, invoices[key], payments, today)
      BY <1>2 DEF FreshInv, IsReconciled
    <2>4. \E card, statement :
             invoices[key] = Settled(drawn, key, card, payments, statement, today)
      BY <2>3 DEF Resettled
    <2>. HIDE DEF drawn, rest
    <2>5. invoices[key].amount = drawn.amount
      BY <2>2, <2>4, SettledIs
    <2>. QED BY <2>2, <2>5
  <1>3. ASSUME invoices[key] = None PROVE rest = 0
    <2>1. ~IsComputed(Sources, key)
      BY <1>3 DEF FreshInv, IsReconciled
    <2>2. Billed(Sources, c, m, Horizon(today)) = {} /\ CreditsOf(Sources, c, m) = {}
      BY <2>1 DEF IsComputed
    <2>3. Gross(Sources, c, m) = 0
      BY <1>1, <2>2, BilledIsGross
    <2>4. CreditTotal(Sources, c, m) = 0
      BY <1>1, <2>2, CreditSums
    <2>. QED BY <2>3, <2>4 DEF Positive
  <1>. QED BY <1>2, <1>3

LEMMA NothingIsUnbilled == LedgerInv /\ FreshInv => NothingUnbilled
  <1>. SUFFICES ASSUME LedgerInv, FreshInv, Fresh, NEW c \in CardIds
                PROVE  LET last == Horizon(today).month
                           within == {m \in Months : m =< last}
                           issued == {m \in within : invoices[<<c, m>>] # None}
                       IN  SumFunction([m \in issued |-> invoices[<<c, m>>].amount])
                             - SumFunction([m \in within |-> CreditBalance(<<c, m>>)])
                           = SumFunction([i \in CardItems(Sources, c) |->
                                 AmountThroughMonth(items[i], cards[c], last)])
                             - SumFunction([m \in within |-> CreditTotal(Sources, c, m)])
    BY DEF NothingUnbilled
  <1>. DEFINE last == Horizon(today).month
              within == {m \in Months : m =< last}
              issued == {m \in within : invoices[<<c, m>>] # None}
              asked == [m \in issued |-> invoices[<<c, m>>].amount]
              P == [m \in within |-> IF invoices[<<c, m>>] = None THEN 0
                                     ELSE invoices[<<c, m>>].amount]
              B == [m \in within |-> CreditBalance(<<c, m>>)]
              G == [m \in within |-> Gross(Sources, c, m)]
              C == [m \in within |-> CreditTotal(Sources, c, m)]
              both == [m \in within |-> P[m] + C[m]]
              through == [i \in CardItems(Sources, c) |->
                             AmountThroughMonth(items[i], cards[c], last)]
  <1>1. /\ SourcesTyped(Sources) /\ SoundItems(Sources.items)
        /\ Sources.items = items /\ Sources.cards = cards
        /\ last \in Months /\ last \in Nat
    BY SourcesAreTyped, HorizonIsDate, DateFields
       DEF LedgerInv, TypeOK, SourcesOK, DaysLived, Sources
  <1>2. within = 0 .. last /\ IsFiniteSet(within)
    <2>. HIDE DEF last
    <2>1. Months \subseteq Nat /\ \A m \in 0 .. last : m \in Months
      BY <1>1, MonthsAreNaturals
    <2>2. within = 0 .. last
      <3>1. last \in Nat
        BY <1>1
      <3>2. \A m \in within : m \in 0 .. last
        BY <2>1, <3>1
      <3>3. \A m \in 0 .. last : m \in within
        BY <2>1, <3>1
      <3>. HIDE DEF within
      <3>. QED BY <3>2, <3>3
    <2>3. IsFiniteSet(0 .. last)
      BY <1>1, FS_Interval
    <2>. QED BY <2>2, <2>3
  <1>3. ASSUME NEW m \in within
        PROVE  /\ P[m] \in Int /\ B[m] \in Int /\ G[m] \in Int /\ C[m] \in Int
               /\ both[m] = P[m] + C[m] /\ both[m] = B[m] + G[m]
    <2>1. <<c, m>> \in InvoiceKeys /\ <<c, m>>[1] = c /\ <<c, m>>[2] = m
      BY DEF InvoiceKeys
    <2>2. G[m] \in Int /\ C[m] \in Int
      BY <1>1, <2>1, StatementAmounts, CreditSums
    <2>3. P[m] = Positive(G[m] - C[m])
      BY <2>1, InvoiceAsksForTheRest
    <2>4. B[m] = Positive(C[m] - G[m])
      BY <2>1 DEF CreditBalance
    <2>5. both[m] = P[m] + C[m]
      OBVIOUS
    <2>. HIDE DEF P, B, G, C, both
    <2>. QED BY <2>2, <2>3, <2>4, <2>5 DEF Positive
  <1>4. SumFunction(asked) = SumFunctionOnSet(P, within)
    <2>1. issued \in SUBSET within /\ IsFiniteSet(issued)
      BY <1>2, FS_Subset
    <2>2. \A m \in issued : asked[m] = P[m] /\ asked[m] \in Int
      BY <1>3
    <2>3. \A m \in within : P[m] \in Int
      BY <1>3
    <2>4. \A m \in within \ issued : P[m] = 0
      OBVIOUS
    <2>5. SumFunction(asked) = SumFunctionOnSet(asked, issued)
      BY DEF SumFunction
    <2>. HIDE DEF issued, asked, P, within
    <2>6. SumFunctionOnSet(asked, issued) = SumFunctionOnSet(P, issued)
      BY <2>1, <2>2, SumOfSame
    <2>7. SumFunctionOnSet(P, within) = SumFunctionOnSet(P, issued)
      BY <1>2, <2>1, <2>3, <2>4, SumWithoutZeros
    <2>. QED BY <2>5, <2>6, <2>7
  <1>5. /\ SumFunction(B) = SumFunctionOnSet(B, within)
        /\ SumFunction(C) = SumFunctionOnSet(C, within)
    BY DEF SumFunction
  <1>6. SumFunctionOnSet(G, within) = SumFunction(through)
    <2>1. SumFunctionOnSet([m \in 0 .. last |-> Gross(Sources, c, m)], 0 .. last)
            = SumFunction([i \in CardItems(Sources, c) |->
                 AmountThroughMonth(Sources.items[i], Sources.cards[c], last)])
      BY <1>1, StatementsAddUp
    <2>. QED BY <1>1, <1>2, <2>1
  <1>. HIDE DEF within, P, B, G, C, both, asked, through
  <1>7. /\ SumFunctionOnSet(both, within)
             = SumFunctionOnSet(P, within) + SumFunctionOnSet(C, within)
        /\ SumFunctionOnSet(both, within)
             = SumFunctionOnSet(B, within) + SumFunctionOnSet(G, within)
    BY <1>2, <1>3, SumOfSums
  <1>8. /\ SumFunctionOnSet(P, within) \in Int /\ SumFunctionOnSet(C, within) \in Int
        /\ SumFunctionOnSet(B, within) \in Int /\ SumFunctionOnSet(G, within) \in Int
    BY <1>2, <1>3, SumIsInt
  <1>9. SumFunction(asked) - SumFunction(B) = SumFunction(through) - SumFunction(C)
    BY <1>4, <1>5, <1>6, <1>7, <1>8
  <1>. QED BY <1>9 DEF within, asked, B, C, through

\* For every history of the ledger, what the invoices of a card up to the horizon
\* ask for, less the credit they leave over, is what its purchases amount to by
\* then less its credits: sync_user_ledger neither drops nor repeats an
\* occurrence.  And an invoice that asks for confirmation shows as paid only when
\* its payments cover it.
THEOREM StatementsStayWhole == Spec => []StatementsAreWhole
  <1>1. LedgerInv /\ FreshInv => StatementsAreWhole
    BY NothingIsUnbilled, PaidIsCovered DEF StatementsAreWhole
  <1>. QED BY <1>1, FreshInvariant, PTL
-----------------------------------------------------------------------------
(* What has been settled stands.                                           *)

\* Between reconciliations an invoice keeps its amount, although the day moves
\* on; and on the day of one, an invoice that asks for no confirmation is there
\* because something is billed on it.
AmountsStand ==
    \A key \in InvoiceKeys : invoices[key] # None =>
        invoices[key].amount = Positive(Gross(Sources, key[1], key[2])
                                        - CreditTotal(Sources, key[1], key[2]))
AutomaticAreComputed ==
    \A key \in InvoiceKeys :
        invoices[key] # None /\ ~invoices[key].manual => IsComputed(Sources, key)

StandInv == AmountsStand /\ (Fresh => AutomaticAreComputed)

LEMMA ReconciledAmountsStand == LedgerInv /\ IsReconciled => AmountsStand
  <1>. SUFFICES ASSUME LedgerInv, IsReconciled, NEW key \in InvoiceKeys, invoices[key] # None
                PROVE  invoices[key].amount = Positive(Gross(Sources, key[1], key[2])
                                                       - CreditTotal(Sources, key[1], key[2]))
    BY DEF AmountsStand
  <1>. DEFINE rest == Positive(Gross(Sources, key[1], key[2])
                               - CreditTotal(Sources, key[1], key[2]))
              drawn == Drawn(Sources, key, invoices[key])
  <1>1. SourcesTyped(Sources)
    BY SourcesAreTyped
  <1>2. invoices[key] \in Invoice /\ key[2] =< LastDay.month + ProjectionMonths
    BY DEF LedgerInv, TypeOK, DerivedOK, InvoicesWithinReach
  <1>3. drawn \in Invoice /\ drawn.amount = rest
    BY <1>1, <1>2, DrawnIsInvoice DEF Drawn
  <1>4. invoices[key] = Resettled(Sources, key, invoices[key], payments, today)
    BY DEF IsReconciled
  <1>5. \E card, statement :
           invoices[key] = Settled(drawn, key, card, payments, statement, today)
    BY <1>4 DEF Resettled
  <1>. HIDE DEF drawn, rest
  <1>6. invoices[key].amount = drawn.amount
    BY <1>3, <1>5, SettledIs
  <1>. QED BY <1>3, <1>6 DEF rest

LEMMA ReconcileStands ==
  ASSUME LedgerInv, LedgerInv', FreshInv',
         Reconcile(Sources'), UNCHANGED <<today, payments, paymentMoves>>
  PROVE  StandInv'
  <1>1. PICK s : s = Sources'
    OBVIOUS
  <1>2. Fresh'
    BY DEF Reconcile, Fresh
  <1>3. AmountsStand'
    <2>1. LedgerInv' /\ IsReconciled' => AmountsStand'
      BY ReconciledAmountsStand, PTL
    <2>. QED BY <1>2, <2>1 DEF FreshInv
  <1>4. ASSUME NEW key \in InvoiceKeys, invoices'[key] # None, ~invoices'[key].manual
        PROVE  IsComputed(Sources, key)'
    <2>1. IsComputed(s, key) \/ IsKept(key)
      BY <1>1, <1>4 DEF Reconcile, SyncedInvoice
    <2>2. ~IsKept(key)
      <3>. SUFFICES ASSUME NEW k \in PaymentsOf(payments, key) PROVE FALSE
        BY DEF IsKept
      <3>1. k \in PaymentKeys /\ payments'[k] # None /\ payments'[k].invoice = key
        BY DEF PaymentsOf
      <3>2. PaymentsAreBacked'
        BY DEF LedgerInv
      <3>. QED BY <1>4, <3>1, <3>2 DEF PaymentsAreBacked
    <2>3. IsComputed(Sources, key)' <=> IsComputed(s, key)
      BY <1>1, ComputedLater
    <2>. QED BY <2>1, <2>2, <2>3
  <1>. QED BY <1>3, <1>4 DEF StandInv, AutomaticAreComputed

LEMMA PaymentStepStands ==
  ASSUME LedgerInv, StandInv, NEW key \in InvoiceKeys, invoices[key] # None, invoices[key].manual,
         payments' \in [PaymentKeys -> Payment \union {None}],
         invoices' = [invoices EXCEPT ![key] = Refreshed(key, payments')],
         UNCHANGED <<today, sourceVars, itemMoves, invoiceMoves, syncedOn>>
  PROVE  StandInv'
  <1>1. /\ today \in Date /\ invoices \in [InvoiceKeys -> Invoice \union {None}]
        /\ invoices[key] \in Invoice
    BY DEF LedgerInv, TypeOK, SourcesOK, DerivedOK
  <1>2. PICK s : s = Sources
    OBVIOUS
  <1>3. Sources' = s
    BY <1>2 DEF Sources, sourceVars
  <1>4. /\ Refreshed(key, payments').amount = invoices[key].amount
        /\ Refreshed(key, payments').manual
    <2>1. PICK statement : Refreshed(key, payments')
             = Settled(invoices[key], key, cards[key[1]], payments', statement, today)
      BY DEF Refreshed
    <2>2. Refreshed(key, payments').amount = invoices[key].amount
      BY <1>1, <2>1, SettledIs
    <2>3. Refreshed(key, payments').manual
      BY <1>1, <2>1, SettledIsInvoice
    <2>. QED BY <2>2, <2>3
  <1>5. ASSUME NEW other \in InvoiceKeys, invoices'[other] # None
        PROVE  /\ invoices[other] # None /\ invoices'[other].amount = invoices[other].amount
               /\ ~invoices'[other].manual => ~invoices[other].manual
    <2>1. CASE other = key
      BY <1>1, <1>4, <2>1
    <2>2. CASE other # key
      BY <1>1, <1>5, <2>2
    <2>. QED BY <2>1, <2>2
  <1>6. AmountsStand'
    BY <1>2, <1>3, <1>5 DEF StandInv, AmountsStand
  <1>7. Fresh' => AutomaticAreComputed'
    <2>1. \A other \in InvoiceKeys : IsComputed(Sources, other)' <=> IsComputed(s, other)
      BY <1>3, ComputedLater
    <2>. QED BY <1>2, <1>5, <2>1 DEF StandInv, Fresh, AutomaticAreComputed
  <1>. QED BY <1>6, <1>7 DEF StandInv

LEMMA InitStands == Init => StandInv
  BY DEF Init, StandInv, AmountsStand, AutomaticAreComputed

LEMMA NextKeepsStanding ==
    LedgerInv /\ FreshInv /\ StandInv /\ [Next]_vars /\ LedgerInv' /\ FreshInv' => StandInv'
  <1>. SUFFICES ASSUME LedgerInv, FreshInv, StandInv, [Next]_vars, LedgerInv', FreshInv'
                PROVE  StandInv'
    OBVIOUS
  <1>1. ASSUME NEW k \in PaymentKeys, NEW payment \in PaymentInputs, SavePayment(k, payment)
        PROVE  StandInv'
    <2>1. payment.invoice \in InvoiceKeys
      BY InputAssumption DEF Payment
    <2>2. payments' \in [PaymentKeys -> Payment \union {None}]
      BY InputAssumption DEF LedgerInv, TypeOK, SourcesOK
    <2>3. /\ invoices[payment.invoice] # None /\ invoices[payment.invoice].manual
          /\ invoices' = [invoices EXCEPT ![payment.invoice] =
                             Refreshed(payment.invoice, payments')]
          /\ UNCHANGED <<today, sourceVars, itemMoves, invoiceMoves, syncedOn>>
      BY <1>1 DEF SavePayment
    <2>. QED BY <2>1, <2>2, <2>3, PaymentStepStands
  <1>2. ASSUME NEW k \in PaymentKeys, DeletePayment(k)
        PROVE  StandInv'
    <2>1. payments[k] # None
      BY <1>2 DEF DeletePayment
    <2>2. /\ payments[k].invoice \in InvoiceKeys
          /\ invoices[payments[k].invoice] # None /\ invoices[payments[k].invoice].manual
      BY <2>1, InputAssumption DEF LedgerInv, TypeOK, SourcesOK, Payment, PaymentsAreBacked
    <2>3. payments' \in [PaymentKeys -> Payment \union {None}]
      BY InputAssumption DEF LedgerInv, TypeOK, SourcesOK
    <2>4. /\ invoices' = [invoices EXCEPT ![payments[k].invoice] =
                             Refreshed(payments[k].invoice, payments')]
          /\ UNCHANGED <<today, sourceVars, itemMoves, invoiceMoves, syncedOn>>
      BY <1>2 DEF DeletePayment
    <2>. QED BY <2>2, <2>3, <2>4, PaymentStepStands
  <1>3. CASE NewDay
    <2>1. today \in Date /\ syncedOn \in Date /\ NotAfter(syncedOn, today)
      BY DEF LedgerInv, TypeOK, SourcesOK, FreshInv
    <2>2. today' = NextDay(today) /\ UNCHANGED <<sourceVars, invoices, syncedOn>>
      BY <1>3 DEF NewDay
    <2>3. ~Fresh'
      BY <2>1, <2>2, NextDayIsLater DEF Fresh
    <2>4. AmountsStand'
      BY <2>2 DEF StandInv, AmountsStand, Sources, sourceVars
    <2>. QED BY <2>3, <2>4 DEF StandInv
  <1>4. CASE UNCHANGED vars
    <2>1. PICK s : s = Sources
      OBVIOUS
    <2>2. Sources' = s /\ today' = today /\ invoices' = invoices /\ syncedOn' = syncedOn
      BY <1>4, <2>1 DEF vars, Sources
    <2>3. \A key \in InvoiceKeys : IsComputed(Sources, key)' <=> IsComputed(s, key)
      BY <2>2, ComputedLater
    <2>. QED BY <2>1, <2>2, <2>3 DEF StandInv, AmountsStand, Fresh, AutomaticAreComputed
  <1>5. CASE \/ \E i \in ItemIds :
                   (\E item \in ItemInputs : SaveItem(i, item)) \/ DeleteItem(i)
             \/ \E c \in CardIds, settings \in SettingInputs : SaveCard(c, settings)
             \/ \E k \in CreditKeys :
                   (\E credit \in CreditInputs : SaveCredit(k, credit)) \/ DeleteCredit(k)
             \/ OpenPage
    <2>1. OpenPage => Sources' = Sources
      BY DEF OpenPage, sourceVars, Sources
    <2>2. Reconcile(Sources') /\ UNCHANGED <<today, payments, paymentMoves>>
      BY <1>5, <2>1 DEF SaveItem, DeleteItem, SaveCard, SaveCredit, DeleteCredit, OpenPage
    <2>. QED BY <2>2, ReconcileStands
  <1>. QED BY <1>1, <1>2, <1>3, <1>4, <1>5 DEF Next

LEMMA StandInvariant == Spec => [](LedgerInv /\ FreshInv /\ StandInv)
  <1>1. Init => LedgerInv /\ FreshInv /\ StandInv
    BY InitEstablishesInv, InitIsFresh, InitStands
  <1>2. LedgerInv /\ FreshInv /\ StandInv /\ [Next]_vars
          => LedgerInv' /\ FreshInv' /\ StandInv'
    BY NextKeepsInv, NextKeepsFresh, NextKeepsStanding
  <1>. QED BY <1>1, <1>2, PTL DEF Spec

WithinBill ==
    \A k \in PaymentKeys :
        payments'[k] \notin {payments[k], None} =>
            LET key == payments'[k].invoice
            IN  SumPayments(payments', PaymentsOf(payments', key))
                  =< Positive(Gross(Sources, key[1], key[2])
                              - CreditsPostedBy(Sources, key[1], key[2], today))

LEMMA PaymentsFitTheBill ==
  ASSUME LedgerInv, StandInv, NEW k \in PaymentKeys, NEW payment \in PaymentInputs,
         SavePayment(k, payment)
  PROVE  WithinBill
  <1>. DEFINE key == payment.invoice
              old == PaymentsOf(payments, key) \ {k}
              new == PaymentsOf(payments', key)
              bill == Positive(Gross(Sources, key[1], key[2])
                               - CreditsPostedBy(Sources, key[1], key[2], today))
  <1>1. /\ payment \in Payment /\ key \in InvoiceKeys /\ payment.amount \in Nat
        /\ payments \in [PaymentKeys -> Payment \union {None}]
        /\ today \in Date /\ SourcesTyped(Sources)
    BY InputAssumption, SourcesAreTyped DEF LedgerInv, TypeOK, SourcesOK, Payment
  <1>2. payments' = [payments EXCEPT ![k] = payment] /\ invoices[key] # None /\ FitsBill(k, payment)
    BY DEF SavePayment
  <1>3. /\ payments' \in [PaymentKeys -> Payment \union {None}] /\ payments'[k] = payment
        /\ \A j \in PaymentKeys : j # k => payments'[j] = payments[j]
    BY <1>1, <1>2
  <1>4. payment # None
    BY <1>1, AbsenceAssumption
  <1>5. k \in new /\ new \ {k} = old /\ new \in SUBSET PaymentKeys
    BY <1>1, <1>3, <1>4 DEF PaymentsOf
  <1>6. \A j \in new : payments'[j] # None
    BY DEF PaymentsOf
  <1>7. SumPayments(payments, old) + payment.amount =< bill
    <2>1. StatementAmountAt(Sources, invoices[key], key, today) = bill
      BY <1>1, <1>2, StatementsAgree DEF StandInv, AmountsStand
    <2>. QED BY <1>2, <2>1 DEF FitsBill
  <1>8. SumPayments(payments', old) = SumPayments(payments, old)
    <2>1. old \in SUBSET PaymentKeys /\ \A j \in old : payments'[j] = payments[j]
      BY <1>3, <1>5
    <2>. HIDE DEF old
    <2>. QED BY <1>1, <1>3, <2>1, SamePayments
  <1>9. SumPayments(payments', new) = payment.amount + SumPayments(payments', old)
    <2>. HIDE DEF new, old
    <2>. QED BY <1>3, <1>5, <1>6, PaymentSums
  <1>10. SumPayments(payments, old) \in Nat
    <2>1. old \in SUBSET PaymentKeys /\ \A j \in old : payments[j] # None
      BY DEF PaymentsOf
    <2>. HIDE DEF old
    <2>. QED BY <1>1, <2>1, PaymentSums
  <1>. HIDE DEF old, bill
  <1>11. SumPayments(payments', new) =< bill
    BY <1>1, <1>7, <1>8, <1>9, <1>10
  <1>. QED BY <1>3, <1>11 DEF WithinBill, bill

\* A debit stays as it was through a reconciliation that changes neither what
\* the statement bills, nor its due date, nor the credits that count for the
\* debit, and that asks for no confirmation.
LEMMA DebitStays ==
  ASSUME LedgerInv, FreshInv, StandInv, Fresh, NEW key \in InvoiceKeys, invoiceMoves[key] # None,
         NEW s, SourcesTyped(s), SoundItems(s.items), Reconcile(s),
         UNCHANGED <<today, payments, paymentMoves>>,
         Gross(s, key[1], key[2]) = Gross(Sources, key[1], key[2]),
         Billed(s, key[1], key[2], Horizon(today)) = Billed(Sources, key[1], key[2], Horizon(today)),
         DueDate(s.cards[key[1]], key[2]) = DueDate(cards[key[1]], key[2]),
         CreditsPostedBy(s, key[1], key[2], DueDate(cards[key[1]], key[2]))
           = CreditsPostedBy(Sources, key[1], key[2], DueDate(cards[key[1]], key[2])),
         \/ s.cards[key[1]].manualFrom \in {None, cards[key[1]].manualFrom}
         \/ ~NotAfter(s.cards[key[1]].manualFrom, DueDate(cards[key[1]], key[2]))
  PROVE  invoiceMoves'[key] = invoiceMoves[key]
  <1>. DEFINE c == key[1]
              m == key[2]
              due == DueDate(cards[c], m)
              horizon == Horizon(today)
              was == invoices[key]
              drawn == Drawn(Sources, key, was)
              redrawn == Drawn(s, key, was)
              debit == Positive(Gross(Sources, c, m) - CreditsPostedBy(Sources, c, m, due))
  <1>1. /\ c \in CardIds /\ m \in Months /\ today \in Date /\ DaysLived /\ horizon \in Date
        /\ SourcesTyped(Sources) /\ SoundItems(Sources.items) /\ Sources.cards = cards
        /\ invoices \in [InvoiceKeys -> Invoice \union {None}]
        /\ payments \in [PaymentKeys -> Payment \union {None}]
    BY SourcesAreTyped, HorizonIsDate, InputAssumption
       DEF InvoiceKeys, LedgerInv, TypeOK, SourcesOK, DerivedOK, DaysLived, Sources
  <1>2. /\ was # None /\ ~was.manual /\ was \in Invoice
        /\ was = Resettled(Sources, key, was, payments, today)
        /\ invoiceMoves[key] = SyncedInvoiceMove(Sources, key, was)
    BY <1>1 DEF LedgerInv, NoDoubleSettlement, FreshInv, IsReconciled
  <1>3. m =< LastDay.month + ProjectionMonths
    BY <1>2 DEF LedgerInv, InvoicesWithinReach
  <1>4. /\ drawn \in Invoice /\ redrawn \in Invoice /\ ~drawn.manual /\ ~redrawn.manual
        /\ drawn.due = due /\ redrawn.due = due
    <2>1. drawn.due = due /\ redrawn.due = due
      BY <1>1 DEF Drawn
    <2>2. /\ drawn \in Invoice /\ drawn.manual = (was # None /\ was.manual)
          /\ redrawn \in Invoice /\ redrawn.manual = (was # None /\ was.manual)
      <3>. HIDE DEF was
      <3>. QED BY <1>1, <1>2, <1>3, DrawnIsInvoice
    <2>. QED BY <1>2, <2>1, <2>2
  <1>5. ~AsksConfirmation(cards[c], drawn) /\ was.due = due
    <2>1. PICK statement : was = Settled(drawn, key, cards[c], payments, statement, today)
      BY <1>1, <1>2 DEF Resettled
    <2>. HIDE DEF drawn, was, due
    <2>2. was.due = drawn.due /\ (AsksConfirmation(cards[c], drawn) => was.manual)
      BY <1>4, <2>1, SettledIs
    <2>. QED BY <1>2, <1>4, <2>2
  <1>6. ~AsksConfirmation(s.cards[c], redrawn)
    <2>. HIDE DEF drawn, redrawn, due
    <2>. QED BY <1>4, <1>5 DEF AsksConfirmation, due
  <1>7. IsComputed(s, key)
    <2>1. IsComputed(Sources, key)
      BY <1>2 DEF StandInv, AutomaticAreComputed
    <2>2. Billed(Sources, c, m, horizon) # {}
      <3>. SUFFICES ASSUME Billed(Sources, c, m, horizon) = {} PROVE FALSE
        OBVIOUS
      <3>1. m =< horizon.month
        BY <1>1, <2>1, ComputedIsWithinHorizon
      <3>2. Gross(Sources, c, m) = 0
        BY <1>1, <3>1, BilledIsGross
      <3>3. AutomaticDebit(Sources, key, was.due) > 0
        BY <1>2 DEF SyncedInvoiceMove
      <3>4. ComputedAmount(Sources, key) = 0
        BY <1>1, <3>2, ComputedIsGross
      <3>5. CreditsPostedBy(Sources, c, m, was.due) \in Nat
        <4>1. was.due \in Date
          BY <1>2 DEF Invoice
        <4>. QED BY <1>1, <4>1, CreditSums
      <3>. QED BY <3>3, <3>4, <3>5 DEF AutomaticDebit, Positive
    <2>. QED BY <2>2 DEF IsComputed
  <1>8. /\ invoices'[key] # None /\ ~invoices'[key].manual /\ invoices'[key].due = due
        /\ invoiceMoves'[key] = SyncedInvoiceMove(s, key, invoices'[key])
    <2>1. invoices'[key] = Resettled(s, key, was, payments, today)
      BY <1>1, <1>7, SyncedIs DEF Reconcile
    <2>2. PICK statement :
             invoices'[key] = Settled(redrawn, key, s.cards[c], payments, statement, today)
      BY <2>1 DEF Resettled
    <2>3. invoices'[key] \in Invoice
      <3>. HIDE DEF redrawn
      <3>. QED BY <1>1, <1>4, <2>2, SettledIsInvoice
    <2>4. ~invoices'[key].manual /\ invoices'[key].due = due
      <3>. HIDE DEF redrawn, due
      <3>. QED BY <1>4, <1>6, <2>2, SettledIs
    <2>. QED BY <2>3, <2>4, AbsenceAssumption DEF Reconcile
  <1>9. AutomaticDebit(Sources, key, due) = debit /\ AutomaticDebit(s, key, due) = debit
    BY <1>1, ComputedIsGross DEF AutomaticDebit
  <1>. QED BY <1>2, <1>5, <1>8, <1>9 DEF SyncedInvoiceMove

\* Of a card's settings only its closing day decides what is billed when.
LEMMA SameClosingBillsTheSame ==
  ASSUME NEW item, NEW card, NEW other, IsCard(card), IsCard(other), card.closing = other.closing
  PROVE  /\ \A m : AmountForMonth(item, card, m) = AmountForMonth(item, other, m)
         /\ \A horizon : OccurrenceMonths(item, card, horizon) = OccurrenceMonths(item, other, horizon)
  <1>1. BillingOffset(item, card) = BillingOffset(item, other)
    BY DEF BillingOffset, StatementMonth
  <1>2. BilledMonth(item, card) = BilledMonth(item, other)
    BY <1>1 DEF BilledMonth
  <1>3. ASSUME NEW m PROVE AmountForMonth(item, card, m) = AmountForMonth(item, other, m)
    BY <1>2 DEF AmountForMonth
  <1>4. WindowStart(item, card) = WindowStart(item, other)
    BY <1>2 DEF WindowStart
  <1>5. ASSUME NEW horizon
        PROVE  OccurrenceMonths(item, card, horizon) = OccurrenceMonths(item, other, horizon)
    <2>1. WindowLength(item, card, horizon) = WindowLength(item, other, horizon)
      BY <1>4 DEF WindowLength
    <2>. QED BY <1>4, <2>1 DEF OccurrenceMonths
  <1>. QED BY <1>3, <1>5

LEMMA SameItemsBillTheSame ==
  ASSUME NEW s, NEW t, SourcesTyped(s), SourcesTyped(t), s.items = t.items, NEW c \in CardIds,
         s.cards[c].closing = t.cards[c].closing, s.cards[c].due = t.cards[c].due, NEW m
  PROVE  /\ Gross(s, c, m) = Gross(t, c, m)
         /\ \A horizon : Billed(s, c, m, horizon) = Billed(t, c, m, horizon)
         /\ DueDate(s.cards[c], m) = DueDate(t.cards[c], m)
  <1>1. IsCard(s.cards[c]) /\ IsCard(t.cards[c])
    <2>1. s.cards[c] \in Setting /\ t.cards[c] \in Setting
      BY InputAssumption DEF SourcesTyped
    <2>. QED BY <2>1, LedgerAssumption DEF IsCard
  <1>2. \A i : ItemAmount(s, i, c, m) = ItemAmount(t, i, c, m)
    BY <1>1, SameClosingBillsTheSame DEF ItemAmount
  <1>3. CardItems(s, c) = CardItems(t, c)
    BY DEF CardItems
  <1>4. Gross(s, c, m) = Gross(t, c, m)
    <2>1. [i \in CardItems(s, c) |-> ItemAmount(s, i, c, m)]
            = [i \in CardItems(t, c) |-> ItemAmount(t, i, c, m)]
      BY <1>2, <1>3
    <2>. QED BY <2>1 DEF Gross, SumItems
  <1>5. ASSUME NEW horizon PROVE Billed(s, c, m, horizon) = Billed(t, c, m, horizon)
    <2>1. \A i : OccurrenceMonths(s.items[i], s.cards[c], horizon)
                   = OccurrenceMonths(t.items[i], t.cards[c], horizon)
      BY <1>1, SameClosingBillsTheSame
    <2>. QED BY <1>2, <1>3, <2>1 DEF Billed
  <1>6. DueDate(s.cards[c], m) = DueDate(t.cards[c], m)
    BY DEF DueDate
  <1>. QED BY <1>4, <1>5, <1>6

\* A credit dated after a day does not count on it.
LEMMA LateCreditDoesNotCount ==
  ASSUME NEW s, NEW t, SourcesTyped(s), SourcesTyped(t), NEW k \in CreditKeys, NEW day \in Date,
         \A j \in CreditKeys : j # k => s.credits[j] = t.credits[j],
         s.credits[k] = None \/ Before(day, s.credits[k].date),
         t.credits[k] = None \/ Before(day, t.credits[k].date),
         NEW c, NEW m
  PROVE  CreditsPostedBy(s, c, m, day) = CreditsPostedBy(t, c, m, day)
  <1>. DEFINE posted(r) == {j \in CreditsOf(r, c, m) : NotAfter(r.credits[j].date, day)}
  <1>1. ASSUME NEW r, SourcesTyped(r), r.credits[k] = None \/ Before(day, r.credits[k].date)
        PROVE  k \notin posted(r)
    <2>1. CASE r.credits[k] = None
      BY <2>1 DEF CreditsOf
    <2>2. CASE r.credits[k] # None
      <3>1. r.credits[k].date \in Date
        BY <1>1, <2>2, InputAssumption DEF SourcesTyped, Credit
      <3>. QED BY <1>1, <2>2, <3>1, DateFields DEF NotAfter, Before
    <2>. QED BY <2>1, <2>2
  <1>2. k \notin posted(s) /\ k \notin posted(t)
    BY <1>1
  <1>3. posted(s) = posted(t) /\ \A j \in posted(s) : s.credits[j] = t.credits[j]
    <2>1. ASSUME NEW j \in CreditKeys, j # k PROVE j \in posted(s) <=> j \in posted(t)
      BY <2>1 DEF CreditsOf
    <2>2. posted(s) \subseteq CreditKeys /\ posted(t) \subseteq CreditKeys
      BY DEF CreditsOf
    <2>. HIDE DEF posted
    <2>. QED BY <1>2, <2>1, <2>2
  <1>4. CreditsPostedBy(s, c, m, day) = SumCredits(s, posted(s))
    BY DEF CreditsPostedBy
  <1>5. CreditsPostedBy(t, c, m, day) = SumCredits(t, posted(t))
    BY DEF CreditsPostedBy
  <1>. HIDE DEF posted
  <1>6. [j \in posted(s) |-> s.credits[j].amount] = [j \in posted(t) |-> t.credits[j].amount]
    BY <1>3
  <1>. QED BY <1>4, <1>5, <1>6 DEF SumCredits

LateCreditKept ==
    \A k \in CreditKeys, key \in InvoiceKeys :
        LET late(row) == row = None \/ Before(invoices[key].due, row.date)
        IN  /\ Fresh /\ credits'[k] # credits[k]
            /\ invoices[key] # None /\ invoiceMoves[key] # None
            /\ late(credits[k]) /\ late(credits'[k])
            => invoiceMoves'[key] = invoiceMoves[key]

\* On the day of a reconciliation an invoice is due when its card says.
LEMMA DueAsTheCardSays ==
  ASSUME LedgerInv, FreshInv, Fresh, NEW key \in InvoiceKeys, invoices[key] # None
  PROVE  invoices[key].due = DueDate(cards[key[1]], key[2]) /\ invoices[key].due \in Date
  <1>. DEFINE drawn == Drawn(Sources, key, invoices[key])
  <1>1. /\ SourcesTyped(Sources) /\ Sources.cards = cards
        /\ invoices[key] \in Invoice /\ key[2] =< LastDay.month + ProjectionMonths
    BY SourcesAreTyped
       DEF LedgerInv, TypeOK, DerivedOK, InvoicesWithinReach, Sources
  <1>2. drawn \in Invoice /\ drawn.due = DueDate(cards[key[1]], key[2])
    BY <1>1, DrawnIsInvoice DEF Drawn
  <1>3. PICK card, statement :
           invoices[key] = Settled(drawn, key, card, payments, statement, today)
    BY DEF FreshInv, IsReconciled, Resettled
  <1>. HIDE DEF drawn
  <1>4. invoices[key].due = drawn.due
    BY <1>2, <1>3, SettledIs
  <1>. QED BY <1>1, <1>2, <1>4 DEF Invoice

LEMMA CreditsKeepLateDebits ==
  ASSUME LedgerInv, LedgerInv', FreshInv, StandInv, NEW j \in CreditKeys,
         \/ \E credit \in CreditInputs : SaveCredit(j, credit)
         \/ DeleteCredit(j)
  PROVE  LateCreditKept
  <1>. SUFFICES ASSUME NEW k \in CreditKeys, NEW key \in InvoiceKeys,
                       Fresh, credits'[k] # credits[k],
                       invoices[key] # None, invoiceMoves[key] # None,
                       credits[k] = None \/ Before(invoices[key].due, credits[k].date),
                       credits'[k] = None \/ Before(invoices[key].due, credits'[k].date)
                PROVE  invoiceMoves'[key] = invoiceMoves[key]
    BY DEF LateCreditKept
  <1>1. PICK s, t : s = Sources' /\ t = Sources
    OBVIOUS
  <1>2. /\ Reconcile(s) /\ UNCHANGED <<today, cards, items, payments, paymentMoves>>
        /\ \A i \in CreditKeys : i # j => credits'[i] = credits[i]
    BY <1>1 DEF SaveCredit, DeleteCredit, LedgerInv, TypeOK, SourcesOK
  <1>3. /\ SourcesTyped(s) /\ SoundItems(s.items) /\ SourcesTyped(t)
        /\ s.items = t.items /\ s.cards = cards /\ t.cards = cards
        /\ s.credits = credits' /\ t.credits = credits
    <2>1. SourcesTyped(t) /\ SoundItems(items)
      BY <1>1, SourcesAreTyped
    <2>2. /\ s.items = items /\ t.items = items /\ s.cards = cards /\ t.cards = cards
          /\ s.credits = credits' /\ t.credits = credits
      BY <1>1, <1>2 DEF Sources
    <2>3. SourcesTyped(s)
      <3>1. credits' \in [CreditKeys -> CreditInputs \union {None}]
        BY DEF LedgerInv, TypeOK, SourcesOK
      <3>. QED BY <2>1, <2>2, <3>1 DEF SourcesTyped
    <2>. QED BY <2>1, <2>2, <2>3
  <1>4. k = j
    BY <1>2
  <1>5. key[1] \in CardIds
    BY DEF InvoiceKeys
  <1>6. /\ Gross(s, key[1], key[2]) = Gross(t, key[1], key[2])
        /\ Billed(s, key[1], key[2], Horizon(today)) = Billed(t, key[1], key[2], Horizon(today))
    BY <1>3, <1>5, SameItemsBillTheSame
  <1>7. invoices[key].due = DueDate(cards[key[1]], key[2]) /\ invoices[key].due \in Date
    BY DueAsTheCardSays
  <1>8. CreditsPostedBy(s, key[1], key[2], invoices[key].due)
          = CreditsPostedBy(t, key[1], key[2], invoices[key].due)
    <2>1. \A i \in CreditKeys : i # k => s.credits[i] = t.credits[i]
      BY <1>2, <1>3, <1>4
    <2>. QED BY <1>3, <1>7, <2>1, LateCreditDoesNotCount
  <1>. QED BY <1>1, <1>2, <1>3, <1>6, <1>7, <1>8, DebitStays

HistoricalDebitKept ==
    \A key \in InvoiceKeys :
        LET debit == invoiceMoves[key]
            sameDays == \A c \in CardIds : /\ cards'[c].closing = cards[c].closing
                                           /\ cards'[c].due = cards[c].due
        IN  Fresh /\ cards' # cards /\ sameDays /\ debit # None /\ Before(debit.date, today)
            => invoiceMoves'[key] = debit

LEMMA CardKeepsPastDebits ==
  ASSUME LedgerInv, LedgerInv', FreshInv, StandInv, NEW c \in CardIds, NEW settings \in SettingInputs,
         SaveCard(c, settings)
  PROVE  HistoricalDebitKept
  <1>. SUFFICES ASSUME NEW key \in InvoiceKeys, Fresh,
                       \A d \in CardIds : /\ cards'[d].closing = cards[d].closing
                                          /\ cards'[d].due = cards[d].due,
                       invoiceMoves[key] # None, Before(invoiceMoves[key].date, today)
                PROVE  invoiceMoves'[key] = invoiceMoves[key]
    BY DEF HistoricalDebitKept
  <1>1. PICK s, t : s = Sources' /\ t = Sources
    OBVIOUS
  <1>2. /\ Reconcile(s) /\ UNCHANGED <<today, items, credits, payments, paymentMoves>>
        /\ cards \in [CardIds -> SettingInputs]
        /\ cards' = [cards EXCEPT ![c] = settings]
        /\ settings.manualFrom \notin {None, cards[c].manualFrom}
             => NotAfter(today, settings.manualFrom)
    BY <1>1 DEF SaveCard, AcceptsConfirmationFrom, LedgerInv, TypeOK, SourcesOK
  <1>3. /\ SourcesTyped(s) /\ SoundItems(s.items) /\ SourcesTyped(t)
        /\ s.items = t.items /\ s.credits = t.credits /\ s.cards = cards' /\ t.cards = cards
    <2>1. SourcesTyped(t) /\ SoundItems(items)
      BY <1>1, SourcesAreTyped
    <2>2. /\ s.items = items /\ t.items = items /\ s.cards = cards' /\ t.cards = cards
          /\ s.credits = credits /\ t.credits = credits
      BY <1>1, <1>2 DEF Sources
    <2>3. SourcesTyped(s)
      BY <1>2, <2>1, <2>2 DEF SourcesTyped
    <2>. QED BY <2>1, <2>2, <2>3
  <1>4. key[1] \in CardIds /\ key[2] \in Months
    BY DEF InvoiceKeys
  <1>5. /\ Gross(s, key[1], key[2]) = Gross(t, key[1], key[2])
        /\ Billed(s, key[1], key[2], Horizon(today)) = Billed(t, key[1], key[2], Horizon(today))
        /\ DueDate(s.cards[key[1]], key[2]) = DueDate(cards[key[1]], key[2])
    BY <1>3, <1>4, SameItemsBillTheSame
  <1>6. \A day : CreditsPostedBy(s, key[1], key[2], day) = CreditsPostedBy(t, key[1], key[2], day)
    BY <1>3 DEF CreditsPostedBy, CreditsOf, SumCredits
  <1>7. /\ invoiceMoves[key].date = DueDate(cards[key[1]], key[2])
        /\ DueDate(cards[key[1]], key[2]) \in Date
    <2>1. /\ invoiceMoves[key] = SyncedInvoiceMove(Sources, key, invoices[key])
          /\ invoices[key] # None
      BY DEF FreshInv, IsReconciled, LedgerInv, NoDoubleSettlement
    <2>2. invoiceMoves[key].date = invoices[key].due
      BY <2>1 DEF SyncedInvoiceMove
    <2>. QED BY <2>1, <2>2, DueAsTheCardSays
  <1>8. \/ s.cards[key[1]].manualFrom \in {None, cards[key[1]].manualFrom}
        \/ ~NotAfter(s.cards[key[1]].manualFrom, DueDate(cards[key[1]], key[2]))
    <2>1. CASE key[1] # c
      BY <1>2, <1>3, <1>4, <2>1
    <2>2. CASE key[1] = c
      <3>1. s.cards[c] = settings
        BY <1>2, <1>3
      <3>2. settings.manualFrom \in Date \union {None} /\ today \in Date
        BY InputAssumption DEF Setting, LedgerInv, TypeOK, SourcesOK
      <3>3. CASE settings.manualFrom \in {None, cards[c].manualFrom}
        BY <2>2, <3>1, <3>3
      <3>4. CASE settings.manualFrom \notin {None, cards[c].manualFrom}
        <4>. DEFINE due == DueDate(cards[key[1]], key[2])
                    from == settings.manualFrom
        <4>1. NotAfter(today, from) /\ from \in Date /\ due \in Date /\ Before(due, today)
          BY <1>2, <1>7, <3>2, <3>4
        <4>. HIDE DEF due, from
        <4>2. ~NotAfter(from, due)
          BY <3>2, <4>1, DateFields DEF NotAfter, Before
        <4>. QED BY <2>2, <3>1, <4>2 DEF due, from
      <3>. QED BY <3>3, <3>4
    <2>. QED BY <2>1, <2>2
  <1>. QED BY <1>1, <1>2, <1>3, <1>5, <1>6, <1>8, DebitStays

\* For every history of the ledger, no step takes a confirmation back, pays an
\* invoice beyond its bill or rewrites a debit that was made.
THEOREM SettledHistoryStands == Spec => HistoryStands
  <1>1. LedgerInv /\ LedgerInv' /\ FreshInv /\ StandInv /\ [Next]_vars
          => [WithinBill]_vars /\ [LateCreditKept]_vars /\ [HistoricalDebitKept]_vars
    <2>. SUFFICES ASSUME LedgerInv, LedgerInv', FreshInv, StandInv, Next
                  PROVE  WithinBill /\ LateCreditKept /\ HistoricalDebitKept
      OBVIOUS
    <2>1. ASSUME UNCHANGED payments PROVE WithinBill
      BY <2>1 DEF WithinBill
    <2>2. ASSUME UNCHANGED credits PROVE LateCreditKept
      BY <2>2 DEF LateCreditKept
    <2>3. ASSUME UNCHANGED cards PROVE HistoricalDebitKept
      BY <2>3 DEF HistoricalDebitKept
    <2>4. ASSUME NEW i \in ItemIds,
                 (\E item \in ItemInputs : SaveItem(i, item)) \/ DeleteItem(i)
          PROVE  UNCHANGED <<payments, credits, cards>>
      BY <2>4 DEF SaveItem, DeleteItem
    <2>5. ASSUME NEW c \in CardIds, NEW settings \in SettingInputs, SaveCard(c, settings)
          PROVE  HistoricalDebitKept /\ UNCHANGED <<payments, credits>>
      BY <2>5, CardKeepsPastDebits DEF SaveCard
    <2>6. ASSUME NEW k \in CreditKeys,
                 (\E credit \in CreditInputs : SaveCredit(k, credit)) \/ DeleteCredit(k)
          PROVE  LateCreditKept /\ UNCHANGED <<payments, cards>>
      BY <2>6, CreditsKeepLateDebits DEF SaveCredit, DeleteCredit
    <2>7. ASSUME NEW k \in PaymentKeys, NEW payment \in PaymentInputs, SavePayment(k, payment)
          PROVE  WithinBill /\ UNCHANGED <<credits, cards>>
      BY <2>7, PaymentsFitTheBill DEF SavePayment, sourceVars
    <2>8. ASSUME NEW k \in PaymentKeys, DeletePayment(k)
          PROVE  WithinBill /\ UNCHANGED <<credits, cards>>
      <3>1. \A j \in PaymentKeys : payments'[j] \in {payments[j], None}
        BY <2>8 DEF DeletePayment, LedgerInv, TypeOK, SourcesOK
      <3>. QED BY <2>8, <3>1 DEF DeletePayment, WithinBill, sourceVars
    <2>9. ASSUME OpenPage \/ NewDay
          PROVE  UNCHANGED <<payments, credits, cards>>
      BY <2>9 DEF OpenPage, NewDay, sourceVars
    <2>. QED BY <2>1, <2>2, <2>3, <2>4, <2>5, <2>6, <2>7, <2>8, <2>9 DEF Next
  <1>2. Spec => PaymentWithinBill
    BY <1>1, StandInvariant, PTL DEF Spec, PaymentWithinBill, WithinBill
  <1>3. Spec => LateCreditKeepsDebit
    BY <1>1, StandInvariant, PTL DEF Spec, LateCreditKeepsDebit, LateCreditKept
  <1>4. Spec => HistoricalDebitsKept
    BY <1>1, StandInvariant, PTL DEF Spec, HistoricalDebitsKept, HistoricalDebitKept
  <1>. QED BY <1>2, <1>3, <1>4, ConfirmationSticks DEF HistoryStands

-----------------------------------------------------------------------------
(* Settling moves no forecast.                                             *)

\* A payment is confirmed on its day or later, and no invoice is drawn for a
\* month beyond the horizon.
PaymentsArePast ==
    \A k \in PaymentKeys : payments[k] # None => NotAfter(payments[k].date, today)
InvoicesWithinHorizon ==
    \A key \in InvoiceKeys : invoices[key] # None => key[2] =< Horizon(today).month

\* Where payments and invoices stand in time.
PastInv == PaymentsArePast /\ InvoicesWithinHorizon

\* A reconciliation draws no invoice beyond the horizon and keeps the payments.
LEMMA ReconcileIsPast ==
  ASSUME LedgerInv, LedgerInv', PastInv,
         Reconcile(Sources'), UNCHANGED <<today, payments, paymentMoves>>
  PROVE  PastInv'
  <1>1. PICK s : s = Sources'
    OBVIOUS
  <1>2. SourcesTyped(s) /\ today \in Date /\ DaysLived
    BY <1>1 DEF LedgerInv, TypeOK, SourcesOK, SourcesTyped, Sources
  <1>3. ASSUME NEW key \in InvoiceKeys, invoices'[key] # None
        PROVE  key[2] =< Horizon(today).month
    <2>1. IsComputed(s, key) \/ IsKept(key)
      BY <1>1, <1>3 DEF Reconcile, SyncedInvoice
    <2>2. IsComputed(s, key) => key[2] =< Horizon(today).month
      BY <1>2, ComputedIsWithinHorizon
    <2>3. IsKept(key) => key[2] =< Horizon(today).month
      BY DEF IsKept, PastInv, InvoicesWithinHorizon
    <2>. QED BY <2>1, <2>2, <2>3
  <1>. QED BY <1>3 DEF PastInv, PaymentsArePast, InvoicesWithinHorizon

\* The horizon only moves forward.
LEMMA NextKeepsPast ==
    LedgerInv /\ LedgerInv' /\ PastInv /\ [Next]_vars => PastInv'
  <1>. SUFFICES ASSUME LedgerInv, LedgerInv', PastInv, [Next]_vars PROVE PastInv'
    OBVIOUS
  <1>0. /\ payments \in [PaymentKeys -> PaymentInputs \union {None}]
        /\ invoices \in [InvoiceKeys -> Invoice \union {None}]
    BY DEF LedgerInv, TypeOK, SourcesOK, DerivedOK
  <1>1. ASSUME NEW k \in PaymentKeys, NEW payment \in PaymentInputs, SavePayment(k, payment)
        PROVE  PastInv'
    <2>1. /\ NotAfter(payment.date, today) /\ today' = today
          /\ payments' = [payments EXCEPT ![k] = payment]
          /\ invoices[payment.invoice] # None
          /\ \E new : invoices' = [invoices EXCEPT ![payment.invoice] = new]
      BY <1>1 DEF SavePayment
    <2>. QED BY <1>0, <2>1 DEF PastInv, PaymentsArePast, InvoicesWithinHorizon
  <1>2. ASSUME NEW k \in PaymentKeys, DeletePayment(k)
        PROVE  PastInv'
    <2>1. /\ payments[k] # None /\ today' = today
          /\ payments' = [payments EXCEPT ![k] = None]
          /\ \E new : invoices' = [invoices EXCEPT ![payments[k].invoice] = new]
      BY <1>2 DEF DeletePayment
    <2>2. invoices[payments[k].invoice] # None
      BY <2>1 DEF LedgerInv, PaymentsAreBacked
    <2>. QED BY <1>0, <2>1, <2>2 DEF PastInv, PaymentsArePast, InvoicesWithinHorizon
  <1>3. CASE NewDay
    <2>1. today \in Date /\ Before(today, LastDay)
      BY <1>3 DEF NewDay, LedgerInv, TypeOK, SourcesOK
    <2>2. today' = NextDay(today) /\ UNCHANGED <<payments, invoices>>
      BY <1>3 DEF NewDay
    <2>3. PaymentsArePast'
      <3>. SUFFICES ASSUME NEW k \in PaymentKeys, payments[k] # None
                    PROVE  NotAfter(payments[k].date, NextDay(today))
        BY <2>2 DEF PaymentsArePast
      <3>1. payments[k].date \in Date /\ NotAfter(payments[k].date, today)
        BY <1>0, InputAssumption DEF Payment, PastInv, PaymentsArePast
      <3>. QED BY <2>1, <3>1, NextDayIsLater
    <2>4. InvoicesWithinHorizon'
      <3>1. Horizon(today).month =< Horizon(NextDay(today)).month
        <4>1. today.month =< NextDay(today).month /\ NextDay(today).month \in Nat
          BY <2>1, DateFields DEF NextDay
        <4>. QED BY <2>1, <4>1, DateFields, MonthsAreNaturals DEF Horizon, Clamped
      <3>2. /\ Horizon(today).month \in Int /\ Horizon(NextDay(today)).month \in Int
            /\ \A key \in InvoiceKeys : key[2] \in Int
        <4>1. NextDay(today) \in Date /\ NotAfter(NextDay(today), LastDay)
          BY <2>1, NextDayIsReached
        <4>2. NotAfter(today, LastDay)
          BY <2>1 DEF NotAfter
        <4>3. \A key \in InvoiceKeys : key[2] \in Months
          BY DEF InvoiceKeys
        <4>4. Horizon(today).month \in Int /\ Horizon(NextDay(today)).month \in Int
          BY <2>1, <4>1, <4>2, HorizonIsDate
        <4>5. \A m \in Months : m \in Int
          BY MonthsAreNaturals
        <4>6. \A key \in InvoiceKeys : key[2] \in Int
          BY <4>3, <4>5
        <4>. QED BY <4>4, <4>6
      <3>. QED BY <2>2, <3>1, <3>2 DEF PastInv, InvoicesWithinHorizon
    <2>. QED BY <2>3, <2>4 DEF PastInv
  <1>4. CASE UNCHANGED vars
    BY <1>4 DEF vars, PastInv, PaymentsArePast, InvoicesWithinHorizon
  <1>5. CASE \/ \E i \in ItemIds :
                   (\E item \in ItemInputs : SaveItem(i, item)) \/ DeleteItem(i)
             \/ \E c \in CardIds, settings \in SettingInputs : SaveCard(c, settings)
             \/ \E k \in CreditKeys :
                   (\E credit \in CreditInputs : SaveCredit(k, credit)) \/ DeleteCredit(k)
             \/ OpenPage
    <2>1. OpenPage => Sources' = Sources
      BY DEF OpenPage, sourceVars, Sources
    <2>2. Reconcile(Sources') /\ UNCHANGED <<today, payments, paymentMoves>>
      BY <1>5, <2>1 DEF SaveItem, DeleteItem, SaveCard, SaveCredit, DeleteCredit, OpenPage
    <2>. QED BY <2>2, ReconcileIsPast
  <1>. QED BY <1>1, <1>2, <1>3, <1>4, <1>5 DEF Next

\* The invariant a forecast rests on.
LEMMA PastInvariant == Spec => [](LedgerInv /\ FreshInv /\ StandInv /\ PastInv)
  <1>1. Init => PastInv
    BY DEF Init, PastInv, PaymentsArePast, InvoicesWithinHorizon
  <1>2. LedgerInv /\ LedgerInv' /\ PastInv /\ [Next]_vars => PastInv'
    BY NextKeepsPast
  <1>. QED BY <1>1, <1>2, StandInvariant, PTL DEF Spec

\* What the payments of one invoice, and the payments' movements, add to a sum
\* over every payment key.
PaidFrom(rows, key) ==
    [j \in PaymentKeys |-> IF rows[j] # None /\ rows[j].invoice = key THEN rows[j].amount ELSE 0]
MovedFrom(rows) == [j \in PaymentKeys |-> IF rows[j] # None THEN rows[j].amount ELSE 0]

\* What was paid by a day is a sum over every payment key.
LEMMA PaidIs ==
  ASSUME NEW rows \in [PaymentKeys -> Payment \union {None}], NEW key, NEW day,
         \A k \in PaymentKeys : rows[k] # None => NotAfter(rows[k].date, day)
  PROVE  SumPayments(rows, {k \in PaymentsOf(rows, key) : NotAfter(rows[k].date, day)})
           = SumFunctionOnSet(PaidFrom(rows, key), PaymentKeys)
  <1>. DEFINE some == {k \in PaymentsOf(rows, key) : NotAfter(rows[k].date, day)}
              f == [k \in some |-> rows[k].amount]
              g == PaidFrom(rows, key)
  <1>1. some \in SUBSET PaymentKeys /\ IsFiniteSet(PaymentKeys)
    BY RowsAssumption DEF PaymentsOf
  <1>2. \A k \in some : f[k] = g[k] /\ g[k] \in Int
    BY DEF PaidFrom, PaymentsOf, Payment
  <1>3. \A k \in PaymentKeys \ some : g[k] = 0
    BY DEF PaidFrom, PaymentsOf
  <1>4. SumPayments(rows, some) = SumFunctionOnSet(f, some)
    BY DEF SumPayments, SumFunction
  <1>. HIDE DEF some, f, g
  <1>5. SumFunctionOnSet(f, some) = SumFunctionOnSet(g, PaymentKeys)
    BY <1>1, <1>2, <1>3, SumOfSome
  <1>. QED BY <1>4, <1>5 DEF some, g

\* So is what payments have moved, each movement saying what its payment says.
LEMMA MovedIs ==
  ASSUME NEW rows \in [PaymentKeys -> Payment \union {None}], NEW moves, NEW day,
         \A k \in PaymentKeys :
            IF rows[k] = None THEN moves[k] = None
            ELSE /\ moves[k] # None /\ moves[k].amount = rows[k].amount
                 /\ NotAfter(moves[k].date, day)
  PROVE  Moved(moves, PaymentKeys, day) = SumFunctionOnSet(MovedFrom(rows), PaymentKeys)
  <1>. DEFINE some == {k \in PaymentKeys : moves[k] # None /\ NotAfter(moves[k].date, day)}
              f == [k \in some |-> moves[k].amount]
              g == MovedFrom(rows)
  <1>1. some \in SUBSET PaymentKeys /\ IsFiniteSet(PaymentKeys)
    BY RowsAssumption
  <1>2. \A k \in some : f[k] = g[k] /\ g[k] \in Int
    BY DEF MovedFrom, Payment
  <1>3. \A k \in PaymentKeys \ some : g[k] = 0
    BY DEF MovedFrom
  <1>4. Moved(moves, PaymentKeys, day) = SumFunctionOnSet(f, some)
    BY DEF Moved, SumFunction
  <1>. HIDE DEF some, f, g
  <1>5. SumFunctionOnSet(f, some) = SumFunctionOnSet(g, PaymentKeys)
    BY <1>1, <1>2, <1>3, SumOfSome
  <1>. QED BY <1>4, <1>5 DEF g

\* What moved on an account adds up.
LEMMA MovedIsInt ==
  ASSUME NEW keys, IsFiniteSet(keys), NEW rows \in [keys -> Movement \union {None}], NEW day
  PROVE  Moved(rows, keys, day) \in Int
  <1>. DEFINE some == {k \in keys : rows[k] # None /\ NotAfter(rows[k].date, day)}
              f == [k \in some |-> rows[k].amount]
  <1>1. IsFiniteSet(some) /\ \A k \in some : f[k] \in Int
    BY FS_Subset DEF Movement
  <1>2. Moved(rows, keys, day) = SumFunctionOnSet(f, some)
    BY DEF Moved, SumFunction
  <1>. HIDE DEF some, f
  <1>3. SumFunctionOnSet(f, some) \in Int
    BY <1>1, SumIsInt
  <1>. QED BY <1>2, <1>3

\* The day by which everything an invoice asks for is expected.
CloseOf(day) == MonthEnd(Horizon(day).month + 1)

\* Everything an invoice within the horizon expects, it expects by the close.
LEMMA CloseIsLate ==
  ASSUME NEW d \in Date, NotAfter(d, LastDay)
  PROVE  /\ CloseOf(d) \in Date
         /\ \A e \in Date : e.month =< Horizon(d).month + 1 => NotAfter(e, CloseOf(d))
         /\ d.month =< Horizon(d).month + 1
  <1>. DEFINE last == Horizon(d).month + 1
  <1>1. d.month =< LastDay.month
    BY DateFields, DaysAssumption DEF NotAfter, Before
  <1>2. Horizon(d).month = d.month + ProjectionMonths
    BY DEF Horizon, Clamped
  <1>3. last = d.month + ProjectionMonths + 1 /\ last \in Nat
        /\ last =< LastDay.month + ProjectionMonths + 1
    BY <1>1, <1>2, DateFields, DaysAssumption, MonthsAreNaturals
  <1>. HIDE DEF last
  <1>4. last \in Months /\ DaysIn[last] \in Nat \ {0}
    <2>1. LastDay.month + ProjectionMonths + 1 \in Months
      BY DaysAssumption
    <2>. QED BY <1>3, <2>1, MonthsAreNaturals
  <1>5. CloseOf(d) = [month |-> last, day |-> DaysIn[last]]
    BY DEF CloseOf, MonthEnd, last
  <1>6. CloseOf(d) \in Date
    <2>1. DaysIn[last] \in 1 .. DaysIn[last]
      BY <1>4
    <2>. QED BY <1>4, <1>5, <2>1, DateIsRecord
  <1>7. ASSUME NEW e \in Date, e.month =< last PROVE NotAfter(e, CloseOf(d))
    <2>1. CASE e.month < last
      BY <1>5, <2>1 DEF NotAfter, Before
    <2>2. CASE e.month = last
      <3>1. e = [month |-> last, day |-> e.day] /\ e.day \in Nat /\ e.day =< DaysIn[last]
        BY <2>2, DateFields
      <3>. QED BY <1>4, <1>5, <2>2, <3>1 DEF NotAfter, Before
    <2>. QED BY <1>3, <1>7, <2>1, <2>2, DateFields
  <1>8. d.month =< last
    BY <1>3, DateFields, MonthsAreNaturals
  <1>. QED BY <1>6, <1>7, <1>8 DEF last

\* The bills a forecast expects by a day.
Expecting(day, from) == {key \in Confirmed : NotAfter(ExpectedOn(key, from), day)}

\* Finitely many invoices ask for confirmation.
LEMMA FewAreConfirmed == LedgerInv => IsFiniteSet(Confirmed)
  <1>1. Confirmed \subseteq CardIds \X Months
    BY DEF Confirmed, InvoiceKeys
  <1>2. IsFiniteSet(CardIds \X Months)
    BY RowsAssumption, FS_Product
  <1>. QED BY <1>1, <1>2, FS_Subset

\* By the close every bill to be confirmed is expected, overdue or not.
LEMMA OverdueIsExpected ==
  ASSUME LedgerInv, FreshInv, PastInv, Fresh, NEW key \in Confirmed
  PROVE  key \in Expecting(CloseOf(today), today)
  <1>1. /\ today \in Date /\ NotAfter(today, LastDay) /\ key \in InvoiceKeys /\ invoices[key] # None
        /\ key[1] \in CardIds /\ key[2] \in Months
    BY DEF LedgerInv, TypeOK, SourcesOK, DaysLived, Confirmed, InvoiceKeys
  <1>2. invoices[key].due = DueDate(cards[key[1]], key[2]) /\ invoices[key].due \in Date
    BY <1>1, DueAsTheCardSays
  <1>3. invoices[key].due.month =< key[2] + 1
    <2>1. key[2] \in Int
      <3>1. \A m \in Months : m \in Int
        BY MonthsAreNaturals
      <3>. QED BY <1>1, <3>1
    <2>2. invoices[key].due.month \in {key[2], key[2] + 1}
      BY <1>2 DEF DueDate, Clamped
    <2>. QED BY <2>1, <2>2
  <1>4. key[2] =< Horizon(today).month
    BY <1>1 DEF PastInv, InvoicesWithinHorizon
  <1>5. Horizon(today).month \in Int /\ key[2] \in Int /\ invoices[key].due.month \in Int
    BY <1>1, <1>2, HorizonIsDate, MonthsAreNaturals, DateFields
  <1>6. NotAfter(invoices[key].due, CloseOf(today)) /\ NotAfter(today, CloseOf(today))
    BY <1>1, <1>2, <1>3, <1>4, <1>5, CloseIsLate
  <1>. QED BY <1>6 DEF Expecting, ExpectedOn

\* Confirming, changing or deleting one payment of an invoice, within its bill,
\* moves as much as it settles.
LEMMA SettlingKeepsTheClose ==
  ASSUME LedgerInv, LedgerInv', FreshInv, PastInv, PastInv', Fresh,
         NEW k \in PaymentKeys, NEW key \in InvoiceKeys, invoices[key] # None, invoices[key].manual,
         NEW row \in Payment \union {None}, payments' = [payments EXCEPT ![k] = row],
         payments[k] # None => payments[k].invoice = key, row # None => row.invoice = key,
         invoices' = [invoices EXCEPT ![key] = Refreshed(key, payments')],
         UNCHANGED <<today, sourceVars, itemMoves, invoiceMoves, syncedOn>>,
         PaidFor(key), PaidBy(key, today)' =< StatementAmountAt(Sources, invoices[key], key, today)
  PROVE  ProjectedBalance(CloseOf(today), today)' = ProjectedBalance(CloseOf(today), today)
  <1>. DEFINE close == CloseOf(today)
              some == Expecting(close, today)
              was == IF payments[k] = None THEN 0 ELSE payments[k].amount
              is == IF row = None THEN 0 ELSE row.amount
              left == [other \in some |-> RemainingAt(other, today)]
              leftNow == [other \in some |-> RemainingAt(other, today)']
  <1>1. /\ today \in Date /\ NotAfter(today, LastDay) /\ close \in Date
        /\ payments \in [PaymentKeys -> Payment \union {None}]
        /\ payments' \in [PaymentKeys -> Payment \union {None}]
        /\ invoices \in [InvoiceKeys -> Invoice \union {None}] /\ invoices[key] \in Invoice
        /\ was \in Int /\ is \in Int
    BY InputAssumption, CloseIsLate
       DEF LedgerInv, TypeOK, SourcesOK, DerivedOK, DaysLived, Payment
  <1>2. /\ invoices'[key] # None /\ invoices'[key].manual
        /\ invoices'[key].amount = invoices[key].amount /\ invoices'[key].due = invoices[key].due
        /\ \A other \in InvoiceKeys : other # key => invoices'[other] = invoices[other]
    <2>1. PICK statement : Refreshed(key, payments')
             = Settled(invoices[key], key, cards[key[1]], payments', statement, today)
      BY DEF Refreshed
    <2>2. Refreshed(key, payments') \in Invoice /\ Refreshed(key, payments').manual
      <3>1. PICK rows : rows = payments'
        OBVIOUS
      <3>2. rows \in [PaymentKeys -> Payment \union {None}]
        BY <1>1, <3>1
      <3>. DEFINE settled == Settled(invoices[key], key, cards[key[1]], rows, statement, today)
      <3>3. settled \in Invoice /\ (invoices[key].manual => settled.manual)
        BY ONLY <1>1, <3>2, SettledIsInvoice
      <3>. QED BY <2>1, <3>1, <3>3
    <2>3. /\ Refreshed(key, payments').amount = invoices[key].amount
          /\ Refreshed(key, payments').due = invoices[key].due
      BY <1>1, <2>1, SettledIs
    <2>. QED BY <1>1, <2>2, <2>3, AbsenceAssumption
  <1>3. Confirmed' = Confirmed /\ key \in Confirmed
    BY <1>2 DEF Confirmed
  <1>4. Expecting(CloseOf(today), today)' = some
    BY <1>2, <1>3 DEF Expecting, ExpectedOn, CloseOf, Horizon, MonthEnd, Clamped
  <1>5. key \in some /\ IsFiniteSet(some)
    <2>1. some \subseteq Confirmed
      BY DEF Expecting
    <2>. QED BY <1>3, <2>1, OverdueIsExpected, FewAreConfirmed, FS_Subset
  <1>6. /\ \A j \in PaymentKeys : /\ payments[j] # None => NotAfter(payments[j].date, today)
                                  /\ payments'[j] # None => NotAfter(payments'[j].date, today)
        /\ payments'[k] = row /\ \A j \in PaymentKeys : j # k => payments'[j] = payments[j]
    BY <1>1 DEF PastInv, PaymentsArePast
  <1>7. ASSUME NEW other \in InvoiceKeys
        PROVE  /\ PaidBy(other, today)
                    = SumFunctionOnSet(PaidFrom(payments, other), PaymentKeys)
               /\ PaidBy(other, today)'
                    = SumFunctionOnSet(PaidFrom(payments', other), PaymentKeys)
    <2>1. PICK rows : rows = payments'
      OBVIOUS
    <2>2. PaidBy(other, today)'
            = SumPayments(rows, {j \in PaymentsOf(rows, other) : NotAfter(rows[j].date, today)})
      BY <2>1 DEF PaidBy
    <2>3. /\ rows \in [PaymentKeys -> Payment \union {None}]
          /\ \A j \in PaymentKeys : rows[j] # None => NotAfter(rows[j].date, today)
          /\ \A j \in PaymentKeys : payments[j] # None => NotAfter(payments[j].date, today)
      BY <1>1, <1>6, <2>1
    <2>4. SumPayments(rows, {j \in PaymentsOf(rows, other) : NotAfter(rows[j].date, today)})
            = SumFunctionOnSet(PaidFrom(rows, other), PaymentKeys)
      BY ONLY <2>3, PaidIs
    <2>5. SumPayments(payments, {j \in PaymentsOf(payments, other) :
                                   NotAfter(payments[j].date, today)})
            = SumFunctionOnSet(PaidFrom(payments, other), PaymentKeys)
      BY ONLY <1>1, <2>3, PaidIs
    <2>6. PaidBy(other, today) = SumFunctionOnSet(PaidFrom(payments, other), PaymentKeys)
      BY <2>5 DEF PaidBy
    <2>. QED BY <2>1, <2>2, <2>4, <2>6
  <1>8. ASSUME NEW other \in InvoiceKeys
        PROVE  /\ StatementAmountAt(Sources, invoices[other], other, today)'
                    = StatementAmountAt(Sources, invoices[other], other, today)
    <2>1. Sources' = Sources /\ invoices'[other].amount = invoices[other].amount
      BY <1>2 DEF Sources, sourceVars
    <2>. QED BY <2>1 DEF StatementAmountAt
  <1>9. ASSUME NEW other \in some, other # key
        PROVE  leftNow[other] = left[other]
    <2>1. other \in InvoiceKeys
      BY DEF Expecting, Confirmed
    <2>2. PaidFrom(payments', other) = PaidFrom(payments, other)
      BY <1>6, <1>9 DEF PaidFrom
    <2>3. PaidBy(other, today)' = PaidBy(other, today)
      BY <1>7, <2>1, <2>2
    <2>4. /\ RemainingAt(other, today)
               = Positive(StatementAmountAt(Sources, invoices[other], other, today)
                            - PaidBy(other, today))
          /\ RemainingAt(other, today)'
               = Positive(StatementAmountAt(Sources, invoices[other], other, today)'
                            - PaidBy(other, today)')
      BY DEF RemainingAt
    <2>5. RemainingAt(other, today)' = RemainingAt(other, today)
      BY <1>8, <2>1, <2>3, <2>4
    <2>. QED BY <1>9, <2>5
  <1>10. /\ PaidBy(key, today) \in Int /\ PaidBy(key, today)' \in Int
         /\ PaidBy(key, today)' - is = PaidBy(key, today) - was
    <2>1. PICK f, g : f = PaidFrom(payments, key) /\ g = PaidFrom(payments', key)
      OBVIOUS
    <2>2. \A j \in PaymentKeys : f[j] \in Int /\ g[j] \in Int
      BY <1>1, <2>1 DEF PaidFrom, Payment
    <2>3. f[k] = was /\ g[k] = is /\ \A j \in PaymentKeys : j # k => g[j] = f[j]
      BY <1>6, <2>1 DEF PaidFrom
    <2>. HIDE DEF was, is
    <2>4. /\ SumFunctionOnSet(f, PaymentKeys) \in Int /\ SumFunctionOnSet(g, PaymentKeys) \in Int
          /\ SumFunctionOnSet(g, PaymentKeys) - is = SumFunctionOnSet(f, PaymentKeys) - was
      BY <2>2, <2>3, RowsAssumption, SumChange
    <2>. QED BY <1>7, <2>1, <2>4
  <1>11. /\ left[key] \in Int /\ leftNow[key] \in Int /\ leftNow[key] + is = left[key] + was
    <2>. DEFINE bill == StatementAmountAt(Sources, invoices[key], key, today)
    <2>1. bill \in Int
      BY <1>1, PositiveIsNat DEF StatementAmountAt, Invoice
    <2>2. StatementAmountAt(Sources, invoices[key], key, today)' = bill
      BY <1>8
    <2>3. /\ left[key] = Positive(bill - PaidBy(key, today))
          /\ leftNow[key] = Positive(bill - PaidBy(key, today)')
      BY <1>5, <2>2 DEF RemainingAt
    <2>4. PaidBy(key, today) =< bill /\ PaidBy(key, today)' =< bill
      BY DEF PaidFor
    <2>5. PICK paid, paidNow : paid = PaidBy(key, today) /\ paidNow = PaidBy(key, today)'
      OBVIOUS
    <2>. HIDE DEF bill, left, leftNow, was, is
    <2>. QED BY <1>1, <1>10, <2>1, <2>3, <2>4, <2>5 DEF Positive
  <1>12. /\ Moved(paymentMoves, PaymentKeys, close) \in Int
         /\ Moved(paymentMoves', PaymentKeys, close) \in Int
         /\ Moved(paymentMoves', PaymentKeys, close) - is
              = Moved(paymentMoves, PaymentKeys, close) - was
    <2>1. PICK rows, moves : rows = payments' /\ moves = paymentMoves'
      OBVIOUS
    <2>2. ASSUME NEW d \in Date, NotAfter(d, today) PROVE NotAfter(d, close)
      <3>1. d.month =< today.month /\ today.month =< Horizon(today).month + 1
        BY <1>1, <2>2, CloseIsLate, DateFields DEF NotAfter, Before
      <3>2. Horizon(today).month \in Int
        BY <1>1, HorizonIsDate
      <3>. QED BY <1>1, <3>1, <3>2, CloseIsLate, DateFields
    <2>3. \A j \in PaymentKeys :
             IF payments[j] = None THEN paymentMoves[j] = None
             ELSE /\ paymentMoves[j] # None /\ paymentMoves[j].amount = payments[j].amount
                  /\ NotAfter(paymentMoves[j].date, close)
      <3>. TAKE j \in PaymentKeys
      <3>. HIDE DEF close
      <3>1. CASE payments[j] = None
        BY <3>1 DEF LedgerInv, PaymentsAreBacked
      <3>2. CASE payments[j] # None
        <4>1. payments[j] \in Payment /\ NotAfter(payments[j].date, today)
          <5>1. payments[j] # None => NotAfter(payments[j].date, today)
            BY <1>6
          <5>. QED BY <1>1, <3>2, <5>1
        <4>2. paymentMoves[j] = [account |-> payments[j].account, amount |-> payments[j].amount,
                                 date |-> payments[j].date]
          BY <3>2 DEF LedgerInv, PaymentsAreBacked
        <4>3. paymentMoves[j] \in Movement
          BY <4>1, <4>2 DEF Payment, Movement
        <4>. QED BY <2>2, <3>2, <4>1, <4>2, <4>3, AbsenceAssumption DEF Payment
      <3>. QED BY <3>1, <3>2
    <2>4. \A j \in PaymentKeys :
             IF rows[j] = None THEN moves[j] = None
             ELSE /\ moves[j] # None /\ moves[j].amount = rows[j].amount
                  /\ NotAfter(moves[j].date, close)
      <3>. TAKE j \in PaymentKeys
      <3>. HIDE DEF close
      <3>1. CASE rows[j] = None
        BY <2>1, <3>1 DEF LedgerInv, PaymentsAreBacked
      <3>2. CASE rows[j] # None
        <4>1. rows[j] \in Payment /\ NotAfter(rows[j].date, today)
          <5>1. payments'[j] # None => NotAfter(payments'[j].date, today)
            BY <1>6
          <5>2. rows \in [PaymentKeys -> Payment \union {None}]
            BY <1>1, <2>1
          <5>. QED BY <2>1, <3>2, <5>1, <5>2
        <4>2. moves[j] = [account |-> rows[j].account, amount |-> rows[j].amount,
                          date |-> rows[j].date]
          BY <2>1, <3>2 DEF LedgerInv, PaymentsAreBacked
        <4>3. moves[j] \in Movement
          BY <4>1, <4>2 DEF Payment, Movement
        <4>. QED BY <2>2, <3>2, <4>1, <4>2, <4>3, AbsenceAssumption DEF Payment
      <3>. QED BY <3>1, <3>2
    <2>5. PICK f, g : f = MovedFrom(payments) /\ g = MovedFrom(rows)
      OBVIOUS
    <2>6. \A j \in PaymentKeys : f[j] \in Int /\ g[j] \in Int
      BY <1>1, <2>1, <2>5 DEF MovedFrom, Payment
    <2>7. f[k] = was /\ g[k] = is /\ \A j \in PaymentKeys : j # k => g[j] = f[j]
      BY <1>6, <2>1, <2>5 DEF MovedFrom
    <2>. HIDE DEF was, is, close
    <2>8. /\ SumFunctionOnSet(f, PaymentKeys) \in Int /\ SumFunctionOnSet(g, PaymentKeys) \in Int
          /\ SumFunctionOnSet(g, PaymentKeys) - is = SumFunctionOnSet(f, PaymentKeys) - was
      BY <2>6, <2>7, RowsAssumption, SumChange
    <2>9. Moved(paymentMoves, PaymentKeys, close) = SumFunctionOnSet(f, PaymentKeys)
      BY <1>1, <2>3, <2>5, MovedIs
    <2>10. Moved(moves, PaymentKeys, close) = SumFunctionOnSet(g, PaymentKeys)
      <3>1. rows \in [PaymentKeys -> Payment \union {None}]
        BY <1>1, <2>1
      <3>2. Moved(moves, PaymentKeys, close) = SumFunctionOnSet(MovedFrom(rows), PaymentKeys)
        BY ONLY <2>4, <3>1, MovedIs
      <3>. QED BY <2>5, <3>2
    <2>. QED BY <2>1, <2>8, <2>9, <2>10
  <1>13. /\ SumFunctionOnSet(left, some) \in Int /\ SumFunctionOnSet(leftNow, some) \in Int
         /\ SumFunctionOnSet(leftNow, some) - leftNow[key] = SumFunctionOnSet(left, some) - left[key]
    <2>1. \A other \in some : left[other] \in Int /\ leftNow[other] \in Int
      <3>. TAKE other \in some
      <3>1. left[other] \in Int
        BY PositiveIsNat DEF RemainingAt
      <3>2. CASE other = key
        BY <1>11, <3>1, <3>2
      <3>3. CASE other # key
        BY <1>9, <3>1, <3>3
      <3>. QED BY <3>1, <3>2, <3>3
    <2>. HIDE DEF left, leftNow, some
    <2>. QED BY <1>5, <1>9, <2>1, SumChange
  <1>14. /\ AccountMoves(close) \in Int /\ Moved(invoiceMoves, InvoiceKeys, close) \in Int
    <2>1. IsFiniteSet(ItemIds \X Months) /\ IsFiniteSet(InvoiceKeys)
      BY RowsAssumption, FS_Product DEF InvoiceKeys
    <2>2. /\ itemMoves \in [ItemIds \X Months -> Movement \union {None}]
          /\ invoiceMoves \in [InvoiceKeys -> Movement \union {None}]
      BY DEF LedgerInv, TypeOK, DerivedOK
    <2>. HIDE DEF close
    <2>. QED BY <2>1, <2>2, MovedIsInt DEF AccountMoves
  <1>15. ProjectedBalance(close, today)
           = -(AccountMoves(close) + Moved(invoiceMoves, InvoiceKeys, close)
                 + Moved(paymentMoves, PaymentKeys, close)) - SumFunctionOnSet(left, some)
    <2>1. ProjectedBalance(close, today) = Balance(close) - SumFunction(left)
      BY DEF ProjectedBalance, Expecting
    <2>2. SumFunction(left) = SumFunctionOnSet(left, some)
      BY DEF SumFunction
    <2>3. Balance(close)
           = -(AccountMoves(close) + Moved(invoiceMoves, InvoiceKeys, close)
                 + Moved(paymentMoves, PaymentKeys, close))
      BY DEF Balance
    <2>. QED BY <2>1, <2>2, <2>3
  <1>16. ProjectedBalance(CloseOf(today), today)'
           = -(AccountMoves(close) + Moved(invoiceMoves, InvoiceKeys, close)
                 + Moved(paymentMoves', PaymentKeys, close)) - SumFunctionOnSet(leftNow, some)
    <2>. DEFINE closeNow == CloseOf(today')
                someNow == Expecting(CloseOf(today), today)'
                restNow == [other \in someNow |-> RemainingAt(other, today)']
    <2>1. closeNow = close /\ someNow = some
      BY <1>4
    <2>2. ProjectedBalance(CloseOf(today), today)'
            = Balance(CloseOf(today))' - SumFunction(restNow)
      BY DEF ProjectedBalance, Expecting
    <2>3. Balance(CloseOf(today))'
            = -(AccountMoves(CloseOf(today))' + Moved(invoiceMoves', InvoiceKeys, closeNow)
                 + Moved(paymentMoves', PaymentKeys, closeNow))
      BY DEF Balance, CloseOf
    <2>4. AccountMoves(CloseOf(today))' = AccountMoves(close)
      BY DEF AccountMoves
    <2>5. restNow = leftNow
      BY <2>1
    <2>6. SumFunction(restNow) = SumFunctionOnSet(leftNow, some)
      BY <2>5 DEF SumFunction
    <2>. QED BY <2>1, <2>2, <2>3, <2>4, <2>6
  <1>17. PICK a, m, p, q, x, y : /\ a = AccountMoves(close)
                                 /\ m = Moved(invoiceMoves, InvoiceKeys, close)
                                 /\ p = Moved(paymentMoves, PaymentKeys, close)
                                 /\ q = Moved(paymentMoves', PaymentKeys, close)
                                 /\ x = SumFunctionOnSet(left, some)
                                 /\ y = SumFunctionOnSet(leftNow, some)
    OBVIOUS
  <1>18. PICK b, c : b = left[key] /\ c = leftNow[key]
    OBVIOUS
  <1>. HIDE DEF close, some, left, leftNow, was, is
  <1>19. /\ b \in Int /\ c \in Int /\ was \in Int /\ is \in Int /\ c + is = b + was
         /\ p \in Int /\ q \in Int /\ q - is = p - was
         /\ x \in Int /\ y \in Int /\ y - c = x - b /\ a \in Int /\ m \in Int
    BY <1>1, <1>11, <1>12, <1>13, <1>14, <1>17, <1>18
  <1>20. -(a + m + q) - y = -(a + m + p) - x
    BY ONLY <1>19
  <1>21. ProjectedBalance(CloseOf(today), today)' = ProjectedBalance(close, today)
    BY <1>15, <1>16, <1>17, <1>20
  <1>. QED BY <1>21 DEF close

\* Every payment of an invoice is a past one.
LEMMA PaidIsAll ==
  ASSUME NEW rows, NEW key, NEW day,
         \A j \in PaymentKeys : rows[j] # None => NotAfter(rows[j].date, day)
  PROVE  SumPayments(rows, {j \in PaymentsOf(rows, key) : NotAfter(rows[j].date, day)})
           = SumPayments(rows, PaymentsOf(rows, key))
  <1>1. {j \in PaymentsOf(rows, key) : NotAfter(rows[j].date, day)} = PaymentsOf(rows, key)
    BY DEF PaymentsOf
  <1>. QED BY <1>1

\* A payment that fits its bill moves no forecast.
LEMMA SavingKeepsTheClose ==
  ASSUME LedgerInv, LedgerInv', FreshInv, StandInv, PastInv, PastInv', Fresh,
         NEW k \in PaymentKeys, NEW payment \in PaymentInputs, SavePayment(k, payment),
         payments'[k] # payments[k], PaidFor(payment.invoice)
  PROVE  ProjectedBalance(CloseOf(today), today)' = ProjectedBalance(CloseOf(today), today)
  <1>. DEFINE key == payment.invoice
  <1>1. /\ payment \in Payment /\ key \in InvoiceKeys /\ today \in Date
        /\ payments \in [PaymentKeys -> Payment \union {None}] /\ SourcesTyped(Sources)
    BY InputAssumption, SourcesAreTyped DEF LedgerInv, TypeOK, SourcesOK, Payment
  <1>2. /\ invoices[key] # None /\ invoices[key].manual
        /\ payments' = [payments EXCEPT ![k] = payment]
        /\ payments[k] # None => payments[k].invoice = key
        /\ invoices' = [invoices EXCEPT ![key] = Refreshed(key, payments')]
        /\ UNCHANGED <<today, sourceVars, itemMoves, invoiceMoves, syncedOn>>
    BY DEF SavePayment
  <1>3. payments'[k] = payment /\ payment # None
    BY <1>1, <1>2, AbsenceAssumption
  <1>4. PaidBy(key, today)' =< StatementAmountAt(Sources, invoices[key], key, today)
    <2>1. PICK rows : rows = payments'
      OBVIOUS
    <2>2. \A j \in PaymentKeys : rows[j] # None => NotAfter(rows[j].date, today)
      BY <1>2, <2>1 DEF PastInv, PaymentsArePast
    <2>3. PaidBy(key, today)' = SumPayments(rows, PaymentsOf(rows, key))
      <3>1. PaidBy(key, today)'
              = SumPayments(rows, {j \in PaymentsOf(rows, key) : NotAfter(rows[j].date, today)})
        BY <1>2, <2>1 DEF PaidBy
      <3>. QED BY <2>2, <3>1, PaidIsAll
    <2>4. SumPayments(rows, PaymentsOf(rows, key))
            =< Positive(Gross(Sources, key[1], key[2])
                        - CreditsPostedBy(Sources, key[1], key[2], today))
      <3>1. WithinBill
        BY PaymentsFitTheBill
      <3>. QED BY <1>3, <2>1, <3>1 DEF WithinBill
    <2>5. StatementAmountAt(Sources, invoices[key], key, today)
            = Positive(Gross(Sources, key[1], key[2])
                       - CreditsPostedBy(Sources, key[1], key[2], today))
      BY <1>1, <1>2, StatementsAgree DEF StandInv, AmountsStand
    <2>. QED BY <2>3, <2>4, <2>5
  <1>. QED BY <1>1, <1>2, <1>3, <1>4, SettlingKeepsTheClose

\* Neither does taking a payment back.
LEMMA DeletingKeepsTheClose ==
  ASSUME LedgerInv, LedgerInv', FreshInv, PastInv, PastInv', Fresh,
         NEW k \in PaymentKeys, DeletePayment(k), PaidFor(payments[k].invoice)
  PROVE  ProjectedBalance(CloseOf(today), today)' = ProjectedBalance(CloseOf(today), today)
  <1>1. PICK key : key = payments[k].invoice
    OBVIOUS
  <1>2. /\ payments[k] # None /\ payments' = [payments EXCEPT ![k] = None]
        /\ invoices' = [invoices EXCEPT ![key] = Refreshed(key, payments')]
        /\ UNCHANGED <<today, sourceVars, itemMoves, invoiceMoves, syncedOn>>
    BY <1>1 DEF DeletePayment
  <1>3. /\ payments \in [PaymentKeys -> Payment \union {None}] /\ payments[k] \in Payment
        /\ key \in InvoiceKeys /\ invoices[key] # None /\ invoices[key].manual
    BY <1>1, <1>2, InputAssumption
       DEF LedgerInv, TypeOK, SourcesOK, PaymentsAreBacked, Payment
  <1>4. PaidBy(key, today)' =< StatementAmountAt(Sources, invoices[key], key, today)
    <2>1. PICK rows : rows = payments'
      OBVIOUS
    <2>2. /\ \A j \in PaymentKeys : rows[j] # None => NotAfter(rows[j].date, today)
          /\ \A j \in PaymentKeys : payments[j] # None => NotAfter(payments[j].date, today)
      BY <1>2, <2>1 DEF PastInv, PaymentsArePast
    <2>3. PaidBy(key, today)' = SumPayments(rows, PaymentsOf(rows, key))
      <3>1. PaidBy(key, today)'
              = SumPayments(rows, {j \in PaymentsOf(rows, key) : NotAfter(rows[j].date, today)})
        BY <1>2, <2>1 DEF PaidBy
      <3>. QED BY <2>2, <3>1, PaidIsAll
    <2>4. PaidBy(key, today) = SumPayments(payments, PaymentsOf(payments, key))
      BY <2>2, PaidIsAll DEF PaidBy
    <2>5. SumPayments(rows, PaymentsOf(rows, key)) =< SumPayments(payments, PaymentsOf(payments, key))
      <3>. DEFINE old == PaymentsOf(payments, key)
                  new == PaymentsOf(rows, key)
      <3>1. /\ new = old \ {k} /\ k \in old /\ old \in SUBSET PaymentKeys
            /\ rows \in [PaymentKeys -> Payment \union {None}]
            /\ \A j \in new : rows[j] = payments[j] /\ rows[j] # None
            /\ \A j \in old : payments[j] # None
        BY <1>1, <1>2, <1>3, <2>1 DEF PaymentsOf
      <3>. HIDE DEF old, new
      <3>2. SumPayments(rows, new) = SumPayments(payments, new)
        BY <1>3, <3>1, SamePayments
      <3>3. /\ SumPayments(payments, new) \in Nat
            /\ SumPayments(payments, old) = payments[k].amount + SumPayments(payments, new)
        BY <1>3, <3>1, PaymentSums
      <3>4. payments[k].amount \in Nat
        BY <1>3 DEF Payment
      <3>. QED BY <3>2, <3>3, <3>4 DEF old, new
    <2>6. PaidBy(key, today) =< StatementAmountAt(Sources, invoices[key], key, today)
      BY <1>1 DEF PaidFor
    <2>7. StatementAmountAt(Sources, invoices[key], key, today) \in Int
      <3>1. invoices[key] \in Invoice
        BY <1>3 DEF LedgerInv, TypeOK, DerivedOK
      <3>. QED BY <3>1, PositiveIsNat DEF StatementAmountAt, Invoice
    <2>8. /\ SumPayments(rows, PaymentsOf(rows, key)) \in Int
          /\ SumPayments(payments, PaymentsOf(payments, key)) \in Int
      <3>1. rows \in [PaymentKeys -> Payment \union {None}]
        BY <1>2, <1>3, <2>1
      <3>. QED BY <1>3, <3>1, PaymentSums DEF PaymentsOf
    <2>9. PICK p, q, bill : /\ p = SumPayments(rows, PaymentsOf(rows, key))
                           /\ q = SumPayments(payments, PaymentsOf(payments, key))
                           /\ bill = StatementAmountAt(Sources, invoices[key], key, today)
      OBVIOUS
    <2>10. p \in Int /\ q \in Int /\ bill \in Int /\ p =< q /\ q =< bill
      BY <2>4, <2>5, <2>6, <2>7, <2>8, <2>9
    <2>11. p =< bill
      BY ONLY <2>10
    <2>. QED BY <2>3, <2>9, <2>11
  <1>5. None \in Payment \union {None} /\ payments[k].invoice = key /\ PaidFor(key)
    BY <1>1
  <1>. QED BY <1>2, <1>3, <1>4, <1>5, SettlingKeepsTheClose

\* ForecastKeepsItsClose as an action.
ForecastKept ==
    Fresh /\ payments' # payments =>
        \A k \in PaymentKeys :
            LET row == IF payments[k] # None THEN payments[k] ELSE payments'[k]
                close == MonthEnd(Horizon(today).month + 1)
            IN  payments'[k] # payments[k] /\ PaidFor(row.invoice) =>
                   ProjectedBalance(close, today)' = ProjectedBalance(close, today)

\* Only payments are about payments; the rest leaves them alone.
LEMMA NextKeepsForecast ==
    LedgerInv /\ LedgerInv' /\ FreshInv /\ StandInv /\ PastInv /\ PastInv' /\ [Next]_vars
      => [ForecastKept]_vars
  <1>. SUFFICES ASSUME LedgerInv, LedgerInv', FreshInv, StandInv, PastInv, PastInv', Next, Fresh,
                       NEW k \in PaymentKeys, payments'[k] # payments[k],
                       PaidFor((IF payments[k] # None THEN payments[k] ELSE payments'[k]).invoice)
                PROVE  ProjectedBalance(CloseOf(today), today)' = ProjectedBalance(CloseOf(today), today)
    BY DEF ForecastKept, CloseOf
  <1>0. payments \in [PaymentKeys -> PaymentInputs \union {None}]
    BY DEF LedgerInv, TypeOK, SourcesOK
  <1>1. ASSUME NEW j \in PaymentKeys, NEW payment \in PaymentInputs, SavePayment(j, payment)
        PROVE  ProjectedBalance(CloseOf(today), today)' = ProjectedBalance(CloseOf(today), today)
    <2>1. payments' = [payments EXCEPT ![j] = payment]
          /\ (payments[j] # None => payments[j].invoice = payment.invoice)
      BY <1>1 DEF SavePayment
    <2>2. j = k /\ payments'[k] = payment
      BY <1>0, <2>1
    <2>3. PaidFor(payment.invoice)
      BY <2>1, <2>2
    <2>. QED BY <1>1, <2>2, <2>3, SavingKeepsTheClose
  <1>2. ASSUME NEW j \in PaymentKeys, DeletePayment(j)
        PROVE  ProjectedBalance(CloseOf(today), today)' = ProjectedBalance(CloseOf(today), today)
    <2>1. payments' = [payments EXCEPT ![j] = None] /\ payments[j] # None
      BY <1>2 DEF DeletePayment
    <2>2. j = k
      BY <1>0, <2>1
    <2>3. PaidFor(payments[j].invoice)
      BY <2>1, <2>2
    <2>. QED BY <1>2, <2>3, DeletingKeepsTheClose
  <1>3. CASE \/ \E i \in ItemIds :
                   (\E item \in ItemInputs : SaveItem(i, item)) \/ DeleteItem(i)
             \/ \E c \in CardIds, settings \in SettingInputs : SaveCard(c, settings)
             \/ \E j \in CreditKeys :
                   (\E credit \in CreditInputs : SaveCredit(j, credit)) \/ DeleteCredit(j)
             \/ OpenPage \/ NewDay
    <2>1. payments' = payments
      BY <1>3 DEF SaveItem, DeleteItem, SaveCard, SaveCredit, DeleteCredit, OpenPage, NewDay
    <2>. QED BY <2>1
  <1>. QED BY <1>1, <1>2, <1>3 DEF Next

\* What has been settled stands, and settling it moves no forecast
\* (banking/settlements.py, dashboard/services.py): confirming, correcting or
\* deleting a payment leaves the projected close where it was.
THEOREM PaymentsSettleOnly == Spec => PaymentsOnlySettle
  <1>1. Spec => ForecastKeepsItsClose
    BY NextKeepsForecast, PastInvariant, PTL DEF Spec, ForecastKeepsItsClose, ForecastKept
  <1>. QED BY <1>1, SettledHistoryStands DEF PaymentsOnlySettle

-----------------------------------------------------------------------------
(* Net worth: what is paid leaves the cash and the debt alike.             *)

\* The part of one statement in the cash that has moved by a day.
DebitOf(key, day) ==
    IF invoiceMoves[key] # None /\ NotAfter(invoiceMoves[key].date, day)
    THEN invoiceMoves[key].amount ELSE 0

PaidInto(key, day) ==
    [k \in PaymentKeys |->
        IF payments[k] # None /\ payments[k].invoice = key /\ NotAfter(payments[k].date, day)
        THEN payments[k].amount ELSE 0]

\* What was bought for a statement by a day, and what was credited.
LEMMA BoughtIs ==
  ASSUME LedgerInv, NEW key \in InvoiceKeys, NEW day \in Date
  PROVE  /\ Incurred(key, day) \in Int /\ CreditedBy(key, day) \in Nat
         /\ (\A i \in ItemIds : ~Incurs(i, key, day)) => Incurred(key, day) = 0
  <1>. DEFINE c == key[1]
              m == key[2]
              some == {i \in ItemIds : Incurs(i, key, day)}
              f == [i \in CardItems(Sources, c) |-> ItemAmount(Sources, i, c, m)]
  <1>1. c \in CardIds /\ m \in Months /\ SourcesTyped(Sources)
    BY SourcesAreTyped DEF InvoiceKeys
  <1>2. some \in SUBSET CardItems(Sources, c)
    BY DEF Incurs
  <1>3. /\ IsFiniteSet(CardItems(Sources, c)) /\ \A i \in CardItems(Sources, c) : f[i] \in Int
        /\ Incurred(key, day) = SumFunctionOnSet(f, some)
    BY <1>1, <1>2, StatementAmounts DEF Incurred
  <1>4. CreditedBy(key, day) \in Nat
    BY <1>1, CreditSums DEF CreditedBy
  <1>5. (\A i \in ItemIds : ~Incurs(i, key, day)) => some = {}
    OBVIOUS
  <1>. HIDE DEF f, some
  <1>6. SumFunctionOnSet(f, some) \in Int
    BY <1>2, <1>3, SumIsInt
  <1>. QED BY <1>3, <1>4, <1>5, <1>6, SumOfNothing

\* A statement without an invoice, due by now, bills nothing.
LEMMA NothingToBill ==
  ASSUME LedgerInv, FreshInv, Fresh, NEW key \in InvoiceKeys, invoices[key] = None,
         NEW day \in Date, NotAfter(day, today), NotAfter(DueDate(cards[key[1]], key[2]), day)
  PROVE  Incurred(key, day) = 0
  <1>. DEFINE c == key[1]
              m == key[2]
              some == {i \in ItemIds : Incurs(i, key, day)}
              f == [i \in CardItems(Sources, c) |-> ItemAmount(Sources, i, c, m)]
  <1>1. c \in CardIds /\ m \in Months /\ SourcesTyped(Sources) /\ SoundItems(items)
    BY SourcesAreTyped DEF InvoiceKeys
  <1>2. today \in Date /\ NotAfter(today, LastDay)
    BY DEF LedgerInv, TypeOK, SourcesOK, DaysLived
  <1>3. m =< Horizon(today).month /\ Horizon(today) \in Date
    <2>1. Horizon(today) \in Date /\ Horizon(today).month = today.month + ProjectionMonths
      BY <1>2, HorizonIsDate DEF Horizon, Clamped
    <2>2. DueDate(cards[c], m).month \in {m, m + 1}
      BY DEF DueDate, Clamped
    <2>3. /\ m \in Int /\ today.month \in Int /\ day.month \in Int /\ ProjectionMonths \in Nat
      BY <1>1, <1>2, DateFields, MonthsAreNaturals
    <2>4. DueDate(cards[c], m).month =< day.month /\ day.month =< today.month
      BY <2>2, <2>3 DEF NotAfter, Before
    <2>. QED BY <2>1, <2>2, <2>3, <2>4
  <1>4. Billed(Sources, c, m, Horizon(today)) = {}
    BY DEF FreshInv, IsReconciled, IsComputed
  <1>5. some \in SUBSET CardItems(Sources, c)
    BY DEF Incurs
  <1>6. /\ IsFiniteSet(CardItems(Sources, c)) /\ \A i \in CardItems(Sources, c) : f[i] \in Int
        /\ Incurred(key, day) = SumFunctionOnSet(f, some)
    BY <1>1, <1>5, StatementAmounts DEF Incurred
  <1>7. ASSUME NEW i \in CardItems(Sources, c) PROVE f[i] = 0
    <2>1. /\ items[i] \in Item /\ items[i].start \in 1 .. items[i].installments
          /\ IsPlan(items[i]) => ~items[i].fixed
          /\ Sources.items = items /\ Sources.cards = cards
      BY <1>1, InputAssumption DEF CardItems, SourcesTyped, SoundItems, Sources
    <2>2. IsCard(cards[c])
      <3>1. cards[c] \in Setting
        BY <1>1, InputAssumption DEF SourcesTyped, Sources
      <3>. QED BY <3>1, LedgerAssumption DEF IsCard
    <2>3. ItemAmount(Sources, i, c, m) # 0 => m \in OccurrenceMonths(items[i], cards[c], Horizon(today))
      BY <1>1, <1>3, <2>1, <2>2, AmountsFallInWindow DEF ItemAmount
    <2>. QED BY <1>4, <2>1, <2>3 DEF Billed
  <1>8. IsFiniteSet(some) /\ \A i \in some : f[i] = 0
    BY <1>5, <1>6, <1>7, FS_Subset
  <1>. HIDE DEF f, some
  <1>9. SumFunctionOnSet(f, some) = SumFunctionOnSet(f, {})
    BY <1>8, SumWithoutZeros
  <1>. QED BY <1>6, <1>9, SumOfNothing

\* An invoice that asks for no confirmation has no payment.
LEMMA PaidOnlyByHand ==
  ASSUME LedgerInv, NEW key \in InvoiceKeys, NEW day
  PROVE  /\ PaidBy(key, day) = SumFunctionOnSet(PaidInto(key, day), PaymentKeys)
         /\ \A k \in PaymentKeys : PaidInto(key, day)[k] \in Nat
         /\ PaidBy(key, day) \in Nat
         /\ key \notin Confirmed => PaidBy(key, day) = 0
  <1>. DEFINE some == {k \in PaymentsOf(payments, key) : NotAfter(payments[k].date, day)}
              f == [k \in some |-> payments[k].amount]
              g == PaidInto(key, day)
  <1>0. payments \in [PaymentKeys -> Payment \union {None}]
    BY InputAssumption DEF LedgerInv, TypeOK, SourcesOK
  <1>1. some \in SUBSET PaymentKeys /\ IsFiniteSet(PaymentKeys)
    BY RowsAssumption DEF PaymentsOf
  <1>2. \A k \in some : f[k] = g[k] /\ g[k] \in Nat /\ g[k] \in Int
    BY <1>0 DEF PaidInto, PaymentsOf, Payment
  <1>3. \A k \in PaymentKeys \ some : g[k] = 0
    BY DEF PaidInto, PaymentsOf
  <1>4. PaidBy(key, day) = SumFunctionOnSet(f, some)
    BY DEF PaidBy, SumPayments, SumFunction
  <1>5. key \notin Confirmed => some = {}
    BY DEF LedgerInv, PaymentsAreBacked, Confirmed, PaymentsOf
  <1>. HIDE DEF some, f, g
  <1>6. SumFunctionOnSet(f, some) = SumFunctionOnSet(g, PaymentKeys)
    BY <1>1, <1>2, <1>3, SumOfSome
  <1>7. \A k \in PaymentKeys : g[k] \in Nat
    BY <1>2, <1>3
  <1>8. SumFunctionOnSet(g, PaymentKeys) \in Nat
    BY <1>1, <1>7, SumIsNat
  <1>. QED BY <1>4, <1>5, <1>6, <1>7, <1>8, SumOfNothing DEF g

\* Whether a statement is listed or not, the debt takes off exactly what the
\* cash has paid for it.
LEMMA SettledIsPaid ==
  ASSUME LedgerInv, FreshInv, Fresh, NEW key \in InvoiceKeys, NEW day \in Date, NotAfter(day, today)
  PROVE  /\ PaidBy(key, day) \in Nat /\ DebitOf(key, day) \in Nat
         /\ IsListed(key, day) => SettledOf(key, day) = PaidBy(key, day) + DebitOf(key, day)
         /\ ~IsListed(key, day) => /\ Incurred(key, day) = 0 /\ CreditedBy(key, day) = 0
                                   /\ PaidBy(key, day) = 0 /\ DebitOf(key, day) = 0
  <1>. DEFINE card == cards[key[1]]
              due == DueDate(card, key[2])
              asks == card.manualFrom # None /\ NotAfter(card.manualFrom, due)
  <1>1. /\ PaidBy(key, day) \in Nat
        /\ key \notin Confirmed => PaidBy(key, day) = 0
    BY PaidOnlyByHand
  <1>2. DebitOf(key, day) \in Nat
    BY DEF DebitOf, LedgerInv, TypeOK, DerivedOK, Movement
  <1>3. invoiceMoves[key] # None => invoices[key] # None /\ key \notin Confirmed
    BY DEF LedgerInv, NoDoubleSettlement, Confirmed
  <1>4. asks /\ invoices[key] # None => key \in Confirmed
    <2>. SUFFICES ASSUME asks, invoices[key] # None PROVE invoices[key].manual
      BY DEF Confirmed
    <2>. DEFINE drawn == Drawn(Sources, key, invoices[key])
    <2>1. /\ SourcesTyped(Sources) /\ Sources.cards = cards
          /\ invoices[key] \in Invoice /\ key[2] =< LastDay.month + ProjectionMonths
      BY SourcesAreTyped
         DEF LedgerInv, TypeOK, DerivedOK, InvoicesWithinReach, Sources
    <2>2. drawn \in Invoice /\ drawn.due = due
      BY <2>1, DrawnIsInvoice DEF Drawn
    <2>3. AsksConfirmation(card, drawn)
      BY <2>2 DEF AsksConfirmation
    <2>4. PICK statement : invoices[key] = Settled(drawn, key, card, payments, statement, today)
      BY <2>1 DEF FreshInv, IsReconciled, Resettled
    <2>. HIDE DEF drawn, card
    <2>. QED BY <2>2, <2>3, <2>4, SettledIs
  <1>5. ASSUME IsListed(key, day)
        PROVE  SettledOf(key, day) = PaidBy(key, day) + DebitOf(key, day)
    <2>1. CASE key \in Confirmed \/ asks
      <3>1. invoiceMoves[key] = None
        BY <1>3, <1>4, <2>1
      <3>2. DebitOf(key, day) = 0
        BY <3>1 DEF DebitOf
      <3>3. SettledOf(key, day) = PaidBy(key, day)
        BY <2>1 DEF SettledOf
      <3>. QED BY <1>1, <3>2, <3>3
    <2>2. CASE ~(key \in Confirmed \/ asks)
      <3>1. PaidBy(key, day) = 0
        BY <1>1, <2>2
      <3>2. CASE invoiceMoves[key] # None /\ NotAfter(invoiceMoves[key].date, day)
        BY <1>2, <2>2, <3>1, <3>2 DEF SettledOf, DebitOf
      <3>3. CASE ~(invoiceMoves[key] # None /\ NotAfter(invoiceMoves[key].date, day))
        <4>1. DebitOf(key, day) = 0
          BY <3>3 DEF DebitOf
        <4>2. SettledOf(key, day) = IF invoices[key] = None /\ NotAfter(due, day)
                                    THEN Positive(Incurred(key, day) - CreditedBy(key, day)) ELSE 0
          BY <2>2, <3>3 DEF SettledOf
        <4>3. invoices[key] = None /\ NotAfter(due, day)
                => Positive(Incurred(key, day) - CreditedBy(key, day)) = 0
          BY NothingToBill, BoughtIs DEF Positive
        <4>. QED BY <3>1, <4>1, <4>2, <4>3
      <3>. QED BY <3>2, <3>3
    <2>. QED BY <2>1, <2>2
  <1>6. ASSUME ~IsListed(key, day)
        PROVE  /\ Incurred(key, day) = 0 /\ CreditedBy(key, day) = 0
               /\ PaidBy(key, day) = 0 /\ DebitOf(key, day) = 0
    <2>1. Incurred(key, day) = 0 /\ CreditedBy(key, day) = 0
      BY <1>6, BoughtIs DEF IsListed
    <2>2. PaidBy(key, day) = 0
      BY <1>1, <1>6 DEF IsListed
    <2>3. DebitOf(key, day) = 0
      BY <1>3, <1>6 DEF IsListed, DebitOf
    <2>. QED BY <2>1, <2>2, <2>3
  <1>. QED BY <1>1, <1>2, <1>5, <1>6

LEMMA FewStatements == IsFiniteSet(InvoiceKeys)
  BY RowsAssumption, FS_Product DEF InvoiceKeys

\* The automatic debits that have moved, statement by statement.
LEMMA DebitsAddUp ==
  ASSUME LedgerInv, NEW day
  PROVE  Moved(invoiceMoves, InvoiceKeys, day)
           = SumFunctionOnSet([key \in InvoiceKeys |-> DebitOf(key, day)], InvoiceKeys)
  <1>. DEFINE some == {key \in InvoiceKeys : invoiceMoves[key] # None /\ NotAfter(invoiceMoves[key].date, day)}
              f == [key \in some |-> invoiceMoves[key].amount]
              g == [key \in InvoiceKeys |-> DebitOf(key, day)]
  <1>1. some \in SUBSET InvoiceKeys
    OBVIOUS
  <1>2. \A key \in some : f[key] = g[key] /\ g[key] \in Int
    BY DEF DebitOf, LedgerInv, TypeOK, DerivedOK, Movement
  <1>3. \A key \in InvoiceKeys \ some : g[key] = 0
    BY DEF DebitOf
  <1>4. Moved(invoiceMoves, InvoiceKeys, day) = SumFunctionOnSet(f, some)
    BY DEF Moved, SumFunction
  <1>. HIDE DEF some, f, g
  <1>5. SumFunctionOnSet(f, some) = SumFunctionOnSet(g, InvoiceKeys)
    BY <1>1, <1>2, <1>3, FewStatements, SumOfSome
  <1>. QED BY <1>4, <1>5 DEF g

\* So are the payments: each is counted for the one statement it is of.
LEMMA PaymentsAddUp ==
  ASSUME LedgerInv, NEW day
  PROVE  Moved(paymentMoves, PaymentKeys, day)
           = SumFunctionOnSet([key \in InvoiceKeys |-> PaidBy(key, day)], InvoiceKeys)
  <1>. DEFINE some == {k \in PaymentKeys : paymentMoves[k] # None /\ NotAfter(paymentMoves[k].date, day)}
              f == [k \in some |-> paymentMoves[k].amount]
              g == [k \in PaymentKeys |-> IF k \in some THEN paymentMoves[k].amount ELSE 0]
              row == [key \in InvoiceKeys |-> PaidInto(key, day)]
              across == [k \in PaymentKeys |->
                           SumFunctionOnSet([key \in InvoiceKeys |-> row[key][k]], InvoiceKeys)]
              down == [key \in InvoiceKeys |-> SumFunctionOnSet(row[key], PaymentKeys)]
              paid == [key \in InvoiceKeys |-> PaidBy(key, day)]
  <1>1. IsFiniteSet(PaymentKeys) /\ some \in SUBSET PaymentKeys
    BY RowsAssumption
  <1>2. /\ payments \in [PaymentKeys -> Payment \union {None}]
        /\ paymentMoves \in [PaymentKeys -> Movement \union {None}]
    BY InputAssumption DEF LedgerInv, TypeOK, SourcesOK, DerivedOK
  <1>3. \A key \in InvoiceKeys, k \in PaymentKeys : row[key][k] \in Int
    BY <1>2 DEF PaidInto, Payment
  <1>4. ASSUME NEW k \in PaymentKeys PROVE across[k] = g[k] /\ g[k] \in Int
    <2>. DEFINE h == [key \in InvoiceKeys |-> row[key][k]]
    <2>1. \A key \in InvoiceKeys : h[key] \in Int
      BY <1>3
    <2>2. CASE payments[k] = None
      <3>1. g[k] = 0
        BY <2>2 DEF LedgerInv, PaymentsAreBacked
      <3>2. \A key \in InvoiceKeys : h[key] = 0
        BY <2>2 DEF PaidInto
      <3>. HIDE DEF h
      <3>3. SumFunctionOnSet(h, InvoiceKeys) = SumFunctionOnSet(h, {})
        BY <2>1, <3>2, FewStatements, SumWithoutZeros
      <3>. QED BY <3>1, <3>3, SumOfNothing DEF h
    <2>3. CASE payments[k] # None
      <3>1. PICK of : of = payments[k].invoice
        OBVIOUS
      <3>2. of \in InvoiceKeys /\ payments[k].amount \in Nat
        BY <1>2, <2>3, <3>1 DEF Payment
      <3>3. paymentMoves[k] = [account |-> payments[k].account, amount |-> payments[k].amount,
                               date |-> payments[k].date] /\ paymentMoves[k] # None
        <4>1. paymentMoves[k] = [account |-> payments[k].account, amount |-> payments[k].amount,
                                 date |-> payments[k].date]
          BY <2>3 DEF LedgerInv, PaymentsAreBacked
        <4>2. paymentMoves[k] \in Movement
          BY <1>2, <2>3, <4>1 DEF Payment, Movement
        <4>. QED BY <4>1, <4>2, AbsenceAssumption
      <3>4. h[of] = g[k] /\ g[k] \in Int
        BY <2>3, <3>1, <3>2, <3>3 DEF PaidInto
      <3>5. \A key \in InvoiceKeys : key # of => h[key] = 0
        BY <3>1 DEF PaidInto
      <3>. HIDE DEF h
      <3>6. SumFunctionOnSet(h, InvoiceKeys) = h[of]
        BY <2>1, <3>2, <3>5, FewStatements, SumOfOne
      <3>. QED BY <3>4, <3>6 DEF h
    <2>. QED BY <2>2, <2>3
  <1>5. \A key \in InvoiceKeys : down[key] = paid[key] /\ down[key] \in Int
    BY PaidOnlyByHand
  <1>6. Moved(paymentMoves, PaymentKeys, day) = SumFunctionOnSet(f, some)
    BY DEF Moved, SumFunction
  <1>7. \A k \in some : f[k] = g[k]
    OBVIOUS
  <1>8. \A k \in PaymentKeys \ some : g[k] = 0
    OBVIOUS
  <1>9. SumFunctionOnSet(down, InvoiceKeys) = SumFunctionOnSet(across, PaymentKeys)
    <2>. HIDE DEF row
    <2>. QED BY <1>1, <1>3, FewStatements, SumExchange
  <1>. HIDE DEF some, f, g, row, across, down, paid
  <1>10. SumFunctionOnSet(f, some) = SumFunctionOnSet(g, PaymentKeys)
    BY <1>1, <1>4, <1>7, <1>8, SumOfSome
  <1>11. SumFunctionOnSet(across, PaymentKeys) = SumFunctionOnSet(g, PaymentKeys)
    BY <1>1, <1>4, SumOfSame
  <1>12. SumFunctionOnSet(down, InvoiceKeys) = SumFunctionOnSet(paid, InvoiceKeys)
    BY <1>5, FewStatements, SumOfSame
  <1>. QED BY <1>6, <1>9, <1>10, <1>11, <1>12 DEF paid

LEMMA NetWorthFollowsPurchases ==
  ASSUME LedgerInv, FreshInv, Fresh, NEW day \in Date, NotAfter(day, today)
  PROVE  NetWorth(day)
           = SumFunction([key \in InvoiceKeys |-> CreditedBy(key, day) - Incurred(key, day)])
               - AccountMoves(day)
  <1>. DEFINE listed == {key \in InvoiceKeys : IsListed(key, day)}
              owed == [key \in listed |-> Incurred(key, day) - CreditedBy(key, day) - SettledOf(key, day)]
              debt == [key \in InvoiceKeys |-> (-(CreditedBy(key, day) - Incurred(key, day)))
                                                 + (-(PaidBy(key, day) + DebitOf(key, day)))]
              bought == [key \in InvoiceKeys |-> CreditedBy(key, day) - Incurred(key, day)]
              paid == [key \in InvoiceKeys |-> PaidBy(key, day)]
              debits == [key \in InvoiceKeys |-> DebitOf(key, day)]
              moved == [key \in InvoiceKeys |-> PaidBy(key, day) + DebitOf(key, day)]
              nothing == [key \in InvoiceKeys |-> 0]
              rest == [key \in InvoiceKeys |-> debt[key] + moved[key]]
  <1>0. \A key \in InvoiceKeys :
           /\ Incurred(key, day) \in Int /\ CreditedBy(key, day) \in Int
           /\ PaidBy(key, day) \in Int /\ DebitOf(key, day) \in Int
    BY BoughtIs, SettledIsPaid
  <1>1. listed \in SUBSET InvoiceKeys
    OBVIOUS
  <1>2. \A key \in listed : owed[key] = debt[key]
    <2>. SUFFICES ASSUME NEW key \in listed PROVE owed[key] = debt[key]
      OBVIOUS
    <2>1. key \in InvoiceKeys /\ SettledOf(key, day) = PaidBy(key, day) + DebitOf(key, day)
      BY SettledIsPaid
    <2>. QED BY <1>0, <2>1
  <1>3. \A key \in InvoiceKeys \ listed : debt[key] = 0
    BY SettledIsPaid
  <1>4. \A key \in InvoiceKeys :
           /\ debt[key] \in Int /\ moved[key] \in Int /\ bought[key] \in Int
           /\ paid[key] \in Int /\ debits[key] \in Int /\ rest[key] \in Int
           /\ moved[key] = paid[key] + debits[key]
           /\ rest[key] = debt[key] + moved[key]
           /\ nothing[key] = rest[key] + bought[key]
           /\ nothing[key] = 0
    BY <1>0
  <1>5. CardDebt(day) = SumFunctionOnSet(owed, listed)
    BY DEF CardDebt, SumFunction
  <1>6. SumFunction(bought) = SumFunctionOnSet(bought, InvoiceKeys)
    BY DEF SumFunction
  <1>7. /\ Moved(invoiceMoves, InvoiceKeys, day) = SumFunctionOnSet(debits, InvoiceKeys)
        /\ Moved(paymentMoves, PaymentKeys, day) = SumFunctionOnSet(paid, InvoiceKeys)
    BY DebitsAddUp, PaymentsAddUp
  <1>8. AccountMoves(day) \in Int
    <2>1. IsFiniteSet(ItemIds \X Months) /\ itemMoves \in [ItemIds \X Months -> Movement \union {None}]
      BY RowsAssumption, FS_Product DEF LedgerInv, TypeOK, DerivedOK
    <2>. QED BY <2>1, MovedIsInt DEF AccountMoves
  <1>. HIDE DEF listed, owed, debt, bought, paid, debits, moved, nothing, rest
  <1>9. SumFunctionOnSet(owed, listed) = SumFunctionOnSet(debt, InvoiceKeys)
    BY <1>1, <1>2, <1>3, <1>4, FewStatements, SumOfSome
  <1>10. /\ SumFunctionOnSet(moved, InvoiceKeys)
              = SumFunctionOnSet(paid, InvoiceKeys) + SumFunctionOnSet(debits, InvoiceKeys)
         /\ SumFunctionOnSet(rest, InvoiceKeys)
              = SumFunctionOnSet(debt, InvoiceKeys) + SumFunctionOnSet(moved, InvoiceKeys)
         /\ SumFunctionOnSet(nothing, InvoiceKeys)
              = SumFunctionOnSet(rest, InvoiceKeys) + SumFunctionOnSet(bought, InvoiceKeys)
    BY <1>4, FewStatements, SumOfSums
  <1>11. SumFunctionOnSet(nothing, InvoiceKeys) = 0
    <2>1. SumFunctionOnSet(nothing, InvoiceKeys) = SumFunctionOnSet(nothing, {})
      BY <1>4, FewStatements, SumWithoutZeros
    <2>. QED BY <2>1, SumOfNothing
  <1>12. PICK a, b, c, d, e :
            /\ a = SumFunctionOnSet(debt, InvoiceKeys) /\ b = SumFunctionOnSet(paid, InvoiceKeys)
            /\ c = SumFunctionOnSet(debits, InvoiceKeys) /\ d = SumFunctionOnSet(bought, InvoiceKeys)
            /\ e = AccountMoves(day)
    OBVIOUS
  <1>13. a \in Int /\ b \in Int /\ c \in Int /\ d \in Int /\ e \in Int
    BY <1>4, <1>8, <1>12, FewStatements, SumIsInt
  <1>14. a + (b + c) + d = 0
    BY <1>10, <1>11, <1>12, <1>13
  <1>15. NetWorth(day) = -(e + c + b) - a
    BY <1>5, <1>7, <1>9, <1>12 DEF NetWorth, Balance
  <1>16. NetWorth(day) = d - e
    BY <1>13, <1>14, <1>15
  <1>. QED BY <1>6, <1>12, <1>16 DEF bought

\* For any cards, purchases, plans, credits and payments, and on every day up
\* to today: net worth is what the accounts moved less what was bought, whoever
\* pays the bills and when (get_net_worth against the rows of _sync_user_ledger).
THEOREM WorthIsWhatWasBought == Spec => []NetWorthIsWhatWasBought
  <1>1. LedgerInv /\ FreshInv => NetWorthIsWhatWasBought
    <2>. SUFFICES ASSUME LedgerInv, FreshInv, Fresh,
                         NEW day \in DatesIn(InMonths(FirstDay.month, today.month)), NotAfter(day, today)
                  PROVE  NetWorth(day)
                           = SumFunction([key \in InvoiceKeys |-> CreditedBy(key, day) - Incurred(key, day)])
                               - AccountMoves(day)
      BY DEF NetWorthIsWhatWasBought
    <2>1. day \in Date
      BY DEF DatesIn, Date, InMonths
    <2>. QED BY <2>1, NetWorthFollowsPurchases
  <1>. QED BY <1>1, FreshInvariant, PTL
-----------------------------------------------------------------------------
(* The expenses of a month, for any sources.                               *)

LEMMA EntriesAre ==
  ASSUME LedgerInv
  PROVE  /\ IsFiniteSet(Entries)
         /\ \A e \in Entries : IsCredit(e) =>
               /\ e \in CreditKeys /\ credits[e] # None /\ credits[e] \in Credit
               /\ Instrument(e) \in CardIds
         /\ \A e \in Entries : ~IsCredit(e) =>
               /\ e \in ItemIds /\ items[e] # None /\ items[e] \in Item
               /\ Instrument(e) = items[e].instrument
               /\ items[e].start \in 1 .. items[e].installments
               /\ IsPlan(items[e]) => items[e].instrument \in CardIds /\ ~items[e].fixed
         /\ \A e \in Entries : /\ Instrument(e) \in CardIds \union Accounts
                               /\ IF Instrument(e) \in CardIds
                                  THEN CardOf(e) = cards[Instrument(e)] /\ CardOf(e) \in Setting
                                  ELSE CardOf(e) = NoCard
                               /\ IsCard(CardOf(e)) <=> Instrument(e) \in CardIds
  <1>1. /\ items \in [ItemIds -> ItemInputs \union {None}]
        /\ credits \in [CreditKeys -> CreditInputs \union {None}]
        /\ cards \in [CardIds -> SettingInputs] /\ SoundItems(items)
    BY DEF LedgerInv, TypeOK, SourcesOK
  <1>2. IsFiniteSet(Entries)
    <2>1. {i \in ItemIds : items[i] # None} \subseteq ItemIds /\ {k \in CreditKeys : credits[k] # None} \subseteq CreditKeys
      OBVIOUS
    <2>. QED BY <2>1, RowsAssumption, FS_Subset, FS_Union DEF Entries
  <1>3. ASSUME NEW e \in Entries, IsCredit(e)
        PROVE  /\ e \in CreditKeys /\ credits[e] # None /\ credits[e] \in Credit
               /\ Instrument(e) \in CardIds
    <2>1. e \in CreditKeys /\ credits[e] # None
      BY <1>3, EntriesAssumption DEF Entries, IsCredit
    <2>2. credits[e] \in Credit
      BY <1>1, <2>1, InputAssumption
    <2>. QED BY <1>3, <2>1, <2>2 DEF Instrument, Credit
  <1>4. ASSUME NEW e \in Entries, ~IsCredit(e)
        PROVE  /\ e \in ItemIds /\ items[e] # None /\ items[e] \in Item
               /\ Instrument(e) = items[e].instrument
               /\ items[e].start \in 1 .. items[e].installments
               /\ IsPlan(items[e]) => items[e].instrument \in CardIds /\ ~items[e].fixed
               /\ Instrument(e) \in CardIds \union Accounts
    <2>1. e \in ItemIds /\ items[e] # None
      BY <1>4 DEF Entries, IsCredit
    <2>2. items[e] \in Item
      BY <1>1, <2>1, InputAssumption
    <2>. QED BY <1>1, <1>4, <2>1, <2>2, ItemFields DEF Instrument, SoundItems
  <1>5. ASSUME NEW e \in Entries
        PROVE  /\ Instrument(e) \in CardIds \union Accounts
               /\ IF Instrument(e) \in CardIds
                  THEN CardOf(e) = cards[Instrument(e)] /\ CardOf(e) \in Setting
                  ELSE CardOf(e) = NoCard
               /\ IsCard(CardOf(e)) <=> Instrument(e) \in CardIds
    <2>1. Instrument(e) \in CardIds => cards[Instrument(e)] \in Setting
      BY <1>1, InputAssumption
    <2>2. NoCard \notin Setting
      BY LedgerAssumption
    <2>. QED BY <1>3, <1>4, <2>1, <2>2 DEF CardOf, IsCard
  <1>. QED BY <1>2, <1>3, <1>4, <1>5

AmountsIn(m) == [e \in Entries |-> EntryAmount(e, m)]

LEMMA EntryAmountIsInteger ==
  ASSUME LedgerInv, NEW m \in Months
  PROVE  \A e \in Entries : EntryAmount(e, m) \in Int /\ AmountsIn(m)[e] = EntryAmount(e, m)
  <1>. TAKE e \in Entries
  <1>1. CASE IsCredit(e)
    <2>1. credits[e].amount \in Nat
      BY <1>1, EntriesAre DEF Credit
    <2>. QED BY <1>1, <2>1 DEF EntryAmount, AmountsIn
  <1>2. CASE ~IsCredit(e)
    <2>1. items[e] \in Item
      BY <1>2, EntriesAre
    <2>. QED BY <1>2, <2>1, AmountIsInteger DEF EntryAmount, AmountsIn
  <1>. QED BY <1>1, <1>2

LEMMA EntriesSum ==
  ASSUME LedgerInv, NEW m \in Months, NEW A \in SUBSET Entries
  PROVE  /\ IsFiniteSet(A)
         /\ SumEntries(A, m) = SumFunctionOnSet(AmountsIn(m), A)
         /\ SumEntries(A, m) \in Int
  <1>. DEFINE f == [e \in A |-> EntryAmount(e, m)]
  <1>1. IsFiniteSet(Entries) /\ IsFiniteSet(A)
    BY EntriesAre, FS_Subset
  <1>2. \A e \in A : f[e] = AmountsIn(m)[e] /\ f[e] \in Int
    BY EntryAmountIsInteger
  <1>3. SumEntries(A, m) = SumFunctionOnSet(f, A)
    BY DEF SumEntries, SumFunction
  <1>. HIDE DEF f
  <1>4. SumFunctionOnSet(f, A) = SumFunctionOnSet(AmountsIn(m), A)
    BY <1>1, <1>2, SumOfSame
  <1>5. SumFunctionOnSet(f, A) \in Int
    BY <1>1, <1>2, SumIsInt
  <1>. QED BY <1>1, <1>3, <1>4, <1>5

\* However the entries of a month are sorted, the groups add up to the month.
LEMMA GroupsAddUp ==
  ASSUME LedgerInv, NEW m \in Months, NEW K, IsFiniteSet(K), NEW class,
         \A e \in Charging(m) : class[e] \in K,
         NEW group, \A k \in K : group[k] = SumEntries({e \in Charging(m) : class[e] = k}, m),
         DOMAIN group = K
  PROVE  FullMonth(m) = SumFunction(group)
  <1>. DEFINE all == Charging(m)
              f == AmountsIn(m)
              g == [k \in K |-> SumFunctionOnSet(f, {e \in all : class[e] = k})]
  <1>1. all \in SUBSET Entries
    BY DEF Charging
  <1>2. /\ IsFiniteSet(all) /\ FullMonth(m) = SumFunctionOnSet(f, all)
        /\ \A e \in all : f[e] \in Int
    BY <1>1, EntriesSum, EntryAmountIsInteger DEF FullMonth
  <1>3. \A k \in K : group[k] = g[k] /\ group[k] \in Int
    <2>. TAKE k \in K
    <2>1. {e \in all : class[e] = k} \in SUBSET Entries
      BY <1>1
    <2>. QED BY <2>1, EntriesSum
  <1>. HIDE DEF all, f
  <1>4. SumFunctionOnSet(f, all) = SumFunctionOnSet(g, K)
    <2>1. \A e \in all : f[e] \in Int /\ class[e] \in K
      BY <1>2 DEF all
    <2>. QED BY <1>2, <2>1, SumByClass
  <1>. HIDE DEF g
  <1>5. SumFunctionOnSet(group, K) = SumFunctionOnSet(g, K)
    BY <1>3, SumOfSame
  <1>. QED BY <1>2, <1>4, <1>5 DEF SumFunction

\* By instrument, by recurrence and row by row, the month adds up.
LEMMA MonthIsDivided ==
  ASSUME LedgerInv, NEW m \in Months
  PROVE  Divides(FullMonth(m), ByInstrument(m), ByRecurrence(m), m)
  <1>. DEFINE all == Charging(m)
              by == [e \in all |-> Instrument(e)]
              keys == {Instrument(e) : e \in all}
              buckets == {"installment", "fixed", "one_off"}
  <1>1. all \in SUBSET Entries /\ IsFiniteSet(all)
    BY EntriesAre, FS_Subset DEF Charging
  <1>2. IsFiniteSet(keys)
    <2>1. by \in Surjection(all, keys)
      BY DEF Surjection
    <2>. HIDE DEF by, keys
    <2>. QED BY <1>1, <2>1, FS_Surjection
  <1>3. IsFiniteSet(buckets)
    <2>1. IsFiniteSet({"installment"}) /\ IsFiniteSet({"fixed"}) /\ IsFiniteSet({"one_off"})
      BY FS_Singleton
    <2>2. IsFiniteSet({"installment"} \union {"fixed"})
      BY <2>1, FS_Union
    <2>3. IsFiniteSet(({"installment"} \union {"fixed"}) \union {"one_off"})
      BY <2>1, <2>2, FS_Union
    <2>4. buckets = ({"installment"} \union {"fixed"}) \union {"one_off"}
      OBVIOUS
    <2>. QED BY <2>3, <2>4
  <1>4. \A e \in all : Bucket(e) \in buckets
    BY DEF Bucket
  <1>5. FullMonth(m) = SumFunction(ByInstrument(m))
    <2>1. /\ \A e \in all : by[e] \in keys
          /\ DOMAIN ByInstrument(m) = keys
      BY DEF ByInstrument
    <2>2. \A k \in keys : ByInstrument(m)[k] = SumEntries({e \in all : by[e] = k}, m)
      <3>. TAKE k \in keys
      <3>1. {e \in all : by[e] = k} = {e \in all : Instrument(e) = k}
        OBVIOUS
      <3>2. ByInstrument(m)[k] = SumEntries({e \in all : Instrument(e) = k}, m)
        BY DEF ByInstrument
      <3>. QED BY <3>1, <3>2
    <2>. HIDE DEF by, keys
    <2>. QED BY <1>2, <2>1, <2>2, GroupsAddUp
  <1>6. FullMonth(m) = SumFunction(ByRecurrence(m))
    <2>. DEFINE class == [e \in all |-> Bucket(e)]
    <2>1. /\ \A e \in all : class[e] \in buckets
          /\ DOMAIN ByRecurrence(m) = buckets
      BY <1>4 DEF ByRecurrence
    <2>2. \A k \in buckets : ByRecurrence(m)[k] = SumEntries({e \in all : class[e] = k}, m)
      <3>. TAKE k \in buckets
      <3>1. {e \in all : class[e] = k} = {e \in all : Bucket(e) = k}
        OBVIOUS
      <3>2. ByRecurrence(m)[k] = SumEntries({e \in all : Bucket(e) = k}, m)
        BY DEF ByRecurrence
      <3>. QED BY <3>1, <3>2
    <2>. HIDE DEF class, buckets
    <2>. QED BY <1>3, <2>1, <2>2, GroupsAddUp
  <1>7. FullMonth(m) = SumFunction([c \in (DOMAIN ByInstrument(m)) \X (DOMAIN ByRecurrence(m)) |->
                                      Composed(m, c[1], c[2])])
    <2>. DEFINE class == [e \in all |-> <<Instrument(e), Bucket(e)>>]
                K == keys \X buckets
                group == [c \in K |-> Composed(m, c[1], c[2])]
    <2>1. IsFiniteSet(K)
      BY <1>2, <1>3, FS_Product
    <2>2. \A e \in all : class[e] \in K
      BY <1>4
    <2>3. \A k \in K : group[k] = SumEntries({e \in all : class[e] = k}, m)
      <3>. TAKE k \in K
      <3>1. {e \in all : class[e] = k} = Composition(m, k[1], k[2])
        <4>1. k = <<k[1], k[2]>>
          OBVIOUS
        <4>. QED BY <4>1 DEF Composition
      <3>. QED BY <3>1 DEF Composed
    <2>4. DOMAIN group = K
      OBVIOUS
    <2>5. (DOMAIN ByInstrument(m)) \X (DOMAIN ByRecurrence(m)) = K
      BY DEF ByInstrument, ByRecurrence
    <2>. HIDE DEF class, K
    <2>6. FullMonth(m) = SumFunction(group)
      <3>. HIDE DEF group
      <3>. QED BY <2>1, <2>2, <2>3, <2>4, GroupsAddUp
    <2>. QED BY <2>5, <2>6
  <1>. QED BY <1>5, <1>6, <1>7 DEF Divides

LEMMA NotAfterIs ==
  ASSUME NEW a \in Date, NEW b \in Date
  PROVE  /\ NotAfter(a, b) <=> \/ a.month < b.month
                               \/ a.month = b.month /\ a.day =< b.day
         /\ ~NotAfter(a, b) <=> Before(b, a)
         /\ a.month = b.month /\ a.day = b.day => a = b
         /\ a.month \in Nat /\ b.month \in Nat /\ a.day \in Nat /\ b.day \in Nat
  <1>1. a.month \in Nat /\ b.month \in Nat /\ a.day \in Nat /\ b.day \in Nat
    BY DateFields
  <1>2. a = [month |-> a.month, day |-> a.day] /\ b = [month |-> b.month, day |-> b.day]
    BY DateIsRecord
  <1>3. a.month = b.month /\ a.day = b.day => a = b
    BY <1>2
  <1>. QED BY <1>1, <1>3 DEF NotAfter, Before

LEMMA MonthEndIsDate ==
  ASSUME NEW m \in Months
  PROVE  /\ MonthEnd(m) \in Date /\ MonthEnd(m).month = m
         /\ \A d \in Date : d.month =< m => NotAfter(d, MonthEnd(m))
         /\ \A d \in Date : m < d.month => Before(MonthEnd(m), d)
  <1>1. DaysIn[m] \in Nat \ {0} /\ m \in Nat
    BY MonthsAreNaturals
  <1>2. MonthEnd(m) \in Date /\ MonthEnd(m).month = m /\ MonthEnd(m).day = DaysIn[m]
    <2>1. DaysIn[m] \in 1 .. DaysIn[m]
      BY <1>1
    <2>. QED BY <2>1, DateIsRecord DEF MonthEnd
  <1>3. ASSUME NEW d \in Date, d.month =< m PROVE NotAfter(d, MonthEnd(m))
    <2>1. d.month \in Nat /\ d.day \in 1 .. DaysIn[d.month] /\ d.day \in Nat
      BY DateFields
    <2>. QED BY <1>1, <1>2, <1>3, <2>1, NotAfterIs
  <1>4. ASSUME NEW d \in Date, m < d.month PROVE Before(MonthEnd(m), d)
    BY <1>2, <1>4 DEF Before
  <1>. QED BY <1>2, <1>3, <1>4

LEMMA NothingBeforeBilled ==
  ASSUME NEW item \in Item, NEW card, NEW m \in Int, AmountForMonth(item, card, m) # 0
  PROVE  /\ BilledMonth(item, card) =< m
         /\ ~item.fixed /\ ~IsPlan(item) => m = BilledMonth(item, card)
  <1>1. BilledMonth(item, card) \in Int /\ item.fixed \in BOOLEAN
    BY BilledMonthIsInteger, ItemFields
  <1>. DEFINE offset == m - BilledMonth(item, card)
  <1>2. offset \in Int
    BY <1>1
  <1>. HIDE DEF offset
  <1>3. ASSUME offset < 0 PROVE FALSE
    <2>1. AmountForMonth(item, card, m) = 0
      BY <1>2, <1>3 DEF AmountForMonth, offset
    <2>. QED BY <2>1
  <1>4. ASSUME ~item.fixed, ~IsPlan(item) PROVE offset = 0
    <2>1. offset >= 0
      BY <1>2, <1>3
    <2>2. AmountForMonth(item, card, m) = IF offset = 0 THEN item.amount ELSE 0
      BY <1>2, <1>4, <2>1 DEF AmountForMonth, offset
    <2>. QED BY <2>2
  <1>. QED BY <1>1, <1>2, <1>3, <1>4 DEF offset

LEMMA OffsetIs ==
  ASSUME NEW item \in Item, NEW card
  PROVE  /\ BillingOffset(item, card) \in {0, 1}
         /\ BilledMonth(item, card) = item.date.month + BillingOffset(item, card)
         /\ ~IsCard(card) => BillingOffset(item, card) = 0
  BY ItemFields, OverrideAssumption DEF BillingOffset, BilledMonth, StatementMonth

\* An entry occurs on a day, for the dashboard and for a budget alike, and what
\* is charged to a month has occurred by its end, credits aside.
LEMMA EntriesOccur ==
  ASSUME LedgerInv, NEW m \in Months, NEW e \in Charging(m)
  PROVE  /\ OccurrenceDate(e, m) \in Date
         /\ BudgetOccurrence(e, m) = OccurrenceDate(e, m)
         /\ ~IsCredit(e) => NotAfter(OccurrenceDate(e, m), MonthEnd(m))
  <1>1. e \in Entries /\ EntryAmount(e, m) # 0 /\ m \in Nat
    BY MonthsAreNaturals DEF Charging
  <1>2. CASE IsCredit(e)
    <2>1. credits[e] \in Credit
      BY <1>1, <1>2, EntriesAre
    <2>. QED BY <1>2, <2>1 DEF OccurrenceDate, BudgetOccurrence, Credit
  <1>3. CASE ~IsCredit(e)
    <2>. DEFINE item == items[e]
                off == BillingOffset(item, CardOf(e))
    <2>1. item \in Item /\ (IsPlan(item) => ~item.fixed)
      BY <1>1, <1>3, EntriesAre
    <2>2. /\ item.date \in Date /\ item.date.month \in Nat /\ item.fixed \in BOOLEAN
          /\ item.date.day \in Nat \ {0}
      <3>1. item.date \in Date /\ item.fixed \in BOOLEAN
        BY <2>1, ItemFields
      <3>2. item.date.day \in 1 .. DaysIn[item.date.month] /\ item.date.month \in Nat
            /\ item.date.day \in Nat
        BY <3>1, DateFields
      <3>. QED BY <3>1, <3>2
    <2>3. off \in {0, 1} /\ item.date.month + off =< m
      <3>1. AmountForMonth(item, CardOf(e), m) # 0
        BY <1>1, <1>3 DEF EntryAmount
      <3>. QED BY <1>1, <2>1, <3>1, OffsetIs, NothingBeforeBilled
    <2>. HIDE DEF off
    <2>4. CASE item.fixed
      <3>1. m - off \in Months
        BY <1>1, <2>2, <2>3, MonthsAreNaturals
      <3>2. /\ Clamped(m - off, item.date.day) \in Date
            /\ Clamped(m - off, item.date.day).month = m - off
        BY <2>2, <3>1, ClampedIsDate DEF Clamped
      <3>3. OccurrenceDate(e, m) = Clamped(m - off, item.date.day)
        BY <1>3, <2>4 DEF OccurrenceDate, off
      <3>4. BudgetOccurrence(e, m) = Clamped(item.date.month + (m - item.date.month - off), item.date.day)
        BY <1>3, <2>1, <2>4 DEF BudgetOccurrence, off
      <3>5. item.date.month + (m - item.date.month - off) = m - off
        BY <1>1, <2>2, <2>3
      <3>6. NotAfter(Clamped(m - off, item.date.day), MonthEnd(m))
        BY <1>1, <2>3, <3>2, MonthEndIsDate
      <3>. QED BY <3>2, <3>3, <3>4, <3>5, <3>6
    <2>5. CASE ~item.fixed
      <3>1. OccurrenceDate(e, m) = item.date /\ BudgetOccurrence(e, m) = item.date
        BY <1>3, <2>5 DEF OccurrenceDate, BudgetOccurrence
      <3>2. item.date.month =< m
        BY <1>1, <2>2, <2>3
      <3>. QED BY <2>2, <3>1, <3>2, MonthEndIsDate
    <2>. QED BY <2>2, <2>4, <2>5
  <1>. QED BY <1>2, <1>3

\* A budget over everything is what the dashboard shows of the month so far.
LEMMA BudgetsAgree ==
  ASSUME LedgerInv, NEW m \in InMonths(FirstDay.month, today.month)
  PROVE  BudgetActual(m, today) =
            IF m = today.month THEN ThroughCutoff(m, today)
            ELSE ThroughCutoff(m, MonthEnd(m)) + PostedSince(m)
  <1>1. m \in Months /\ m \in Nat /\ today \in Date /\ today.month \in Nat /\ m =< today.month
    BY MonthsAreNaturals, DateFields DEF InMonths, LedgerInv, TypeOK, SourcesOK
  <1>. DEFINE all == Charging(m)
              end == MonthEnd(m)
              sofar == {e \in all : NotAfter(OccurrenceDate(e, m), today)}
              byEnd == {e \in all : NotAfter(OccurrenceDate(e, m), end)}
              since == {e \in all : /\ IsCredit(e) /\ Before(end, OccurrenceDate(e, m))
                                    /\ NotAfter(OccurrenceDate(e, m), today)}
  <1>2. BudgetActual(m, today) = SumEntries(sofar, m)
    <2>1. {e \in all : NotAfter(BudgetOccurrence(e, m), today)} = sofar
      BY <1>1, EntriesOccur
    <2>2. ~(m > today.month)
      BY <1>1
    <2>. HIDE DEF sofar, all
    <2>3. BudgetActual(m, today) = SumEntries({e \in Charging(m) : NotAfter(BudgetOccurrence(e, m), today)}, m)
      BY <2>2 DEF BudgetActual
    <2>. QED BY <2>1, <2>3 DEF all
  <1>3. CASE m = today.month
    BY <1>2, <1>3 DEF ThroughCutoff
  <1>4. CASE m # today.month
    <2>1. end \in Date /\ Before(end, today)
      BY <1>1, <1>4, MonthEndIsDate
    <2>2. ASSUME NEW e \in all
          PROVE  /\ e \in byEnd => e \in sofar
                 /\ e \in sofar \ byEnd <=> e \in since
      <3>1. /\ OccurrenceDate(e, m) \in Date
            /\ ~IsCredit(e) => NotAfter(OccurrenceDate(e, m), end)
        BY <1>1, EntriesOccur
      <3>2. NotAfter(OccurrenceDate(e, m), end) => NotAfter(OccurrenceDate(e, m), today)
        BY <1>1, <2>1, <3>1, NotAfterIs
      <3>3. ~NotAfter(OccurrenceDate(e, m), end) <=> Before(end, OccurrenceDate(e, m))
        BY <2>1, <3>1, NotAfterIs
      <3>. HIDE DEF end
      <3>. QED BY <3>1, <3>2, <3>3
    <2>3. byEnd \in SUBSET sofar /\ sofar \ byEnd = since
      BY <2>2
    <2>4. sofar \in SUBSET Entries /\ byEnd \in SUBSET Entries /\ since \in SUBSET Entries
      BY DEF Charging
    <2>. DEFINE f == AmountsIn(m)
    <2>5. /\ IsFiniteSet(sofar)
          /\ SumEntries(sofar, m) = SumFunctionOnSet(f, sofar)
          /\ SumEntries(byEnd, m) = SumFunctionOnSet(f, byEnd)
          /\ SumEntries(since, m) = SumFunctionOnSet(f, since)
      BY <1>1, <2>4, EntriesSum
    <2>6. \A e \in sofar : f[e] \in Int
      BY <1>1, <2>4, EntryAmountIsInteger
    <2>7. ThroughCutoff(m, end) = SumEntries(byEnd, m) /\ PostedSince(m) = SumEntries(since, m)
      BY DEF ThroughCutoff, PostedSince
    <2>. HIDE DEF f, sofar, byEnd, since, end, all
    <2>8. SumFunctionOnSet(f, sofar) = SumFunctionOnSet(f, byEnd) + SumFunctionOnSet(f, sofar \ byEnd)
      BY <2>3, <2>5, <2>6, SumOfParts
    <2>. QED BY <1>2, <1>4, <2>3, <2>5, <2>7, <2>8 DEF end
  <1>. QED BY <1>3, <1>4

-----------------------------------------------------------------------------
(* The shortage warning: from day to day it adds what the day changes.     *)

LEMMA DatesAreFinite == IsFiniteSet(Date)
  <1>. DEFINE days == [m \in Months |-> [month : {m}, day : 1 .. DaysIn[m]]]
              sets == {[month : {m}, day : 1 .. DaysIn[m]] : m \in Months}
  <1>1. ASSUME NEW m \in Months PROVE IsFiniteSet([month : {m}, day : 1 .. DaysIn[m]])
    <2>. DEFINE T == [month : {m}, day : 1 .. DaysIn[m]]
                f == [k \in 1 .. DaysIn[m] |-> [month |-> m, day |-> k]]
    <2>1. DaysIn[m] \in Nat
      BY MonthsAreNaturals
    <2>2. IsFiniteSet(1 .. DaysIn[m])
      BY <2>1, FS_Interval
    <2>3. f \in Surjection(1 .. DaysIn[m], T)
      <3>1. f \in [1 .. DaysIn[m] -> T]
        OBVIOUS
      <3>2. \A t \in T : f[t.day] = t /\ t.day \in 1 .. DaysIn[m]
        OBVIOUS
      <3>. QED BY <3>1, <3>2 DEF Surjection
    <2>. HIDE DEF f, T
    <2>4. IsFiniteSet(T)
      BY <2>2, <2>3, FS_Surjection
    <2>. QED BY <2>4 DEF T
  <1>2. IsFiniteSet(sets)
    <2>1. days \in Surjection(Months, sets)
      BY DEF Surjection
    <2>. HIDE DEF days, sets
    <2>. QED BY <2>1, RowsAssumption, FS_Surjection
  <1>3. \A T \in sets : IsFiniteSet(T)
    BY <1>1
  <1>. HIDE DEF sets
  <1>4. IsFiniteSet(UNION sets)
    BY <1>2, <1>3, FS_UNION
  <1>. QED BY <1>4 DEF sets, Date, DatesIn

DayBefore(d) == IF d.day > 1 THEN [d EXCEPT !.day = @ - 1] ELSE MonthEnd(d.month - 1)

LEMMA DayBeforeIs ==
  ASSUME NEW from \in Date, NEW d \in Date, Before(from, d)
  PROVE  /\ DayBefore(d) \in Date /\ NotAfter(from, DayBefore(d)) /\ Before(DayBefore(d), d)
         /\ \A x \in Date : NotAfter(x, d) <=> x = d \/ NotAfter(x, DayBefore(d))
         /\ ~NotAfter(d, DayBefore(d))
  <1>1. /\ d = [month |-> d.month, day |-> d.day] /\ d.month \in Months /\ d.month \in Nat
        /\ d.day \in 1 .. DaysIn[d.month] /\ DaysIn[d.month] \in Nat
        /\ from.month \in Nat /\ from.day \in Nat /\ 1 =< from.day
    <2>1. d = [month |-> d.month, day |-> d.day]
      BY DateIsRecord
    <2>. QED BY <2>1, DateFields
  <1>. DEFINE p == DayBefore(d)
  <1>2. CASE d.day > 1
    <2>1. p = [month |-> d.month, day |-> d.day - 1]
      BY <1>1, <1>2 DEF DayBefore
    <2>2. p \in Date /\ p.month = d.month /\ p.day = d.day - 1
      BY <1>1, <1>2, <2>1, DateIsRecord
    <2>. HIDE DEF p
    <2>3. NotAfter(from, p) /\ Before(p, d) /\ ~NotAfter(d, p)
      BY <1>1, <2>2, NotAfterIs DEF Before
    <2>4. ASSUME NEW x \in Date PROVE NotAfter(x, d) <=> x = d \/ NotAfter(x, p)
      BY <1>1, <2>2, NotAfterIs
    <2>. QED BY <2>2, <2>3, <2>4 DEF p
  <1>3. CASE ~(d.day > 1)
    <2>1. d.day = 1 /\ p = MonthEnd(d.month - 1)
      BY <1>1, <1>3 DEF DayBefore
    <2>2. from.month < d.month
      BY <1>1, <2>1 DEF Before
    <2>3. d.month - 1 \in Months
      BY <1>1, <2>2, MonthsAreNaturals
    <2>4. /\ p \in Date /\ p.month = d.month - 1
          /\ \A x \in Date : x.month =< d.month - 1 => NotAfter(x, p)
          /\ \A x \in Date : d.month - 1 < x.month => Before(p, x)
      BY <2>1, <2>3, MonthEndIsDate
    <2>. HIDE DEF p
    <2>5. NotAfter(from, p) /\ Before(p, d)
      BY <1>1, <2>2, <2>4
    <2>6. ~NotAfter(d, p)
      BY <1>1, <2>4, NotAfterIs
    <2>7. ASSUME NEW x \in Date PROVE NotAfter(x, d) <=> x = d \/ NotAfter(x, p)
      <3>1. x.month \in Nat /\ x.day \in Nat /\ 1 =< x.day
        BY DateFields
      <3>2. CASE x.month =< d.month - 1
        BY <1>1, <2>4, <3>1, <3>2, NotAfterIs
      <3>3. CASE ~(x.month =< d.month - 1)
        BY <1>1, <2>1, <2>4, <3>1, <3>3, NotAfterIs
      <3>. QED BY <3>2, <3>3
    <2>. QED BY <2>4, <2>5, <2>6, <2>7 DEF p
  <1>. QED BY <1>2, <1>3

\* Of some days one is the earliest.
LEMMA EarliestIsThere ==
  ASSUME NEW some \in SUBSET Date, some # {}
  PROVE  \E d \in some : \A x \in some : NotAfter(d, x)
  <1>. DEFINE months == {d.month : d \in some}
  <1>1. months \in SUBSET Nat /\ months # {}
    BY DateFields
  <1>2. PICK n \in months : \A k \in months : n =< k
    BY <1>1, NaturalsHaveLeast
  <1>. DEFINE these == {d \in some : d.month = n}
              days == {d.day : d \in these}
  <1>3. days \in SUBSET Nat /\ days # {}
    BY <1>2, DateFields
  <1>4. PICK k \in days : \A j \in days : k =< j
    BY <1>3, NaturalsHaveLeast
  <1>5. PICK d \in these : d.day = k
    BY <1>4
  <1>6. ASSUME NEW x \in some PROVE NotAfter(d, x)
    <2>1. d \in Date /\ x \in Date /\ d.month = n /\ x.month \in Nat /\ n \in Nat
      BY <1>1, <1>5, DateFields
    <2>2. n =< x.month /\ (x.month = n => k =< x.day)
      BY <1>2, <1>4
    <2>. QED BY <1>5, <2>1, <2>2, NotAfterIs
  <1>. QED BY <1>5, <1>6

LEMMA BalanceIsInteger ==
  ASSUME LedgerInv, NEW day
  PROVE  Balance(day) \in Int
  <1>1. /\ itemMoves \in [ItemIds \X Months -> Movement \union {None}]
        /\ invoiceMoves \in [InvoiceKeys -> Movement \union {None}]
        /\ paymentMoves \in [PaymentKeys -> Movement \union {None}]
    BY DEF LedgerInv, TypeOK, DerivedOK
  <1>2. IsFiniteSet(ItemIds \X Months) /\ IsFiniteSet(PaymentKeys)
    BY RowsAssumption, FS_Product
  <1>3. /\ Moved(itemMoves, ItemIds \X Months, day) \in Int
        /\ Moved(invoiceMoves, InvoiceKeys, day) \in Int
        /\ Moved(paymentMoves, PaymentKeys, day) \in Int
    BY <1>1, <1>2, FewStatements, MovedIsInt
  <1>. QED BY <1>3 DEF Balance, AccountMoves

\* A bill to be confirmed is expected on a day from today on.
LEMMA ExpectedFromToday ==
  ASSUME LedgerInv, NEW key \in Confirmed
  PROVE  ExpectedOn(key, today) \in Date /\ NotAfter(today, ExpectedOn(key, today))
  <1>1. today \in Date /\ invoices[key] \in Invoice
    BY DEF LedgerInv, TypeOK, SourcesOK, DerivedOK, Confirmed
  <1>2. invoices[key].due \in Date
    BY <1>1 DEF Invoice
  <1>. QED BY <1>1, <1>2, NotAfterIs DEF ExpectedOn

Rest == [key \in Confirmed |-> RemainingAt(key, today)]
DueOn(day) == {key \in Confirmed : ExpectedOn(key, today) = day}

LEMMA RestsAdd ==
  ASSUME LedgerInv, NEW d \in Date
  PROVE  /\ ProjectedBalance(d, today) = Balance(d) - SumFunctionOnSet(Rest, Expecting(d, today))
         /\ ExpectedBills(d, today) = SumFunctionOnSet(Rest, DueOn(d))
         /\ SumFunctionOnSet(Rest, Expecting(d, today)) \in Int
         /\ SumFunctionOnSet(Rest, DueOn(d)) \in Int
  <1>1. IsFiniteSet(Confirmed) /\ \A key \in Confirmed : Rest[key] \in Int
    BY FewAreConfirmed, PositiveIsNat DEF Rest, RemainingAt
  <1>2. ASSUME NEW A \in SUBSET Confirmed
        PROVE  /\ SumFunction([key \in A |-> RemainingAt(key, today)]) = SumFunctionOnSet(Rest, A)
               /\ SumFunctionOnSet(Rest, A) \in Int
    <2>. DEFINE f == [key \in A |-> RemainingAt(key, today)]
    <2>1. IsFiniteSet(A) /\ \A key \in A : f[key] = Rest[key] /\ f[key] \in Int
      BY <1>1, FS_Subset DEF Rest
    <2>2. SumFunction(f) = SumFunctionOnSet(f, A)
      BY DEF SumFunction
    <2>. HIDE DEF f
    <2>3. SumFunctionOnSet(f, A) = SumFunctionOnSet(Rest, A)
      BY <2>1, SumOfSame
    <2>4. SumFunctionOnSet(Rest, A) \in Int
      BY <1>1, SumIsInt
    <2>. QED BY <2>2, <2>3, <2>4 DEF f
  <1>3. Expecting(d, today) \in SUBSET Confirmed /\ DueOn(d) \in SUBSET Confirmed
    BY DEF Expecting, DueOn
  <1>4. ProjectedBalance(d, today)
          = Balance(d) - SumFunction([key \in Expecting(d, today) |-> RemainingAt(key, today)])
    BY DEF ProjectedBalance, Expecting
  <1>5. ExpectedBills(d, today) = SumFunction([key \in DueOn(d) |-> RemainingAt(key, today)])
    BY DEF ExpectedBills, DueOn
  <1>. QED BY <1>2, <1>3, <1>4, <1>5

\* A day changes the projected balance by what the warning adds for it.
LEMMA DaysChangeTheClose ==
  ASSUME LedgerInv, NEW d \in Date, Before(today, d)
  PROVE  /\ ProjectedBalance(d, today) = ProjectedBalance(DayBefore(d), today) + DayChange(d, today)
         /\ DayChange(d, today) \in Int
  <1>. DEFINE p == DayBefore(d)
  <1>1. today \in Date /\ p \in Date /\ ~NotAfter(d, p)
        /\ \A x \in Date : NotAfter(x, d) <=> x = d \/ NotAfter(x, p)
    BY DayBeforeIs DEF LedgerInv, TypeOK, SourcesOK
  <1>2. DayChange(d, today) = Balance(d) - Balance(p) - ExpectedBills(d, today)
    BY DEF DayChange, DayBefore
  <1>. HIDE DEF p
  <1>3. \A key \in Confirmed : ExpectedOn(key, today) \in Date
    BY ExpectedFromToday
  <1>4. /\ Expecting(p, today) \in SUBSET Expecting(d, today)
        /\ Expecting(d, today) \ Expecting(p, today) = DueOn(d)
    BY <1>1, <1>3 DEF Expecting, DueOn
  <1>5. SumFunctionOnSet(Rest, Expecting(d, today))
          = SumFunctionOnSet(Rest, Expecting(p, today)) + SumFunctionOnSet(Rest, DueOn(d))
    <2>1. IsFiniteSet(Expecting(d, today)) /\ \A key \in Expecting(d, today) : Rest[key] \in Int
      BY FewAreConfirmed, FS_Subset, PositiveIsNat DEF Rest, RemainingAt, Expecting
    <2>. QED BY <1>4, <2>1, SumOfParts
  <1>6. Balance(d) \in Int /\ Balance(p) \in Int
    BY BalanceIsInteger
  <1>7. /\ ProjectedBalance(d, today) = Balance(d) - SumFunctionOnSet(Rest, Expecting(d, today))
        /\ ProjectedBalance(p, today) = Balance(p) - SumFunctionOnSet(Rest, Expecting(p, today))
        /\ ExpectedBills(d, today) = SumFunctionOnSet(Rest, DueOn(d))
        /\ SumFunctionOnSet(Rest, Expecting(d, today)) \in Int
        /\ SumFunctionOnSet(Rest, Expecting(p, today)) \in Int
        /\ SumFunctionOnSet(Rest, DueOn(d)) \in Int
    BY <1>1, RestsAdd
  <1>8. /\ ProjectedBalance(d, today) = ProjectedBalance(p, today) + DayChange(d, today)
        /\ DayChange(d, today) \in Int
    BY <1>2, <1>5, <1>6, <1>7
  <1>. QED BY <1>8 DEF p

Changes == [d \in Date |-> DayChange(d, today)]

LEMMA WalkedIs ==
  ASSUME LedgerInv, NEW d \in Date
  PROVE  /\ Walked(today, d) = Balance(today) - ExpectedBills(today, today)
                                 + SumFunctionOnSet(Changes, DaysBetween(today, d))
         /\ DaysBetween(today, d) = {x \in Date : Before(today, x) /\ NotAfter(x, d)}
         /\ IsFiniteSet(DaysBetween(today, d))
         /\ \A x \in DaysBetween(today, d) : Changes[x] \in Int
  <1>. DEFINE days == DaysBetween(today, d)
              f == [x \in days |-> DayChange(x, today)]
  <1>1. today \in Date
    BY DEF LedgerInv, TypeOK, SourcesOK
  <1>2. days = {x \in Date : Before(today, x) /\ NotAfter(x, d)}
    <2>1. ASSUME NEW x \in DatesIn(InMonths(today.month, d.month)) PROVE x \in Date
      BY <2>1 DEF DatesIn, InMonths, Date
    <2>2. ASSUME NEW x \in Date, Before(today, x), NotAfter(x, d)
          PROVE  x \in DatesIn(InMonths(today.month, d.month))
      <3>1. /\ x.month \in Months /\ x.day \in 1 .. DaysIn[x.month]
            /\ x = [month |-> x.month, day |-> x.day]
        BY DateFields, DateIsRecord
      <3>2. today.month =< x.month /\ x.month =< d.month
        BY <1>1, <2>2, NotAfterIs DEF Before
      <3>. QED BY <3>1, <3>2 DEF DatesIn, InMonths
    <2>. QED BY <2>1, <2>2 DEF DaysBetween
  <1>3. IsFiniteSet(days) /\ days \in SUBSET Date
    <2>1. days \in SUBSET Date
      BY <1>2
    <2>. QED BY <2>1, DatesAreFinite, FS_Subset
  <1>4. \A x \in days : f[x] = Changes[x] /\ f[x] \in Int
    BY <1>2, DaysChangeTheClose DEF Changes
  <1>5. Walked(today, d) = Balance(today) - ExpectedBills(today, today) + SumFunctionOnSet(f, days)
    BY DEF Walked, SumFunction
  <1>. HIDE DEF f, days
  <1>6. SumFunctionOnSet(f, days) = SumFunctionOnSet(Changes, days)
    BY <1>3, <1>4, SumOfSame
  <1>. QED BY <1>2, <1>3, <1>4, <1>5, <1>6 DEF days

\* Walking day by day, the warning arrives at the projected balance.
LEMMA WarningArrives ==
  ASSUME LedgerInv, NEW end \in Date, NotAfter(today, end)
  PROVE  Walked(today, end) = ProjectedBalance(end, today)
  <1>. DEFINE bad == {d \in Date : NotAfter(today, d) /\ Walked(today, d) # ProjectedBalance(d, today)}
  <1>. SUFFICES ASSUME bad # {} PROVE FALSE
    OBVIOUS
  <1>1. PICK d \in bad : \A x \in bad : NotAfter(d, x)
    <2>1. bad \in SUBSET Date
      OBVIOUS
    <2>. HIDE DEF bad
    <2>. QED BY <2>1, EarliestIsThere
  <1>2. today \in Date /\ d \in Date /\ NotAfter(today, d)
    BY DEF LedgerInv, TypeOK, SourcesOK
  <1>3. CASE d = today
    <2>1. DaysBetween(today, today) = {}
      <3>1. \A x \in Date : ~(Before(today, x) /\ NotAfter(x, today))
        BY <1>2, NotAfterIs DEF Before
      <3>. QED BY <1>2, <3>1, WalkedIs
    <2>2. Walked(today, today) = Balance(today) - ExpectedBills(today, today) + 0
      BY <1>2, <2>1, WalkedIs, SumOfNothing
    <2>3. Expecting(today, today) = DueOn(today)
      <3>1. ASSUME NEW key \in Confirmed
            PROVE  NotAfter(ExpectedOn(key, today), today) <=> ExpectedOn(key, today) = today
        BY <1>2, ExpectedFromToday, NotAfterIs
      <3>. QED BY <3>1 DEF Expecting, DueOn
    <2>4. Walked(today, today) = ProjectedBalance(today, today)
      BY <1>2, <2>2, <2>3, RestsAdd, BalanceIsInteger
    <2>. QED BY <1>3, <2>4
  <1>4. CASE d # today
    <2>. DEFINE p == DayBefore(d)
                days == DaysBetween(today, d)
    <2>1. Before(today, d)
      BY <1>2, <1>4 DEF NotAfter
    <2>2. /\ p \in Date /\ NotAfter(today, p) /\ Before(p, d) /\ ~NotAfter(d, p)
          /\ \A x \in Date : NotAfter(x, d) <=> x = d \/ NotAfter(x, p)
      BY <1>2, <2>1, DayBeforeIs
    <2>3. ~NotAfter(d, p) /\ p \notin bad
      BY <1>1, <2>2
    <2>4. Walked(today, p) = ProjectedBalance(p, today)
      BY <2>2, <2>3
    <2>5. days \ {d} = DaysBetween(today, p) /\ d \in days
      <3>1. days = {x \in Date : Before(today, x) /\ NotAfter(x, d)}
            /\ DaysBetween(today, p) = {x \in Date : Before(today, x) /\ NotAfter(x, p)}
        BY <1>2, <2>2, WalkedIs
      <3>2. NotAfter(d, d)
        BY DEF NotAfter
      <3>. HIDE DEF p
      <3>. QED BY <1>2, <2>1, <2>2, <3>1, <3>2
    <2>6. SumFunctionOnSet(Changes, days)
            = Changes[d] + SumFunctionOnSet(Changes, DaysBetween(today, p))
      <3>1. IsFiniteSet(days) /\ \A x \in days : Changes[x] \in Int
        BY <1>2, WalkedIs
      <3>. HIDE DEF days, p
      <3>. QED BY <2>5, <3>1, SumLess
    <2>7. Changes[d] = DayChange(d, today) /\ DayChange(d, today) \in Int
          /\ ProjectedBalance(d, today) = ProjectedBalance(p, today) + DayChange(d, today)
      BY <1>2, <2>1, DaysChangeTheClose DEF Changes
    <2>8. /\ Walked(today, d) = Balance(today) - ExpectedBills(today, today)
                                  + SumFunctionOnSet(Changes, days)
          /\ Walked(today, p) = Balance(today) - ExpectedBills(today, today)
                                  + SumFunctionOnSet(Changes, DaysBetween(today, p))
      BY <1>2, <2>2, WalkedIs
    <2>9. /\ Balance(today) \in Int /\ ExpectedBills(today, today) \in Int
          /\ SumFunctionOnSet(Changes, DaysBetween(today, p)) \in Int
      <3>1. IsFiniteSet(DaysBetween(today, p)) /\ \A x \in DaysBetween(today, p) : Changes[x] \in Int
        BY <2>2, WalkedIs
      <3>2. SumFunctionOnSet(Changes, DaysBetween(today, p)) \in Int
        BY <3>1, SumIsInt
      <3>. QED BY <1>2, <3>2, RestsAdd, BalanceIsInteger
    <2>. HIDE DEF p, days
    <2>10. Walked(today, d) = ProjectedBalance(d, today)
      BY <2>4, <2>6, <2>7, <2>8, <2>9
    <2>. QED BY <2>10
  <1>. QED BY <1>3, <1>4

LEMMA ReportsAreTrue == LedgerInv => ReportsAgree
  <1>. SUFFICES ASSUME LedgerInv PROVE ReportsAgree
    OBVIOUS
  <1>1. today \in Date /\ today.month \in Nat
    BY DateFields DEF LedgerInv, TypeOK, SourcesOK
  <1>2. \A m \in Months : Divides(FullMonth(m), ByInstrument(m), ByRecurrence(m), m)
    BY MonthIsDivided
  <1>3. BudgetActual(today.month + 1, today) = 0
    <2>1. today.month + 1 > today.month
      BY <1>1
    <2>. QED BY <2>1 DEF BudgetActual
  <1>4. ASSUME NEW m \in Months, today.month =< m
        PROVE  Walked(today, MonthEnd(m)) = ProjectedBalance(MonthEnd(m), today)
    <2>1. MonthEnd(m) \in Date /\ NotAfter(today, MonthEnd(m))
      BY <1>1, <1>4, MonthEndIsDate
    <2>. QED BY <2>1, WarningArrives
  <1>. QED BY <1>2, <1>3, <1>4, BudgetsAgree DEF ReportsAgree, InMonths

-----------------------------------------------------------------------------
(* The commitments of a scenario, row by row.                              *)

Referred(e, n, start) ==
    /\ n \in Months /\ EntryAmount(e, n) # 0
    /\ IsCredit(e) \/ n \in References(start)

LEMMA RowIs ==
  ASSUME NEW e, NEW n
  PROVE  /\ Row(e, n).key = <<e, Identity(e, n)>> /\ Row(e, n).amount = EntryAmount(e, n)
         /\ Row(e, n).reference_month = n /\ Row(e, n)["reference_month"] = n
         /\ Row(e, n).payment_date = DueOf(e, n).month
         /\ Row(e, n)["payment_date"] = DueOf(e, n).month
  BY DEF Row

LEMMA SnapshotRows ==
  ASSUME NEW start, NEW basis, NEW row
  PROVE  row \in CommitmentSnapshot(start, basis) <=>
            /\ row[basis] \in Window(start)
            /\ \E e \in Entries : \E n \in Months : Referred(e, n, start) /\ row = Row(e, n)
  <1>1. row \in CommitmentSnapshot(start, basis) <=>
            row[basis] \in Window(start) /\ \E e \in Entries : row \in RowsOf(e, start)
    BY DEF CommitmentSnapshot
  <1>2. ASSUME NEW e \in Entries
        PROVE  row \in RowsOf(e, start) <=> \E n \in Months : Referred(e, n, start) /\ row = Row(e, n)
    <2>1. CASE IsCredit(e)
      BY <2>1 DEF RowsOf, Referred
    <2>2. CASE ~IsCredit(e)
      <3>1. References(start) \subseteq Months
        BY DEF References
      <3>. QED BY <2>2, <3>1 DEF RowsOf, Referred
    <2>. QED BY <2>1, <2>2
  <1>. QED BY <1>1, <1>2

\* Which occurrence a row is tells its month.
LEMMA IdentityTells ==
  ASSUME LedgerInv, NEW e \in Entries, NEW m \in Months, NEW n \in Months,
         EntryAmount(e, m) # 0, EntryAmount(e, n) # 0, Identity(e, m) = Identity(e, n)
  PROVE  m = n
  <1>1. m \in Int /\ n \in Int
    BY MonthsAreNaturals
  <1>2. CASE IsCredit(e)
    BY <1>2 DEF EntryAmount
  <1>3. CASE ~IsCredit(e)
    <2>. DEFINE item == items[e]
                billed == BilledMonth(item, CardOf(e))
                off == BillingOffset(item, CardOf(e))
    <2>1. /\ item \in Item /\ billed \in Int /\ off \in Int
          /\ AmountForMonth(item, CardOf(e), m) # 0 /\ AmountForMonth(item, CardOf(e), n) # 0
      BY <1>3, EntriesAre, OffsetIs, BilledMonthIsInteger DEF EntryAmount
    <2>. HIDE DEF billed, off
    <2>2. CASE IsPlan(item)
      <3>1. /\ Identity(e, m) = <<"installment", m - billed + 1>>
            /\ Identity(e, n) = <<"installment", n - billed + 1>>
        BY <1>3, <2>2 DEF Identity, billed
      <3>2. PICK a, b : a = m - billed + 1 /\ b = n - billed + 1
        OBVIOUS
      <3>3. <<"installment", a>> = <<"installment", b>>
        BY <3>1, <3>2
      <3>4. a = b
        BY <3>3
      <3>. QED BY <1>1, <2>1, <3>2, <3>4
    <2>3. CASE ~IsPlan(item) /\ item.fixed
      <3>1. Identity(e, m) = <<"recurring", m - off>> /\ Identity(e, n) = <<"recurring", n - off>>
        BY <1>3, <2>3 DEF Identity, off
      <3>2. PICK a, b : a = m - off /\ b = n - off
        OBVIOUS
      <3>3. <<"recurring", a>> = <<"recurring", b>>
        BY <3>1, <3>2
      <3>4. a = b
        BY <3>3
      <3>. QED BY <1>1, <2>1, <3>2, <3>4
    <2>4. CASE ~IsPlan(item) /\ ~item.fixed
      BY <1>1, <2>1, <2>4, NothingBeforeBilled
    <2>. QED BY <2>2, <2>3, <2>4
  <1>. QED BY <1>2, <1>3

\* No two rows of a snapshot share a key.
LEMMA KeysAreApart ==
  ASSUME LedgerInv, NEW start, NEW basis
  PROVE  LET rows == CommitmentSnapshot(start, basis)
         IN  Cardinality({row.key : row \in rows}) = Cardinality(rows)
  <1>. DEFINE rows == CommitmentSnapshot(start, basis)
              keys == {row.key : row \in rows}
              pairs == Entries \X Months
              row(p) == Row(p[1], p[2])
              all == {row(p) : p \in pairs}
              key == [r \in rows |-> r.key]
  <1>1. IsFiniteSet(rows)
    <2>. DEFINE of == [p \in pairs |-> row(p)]
    <2>1. IsFiniteSet(pairs)
      BY EntriesAre, RowsAssumption, FS_Product
    <2>2. of \in Surjection(pairs, all)
      BY DEF Surjection
    <2>3. rows \subseteq all
      <3>. SUFFICES ASSUME NEW r \in rows PROVE r \in all
        OBVIOUS
      <3>1. PICK e \in Entries, n \in Months : r = Row(e, n)
        BY SnapshotRows
      <3>2. <<e, n>> \in pairs /\ r = row(<<e, n>>)
        BY <3>1
      <3>. HIDE DEF rows, row, pairs
      <3>. QED BY <3>2
    <2>. HIDE DEF of, all, pairs, rows
    <2>. QED BY <2>1, <2>2, <2>3, FS_Surjection, FS_Subset
  <1>2. ASSUME NEW r \in rows, NEW t \in rows, r.key = t.key PROVE r = t
    <2>1. PICK e \in Entries, m \in Months : Referred(e, m, start) /\ r = Row(e, m)
      BY SnapshotRows
    <2>2. PICK d \in Entries, n \in Months : Referred(d, n, start) /\ t = Row(d, n)
      BY SnapshotRows
    <2>3. <<e, Identity(e, m)>> = <<d, Identity(d, n)>>
      BY <1>2, <2>1, <2>2, RowIs
    <2>4. e = d /\ Identity(e, m) = Identity(e, n)
      BY <2>3
    <2>5. m = n
      BY <2>1, <2>2, <2>4, IdentityTells DEF Referred
    <2>. QED BY <2>1, <2>2, <2>4, <2>5
  <1>. HIDE DEF rows
  <1>3. key \in Bijection(rows, keys)
    <2>1. key \in Surjection(rows, keys)
      BY DEF Surjection
    <2>2. key \in Injection(rows, keys)
      BY <1>2 DEF Injection, IsInjective
    <2>. QED BY <2>1, <2>2 DEF Bijection
  <1>. HIDE DEF key, keys
  <1>4. ExistsBijection(rows, keys)
    BY <1>3 DEF ExistsBijection
  <1>5. Cardinality(keys) = Cardinality(rows)
    BY <1>1, <1>4, FS_Bijection
  <1>. QED BY <1>5 DEF rows, keys

\* What a snapshot charges to a month is what the dashboard does.
LEMMA ChargesAgree ==
  ASSUME LedgerInv, NEW start, NEW m \in Months, m \in Window(start)
  PROVE  SnapshotTotal(CommitmentSnapshot(start, "reference_month"), m, "reference_month") = FullMonth(m)
  <1>. DEFINE all == Charging(m)
              to == [e \in all |-> Row(e, m)]
              T == {row \in CommitmentSnapshot(start, "reference_month") : row["reference_month"] = m}
              f == AmountsIn(m)
              g == [row \in T |-> row.amount]
  <1>1. all \in SUBSET Entries
    BY DEF Charging
  <1>2. /\ IsFiniteSet(all) /\ FullMonth(m) = SumFunctionOnSet(f, all)
        /\ \A e \in all : f[e] = EntryAmount(e, m) /\ f[e] \in Int
    BY <1>1, EntriesSum, EntryAmountIsInteger DEF FullMonth
  <1>3. m \in References(start)
    BY DEF References
  <1>4. T = {Row(e, m) : e \in all}
    <2>1. ASSUME NEW row \in T PROVE row \in {Row(e, m) : e \in all}
      <3>1. PICK e \in Entries, n \in Months : Referred(e, n, start) /\ row = Row(e, n)
        BY SnapshotRows
      <3>2. n = m
        BY <3>1, RowIs
      <3>. QED BY <3>1, <3>2 DEF Referred, Charging
    <2>2. ASSUME NEW e \in all PROVE Row(e, m) \in T
      <3>1. Referred(e, m, start) /\ e \in Entries
        BY <1>3 DEF Referred, Charging
      <3>2. Row(e, m)["reference_month"] = m
        BY RowIs
      <3>. QED BY <3>1, <3>2, SnapshotRows
    <2>. HIDE DEF T, all
    <2>. QED BY <2>1, <2>2
  <1>5. \A e \in all : to[e] = Row(e, m) /\ Row(e, m).amount = EntryAmount(e, m)
    BY RowIs
  <1>6. \A d \in all : \A e \in all : to[d] = to[e] => d = e
    <2>. SUFFICES ASSUME NEW d \in all, NEW e \in all, to[d] = to[e] PROVE d = e
      OBVIOUS
    <2>1. <<d, Identity(d, m)>> = <<e, Identity(e, m)>>
      BY <1>5, RowIs
    <2>. QED BY <2>1
  <1>7. \A e \in all : f[e] \in Int /\ g[to[e]] = f[e]
    BY <1>2, <1>4, <1>5
  <1>8. T = {to[e] : e \in all}
    BY <1>4, <1>5
  <1>9. SnapshotTotal(CommitmentSnapshot(start, "reference_month"), m, "reference_month")
          = SumFunctionOnSet(g, T)
    BY DEF SnapshotTotal, SumFunction
  <1>. HIDE DEF all, to, T, f, g
  <1>10. SumFunctionOnSet(g, T) = SumFunctionOnSet(f, all)
    BY <1>2, <1>6, <1>7, <1>8, SumOverImage
  <1>. QED BY <1>2, <1>9, <1>10

-----------------------------------------------------------------------------
(* The commitments by the month they are paid in.                          *)

\* How many months after its statement month a card is due.
Lag(c) == IF cards[c].due < cards[c].closing THEN 1 ELSE 0
EntryLag(e) == IF Instrument(e) \in CardIds THEN Lag(Instrument(e)) ELSE 0

LEMMA LagIs ==
  /\ \A c : Lag(c) \in {0, 1}
  /\ \A e : EntryLag(e) \in {0, 1}
  /\ \A c : \A n \in Int : DueDate(cards[c], n).month = n + Lag(c)
  BY DEF Lag, EntryLag, DueDate, Clamped

LEMMA DueInMonth ==
  ASSUME LedgerInv, NEW e \in Entries, NEW n \in Months, EntryAmount(e, n) # 0
  PROVE  DueOf(e, n).month = n + EntryLag(e)
  <1>1. n \in Int
    BY MonthsAreNaturals
  <1>2. CASE Instrument(e) \in CardIds
    <2>1. DueOf(e, n) = DueDate(cards[Instrument(e)], n)
      BY <1>2 DEF DueOf, CardOf
    <2>. QED BY <1>1, <1>2, <2>1, LagIs DEF EntryLag
  <1>3. CASE Instrument(e) \notin CardIds
    <2>1. ~IsCredit(e)
      BY <1>3, EntriesAre
    <2>2. /\ items[e] \in Item /\ CardOf(e) = NoCard /\ ~IsPlan(items[e])
          /\ ~IsCard(NoCard) /\ items[e].fixed \in BOOLEAN
      <3>1. items[e] \in Item
        BY <2>1, EntriesAre
      <3>. QED BY <1>3, <2>1, <3>1, EntriesAre, ItemFields
    <2>3. CASE items[e].fixed
      BY <1>1, <1>3, <2>3 DEF DueOf, EntryLag, Clamped
    <2>4. CASE ~items[e].fixed
      <3>1. AmountForMonth(items[e], NoCard, n) # 0
        BY <2>1, <2>2 DEF EntryAmount
      <3>2. n = items[e].date.month + 0
        BY <1>1, <2>2, <2>4, <3>1, NothingBeforeBilled, OffsetIs
      <3>3. DueOf(e, n) = items[e].date
        BY <1>3, <2>4 DEF DueOf
      <3>. QED BY <1>1, <1>3, <2>2, <3>2, <3>3, ItemFields DEF EntryLag
    <2>. QED BY <2>2, <2>3, <2>4
  <1>. QED BY <1>2, <1>3

\* What an entry has to be paid in a month.
PaidIn(m) ==
    [e \in Entries |-> IF m - EntryLag(e) \in Months THEN EntryAmount(e, m - EntryLag(e)) ELSE 0]

LEMMA PaidInIsInteger ==
  ASSUME LedgerInv, NEW m \in Months
  PROVE  \A e \in Entries : PaidIn(m)[e] \in Int
  BY EntryAmountIsInteger DEF PaidIn

LEMMA PaymentsAgree ==
  ASSUME LedgerInv, NEW start \in Int, NEW m \in Months, m \in Window(start)
  PROVE  SnapshotTotal(CommitmentSnapshot(start, "payment_date"), m, "payment_date")
           = SumFunctionOnSet(PaidIn(m), Entries)
  <1>. DEFINE paid == PaidIn(m)
              all == {e \in Entries : paid[e] # 0}
              row(e) == Row(e, m - EntryLag(e))
              to == [e \in all |-> row(e)]
              T == {r \in CommitmentSnapshot(start, "payment_date") : r["payment_date"] = m}
              g == [r \in T |-> r.amount]
  <1>1. IsFiniteSet(all) /\ all \in SUBSET Entries /\ \A e \in Entries : paid[e] \in Int
    BY EntriesAre, FS_Subset, PaidInIsInteger
  <1>2. ASSUME NEW e \in Entries
        PROVE  e \in all <=> /\ m - EntryLag(e) \in Months /\ EntryAmount(e, m - EntryLag(e)) # 0
                             /\ paid[e] = EntryAmount(e, m - EntryLag(e))
    BY DEF PaidIn
  <1>. HIDE DEF paid, all
  <1>3. T = {row(e) : e \in all}
    <2>1. ASSUME NEW r \in T PROVE r \in {row(e) : e \in all}
      <3>1. PICK e \in Entries, n \in Months : Referred(e, n, start) /\ r = Row(e, n)
        BY SnapshotRows
      <3>2. DueOf(e, n).month = m /\ DueOf(e, n).month = n + EntryLag(e)
        BY <3>1, RowIs, DueInMonth DEF Referred
      <3>3. n = m - EntryLag(e)
        <4>1. n \in Int /\ m \in Int /\ EntryLag(e) \in Int
          BY LagIs, MonthsAreNaturals
        <4>. QED BY <3>2, <4>1
      <3>4. e \in all
        BY <1>2, <3>1, <3>3 DEF Referred, PaidIn, paid
      <3>. QED BY <3>1, <3>3, <3>4
    <2>2. ASSUME NEW e \in all PROVE row(e) \in T
      <3>. DEFINE n == m - EntryLag(e)
      <3>1. e \in Entries /\ n \in Months /\ EntryAmount(e, n) # 0
        BY <1>1, <1>2
      <3>2. n \in Int /\ m \in Int /\ EntryLag(e) \in {0, 1} /\ SnapshotMonths \in Int
        BY <3>1, LagIs, MonthsAreNaturals, SnapshotAssumption
      <3>3. n \in References(start)
        <4>1. n \in {start - 1} \union Window(start)
          BY <3>2 DEF Window
        <4>. QED BY <3>1, <4>1 DEF References
      <3>4. Referred(e, n, start)
        BY <3>1, <3>3 DEF Referred
      <3>5. Row(e, n)["payment_date"] = n + EntryLag(e)
        BY <3>1, RowIs, DueInMonth
      <3>6. n + EntryLag(e) = m
        BY <3>2
      <3>. HIDE DEF n
      <3>7. Row(e, n) \in CommitmentSnapshot(start, "payment_date")
        BY <3>1, <3>4, <3>5, <3>6, SnapshotRows
      <3>. QED BY <3>5, <3>6, <3>7 DEF n
    <2>. HIDE DEF T, row
    <2>. QED BY <2>1, <2>2
  <1>4. \A e \in all : to[e] = row(e) /\ row(e).amount = paid[e] /\ paid[e] \in Int
    BY <1>1, <1>2, RowIs
  <1>5. ASSUME NEW d \in all, NEW e \in all, to[d] = to[e] PROVE d = e
    <2>1. <<d, Identity(d, m - EntryLag(d))>> = <<e, Identity(e, m - EntryLag(e))>>
      BY <1>5, RowIs
    <2>. QED BY <2>1
  <1>6. \A e \in all : paid[e] \in Int /\ g[to[e]] = paid[e]
    BY <1>3, <1>4
  <1>7. T = {to[e] : e \in all}
    BY <1>3, <1>4
  <1>8. SnapshotTotal(CommitmentSnapshot(start, "payment_date"), m, "payment_date")
          = SumFunctionOnSet(g, T)
    BY DEF SnapshotTotal, SumFunction
  <1>9. \A e \in Entries \ all : paid[e] = 0
    BY DEF all
  <1>. HIDE DEF to, T, g, row
  <1>10. SumFunctionOnSet(g, T) = SumFunctionOnSet(paid, all)
    BY <1>1, <1>5, <1>6, <1>7, SumOverImage
  <1>11. SumFunctionOnSet(paid, Entries) = SumFunctionOnSet(paid, all)
    BY <1>1, <1>9, EntriesAre, SumWithoutZeros
  <1>. QED BY <1>8, <1>10, <1>11 DEF paid

\* What an account item bills by a day is projected by then.
LEMMA AccountFallsInWindow ==
  ASSUME NEW item \in Item, item.fixed, ~IsPlan(item), NEW horizon \in Date,
         NEW m \in Months, m < horizon.month, AmountForMonth(item, NoCard, m) # 0
  PROVE  m \in OccurrenceMonths(item, NoCard, horizon)
  <1>. DEFINE start == WindowStart(item, NoCard)
              last == LastFixedOffset(item)
              open == Positive(horizon.month - start + 1)
              bounded == IF item.until = NoMonth THEN open ELSE Least(open, last + 1)
              length == WindowLength(item, NoCard, horizon)
              offset == m - BilledMonth(item, NoCard)
  <1>1. start = BilledMonth(item, NoCard) /\ start \in Int /\ m \in Int /\ horizon.month \in Int
    BY BilledMonthIsInteger, MonthsAreNaturals, DateFields DEF WindowStart
  <1>2. start =< m
    BY <1>1, NothingBeforeBilled
  <1>3. last \in Nat
    BY PositiveIsNat DEF LastFixedOffset
  <1>4. item.until = NoMonth \/ offset =< last
    <2>1. offset >= 0 /\ offset \in Int
      BY <1>1, <1>2
    <2>. HIDE DEF offset, last
    <2>2. AmountForMonth(item, NoCard, m)
            = IF item.until # NoMonth /\ offset > last THEN 0 ELSE item.amount
      BY <2>1 DEF AmountForMonth, offset, last
    <2>. QED BY <1>3, <2>1, <2>2
  <1>5. open = horizon.month - start + 1
    BY <1>1, <1>2 DEF Positive
  <1>6. bounded \in Int /\ bounded >= m - start + 1
    BY <1>1, <1>2, <1>3, <1>4, <1>5 DEF Least
  <1>7. \/ length = bounded
        \/ length = bounded - 1 /\ Before(horizon, EffectiveDate(item, start + bounded - 1))
    BY DEF WindowLength
  <1>8. Before(horizon, EffectiveDate(item, start + bounded - 1)) => horizon.month =< start + bounded - 1
    BY <1>1, <1>6 DEF Before, EffectiveDate, Clamped
  <1>9. length \in Int /\ m =< start + length - 1
    <2>. HIDE DEF start, bounded, length
    <2>. QED BY <1>1, <1>6, <1>7, <1>8
  <1>. QED BY <1>1, <1>2, <1>9 DEF OccurrenceMonths

OnAccounts == {e \in Entries : Instrument(e) \notin CardIds}

\* The movement of an account item in a month, within the horizon.
LEMMA AccountItemMoves ==
  ASSUME LedgerInv, FreshInv, Fresh, NEW m \in Months, m < Horizon(today).month
  PROVE  /\ \A e \in OnAccounts : EntryAmount(e, m) # 0 =>
               /\ itemMoves[<<e, m>>] # None /\ itemMoves[<<e, m>>].date.month = m
               /\ itemMoves[<<e, m>>].amount = EntryAmount(e, m)
         /\ \A i \in ItemIds, n \in Months :
               itemMoves[<<i, n>>] # None /\ itemMoves[<<i, n>>].date.month = m =>
                  n = m /\ i \in OnAccounts /\ EntryAmount(i, m) # 0
  <1>. DEFINE h == Horizon(today)
  <1>1. h \in Date /\ h.month \in Int /\ m \in Int
    BY HorizonIsDate, MonthsAreNaturals DEF LedgerInv, TypeOK, SourcesOK, DaysLived
  <1>2. \A i \in ItemIds, n \in Months : itemMoves[<<i, n>>] = SyncedItemMove(Sources, i, n)
    BY DEF FreshInv, IsReconciled
  <1>. HIDE DEF h
  <1>3. ASSUME NEW e \in OnAccounts, EntryAmount(e, m) # 0
        PROVE  /\ itemMoves[<<e, m>>] # None /\ itemMoves[<<e, m>>].date.month = m
               /\ itemMoves[<<e, m>>].amount = EntryAmount(e, m)
    <2>. DEFINE item == items[e]
                effective == IF item.fixed THEN EffectiveDate(item, m) ELSE item.date
    <2>1. /\ ~IsCredit(e) /\ e \in ItemIds /\ item # None /\ item \in Item
          /\ item.instrument \notin CardIds /\ ~IsPlan(item) /\ CardOf(e) = NoCard
          /\ ~IsCard(NoCard) /\ item.fixed \in BOOLEAN
      <3>1. e \in Entries /\ Instrument(e) \notin CardIds /\ ~IsCredit(e)
        BY EntriesAre DEF OnAccounts
      <3>2. item \in Item /\ item # None /\ e \in ItemIds /\ Instrument(e) = item.instrument
        BY <3>1, EntriesAre
      <3>. QED BY <3>1, <3>2, EntriesAre, ItemFields
    <2>2. AmountForMonth(item, NoCard, m) = EntryAmount(e, m)
      BY <2>1 DEF EntryAmount
    <2>3. effective.month = m
          /\ IF item.fixed THEN m \in OccurrenceMonths(item, NoCard, h) ELSE m = item.date.month
      <3>1. CASE item.fixed
        <4>1. m \in OccurrenceMonths(item, NoCard, h)
          BY <1>1, <1>3, <2>1, <2>2, <3>1, AccountFallsInWindow DEF h
        <4>. QED BY <3>1, <4>1 DEF EffectiveDate, Clamped
      <3>2. CASE ~item.fixed
        <4>1. m = item.date.month + 0
          BY <1>1, <1>3, <2>1, <2>2, <3>2, NothingBeforeBilled, OffsetIs
        <4>. QED BY <2>1, <3>2, <4>1, ItemFields
      <3>. QED BY <2>1, <3>1, <3>2
    <2>4. NotAfter(effective, h)
      BY <1>1, <2>3 DEF NotAfter, Before, h
    <2>5. SyncedItemMove(Sources, e, m)
            = [account |-> item.instrument, amount |-> AmountForMonth(item, NoCard, m), date |-> effective]
      <3>. HIDE DEF effective
      <3>. QED BY <1>3, <2>1, <2>2, <2>3, <2>4 DEF SyncedItemMove, Sources, effective, h
    <2>6. itemMoves[<<e, m>>] = [account |-> item.instrument, amount |-> EntryAmount(e, m), date |-> effective]
      BY <1>2, <2>1, <2>2, <2>5
    <2>7. itemMoves[<<e, m>>] # None
      <3>1. /\ EntryAmount(e, m) \in Nat \ {0} /\ item.instrument \in Accounts /\ effective \in Date
        <4>1. EntryAmount(e, m) \in {0, item.amount} /\ item.amount \in Nat
          BY <2>1, <2>2, AccountAmount, ItemFields
        <4>2. item.instrument \in Accounts /\ item.date \in Date /\ item.date.day \in Nat \ {0}
          <5>1. item.instrument \in Accounts /\ item.date \in Date
            BY <2>1, ItemFields
          <5>2. item.date.day \in 1 .. DaysIn[item.date.month] /\ item.date.day \in Nat
            BY <5>1, DateFields
          <5>. QED BY <5>1, <5>2
        <4>3. EffectiveDate(item, m) \in Date
          BY <4>2, ClampedIsDate DEF EffectiveDate
        <4>. QED BY <1>3, <4>1, <4>2, <4>3
      <3>2. itemMoves[<<e, m>>] \in Movement
        BY <2>6, <3>1 DEF Movement
      <3>. QED BY <3>2, AbsenceAssumption
    <2>. QED BY <2>3, <2>6, <2>7
  <1>4. ASSUME NEW i \in ItemIds, NEW n \in Months,
               itemMoves[<<i, n>>] # None, itemMoves[<<i, n>>].date.month = m
        PROVE  n = m /\ i \in OnAccounts /\ EntryAmount(i, m) # 0
    <2>. DEFINE item == items[i]
                effective == IF item.fixed THEN EffectiveDate(item, n) ELSE item.date
    <2>1. SyncedItemMove(Sources, i, n) # None
      BY <1>2, <1>4
    <2>2. /\ item # None /\ item.instrument \notin CardIds
          /\ AmountForMonth(item, NoCard, n) # 0
          /\ ~item.fixed => n = item.date.month
          /\ SyncedItemMove(Sources, i, n)
               = [account |-> item.instrument, amount |-> AmountForMonth(item, NoCard, n), date |-> effective]
      BY <2>1 DEF SyncedItemMove, Sources
    <2>3. effective.month = m
      BY <1>2, <1>4, <2>2
    <2>4. n = m
      BY <2>2, <2>3 DEF EffectiveDate, Clamped
    <2>5. i \in Entries /\ ~IsCredit(i)
      BY <2>2, EntriesAssumption DEF Entries, IsCredit
    <2>6. Instrument(i) = item.instrument /\ CardOf(i) = NoCard /\ i \in OnAccounts
      BY <2>2, <2>5 DEF Instrument, CardOf, OnAccounts
    <2>. QED BY <2>2, <2>4, <2>5, <2>6 DEF EntryAmount
  <1>. QED BY <1>3, <1>4

MovedIn(m) == {key \in ItemIds \X Months : itemMoves[key] # None /\ itemMoves[key].date.month = m}

LEMMA AccountsFallDue ==
  ASSUME LedgerInv, FreshInv, Fresh, NEW m \in Months, m < Horizon(today).month
  PROVE  SumFunction([key \in MovedIn(m) |-> itemMoves[key].amount])
           = SumFunctionOnSet(PaidIn(m), OnAccounts)
  <1>. DEFINE paid == PaidIn(m)
              all == {e \in OnAccounts : EntryAmount(e, m) # 0}
              to == [e \in all |-> <<e, m>>]
              T == MovedIn(m)
              g == [key \in T |-> itemMoves[key].amount]
  <1>1. /\ IsFiniteSet(OnAccounts) /\ OnAccounts \in SUBSET Entries
        /\ IsFiniteSet(all) /\ all \in SUBSET OnAccounts
    BY EntriesAre, FS_Subset DEF OnAccounts
  <1>2. \A e \in OnAccounts : paid[e] = EntryAmount(e, m) /\ paid[e] \in Int
    <2>1. m \in Int /\ m - 0 = m
      BY MonthsAreNaturals
    <2>2. \A e \in OnAccounts : EntryLag(e) = 0
      BY DEF EntryLag, OnAccounts
    <2>. QED BY <1>1, <2>1, <2>2, EntryAmountIsInteger DEF PaidIn
  <1>3. T = {to[e] : e \in all}
    <2>1. ASSUME NEW key \in T PROVE \E e \in all : key = <<e, m>>
      <3>1. PICK i \in ItemIds, n \in Months : key = <<i, n>>
        BY DEF MovedIn
      <3>2. itemMoves[<<i, n>>] # None /\ itemMoves[<<i, n>>].date.month = m
        BY <3>1 DEF MovedIn
      <3>. QED BY <3>1, <3>2, AccountItemMoves
    <2>2. ASSUME NEW e \in all PROVE <<e, m>> \in T
      <3>1. itemMoves[<<e, m>>] # None /\ itemMoves[<<e, m>>].date.month = m
        BY AccountItemMoves
      <3>2. e \in ItemIds
        <4>1. e \in Entries /\ ~IsCredit(e)
          BY <1>1, EntriesAre DEF OnAccounts
        <4>. QED BY <4>1, EntriesAre
      <3>. QED BY <3>1, <3>2 DEF MovedIn
    <2>. HIDE DEF T, all
    <2>. QED BY <2>1, <2>2
  <1>4. \A e \in all : paid[e] \in Int /\ g[to[e]] = paid[e]
    BY <1>2, <1>3, AccountItemMoves
  <1>5. \A d \in all : \A e \in all : to[d] = to[e] => d = e
    OBVIOUS
  <1>6. \A e \in OnAccounts \ all : paid[e] = 0
    BY <1>2
  <1>. HIDE DEF paid, all, to, T, g
  <1>7. SumFunctionOnSet(g, T) = SumFunctionOnSet(paid, all)
    BY <1>1, <1>3, <1>4, <1>5, SumOverImage
  <1>8. SumFunctionOnSet(paid, OnAccounts) = SumFunctionOnSet(paid, all)
    BY <1>1, <1>2, <1>6, SumWithoutZeros
  <1>9. SumFunction(g) = SumFunctionOnSet(g, T)
    BY DEF SumFunction, g
  <1>. QED BY <1>7, <1>8, <1>9 DEF g, T, paid

\* What the purchases of a card leave of a month, its credits counted off.
LeftOf(c, m) ==
    IF m - Lag(c) \in Months
    THEN Gross(Sources, c, m - Lag(c)) - CreditTotal(Sources, c, m - Lag(c)) ELSE 0

LEMMA CardFallsDue ==
  ASSUME LedgerInv, NEW c \in CardIds, NEW m \in Months
  PROVE  /\ SumFunctionOnSet(PaidIn(m), {e \in Entries : Instrument(e) = c}) = LeftOf(c, m)
         /\ LeftOf(c, m) \in Int
  <1>. DEFINE n == m - Lag(c)
              paid == PaidIn(m)
              all == {e \in Entries : Instrument(e) = c}
              bought == CardItems(Sources, c)
              posted == {k \in CreditKeys : credits[k] # None /\ credits[k].card = c}
  <1>1. /\ items \in [ItemIds -> ItemInputs \union {None}]
        /\ credits \in [CreditKeys -> CreditInputs \union {None}]
    BY DEF LedgerInv, TypeOK, SourcesOK
  <1>2. bought \in SUBSET all /\ all \ bought = posted /\ all \in SUBSET Entries
    <2>1. bought = {i \in ItemIds : items[i] # None /\ items[i].instrument = c}
      BY DEF CardItems, Sources
    <2>2. ASSUME NEW e PROVE e \in all <=> e \in bought \/ e \in posted
      BY <2>1, EntriesAssumption DEF Entries, Instrument, IsCredit
    <2>3. bought \intersect posted = {}
      BY <2>1, EntriesAssumption
    <2>. HIDE DEF all, bought, posted
    <2>4. all \in SUBSET Entries
      BY DEF all
    <2>. QED BY <2>2, <2>3, <2>4
  <1>3. IsFiniteSet(all) /\ \A e \in all : paid[e] \in Int
    BY EntriesAre, FS_Subset, PaidInIsInteger
  <1>4. \A e \in all : EntryLag(e) = Lag(c)
    BY DEF EntryLag
  <1>5. CASE n \notin Months
    <2>1. \A e \in all : paid[e] = 0
      BY <1>4, <1>5 DEF PaidIn
    <2>2. LeftOf(c, m) = 0
      BY <1>5 DEF LeftOf
    <2>. HIDE DEF all, paid
    <2>3. SumFunctionOnSet(paid, all) = SumFunctionOnSet(paid, {})
      BY <1>3, <2>1, SumWithoutZeros
    <2>. QED BY <2>2, <2>3, SumOfNothing DEF all, paid
  <1>6. CASE n \in Months
    <2>1. SourcesTyped(Sources)
      BY SourcesAreTyped
    <2>2. SumFunctionOnSet(paid, bought) = Gross(Sources, c, n) /\ Gross(Sources, c, n) \in Int
      <3>. DEFINE f == [i \in bought |-> ItemAmount(Sources, i, c, n)]
      <3>1. /\ IsFiniteSet(bought) /\ \A i \in bought : f[i] \in Int
            /\ Gross(Sources, c, n) = SumFunctionOnSet(f, bought) /\ Gross(Sources, c, n) \in Int
        <4>1. bought \in SUBSET bought
          OBVIOUS
        <4>. QED BY <1>6, <2>1, <4>1, StatementAmounts DEF Gross
      <3>2. ASSUME NEW i \in bought PROVE f[i] = paid[i]
        <4>1. i \in Entries /\ i \notin CreditKeys /\ Instrument(i) = c /\ c = items[i].instrument
          <5>1. i \in all /\ i \in ItemIds /\ items[i].instrument = c
            BY <1>2 DEF CardItems, Sources
          <5>. QED BY <5>1, EntriesAssumption
        <4>2. EntryAmount(i, n) = AmountForMonth(items[i], cards[c], n)
          BY <4>1 DEF EntryAmount, IsCredit, CardOf
        <4>. QED BY <1>4, <1>6, <4>1, <4>2 DEF PaidIn, ItemAmount, Sources
      <3>. HIDE DEF f, bought, paid
      <3>3. SumFunctionOnSet(f, bought) = SumFunctionOnSet(paid, bought)
        BY <3>1, <3>2, SumOfSame
      <3>. QED BY <3>1, <3>3
    <2>3. /\ SumFunctionOnSet(paid, posted) = 0 - CreditTotal(Sources, c, n)
          /\ CreditTotal(Sources, c, n) \in Int
      <3>. DEFINE these == CreditsOf(Sources, c, n)
                  f == [k \in these |-> credits[k].amount]
                  zero == [k \in these |-> 0]
      <3>1. these = {k \in CreditKeys : credits[k] # None /\ credits[k].card = c /\ credits[k].month = n}
        BY DEF CreditsOf, Sources
      <3>2. these \in SUBSET posted /\ IsFiniteSet(posted) /\ IsFiniteSet(these)
        BY <3>1, RowsAssumption, FS_Subset
      <3>3. ASSUME NEW k \in posted
            PROVE  /\ paid[k] \in Int
                   /\ IF k \in these THEN paid[k] = 0 - credits[k].amount /\ credits[k].amount \in Nat
                      ELSE paid[k] = 0
        <4>1. k \in all /\ k \in CreditKeys /\ credits[k] \in Credit
          BY <1>1, <1>2, InputAssumption
        <4>2. paid[k] = EntryAmount(k, n)
          BY <1>4, <1>6, <4>1 DEF PaidIn
        <4>3. EntryAmount(k, n) = IF credits[k].month = n THEN -credits[k].amount ELSE 0
          BY <4>1 DEF EntryAmount, IsCredit
        <4>4. credits[k].amount \in Nat
          BY <4>1 DEF Credit
        <4>. QED BY <3>1, <4>1, <4>2, <4>3, <4>4
      <3>4. /\ \A k \in these : f[k] \in Nat /\ f[k] \in Int /\ paid[k] \in Int /\ zero[k] = paid[k] + f[k]
            /\ \A k \in posted : paid[k] \in Int
            /\ \A k \in posted \ these : paid[k] = 0
            /\ \A k \in these : zero[k] = 0 /\ zero[k] \in Int
        BY <3>2, <3>3
      <3>5. CreditTotal(Sources, c, n) = SumFunctionOnSet(f, these)
        BY DEF CreditTotal, SumCredits, SumFunction, Sources
      <3>. HIDE DEF these, posted, f, zero, paid
      <3>6. SumFunctionOnSet(zero, these) = SumFunctionOnSet(paid, these) + SumFunctionOnSet(f, these)
        BY <3>2, <3>4, SumOfSums
      <3>7. SumFunctionOnSet(zero, these) = 0
        <4>1. SumFunctionOnSet(zero, these) = SumFunctionOnSet(zero, {})
          BY <3>2, <3>4, SumWithoutZeros
        <4>. QED BY <4>1, SumOfNothing
      <3>8. SumFunctionOnSet(paid, posted) = SumFunctionOnSet(paid, these)
        BY <3>2, <3>4, SumWithoutZeros
      <3>9. SumFunctionOnSet(f, these) \in Int /\ SumFunctionOnSet(paid, these) \in Int
        BY <3>2, <3>4, SumIsInt
      <3>. QED BY <3>5, <3>6, <3>7, <3>8, <3>9
    <2>4. LeftOf(c, m) = Gross(Sources, c, n) - CreditTotal(Sources, c, n)
      BY <1>6 DEF LeftOf
    <2>. HIDE DEF all, bought, posted, paid, n
    <2>5. SumFunctionOnSet(paid, all) = SumFunctionOnSet(paid, bought) + SumFunctionOnSet(paid, posted)
      BY <1>2, <1>3, SumOfParts
    <2>6. SumFunctionOnSet(paid, all) = LeftOf(c, m) /\ LeftOf(c, m) \in Int
      BY <2>2, <2>3, <2>4, <2>5
    <2>. QED BY <2>6 DEF all, paid
  <1>. QED BY <1>5, <1>6

DueIn(m) == {key \in CardIds \X InMonths(m - 1, m) : DueDate(cards[key[1]], key[2]).month = m}

LEMMA DueInIs ==
  ASSUME NEW m \in Months
  PROVE  DueIn(m) = {<<c, m - Lag(c)>> : c \in {c \in CardIds : m - Lag(c) \in Months}}
  <1>1. m \in Int /\ \A n \in Months : n \in Int
    BY MonthsAreNaturals
  <1>2. ASSUME NEW key \in DueIn(m)
        PROVE  key[1] \in CardIds /\ m - Lag(key[1]) \in Months /\ key = <<key[1], m - Lag(key[1])>>
    <2>1. /\ key = <<key[1], key[2]>> /\ key[1] \in CardIds /\ key[2] \in Months
          /\ DueDate(cards[key[1]], key[2]).month = m
      BY <1>2 DEF DueIn, InMonths
    <2>2. m = key[2] + Lag(key[1]) /\ key[2] \in Int /\ Lag(key[1]) \in Int
      BY <1>1, <2>1, LagIs
    <2>3. key[2] = m - Lag(key[1])
      BY <2>2
    <2>. QED BY <2>1, <2>3
  <1>3. ASSUME NEW c \in CardIds, m - Lag(c) \in Months PROVE <<c, m - Lag(c)>> \in DueIn(m)
    <2>. DEFINE n == m - Lag(c)
    <2>1. n \in Months /\ n \in Int /\ Lag(c) \in {0, 1}
      BY <1>1, <1>3, LagIs
    <2>2. n + Lag(c) = m /\ m - 1 =< n /\ n =< m
      BY <1>1, <2>1
    <2>. HIDE DEF n
    <2>3. DueDate(cards[c], n).month = m
      BY <2>1, <2>2, LagIs
    <2>4. n \in InMonths(m - 1, m)
      BY <2>1, <2>2 DEF InMonths
    <2>5. <<c, n>> \in DueIn(m)
      BY <2>3, <2>4 DEF DueIn
    <2>. QED BY <2>5 DEF n
  <1>. QED BY <1>2, <1>3

\* The invoices due in a month ask for what the purchases leave of it.
LEMMA InvoicesFallDue ==
  ASSUME LedgerInv, FreshInv, Fresh, NEW m \in Months, m < Horizon(today).month
  PROVE  SumFunction([key \in {key \in DueIn(m) : invoices[key] # None} |-> invoices[key].amount])
           - SumFunction([key \in DueIn(m) |-> CreditBalance(key)])
           = SumFunctionOnSet([c \in CardIds |-> LeftOf(c, m)], CardIds)
  <1>. DEFINE due == DueIn(m)
              issued == {key \in due : invoices[key] # None}
              some == {c \in CardIds : m - Lag(c) \in Months}
              to == [c \in some |-> <<c, m - Lag(c)>>]
              asked == [key \in issued |-> invoices[key].amount]
              x == [key \in due |-> IF invoices[key] = None THEN 0 ELSE invoices[key].amount]
              y == [key \in due |-> CreditBalance(key)]
              z == [key \in due |-> Gross(Sources, key[1], key[2]) - CreditTotal(Sources, key[1], key[2])]
              left == [c \in CardIds |-> LeftOf(c, m)]
  <1>1. due = {to[c] : c \in some}
    BY DueInIs
  <1>2. IsFiniteSet(some) /\ some \in SUBSET CardIds /\ IsFiniteSet(CardIds)
    BY RowsAssumption, FS_Subset
  <1>3. \A c \in some : \A d \in some : to[c] = to[d] => c = d
    OBVIOUS
  <1>4. \A c \in some : /\ LeftOf(c, m) \in Int /\ left[c] = LeftOf(c, m)
                        /\ z[to[c]] = left[c]
    BY <1>1, CardFallsDue DEF LeftOf
  <1>5. \A c \in CardIds \ some : left[c] = 0
    BY DEF LeftOf
  <1>6. \A c \in CardIds : left[c] \in Int
    BY CardFallsDue
  <1>7. ASSUME NEW key \in due
        PROVE  /\ x[key] \in Int /\ y[key] \in Int /\ z[key] \in Int /\ x[key] = z[key] + y[key]
               /\ key \in issued => asked[key] = x[key]
               /\ key \notin issued => x[key] = 0
    <2>. DEFINE gross == Gross(Sources, key[1], key[2])
                credited == CreditTotal(Sources, key[1], key[2])
    <2>1. key \in InvoiceKeys /\ key[1] \in CardIds /\ key[2] \in Months /\ key[2] =< m
      BY DEF DueIn, InMonths, InvoiceKeys
    <2>2. gross \in Int /\ credited \in Int /\ SourcesTyped(Sources)
      <3>1. SourcesTyped(Sources)
        BY SourcesAreTyped
      <3>2. credited \in Nat
        BY <2>1, <3>1, CreditSums
      <3>. QED BY <2>1, <3>1, <3>2, StatementAmounts
    <2>3. key[2] =< Horizon(today).month
      <3>1. key[2] \in Int /\ m \in Int /\ Horizon(today).month \in Int
        <4>1. \A n \in Months : n \in Int
          BY MonthsAreNaturals
        <4>2. Horizon(today).month \in Int
          BY HorizonIsDate DEF LedgerInv, TypeOK, SourcesOK, DaysLived
        <4>. QED BY <2>1, <4>1, <4>2
      <3>. QED BY <2>1, <3>1
    <2>4. /\ invoices[key] # None => invoices[key].amount = Positive(gross - credited)
          /\ invoices[key] = None => Positive(gross - credited) = 0
      BY <2>1, <2>3, InvoiceAsksForTheRest
    <2>5. x[key] = Positive(gross - credited) /\ y[key] = Positive(credited - gross)
          /\ z[key] = gross - credited
      BY <2>4 DEF CreditBalance
    <2>6. Positive(gross - credited) = gross - credited + Positive(credited - gross)
      <3>. HIDE DEF gross, credited
      <3>. QED BY <2>2 DEF Positive
    <2>7. Positive(gross - credited) \in Int /\ Positive(credited - gross) \in Int
      BY PositiveIsNat
    <2>8. /\ key \in issued => asked[key] = x[key]
          /\ key \notin issued => x[key] = 0
      OBVIOUS
    <2>. HIDE DEF x, y, z, gross, credited, issued, asked
    <2>. QED BY <2>2, <2>5, <2>6, <2>7, <2>8
  <1>8. SumFunction(asked) = SumFunctionOnSet(asked, issued) /\ SumFunction(y) = SumFunctionOnSet(y, due)
        /\ issued \in SUBSET due
    BY DEF SumFunction
  <1>. HIDE DEF due, issued, some, to, asked, x, y, z, left
  <1>9. IsFiniteSet(due) /\ SumFunctionOnSet(z, due) = SumFunctionOnSet(left, some)
    <2>1. \A c \in some : left[c] \in Int /\ z[to[c]] = left[c]
      BY <1>4
    <2>. QED BY <1>1, <1>2, <1>3, <2>1, SumOverImage
  <1>10. SumFunctionOnSet(left, CardIds) = SumFunctionOnSet(left, some)
    BY <1>2, <1>5, <1>6, SumWithoutZeros
  <1>11. SumFunctionOnSet(x, due) = SumFunctionOnSet(z, due) + SumFunctionOnSet(y, due)
    BY <1>7, <1>9, SumOfSums
  <1>12. SumFunctionOnSet(asked, issued) = SumFunctionOnSet(x, due)
    <2>1. \A key \in issued : asked[key] = x[key] /\ x[key] \in Int
      BY <1>7, <1>8
    <2>. QED BY <1>7, <1>8, <1>9, <2>1, SumOfSome
  <1>13. SumFunctionOnSet(y, due) \in Int /\ SumFunctionOnSet(z, due) \in Int
    BY <1>7, <1>9, SumIsInt
  <1>14. SumFunction(asked) - SumFunction(y) = SumFunctionOnSet(left, CardIds)
    BY <1>8, <1>9, <1>10, <1>11, <1>12, <1>13
  <1>. QED BY <1>14 DEF asked, issued, y, due, left

\* What has to be paid in a month, entry by entry, is what falls due in it.
LEMMA MonthFallsDue ==
  ASSUME LedgerInv, FreshInv, Fresh, NEW m \in Months, m < Horizon(today).month
  PROVE  SumFunctionOnSet(PaidIn(m), Entries) = FallsDue(m)
  <1>. DEFINE paid == PaidIn(m)
              onCards == Entries \ OnAccounts
              class == [e \in onCards |-> Instrument(e)]
              left == [c \in CardIds |-> LeftOf(c, m)]
              sums == [c \in CardIds |-> SumFunctionOnSet(paid, {e \in onCards : class[e] = c})]
  <1>1. /\ IsFiniteSet(Entries) /\ IsFiniteSet(onCards) /\ IsFiniteSet(CardIds)
        /\ OnAccounts \in SUBSET Entries /\ onCards \in SUBSET Entries
    BY EntriesAre, RowsAssumption, FS_Subset DEF OnAccounts
  <1>2. \A e \in Entries : paid[e] \in Int
    BY PaidInIsInteger
  <1>3. \A e \in onCards : paid[e] \in Int /\ class[e] \in CardIds
    BY <1>2 DEF OnAccounts
  <1>4. sums = left
    <2>1. ASSUME NEW c \in CardIds
          PROVE  SumFunctionOnSet(paid, {e \in onCards : class[e] = c}) = LeftOf(c, m)
      <3>1. {e \in onCards : class[e] = c} = {e \in Entries : Instrument(e) = c}
        BY DEF OnAccounts
      <3>. QED BY <3>1, CardFallsDue
    <2>. QED BY <2>1
  <1>5. FallsDue(m)
          = SumFunction([key \in {key \in DueIn(m) : invoices[key] # None} |-> invoices[key].amount])
              - SumFunction([key \in DueIn(m) |-> CreditBalance(key)])
              + SumFunction([key \in MovedIn(m) |-> itemMoves[key].amount])
    BY DEF FallsDue, DueIn, MovedIn
  <1>6. FallsDue(m) = SumFunctionOnSet(left, CardIds) + SumFunctionOnSet(paid, OnAccounts)
    BY <1>5, InvoicesFallDue, AccountsFallDue
  <1>. HIDE DEF paid, onCards, class, left
  <1>7. SumFunctionOnSet(paid, onCards) = SumFunctionOnSet(sums, CardIds)
    BY <1>1, <1>3, SumByClass
  <1>8. SumFunctionOnSet(paid, Entries)
          = SumFunctionOnSet(paid, OnAccounts) + SumFunctionOnSet(paid, Entries \ OnAccounts)
    BY <1>1, <1>2, SumOfParts
  <1>9. SumFunctionOnSet(paid, onCards) \in Int /\ SumFunctionOnSet(paid, OnAccounts) \in Int
    BY <1>1, <1>2, SumIsInt
  <1>. HIDE DEF sums
  <1>10. SumFunctionOnSet(paid, Entries) = FallsDue(m)
    BY <1>4, <1>6, <1>7, <1>8, <1>9 DEF onCards
  <1>. QED BY <1>10 DEF paid

LEMMA SnapshotsAreTrue == LedgerInv /\ FreshInv => SnapshotsAgree
  <1>. SUFFICES ASSUME LedgerInv, FreshInv, Fresh,
                       NEW start \in InMonths(FirstDay.month, today.month)
                PROVE  LET paid == CommitmentSnapshot(start, "payment_date")
                           charged == CommitmentSnapshot(start, "reference_month")
                       IN  /\ \A m \in Window(start) :
                                 /\ SnapshotTotal(charged, m, "reference_month") = FullMonth(m)
                                 /\ m < Horizon(today).month =>
                                       SnapshotTotal(paid, m, "payment_date") = FallsDue(m)
                           /\ \A rows \in {paid, charged} :
                                 Cardinality({row.key : row \in rows}) = Cardinality(rows)
    BY DEF SnapshotsAgree
  <1>1. ASSUME NEW m \in Window(start) PROVE m \in Months
    <2>1. today \in Date /\ NotAfter(today, LastDay) /\ LastDay \in Date
      BY DaysAssumption DEF LedgerInv, TypeOK, SourcesOK, DaysLived
    <2>2. start \in Nat /\ today.month \in Nat /\ LastDay.month \in Nat /\ SnapshotMonths \in Nat
          /\ start =< today.month
      BY <2>1, DateFields, MonthsAreNaturals, SnapshotAssumption DEF InMonths
    <2>3. today.month =< LastDay.month
      BY <2>1, NotAfterIs
    <2>4. m \in Nat /\ m =< LastDay.month + SnapshotMonths - 1
      BY <2>2, <2>3 DEF Window
    <2>. QED BY <2>4, SnapshotAssumption, MonthsAreNaturals
  <1>2. start \in Int
    BY MonthsAreNaturals DEF InMonths
  <1>3. ASSUME NEW m \in Window(start)
        PROVE  /\ SnapshotTotal(CommitmentSnapshot(start, "reference_month"), m, "reference_month")
                    = FullMonth(m)
               /\ m < Horizon(today).month =>
                    SnapshotTotal(CommitmentSnapshot(start, "payment_date"), m, "payment_date") = FallsDue(m)
    BY <1>1, <1>2, ChargesAgree, PaymentsAgree, MonthFallsDue
  <1>4. \A rows \in {CommitmentSnapshot(start, "payment_date"), CommitmentSnapshot(start, "reference_month")} :
           Cardinality({row.key : row \in rows}) = Cardinality(rows)
    BY KeysAreApart
  <1>. QED BY <1>3, <1>4

\* On a reconciled day the pages agree: the divisions of a month add up to it
\* (dashboard/details.py), a budget over everything is the dashboard's month so
\* far, the shortage warning walks to the projected balance
\* (planning/services.py), and a scenario starts from the commitments of the
\* ledger, each under a key of its own (sandbox/planning.py).
THEOREM FiguresStayTrue == Spec => []FiguresAgree
  <1>1. LedgerInv => ReportsAgree
    BY ReportsAreTrue
  <1>2. LedgerInv /\ FreshInv => FiguresAgree
    BY <1>1, SnapshotsAreTrue DEF FiguresAgree
  <1>. QED BY <1>2, FreshInvariant, PTL
=============================================================================
