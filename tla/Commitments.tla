----------------------------- MODULE Commitments -----------------------------
(***************************************************************************)
(* The commitment snapshot of a sandbox scenario (sandbox/planning.py):    *)
(* every economic source expanded once over the months ahead, by the month *)
(* it is paid in or by the month it is charged to.  Amounts are in the     *)
(* ledger's one currency; labels and the capacity of a snapshot are left   *)
(* out, and so are the purchases of points and the IOF of redemptions.     *)
(***************************************************************************)
EXTENDS Reports

CONSTANT SnapshotMonths   \* 12 in the code

\* The calendar reaches the last month of the last snapshot.
ASSUME SnapshotAssumption == /\ SnapshotMonths \in Nat \ {0}
                             /\ LastDay.month + SnapshotMonths - 1 \in Months

Bases == {"payment_date", "reference_month"}
Window(start) == start .. (start + SnapshotMonths - 1)

\* Mutant of References: the statement before the first month is left out.
ReferencesFromStart(start) == Months \intersect Window(start)
\* A statement that is due in the first month may be that of the month before.
References(start) == Months \intersect ({start - 1} \union Window(start))

\* due: the due day of the statement, of the occurrence, or the date itself.
DueOf(e, m) ==
    IF Instrument(e) \in CardIds THEN DueDate(CardOf(e), m)
    ELSE IF items[e].fixed THEN Clamped(m, items[e].date.day)
    ELSE items[e].date

\* identity: which occurrence of its source a row is.
Identity(e, m) ==
    IF IsCredit(e) THEN <<"credit">>
    ELSE IF IsPlan(items[e]) THEN <<"installment", m - BilledMonth(items[e], CardOf(e)) + 1>>
    ELSE IF items[e].fixed THEN <<"recurring", m - BillingOffset(items[e], CardOf(e))>>
    ELSE <<"once">>

Row(e, m) == [key |-> <<e, Identity(e, m)>>, amount |-> EntryAmount(e, m),
              payment_date |-> DueOf(e, m).month, reference_month |-> m]

\* A credit has one reference, which need not be near the first month.
RowsOf(e, start) ==
    {Row(e, m) : m \in {n \in IF IsCredit(e) THEN Months ELSE References(start) :
                          EntryAmount(e, n) # 0}}

CommitmentSnapshot(start, basis) ==
    {row \in UNION {RowsOf(e, start) : e \in Entries} : row[basis] \in Window(start)}

SnapshotTotal(rows, month, basis) ==
    SumFunction([row \in {row \in rows : row[basis] = month} |-> row.amount])

-----------------------------------------------------------------------------
(* Properties                                                              *)

\* What the ledger expects to be paid in a month: the invoices that fall due,
\* less the credits they could not use up, and the movements of the accounts.
FallsDue(m) ==
    LET due == {key \in CardIds \X InMonths(m - 1, m) : DueDate(cards[key[1]], key[2]).month = m}
        moved == {key \in ItemIds \X Months : itemMoves[key] # None /\ itemMoves[key].date.month = m}
    IN  SumFunction([key \in {key \in due : invoices[key] # None} |-> invoices[key].amount])
          - SumFunction([key \in due |-> CreditBalance(key)])
          + SumFunction([key \in moved |-> itemMoves[key].amount])

\* A scenario starts from the same commitments as the ledger, although it
\* expands them by itself and adds no invoice: by payment date each month holds
\* what the ledger expects to fall due, by reference month what the dashboard
\* charges to it, and no two rows share the key that keeps an exclusion or an
\* override with its commitment when the sources are read again.
SnapshotsAgree ==
    Fresh => \A start \in InMonths(FirstDay.month, today.month) :
        LET paid == CommitmentSnapshot(start, "payment_date")
            charged == CommitmentSnapshot(start, "reference_month")
        IN  /\ \A m \in Window(start) :
                  /\ SnapshotTotal(charged, m, "reference_month") = FullMonth(m)
                  /\ m < Horizon(today).month => SnapshotTotal(paid, m, "payment_date") = FallsDue(m)
            /\ \A rows \in {paid, charged} : Cardinality({row.key : row \in rows}) = Cardinality(rows)

\* The figures of different pages agree.
FiguresAgree == ReportsAgree /\ SnapshotsAgree

\* What has been settled stands, and settling it moves no forecast.
PaymentsOnlySettle == HistoryStands /\ ForecastKeepsItsClose
=============================================================================
