-------------------------- MODULE OpenFinancePilot --------------------------
(***************************************************************************)
(* The Open Finance pilot (ingestion/open_finance and the management       *)
(* command pluggy_invoice_pilot): an operator's run takes the lock of its  *)
(* key, tells the private report again when it is less than a day old, and *)
(* otherwise reads the provider's paged lists and replaces the report.     *)
(*                                                                         *)
(* Every request, lock and file operation is a step; the provider's lists  *)
(* and the clock may move between any two.  Simplifications:               *)
(*  - One mode and item, therefore one key.  The cards of an item have one *)
(*    list of bills and one of transactions, which is that of card `Own`.  *)
(*  - A malformed answer, an HTTP error and a timeout are one failure,     *)
(*    which the total time of 60 seconds makes possible at any request.    *)
(*  - The endpoint allowlist, the shape of values and the limit of records *)
(*    are left out, and so are hand-made reports: the stored one was saved *)
(*    by the command.                                                      *)
(***************************************************************************)
EXTENDS Integers, Sequences, FiniteSets, SequencesExt

CONSTANTS Runs,         \* runs of the command
          Wants,        \* run -> [card, bill, moves]: its options
          Own, Absent,
          ClosesOn,     \* bill -> day of its closing, of its own, or Absent
          BillOf,       \* transaction -> its bill or Absent
          FirstLists, LaterLists,  \* what the provider may list
          PageSize, MaxPages, MaxRequests,
          PerDay,       \* clock ticks in a day
          Expiry,       \* the instant the authorization ends
          LastTick      \* a bound of the model

\* What may be listed, and what is taken for granted of the settings.
Listable == UNION {ToSet(lists.cards) \union ToSet(lists.bills) \union ToSet(lists.moves) :
                   lists \in FirstLists \union LaterLists}

IsSetUp ==
    /\ FirstLists \union LaterLists \subseteq
          [cards : Seq(Listable), bills : Seq(Listable), moves : Seq(Listable)]
    /\ Absent \notin Runs
    /\ PageSize \in Nat \ {0} /\ PerDay \in Nat \ {0} /\ Expiry \in Nat

ASSUME SettingsAssumption == IsSetUp

VARIABLES
    clock,
    remote,   \* [cards, bills, moves]: what the provider lists
    at,       \* run -> where the command is
    run,      \* run -> what it knows
    holder,   \* who holds the lock of the key
    report,   \* the stored report or Absent
    leftovers \* temporary files that no one will remove

pilotVars == <<clock, remote, at, run, holder, report, leftovers>>

NothingKnown == [asked |-> 0, requests |-> 0, rows |-> <<>>, page |-> 1, total |-> Absent,
                 card |-> Absent, bill |-> Absent, moves |-> <<>>, truth |-> Absent,
                 listed |-> Absent, made |-> Absent]

PilotInit ==
    /\ clock = 0 /\ remote \in FirstLists
    /\ at = [r \in Runs |-> "started"] /\ run = [r \in Runs |-> NothingKnown]
    /\ holder = Absent /\ report = Absent /\ leftovers = {}
-----------------------------------------------------------------------------
(* What a report is and when it is told again                              *)

Day(instant) == instant \div PerDay

\* timezone.now() plus a day.
IsFresh(rep, now) == rep.retrieved <= now /\ now < rep.retrieved + PerDay

\* report.reusable: made for the same selection, recent, still authorized.
Reusable(rep, want, now) ==
    /\ rep # Absent
    /\ want = rep.selection
    /\ want.card # Absent => rep.card = want.card
    /\ want.bill # Absent => rep.bill = want.bill
    /\ IsFresh(rep, now) /\ now < rep.expires

Newest(closed) == IF closed = {} THEN Absent
                  ELSE CHOOSE b \in closed : \A c \in closed : ClosesOn[c] <= ClosesOn[b]

\* report.closed_bills; a bill whose closing day is unknown is not published.
Closed(bills, today) == {b \in bills : ClosesOn[b] # Absent /\ ClosesOn[b] <= today}

\* The bill the command picks: the one asked for, else the newest closed one.
Picked(bills, want, today) ==
    LET closed == Closed(bills, today)
    IN  IF want.bill = Absent THEN Newest(closed)
        ELSE IF want.bill \in closed THEN want.bill ELSE Absent

\* build_report keeps the transactions the provider linked to the bill.
Linked(moves, bill) == {m \in moves : BillOf[m] = bill}
-----------------------------------------------------------------------------
(* The run of the command                                                  *)

Goes(r, from, to) == at[r] = from /\ at' = [at EXCEPT ![r] = to]
Learns(r, knows) == run' = [run EXCEPT ![r] = knows]
ForgetsAll(r) == Learns(r, NothingKnown)

\* The PilotError that ends a run leaves through the `with` of the lock, and of
\* the temporary file when there is one.
Stops(r) == /\ at' = [at EXCEPT ![r] = "failed"]
            /\ holder' = IF holder = r THEN Absent ELSE holder
            /\ ForgetsAll(r)
            /\ UNCHANGED <<clock, remote, report, leftovers>>

\* Command.run reads the clock before it asks for the lock.
Begin(r) == /\ Goes(r, "started", "begun") /\ Learns(r, [run[r] EXCEPT !.asked = clock])
            /\ UNCHANGED <<clock, remote, holder, report, leftovers>>

MayLockAlways == TRUE
MayLock == holder = Absent

\* PilotStore.lock does not wait.
Lock(r) == /\ at[r] = "begun"
           /\ \/ /\ MayLock /\ holder' = r /\ Goes(r, "begun", "locked")
                 /\ UNCHANGED <<clock, remote, run, report, leftovers>>
              \/ ~MayLock /\ Stops(r)

Load(r) ==
    /\ at[r] = "locked"
    /\ IF Reusable(report, Wants[r], run[r].asked)
       THEN at' = [at EXCEPT ![r] = "told"] /\ holder' = Absent /\ ForgetsAll(r)
       ELSE at' = [at EXCEPT ![r] = "authenticate"] /\ UNCHANGED <<holder, run>>
    /\ UNCHANGED <<clock, remote, report, leftovers>>

Requesting == {"authenticate", "item", "cards", "bills", "moves"}

\* The operator cancels a prompt, or a request fails or finds no time left.
RequestFails(r) == at[r] \in Requesting /\ Stops(r)

\* PluggyClient._request counts before it sends.
MayRequest(r) == run[r].requests < MaxRequests
Asked(r) == [run[r] EXCEPT !.requests = @ + 1]
RefusesRequest(r) == at[r] \in Requesting /\ ~MayRequest(r) /\ Stops(r)

Authenticate(r) == /\ Goes(r, "authenticate", "item") /\ MayRequest(r)
                   /\ Learns(r, Asked(r))
                   /\ UNCHANGED <<clock, remote, holder, report, leftovers>>

\* check_item: the authorization has an end and it lies ahead.
StillAuthorized(now) == now < Expiry

ReadItem(r) == /\ at[r] = "item" /\ MayRequest(r)
               /\ IF StillAuthorized(clock)
                  THEN /\ Goes(r, "item", "cards") /\ Learns(r, Asked(r))
                       /\ UNCHANGED <<clock, remote, holder, report, leftovers>>
                  ELSE Stops(r)

\* A list begins to be read.  The ghost `truth` is the set of records that the
\* provider lists when the first page is read.
Begun(knows) == [knows EXCEPT !.rows = <<>>, !.page = 1, !.total = Absent, !.truth = Absent]
-----------------------------------------------------------------------------
(* The paged lists                                                         *)

PagesOf(list) == (Len(list) + PageSize - 1) \div PageSize
Page(list, n) == SubSeq(list, (n - 1) * PageSize + 1,
                        IF n * PageSize < Len(list) THEN n * PageSize ELSE Len(list))

\* Mutant of AreNew: only the page itself is looked at.
AreNewOnPage(rows, heard) == IsInjective(rows)

\* _rows: no record is listed twice, on a page or on two.
AreNew(rows, heard) == IsInjective(heard \o rows)

\* _pages: the size told with the first page is that of every page.
SameList(total, first) == first = Absent \/ total = first

IsComplete(rows, total) == Len(rows) = total

\* The truth is noted with the first page and forgotten once it has changed.
Noting(knows, list) == IF knows.page = 1 THEN [knows EXCEPT !.truth = ToSet(list)] ELSE knows

\* One page of the accounts or the bills: _pages raises, goes on or returns.
Paged(knows, list) ==
    LET rows == Page(list, knows.page)  heard == knows.rows \o rows
        total == Len(list)              pages == PagesOf(list)
        with == [Noting(knows, list) EXCEPT !.rows = heard, !.page = @ + 1, !.total = total]
    IN  [knows |-> with,
         end |-> IF \/ pages > MaxPages \/ ~SameList(total, knows.total)
                    \/ ~AreNew(rows, knows.rows) \/ Len(heard) > total
                    \/ knows.page < pages /\ rows = <<>>
                    \/ knows.page >= pages /\ ~IsComplete(heard, total)
                 THEN "refused" ELSE IF knows.page < pages THEN "more" ELSE "whole"]

Continues(r, knows, to) == /\ at' = [at EXCEPT ![r] = to] /\ Learns(r, knows)
                           /\ UNCHANGED <<clock, remote, holder, report, leftovers>>

GoesOn(r, got) == \/ got.end = "refused" /\ Stops(r)
                  \/ got.end = "more" /\ Continues(r, got.knows, at[r])

\* One card is taken by itself, several only by their name.
ReadCards(r) ==
    LET got == Paged(Asked(r), remote.cards)
        listed == ToSet(got.knows.rows)  want == Wants[r].card
        card == IF want # Absent THEN want
                ELSE IF Cardinality(listed) = 1 THEN CHOOSE c \in listed : TRUE ELSE Absent
    IN  /\ at[r] = "cards" /\ MayRequest(r)
        /\ \/ GoesOn(r, got)
           \/ /\ got.end = "whole" /\ card \in listed
              /\ Continues(r, Begun([got.knows EXCEPT !.card = card]), "bills")
           \/ got.end = "whole" /\ card \notin listed /\ Stops(r)

ReadBills(r) ==
    LET got == Paged(Asked(r), IF run[r].card = Own THEN remote.bills ELSE <<>>)
        bill == Picked(ToSet(got.knows.rows), Wants[r], Day(got.knows.asked))
        next == [got.knows EXCEPT !.bill = bill, !.listed = got.knows.truth]
    IN  /\ at[r] = "bills" /\ MayRequest(r)
        /\ \/ GoesOn(r, got)
           \/ /\ got.end = "whole" /\ bill # Absent
              /\ IF Wants[r].moves THEN Continues(r, Begun(next), "moves")
                 ELSE Continues(r, next, "observed")
           \/ got.end = "whole" /\ bill = Absent /\ Stops(r)

\* The provider goes on after the record of the cursor, wherever that is by now,
\* or starts over.
Resumed(list, rows) ==
    IF rows = <<>> \/ Last(rows) \notin ToSet(list) THEN {1}
    ELSE {1, SelectInSeq(list, LAMBDA m : m = Last(rows)) + 1}

\* transactions: a cursor is the last record read, and _rows refuses one that was
\* read before.
ReadMoves(r) ==
    LET list == remote.moves  heard == run[r].rows
    IN  /\ at[r] = "moves" /\ MayRequest(r)
        /\ \E first \in Resumed(list, heard) :
              LET last == IF first + PageSize - 1 < Len(list) THEN first + PageSize - 1
                          ELSE Len(list)
                  rows == SubSeq(list, first, last)
                  knows == [Noting(Asked(r), list) EXCEPT !.rows = @ \o rows, !.page = @ + 1]
              IN  IF \/ ~AreNew(rows, heard)
                     \/ last < Len(list) /\ run[r].page >= MaxPages
                  THEN Stops(r)
                  ELSE IF last < Len(list) THEN Continues(r, knows, "moves")
                  ELSE Continues(r, [knows EXCEPT !.moves = knows.rows], "observed")
-----------------------------------------------------------------------------
(* The report                                                              *)

\* The item is checked again, with the clock of the end, and the report built.
BuildReport(r) ==
    /\ at[r] = "observed"
    /\ IF StillAuthorized(clock)
       THEN /\ Continues(r, [NothingKnown EXCEPT !.asked = run[r].asked, !.made =
                  [selection |-> Wants[r], retrieved |-> clock, cutoff |-> Day(run[r].asked),
                   expires |-> Expiry, card |-> run[r].card, bill |-> run[r].bill,
                   linked |-> Linked(ToSet(run[r].moves), run[r].bill),
                   bills |-> run[r].listed, moves |-> run[r].truth]], "built")
       ELSE Stops(r)

\* PilotStore.save: a temporary file is written and synced, and takes the
\* report's name; the finally removes it when that failed.  The directory may
\* fail to be synced afterwards, which ends a run whose report stands.
WriteTemporary(r) == /\ Goes(r, "built", "written")
                     /\ UNCHANGED <<clock, remote, run, holder, report, leftovers>>

Replace(r) == /\ Goes(r, "written", "saved") /\ report' = run[r].made
              /\ UNCHANGED <<clock, remote, run, holder, leftovers>>

StorageFails(r) == at[r] \in {"built", "written", "saved"} /\ Stops(r)

\* The lock is released once the report stands and was told.
Unlock(r) == /\ Goes(r, "saved", "done") /\ holder' = Absent /\ ForgetsAll(r)
             /\ UNCHANGED <<clock, remote, report, leftovers>>

\* The process dies: the system drops its lock and keeps its files.
Dies(r) == /\ at[r] \notin {"started", "told", "done", "failed"}
           /\ at' = [at EXCEPT ![r] = "failed"]
           /\ holder' = IF holder = r THEN Absent ELSE holder
           /\ ForgetsAll(r)
           /\ leftovers' = IF at[r] = "written" THEN leftovers \union {r} ELSE leftovers
           /\ UNCHANGED <<clock, remote, report>>
-----------------------------------------------------------------------------
(* The world                                                               *)

Tick == /\ clock < LastTick /\ clock' = clock + 1
        /\ UNCHANGED <<remote, at, run, holder, report, leftovers>>

\* The ghost of a read that the change could mislead is forgotten: other records
\* in a paged list, another order too in one that is read by cursors.
Misled(r, lists) ==
    \/ at[r] = "cards" /\ ToSet(lists.cards) # run[r].truth
    \/ at[r] = "bills" /\ ToSet(lists.bills) # run[r].truth
    \/ at[r] = "moves" /\ lists.moves # remote.moves

Relist == \E lists \in LaterLists :
    /\ remote \in FirstLists /\ remote # lists /\ remote' = lists
    /\ run' = [r \in Runs |-> IF Misled(r, lists) THEN [run[r] EXCEPT !.truth = Absent]
                                      ELSE run[r]]
    /\ UNCHANGED <<clock, at, holder, report, leftovers>>

RunStep(r) == \/ Begin(r) \/ Lock(r) \/ Load(r) \/ RequestFails(r) \/ RefusesRequest(r)
              \/ Authenticate(r) \/ ReadItem(r) \/ ReadCards(r) \/ ReadBills(r) \/ ReadMoves(r)
              \/ BuildReport(r) \/ WriteTemporary(r) \/ Replace(r) \/ StorageFails(r)
              \/ Unlock(r) \/ Dies(r)

PilotNext == Tick \/ Relist \/ \E r \in Runs : RunStep(r)

PilotSpec == PilotInit /\ [][PilotNext]_pilotVars
-----------------------------------------------------------------------------
(* Properties                                                              *)

Reads(r) == at[r] \in Requesting \union {"observed", "built", "written"}

\* The provider is read by one run at a time, and never while a report stands
\* that would have answered that run when it was started: what a run found
\* missing under the lock cannot appear beside it.
ProviderIsAskedOnce ==
    \A r \in Runs : Reads(r) =>
        /\ \A q \in Runs \ {r} : ~Reads(q)
        /\ ~Reusable(report, Wants[r], run[r].asked)

\* A report says what the provider listed.  Where the bills stayed the same ones
\* while their pages were read, in whatever order, none was missed, and the bill
\* is the one that the whole list gives; the transactions, read by cursors, are
\* all that are linked to it unless their list changed meanwhile.  The report
\* was made while the authorization stood.
ReportsAreWhole ==
    report # Absent =>
        /\ report.retrieved < report.expires
        /\ report.bills # Absent =>
              report.bill = Picked(report.bills, report.selection, report.cutoff)
        /\ report.selection.moves /\ report.moves # Absent =>
              report.linked = Linked(report.moves, report.bill)

\* What a step saves is whole, and gives way to a later report only; a failure
\* or a crash leaves the one there was.
ReportsStandWhole ==
    [][report' # report =>
          /\ ReportsAreWhole'
          /\ report # Absent => report' # Absent /\ report'.retrieved >= report.retrieved]_pilotVars
=============================================================================
