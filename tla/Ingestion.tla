----------------------------- MODULE Ingestion ------------------------------
(***************************************************************************)
(* Importing the statement of a bank account (ingestion/services.py): a    *)
(* file is staged, its columns are mapped, each entry is given a decision, *)
(* the whole is confirmed from a page that showed it, and may be undone.   *)
(* Each operation is one database transaction; what happens between the    *)
(* loading of a page and its submission may be anything.                   *)
(*                                                                         *)
(* A posting is a source the account's ledger knows, with its movement in  *)
(* this account: an entry of the user, or what a row of a statement        *)
(* created.  Dates and amounts are the cash of an entry, a number whose    *)
(* sign is its direction; categories, texts and currencies always fit, and *)
(* CREATE stands for the decisions that post a new source of any kind but  *)
(* the payment of an invoice.                                              *)
(***************************************************************************)
EXTENDS Integers, Sequences, FiniteSets, SequencesExt

CONSTANTS Files,       \* file contents: the cells of each entry
          Format,      \* "CSV" or "OFX"
          Tabs, None,
          MaxBatches, MaxPostings   \* bounds

\* A source on the ledger, and a row of a statement, whose identifier is empty
\* where the bank gives none.
Posting == [kind : {"manual", "CREATE", "PAY_INVOICE"}, cash : Int, edited : BOOLEAN,
            row : Nat \X Nat]
Identifiers == {""} \union UNION {{Files[f][n].id : n \in DOMAIN Files[f]} : f \in DOMAIN Files}
RowActions == {"", "SKIP", "CREATE", "MATCH", "PAY_INVOICE"}
Row == [id : Identifiers, cash : Int, action : RowActions, match : Nat \union {None},
        created : Nat \union {None}]

ASSUME IngestionAssumption ==
    /\ \A f \in DOMAIN Files : Files[f] \in Seq([debit : Nat, credit : Nat, id : STRING])
    /\ Format \in [DOMAIN Files -> {"CSV", "OFX"}]
    /\ MaxBatches \in Nat /\ MaxPostings \in Nat \ {0}
    /\ None \notin Nat \union Posting \union [statement : Nat, decisions : Seq(RowActions)]

VARIABLES
    batches,    \* ImportBatch: file, status, mapping and rows, in order of creation
    postings,   \* sources on the ledger, by number, None once deleted
    identities, \* ExternalStatementIdentity: bank identifiers that were confirmed
    dated,      \* the account's opening balance has a date
    page        \* the confirmation page of each tab

vars == <<batches, postings, identities, dated, page>>

Batch == DOMAIN batches
Rows(b) == DOMAIN batches[b].rows
Standing == {p \in DOMAIN postings : postings[p] # None}

\* An entry of the user, which statements may match, and one they never saw.
Init ==
    /\ batches = <<>>
    /\ postings = <<[kind |-> "manual", cash |-> -2, edited |-> FALSE, row |-> <<0, 0>>]>>
    /\ identities = {}
    /\ dated = FALSE
    /\ page = [t \in Tabs |-> None]
-----------------------------------------------------------------------------
(* Staging and mapping                                                     *)

\* A cash entry fills one of the two columns.
Readable(cells) == (cells.debit = 0) # (cells.credit = 0)

\* parse_csv and parse_ofx: without an identifier column a row has no identity.
Parsed(cells, mapping) ==
    [id |-> IF mapping = "identified" THEN cells.id ELSE "", cash |-> cells.credit - cells.debit,
     action |-> "", match |-> None, created |-> None]

ParsedFile(f, mapping) == [n \in DOMAIN Files[f] |-> Parsed(Files[f][n], mapping)]

\* The same file is imported once at a time.
Stage(f) ==
    /\ \A b \in Batch : batches[b].file = f => batches[b].status = "UNDONE"
    /\ Len(batches) < MaxBatches
    /\ batches' = Append(batches,
          IF Format[f] = "CSV"
          THEN [file |-> f, status |-> "STAGED", mapping |-> 0, rows |-> <<>>]
          ELSE [file |-> f, status |-> "READY", mapping |-> 0, rows |-> ParsedFile(f, "identified")])
    /\ Format[f] = "OFX" => \A n \in DOMAIN Files[f] : Readable(Files[f][n])
    /\ UNCHANGED <<postings, identities, dated, page>>

\* Mapping again replaces the rows, and so every decision; "mapping" counts how
\* often it did, for the rows are new ones.
Map(b, mapping) ==
    /\ Format[batches[b].file] = "CSV"
    /\ batches[b].status \in {"STAGED", "READY"} /\ batches[b].mapping < 2
    /\ \A n \in DOMAIN Files[batches[b].file] : Readable(Files[batches[b].file][n])
    /\ batches' = [batches EXCEPT ![b].status = "READY", ![b].mapping = @ + 1,
                                  ![b].rows = ParsedFile(batches[b].file, mapping)]
    /\ UNCHANGED <<postings, identities, dated, page>>
-----------------------------------------------------------------------------
(* Review                                                                  *)

Candidates(row) == {p \in Standing : postings[p].cash = row.cash}
Paid == \E p \in Standing : postings[p].kind = "PAY_INVOICE"

\* Mutant of IsNew: an identifier is only compared within its statement.
IsNewHere(id) == TRUE

IsNew(id) == id = "" \/ id \notin {i.id : i \in identities}

\* validate_decision
Valid(row) ==
    \/ row.action = "SKIP"
    \/ /\ row.action \in {"CREATE", "MATCH", "PAY_INVOICE"}
       /\ dated /\ IsNew(row.id)
       /\ row.action = "MATCH" => row.match \in Candidates(row)
       /\ row.action = "PAY_INVOICE" => row.cash < 0 /\ ~Paid

Decision == [action : {"SKIP", "CREATE", "PAY_INVOICE"}, match : {None}]
            \union [action : {"MATCH"}, match : 1 .. MaxPostings]

Decided(row, d) == [row EXCEPT !.action = d.action, !.match = d.match]

\* save_review: the entries of a page, each decided and valid by itself.
Review(b, n, d) ==
    /\ batches[b].status = "READY"
    /\ Valid(Decided(batches[b].rows[n], d))
    /\ batches' = [batches EXCEPT ![b].rows[n] = Decided(@, d)]
    /\ UNCHANGED <<postings, identities, dated, page>>

\* The entries a page offered to skip, if they still are undecided duplicates.
SkipConfirmed(b, chosen) ==
    /\ batches[b].status = "READY" /\ chosen # {}
    /\ \A n \in chosen : batches[b].rows[n].action = "" /\ ~IsNew(batches[b].rows[n].id)
    /\ batches' = [batches EXCEPT ![b].rows =
          [n \in Rows(b) |-> IF n \in chosen
                             THEN Decided(batches[b].rows[n], [action |-> "SKIP", match |-> None])
                             ELSE batches[b].rows[n]]]
    /\ UNCHANGED <<postings, identities, dated, page>>
-----------------------------------------------------------------------------
(* Confirmation                                                            *)

Digest(b) == [mapping |-> batches[b].mapping, rows |-> batches[b].rows]

OpenConfirmation(t, b) ==
    /\ batches[b].status = "READY"
    /\ page' = [page EXCEPT ![t] = [batch |-> b, digest |-> Digest(b)]]
    /\ UNCHANGED <<batches, postings, identities, dated>>

\* Mutant of IsAsShown: only that the statement still waits is looked at.
IsAsShownWaiting(t, b) == batches[b].status = "READY"

IsAsShown(t, b) == batches[b].status = "READY" /\ Digest(b) = page[t].digest

Posts(row) == row.action \in {"CREATE", "PAY_INVOICE"}
Taken(b) == {n \in Rows(b) : batches[b].rows[n].action # "SKIP"}

\* No identifier and no movement twice in a statement, and one payment at most
\* fits the invoice.
FitTogether(b) ==
    LET row == batches[b].rows
    IN  \A m, n \in Taken(b) : m # n =>
          /\ row[m].id # "" => row[m].id # row[n].id
          /\ row[m].action = "MATCH" => row[m].match # row[n].match \/ row[n].action # "MATCH"
          /\ ~(row[m].action = "PAY_INVOICE" /\ row[n].action = "PAY_INVOICE")

\* The number of the source that the n-th row posts.
NumberOf(b, n) ==
    Len(postings) + Cardinality({m \in Rows(b) : m <= n /\ Posts(batches[b].rows[m])})

Confirm(t) ==
    /\ page[t] # None
    /\ LET b == page[t].batch
           rows == batches[b].rows
           created == {n \in Rows(b) : Posts(rows[n])}
       IN  /\ IsAsShown(t, b)
           /\ \A n \in Rows(b) : Valid(rows[n])
           /\ FitTogether(b)
           /\ Len(postings) + Cardinality(created) <= MaxPostings
           /\ postings' = postings \o
                 [k \in 1 .. Cardinality(created) |->
                    LET n == CHOOSE m \in created : NumberOf(b, m) = Len(postings) + k
                    IN  [kind |-> rows[n].action, cash |-> rows[n].cash, edited |-> FALSE,
                         row |-> <<b, n>>]]
           /\ identities' = identities \union
                 {[id |-> rows[n].id, row |-> <<b, n>>] : n \in {m \in Taken(b) : rows[m].id # ""}}
           /\ batches' = [batches EXCEPT ![b].status = "CONFIRMED",
                 ![b].rows = [n \in Rows(b) |->
                    [rows[n] EXCEPT !.created = IF Posts(rows[n]) THEN NumberOf(b, n) ELSE None]]]
    /\ UNCHANGED <<dated, page>>
-----------------------------------------------------------------------------
(* Undoing, and what the user does elsewhere                               *)

\* on_delete=SET_NULL: a row forgets what no longer exists.
Forget(gone, all) ==
    [b \in DOMAIN all |-> [all[b] EXCEPT !.rows =
        [n \in DOMAIN all[b].rows |-> [all[b].rows[n] EXCEPT
            !.match = IF @ \in gone THEN None ELSE @,
            !.created = IF @ \in gone THEN None ELSE @]]]]

\* Mutant of Erase: what a row created stays on the ledger.
EraseNothing(gone) == postings

Erase(gone) == [p \in DOMAIN postings |-> IF p \in gone THEN None ELSE postings[p]]

\* Its source and its cash are what the confirmation recorded.
Unchanged(row) ==
    Posts(row) => row.created # None /\ postings[row.created] # None /\ ~postings[row.created].edited

\* Mutant of UsedElsewhere: the evidence of other statements is not looked for.
UsedElsewhereNot(b, created) == FALSE

UsedElsewhere(b, created) ==
    \E c \in Batch \ {b} : /\ batches[c].status = "CONFIRMED"
                           /\ \E n \in Rows(c) : batches[c].rows[n].match \in created

Undo(b) ==
    LET created == {batches[b].rows[n].created : n \in Rows(b)} \ {None}
    IN  /\ batches[b].status = "CONFIRMED"
        /\ \A n \in Rows(b) : Unchanged(batches[b].rows[n])
        /\ ~UsedElsewhere(b, created)
        /\ postings' = Erase(created)
        /\ identities' = {i \in identities : i.row[1] # b}
        /\ batches' = [Forget(created, batches) EXCEPT ![b].status = "UNDONE"]
        /\ UNCHANGED <<dated, page>>

EditPosting(p) ==
    /\ postings[p] # None /\ ~postings[p].edited
    /\ postings' = [postings EXCEPT ![p].edited = TRUE, ![p].cash = @ - 1]
    /\ UNCHANGED <<batches, identities, dated, page>>

DeletePosting(p) ==
    /\ postings[p] # None
    /\ postings' = Erase({p})
    /\ batches' = Forget({p}, batches)
    /\ UNCHANGED <<identities, dated, page>>

DateOpening ==
    /\ ~dated /\ dated' = TRUE
    /\ UNCHANGED <<batches, postings, identities, page>>

Next ==
    \/ \E f \in DOMAIN Files : Stage(f)
    \/ \E b \in Batch :
          \/ \E mapping \in {"identified", "anonymous"} : Map(b, mapping)
          \/ \E n \in Rows(b), d \in Decision : Review(b, n, d)
          \/ \E chosen \in SUBSET Rows(b) : SkipConfirmed(b, chosen)
          \/ Undo(b)
          \/ \E t \in Tabs : OpenConfirmation(t, b)
    \/ \E t \in Tabs : Confirm(t)
    \/ \E p \in DOMAIN postings : EditPosting(p) \/ DeletePosting(p)
    \/ DateOpening

Spec == Init /\ [][Next]_vars
-----------------------------------------------------------------------------
(* Properties                                                              *)

Confirmed == {b \in Batch : batches[b].status = "CONFIRMED"}

\* An entry of the bank is represented once, whichever of its statements it is
\* read from: no two confirmed rows that were not skipped share an identifier,
\* and the identifiers that are taken are exactly those of these rows.
EntriesCountOnce ==
    /\ \A i, j \in identities : i.id = j.id => i = j
    /\ identities = UNION {{[id |-> batches[b].rows[n].id, row |-> <<b, n>>] :
                              n \in {m \in Taken(b) : batches[b].rows[m].id # ""}} : b \in Confirmed}

\* The ledger holds what the confirmed statements explain and nothing of the
\* others: every posting a row created belongs to a statement that is still
\* confirmed, with the row's cash unless the user edited it, and an undone or
\* refused statement leaves nothing behind.
PostingsAreExplained ==
    \A p \in Standing : postings[p].kind # "manual" =>
        LET b == postings[p].row[1]  row == batches[b].rows[postings[p].row[2]]
        IN  /\ b \in Confirmed /\ row.created = p /\ row.action = postings[p].kind
            /\ postings[p].edited \/ postings[p].cash = row.cash

\* Undoing one statement never takes away the cash another confirmed statement
\* was matched with: only the user's own deletion does.
EvidenceIsKept ==
    [][\A b \in Batch : batches[b].status = "CONFIRMED" /\ batches'[b].status = "UNDONE" =>
          \A c \in Confirmed \ {b} : batches'[c] = batches[c]]_vars

Actions(rows) == [n \in DOMAIN rows |-> rows[n].action]

\* What each page offers to post, and what became of each statement.
Offered == [t \in Tabs |-> IF page[t] = None THEN None
              ELSE [statement |-> page[t].batch, decisions |-> Actions(page[t].digest.rows)]]
Outcome(b) ==
    IF b \notin Batch THEN <<"pending">>
    ELSE CASE batches[b].status = "CONFIRMED" -> Actions(batches[b].rows)
           [] batches[b].status = "UNDONE" -> <<"withdrawn">>
           [] OTHER -> <<"pending">>
Outcomes == [b \in 1 .. MaxBatches |-> Outcome(b)]

Reviewed == INSTANCE ReviewedPostings WITH
    Statements <- 1 .. MaxBatches,
    Pending <- <<"pending">>,
    Withdrawn <- <<"withdrawn">>,
    shown <- Offered,
    posted <- Outcomes

\* A statement is posted once, with the decisions the confirming page showed.
PostsWhatWasReviewed == Reviewed!Spec
=============================================================================
