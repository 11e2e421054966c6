--------------------------- MODULE IngestionProofs --------------------------
(***************************************************************************)
(* Proofs about what comes in from outside: statement files and the report *)
(* of Open Finance, and the vault of credentials.                          *)
(*                                                                         *)
(* Ingestion, for any files, formats, tabs and bounds: the bank's entries  *)
(* count once, the ledger holds what the confirmed statements explain,     *)
(* undoing one leaves the evidence of the others, and a statement is       *)
(* posted with the decisions its page showed.                              *)
(*                                                                         *)
(* Vault, for any records and requests: what is stored stays readable, and *)
(* a setup that was cut short is taken up by the next request.             *)
(*                                                                         *)
(* OpenFinancePilot, for any runs, options, lists, page size and limits:   *)
(* the provider is read by one run at a time, and never while a report     *)
(* stands that answers it; what is saved is whole and gives way to a later *)
(* report only.                                                            *)
(***************************************************************************)
EXTENDS Ingestion, Vault, OpenFinancePilot, FiniteSetTheorems, SequenceTheorems, TLAPS

(* Counting the rows that post                                             *)

\* The elements of a finite set of numbers, by how many of it do not exceed
\* them, are numbered from 1 to as many as there are.
LEMMA RanksAreNumbers ==
  ASSUME NEW S, IsFiniteSet(S), S \subseteq Nat
  PROVE  /\ \A n \in S : Cardinality({m \in S : m <= n}) \in 1 .. Cardinality(S)
         /\ \A n, p \in S : Cardinality({m \in S : m <= n}) = Cardinality({m \in S : m <= p})
                            => n = p
         /\ \A k \in 1 .. Cardinality(S) : \E n \in S : Cardinality({m \in S : m <= n}) = k
<1> DEFINE Up(n) == {m \in S : m <= n}
           rank == [n \in S |-> Cardinality(Up(n))]
           T == 1 .. Cardinality(S)
<1>1. Cardinality(S) \in Nat /\ IsFiniteSet(T) /\ Cardinality(T) = Cardinality(S)
  <2>1. Cardinality(S) \in Nat
    BY FS_CardinalityType
  <2> QED
    BY <2>1, FS_Interval
<1>2. ASSUME NEW n \in S
      PROVE  IsFiniteSet(Up(n)) /\ Cardinality(Up(n)) \in T
  <2>1. Up(n) \in SUBSET S /\ n \in Up(n)
    OBVIOUS
  <2>2. IsFiniteSet(Up(n)) /\ Cardinality(Up(n)) <= Cardinality(S)
    BY <2>1, FS_Subset
  <2>3. Cardinality(Up(n)) \in Nat /\ Cardinality(Up(n)) # 0
    BY <2>1, <2>2, FS_CardinalityType, FS_EmptySet
  <2> QED
    BY <1>1, <2>2, <2>3
<1>3. ASSUME NEW n \in S, NEW p \in S, n < p
      PROVE  Cardinality(Up(n)) # Cardinality(Up(p))
  <2>1. /\ \A m \in S : m <= n => m <= p
        /\ ~(p <= n) /\ p <= p
    BY <1>3
  <2>2. Up(n) \in SUBSET Up(p) /\ p \in Up(p) /\ p \notin Up(n)
    BY <2>1
  <2>3. IsFiniteSet(Up(p))
    BY <1>2
  <2> HIDE DEF Up
  <2> QED
    BY <2>2, <2>3, FS_Subset
<1>4. \A n, p \in S : Cardinality(Up(n)) = Cardinality(Up(p)) => n = p
  <2>1. \A n, p \in S : n < p \/ p < n \/ n = p
    OBVIOUS
  <2> HIDE DEF Up
  <2> QED
    BY <1>3, <2>1
<1>5. rank \in Injection(S, T)
  <2>1. rank \in [S -> T]
    BY <1>2
  <2>2. \A n, p \in S : rank[n] = rank[p] => n = p
    BY <1>4
  <2> HIDE DEF rank, T, Up
  <2> QED
    BY <2>1, <2>2 DEF Injection, IsInjective
<1>6. rank \in Surjection(S, T)
  <2> HIDE DEF rank, T
  <2> QED
    BY <1>1, <1>5, FS_Injection
<1>7. \A k \in T : \E n \in S : Cardinality(Up(n)) = k
  <2>1. \A k \in T : \E n \in S : rank[n] = k
    BY <1>6 DEF Surjection
  <2> QED
    BY <2>1
<1> QED
  BY <1>2, <1>4, <1>7

LEMMA CountsAreFinite ==
  ASSUME NEW n \in Nat
  PROVE  IsFiniteSet(1 .. n)
  BY FS_Interval

LEMMA FunctionsAreSequences ==
  ASSUME NEW S, NEW n \in Nat, NEW f \in [1 .. n -> S]
  PROVE  f \in Seq(S) /\ Len(f) = n /\ DOMAIN f = 1 .. n
  OBVIOUS

-----------------------------------------------------------------------------
(* Types                                                                   *)

BatchRecord == [file : DOMAIN Files, status : {"STAGED", "READY", "CONFIRMED", "UNDONE"},
                mapping : Nat, rows : Seq(Row)]
Shown == [batch : Nat, digest : [mapping : Nat, rows : Seq(Row)]]

TypeInv ==
    /\ batches \in Seq(BatchRecord) /\ Len(batches) <= MaxBatches
    /\ postings \in Seq(Posting \union {None})
    /\ identities \subseteq [id : Identifiers, row : Nat \X Nat]
    /\ page \in [Tabs -> Shown \union {None}]
    /\ \A t \in Tabs : page[t] # None => page[t] \in Shown /\ page[t].batch \in Batch

LEMMA RowsAreRecords ==
  ASSUME NEW id \in Identifiers, NEW cash \in Int, NEW action \in RowActions,
         NEW match \in Nat \union {None}, NEW created \in Nat \union {None}
  PROVE  /\ [id |-> id, cash |-> cash, action |-> action, match |-> match, created |-> created]
               \in Row
         /\ [id |-> id, cash |-> cash, action |-> action, match |-> match,
             created |-> created].created = created
  BY DEF Row

LEMMA RowTypes ==
  ASSUME NEW r \in Row
  PROVE  /\ r.id \in Identifiers /\ r.cash \in Int /\ r.action \in RowActions
         /\ r.match \in Nat \union {None} /\ r.created \in Nat \union {None}
  BY DEF Row

LEMMA BatchTypes ==
  ASSUME TypeInv, NEW b \in Batch
  PROVE  /\ Batch = 1 .. Len(batches) /\ Len(batches) \in Nat /\ b \in Nat
         /\ batches[b] \in BatchRecord /\ batches[b].file \in DOMAIN Files
         /\ batches[b].mapping \in Nat
         /\ batches[b].rows \in Seq(Row) /\ Rows(b) = 1 .. Len(batches[b].rows)
         /\ Len(batches[b].rows) \in Nat
         /\ \A n \in Rows(b) : n \in Nat /\ batches[b].rows[n] \in Row
<1>1. Batch = 1 .. Len(batches) /\ Len(batches) \in Nat
  BY DEF TypeInv, Batch
<1>2. b \in Nat /\ batches[b] \in BatchRecord
  BY <1>1, ElementOfSeq DEF TypeInv
<1>3. batches[b].file \in DOMAIN Files /\ batches[b].mapping \in Nat /\ batches[b].rows \in Seq(Row)
  BY <1>2 DEF BatchRecord
<1>4. Rows(b) = 1 .. Len(batches[b].rows) /\ Len(batches[b].rows) \in Nat
  BY <1>3 DEF Rows
<1>5. \A n \in Rows(b) : n \in Nat /\ batches[b].rows[n] \in Row
  BY <1>3, <1>4, ElementOfSeq
<1> QED
  BY <1>1, <1>2, <1>3, <1>4, <1>5

LEMMA ParsedRows ==
  ASSUME NEW f \in DOMAIN Files, NEW mapping
  PROVE  /\ ParsedFile(f, mapping) \in Seq(Row)
         /\ \A n \in DOMAIN ParsedFile(f, mapping) : ParsedFile(f, mapping)[n].created = None
<1>1. /\ Len(Files[f]) \in Nat /\ DOMAIN Files[f] = 1 .. Len(Files[f])
      /\ \A n \in 1 .. Len(Files[f]) : Files[f][n] \in [debit : Nat, credit : Nat, id : STRING]
  BY IngestionAssumption, LenProperties, ElementOfSeq
<1>2. ASSUME NEW n \in 1 .. Len(Files[f])
      PROVE  Parsed(Files[f][n], mapping) \in Row /\ Parsed(Files[f][n], mapping).created = None
  <2> DEFINE id == IF mapping = "identified" THEN Files[f][n].id ELSE ""
             cash == Files[f][n].credit - Files[f][n].debit
  <2>1. cash \in Int
    BY <1>1
  <2>2. id \in Identifiers
    <3> DEFINE ids(g) == {Files[g][k].id : k \in DOMAIN Files[g]}
    <3>1. Files[f][n].id \in ids(f)
      BY <1>1
    <3>2. Identifiers = {""} \union UNION {ids(g) : g \in DOMAIN Files}
      BY DEF Identifiers
    <3> HIDE DEF ids
    <3> QED
      BY <3>1, <3>2
  <2>3. "" \in RowActions
    BY DEF RowActions
  <2>4. Parsed(Files[f][n], mapping) =
          [id |-> id, cash |-> cash, action |-> "", match |-> None, created |-> None]
    BY DEF Parsed
  <2> HIDE DEF id, cash
  <2>5. [id |-> id, cash |-> cash, action |-> "", match |-> None, created |-> None] \in Row
    BY <2>1, <2>2, <2>3, RowsAreRecords
  <2>6. [id |-> id, cash |-> cash, action |-> "", match |-> None, created |-> None].created = None
    BY <2>1, <2>2, <2>3, RowsAreRecords
  <2> QED
    BY <2>4, <2>5, <2>6
<1>3. ParsedFile(f, mapping) \in [1 .. Len(Files[f]) -> Row]
  BY <1>1, <1>2 DEF ParsedFile
<1> QED
  BY <1>1, <1>2, <1>3, FunctionsAreSequences DEF ParsedFile
-----------------------------------------------------------------------------
(* Statements that wait                                                    *)

Waiting == {"STAGED", "READY"}

\* A step that stages, maps or decides: it touches statements that wait only,
\* and records nothing created.
Prepares ==
    /\ Batch \subseteq Batch'
    /\ \A b \in Batch' :
          \/ b \in Batch /\ batches'[b] = batches[b]
          \/ /\ b \in Batch => batches[b].status \in Waiting
             /\ batches'[b].status \in Waiting
             /\ \A n \in Rows(b)' :
                   \/ batches'[b].rows[n].created = None
                   \/ /\ b \in Batch /\ n \in Rows(b)
                      /\ batches'[b].rows[n].created = batches[b].rows[n].created
    /\ UNCHANGED <<postings, identities, page>>

LEMMA StagePrepares ==
  ASSUME TypeInv, NEW f \in DOMAIN Files, Stage(f)
  PROVE  TypeInv' /\ Prepares
<1> DEFINE new == batches'[Len(batches) + 1]
<1>1. Len(batches) \in Nat /\ Batch = 1 .. Len(batches)
  BY DEF TypeInv, Batch
<1>2. \E r \in BatchRecord : /\ batches' = Append(batches, r) /\ r.status \in Waiting
                             /\ \A n \in DOMAIN r.rows : r.rows[n].created = None
  <2> DEFINE csv == [file |-> f, status |-> "STAGED", mapping |-> 0, rows |-> <<>>]
             ofx == [file |-> f, status |-> "READY", mapping |-> 0,
                     rows |-> ParsedFile(f, "identified")]
  <2>1. /\ csv \in BatchRecord /\ csv.status \in Waiting
        /\ \A n \in DOMAIN csv.rows : csv.rows[n].created = None
    BY DEF BatchRecord, Waiting
  <2>2. /\ ofx \in BatchRecord /\ ofx.status \in Waiting
        /\ \A n \in DOMAIN ofx.rows : ofx.rows[n].created = None
    BY ParsedRows DEF BatchRecord, Waiting
  <2>3. batches' = Append(batches, csv) \/ batches' = Append(batches, ofx)
    BY DEF Stage
  <2> HIDE DEF csv, ofx
  <2> QED
    BY <2>1, <2>2, <2>3
<1>3. PICK r \in BatchRecord : /\ batches' = Append(batches, r) /\ r.status \in Waiting
                               /\ \A n \in DOMAIN r.rows : r.rows[n].created = None
  BY <1>2
<1>4. /\ batches' \in Seq(BatchRecord) /\ Len(batches') = Len(batches) + 1
      /\ Batch' = 1 .. Len(batches) + 1 /\ batches'[Len(batches) + 1] = r
      /\ \A b \in Batch : batches'[b] = batches[b]
  BY <1>1, <1>3, AppendProperties DEF TypeInv, Batch
<1>5. Len(batches') <= MaxBatches
  BY <1>1, <1>4, IngestionAssumption DEF Stage
<1>6. Prepares
  BY <1>1, <1>3, <1>4 DEF Prepares, Stage, Rows, Batch
<1> QED
  BY <1>1, <1>4, <1>5, <1>6 DEF TypeInv, Stage

LEMMA WaitingPrepares ==
  ASSUME TypeInv, NEW b \in Batch, batches[b].status \in Waiting,
         NEW r \in BatchRecord, r.status \in Waiting, batches' = [batches EXCEPT ![b] = r],
         \A n \in DOMAIN r.rows :
            \/ r.rows[n].created = None
            \/ n \in Rows(b) /\ r.rows[n].created = batches[b].rows[n].created,
         UNCHANGED <<postings, identities, page>>
  PROVE  TypeInv' /\ Prepares
<1>1. /\ batches' \in Seq(BatchRecord) /\ Len(batches') = Len(batches) /\ Batch' = Batch
      /\ \A c \in Batch : batches'[c] = IF c = b THEN r ELSE batches[c]
  BY BatchTypes, ExceptSeq DEF TypeInv, Batch
<1>2. Prepares
  BY <1>1 DEF Prepares, Rows
<1> QED
  BY <1>1, <1>2 DEF TypeInv

LEMMA MappedBatch ==
  ASSUME NEW r \in BatchRecord, NEW mapping \in Nat, NEW rows \in Seq(Row)
  PROVE  LET new == [r EXCEPT !.status = "READY", !.mapping = mapping, !.rows = rows]
         IN  new \in BatchRecord /\ new.status \in Waiting /\ new.rows = rows
  BY DEF BatchRecord, Waiting

LEMMA MapPrepares ==
  ASSUME TypeInv, NEW b \in Batch, NEW mapping, Map(b, mapping)
  PROVE  TypeInv' /\ Prepares
<1> DEFINE f == batches[b].file
           r == [batches[b] EXCEPT !.status = "READY", !.mapping = @ + 1,
                                   !.rows = ParsedFile(f, mapping)]
<1>1. /\ batches[b] \in BatchRecord /\ f \in DOMAIN Files /\ batches[b].mapping \in Nat
  BY BatchTypes
<1>2. /\ ParsedFile(f, mapping) \in Seq(Row)
      /\ \A n \in DOMAIN ParsedFile(f, mapping) : ParsedFile(f, mapping)[n].created = None
  BY <1>1, ParsedRows
<1>3. r \in BatchRecord /\ r.status \in Waiting /\ r.rows = ParsedFile(f, mapping)
  <2> HIDE DEF f
  <2>1. /\ batches[b].mapping + 1 \in Nat
        /\ r = [batches[b] EXCEPT !.status = "READY", !.mapping = batches[b].mapping + 1,
                                  !.rows = ParsedFile(f, mapping)]
    BY <1>1
  <2> HIDE DEF r
  <2> QED
    BY <1>1, <1>2, <2>1, MappedBatch
<1>4. batches[b].status \in Waiting /\ UNCHANGED <<postings, identities, page>>
  BY DEF Map, Waiting
<1>5. batches' = [batches EXCEPT ![b] = r]
  BY DEF Map
<1> HIDE DEF r
<1>6. \A n \in DOMAIN r.rows : r.rows[n].created = None
  BY <1>2, <1>3
<1> QED
  BY <1>3, <1>4, <1>5, <1>6, WaitingPrepares

LEMMA DecidedRows ==
  ASSUME TypeInv, NEW b \in Batch, NEW n \in Rows(b), NEW d \in Decision
  PROVE  /\ Decided(batches[b].rows[n], d) \in Row
         /\ Decided(batches[b].rows[n], d).created = batches[b].rows[n].created
<1>1. batches[b].rows[n] \in Row
  BY BatchTypes
<1>2. d.action \in RowActions /\ d.match \in Nat \union {None}
  <2>1. MaxPostings \in Nat
    BY IngestionAssumption
  <2>2. CASE d \in [action : {"SKIP", "CREATE", "PAY_INVOICE"}, match : {None}]
    BY <2>2 DEF RowActions
  <2>3. CASE d \in [action : {"MATCH"}, match : 1 .. MaxPostings]
    <3>1. d.action = "MATCH" /\ d.match \in 1 .. MaxPostings
      BY <2>3
    <3>2. d.match \in Nat
      BY <2>1, <3>1
    <3> QED
      BY <3>1, <3>2 DEF RowActions
  <2> QED
    BY <2>2, <2>3 DEF Decision
<1> QED
  BY <1>1, <1>2 DEF Decided, Row

LEMMA ReviewPrepares ==
  ASSUME TypeInv, NEW b \in Batch, NEW n \in Rows(b), NEW d \in Decision, Review(b, n, d)
  PROVE  TypeInv' /\ Prepares
<1> DEFINE new == Decided(batches[b].rows[n], d)
           rows == [batches[b].rows EXCEPT ![n] = new]
           r == [batches[b] EXCEPT !.rows = rows]
<1>1. /\ batches[b] \in BatchRecord /\ batches[b].rows \in Seq(Row)
      /\ Rows(b) = 1 .. Len(batches[b].rows)
  BY BatchTypes
<1>2. /\ rows \in Seq(Row) /\ DOMAIN rows = Rows(b)
      /\ \A m \in Rows(b) : rows[m].created = batches[b].rows[m].created
  <2>1. new \in Row /\ new.created = batches[b].rows[n].created
    BY DecidedRows
  <2> HIDE DEF new
  <2>2. /\ rows \in Seq(Row) /\ DOMAIN rows = Rows(b)
        /\ \A m \in Rows(b) : rows[m] = IF m = n THEN new ELSE batches[b].rows[m]
    BY <1>1, <2>1, ExceptSeq DEF Rows
  <2> HIDE DEF rows
  <2> QED
    BY <2>1, <2>2
<1> HIDE DEF new
<1>3. batches' = [batches EXCEPT ![b] = r] /\ batches[b].status = "READY"
  BY DEF Review, new
<1> HIDE DEF rows
<1>4. r \in BatchRecord /\ r.status = batches[b].status /\ r.rows = rows
  BY <1>1, <1>2 DEF BatchRecord
<1>5. UNCHANGED <<postings, identities, page>>
  BY DEF Review
<1> HIDE DEF r
<1> QED
  BY <1>2, <1>3, <1>4, <1>5, WaitingPrepares DEF Waiting

LEMMA SkipPrepares ==
  ASSUME TypeInv, NEW b \in Batch, NEW chosen \in SUBSET Rows(b), SkipConfirmed(b, chosen)
  PROVE  TypeInv' /\ Prepares
<1> DEFINE skip == [action |-> "SKIP", match |-> None]
           rows == [n \in Rows(b) |-> IF n \in chosen THEN Decided(batches[b].rows[n], skip)
                                      ELSE batches[b].rows[n]]
           r == [batches[b] EXCEPT !.rows = rows]
<1>1. /\ batches[b] \in BatchRecord /\ Len(batches[b].rows) \in Nat
      /\ Rows(b) = 1 .. Len(batches[b].rows)
      /\ \A n \in Rows(b) : batches[b].rows[n] \in Row
  BY BatchTypes
<1>2. /\ rows \in Seq(Row) /\ DOMAIN rows = Rows(b)
      /\ \A n \in Rows(b) : rows[n].created = batches[b].rows[n].created
  <2>1. skip \in Decision
    BY DEF Decision
  <2> HIDE DEF skip
  <2>2. rows \in [1 .. Len(batches[b].rows) -> Row]
    BY <1>1, <2>1, DecidedRows
  <2>3. \A n \in Rows(b) : rows[n].created = batches[b].rows[n].created
    BY <2>1, DecidedRows
  <2> HIDE DEF rows
  <2> QED
    BY <1>1, <2>2, <2>3, FunctionsAreSequences
<1>3. batches' = [batches EXCEPT ![b] = r] /\ batches[b].status = "READY"
  BY DEF SkipConfirmed
<1> HIDE DEF rows
<1>4. r \in BatchRecord /\ r.status = batches[b].status /\ r.rows = rows
  BY <1>1, <1>2 DEF BatchRecord
<1>5. UNCHANGED <<postings, identities, page>>
  BY DEF SkipConfirmed
<1> HIDE DEF r
<1> QED
  BY <1>2, <1>3, <1>4, <1>5, WaitingPrepares DEF Waiting
-----------------------------------------------------------------------------
(* Forgetting                                                              *)

ForgetRow(gone, r) == [r EXCEPT !.match = IF @ \in gone THEN None ELSE @,
                                !.created = IF @ \in gone THEN None ELSE @]
ForgetBatch(gone, r) == [r EXCEPT !.rows = [n \in DOMAIN r.rows |-> ForgetRow(gone, r.rows[n])]]

LEMMA ForgetByBatch ==
  ASSUME NEW gone
  PROVE  Forget(gone, batches) = [b \in Batch |-> ForgetBatch(gone, batches[b])]
  BY DEF Forget, ForgetBatch, ForgetRow, Batch

LEMMA ForgottenRow ==
  ASSUME NEW gone, NEW r \in Row
  PROVE  LET new == ForgetRow(gone, r)
         IN  /\ new \in Row
             /\ new.id = r.id /\ new.cash = r.cash /\ new.action = r.action
             /\ new.created = IF r.created \in gone THEN None ELSE r.created
<1> DEFINE match == IF r.match \in gone THEN None ELSE r.match
           created == IF r.created \in gone THEN None ELSE r.created
<1>1. match \in Nat \union {None} /\ created \in Nat \union {None}
  BY RowTypes
<1>2. ForgetRow(gone, r) = [r EXCEPT !.match = match, !.created = created]
  BY DEF ForgetRow
<1> HIDE DEF match, created
<1>3. LET new == ForgetRow(gone, r)
      IN  /\ new \in Row /\ new.created = created
          /\ new.id = r.id /\ new.cash = r.cash /\ new.action = r.action
  BY <1>1, <1>2 DEF Row
<1> QED
  BY <1>3 DEF created

LEMMA UnaffectedRow ==
  ASSUME NEW gone, NEW r \in Row, r.match \notin gone, r.created \notin gone
  PROVE  ForgetRow(gone, r) = r
  BY DEF ForgetRow, Row

\* What forgetting leaves of each statement.
LEMMA ForgottenBatch ==
  ASSUME TypeInv, NEW gone, NEW b \in Batch
  PROVE  LET new == ForgetBatch(gone, batches[b])
         IN  /\ new \in BatchRecord
             /\ new.status = batches[b].status
             /\ DOMAIN new.rows = Rows(b)
             /\ \A n \in Rows(b) : new.rows[n] = ForgetRow(gone, batches[b].rows[n])
<1> DEFINE rows == [n \in Rows(b) |-> ForgetRow(gone, batches[b].rows[n])]
<1>1. /\ batches[b] \in BatchRecord /\ Len(batches[b].rows) \in Nat
      /\ Rows(b) = 1 .. Len(batches[b].rows)
      /\ \A n \in Rows(b) : batches[b].rows[n] \in Row
  BY BatchTypes
<1>2. rows \in [1 .. Len(batches[b].rows) -> Row]
  BY <1>1, ForgottenRow
<1>3. rows \in Seq(Row) /\ DOMAIN rows = Rows(b)
  BY <1>1, <1>2, FunctionsAreSequences
<1>4. ForgetBatch(gone, batches[b]) = [batches[b] EXCEPT !.rows = rows]
  BY DEF ForgetBatch, Rows
<1>5. \A n \in Rows(b) : rows[n] = ForgetRow(gone, batches[b].rows[n])
  OBVIOUS
<1> HIDE DEF rows
<1>6. LET new == ForgetBatch(gone, batches[b])
      IN  new \in BatchRecord /\ new.status = batches[b].status /\ new.rows = rows
  BY <1>1, <1>3, <1>4 DEF BatchRecord
<1> QED
  BY <1>3, <1>5, <1>6

LEMMA UnaffectedBatch ==
  ASSUME TypeInv, NEW gone, NEW b \in Batch,
         \A n \in Rows(b) : batches[b].rows[n].match \notin gone
                            /\ batches[b].rows[n].created \notin gone
  PROVE  ForgetBatch(gone, batches[b]) = batches[b]
<1> DEFINE rows == batches[b].rows
<1>1. /\ batches[b] \in BatchRecord /\ rows \in Seq(Row) /\ Rows(b) = 1 .. Len(rows)
      /\ \A n \in Rows(b) : rows[n] \in Row
  BY BatchTypes
<1>2. \A n \in Rows(b) : ForgetRow(gone, rows[n]) = rows[n]
  BY <1>1, UnaffectedRow
<1>3. ForgetBatch(gone, batches[b])
        = [batches[b] EXCEPT !.rows = [n \in Rows(b) |-> ForgetRow(gone, rows[n])]]
  BY DEF ForgetBatch, Rows
<1>4. [n \in Rows(b) |-> ForgetRow(gone, rows[n])] = rows
  BY <1>1, <1>2
<1>5. ForgetBatch(gone, batches[b]) = [batches[b] EXCEPT !.rows = batches[b].rows]
  BY <1>3, <1>4
<1> QED
  BY <1>1, <1>5 DEF BatchRecord

\* A step that takes the sources "gone" off the ledger and undoes the
\* statements "undone", which created nothing else.
Forgets(gone, undone) ==
    /\ Batch' = Batch
    /\ \A b \in Batch :
          /\ batches'[b].status = IF b \in undone THEN "UNDONE" ELSE batches[b].status
          /\ DOMAIN batches'[b].rows = Rows(b)
          /\ \A n \in Rows(b) : batches'[b].rows[n] = ForgetRow(gone, batches[b].rows[n])
    /\ \A b \in undone : /\ b \in Batch /\ batches[b].status = "CONFIRMED"
                         /\ \A n \in Rows(b) : batches[b].rows[n].created \in gone \union {None}
    /\ postings' = Erase(gone)
    /\ identities' = {i \in identities : i.row[1] \notin undone}
    /\ UNCHANGED page

LEMMA ErasedPostings ==
  ASSUME TypeInv, NEW gone
  PROVE  /\ Erase(gone) \in Seq(Posting \union {None})
         /\ DOMAIN Erase(gone) = DOMAIN postings
         /\ \A p \in DOMAIN postings : Erase(gone)[p] = IF p \in gone THEN None ELSE postings[p]
<1>1. /\ Len(postings) \in Nat /\ DOMAIN postings = 1 .. Len(postings)
      /\ \A p \in DOMAIN postings : postings[p] \in Posting \union {None}
  BY ElementOfSeq DEF TypeInv
<1>2. Erase(gone) \in [1 .. Len(postings) -> Posting \union {None}]
  BY <1>1 DEF Erase
<1> QED
  BY <1>1, <1>2, FunctionsAreSequences DEF Erase

LEMMA DeleteForgets ==
  ASSUME TypeInv, NEW p \in DOMAIN postings, DeletePosting(p)
  PROVE  TypeInv' /\ Forgets({p}, {})
<1>1. batches' = [b \in Batch |-> ForgetBatch({p}, batches[b])]
  BY ForgetByBatch DEF DeletePosting
<1>2. Batch = 1 .. Len(batches) /\ Len(batches) \in Nat
  BY DEF Batch, TypeInv
<1>3. batches' \in [1 .. Len(batches) -> BatchRecord]
  BY <1>1, <1>2, ForgottenBatch
<1>4. batches' \in Seq(BatchRecord) /\ Len(batches') = Len(batches) /\ Batch' = Batch
  BY <1>2, <1>3, FunctionsAreSequences DEF Batch
<1>5. \A b \in Batch : batches'[b] = ForgetBatch({p}, batches[b])
  BY <1>1
<1>6. /\ postings' = Erase({p})
      /\ UNCHANGED <<identities, page>>
  BY DEF DeletePosting
<1>7. TypeInv'
  BY <1>4, <1>6, ErasedPostings DEF TypeInv
<1>8. identities' = {i \in identities : i.row[1] \notin {}}
  BY <1>6
<1>9. \A b \in Batch :
        /\ batches'[b].status = IF b \in {} THEN "UNDONE" ELSE batches[b].status
        /\ DOMAIN batches'[b].rows = Rows(b)
        /\ \A n \in Rows(b) : batches'[b].rows[n] = ForgetRow({p}, batches[b].rows[n])
  <2> TAKE b \in Batch
  <2>1. batches'[b] = ForgetBatch({p}, batches[b])
    BY <1>5
  <2> QED
    BY <2>1, ForgottenBatch
<1> QED
  BY <1>4, <1>6, <1>7, <1>8, <1>9 DEF Forgets

LEMMA UndoForgets ==
  ASSUME TypeInv, NEW b \in Batch, Undo(b)
  PROVE  LET created == {batches[b].rows[n].created : n \in Rows(b)} \ {None}
         IN  /\ TypeInv' /\ Forgets(created, {b})
             /\ \A c \in Batch \ {b} : batches'[c] = ForgetBatch(created, batches[c])
<1> DEFINE gone == {batches[b].rows[n].created : n \in Rows(b)} \ {None}
           all == [c \in Batch |-> ForgetBatch(gone, batches[c])]
<1>1. /\ batches' = [Forget(gone, batches) EXCEPT ![b].status = "UNDONE"]
      /\ batches[b].status = "CONFIRMED" /\ postings' = Erase(gone)
      /\ identities' = {i \in identities : i.row[1] # b} /\ UNCHANGED page
  BY DEF Undo
<1>2. \A n \in Rows(b) : batches[b].rows[n].created \in gone \union {None}
  OBVIOUS
<1> HIDE DEF gone
<1>3. Batch = 1 .. Len(batches) /\ Len(batches) \in Nat
  BY DEF Batch, TypeInv
<1>4. /\ all \in [1 .. Len(batches) -> BatchRecord]
      /\ batches' = [all EXCEPT ![b].status = "UNDONE"]
  BY <1>1, <1>3, ForgetByBatch, ForgottenBatch
<1>5. \A c \in Batch : all[c] = ForgetBatch(gone, batches[c]) /\ all[c] \in BatchRecord
  BY <1>3, <1>4
<1> HIDE DEF all
<1>6. LET new == [all[b] EXCEPT !.status = "UNDONE"]
      IN  new \in BatchRecord /\ new.status = "UNDONE" /\ new.rows = all[b].rows
  BY <1>5 DEF BatchRecord
<1>7. /\ batches' \in [1 .. Len(batches) -> BatchRecord]
      /\ batches'[b].status = "UNDONE" /\ batches'[b].rows = all[b].rows
      /\ \A c \in Batch \ {b} : batches'[c] = all[c]
  BY <1>3, <1>4, <1>5, <1>6
<1>8. batches' \in Seq(BatchRecord) /\ Len(batches') = Len(batches) /\ Batch' = Batch
  BY <1>3, <1>7, FunctionsAreSequences DEF Batch
<1>9. TypeInv'
  BY <1>1, <1>8, ErasedPostings DEF TypeInv
<1>10. Forgets(gone, {b})
  <2>1. \A c \in Batch : batches'[c].status = IF c \in {b} THEN "UNDONE" ELSE batches[c].status
    <3> TAKE c \in Batch
    <3>1. ForgetBatch(gone, batches[c]).status = batches[c].status
      BY ForgottenBatch
    <3> QED
      BY <1>5, <1>7, <3>1
  <2>2. \A c \in Batch :
          /\ DOMAIN batches'[c].rows = Rows(c)
          /\ \A n \in Rows(c) : batches'[c].rows[n] = ForgetRow(gone, batches[c].rows[n])
    <3> TAKE c \in Batch
    <3>1. batches'[c].rows = ForgetBatch(gone, batches[c]).rows
      BY <1>5, <1>7
    <3> QED
      BY <3>1, ForgottenBatch
  <2>3. identities' = {i \in identities : i.row[1] \notin {b}}
    BY <1>1
  <2> QED
    BY <1>1, <1>2, <1>8, <2>1, <2>2, <2>3 DEF Forgets
<1> QED
  BY <1>5, <1>7, <1>9, <1>10 DEF gone
-----------------------------------------------------------------------------
(* Confirming                                                              *)

RowsPosting(b) == {n \in Rows(b) : Posts(batches[b].rows[n])}
Source(b, n) == [kind |-> batches[b].rows[n].action, cash |-> batches[b].rows[n].cash,
                 edited |-> FALSE, row |-> <<b, n>>]
ConfirmedRow(b, n) ==
    [batches[b].rows[n] EXCEPT
        !.created = IF Posts(batches[b].rows[n]) THEN NumberOf(b, n) ELSE None]

\* The step that confirms a statement: each row that posts has a source of its
\* own, and no other source is new.
Confirms(b) ==
    /\ b \in Batch /\ batches[b].status = "READY"
    /\ \A n \in Rows(b) : Valid(batches[b].rows[n])
    /\ FitTogether(b)
    /\ Batch' = Batch /\ \A c \in Batch \ {b} : batches'[c] = batches[c]
    /\ batches'[b].status = "CONFIRMED"
    /\ DOMAIN batches'[b].rows = Rows(b)
    /\ \A n \in Rows(b) : batches'[b].rows[n] = ConfirmedRow(b, n)
    /\ DOMAIN postings \subseteq DOMAIN postings'
    /\ \A p \in DOMAIN postings : postings'[p] = postings[p]
    /\ \A n \in RowsPosting(b) : /\ NumberOf(b, n) \in DOMAIN postings' \ DOMAIN postings
                                  /\ postings'[NumberOf(b, n)] = Source(b, n)
    /\ \A p \in DOMAIN postings' \ DOMAIN postings :
          \E n \in RowsPosting(b) : NumberOf(b, n) = p
    /\ identities' = identities \union
          {[id |-> batches[b].rows[n].id, row |-> <<b, n>>] :
             n \in {m \in Taken(b) : batches[b].rows[m].id # ""}}
    /\ UNCHANGED page

\* The numbers of the sources follow the order of the rows, without a gap.
LEMMA Numbers ==
  ASSUME TypeInv, NEW b \in Batch
  PROVE  LET S == RowsPosting(b)
         IN  /\ Len(postings) \in Nat /\ Cardinality(S) \in Nat
             /\ \A n \in S : NumberOf(b, n) \in Len(postings) + 1 .. Len(postings) + Cardinality(S)
             /\ \A n, p \in S : NumberOf(b, n) = NumberOf(b, p) => n = p
             /\ \A k \in 1 .. Cardinality(S) : \E n \in S : NumberOf(b, n) = Len(postings) + k
<1> DEFINE S == RowsPosting(b)
           rank(n) == Cardinality({m \in S : m <= n})
<1>1. /\ Len(batches[b].rows) \in Nat /\ Rows(b) = 1 .. Len(batches[b].rows)
      /\ Len(postings) \in Nat
  BY BatchTypes DEF TypeInv
<1>2. S \subseteq Nat /\ IsFiniteSet(S) /\ Cardinality(S) \in Nat
  <2>1. IsFiniteSet(Rows(b)) /\ Rows(b) \subseteq Nat
    <3>1. IsFiniteSet(1 .. Len(batches[b].rows))
      BY <1>1, CountsAreFinite
    <3> QED
      BY <1>1, <3>1
  <2>2. S \in SUBSET Rows(b)
    BY DEF RowsPosting
  <2> QED
    BY <2>1, <2>2, FS_Subset, FS_CardinalityType
<1>3. \A n : NumberOf(b, n) = Len(postings) + rank(n)
  <2> TAKE n
  <2>1. {m \in Rows(b) : m <= n /\ Posts(batches[b].rows[m])} = {m \in S : m <= n}
    BY DEF RowsPosting
  <2> QED
    BY <2>1 DEF NumberOf
<1>4. /\ \A n \in S : rank(n) \in 1 .. Cardinality(S)
      /\ \A n, p \in S : rank(n) = rank(p) => n = p
      /\ \A k \in 1 .. Cardinality(S) : \E n \in S : rank(n) = k
  <2> HIDE DEF S
  <2> QED
    BY <1>2, RanksAreNumbers
<1> HIDE DEF rank, S
<1>5. \A n \in S : NumberOf(b, n) \in Len(postings) + 1 .. Len(postings) + Cardinality(S)
  BY <1>1, <1>2, <1>3, <1>4
<1>6. \A n, p \in S : NumberOf(b, n) = NumberOf(b, p) => n = p
  <2> TAKE n, p \in S
  <2>1. rank(n) \in Nat /\ rank(p) \in Nat
    BY <1>2, <1>4
  <2>2. NumberOf(b, n) = NumberOf(b, p) => rank(n) = rank(p)
    BY <1>1, <1>3, <2>1
  <2> QED
    BY <1>4, <2>2
<1>7. \A k \in 1 .. Cardinality(S) : \E n \in S : NumberOf(b, n) = Len(postings) + k
  BY <1>3, <1>4
<1> QED
  BY <1>1, <1>2, <1>5, <1>6, <1>7 DEF S

LEMMA SourcesArePostings ==
  ASSUME TypeInv, NEW b \in Batch, NEW n \in RowsPosting(b)
  PROVE  Source(b, n) \in Posting
<1>1. n \in Rows(b) /\ b \in Nat /\ n \in Nat /\ batches[b].rows[n] \in Row
  BY BatchTypes DEF RowsPosting
<1>2. batches[b].rows[n].action \in {"CREATE", "PAY_INVOICE"}
  BY DEF RowsPosting, Posts
<1>3. batches[b].rows[n].cash \in Int
  BY <1>1, RowTypes
<1>4. <<b, n>> \in Nat \X Nat
  BY <1>1
<1> QED
  BY <1>2, <1>3, <1>4 DEF Source, Posting

LEMMA ConfirmConfirms ==
  ASSUME TypeInv, NEW t \in Tabs, Confirm(t)
  PROVE  TypeInv' /\ Confirms(page[t].batch)
<1> DEFINE b == page[t].batch
           S == RowsPosting(b)
           K == Cardinality(S)
           source(k) == Source(b, CHOOSE m \in S : NumberOf(b, m) = Len(postings) + k)
           new == [k \in 1 .. K |-> source(k)]
           rows == [n \in Rows(b) |-> ConfirmedRow(b, n)]
<1>1. /\ b \in Batch /\ batches[b].status = "READY"
      /\ \A n \in Rows(b) : Valid(batches[b].rows[n])
      /\ FitTogether(b)
      /\ identities' = identities \union
            {[id |-> batches[b].rows[n].id, row |-> <<b, n>>] :
               n \in {m \in Taken(b) : batches[b].rows[m].id # ""}}
      /\ UNCHANGED page
  BY DEF Confirm, IsAsShown, TypeInv
<1>2. postings' = postings \o new
  BY DEF Confirm, RowsPosting, Source
<1>3. batches' = [batches EXCEPT ![b].status = "CONFIRMED", ![b].rows = rows]
  BY DEF Confirm, ConfirmedRow
<1> HIDE DEF b
<1>4. /\ Len(postings) \in Nat /\ K \in Nat
      /\ \A n \in S : NumberOf(b, n) \in Len(postings) + 1 .. Len(postings) + K
      /\ \A n, p \in S : NumberOf(b, n) = NumberOf(b, p) => n = p
      /\ \A k \in 1 .. K : \E n \in S : NumberOf(b, n) = Len(postings) + k
  BY <1>1, Numbers
<1> HIDE DEF S, K
<1>5. \A k \in 1 .. K : \A n \in S : NumberOf(b, n) = Len(postings) + k => source(k) = Source(b, n)
  BY <1>4
<1>6. \A k \in 1 .. K : source(k) \in Posting
  BY <1>1, <1>4, <1>5, SourcesArePostings DEF S
<1> HIDE DEF source
<1>7. /\ postings' \in Seq(Posting \union {None}) /\ DOMAIN postings' = 1 .. Len(postings) + K
      /\ DOMAIN postings = 1 .. Len(postings)
      /\ \A p \in DOMAIN postings : postings'[p] = postings[p]
      /\ \A k \in 1 .. K : postings'[Len(postings) + k] = source(k)
  <2>1. new \in [1 .. K -> Posting \union {None}]
    BY <1>6
  <2>2. /\ new \in Seq(Posting \union {None}) /\ Len(new) = K
        /\ \A k \in 1 .. K : new[k] = source(k)
    BY <1>4, <2>1, FunctionsAreSequences
  <2> HIDE DEF new
  <2>3. /\ postings' \in Seq(Posting \union {None}) /\ Len(postings') = Len(postings) + K
        /\ \A p \in 1 .. Len(postings) + K :
              postings'[p] = IF p <= Len(postings) THEN postings[p] ELSE new[p - Len(postings)]
    BY <1>2, <2>2, ConcatProperties DEF TypeInv
  <2>4. DOMAIN postings' = 1 .. Len(postings) + K /\ DOMAIN postings = 1 .. Len(postings)
    BY <2>3, LenProperties DEF TypeInv
  <2>5. \A p \in DOMAIN postings : postings'[p] = postings[p]
    BY <1>4, <2>3, <2>4
  <2>6. \A k \in 1 .. K : postings'[Len(postings) + k] = source(k)
    <3> TAKE k \in 1 .. K
    <3>1. /\ Len(postings) + k \in 1 .. Len(postings) + K /\ ~(Len(postings) + k <= Len(postings))
          /\ Len(postings) + k - Len(postings) = k
      BY <1>4
    <3> QED
      BY <2>2, <2>3, <3>1
  <2> QED
    BY <2>3, <2>4, <2>5, <2>6
<1>8. \A n \in S : /\ NumberOf(b, n) \in DOMAIN postings' \ DOMAIN postings
                   /\ postings'[NumberOf(b, n)] = Source(b, n)
  <2> TAKE n \in S
  <2> DEFINE k == NumberOf(b, n) - Len(postings)
  <2>1. k \in 1 .. K /\ NumberOf(b, n) = Len(postings) + k
    BY <1>4
  <2>2. postings'[NumberOf(b, n)] = Source(b, n)
    BY <1>5, <1>7, <2>1
  <2>3. NumberOf(b, n) \in 1 .. Len(postings) + K /\ NumberOf(b, n) \notin 1 .. Len(postings)
    BY <1>4, <2>1
  <2> QED
    BY <1>7, <2>2, <2>3
<1>9. \A p \in DOMAIN postings' \ DOMAIN postings : \E n \in S : NumberOf(b, n) = p
  <2> TAKE p \in DOMAIN postings' \ DOMAIN postings
  <2> DEFINE k == p - Len(postings)
  <2>1. k \in 1 .. K /\ p = Len(postings) + k
    BY <1>4, <1>7
  <2> QED
    BY <1>4, <2>1
<1>10. /\ batches[b] \in BatchRecord /\ Len(batches[b].rows) \in Nat
       /\ Rows(b) = 1 .. Len(batches[b].rows)
       /\ \A n \in Rows(b) : batches[b].rows[n] \in Row
  BY <1>1, BatchTypes
<1>11. \A n \in Rows(b) : ConfirmedRow(b, n) \in Row
  <2> TAKE n \in Rows(b)
  <2> DEFINE created == IF Posts(batches[b].rows[n]) THEN NumberOf(b, n) ELSE None
  <2>1. created \in Nat \union {None}
    BY <1>4 DEF S, RowsPosting
  <2>2. ConfirmedRow(b, n) = [batches[b].rows[n] EXCEPT !.created = created]
    BY DEF ConfirmedRow
  <2> HIDE DEF created
  <2> QED
    BY <1>10, <2>1, <2>2 DEF Row
<1>12. rows \in Seq(Row) /\ DOMAIN rows = Rows(b)
  <2>1. rows \in [1 .. Len(batches[b].rows) -> Row]
    BY <1>10, <1>11
  <2> QED
    BY <1>10, <2>1, FunctionsAreSequences
<1>13. \A n \in Rows(b) : rows[n] = ConfirmedRow(b, n)
  OBVIOUS
<1> HIDE DEF rows
<1> DEFINE r == [batches[b] EXCEPT !.status = "CONFIRMED", !.rows = rows]
<1>14. r \in BatchRecord /\ r.status = "CONFIRMED" /\ r.rows = rows
  BY <1>10, <1>12 DEF BatchRecord
<1>15. batches' = [batches EXCEPT ![b] = r]
  BY <1>3
<1> HIDE DEF r
<1>16. /\ batches' \in Seq(BatchRecord) /\ Len(batches') = Len(batches) /\ Batch' = Batch
       /\ \A c \in Batch : batches'[c] = IF c = b THEN r ELSE batches[c]
  BY <1>1, <1>14, <1>15, BatchTypes, ExceptSeq DEF TypeInv, Batch
<1>17. identities' \subseteq [id : Identifiers, row : Nat \X Nat]
  <2>1. ASSUME NEW n \in Taken(b)
        PROVE  [id |-> batches[b].rows[n].id, row |-> <<b, n>>] \in [id : Identifiers, row : Nat \X Nat]
    <3>1. n \in Rows(b)
      BY DEF Taken
    <3>2. b \in Nat /\ n \in Nat /\ batches[b].rows[n].id \in Identifiers
      BY <1>1, <3>1, BatchTypes, RowTypes
    <3> QED
      BY <3>2
  <2> DEFINE heard == {[id |-> batches[b].rows[n].id, row |-> <<b, n>>] :
                         n \in {m \in Taken(b) : batches[b].rows[m].id # ""}}
  <2>2. heard \subseteq [id : Identifiers, row : Nat \X Nat]
    BY <2>1
  <2>3. identities' = identities \union heard
    BY <1>1
  <2> HIDE DEF heard
  <2> QED
    BY <2>2, <2>3 DEF TypeInv
<1>18. TypeInv'
  BY <1>1, <1>7, <1>16, <1>17 DEF TypeInv
<1>19. Confirms(b)
  <2>1. DOMAIN postings \subseteq DOMAIN postings'
    BY <1>4, <1>7
  <2>2. /\ batches'[b].status = "CONFIRMED" /\ DOMAIN batches'[b].rows = Rows(b)
        /\ \A n \in Rows(b) : batches'[b].rows[n] = ConfirmedRow(b, n)
    BY <1>1, <1>12, <1>13, <1>14, <1>16
  <2>3. \A c \in Batch \ {b} : batches'[c] = batches[c]
    BY <1>16
  <2> QED
    BY <1>1, <1>7, <1>8, <1>9, <1>16, <2>1, <2>2, <2>3 DEF Confirms, S
<1> QED
  BY <1>18, <1>19 DEF b
-----------------------------------------------------------------------------
(* Every step                                                              *)

\* A step of the user on an entry of the ledger.
Edits(p) ==
    /\ p \in DOMAIN postings /\ DOMAIN postings' = DOMAIN postings
    /\ \A s \in DOMAIN postings \ {p} : postings'[s] = postings[s]
    /\ postings[p] # None /\ postings'[p] # None
    /\ postings'[p].kind = postings[p].kind /\ postings'[p].row = postings[p].row
    /\ postings'[p].edited
    /\ UNCHANGED <<batches, identities, page>>

LEMMA EditedPosting ==
  ASSUME NEW r \in Posting, NEW cash \in Int
  PROVE  LET new == [r EXCEPT !.edited = TRUE, !.cash = cash]
         IN  new \in Posting /\ new.edited /\ new.kind = r.kind /\ new.row = r.row
  BY DEF Posting

LEMMA EditEdits ==
  ASSUME TypeInv, NEW p \in DOMAIN postings, EditPosting(p)
  PROVE  TypeInv' /\ Edits(p)
<1> DEFINE new == [postings[p] EXCEPT !.edited = TRUE, !.cash = @ - 1]
<1>1. postings[p] \in Posting
  BY ElementOfSeq DEF TypeInv, EditPosting
<1>2. /\ new \in Posting
      /\ new.edited /\ new.kind = postings[p].kind /\ new.row = postings[p].row
  <2>1. postings[p].cash - 1 \in Int
    BY <1>1 DEF Posting
  <2>2. new = [postings[p] EXCEPT !.edited = TRUE, !.cash = postings[p].cash - 1]
    OBVIOUS
  <2> HIDE DEF new
  <2> QED
    BY <1>1, <2>1, <2>2, EditedPosting
<1>3. postings' = [postings EXCEPT ![p] = new]
  BY DEF EditPosting
<1> HIDE DEF new
<1>4. /\ postings' \in Seq(Posting \union {None}) /\ DOMAIN postings' = DOMAIN postings
      /\ postings'[p] = new /\ \A s \in DOMAIN postings \ {p} : postings'[s] = postings[s]
  <2>1. p \in 1 .. Len(postings) /\ DOMAIN postings = 1 .. Len(postings)
    BY DEF TypeInv
  <2> QED
    BY <1>2, <1>3, <2>1, ExceptSeq DEF TypeInv
<1>5. new # None
  BY <1>2, IngestionAssumption
<1>6. UNCHANGED <<batches, identities, page>> /\ postings[p] # None
  BY DEF EditPosting
<1>7. TypeInv'
  BY <1>4, <1>6 DEF TypeInv, Batch
<1> QED
  BY <1>2, <1>4, <1>5, <1>6, <1>7 DEF Edits

LEMMA OpenOpens ==
  ASSUME TypeInv, NEW t \in Tabs, NEW b \in Batch, OpenConfirmation(t, b)
  PROVE  TypeInv'
<1> DEFINE new == [batch |-> b, digest |-> Digest(b)]
<1>1. new \in Shown /\ new.batch = b
  BY BatchTypes DEF Shown, Digest
<1>2. page' = [page EXCEPT ![t] = new] /\ UNCHANGED <<batches, postings, identities>>
  BY DEF OpenConfirmation
<1> HIDE DEF new
<1> QED
  BY <1>1, <1>2 DEF TypeInv, Batch

LEMMA EveryStep ==
  ASSUME TypeInv, [Next]_vars
  PROVE  /\ TypeInv'
         /\ \/ Prepares
            \/ \E t \in Tabs : Confirm(t) /\ Confirms(page[t].batch)
            \/ \E b \in Batch : Undo(b)
            \/ \E p \in DOMAIN postings : DeletePosting(p) \/ Edits(p)
            \/ /\ \E t \in Tabs, b \in Batch : OpenConfirmation(t, b)
               /\ UNCHANGED <<batches, postings, identities>>
            \/ UNCHANGED <<batches, postings, identities, page>>
<1>1. CASE \E f \in DOMAIN Files : Stage(f)
  BY <1>1, StagePrepares
<1>2. CASE \E b \in Batch, mapping \in {"identified", "anonymous"} : Map(b, mapping)
  BY <1>2, MapPrepares
<1>3. CASE \E b \in Batch : \E n \in Rows(b), d \in Decision : Review(b, n, d)
  BY <1>3, ReviewPrepares
<1>4. CASE \E b \in Batch : \E chosen \in SUBSET Rows(b) : SkipConfirmed(b, chosen)
  BY <1>4, SkipPrepares
<1>5. CASE \E b \in Batch : Undo(b)
  BY <1>5, UndoForgets
<1>6. CASE \E t \in Tabs, b \in Batch : OpenConfirmation(t, b)
  BY <1>6, OpenOpens DEF OpenConfirmation
<1>7. CASE \E t \in Tabs : Confirm(t)
  BY <1>7, ConfirmConfirms
<1>8. CASE \E p \in DOMAIN postings : EditPosting(p)
  BY <1>8, EditEdits
<1>9. CASE \E p \in DOMAIN postings : DeletePosting(p)
  BY <1>9, DeleteForgets
<1>10. CASE DateOpening \/ UNCHANGED vars
  BY <1>10 DEF DateOpening, vars, TypeInv, Batch
<1> QED
  BY <1>1, <1>2, <1>3, <1>4, <1>5, <1>6, <1>7, <1>8, <1>9, <1>10 DEF Next

LEMMA InitialTypes ==
  ASSUME Init
  PROVE  TypeInv
<1>1. /\ batches \in Seq(BatchRecord) /\ Len(batches) = 0 /\ Batch = {}
  BY DEF Init, Batch
<1>2. postings \in Seq(Posting \union {None})
  BY DEF Init, Posting
<1>3. MaxBatches \in Nat
  BY IngestionAssumption
<1> QED
  BY <1>1, <1>2, <1>3 DEF Init, TypeInv
-----------------------------------------------------------------------------
(* What a row created, and what created a posting                          *)

\* What a row remembers of its source is there, and is its own.
Created ==
    \A b \in Batch : \A n \in Rows(b) :
        LET p == batches[b].rows[n].created
        IN  p # None => /\ p \in DOMAIN postings /\ postings[p] # None
                        /\ postings[p].row = <<b, n>>

Explains(p, b, n) ==
    /\ b \in Confirmed /\ n \in Rows(b)
    /\ LET row == batches[b].rows[n]
       IN  /\ row.created = p /\ row.action = postings[p].kind
           /\ postings[p].edited \/ postings[p].cash = row.cash

\* PostingsAreExplained, by rows the statement has.
Explained ==
    \A p \in Standing : postings[p].kind # "manual" =>
        Explains(p, postings[p].row[1], postings[p].row[2])

Inv == TypeInv /\ Created /\ Explained

LEMMA PreparesKeepsConfirmed ==
  ASSUME Prepares
  PROVE  Confirmed' = Confirmed /\ \A b \in Confirmed : batches'[b] = batches[b]
  BY DEF Prepares, Confirmed, Waiting

LEMMA PreparesKeepsInv ==
  ASSUME Inv, Prepares
  PROVE  Created' /\ Explained'
<1>1. Created'
  <2> SUFFICES ASSUME NEW b \in Batch', NEW n \in Rows(b)', batches'[b].rows[n].created # None
               PROVE  LET p == batches'[b].rows[n].created
                      IN  /\ p \in DOMAIN postings /\ postings[p] # None
                          /\ postings[p].row = <<b, n>>
    BY DEF Created, Prepares
  <2>1. /\ b \in Batch /\ n \in Rows(b)
        /\ batches'[b].rows[n].created = batches[b].rows[n].created
    BY DEF Prepares, Rows
  <2> QED
    BY <2>1 DEF Inv, Created
<1>2. Explained'
  <2>1. /\ Confirmed' = Confirmed /\ UNCHANGED postings
        /\ \A b \in Confirmed : batches'[b] = batches[b] /\ Rows(b)' = Rows(b)
    BY PreparesKeepsConfirmed DEF Prepares, Rows
  <2> QED
    BY <2>1 DEF Inv, Explained, Explains, Standing
<1> QED
  BY <1>1, <1>2

LEMMA ForgetsKeepsInv ==
  ASSUME Inv, NEW gone, NEW undone, Forgets(gone, undone)
  PROVE  Created' /\ Explained'
<1>1. /\ Batch' = Batch
      /\ \A b \in Batch : /\ Rows(b)' = Rows(b)
                          /\ \A n \in Rows(b) :
                                LET old == batches[b].rows[n]  new == batches'[b].rows[n]
                                IN  /\ new.action = old.action /\ new.cash = old.cash
                                    /\ new.created = IF old.created \in gone THEN None
                                                     ELSE old.created
  BY BatchTypes, ForgottenRow DEF Forgets, Rows, Inv
<1>2. /\ DOMAIN postings' = DOMAIN postings
      /\ \A p \in DOMAIN postings : postings'[p] = IF p \in gone THEN None ELSE postings[p]
  BY ErasedPostings DEF Forgets, Inv
<1>3. Created'
  <2> SUFFICES ASSUME NEW b \in Batch', NEW n \in Rows(b)', batches'[b].rows[n].created # None
               PROVE  LET p == batches'[b].rows[n].created
                      IN  /\ p \in DOMAIN postings' /\ postings'[p] # None
                          /\ postings'[p].row = <<b, n>>
    BY DEF Created
  <2>1. /\ b \in Batch /\ n \in Rows(b) /\ batches[b].rows[n].created \notin gone
        /\ batches'[b].rows[n].created = batches[b].rows[n].created
    BY <1>1
  <2>2. PICK p : p = batches[b].rows[n].created
    OBVIOUS
  <2>3. p \in DOMAIN postings /\ postings[p] # None /\ postings[p].row = <<b, n>>
    BY <2>1, <2>2 DEF Inv, Created
  <2>4. p \notin gone /\ p \in DOMAIN postings' /\ postings'[p] = postings[p]
    BY <1>2, <2>1, <2>2, <2>3
  <2> QED
    BY <2>1, <2>2, <2>3, <2>4
<1>4. Explained'
  <2> SUFFICES ASSUME NEW p \in Standing', postings'[p].kind # "manual"
               PROVE  Explains(p, postings[p].row[1], postings[p].row[2])'
    BY DEF Explained
  <2>1. p \in DOMAIN postings /\ p \notin gone /\ postings'[p] = postings[p] /\ postings[p] # None
    BY <1>2 DEF Standing
  <2>2. Explains(p, postings[p].row[1], postings[p].row[2])
    BY <2>1 DEF Inv, Explained, Standing
  <2>3. \E b, n : b = postings[p].row[1] /\ n = postings[p].row[2]
    OBVIOUS
  <2>4. PICK b, n : b = postings[p].row[1] /\ n = postings[p].row[2]
    BY <2>3
  <2>5. /\ b \in Batch /\ n \in Rows(b) /\ batches[b].status = "CONFIRMED"
        /\ batches[b].rows[n].created = p
        /\ Explains(p, b, n)
    BY <2>2, <2>4 DEF Explains, Confirmed
  <2>6. p # None
    <3>1. p \in Nat /\ None \notin Nat
      BY <2>1, IngestionAssumption DEF Inv, TypeInv
    <3> QED
      BY <3>1
  <2>7. b \notin undone
    BY <2>1, <2>5, <2>6 DEF Forgets
  <2>8. b \in Confirmed'
    BY <1>1, <2>5, <2>7 DEF Forgets, Confirmed
  <2>9. Explains(p, b, n)'
    BY <1>1, <2>1, <2>5, <2>8 DEF Explains
  <2> QED
    BY <2>1, <2>4, <2>9
<1> QED
  BY <1>3, <1>4
LEMMA ConfirmedRows ==
  ASSUME TypeInv, NEW b \in Batch, NEW n \in Rows(b)
  PROVE  LET old == batches[b].rows[n]  new == ConfirmedRow(b, n)
         IN  /\ new.id = old.id /\ new.action = old.action /\ new.cash = old.cash
             /\ new.created = IF Posts(old) THEN NumberOf(b, n) ELSE None
<1> DEFINE created == IF Posts(batches[b].rows[n]) THEN NumberOf(b, n) ELSE None
<1>1. batches[b].rows[n] \in Row
  BY BatchTypes
<1>2. ConfirmedRow(b, n) = [batches[b].rows[n] EXCEPT !.created = created]
  BY DEF ConfirmedRow
<1> HIDE DEF created
<1>3. LET old == batches[b].rows[n]  new == ConfirmedRow(b, n)
      IN  /\ new.id = old.id /\ new.action = old.action /\ new.cash = old.cash
          /\ new.created = created
  BY <1>1, <1>2 DEF Row
<1> QED
  BY <1>3 DEF created

LEMMA ConfirmsKeepsInv ==
  ASSUME Inv, NEW b \in Batch, Confirms(b)
  PROVE  Created' /\ Explained'
<1>1. /\ Batch' = Batch /\ Rows(b)' = Rows(b)
      /\ \A c \in Batch \ {b} : batches'[c] = batches[c] /\ Rows(c)' = Rows(c)
  BY DEF Confirms, Rows
<1>2. \A n \in Rows(b) :
         LET old == batches[b].rows[n]  new == batches'[b].rows[n]
         IN  /\ new.id = old.id /\ new.action = old.action /\ new.cash = old.cash
             /\ new.created = IF Posts(old) THEN NumberOf(b, n) ELSE None
  <2> TAKE n \in Rows(b)
  <2>1. batches'[b].rows[n] = ConfirmedRow(b, n)
    BY DEF Confirms
  <2> QED
    BY <2>1, ConfirmedRows DEF Inv
<1>3. /\ DOMAIN postings \subseteq DOMAIN postings'
      /\ \A p \in DOMAIN postings : postings'[p] = postings[p]
      /\ \A n \in RowsPosting(b) : NumberOf(b, n) \in DOMAIN postings'
                                   /\ postings'[NumberOf(b, n)] = Source(b, n)
      /\ \A p \in DOMAIN postings' \ DOMAIN postings :
            \E n \in RowsPosting(b) : NumberOf(b, n) = p
  BY DEF Confirms
<1>4. Confirmed' = Confirmed \union {b} /\ b \notin Confirmed
  <2>1. batches[b].status # "CONFIRMED" /\ batches'[b].status = "CONFIRMED"
    BY DEF Confirms
  <2>2. \A c \in Batch : c # b => batches'[c] = batches[c]
    BY <1>1
  <2>3. Confirmed' = {c \in Batch : batches'[c].status = "CONFIRMED"}
    BY <1>1 DEF Confirmed
  <2> QED
    BY <2>1, <2>2, <2>3 DEF Confirmed
<1>5. \A n \in RowsPosting(b) : /\ Source(b, n) # None /\ Source(b, n).row = <<b, n>>
                                /\ Source(b, n).kind = batches[b].rows[n].action
                                /\ Source(b, n).cash = batches[b].rows[n].cash
  <2> TAKE n \in RowsPosting(b)
  <2>1. Source(b, n) # None
    BY SourcesArePostings, IngestionAssumption DEF Inv
  <2> QED
    BY <2>1 DEF Source
<1>6. Created'
  <2> SUFFICES ASSUME NEW c \in Batch', NEW n \in Rows(c)', batches'[c].rows[n].created # None
               PROVE  LET p == batches'[c].rows[n].created
                      IN  /\ p \in DOMAIN postings' /\ postings'[p] # None
                          /\ postings'[p].row = <<c, n>>
    BY DEF Created
  <2>1. CASE c # b
    BY <1>1, <1>3, <2>1 DEF Inv, Created
  <2>2. CASE c = b
    <3>1. n \in RowsPosting(b) /\ batches'[c].rows[n].created = NumberOf(b, n)
      BY <1>1, <1>2, <2>2 DEF RowsPosting
    <3> QED
      BY <1>3, <1>5, <2>2, <3>1
  <2> QED
    BY <2>1, <2>2
<1>7. Explained'
  <2> SUFFICES ASSUME NEW p \in Standing', postings'[p].kind # "manual"
               PROVE  \E c, n : c = postings'[p].row[1] /\ n = postings'[p].row[2]
                                /\ Explains(p, c, n)'
    BY DEF Explained
  <2>1. CASE p \in DOMAIN postings
    <3>1. p \in Standing /\ postings'[p] = postings[p]
      BY <1>3, <2>1 DEF Standing
    <3>2. Explains(p, postings[p].row[1], postings[p].row[2])
      BY <3>1 DEF Inv, Explained
    <3>3. \E c, n : c = postings[p].row[1] /\ n = postings[p].row[2]
      OBVIOUS
    <3>4. PICK c, n : c = postings[p].row[1] /\ n = postings[p].row[2]
      BY <3>3
    <3>5. c \in Confirmed /\ c \in Batch \ {b} /\ n \in Rows(c) /\ Explains(p, c, n)
      BY <1>4, <3>2, <3>4 DEF Explains, Confirmed
    <3>6. Explains(p, c, n)'
      BY <1>1, <1>4, <3>1, <3>5 DEF Explains
    <3> QED
      BY <3>1, <3>4, <3>6
  <2>2. CASE p \notin DOMAIN postings
    <3>1. PICK n \in RowsPosting(b) : NumberOf(b, n) = p
      BY <1>3, <2>2 DEF Standing
    <3>2. n \in Rows(b) /\ Posts(batches[b].rows[n]) /\ postings'[p] = Source(b, n)
      BY <1>3, <3>1 DEF RowsPosting
    <3>3. Explains(p, b, n)'
      BY <1>1, <1>2, <1>4, <1>5, <3>1, <3>2 DEF Explains
    <3>4. b = postings'[p].row[1] /\ n = postings'[p].row[2]
      BY <1>5, <3>2
    <3> QED
      BY <3>3, <3>4
  <2> QED
    BY <2>1, <2>2
<1> QED
  BY <1>6, <1>7

LEMMA EditsKeepsInv ==
  ASSUME Inv, NEW p, Edits(p)
  PROVE  Created' /\ Explained'
<1>1. /\ Batch' = Batch /\ Confirmed' = Confirmed /\ UNCHANGED batches
      /\ \A b : Rows(b)' = Rows(b)
  BY DEF Edits, Batch, Confirmed, Rows
<1>2. /\ DOMAIN postings' = DOMAIN postings /\ Standing' = Standing
      /\ \A s \in Standing : /\ postings'[s].kind = postings[s].kind
                             /\ postings'[s].row = postings[s].row
                             /\ postings'[s].edited \/ postings'[s] = postings[s]
  BY DEF Edits, Standing
<1>3. Created'
  BY <1>1, <1>2 DEF Inv, Created, Standing
<1>4. Explained'
  <2> SUFFICES ASSUME NEW s \in Standing, postings'[s].kind # "manual"
               PROVE  \E b, n : b = postings'[s].row[1] /\ n = postings'[s].row[2]
                                /\ Explains(s, b, n)'
    BY <1>2 DEF Explained
  <2>1. Explains(s, postings[s].row[1], postings[s].row[2])
    BY <1>2 DEF Inv, Explained
  <2>2. \E b, n : b = postings[s].row[1] /\ n = postings[s].row[2]
    OBVIOUS
  <2>3. PICK b, n : b = postings[s].row[1] /\ n = postings[s].row[2]
    BY <2>2
  <2>4. Explains(s, b, n)'
    BY <1>1, <1>2, <2>1, <2>3 DEF Explains
  <2> QED
    BY <1>2, <2>3, <2>4
<1> QED
  BY <1>3, <1>4
LEMMA InvIsInductive ==
  ASSUME Inv, [Next]_vars
  PROVE  Inv'
<1>1. TypeInv
  BY DEF Inv
<1>2. TypeInv'
  BY <1>1, EveryStep
<1>3. CASE Prepares
  BY <1>2, <1>3, PreparesKeepsInv DEF Inv
<1>4. ASSUME NEW t \in Tabs, Confirms(page[t].batch)
      PROVE  Inv'
  BY <1>2, <1>4, ConfirmsKeepsInv DEF Inv, Confirms
<1>5. ASSUME NEW b \in Batch, Undo(b)
      PROVE  Inv'
  BY <1>1, <1>2, <1>5, UndoForgets, ForgetsKeepsInv DEF Inv
<1>6. ASSUME NEW p \in DOMAIN postings, DeletePosting(p)
      PROVE  Inv'
  BY <1>1, <1>2, <1>6, DeleteForgets, ForgetsKeepsInv DEF Inv
<1>7. ASSUME NEW p, Edits(p)
      PROVE  Inv'
  BY <1>2, <1>7, EditsKeepsInv DEF Inv
<1>8. CASE UNCHANGED <<batches, postings, identities>>
  BY <1>2, <1>8 DEF Inv, Created, Explained, Explains, Standing, Confirmed, Batch, Rows
<1> QED
  BY <1>1, <1>3, <1>4, <1>5, <1>6, <1>7, <1>8, EveryStep

LEMMA Invariance == Spec => []Inv
<1>1. Init => Inv
  <2> SUFFICES ASSUME Init
               PROVE  Inv
    OBVIOUS
  <2>1. Batch = {}
    BY DEF Init, Batch
  <2>2. \A p \in DOMAIN postings : postings[p].kind = "manual"
    BY DEF Init
  <2> QED
    BY <2>1, <2>2, InitialTypes DEF Inv, Created, Explained, Standing
<1> QED
  BY <1>1, InvIsInductive, PTL DEF Spec

\* PostingsAreExplained: a posting on the ledger that a statement created is
\* created by a row of a statement that is confirmed, and unless the user
\* edited it has the cash of that row; an undone statement leaves nothing.
THEOREM LedgerIsExplained == Spec => []PostingsAreExplained
<1>1. Inv => PostingsAreExplained
  BY DEF Inv, Explained, Explains, PostingsAreExplained
<1> QED
  BY <1>1, Invariance, PTL

\* EvidenceIsKept: undoing a statement leaves the other confirmed ones exactly
\* as they are, with the sources they were matched with or created.
THEOREM OthersKeepTheirEvidence == Spec => EvidenceIsKept
<1> DEFINE Kept == \A b \in Batch :
              batches[b].status = "CONFIRMED" /\ batches'[b].status = "UNDONE" =>
                 \A c \in Confirmed \ {b} : batches'[c] = batches[c]
<1>1. Inv /\ [Next]_vars => Kept
  <2> SUFFICES ASSUME Inv, [Next]_vars, NEW b \in Batch, batches[b].status = "CONFIRMED",
                      batches'[b].status = "UNDONE", NEW c \in Confirmed \ {b}
               PROVE  batches'[c] = batches[c]
    OBVIOUS
  <2>1. TypeInv
    BY DEF Inv
  <2>2. c \in Batch /\ batches[c].status = "CONFIRMED"
    BY DEF Confirmed
  <2>3. CASE Prepares
    BY <2>3, PreparesKeepsConfirmed
  <2>4. ASSUME NEW t \in Tabs, Confirms(page[t].batch)
        PROVE  batches'[c] = batches[c]
    BY <2>2, <2>4 DEF Confirms
  <2>5. ASSUME NEW d \in Batch, Undo(d)
        PROVE  batches'[c] = batches[c]
    <3> DEFINE gone == {batches[d].rows[n].created : n \in Rows(d)} \ {None}
    <3>1. d = b
      BY <2>1, <2>5, UndoForgets DEF Forgets
    <3>2. batches'[c] = ForgetBatch(gone, batches[c])
      BY <2>1, <2>2, <2>5, <3>1, UndoForgets
    <3>3. \A n \in Rows(c) : batches[c].rows[n].match \notin gone
      BY <2>2, <2>5, <3>1 DEF Undo, UsedElsewhere
    <3>4. \A n \in Rows(c) : batches[c].rows[n].created \notin gone
      <4> SUFFICES ASSUME NEW n \in Rows(c), NEW m \in Rows(d),
                          batches[c].rows[n].created = batches[d].rows[m].created,
                          batches[d].rows[m].created # None
                   PROVE  FALSE
        OBVIOUS
      <4>1. postings[batches[c].rows[n].created].row = <<c, n>>
        BY <2>2 DEF Inv, Created
      <4>2. postings[batches[d].rows[m].created].row = <<d, m>>
        BY DEF Inv, Created
      <4>3. <<c, n>> = <<d, m>>
        BY <4>1, <4>2
      <4>4. c = d
        BY <4>3
      <4> QED
        BY <3>1, <4>4
    <3> HIDE DEF gone
    <3> QED
      BY <2>1, <2>2, <3>2, <3>3, <3>4, UnaffectedBatch
  <2>6. ASSUME NEW p \in DOMAIN postings, DeletePosting(p)
        PROVE  FALSE
    BY <2>1, <2>6, DeleteForgets DEF Forgets
  <2>7. CASE UNCHANGED batches
    BY <2>7
  <2> QED
    BY <2>1, <2>3, <2>4, <2>5, <2>6, <2>7, EveryStep DEF Edits
<1> HIDE DEF Kept
<1>2. Spec => [][Kept]_vars
  BY <1>1, Invariance, PTL DEF Spec
<1> QED
  BY <1>2 DEF EvidenceIsKept, Kept
-----------------------------------------------------------------------------
(* The bank's entries count once                                           *)

Entry(b, n) == [id |-> batches[b].rows[n].id, row |-> <<b, n>>]
Heard(b) == {n \in Taken(b) : batches[b].rows[n].id # ""}

Identified ==
    /\ \A i, j \in identities : i.id = j.id => i = j
    /\ \A i : i \in identities <=> \E b \in Confirmed : \E n \in Heard(b) : i = Entry(b, n)

LEMMA PreparesKeepsIdentified ==
  ASSUME Identified, Prepares
  PROVE  Identified'
<1>1. /\ Confirmed' = Confirmed /\ UNCHANGED identities
      /\ \A b \in Confirmed : batches'[b] = batches[b]
  BY PreparesKeepsConfirmed DEF Prepares
<1>2. \A b \in Confirmed : Heard(b)' = Heard(b) /\ \A n : Entry(b, n)' = Entry(b, n)
  BY <1>1 DEF Heard, Taken, Rows, Entry
<1> QED
  BY <1>1, <1>2 DEF Identified

LEMMA ForgetsKeepsIdentified ==
  ASSUME TypeInv, Identified, NEW gone, NEW undone, Forgets(gone, undone)
  PROVE  Identified'
<1>1. \A b \in Batch : /\ Rows(b)' = Rows(b)
                       /\ \A n \in Rows(b) : /\ batches'[b].rows[n].id = batches[b].rows[n].id
                                             /\ batches'[b].rows[n].action = batches[b].rows[n].action
  BY BatchTypes, ForgottenRow DEF Forgets, Rows
<1>2. Confirmed' = Confirmed \ undone
  BY DEF Forgets, Confirmed
<1>3. \A b \in Batch : Heard(b)' = Heard(b) /\ \A n \in Heard(b) : Entry(b, n)' = Entry(b, n)
  BY <1>1 DEF Heard, Taken, Entry
<1>4. identities' = {i \in identities : i.row[1] \notin undone}
  BY DEF Forgets
<1>5. \A b, n : Entry(b, n).row[1] = b
  BY DEF Entry
<1>6. Confirmed \subseteq Batch
  BY DEF Confirmed
<1>7. \A i : i \in identities' <=> \E b \in Confirmed' : \E n \in Heard(b)' : i = Entry(b, n)'
  <2> SUFFICES ASSUME NEW i
               PROVE  i \in identities' <=> \E b \in Confirmed' : \E n \in Heard(b)' : i = Entry(b, n)'
    OBVIOUS
  <2>1. ASSUME i \in identities'
        PROVE  \E b \in Confirmed' : \E n \in Heard(b)' : i = Entry(b, n)'
    <3>1. PICK b \in Confirmed : \E n \in Heard(b) : i = Entry(b, n)
      BY <1>4, <2>1 DEF Identified
    <3>2. PICK n \in Heard(b) : i = Entry(b, n)
      BY <3>1
    <3>3. b \in Confirmed' /\ b \in Batch
      BY <1>2, <1>4, <1>5, <1>6, <2>1, <3>2
    <3> QED
      BY <1>3, <3>2, <3>3
  <2>2. ASSUME NEW b \in Confirmed', NEW n \in Heard(b)', i = Entry(b, n)'
        PROVE  i \in identities'
    <3>1. b \in Confirmed /\ b \in Batch /\ b \notin undone
      BY <1>2, <1>6
    <3>2. n \in Heard(b) /\ i = Entry(b, n)
      BY <1>3, <2>2, <3>1
    <3>3. i \in identities
      BY <3>1, <3>2 DEF Identified
    <3> QED
      BY <1>4, <1>5, <3>1, <3>2, <3>3
  <2> QED
    BY <2>1, <2>2
<1> QED
  BY <1>4, <1>7 DEF Identified
LEMMA ConfirmsKeepsIdentified ==
  ASSUME TypeInv, Identified, NEW b \in Batch, Confirms(b)
  PROVE  Identified'
<1>1. /\ Rows(b)' = Rows(b)
      /\ \A n \in Rows(b) : /\ batches'[b].rows[n].id = batches[b].rows[n].id
                            /\ batches'[b].rows[n].action = batches[b].rows[n].action
  <2>1. Rows(b)' = Rows(b)
    BY DEF Confirms, Rows
  <2>2. \A n \in Rows(b) : batches'[b].rows[n] = ConfirmedRow(b, n)
    BY DEF Confirms
  <2> QED
    BY <2>1, <2>2, ConfirmedRows
<1>2. Confirmed' = Confirmed \union {b} /\ b \notin Confirmed /\ Confirmed \subseteq Batch
  BY DEF Confirms, Confirmed
<1>3. Heard(b)' = Heard(b) /\ \A n \in Heard(b) : Entry(b, n)' = Entry(b, n)
  BY <1>1 DEF Heard, Taken, Entry
<1>4. \A c \in Confirmed : Heard(c)' = Heard(c) /\ \A n \in Heard(c) : Entry(c, n)' = Entry(c, n)
  BY <1>2 DEF Confirms, Heard, Taken, Rows, Entry
<1>5. identities' = identities \union {Entry(b, n) : n \in Heard(b)}
  BY DEF Confirms, Entry, Heard
<1>6. \A i : i \in identities' <=> \E c \in Confirmed' : \E n \in Heard(c)' : i = Entry(c, n)'
  BY <1>2, <1>3, <1>4, <1>5 DEF Identified
<1>7. \A n \in Heard(b) : \A i \in identities : i.id # Entry(b, n).id
  <2> TAKE n \in Heard(b)
  <2>1. n \in Taken(b) /\ n \in Rows(b) /\ batches[b].rows[n].id # ""
    BY DEF Heard, Taken
  <2>2. Valid(batches[b].rows[n]) /\ batches[b].rows[n].action # "SKIP"
    BY <2>1 DEF Confirms, Taken
  <2> QED
    BY <2>1, <2>2 DEF Valid, IsNew, Entry
<1>8. \A n, m \in Heard(b) : Entry(b, n).id = Entry(b, m).id => n = m
  BY DEF Confirms, FitTogether, Heard, Entry
<1>9. \A i, j \in identities' : i.id = j.id => i = j
  <2> TAKE i, j \in identities'
  <2>1. CASE i \in identities /\ j \in identities
    BY <2>1 DEF Identified
  <2>2. CASE i \notin identities /\ j \in identities
    BY <1>5, <1>7, <2>2
  <2>3. CASE i \in identities /\ j \notin identities
    BY <1>5, <1>7, <2>3
  <2>4. CASE i \notin identities /\ j \notin identities
    BY <1>5, <1>8, <2>4
  <2> QED
    BY <2>1, <2>2, <2>3, <2>4
<1> QED
  BY <1>6, <1>9 DEF Identified

LEMMA IdentifiedIsInductive ==
  ASSUME TypeInv, Identified, [Next]_vars
  PROVE  Identified'
<1>1. ASSUME NEW t \in Tabs, Confirms(page[t].batch)
      PROVE  Identified'
  BY <1>1, ConfirmsKeepsIdentified DEF Confirms
<1>2. ASSUME NEW b \in Batch, Undo(b)
      PROVE  Identified'
  BY <1>2, UndoForgets, ForgetsKeepsIdentified
<1>3. ASSUME NEW p \in DOMAIN postings, DeletePosting(p)
      PROVE  Identified'
  BY <1>3, DeleteForgets, ForgetsKeepsIdentified
<1>4. CASE UNCHANGED <<batches, identities>>
  <2>1. /\ Confirmed' = Confirmed /\ \A b : Heard(b)' = Heard(b)
        /\ \A b, n : Entry(b, n)' = Entry(b, n)
    BY <1>4 DEF Confirmed, Batch, Heard, Taken, Rows, Entry
  <2> QED
    BY <1>4, <2>1 DEF Identified
<1> QED
  BY <1>1, <1>2, <1>3, <1>4, PreparesKeepsIdentified, EveryStep DEF Edits

\* EntriesCountOnce: no two rows of confirmed statements that were not skipped
\* have the same identifier of the bank, and the identifiers that are taken are
\* those of these rows and no other.
THEOREM BankEntriesCountOnce == Spec => []EntriesCountOnce
<1>1. Init => Identified
  BY DEF Init, Identified, Confirmed, Batch
<1>2. Identified => EntriesCountOnce
  <2> SUFFICES ASSUME Identified
               PROVE  identities = UNION {{Entry(b, n) : n \in Heard(b)} : b \in Confirmed}
    BY DEF Identified, EntriesCountOnce, Entry, Heard
  <2> QED
    BY DEF Identified
<1>3. Inv => TypeInv
  BY DEF Inv
<1> QED
  BY <1>1, <1>2, <1>3, Invariance, IdentifiedIsInductive, PTL DEF Spec
-----------------------------------------------------------------------------
(* A statement is posted as it was reviewed                                *)

LEMMA ActionsAreDecisions ==
  ASSUME NEW rows \in Seq(Row)
  PROVE  /\ Actions(rows) \in Seq(RowActions)
         /\ Actions(rows) # <<"pending">> /\ Actions(rows) # <<"withdrawn">>
<1>1. Len(rows) \in Nat /\ DOMAIN rows = 1 .. Len(rows) /\ \A n \in DOMAIN rows : rows[n] \in Row
  BY ElementOfSeq
<1>2. Actions(rows) \in [1 .. Len(rows) -> RowActions]
  BY <1>1, RowTypes DEF Actions
<1>3. Actions(rows) \in Seq(RowActions)
  BY <1>1, <1>2, FunctionsAreSequences
<1>4. "pending" \notin RowActions /\ "withdrawn" \notin RowActions
  BY DEF RowActions
<1>5. ASSUME NEW x, Actions(rows) = <<x>>
      PROVE  x \in RowActions
  BY <1>3, <1>5
<1> QED
  BY <1>3, <1>4, <1>5

LEMMA Shows ==
  ASSUME TypeInv, NEW t \in Tabs, page[t] # None
  PROVE  /\ Offered[t] = [statement |-> page[t].batch,
                           decisions |-> Actions(page[t].digest.rows)]
         /\ Offered[t] # None
<1>1. page[t].batch \in Nat /\ page[t].digest.rows \in Seq(Row)
  BY DEF TypeInv, Shown
<1>2. Actions(page[t].digest.rows) \in Seq(RowActions)
  BY <1>1, ActionsAreDecisions
<1>3. Offered[t] = [statement |-> page[t].batch, decisions |-> Actions(page[t].digest.rows)]
  BY DEF Offered
<1> QED
  BY <1>1, <1>2, <1>3, IngestionAssumption

LEMMA PreparedState ==
  ASSUME Prepares
  PROVE  UNCHANGED <<Offered, Outcomes>>
<1>1. \A b : Outcome(b)' = Outcome(b)
  BY DEF Prepares, Outcome, Waiting
<1> QED
  BY <1>1 DEF Prepares, Offered, Outcomes

LEMMA ForgottenState ==
  ASSUME TypeInv, NEW gone, NEW undone, Forgets(gone, undone)
  PROVE  /\ \A b : Outcome(b)' = IF b \in undone THEN <<"withdrawn">> ELSE Outcome(b)
         /\ UNCHANGED Offered
<1>1. \A b \in Batch : Actions(batches'[b].rows) = Actions(batches[b].rows)
  <2> TAKE b \in Batch
  <2>1. /\ DOMAIN batches'[b].rows = DOMAIN batches[b].rows
        /\ \A n \in DOMAIN batches[b].rows :
              batches'[b].rows[n].action = batches[b].rows[n].action
    BY BatchTypes, ForgottenRow DEF Forgets, Rows
  <2> QED
    BY <2>1 DEF Actions
<1>2. \A b : Outcome(b)' = IF b \in undone THEN <<"withdrawn">> ELSE Outcome(b)
  BY <1>1 DEF Forgets, Outcome
<1> QED
  BY <1>2 DEF Forgets, Offered
LEMMA ConfirmedState ==
  ASSUME TypeInv, NEW t \in Tabs, Confirm(t), Confirms(page[t].batch)
  PROVE  /\ Outcome(page[t].batch) = <<"pending">>
         /\ \A b : Outcome(b)' = IF b = page[t].batch THEN Actions(page[t].digest.rows)
                                 ELSE Outcome(b)
         /\ UNCHANGED Offered
<1> DEFINE c == page[t].batch
<1>1. /\ c \in Batch /\ batches[c].status = "READY" /\ Batch' = Batch
      /\ \A b \in Batch \ {c} : batches'[b] = batches[b]
      /\ batches'[c].status = "CONFIRMED" /\ UNCHANGED page
  BY DEF Confirms
<1>2. batches[c].rows = page[t].digest.rows
  <2>1. Digest(c) = page[t].digest
    BY DEF Confirm, IsAsShown
  <2>2. Digest(c).rows = batches[c].rows
    BY DEF Digest
  <2> QED
    BY <2>1, <2>2
<1>3. Actions(batches'[c].rows) = Actions(batches[c].rows)
  <2>1. DOMAIN batches'[c].rows = DOMAIN batches[c].rows
    BY DEF Confirms, Rows
  <2>2. \A n \in DOMAIN batches[c].rows : batches'[c].rows[n] = ConfirmedRow(c, n)
    BY DEF Confirms, Rows
  <2>3. \A n \in DOMAIN batches[c].rows : batches'[c].rows[n].action = batches[c].rows[n].action
    BY <1>1, <2>2, ConfirmedRows DEF Rows
  <2> QED
    BY <2>1, <2>3 DEF Actions
<1>4. UNCHANGED Offered
  BY <1>1 DEF Offered
<1> HIDE DEF c
<1>5. Outcome(c) = <<"pending">>
  BY <1>1 DEF Outcome
<1>6. \E x : x = c
  OBVIOUS
<1>7. PICK x : x = c
  BY <1>6
<1>8. \A b : Outcome(b)' = IF b = x THEN Actions(batches[x].rows) ELSE Outcome(b)
  BY <1>1, <1>3, <1>7 DEF Outcome
<1> QED
  BY <1>2, <1>4, <1>5, <1>7, <1>8 DEF c

LEMMA StepsArePromised ==
  ASSUME TypeInv, [Next]_vars
  PROVE  [Reviewed!Next]_(Reviewed!vars)
<1>1. /\ Outcomes = [b \in 1 .. MaxBatches |-> Outcome(b)]
      /\ Outcomes' = [b \in 1 .. MaxBatches |-> Outcome(b)']
  BY DEF Outcomes
<1>2. Batch \subseteq 1 .. MaxBatches
  BY IngestionAssumption DEF TypeInv, Batch
<1>3. ASSUME UNCHANGED <<Offered, Outcomes>>
      PROVE  UNCHANGED Reviewed!vars
  BY <1>3 DEF Reviewed!vars
<1>4. CASE Prepares
  BY <1>3, <1>4, PreparedState
<1>5. ASSUME NEW t \in Tabs, Confirm(t), Confirms(page[t].batch)
      PROVE  Reviewed!Next
  <2> DEFINE c == page[t].batch
  <2>1. c \in Batch /\ c \in 1 .. MaxBatches
    BY <1>2, <1>5 DEF Confirms
  <2>2. /\ Offered[t] # None /\ Offered[t].statement = c
        /\ Offered[t].decisions = Actions(page[t].digest.rows)
    <3>1. page[t] # None
      BY <1>5 DEF Confirm
    <3>2. /\ Offered[t] # None
          /\ Offered[t] = [statement |-> c, decisions |-> Actions(page[t].digest.rows)]
      BY <3>1, Shows
    <3> HIDE DEF c
    <3> QED
      BY <3>2
  <2>3. /\ Outcome(c) = <<"pending">>
        /\ \A b : Outcome(b)' = IF b = c THEN Offered[t].decisions ELSE Outcome(b)
        /\ UNCHANGED Offered
    BY <1>5, <2>2, ConfirmedState
  <2> HIDE DEF c
  <2>4. Outcomes' = [Outcomes EXCEPT ![Offered[t].statement] = Offered[t].decisions]
    BY <1>1, <2>1, <2>2, <2>3
  <2>5. Outcomes[Offered[t].statement] = <<"pending">>
    BY <1>1, <2>1, <2>2, <2>3
  <2>6. Reviewed!Post(t)
    BY <2>2, <2>3, <2>4, <2>5 DEF Reviewed!Post
  <2> QED
    BY <2>6 DEF Reviewed!Next
<1>6. ASSUME NEW d \in Batch, Undo(d)
      PROVE  Reviewed!Next
  <2>1. /\ \A b : Outcome(b)' = IF b = d THEN <<"withdrawn">> ELSE Outcome(b)
        /\ UNCHANGED Offered
    BY <1>6, UndoForgets, ForgottenState
  <2>2. Outcome(d) = Actions(batches[d].rows)
    BY <1>6 DEF Undo, Outcome
  <2>3. Outcome(d) \notin {<<"pending">>, <<"withdrawn">>}
    BY <2>2, BatchTypes, ActionsAreDecisions
  <2>4. Outcomes' = [Outcomes EXCEPT ![d] = <<"withdrawn">>]
    BY <1>1, <1>2, <2>1
  <2>5. Outcomes[d] \notin {<<"pending">>, <<"withdrawn">>}
    BY <1>1, <1>2, <2>3
  <2>6. Reviewed!Undo(d)
    BY <2>1, <2>4, <2>5 DEF Reviewed!Undo
  <2> QED
    BY <1>2, <2>6 DEF Reviewed!Next
<1>7. ASSUME NEW p \in DOMAIN postings, DeletePosting(p)
      PROVE  UNCHANGED Reviewed!vars
  <2>1. Forgets({p}, {})
    BY <1>7, DeleteForgets
  <2>2. (\A b : Outcome(b)' = Outcome(b)) /\ UNCHANGED Offered
    BY <2>1, ForgottenState
  <2> QED
    BY <1>1, <1>3, <2>2
<1>8. CASE UNCHANGED <<batches, page>>
  <2>1. (\A b : Outcome(b)' = Outcome(b)) /\ UNCHANGED Offered
    BY <1>8 DEF Outcome, Batch, Offered
  <2> QED
    BY <1>1, <1>3, <2>1
<1>9. ASSUME NEW t \in Tabs, NEW b \in Batch, OpenConfirmation(t, b)
      PROVE  Reviewed!Next
  <2>1. \A c : Outcome(c)' = Outcome(c)
    BY <1>9 DEF OpenConfirmation, Outcome, Batch
  <2>2. UNCHANGED Outcomes
    BY <1>1, <2>1
  <2>3. \A u \in Tabs \ {t} : Offered'[u] = Offered[u]
    BY <1>9 DEF OpenConfirmation, Offered
  <2>4. Reviewed!Load(t)
    BY <2>2, <2>3 DEF Reviewed!Load
  <2> QED
    BY <2>4 DEF Reviewed!Next
<1> QED
  BY <1>4, <1>5, <1>6, <1>7, <1>8, <1>9, EveryStep DEF Edits

\* PostsWhatWasReviewed: a statement is posted at most once, with the decisions
\* the confirming page showed, and once undone it stays undone.
THEOREM PostedAsReviewed == Spec => PostsWhatWasReviewed
<1>1. Init => Reviewed!Init
  BY DEF Init, Batch, Outcome, Offered, Outcomes, Reviewed!Init
<1>2. Inv => TypeInv
  BY DEF Inv
<1>3. TypeInv /\ [Next]_vars => [Reviewed!Next]_(Reviewed!vars)
  BY StepsArePromised
<1> QED
  BY <1>1, <1>2, <1>3, Invariance, PTL DEF Spec, PostsWhatWasReviewed, Reviewed!Spec
-----------------------------------------------------------------------------
(* The vault.                                                              *)
(*                                                                         *)
(* That records stay readable needs no lock: a key or an identity is only  *)
(* published where none is, by a request that had found no record, and a   *)
(* record is only written under a key and an identity that are there; so   *)
(* when one is published there still is no record.  That a setup is taken  *)
(* up rests on the setup lock: what a request listed when it took the lock *)
(* stays what is there.                                                    *)

Phases == {"start", "consider", "link", "unlink", "ready", "use", "act",
           "done", "failed", "dead"}

Shape == TypeOK /\ pc \in [Requests -> Phases \X (KeyFiles \union {"end"})]

LEMMA InitShape == IsUsedWell => (VaultInit => Shape)
<1> SUFFICES ASSUME IsUsedWell, VaultInit
             PROVE  Shape
  OBVIOUS
<1>1. Nothing \in [key : 0 .. MaxMade, host : 0 .. MaxMade]
  BY DEF Nothing, IsUsedWell
<1>2. file \in [KeyFiles -> 0 .. MaxMade] /\ cipher \in [Requests -> 0 .. MaxMade]
  BY DEF VaultInit, IsUsedWell
<1>3. record \in [Records -> [key : 0 .. MaxMade, host : 0 .. MaxMade]]
  BY <1>1 DEF VaultInit
<1>4. pc \in [Requests -> Phases \X (KeyFiles \union {"end"})]
  BY DEF VaultInit, Phases, KeyFiles
<1>5. temporary = {} /\ used = {} /\ made \in 0 .. MaxMade
  BY DEF VaultInit, IsUsedWell
<1>6. lock \in [Locks -> Requests \union {Unlocked}]
  BY DEF VaultInit
<1>7. seen \in [Requests -> SUBSET (KeyFiles \union Records \union {"other"})]
  BY DEF VaultInit
<1> QED
  BY <1>2, <1>3, <1>4, <1>5, <1>6, <1>7 DEF VaultInit, Shape, TypeOK

\* A temporary name is added, or those of a request are published.
LEMMA Naming ==
  ASSUME Shape, NEW q \in Requests, NEW f \in KeyFiles \union Records
  PROVE  LET Names == [name : KeyFiles \union Records, published : BOOLEAN, of : Requests]
         IN  /\ temporary \union {[name |-> f, published |-> FALSE, of |-> q]} \subseteq Names
             /\ {IF t.of = q THEN [t EXCEPT !.published = TRUE] ELSE t : t \in temporary}
                   \subseteq Names
<1> DEFINE Names == [name : KeyFiles \union Records, published : BOOLEAN, of : Requests]
<1>1. [name |-> f, published |-> FALSE, of |-> q] \in Names
  OBVIOUS
<1>2. \A t \in temporary : t \in Names
  BY DEF Shape, TypeOK
<1>3. \A t \in Names : [t EXCEPT !.published = TRUE] \in Names
  OBVIOUS
<1>4. /\ temporary \union {[name |-> f, published |-> FALSE, of |-> q]} \subseteq Names
      /\ {IF t.of = q THEN [t EXCEPT !.published = TRUE] ELSE t : t \in temporary} \subseteq Names
  <2> HIDE DEF Names
  <2> QED
    BY <1>1, <1>2, <1>3
<1> QED
  BY <1>4

\* Going somewhere keeps the places of the others.
LEMMA Going ==
  ASSUME Shape, NEW q \in Requests, NEW phase \in Phases, NEW f \in KeyFiles \union {"end"},
         Go(q, phase, f)
  PROVE  /\ pc' \in [Requests -> Phases \X (KeyFiles \union {"end"})]
         /\ pc'[q] = <<phase, f>>
         /\ \A p \in Requests \ {q} : pc'[p] = pc[p]
  BY DEF Shape, Go

\* A request that ends gives its locks back and keeps nobody else's.
LEMMA Releasing ==
  ASSUME Shape, NEW q \in Requests, Release(q)
  PROVE  /\ lock' \in [Locks -> Requests \union {Unlocked}]
         /\ \A i \in Locks : lock'[i] = IF lock[i] = q THEN Unlocked ELSE lock[i]
  BY DEF Shape, TypeOK, Release

\* Every step keeps the declared shape.
LEMMA ShapeStep == IsUsedWell /\ Shape /\ [VaultNext]_vaultVars => Shape'
<1> SUFFICES ASSUME IsUsedWell, Shape, [VaultNext]_vaultVars
             PROVE  Shape'
  OBVIOUS
<1> USE DEF Phases, KeyFiles
<1>0. /\ lock \in [Locks -> Requests \union {Unlocked}]
      /\ pc \in [Requests -> Phases \X (KeyFiles \union {"end"})]
      /\ "setup" \in Locks /\ \A r \in Records : r \in Locks
      /\ \A q \in Requests : RecordOf[q] \in Records
  BY DEF Shape, TypeOK, Locks, IsUsedWell
<1>1. ASSUME NEW q \in Requests, Enter(q)
      PROVE  Shape'
  <2>1. Listed \in SUBSET (KeyFiles \union Records \union {"other"})
    BY DEF Listed
  <2> QED
    BY <1>1, <1>0, <2>1, Going DEF Shape, TypeOK, Enter
<1>2. ASSUME NEW q \in Requests, NEW f \in KeyFiles \union {"end"}, Consider(q, f)
      PROVE  Shape'
  <2>1. temporary' \subseteq [name : KeyFiles \union Records, published : BOOLEAN, of : Requests]
    BY <1>2, Naming DEF Consider, Shape, TypeOK
  <2>2. f \in KeyFiles => Following(f) \in KeyFiles \union {"end"}
    BY DEF Following
  <2>3. pc' \in [Requests -> Phases \X (KeyFiles \union {"end"})]
    BY <1>2, <1>0, <2>2, Going DEF Consider, Fail
  <2>4. lock' \in [Locks -> Requests \union {Unlocked}]
    BY <1>2, <1>0, Releasing DEF Consider, Fail
  <2> QED
    BY <1>2, <2>1, <2>3, <2>4 DEF Consider, Shape, TypeOK
<1>3. ASSUME NEW q \in Requests, NEW f \in KeyFiles, Link(q, f)
      PROVE  Shape'
  <2>1. temporary' \subseteq [name : KeyFiles \union Records, published : BOOLEAN, of : Requests]
    BY <1>3, Naming DEF Link
  <2>2. made' \in 0 .. MaxMade /\ file' \in [KeyFiles -> 0 .. MaxMade]
    BY <1>3 DEF Link, Shape, TypeOK, IsUsedWell
  <2> QED
    BY <1>3, <1>0, <2>1, <2>2, Going DEF Link, Shape, TypeOK
<1>4. ASSUME NEW q \in Requests, NEW f \in KeyFiles, Unlink(q, f)
      PROVE  Shape'
  <2>1. Following(f) \in KeyFiles \union {"end"}
    BY DEF Following
  <2> QED
    BY <1>4, <1>0, <2>1, Going DEF Unlink, Shape, TypeOK
<1>5. ASSUME NEW q \in Requests, LockRecord(q)
      PROVE  Shape'
  BY <1>5, <1>0, Going, Releasing DEF LockRecord, Fail, Shape, TypeOK
<1>6. ASSUME NEW q \in Requests, Open(q)
      PROVE  Shape'
  <2>1. temporary' \subseteq [name : KeyFiles \union Records, published : BOOLEAN, of : Requests]
    BY <1>6, <1>0, Naming DEF Open, Shape, TypeOK
  <2>2. cipher' \in [Requests -> 0 .. MaxMade]
    BY <1>6 DEF Open, Shape, TypeOK
  <2> QED
    BY <1>6, <1>0, <2>1, <2>2, Going, Releasing DEF Open, Fail, Shape, TypeOK
<1>7. ASSUME NEW q \in Requests, Write(q)
      PROVE  Shape'
  <2>1. record' \in [Records -> [key : 0 .. MaxMade, host : 0 .. MaxMade]]
    BY <1>7, <1>0 DEF Write, Shape, TypeOK
  <2> QED
    BY <1>7, <1>0, <2>1, Going, Releasing DEF Write, Shape, TypeOK
<1>8. ASSUME NEW q \in Requests, Delete(q)
      PROVE  Shape'
  <2>1. record' \in [Records -> [key : 0 .. MaxMade, host : 0 .. MaxMade]]
    BY <1>8, <1>0 DEF Delete, Shape, TypeOK, Nothing, IsUsedWell
  <2> QED
    BY <1>8, <1>0, <2>1, Going, Releasing DEF Delete, Shape, TypeOK
<1>9. ASSUME NEW q \in Requests, Read(q)
      PROVE  Shape'
  BY <1>9, <1>0, Going, Releasing DEF Read, Fail, Shape, TypeOK
<1>10. ASSUME NEW q \in Requests, Crash(q)
       PROVE  Shape'
  <2>1. litter' \in BOOLEAN
    BY <1>10 DEF Crash
  <2> QED
    BY <1>10, <1>0, <2>1, Going, Releasing DEF Crash, Shape, TypeOK
<1>11. ASSUME NEW f \in KeyFiles, Restore(f)
       PROVE  Shape'
  BY <1>11 DEF Restore, Shape, TypeOK, IsUsedWell
<1>12. CASE UNCHANGED vaultVars
  BY <1>12 DEF vaultVars, Shape, TypeOK
<1> QED
  BY <1>1, <1>2, <1>3, <1>4, <1>5, <1>6, <1>7, <1>8, <1>9, <1>10, <1>11, <1>12
    DEF VaultNext, Step
-----------------------------------------------------------------------------
(* What is stored stays readable                                           *)

\* A request at work in a record has opened the key that is there.
UsersHoldTheKey ==
    \A q \in Requests : pc[q][1] = "act" =>
        file["key"] # 0 /\ file["host"] # 0 /\ cipher[q] = file["key"]

Empty == \A r \in Records : record[r] = Nothing
Setting(q) == pc[q][1] \in {"consider", "link", "unlink"}

\* A request that sets the directory up and listed no record is right about
\* that as long as something is missing; only such a request publishes a key or
\* an identity.
MakersFoundNothing ==
    \A q \in Requests : Setting(q) =>
        /\ seen[q] \intersect Records = {} /\ (file["key"] = 0 \/ file["host"] = 0) => Empty
        /\ pc[q] \in {<<"link", "key">>, <<"link", "host">>} => seen[q] \intersect Records = {}

ReadableInv == Shape /\ UsersHoldTheKey /\ MakersFoundNothing /\ RecordsStayReadable

LEMMA ReadableStep == IsUsedWell /\ ReadableInv /\ [VaultNext]_vaultVars => ReadableInv'
<1> SUFFICES ASSUME IsUsedWell, ReadableInv, [VaultNext]_vaultVars
             PROVE  ReadableInv'
  OBVIOUS
<1> USE DEF Phases, KeyFiles
<1>0. /\ Shape /\ UsersHoldTheKey /\ MakersFoundNothing /\ RecordsStayReadable
      /\ Shape'
      /\ Records \intersect {"key", "check", "host", "other", "setup"} = {}
      /\ \A q \in Requests : RecordOf[q] \in Records
  BY ShapeStep DEF ReadableInv, IsUsedWell
<1> SUFFICES UsersHoldTheKey' /\ MakersFoundNothing' /\ RecordsStayReadable'
  BY <1>0 DEF ReadableInv
<1>1. ASSUME NEW q \in Requests, Enter(q)
      PROVE  UsersHoldTheKey' /\ MakersFoundNothing' /\ RecordsStayReadable'
  <2>1. Listed \intersect Records = {} => Empty
    BY <1>0 DEF Listed, Empty
  <2>2. /\ pc'[q] = <<"consider", "key">> /\ \A p \in Requests \ {q} : pc'[p] = pc[p]
        /\ seen'[q] = Listed /\ \A p \in Requests \ {q} : seen'[p] = seen[p]
        /\ UNCHANGED <<file, record, cipher>>
    BY <1>1, <1>0, Going DEF Enter, Shape, TypeOK
  <2> QED
    BY <1>0, <2>1, <2>2 DEF UsersHoldTheKey, MakersFoundNothing, RecordsStayReadable, Setting, Empty
<1>2. ASSUME NEW q \in Requests, NEW f \in KeyFiles \union {"end"}, Consider(q, f)
      PROVE  UsersHoldTheKey' /\ MakersFoundNothing' /\ RecordsStayReadable'
  <2>1. /\ pc[q] = <<"consider", f>> /\ \A p \in Requests \ {q} : pc'[p] = pc[p]
        /\ \/ pc'[q][1] \in {"consider", "failed", "ready"}
           \/ pc'[q] = <<"link", f>> /\ f \in KeyFiles /\ MayMake(f, seen[q])
        /\ UNCHANGED <<file, record, cipher, seen>>
    <3>1. f \in KeyFiles => Following(f) \in KeyFiles \union {"end"}
      BY DEF Following
    <3> QED
      BY <1>2, <1>0, <3>1, Going DEF Consider, Fail, At
  <2>2. f \in {"key", "host"} /\ MayMake(f, seen[q]) => seen[q] \intersect Records = {}
    BY DEF MayMake
  <2> QED
    BY <1>0, <2>1, <2>2 DEF UsersHoldTheKey, MakersFoundNothing, RecordsStayReadable, Setting, Empty
<1>3. ASSUME NEW q \in Requests, NEW f \in KeyFiles, Link(q, f)
      PROVE  UsersHoldTheKey' /\ MakersFoundNothing' /\ RecordsStayReadable'
  <2>1. /\ pc[q] = <<"link", f>> /\ pc'[q] = <<"unlink", f>>
        /\ \A p \in Requests \ {q} : pc'[p] = pc[p]
        /\ file[f] = 0 /\ \A g \in KeyFiles \ {f} : file'[g] = file[g]
        /\ UNCHANGED <<record, cipher, seen>>
    BY <1>3, <1>0, Going DEF Link, At, Shape, TypeOK
  <2>2. f \in {"key", "host"} => Empty
    <3>1. /\ Setting(q)
          /\ f \in {"key", "host"} => pc[q] \in {<<"link", "key">>, <<"link", "host">>}
      BY <2>1 DEF Setting
    <3>2. f \in {"key", "host"} => file["key"] = 0 \/ file["host"] = 0
      BY <2>1
    <3> QED
      BY <1>0, <3>1, <3>2 DEF MakersFoundNothing
  <2> QED
    BY <1>0, <2>1, <2>2 DEF UsersHoldTheKey, MakersFoundNothing, RecordsStayReadable, Setting, Empty
<1>4. ASSUME NEW q \in Requests, NEW f \in KeyFiles, Unlink(q, f)
      PROVE  UsersHoldTheKey' /\ MakersFoundNothing' /\ RecordsStayReadable'
  <2>1. /\ pc[q] = <<"unlink", f>> /\ pc'[q] = <<"consider", Following(f)>>
        /\ \A p \in Requests \ {q} : pc'[p] = pc[p]
        /\ UNCHANGED <<file, record, cipher, seen>>
    <3>1. Following(f) \in KeyFiles \union {"end"}
      BY DEF Following
    <3> QED
      BY <1>4, <1>0, <3>1, Going DEF Unlink, At
  <2> QED
    BY <1>0, <2>1 DEF UsersHoldTheKey, MakersFoundNothing, RecordsStayReadable, Setting, Empty
<1>5. ASSUME NEW q \in Requests, LockRecord(q)
      PROVE  UsersHoldTheKey' /\ MakersFoundNothing' /\ RecordsStayReadable'
  <2>1. /\ pc'[q][1] \in {"use", "failed"} /\ \A p \in Requests \ {q} : pc'[p] = pc[p]
        /\ UNCHANGED <<file, record, cipher, seen>>
    BY <1>5, <1>0, Going DEF LockRecord, Fail
  <2> QED
    BY <1>0, <2>1 DEF UsersHoldTheKey, MakersFoundNothing, RecordsStayReadable, Setting, Empty
<1>6. ASSUME NEW q \in Requests, Open(q)
      PROVE  UsersHoldTheKey' /\ MakersFoundNothing' /\ RecordsStayReadable'
  <2>1. /\ \A p \in Requests \ {q} : pc'[p] = pc[p] /\ cipher'[p] = cipher[p]
        /\ \/ pc'[q][1] = "failed"
           \/ /\ pc'[q][1] = "act" /\ cipher'[q] = file["key"]
              /\ file["key"] # 0 /\ file["host"] # 0
        /\ UNCHANGED <<file, record, seen>>
    BY <1>6, <1>0, Going DEF Open, Fail, Opens, HostKnown, Sound, Shape, TypeOK
  <2> QED
    BY <1>0, <2>1 DEF UsersHoldTheKey, MakersFoundNothing, RecordsStayReadable, Setting, Empty
<1>7. ASSUME NEW q \in Requests, Write(q)
      PROVE  UsersHoldTheKey' /\ MakersFoundNothing' /\ RecordsStayReadable'
  <2>1. /\ pc[q][1] = "act" /\ pc'[q][1] = "done" /\ \A p \in Requests \ {q} : pc'[p] = pc[p]
        /\ record'[RecordOf[q]] = [key |-> cipher[q], host |-> file["host"]]
        /\ \A r \in Records \ {RecordOf[q]} : record'[r] = record[r]
        /\ UNCHANGED <<file, cipher, seen>>
    BY <1>7, <1>0, Going DEF Write, At, Shape, TypeOK
  <2>2. file["key"] # 0 /\ file["host"] # 0 /\ cipher[q] = file["key"]
    BY <1>0, <2>1 DEF UsersHoldTheKey
  <2>3. RecordsStayReadable'
    BY <1>0, <2>1, <2>2 DEF RecordsStayReadable
  <2> QED
    BY <1>0, <2>1, <2>2, <2>3 DEF UsersHoldTheKey, MakersFoundNothing, Setting
<1>8. ASSUME NEW q \in Requests, Delete(q)
      PROVE  UsersHoldTheKey' /\ MakersFoundNothing' /\ RecordsStayReadable'
  <2>1. /\ pc'[q][1] = "done" /\ \A p \in Requests \ {q} : pc'[p] = pc[p]
        /\ \A r \in Records : record'[r] \in {record[r], Nothing}
        /\ UNCHANGED <<file, cipher, seen>>
    BY <1>8, <1>0, Going DEF Delete, Shape, TypeOK
  <2>2. RecordsStayReadable'
    BY <1>0, <2>1 DEF RecordsStayReadable
  <2>3. Empty => Empty'
    BY <2>1 DEF Empty
  <2> QED
    BY <1>0, <2>1, <2>2, <2>3 DEF UsersHoldTheKey, MakersFoundNothing, Setting
<1>9. ASSUME NEW q \in Requests, Read(q)
      PROVE  UsersHoldTheKey' /\ MakersFoundNothing' /\ RecordsStayReadable'
  <2>1. /\ pc'[q][1] \in {"done", "failed"} /\ \A p \in Requests \ {q} : pc'[p] = pc[p]
        /\ UNCHANGED <<file, record, cipher, seen>>
    BY <1>9, <1>0, Going DEF Read, Fail
  <2> QED
    BY <1>0, <2>1 DEF UsersHoldTheKey, MakersFoundNothing, RecordsStayReadable, Setting, Empty
<1>10. ASSUME NEW q \in Requests, Crash(q)
       PROVE  UsersHoldTheKey' /\ MakersFoundNothing' /\ RecordsStayReadable'
  <2>1. /\ pc'[q][1] = "dead" /\ \A p \in Requests \ {q} : pc'[p] = pc[p]
        /\ UNCHANGED <<file, record, cipher, seen>>
    BY <1>10, <1>0, Going DEF Crash
  <2> QED
    BY <1>0, <2>1 DEF UsersHoldTheKey, MakersFoundNothing, RecordsStayReadable, Setting, Empty
<1>11. ASSUME NEW f \in KeyFiles, Restore(f)
       PROVE  UsersHoldTheKey' /\ MakersFoundNothing' /\ RecordsStayReadable'
  <2>1. \A q \in Requests : pc[q][1] # "act" /\ ~Setting(q)
    BY <1>11 DEF Restore, Over, Setting
  <2>2. /\ \A g \in KeyFiles : file'[g] \in {file[g], 0}
        /\ UNCHANGED <<pc, record, cipher, seen>>
    BY <1>11, <1>0 DEF Restore, Shape, TypeOK
  <2> QED
    BY <1>0, <2>1, <2>2 DEF UsersHoldTheKey, MakersFoundNothing, RecordsStayReadable, Setting
<1>12. CASE UNCHANGED vaultVars
  BY <1>12, <1>0 DEF vaultVars, UsersHoldTheKey, MakersFoundNothing, RecordsStayReadable, Setting, Empty
<1> QED
  BY <1>1, <1>2, <1>3, <1>4, <1>5, <1>6, <1>7, <1>8, <1>9, <1>10, <1>11, <1>12
    DEF VaultNext, Step

\* Whatever is written to the vault can be read as long as its key and identity
\* are there: none is ever made beside it, for any requests and crashes.
THEOREM WrittenStaysReadable == VaultSpec => []RecordsStayReadable
<1> USE VaultIsUsedWell
<1>1. VaultInit => ReadableInv
  BY InitShape DEF VaultInit, ReadableInv, UsersHoldTheKey, MakersFoundNothing, RecordsStayReadable, Setting
<1>2. ReadableInv /\ [VaultNext]_vaultVars => ReadableInv'
  BY ReadableStep
<1>3. ReadableInv => RecordsStayReadable
  BY DEF ReadableInv
<1> QED
  BY <1>1, <1>2, <1>3, PTL DEF VaultSpec
-----------------------------------------------------------------------------
(* A setup that was cut short is taken up                                  *)

\* Whoever sets the directory up holds its lock.
OneSetsUp == \A q \in Requests : Setting(q) => lock["setup"] = q

Past(q) == pc[q][1] \in {"ready", "use", "act"}
AllSet == \A f \in KeyFiles : file[f] # 0

\* A temporary name belongs to a request at work, for what it is about to
\* publish; only between the link and the unlink has a file two names.
NamesInUse ==
    \A t \in temporary :
        \/ pc[t.of] = <<"link", t.name>> /\ t.name \in KeyFiles /\ ~t.published
        \/ pc[t.of] = <<"unlink", t.name>> /\ t.name \in KeyFiles
        \/ /\ pc[t.of][1] = "act" /\ Kind[t.of] = "write"
           /\ t.name \in Records /\ ~t.published

\* The three files appear in their order, and nothing else before them.
InOrder ==
    /\ file["check"] # 0 => file["key"] # 0 /\ file["check"] = file["key"]
    /\ file["host"] # 0 => file["check"] # 0
    /\ ~Empty \/ used # {} => AllSet
    /\ \A q \in Requests : Past(q) => AllSet

Before(f) == CASE f = "key" -> {} [] f = "check" -> {"key"} [] f = "host" -> {"key", "check"}
               [] f = "end" -> KeyFiles

\* What a request that sets the directory up has listed: what is there but for
\* what it has made itself since, everything once another request is past its
\* setup, and nothing at all where there was no key.
Knows(q) ==
    LET f == pc[q][2]
    IN  /\ \A g \in Before(f) : file[g] # 0
        /\ pc[q][1] = "unlink" => file[f] # 0
        /\ pc[q][1] \in {"link", "unlink"} => f \in KeyFiles /\ f \notin seen[q]
        /\ \A g \in KeyFiles : g \in seen[q] => file[g] # 0
        /\ "key" \notin seen[q] => seen[q] = {}
        /\ seen[q] \intersect Records # {} => KeyFiles \subseteq seen[q]
        /\ \A p \in Requests : Past(p) /\ Kind[p] # "preview" => KeyFiles \subseteq seen[q]

SetupKnows == \A q \in Requests : Setting(q) => Knows(q)

Orderly == ~lost /\ ~litter => NamesInUse /\ InOrder /\ SetupKnows /\ SetupResumes

\* One request at a time sets the directory up, from its listing on.
LEMMA SetupStep == IsUsedWell /\ Shape /\ OneSetsUp /\ [VaultNext]_vaultVars => OneSetsUp'
<1> SUFFICES ASSUME IsUsedWell, Shape, OneSetsUp, [VaultNext]_vaultVars
             PROVE  OneSetsUp'
  OBVIOUS
<1> USE DEF Phases, KeyFiles
<1>0. /\ lock \in [Locks -> Requests \union {Unlocked}] /\ "setup" \in Locks
      /\ \A q \in Requests : RecordOf[q] \in Records /\ RecordOf[q] # "setup"
      /\ Unlocked \notin Requests
      /\ \A f \in KeyFiles : Following(f) \in KeyFiles \union {"end"}
  BY DEF Shape, TypeOK, Locks, IsUsedWell, Following
<1> DEFINE Keeps(q) == \/ lock'["setup"] = lock["setup"]
                       \/ lock'["setup"] = Unlocked /\ lock["setup"] = q
<1>a. ASSUME NEW q \in Requests, \A p \in Requests \ {q} : pc'[p] = pc[p], Keeps(q),
             Setting(q)' => Setting(q) /\ lock'["setup"] = lock["setup"]
      PROVE  OneSetsUp'
  BY <1>0, <1>a DEF OneSetsUp, Setting
<1>1. ASSUME NEW q \in Requests, Enter(q)
      PROVE  OneSetsUp'
  BY <1>1, <1>0, Going DEF Enter, OneSetsUp, Setting
<1>2. ASSUME NEW q \in Requests, NEW f \in KeyFiles \union {"end"}, Consider(q, f)
      PROVE  OneSetsUp'
  <2>1. /\ Setting(q) /\ \A p \in Requests \ {q} : pc'[p] = pc[p]
        /\ \/ UNCHANGED lock
           \/ pc'[q][1] \in {"failed", "ready"} /\ Release(q)
    BY <1>2, <1>0, Going DEF Consider, Fail, At, Setting
  <2>2. Keeps(q) /\ (UNCHANGED lock \/ ~Setting(q)')
    BY <1>0, <2>1, Releasing DEF Setting
  <2> QED
    BY <1>a, <2>1, <2>2
<1>3. ASSUME NEW q \in Requests, NEW f \in KeyFiles, Link(q, f) \/ Unlink(q, f)
      PROVE  OneSetsUp'
  <2>1. /\ Setting(q) /\ \A p \in Requests \ {q} : pc'[p] = pc[p]
        /\ UNCHANGED lock
    BY <1>3, <1>0, Going DEF Link, Unlink, At, Setting
  <2> QED
    BY <1>a, <2>1
<1>5. ASSUME NEW q \in Requests, LockRecord(q)
      PROVE  OneSetsUp'
  <2>1. /\ ~Setting(q)' /\ \A p \in Requests \ {q} : pc'[p] = pc[p]
        /\ lock' = [lock EXCEPT ![RecordOf[q]] = q] \/ Release(q)
    BY <1>5, <1>0, Going DEF LockRecord, Fail, Setting
  <2>2. Keeps(q)
    BY <1>0, <2>1, Releasing
  <2> QED
    BY <1>a, <2>1, <2>2
<1>6. ASSUME NEW q \in Requests, Open(q) \/ Write(q) \/ Delete(q) \/ Read(q) \/ Crash(q)
      PROVE  OneSetsUp'
  <2>1. /\ ~Setting(q)' /\ \A p \in Requests \ {q} : pc'[p] = pc[p]
        /\ UNCHANGED lock \/ Release(q)
    <3>1. CASE Open(q)
      BY <3>1, Going DEF Open, Fail, Setting
    <3>2. CASE Write(q)
      BY <3>2, Going DEF Write, Setting
    <3>3. CASE Delete(q)
      BY <3>3, Going DEF Delete, Setting
    <3>4. CASE Read(q)
      BY <3>4, Going DEF Read, Fail, Setting
    <3>5. CASE Crash(q)
      BY <3>5, Going DEF Crash, Setting
    <3> QED
      BY <1>6, <3>1, <3>2, <3>3, <3>4, <3>5
  <2>2. Keeps(q)
    BY <1>0, <2>1, Releasing
  <2> QED
    BY <1>a, <2>1, <2>2
<1>7. ASSUME NEW f \in KeyFiles, Restore(f)
      PROVE  OneSetsUp'
  BY <1>7 DEF Restore, OneSetsUp, Setting
<1>8. CASE UNCHANGED vaultVars
  BY <1>8 DEF vaultVars, OneSetsUp, Setting
<1> QED
  BY <1>1, <1>2, <1>3, <1>5, <1>6, <1>7, <1>8 DEF VaultNext, Step

\* While a request considers what is missing, no temporary name is about.
LEMMA NothingUnderway ==
  ASSUME IsUsedWell, Shape, OneSetsUp, NamesInUse,
         NEW q \in Requests, pc[q][1] = "consider"
  PROVE  /\ \A t \in temporary : t.name \notin KeyFiles /\ t.of # q
         /\ \A f \in KeyFiles : Sound(f) <=> file[f] # 0
<1>1. \A t \in temporary : t.of \in Requests
  BY DEF Shape, TypeOK
<1>2. ASSUME NEW t \in temporary
      PROVE  t.name \notin KeyFiles /\ t.of # q
  <2>1. pc[t.of] \in {<<"link", t.name>>, <<"unlink", t.name>>} => Setting(t.of) /\ t.of # q
    BY DEF Setting
  <2>2. Setting(q)
    BY DEF Setting
  <2> QED
    BY <1>1, <2>1, <2>2 DEF NamesInUse, OneSetsUp, IsUsedWell, KeyFiles
<1> QED
  BY <1>2 DEF Sound

\* To a request past its own setup the directory is whole.
LEMMA PastFindsAll ==
  ASSUME IsUsedWell, Shape, NamesInUse, InOrder, SetupKnows,
         NEW q \in Requests, Past(q), Kind[q] # "preview"
  PROVE  Opens /\ HostKnown
<1>1. ASSUME NEW t \in temporary, t.name \in KeyFiles
      PROVE  ~t.published
  <2> SUFFICES ASSUME t.published
               PROVE  FALSE
    OBVIOUS
  <2>1. t.of \in Requests /\ pc[t.of] = <<"unlink", t.name>>
    BY <1>1 DEF NamesInUse, Shape, TypeOK, IsUsedWell, KeyFiles
  <2>2. Setting(t.of) /\ pc[t.of][1] = "unlink" /\ pc[t.of][2] = t.name
    BY <2>1 DEF Setting
  <2>3. t.name \notin seen[t.of] /\ KeyFiles \subseteq seen[t.of]
    BY <2>1, <2>2 DEF SetupKnows, Knows
  <2> QED
    BY <1>1, <2>3
<1>2. AllSet /\ file["check"] = file["key"]
  BY DEF InOrder, AllSet, KeyFiles
<1> QED
  BY <1>1, <1>2 DEF Opens, HostKnown, Sound, AllSet, KeyFiles

SetupInv == ReadableInv /\ OneSetsUp /\ Orderly
Order == NamesInUse /\ InOrder /\ SetupKnows /\ SetupResumes

LEMMA OrderStep ==
  ASSUME IsUsedWell, SetupInv, VaultNext, ~lost', ~litter'
  PROVE  Order'
<1> USE DEF Phases, KeyFiles
<1>0. /\ Shape /\ UsersHoldTheKey /\ RecordsStayReadable /\ OneSetsUp
      /\ Shape' /\ OneSetsUp'
      /\ lock \in [Locks -> Requests \union {Unlocked}] /\ Unlocked \notin Requests
      /\ Records \intersect {"key", "check", "host", "other", "setup"} = {}
      /\ \A q \in Requests : RecordOf[q] \in Records
      /\ \A t \in temporary : t.of \in Requests
      /\ \A f \in KeyFiles : Following(f) \in KeyFiles \union {"end"}
  BY ShapeStep, SetupStep
    DEF SetupInv, ReadableInv, IsUsedWell, Shape, TypeOK, Following
<1>w. ~lost /\ ~litter
  <2>1. ASSUME NEW q \in Requests, Step(q)
        PROVE  ~lost /\ ~litter
    BY <2>1 DEF Step, Enter, Consider, Link, Unlink, LockRecord, Open, Write, Delete, Read
  <2>2. ASSUME NEW q \in Requests, Crash(q)
        PROVE  ~lost /\ ~litter
    BY <2>2 DEF Crash
  <2>3. ASSUME NEW f \in KeyFiles, Restore(f)
        PROVE  FALSE
    BY <2>3 DEF Restore
  <2> QED
    BY <2>1, <2>2, <2>3 DEF VaultNext
<1>o. NamesInUse /\ InOrder /\ SetupKnows /\ SetupResumes
  BY <1>w DEF SetupInv, Orderly
\* A request that goes on without having failed leaves no new failure.
<1>f. ASSUME NEW q \in Requests, \A p \in Requests \ {q} : pc'[p] = pc[p],
             pc'[q][1] # "failed" \/ Kind[q] = "preview"
      PROVE  SetupResumes'
  BY <1>f, <1>o, <1>w DEF SetupResumes
\* Who is not setting the directory up when it goes on changes no listing.
<1>k. ASSUME NEW q \in Requests, \A p \in Requests \ {q} : pc'[p] = pc[p], ~Setting(q)',
             Past(q)' /\ Kind[q] # "preview" => Past(q), UNCHANGED <<file, seen>>
      PROVE  SetupKnows'
  <2>1. \A p \in Requests : Past(p)' /\ Kind[p] # "preview" => Past(p)
    BY <1>k DEF Past
  <2> SUFFICES ASSUME NEW p \in Requests, Setting(p)'
               PROVE  Knows(p)'
    BY DEF SetupKnows
  <2>2. Setting(p) /\ pc'[p] = pc[p]
    BY <1>k DEF Setting
  <2> QED
    BY <1>k, <1>o, <2>1, <2>2 DEF SetupKnows, Knows
<1>1. ASSUME NEW q \in Requests, Enter(q)
      PROVE  Order'
  <2>1. /\ pc'[q] = <<"consider", "key">> /\ \A p \in Requests \ {q} : pc'[p] = pc[p]
        /\ pc[q] = <<"start", "key">>
        /\ seen'[q] = Listed /\ \A p \in Requests \ {q} : seen'[p] = seen[p]
        /\ UNCHANGED <<file, record, temporary, used, cipher>>
        /\ lock["setup"] = Unlocked
    BY <1>1, <1>0, Going DEF Enter, At, Shape, TypeOK
  <2>2. NamesInUse'
    <3>1. ASSUME NEW t \in temporary PROVE t.of \in Requests \ {q}
      <4>1. t.of \in Requests
        BY <1>0
      <4>2. \/ pc[t.of] = <<"link", t.name>> \/ pc[t.of] = <<"unlink", t.name>>
            \/ pc[t.of][1] = "act"
        BY <1>o DEF NamesInUse
      <4>3. pc[t.of][1] # "start"
        BY <4>2
      <4>4. pc[q][1] = "start"
        BY <2>1
      <4> QED BY <4>1, <4>3, <4>4
    <3>2. \A t \in temporary : pc'[t.of] = pc[t.of]
      BY <2>1, <3>1
    <3>3. temporary' = temporary
      BY <2>1
    <3> QED BY <1>o, <3>2, <3>3 DEF NamesInUse
  <2>3. InOrder'
    BY <1>o, <2>1 DEF InOrder, Past, AllSet, Empty
  <2>4. \A p \in Requests : ~Setting(p)
    BY <1>0, <2>1 DEF OneSetsUp
  <2>5. file["key"] = 0 => Listed = {}
    <3> SUFFICES ASSUME file["key"] = 0
                 PROVE  Listed = {}
      OBVIOUS
    <3>1. /\ file["check"] = 0 /\ file["host"] = 0 /\ Empty /\ used = {}
          /\ \A p \in Requests : ~Past(p)
      BY <1>o DEF InOrder, AllSet
    <3>2. ASSUME NEW t \in temporary
          PROVE  FALSE
      <4>1. /\ pc[t.of] = <<"link", t.name>> => Setting(t.of)
            /\ pc[t.of] = <<"unlink", t.name>> => Setting(t.of)
            /\ pc[t.of][1] = "act" => Past(t.of)
        BY DEF Setting, Past
      <4> QED
        BY <1>0, <1>o, <2>4, <3>1, <4>1 DEF NamesInUse
    <3> QED
      BY <3>1, <3>2 DEF Listed, Empty
  <2>6. /\ \A g \in KeyFiles : g \in Listed <=> file[g] # 0
        /\ Listed \intersect Records # {} => AllSet
        /\ \A p \in Requests : Past(p) => AllSet
    BY <1>0, <1>o DEF Listed, InOrder, Empty
  <2>7. Knows(q)'
    <3>1. Before(pc'[q][2]) = {} /\ pc'[q][1] = "consider"
      BY <2>1 DEF Before
    <3>2. \A p \in Requests : Past(p)' => Past(p)
      BY <2>1 DEF Past
    <3>3. UNCHANGED file /\ seen'[q] = Listed
      BY <2>1
    <3> QED
      BY <2>5, <2>6, <3>1, <3>2, <3>3 DEF Knows, AllSet
  <2>8. SetupKnows'
    BY <2>1, <2>4, <2>7 DEF SetupKnows, Setting
  <2> QED
    BY <1>f, <2>1, <2>2, <2>3, <2>8 DEF Order
<1>2. ASSUME NEW q \in Requests, NEW f \in KeyFiles \union {"end"}, Consider(q, f)
      PROVE  Order'
  <2>1. /\ pc[q] = <<"consider", f>> /\ \A p \in Requests \ {q} : pc'[p] = pc[p]
        /\ Setting(q) /\ Knows(q)
        /\ UNCHANGED <<file, record, used, seen, cipher>>
    BY <1>2, <1>0, <1>o, Going DEF Consider, Fail, At, Setting, SetupKnows
  <2>2. /\ \A t \in temporary : t.name \notin KeyFiles /\ t.of # q
        /\ \A g \in KeyFiles : Sound(g) <=> file[g] # 0
    BY <1>0, <1>o, <2>1, NothingUnderway
  <2>3. \A g \in Before(f) : file[g] # 0
    BY <2>1 DEF Knows
  <2>4. Ready(f)
    <3>1. f \in {"host", "end"} => file["key"] # 0 /\ file["check"] # 0
      BY <2>3 DEF Before
    <3>2. f = "end" => file["host"] # 0
      BY <2>3 DEF Before
    <3> QED
      BY <1>o, <2>2, <3>1, <3>2 DEF Ready, Opens, HostKnown, InOrder
  <2>5. f \in KeyFiles /\ IsMissing(f, seen[q]) => MayMake(f, seen[q])
    BY <1>0, <2>1 DEF IsMissing, MayMake, Knows
  <2>6. f = "check" => Sound("key")
    BY <2>2, <2>3 DEF Before
  <2>7. \/ /\ f \in KeyFiles /\ f \in seen[q] /\ pc'[q] = <<"consider", Following(f)>>
           /\ UNCHANGED <<temporary, lock>>
        \/ /\ f \in KeyFiles /\ f \notin seen[q] /\ pc'[q] = <<"link", f>>
           /\ temporary' = temporary \union {[name |-> f, published |-> FALSE, of |-> q]}
           /\ UNCHANGED lock
        \/ /\ f = "end" /\ pc'[q] = <<"ready", "key">> /\ UNCHANGED temporary
    BY <1>2, <1>0, <2>4, <2>5, <2>6, Going DEF Consider, IsMissing
  <2>8. NamesInUse'
    BY <1>0, <1>o, <2>1, <2>2, <2>7 DEF NamesInUse
  <2>9. InOrder'
    <3>1. f = "end" => AllSet
      BY <2>3 DEF Before, AllSet
    <3>2. \A p \in Requests : Past(p)' => Past(p) \/ (p = q /\ f = "end")
      BY <2>1, <2>7 DEF Past
    <3> QED
      BY <1>o, <2>1, <3>1, <3>2 DEF InOrder, AllSet, Empty
  <2>10. ASSUME NEW p \in Requests, Setting(p)'
         PROVE  Knows(p)'
    <3>1. CASE p # q
      <4>1. Setting(p) /\ pc'[p] = pc[p]
        BY <2>1, <2>10, <3>1 DEF Setting
      <4>2. f # "end"
        BY <1>0, <4>1, <2>1, <2>7, <2>10, <3>1 DEF OneSetsUp
      <4>3. \A o \in Requests : Past(o)' => Past(o)
        BY <2>1, <2>7, <4>2 DEF Past
      <4> QED
        BY <1>o, <2>1, <4>1, <4>3 DEF SetupKnows, Knows
    <3>2. CASE p = q
      <4>1. f \in KeyFiles /\ pc'[q] \in {<<"consider", Following(f)>>, <<"link", f>>}
        BY <2>7, <2>10, <3>2 DEF Setting
      <4>2. \A o \in Requests : Past(o)' => Past(o)
        BY <2>1, <4>1 DEF Past
      <4>3. CASE pc'[q] = <<"link", f>>
        BY <2>1, <2>7, <3>2, <4>2, <4>3 DEF Knows
      <4>4. CASE f \in seen[q] /\ pc'[q] = <<"consider", Following(f)>>
        <5>1. Before(Following(f)) = Before(f) \union {f}
          BY <4>1 DEF Before, Following
        <5> QED
          BY <2>1, <3>2, <4>1, <4>2, <4>4, <5>1 DEF Knows
      <4> QED
        BY <2>7, <4>1, <4>3, <4>4
    <3> QED
      BY <3>1, <3>2
  <2> QED
    BY <1>f, <2>1, <2>7, <2>8, <2>9, <2>10 DEF Order, SetupKnows
<1>3. ASSUME NEW q \in Requests, NEW f \in KeyFiles, Link(q, f)
      PROVE  Order'
  <2>1. /\ pc[q] = <<"link", f>> /\ pc'[q] = <<"unlink", f>>
        /\ \A p \in Requests \ {q} : pc'[p] = pc[p]
        /\ file[f] = 0 /\ \A g \in KeyFiles \ {f} : file'[g] = file[g]
        /\ file'[f] = IF f = "check" THEN file["key"] ELSE made + 1
        /\ temporary' = {IF t.of = q THEN [t EXCEPT !.published = TRUE] ELSE t : t \in temporary}
        /\ UNCHANGED <<record, used, seen, cipher>>
        /\ Setting(q) /\ Knows(q)
    BY <1>3, <1>0, <1>o, Going DEF Link, At, Shape, TypeOK, Setting, SetupKnows
  <2>2. \A g \in Before(f) : file[g] # 0
    BY <2>1 DEF Knows
  <2>3. file'[f] # 0
    <3>1. f = "check" => file["key"] # 0
      BY <2>2 DEF Before
    <3>2. made \in Nat
      BY <1>0 DEF Shape, TypeOK, IsUsedWell
    <3> QED
      BY <2>1, <3>1, <3>2
  <2>4. \A g \in KeyFiles : file[g] # 0 => file'[g] = file[g]
    BY <2>1
  <2>5. NamesInUse'
    <3> SUFFICES ASSUME NEW t \in temporary,
                        NEW u, u = IF t.of = q THEN [t EXCEPT !.published = TRUE] ELSE t
                 PROVE  \/ pc'[u.of] = <<"link", u.name>> /\ u.name \in KeyFiles /\ ~u.published
                        \/ pc'[u.of] = <<"unlink", u.name>> /\ u.name \in KeyFiles
                        \/ /\ pc'[u.of][1] = "act" /\ Kind[u.of] = "write"
                           /\ u.name \in Records /\ ~u.published
      BY <2>1, Zenon DEF NamesInUse
    <3>1. t \in [name : KeyFiles \union Records, published : BOOLEAN, of : Requests]
      BY <1>0 DEF Shape, TypeOK
    <3>2. CASE t.of = q
      BY <1>o, <2>1, <3>1, <3>2 DEF NamesInUse
    <3>3. CASE t.of # q
      BY <1>o, <2>1, <3>1, <3>3 DEF NamesInUse
    <3> QED
      BY <3>2, <3>3
  <2>6. InOrder'
    <3>1. f = "check" => file["key"] # 0
      BY <2>2 DEF Before
    <3>2. f = "host" => file["check"] # 0
      BY <2>2 DEF Before
    <3>3. file'["check"] # 0 => file'["key"] # 0 /\ file'["check"] = file'["key"]
      BY <1>o, <2>1, <3>1 DEF InOrder
    <3>4. file'["host"] # 0 => file'["check"] # 0
      BY <1>o, <2>1, <3>2 DEF InOrder
    <3>5. AllSet => AllSet'
      BY <2>4 DEF AllSet
    <3>6. \A p \in Requests : Past(p)' => Past(p)
      BY <2>1 DEF Past
    <3> QED
      BY <1>o, <2>1, <3>3, <3>4, <3>5, <3>6 DEF InOrder, Empty
  <2>7. ASSUME NEW p \in Requests, Setting(p)'
        PROVE  Knows(p)'
    <3>1. Setting(p) /\ Knows(p) /\ pc'[p][2] = pc[p][2] /\ (pc'[p][1] = pc[p][1] \/ p = q)
      BY <1>o, <2>1, <2>7 DEF Setting, SetupKnows
    <3>2. \A o \in Requests : Past(o)' => Past(o)
      BY <2>1 DEF Past
    <3>3. \A g \in Before(pc[p][2]) : g \in KeyFiles
      BY <1>0 DEF Before, Shape
    <3>4. p = q => pc[p][1] = "link" /\ pc'[p][1] = "unlink" /\ pc[p][2] = f
      BY <2>1
    <3> QED
      BY <2>1, <2>3, <2>4, <3>1, <3>2, <3>3, <3>4 DEF Knows
  <2> QED
    BY <1>f, <2>1, <2>5, <2>6, <2>7 DEF Order, SetupKnows
<1>4. ASSUME NEW q \in Requests, NEW f \in KeyFiles, Unlink(q, f)
      PROVE  Order'
  <2>1. /\ pc[q] = <<"unlink", f>> /\ pc'[q] = <<"consider", Following(f)>>
        /\ \A p \in Requests \ {q} : pc'[p] = pc[p]
        /\ temporary' = {t \in temporary : t.of # q}
        /\ UNCHANGED <<file, record, used, seen, cipher>>
        /\ Setting(q) /\ Knows(q)
    BY <1>4, <1>0, <1>o, Going DEF Unlink, At, Setting, SetupKnows
  <2>2. NamesInUse'
    BY <1>0, <1>o, <2>1 DEF NamesInUse
  <2>3. \A p \in Requests : Past(p)' => Past(p)
    BY <2>1 DEF Past
  <2>4. InOrder'
    BY <1>o, <2>1, <2>3 DEF InOrder, AllSet, Empty
  <2>5. ASSUME NEW p \in Requests, Setting(p)'
        PROVE  Knows(p)'
    <3>1. CASE p # q
      BY <1>o, <2>1, <2>3, <2>5, <3>1 DEF Setting, SetupKnows, Knows
    <3>2. CASE p = q
      <4>1. Before(Following(f)) = Before(f) \union {f}
        BY DEF Before, Following
      <4> QED
        BY <2>1, <2>3, <3>2, <4>1 DEF Knows
    <3> QED
      BY <3>1, <3>2
  <2> QED
    BY <1>f, <2>1, <2>2, <2>4, <2>5 DEF Order, SetupKnows
<1>5. ASSUME NEW q \in Requests, LockRecord(q)
      PROVE  Order'
  <2>1. /\ pc[q] = <<"ready", "key">> /\ pc'[q][1] \in {"use", "failed"}
        /\ \A p \in Requests \ {q} : pc'[p] = pc[p]
        /\ pc'[q][1] = "failed" => ~(Opens /\ HostKnown)
        /\ UNCHANGED <<file, record, temporary, seen, cipher>>
    BY <1>5, <1>0, Going DEF LockRecord, Fail, At
  <2>2. Past(q) /\ ~Setting(q)' /\ AllSet /\ \A p \in Requests : Past(p)' => Past(p)
    BY <1>o, <2>1 DEF Past, Setting, InOrder
  <2>3. NamesInUse'
    BY <1>0, <1>o, <2>1 DEF NamesInUse
  <2>4. InOrder'
    BY <1>o, <2>1, <2>2 DEF InOrder, AllSet, Empty
  <2>5. pc'[q][1] # "failed" \/ Kind[q] = "preview"
    BY <1>0, <1>o, <2>1, <2>2, PastFindsAll
  <2> QED
    BY <1>f, <1>k, <2>1, <2>2, <2>3, <2>4, <2>5 DEF Order
<1>6. ASSUME NEW q \in Requests, Open(q)
      PROVE  Order'
  <2>1. /\ \A p \in Requests \ {q} : pc'[p] = pc[p]
        /\ pc[q][1] \in {"use", "start"} /\ (pc[q][1] = "start" => Kind[q] = "preview")
        /\ \/ pc'[q][1] = "failed" /\ UNCHANGED temporary /\ ~(Opens /\ HostKnown)
           \/ /\ pc'[q][1] = "act" /\ Opens /\ HostKnown
              /\ temporary' = IF Kind[q] # "write" THEN temporary
                               ELSE temporary \union
                                   {[name |-> RecordOf[q], published |-> FALSE, of |-> q]}
        /\ UNCHANGED <<file, record, used, seen>>
    BY <1>6, <1>0, Going DEF Open, Fail, At
  <2>2. pc'[q][1] # "failed" \/ Kind[q] = "preview"
    BY <1>0, <1>o, <2>1, PastFindsAll DEF Past
  <2>3. pc'[q][1] = "act" => AllSet
    BY <1>o, <2>1 DEF Opens, HostKnown, Sound, AllSet
  <2>4. NamesInUse'
    <3>1. \A t \in temporary : t.of # q
      BY <1>0, <1>o, <2>1 DEF NamesInUse
    <3>2. ASSUME NEW t \in temporary
          PROVE  pc'[t.of] = pc[t.of] /\ t.of \in Requests
      BY <1>0, <2>1, <3>1
    <3> DEFINE new == [name |-> RecordOf[q], published |-> FALSE, of |-> q]
    <3>3. new.of = q /\ new.name \in Records /\ ~new.published
      BY <1>0
    <3>4. temporary' = temporary
             \/ /\ temporary' = temporary \union {new}
                /\ Kind[q] = "write" /\ pc'[q][1] = "act"
      BY <2>1
    <3> HIDE DEF new
    <3> QED
      BY <1>o, <3>2, <3>3, <3>4 DEF NamesInUse
  <2>5. InOrder'
    BY <1>o, <2>1, <2>3 DEF InOrder, AllSet, Empty, Past
  <2>6. ~Setting(q)' /\ (Past(q)' /\ Kind[q] # "preview" => Past(q))
    BY <2>1 DEF Setting, Past
  <2> QED
    BY <1>f, <1>k, <2>1, <2>2, <2>4, <2>5, <2>6 DEF Order
\* What a request does last leaves the rest in order.
<1>e. ASSUME NEW q \in Requests, pc'[q][1] \in {"done", "failed", "dead"},
             \A p \in Requests \ {q} : pc'[p] = pc[p],
             \A t \in temporary' : t \in temporary /\ t.of # q,
             ~Empty' => AllSet, pc'[q][1] # "failed" \/ Kind[q] = "preview",
             UNCHANGED <<file, used, seen>>
      PROVE  Order'
  <2>1. ~Setting(q)' /\ ~Past(q)' /\ \A p \in Requests : Past(p)' => Past(p)
    BY <1>e DEF Setting, Past
  <2>2. NamesInUse'
    BY <1>0, <1>o, <1>e DEF NamesInUse
  <2>3. InOrder'
    BY <1>o, <1>e, <2>1 DEF InOrder, AllSet
  <2> QED
    BY <1>e, <1>f, <1>k, <2>1, <2>2, <2>3 DEF Order
<1>7. ASSUME NEW q \in Requests, Write(q)
      PROVE  Order'
  <2>1. /\ pc[q][1] = "act" /\ pc'[q][1] = "done" /\ \A p \in Requests \ {q} : pc'[p] = pc[p]
        /\ temporary' = {t \in temporary : t.of # q}
        /\ UNCHANGED <<file, used, seen>>
    BY <1>7, <1>0, Going DEF Write, At
  <2>2. AllSet
    BY <1>o, <2>1 DEF InOrder, Past
  <2> QED
    BY <1>e, <2>1, <2>2
<1>8. ASSUME NEW q \in Requests, Delete(q)
      PROVE  Order'
  <2>1. /\ pc[q][1] = "act" /\ pc'[q][1] = "done" /\ \A p \in Requests \ {q} : pc'[p] = pc[p]
        /\ Kind[q] # "write"
        /\ UNCHANGED <<file, used, seen, temporary>>
    BY <1>8, <1>0, Going DEF Delete, At
  <2>2. AllSet /\ \A t \in temporary : t.of # q
    <3>1. AllSet
      BY <1>o, <2>1 DEF InOrder, Past
    <3>2. ASSUME NEW t \in temporary, t.of = q
          PROVE  FALSE
      <4>1. pc[t.of] # <<"link", t.name>> /\ pc[t.of] # <<"unlink", t.name>>
        BY <2>1, <3>2
      <4> QED
        BY <1>o, <2>1, <3>2, <4>1 DEF NamesInUse
    <3> QED
      BY <3>1, <3>2
  <2> QED
    BY <1>e, <2>1, <2>2
<1>9. ASSUME NEW q \in Requests, Read(q)
      PROVE  Order'
  <2>1. /\ pc[q][1] = "act" /\ pc'[q][1] \in {"done", "failed"}
        /\ \A p \in Requests \ {q} : pc'[p] = pc[p]
        /\ pc'[q][1] = "failed" =>
              record[RecordOf[q]] # Nothing /\ record[RecordOf[q]].key # cipher[q]
        /\ Kind[q] # "write"
        /\ UNCHANGED <<file, used, seen, temporary>>
    BY <1>9, <1>0, Going DEF Read, Fail, At
  <2>2. AllSet /\ \A t \in temporary : t.of # q
    <3>1. AllSet
      BY <1>o, <2>1 DEF InOrder, Past
    <3>2. ASSUME NEW t \in temporary, t.of = q
          PROVE  FALSE
      <4>1. pc[t.of] # <<"link", t.name>> /\ pc[t.of] # <<"unlink", t.name>>
        BY <2>1, <3>2
      <4> QED
        BY <1>o, <2>1, <3>2, <4>1 DEF NamesInUse
    <3> QED
      BY <3>1, <3>2
  <2>3. pc'[q][1] # "failed"
    BY <1>0, <2>1 DEF RecordsStayReadable, UsersHoldTheKey
  <2> QED
    BY <1>e, <2>1, <2>2, <2>3
<1>10. ASSUME NEW q \in Requests, Crash(q)
       PROVE  Order'
  <2>1. /\ pc'[q][1] = "dead" /\ \A p \in Requests \ {q} : pc'[p] = pc[p]
        /\ \A t \in temporary : t.of # q
        /\ UNCHANGED <<file, record, used, seen, temporary>>
    <3>1. litter' = (litter \/ \E t \in temporary : t.of = q) /\ ~litter'
      BY <1>10 DEF Crash
    <3>2. \A t \in temporary : t.of # q
      BY <3>1
    <3> QED
      BY <1>10, <1>0, <3>2, Going DEF Crash
  <2>2. ~Empty' => AllSet
    BY <1>o, <2>1 DEF InOrder, Empty
  <2> QED
    BY <1>e, <2>1, <2>2
<1>11. ASSUME NEW f \in KeyFiles, Restore(f)
       PROVE  FALSE
  BY <1>11 DEF Restore
<1> QED
  BY <1>1, <1>2, <1>3, <1>4, <1>5, <1>6, <1>7, <1>8, <1>9, <1>10, <1>11 DEF VaultNext, Step

LEMMA SetupInvStep == IsUsedWell /\ SetupInv /\ [VaultNext]_vaultVars => SetupInv'
<1> SUFFICES ASSUME IsUsedWell, SetupInv, [VaultNext]_vaultVars
             PROVE  SetupInv'
  OBVIOUS
<1>1. ReadableInv' /\ OneSetsUp'
  BY ReadableStep, SetupStep DEF SetupInv, ReadableInv
<1>2. CASE VaultNext
  BY <1>1, <1>2, OrderStep DEF SetupInv, Orderly, Order
<1>3. CASE UNCHANGED vaultVars
  <2>1. Orderly'
    BY <1>3 DEF SetupInv, Orderly, vaultVars, NamesInUse, InOrder, SetupKnows, SetupResumes, Knows,
                Past, AllSet, Empty, Setting
  <2> QED
    BY <1>1, <2>1 DEF SetupInv
<1> QED
  BY <1>2, <1>3

\* The directory's setup can be cut short anywhere, by a request that dies or by
\* the end of one that came before, and whoever comes next takes it up: no
\* request is refused, unless a file was lost, a crash left a temporary name, or
\* it is a preview that waits for nobody.
THEOREM SetupIsTakenUp == VaultSpec => []SetupResumes
<1> USE VaultIsUsedWell
<1>1. VaultInit => SetupInv
  <2> SUFFICES ASSUME VaultInit
               PROVE  SetupInv
    OBVIOUS
  <2>1. ReadableInv
    BY InitShape DEF VaultInit, ReadableInv, UsersHoldTheKey, MakersFoundNothing, RecordsStayReadable,
                     Setting
  <2>2. \A q \in Requests : ~Setting(q) /\ ~Past(q) /\ pc[q][1] = "start"
    BY DEF VaultInit, Setting, Past
  <2>3. NamesInUse /\ InOrder /\ SetupKnows /\ SetupResumes
    BY <2>2 DEF VaultInit, NamesInUse, InOrder, SetupKnows, SetupResumes, Empty, KeyFiles
  <2> QED
    BY <2>1, <2>2, <2>3 DEF SetupInv, OneSetsUp, Orderly
<1>2. SetupInv /\ [VaultNext]_vaultVars => SetupInv'
  BY SetupInvStep
<1>3. SetupInv => SetupResumes
  BY DEF SetupInv, Orderly, SetupResumes
<1> QED
  BY <1>1, <1>2, <1>3, PTL DEF VaultSpec
-----------------------------------------------------------------------------
(* The report of Open Finance                                              *)

Fields == {"asked", "requests", "rows", "page", "total", "card", "bill", "moves",
           "truth", "listed", "made"}

Knowledge(knows) ==
    /\ DOMAIN knows = Fields
    /\ knows.asked \in Int /\ knows.page \in Nat \ {0}
    /\ knows.rows \in Seq(Listable) /\ knows.moves \in Seq(Listable)

PilotShape ==
    /\ clock \in Nat
    /\ remote \in FirstLists \union LaterLists
    /\ DOMAIN at = Runs /\ DOMAIN run = Runs
    /\ \A r \in Runs : Knowledge(run[r])

\* A run that found the lock free holds it until the report stands, and no
\* other run does.
Holds(r) == Reads(r) \/ at[r] \in {"locked", "saved"}
HoldersHold == \A r \in Runs : Holds(r) <=> holder = r

NothingStands == \A r \in Runs : Reads(r) => ~Reusable(report, Wants[r], run[r].asked)

AskedInv == PilotShape /\ HoldersHold /\ NothingStands
-----------------------------------------------------------------------------
(* What a run knows                                                        *)

\* A set of numbers that is not empty has a least one.
LEMMA LeastIsIn ==
  ASSUME NEW I, I \subseteq Nat, I # {}
  PROVE  Min(I) \in I /\ \A i \in I : Min(I) <= i
<1>1. \E n \in I : \A i \in I : n <= i
  <2>1. IsWellFoundedOn(OpToRel(<, Nat), Nat)
    BY NatLessThanWellFounded
  <2>2. PICK n \in I : \A i \in I : ~ <<i, n>> \in OpToRel(<, Nat)
    BY <2>1, WFMin
  <2>3. \A i \in I : ~(i < n)
    BY <2>2 DEF OpToRel
  <2> QED
    BY <2>3
<1> QED
  BY <1>1 DEF Min

LEMMA NothingIsKnowledge == Knowledge(NothingKnown)
  BY DEF Knowledge, NothingKnown, Fields

LEMMA ListsAreSequences ==
  ASSUME IsSetUp, PilotShape
  PROVE  /\ remote.cards \in Seq(Listable) /\ remote.bills \in Seq(Listable)
         /\ remote.moves \in Seq(Listable)
  BY DEF IsSetUp, PilotShape

LEMMA LearnsIt ==
  ASSUME PilotShape, NEW r \in Runs, NEW knows, Learns(r, knows)
  PROVE  /\ DOMAIN run' = Runs /\ run'[r] = knows
         /\ \A q \in Runs \ {r} : run'[q] = run[q]
  BY DEF PilotShape, Learns

\* A part of a list is a sequence of what it lists.
LEMMA PartOfList ==
  ASSUME NEW list \in Seq(Listable), NEW a \in Nat \ {0}, NEW b \in Int, b <= Len(list)
  PROVE  /\ SubSeq(list, a, b) \in Seq(Listable)
         /\ ToSet(SubSeq(list, a, b)) \subseteq ToSet(list)
<1>1. Len(list) \in Nat /\ DOMAIN list = 1 .. Len(list)
  BY LenProperties
<1>2. \A i \in a .. b : i \in 1 .. Len(list) /\ list[i] \in Listable
  BY <1>1, ElementOfSeq
<1>3. /\ SubSeq(list, a, b) \in Seq(Listable)
      /\ Len(SubSeq(list, a, b)) = IF a <= b THEN b - a + 1 ELSE 0
      /\ \A i \in 1 .. b - a + 1 : SubSeq(list, a, b)[i] = list[a + i - 1]
  BY <1>2, SubSeqProperties
<1>4. DOMAIN SubSeq(list, a, b) = 1 .. Len(SubSeq(list, a, b))
  BY <1>3, LenProperties
<1>5. ASSUME NEW i \in DOMAIN SubSeq(list, a, b)
      PROVE  SubSeq(list, a, b)[i] \in ToSet(list)
  <2>1. a <= b /\ i \in 1 .. b - a + 1
    BY <1>3, <1>4, <1>5
  <2>2. SubSeq(list, a, b)[i] = list[a + i - 1] /\ a + i - 1 \in DOMAIN list
    BY <1>1, <1>3, <2>1
  <2> QED
    BY <2>2 DEF ToSet
<1> QED
  BY <1>3, <1>5 DEF ToSet

LEMMA PageOfList ==
  ASSUME IsSetUp, NEW list \in Seq(Listable), NEW n \in Nat \ {0}
  PROVE  Page(list, n) \in Seq(Listable) /\ ToSet(Page(list, n)) \subseteq ToSet(list)
<1>1. PageSize \in Nat \ {0} /\ Len(list) \in Nat
  BY LenProperties DEF IsSetUp
<1>2. (n - 1) * PageSize \in Nat /\ n * PageSize \in Nat
  BY <1>1
<1> DEFINE a == (n - 1) * PageSize + 1
           b == IF n * PageSize < Len(list) THEN n * PageSize ELSE Len(list)
<1>3. a \in Nat \ {0} /\ b \in Int /\ b <= Len(list)
  BY <1>1, <1>2
<1>4. Page(list, n) = SubSeq(list, a, b)
  BY DEF Page
<1> HIDE DEF a, b
<1> QED
  BY <1>3, <1>4, PartOfList

\* What is heard with a page is all that was heard, and the page.
LEMMA HeardTogether ==
  ASSUME NEW s \in Seq(Listable), NEW t \in Seq(Listable)
  PROVE  s \o t \in Seq(Listable) /\ ToSet(s \o t) = ToSet(s) \union ToSet(t)
<1>1. /\ s \o t \in Seq(Listable) /\ Len(s \o t) = Len(s) + Len(t)
      /\ \A i \in 1 .. Len(s) + Len(t) :
            (s \o t)[i] = IF i <= Len(s) THEN s[i] ELSE t[i - Len(s)]
  BY ConcatProperties
<1>2. /\ Len(s) \in Nat /\ DOMAIN s = 1 .. Len(s) /\ Len(t) \in Nat /\ DOMAIN t = 1 .. Len(t)
      /\ DOMAIN (s \o t) = 1 .. Len(s) + Len(t)
  BY <1>1, LenProperties
<1>3. \A i \in DOMAIN s : (s \o t)[i] = s[i] /\ i \in DOMAIN (s \o t)
  BY <1>1, <1>2
<1>4. \A i \in DOMAIN t : (s \o t)[i + Len(s)] = t[i] /\ i + Len(s) \in DOMAIN (s \o t)
  BY <1>1, <1>2
<1>5. ASSUME NEW i \in DOMAIN (s \o t)
      PROVE  \/ i \in DOMAIN s /\ (s \o t)[i] = s[i]
             \/ i - Len(s) \in DOMAIN t /\ (s \o t)[i] = t[i - Len(s)]
  <2>1. i \in 1 .. Len(s) + Len(t) /\ i \in Nat
    BY <1>2, <1>5
  <2>2. (s \o t)[i] = IF i <= Len(s) THEN s[i] ELSE t[i - Len(s)]
    BY <1>1, <2>1
  <2>3. i <= Len(s) => i \in DOMAIN s
    BY <1>2, <2>1
  <2>4. ~(i <= Len(s)) => i - Len(s) \in DOMAIN t
    BY <1>2, <2>1
  <2> QED
    BY <2>2, <2>3, <2>4
<1>6. ToSet(s \o t) \subseteq ToSet(s) \union ToSet(t)
  BY <1>5 DEF ToSet
<1>7. ToSet(s) \subseteq ToSet(s \o t) /\ ToSet(t) \subseteq ToSet(s \o t)
  BY <1>3, <1>4 DEF ToSet
<1> QED
  BY <1>1, <1>6, <1>7

\* A cursor is a place in the list, or past its end.
LEMMA ResumedIsPlace ==
  ASSUME NEW list \in Seq(Listable), NEW rows, NEW first \in Resumed(list, rows)
  PROVE  first \in Nat \ {0}
<1>1. CASE rows = <<>> \/ Last(rows) \notin ToSet(list)
  BY <1>1 DEF Resumed
<1>2. CASE ~(rows = <<>> \/ Last(rows) \notin ToSet(list))
  <2> DEFINE I == {i \in 1 .. Len(list) : list[i] = Last(rows)}
  <2>1. first = 1 \/ first = (IF I # {} THEN Min(I) ELSE 0) + 1
    BY <1>2 DEF Resumed, SelectInSeq
  <2>2. Min(I) \in Nat \/ I = {}
    <3> SUFFICES ASSUME I # {}
                 PROVE  Min(I) \in Nat
      OBVIOUS
    <3>1. I \subseteq Nat
      OBVIOUS
    <3> HIDE DEF I
    <3> QED
      BY <3>1, LeastIsIn
  <2> QED
    BY <2>1, <2>2
<1> QED
  BY <1>1, <1>2

LEMMA PagedKnows ==
  ASSUME IsSetUp, NEW knows, Knowledge(knows), NEW list \in Seq(Listable)
  PROVE  LET with == Paged(knows, list).knows
             heard == knows.rows \o Page(list, knows.page)
         IN  /\ Knowledge(with)
             /\ with.rows = heard /\ with.page = knows.page + 1
             /\ with.asked = knows.asked /\ with.listed = knows.listed
             /\ with.card = knows.card /\ with.bill = knows.bill
             /\ with.truth = IF knows.page = 1 THEN ToSet(list) ELSE knows.truth
<1> DEFINE heard == knows.rows \o Page(list, knows.page)
           noted == Noting(knows, list)
<1>1. heard \in Seq(Listable)
  BY PageOfList, HeardTogether DEF Knowledge
<1>2. /\ Knowledge(noted)
      /\ noted.asked = knows.asked /\ noted.listed = knows.listed
      /\ noted.card = knows.card /\ noted.bill = knows.bill /\ noted.page = knows.page
      /\ noted.truth = IF knows.page = 1 THEN ToSet(list) ELSE knows.truth
  BY DEF Noting, Knowledge, Fields
<1>3. Paged(knows, list).knows = [noted EXCEPT !.rows = heard, !.page = @ + 1, !.total = Len(list)]
  BY DEF Paged
<1> HIDE DEF heard, noted
<1>4. /\ Knowledge(Paged(knows, list).knows)
      /\ Paged(knows, list).knows.rows = heard
      /\ Paged(knows, list).knows.page = noted.page + 1
      /\ Paged(knows, list).knows.asked = noted.asked
      /\ Paged(knows, list).knows.listed = noted.listed
      /\ Paged(knows, list).knows.card = noted.card
      /\ Paged(knows, list).knows.bill = noted.bill
      /\ Paged(knows, list).knows.truth = noted.truth
  BY <1>1, <1>2, <1>3 DEF Knowledge, Fields
<1> QED
  BY <1>2, <1>4 DEF heard
-----------------------------------------------------------------------------
(* One run reads at a time                                                 *)

\* The step of a run is its own, and what it knows stays in shape.
LEMMA StepOfOne ==
  ASSUME IsSetUp, PilotShape, NEW r \in Runs, RunStep(r)
  PROVE  /\ PilotShape'
         /\ \A q \in Runs \ {r} : at'[q] = at[q] /\ run'[q] = run[q]
         /\ UNCHANGED <<clock, remote>>
<1> DEFINE Own1 == /\ \A q \in Runs \ {r} : at'[q] = at[q]
                   /\ DOMAIN at' = Runs
                   /\ UNCHANGED <<clock, remote>>
<1>a. ASSUME Own1, UNCHANGED run
      PROVE  PilotShape' /\ \A q \in Runs \ {r} : at'[q] = at[q] /\ run'[q] = run[q]
  BY <1>a DEF PilotShape
<1>b. ASSUME Own1, NEW knows, Knowledge(knows), Learns(r, knows)
      PROVE  PilotShape' /\ \A q \in Runs \ {r} : at'[q] = at[q] /\ run'[q] = run[q]
  BY <1>b, LearnsIt DEF PilotShape
<1>c. ASSUME Stops(r)
      PROVE  Own1 /\ PilotShape' /\ \A q \in Runs \ {r} : at'[q] = at[q] /\ run'[q] = run[q]
  <2>1. Own1 /\ Learns(r, NothingKnown)
    BY <1>c DEF Stops, ForgetsAll, PilotShape
  <2> QED
    BY <1>b, <2>1, NothingIsKnowledge
<1>d. ASSUME NEW knows, Knowledge(knows), NEW to, Continues(r, knows, to)
      PROVE  Own1 /\ PilotShape' /\ \A q \in Runs \ {r} : at'[q] = at[q] /\ run'[q] = run[q]
  <2>1. Own1 /\ Learns(r, knows)
    BY <1>d DEF Continues, PilotShape
  <2> QED
    BY <1>b, <1>d, <2>1
<1>k. Knowledge(run[r]) /\ Knowledge(Asked(r)) /\ Asked(r).rows = run[r].rows
  BY DEF PilotShape, Knowledge, Asked, Fields
<1>l. /\ remote.cards \in Seq(Listable) /\ remote.bills \in Seq(Listable)
      /\ remote.moves \in Seq(Listable) /\ <<>> \in Seq(Listable)
  BY ListsAreSequences, EmptySeq
<1>1. CASE Begin(r)
  <2>1. Knowledge([run[r] EXCEPT !.asked = clock])
    BY <1>k DEF Knowledge, Fields, PilotShape
  <2>2. Own1 /\ Learns(r, [run[r] EXCEPT !.asked = clock])
    BY <1>1 DEF Begin, Goes, PilotShape
  <2> QED
    BY <1>b, <2>1, <2>2
<1>2. CASE Lock(r)
  BY <1>2, <1>a, <1>c DEF Lock, Goes, PilotShape
<1>3. CASE Load(r)
  <2>1. Own1 /\ (Learns(r, NothingKnown) \/ UNCHANGED run)
    BY <1>3 DEF Load, ForgetsAll, PilotShape
  <2> QED
    BY <1>a, <1>b, <2>1, NothingIsKnowledge
<1>4. CASE RequestFails(r) \/ RefusesRequest(r) \/ StorageFails(r)
  BY <1>4, <1>c DEF RequestFails, RefusesRequest, StorageFails
<1>5. CASE Authenticate(r)
  BY <1>5, <1>b, <1>k DEF Authenticate, Goes, PilotShape
<1>6. CASE ReadItem(r)
  BY <1>6, <1>b, <1>c, <1>k DEF ReadItem, Goes, PilotShape
<1>7. CASE ReadCards(r)
  <2> DEFINE got == Paged(Asked(r), remote.cards)
  <2>1. Knowledge(got.knows)
    BY <1>k, <1>l, PagedKnows
  <2>2. \A card : Knowledge(Begun([got.knows EXCEPT !.card = card]))
    <3> HIDE DEF got
    <3> QED
      BY <2>1, <1>l DEF Begun, Knowledge, Fields
  <2>3. PICK card : \/ Stops(r) \/ Continues(r, got.knows, at[r])
                    \/ Continues(r, Begun([got.knows EXCEPT !.card = card]), "bills")
    BY <1>7 DEF ReadCards, GoesOn
  <2> HIDE DEF got
  <2> QED
    BY <1>c, <1>d, <2>1, <2>2, <2>3
<1>8. CASE ReadBills(r)
  <2> DEFINE got == Paged(Asked(r), IF run[r].card = Own THEN remote.bills ELSE <<>>)
             chosen(bill) == [got.knows EXCEPT !.bill = bill, !.listed = got.knows.truth]
  <2>1. Knowledge(got.knows)
    BY <1>k, <1>l, PagedKnows
  <2>2. \A bill : Knowledge(chosen(bill)) /\ Knowledge(Begun(chosen(bill)))
    <3> HIDE DEF got
    <3> QED
      BY <2>1, <1>l DEF Begun, Knowledge, Fields
  <2>3. PICK bill : \/ Stops(r) \/ Continues(r, got.knows, at[r])
                    \/ Continues(r, Begun(chosen(bill)), "moves")
                    \/ Continues(r, chosen(bill), "observed")
    BY <1>8 DEF ReadBills, GoesOn
  <2> HIDE DEF got, chosen
  <2> QED
    BY <1>c, <1>d, <2>1, <2>2, <2>3
<1>9. CASE ReadMoves(r)
  <2> DEFINE noted == Noting(Asked(r), remote.moves)
             with(rows) == [noted EXCEPT !.rows = @ \o rows, !.page = @ + 1]
             ending(first) == IF first + PageSize - 1 < Len(remote.moves)
                              THEN first + PageSize - 1 ELSE Len(remote.moves)
             part(first) == SubSeq(remote.moves, first, ending(first))
  <2>1. Knowledge(noted)
    BY <1>k DEF Noting, Knowledge, Fields
  <2>2. \A rows \in Seq(Listable) :
          Knowledge(with(rows)) /\ Knowledge([with(rows) EXCEPT !.moves = with(rows).rows])
    <3> HIDE DEF noted
    <3> QED
      BY <2>1, HeardTogether DEF Knowledge, Fields
  <2>3. PICK first \in Resumed(remote.moves, run[r].rows) :
          \/ Stops(r) \/ Continues(r, with(part(first)), "moves")
          \/ Continues(r, [with(part(first)) EXCEPT !.moves = with(part(first)).rows], "observed")
    BY <1>9 DEF ReadMoves
  <2>4. part(first) \in Seq(Listable)
    <3>1. first \in Nat \ {0}
      BY <1>l, <2>3, ResumedIsPlace
    <3>2. ending(first) \in Int /\ ending(first) <= Len(remote.moves)
      BY <1>l, <3>1, LenProperties DEF IsSetUp
    <3> HIDE DEF ending
    <3> QED
      BY <1>l, <3>1, <3>2, PartOfList
  <2> HIDE DEF noted, with, part
  <2> QED
    BY <1>c, <1>d, <2>2, <2>3, <2>4
<1>10. CASE BuildReport(r)
  <2>1. PICK stored :
              \/ Stops(r)
              \/ Continues(r, [NothingKnown EXCEPT !.asked = run[r].asked, !.made = stored], "built")
    BY <1>10 DEF BuildReport
  <2>2. Knowledge([NothingKnown EXCEPT !.asked = run[r].asked, !.made = stored])
    BY <1>k, NothingIsKnowledge DEF Knowledge, Fields
  <2> QED
    BY <1>c, <1>d, <2>1, <2>2
<1>11. CASE WriteTemporary(r) \/ Replace(r)
  BY <1>11, <1>a DEF WriteTemporary, Replace, Goes, PilotShape
<1>12. CASE Unlock(r) \/ Dies(r)
  <2>1. Own1 /\ Learns(r, NothingKnown)
    BY <1>12 DEF Unlock, Dies, Goes, ForgetsAll, PilotShape
  <2> QED
    BY <1>b, <2>1, NothingIsKnowledge
<1> QED
  BY <1>1, <1>2, <1>3, <1>4, <1>5, <1>6, <1>7, <1>8, <1>9, <1>10, <1>11, <1>12
    DEF RunStep

\* A change of the provider's lists, and time, move no run.
LEMMA WorldStep ==
  ASSUME IsSetUp, PilotShape, Tick \/ Relist
  PROVE  /\ PilotShape' /\ UNCHANGED <<at, holder, report>>
         /\ \A r \in Runs :
               \/ run'[r] = run[r]
               \/ Misled(r, remote') /\ run'[r] = [run[r] EXCEPT !.truth = Absent]
<1>1. CASE Tick
  BY <1>1 DEF Tick, PilotShape
<1>2. CASE Relist
  <2>1. \A r \in Runs : Knowledge([run[r] EXCEPT !.truth = Absent])
    BY DEF PilotShape, Knowledge, Fields
  <2> QED
    BY <1>2, <2>1 DEF Relist, PilotShape
<1> QED
  BY <1>1, <1>2

\* What a step does to the lock and the report, and who starts to read.
LEMMA StepIsGuarded ==
  ASSUME IsSetUp, PilotShape, HoldersHold, NEW r \in Runs, RunStep(r)
  PROVE  /\ Holds(r)' => \/ Holds(r) /\ holder' = holder
                         \/ holder = Absent /\ holder' = r
         /\ ~Holds(r)' => holder' = IF holder = r THEN Absent ELSE holder
         /\ Reads(r)' => /\ run'[r].asked = run[r].asked /\ report' = report
                         /\ \/ Reads(r)
                            \/ at[r] = "locked" /\ ~Reusable(report, Wants[r], run[r].asked)
         /\ \/ report' = report
            \/ at[r] = "written" /\ report' = run[r].made
<1> DEFINE Goal == /\ Holds(r)' => \/ Holds(r) /\ holder' = holder
                                   \/ holder = Absent /\ holder' = r
                   /\ ~Holds(r)' => holder' = IF holder = r THEN Absent ELSE holder
                   /\ Reads(r)' => /\ run'[r].asked = run[r].asked /\ report' = report
                                   /\ \/ Reads(r)
                                      \/ /\ at[r] = "locked"
                                         /\ ~Reusable(report, Wants[r], run[r].asked)
                   /\ \/ report' = report
                      \/ at[r] = "written" /\ report' = run[r].made
<1> SUFFICES Goal
  OBVIOUS
<1>h. Holds(r) <=> holder = r
  BY DEF HoldersHold
<1>k. Knowledge(run[r]) /\ Knowledge(Asked(r)) /\ Asked(r).asked = run[r].asked
  BY DEF PilotShape, Knowledge, Asked, Fields
<1>l. /\ remote.cards \in Seq(Listable) /\ remote.bills \in Seq(Listable)
      /\ remote.moves \in Seq(Listable) /\ <<>> \in Seq(Listable)
  BY ListsAreSequences, EmptySeq
<1> USE DEF Holds, Reads, Requesting
<1>c. ASSUME Stops(r)
      PROVE  Goal
  BY <1>c DEF Stops, PilotShape
<1>d. ASSUME NEW knows, NEW to, Continues(r, knows, to), knows.asked = run[r].asked, Reads(r),
             to \in Requesting \union {"observed", "built"}
      PROVE  Goal
  BY <1>d, <1>h DEF Continues, Learns, PilotShape
<1>1. CASE Begin(r)
  BY <1>1, <1>h DEF Begin, Goes, PilotShape
<1>2. CASE Lock(r)
  BY <1>2, <1>c DEF Lock, MayLock, Goes, PilotShape
<1>3. CASE Load(r)
  BY <1>3, <1>h DEF Load, PilotShape
<1>4. CASE RequestFails(r) \/ RefusesRequest(r) \/ StorageFails(r)
  BY <1>4, <1>c DEF RequestFails, RefusesRequest, StorageFails
<1>5. CASE Authenticate(r)
  BY <1>5, <1>h, <1>k DEF Authenticate, Goes, Learns, PilotShape
<1>6. CASE ReadItem(r)
  BY <1>6, <1>c, <1>h, <1>k DEF ReadItem, Goes, Learns, PilotShape
<1>7. CASE ReadCards(r)
  <2> DEFINE got == Paged(Asked(r), remote.cards)
  <2>1. Knowledge(got.knows) /\ got.knows.asked = run[r].asked
    BY <1>k, <1>l, PagedKnows
  <2>2. \A card : Begun([got.knows EXCEPT !.card = card]).asked = run[r].asked
    <3> HIDE DEF got
    <3> QED
      BY <2>1 DEF Begun, Knowledge, Fields
  <2>3. PICK card : \/ Stops(r) \/ Continues(r, got.knows, at[r])
                    \/ Continues(r, Begun([got.knows EXCEPT !.card = card]), "bills")
    BY <1>7 DEF ReadCards, GoesOn
  <2>4. at[r] = "cards"
    BY <1>7 DEF ReadCards
  <2> HIDE DEF got, Goal
  <2> QED
    BY <1>c, <1>d, <2>1, <2>2, <2>3, <2>4
<1>8. CASE ReadBills(r)
  <2> DEFINE got == Paged(Asked(r), IF run[r].card = Own THEN remote.bills ELSE <<>>)
             chosen(bill) == [got.knows EXCEPT !.bill = bill, !.listed = got.knows.truth]
  <2>1. Knowledge(got.knows) /\ got.knows.asked = run[r].asked
    BY <1>k, <1>l, PagedKnows
  <2>2. \A bill : chosen(bill).asked = run[r].asked /\ Begun(chosen(bill)).asked = run[r].asked
    <3> HIDE DEF got
    <3> QED
      BY <2>1 DEF Begun, Knowledge, Fields
  <2>3. PICK bill : \/ Stops(r) \/ Continues(r, got.knows, at[r])
                    \/ Continues(r, Begun(chosen(bill)), "moves")
                    \/ Continues(r, chosen(bill), "observed")
    BY <1>8 DEF ReadBills, GoesOn
  <2>4. at[r] = "bills"
    BY <1>8 DEF ReadBills
  <2> HIDE DEF got, chosen, Goal
  <2> QED
    BY <1>c, <1>d, <2>1, <2>2, <2>3, <2>4
<1>9. CASE ReadMoves(r)
  <2> DEFINE noted == Noting(Asked(r), remote.moves)
             with(rows) == [noted EXCEPT !.rows = @ \o rows, !.page = @ + 1]
  <2>1. Knowledge(noted) /\ noted.asked = run[r].asked
    BY <1>k DEF Noting, Knowledge, Fields
  <2>2. \A rows : /\ with(rows).asked = run[r].asked
                  /\ [with(rows) EXCEPT !.moves = with(rows).rows].asked = run[r].asked
    <3> HIDE DEF noted
    <3> QED
      BY <2>1 DEF Knowledge, Fields
  <2>3. PICK rows :
          \/ Stops(r) \/ Continues(r, with(rows), "moves")
          \/ Continues(r, [with(rows) EXCEPT !.moves = with(rows).rows], "observed")
    BY <1>9 DEF ReadMoves
  <2>4. at[r] = "moves"
    BY <1>9 DEF ReadMoves
  <2> HIDE DEF noted, with, Goal
  <2> QED
    BY <1>c, <1>d, <2>2, <2>3, <2>4
<1>10. CASE BuildReport(r)
  <2>1. PICK stored :
              \/ Stops(r)
              \/ Continues(r, [NothingKnown EXCEPT !.asked = run[r].asked, !.made = stored], "built")
    BY <1>10 DEF BuildReport
  <2>2. [NothingKnown EXCEPT !.asked = run[r].asked, !.made = stored].asked = run[r].asked
    BY NothingIsKnowledge DEF Knowledge, Fields
  <2>3. at[r] = "observed"
    BY <1>10 DEF BuildReport
  <2> HIDE DEF Goal
  <2> QED
    BY <1>c, <1>d, <2>1, <2>2, <2>3
<1>11. CASE WriteTemporary(r) \/ Replace(r)
  BY <1>11, <1>h DEF WriteTemporary, Replace, Goes, PilotShape
<1>12. CASE Unlock(r) \/ Dies(r)
  BY <1>12, <1>h DEF Unlock, Dies, Goes, PilotShape
<1> QED
  BY <1>1, <1>2, <1>3, <1>4, <1>5, <1>6, <1>7, <1>8, <1>9, <1>10, <1>11, <1>12
    DEF RunStep

LEMMA AskedStep == IsSetUp /\ AskedInv /\ [PilotNext]_pilotVars => AskedInv'
<1> SUFFICES ASSUME IsSetUp, AskedInv, [PilotNext]_pilotVars
             PROVE  AskedInv'
  OBVIOUS
<1>0. PilotShape /\ HoldersHold /\ NothingStands /\ Absent \notin Runs
  BY DEF AskedInv, IsSetUp
<1>1. ASSUME NEW r \in Runs, RunStep(r)
      PROVE  AskedInv'
  <2>1. PilotShape' /\ \A q \in Runs \ {r} : at'[q] = at[q] /\ run'[q] = run[q]
    BY <1>0, <1>1, StepOfOne
  <2>2. /\ Holds(r)' => \/ Holds(r) /\ holder' = holder
                        \/ holder = Absent /\ holder' = r
        /\ ~Holds(r)' => holder' = IF holder = r THEN Absent ELSE holder
        /\ Reads(r)' => /\ run'[r].asked = run[r].asked /\ report' = report
                        /\ \/ Reads(r)
                           \/ at[r] = "locked" /\ ~Reusable(report, Wants[r], run[r].asked)
        /\ \/ report' = report
           \/ at[r] = "written" /\ report' = run[r].made
    BY <1>0, <1>1, StepIsGuarded
  <2>3. \A q \in Runs \ {r} : (Holds(q)' <=> Holds(q)) /\ (Reads(q)' <=> Reads(q))
    BY <2>1 DEF Holds, Reads
  <2>4. HoldersHold'
    BY <1>0, <2>2, <2>3 DEF HoldersHold
  <2>5. ASSUME NEW q \in Runs \ {r}, Reads(q)'
        PROVE  ~Reusable(report', Wants[q], run'[q].asked)
    <3>1. Reads(q) /\ holder = q
      BY <1>0, <2>3, <2>5 DEF HoldersHold, Holds
    <3>2. at[r] = "written" => holder = r
      BY <1>0 DEF HoldersHold, Holds, Reads
    <3> QED
      BY <1>0, <2>1, <2>2, <3>1, <3>2 DEF NothingStands
  <2>6. Reads(r)' => ~Reusable(report', Wants[r], run'[r].asked)
    BY <1>0, <2>2 DEF NothingStands
  <2> QED
    BY <2>1, <2>4, <2>5, <2>6 DEF AskedInv, NothingStands
<1>2. CASE Tick \/ Relist
  <2>1. /\ PilotShape' /\ UNCHANGED <<at, holder, report>>
        /\ \A r \in Runs : \/ run'[r] = run[r]
                          \/ run'[r] = [run[r] EXCEPT !.truth = Absent]
    BY <1>0, <1>2, WorldStep
  <2>2. \A r \in Runs : run'[r].asked = run[r].asked
    BY <1>0, <2>1 DEF PilotShape, Knowledge, Fields
  <2> QED
    BY <1>0, <2>1, <2>2 DEF AskedInv, HoldersHold, NothingStands, Holds, Reads
<1>3. CASE UNCHANGED pilotVars
  BY <1>0, <1>3 DEF pilotVars, AskedInv, PilotShape, HoldersHold, NothingStands, Holds, Reads
<1> QED
  BY <1>1, <1>2, <1>3 DEF PilotNext

LEMMA AskedInit == IsSetUp /\ PilotInit => AskedInv
<1> SUFFICES ASSUME IsSetUp, PilotInit
             PROVE  AskedInv
  OBVIOUS
<1>1. PilotShape
  BY NothingIsKnowledge DEF PilotInit, PilotShape
<1>2. \A r \in Runs : ~Holds(r) /\ ~Reads(r) /\ holder # r
  BY DEF PilotInit, Holds, Reads, Requesting, IsSetUp
<1> QED
  BY <1>1, <1>2 DEF AskedInv, HoldersHold, NothingStands

\* Whatever the runs, their options and the lists: one run at a time asks the
\* provider, and none does while a report stands that would have answered it
\* when it was started.
THEOREM AskedOnce == PilotSpec => []ProviderIsAskedOnce
<1>1. PilotInit => AskedInv
  BY AskedInit, SettingsAssumption
<1>2. AskedInv /\ [PilotNext]_pilotVars => AskedInv'
  BY AskedStep, SettingsAssumption
<1>3. AskedInv => ProviderIsAskedOnce
  BY DEF AskedInv, HoldersHold, NothingStands, Holds, ProviderIsAskedOnce
<1> QED
  BY <1>1, <1>2, <1>3, PTL DEF PilotSpec
-----------------------------------------------------------------------------
(* The report is whole                                                     *)

BillsOf(r) == IF run[r].card = Own THEN remote.bills ELSE <<>>

\* The pages of the bills read so far repeat none and, as long as the list is
\* that of the first page, hold nothing else.
BillsHeard(r) ==
    at[r] = "bills" =>
        /\ IsInjective(run[r].rows)
        /\ run[r].page = 1 => run[r].rows = <<>>
        /\ run[r].page # 1 /\ run[r].truth # Absent =>
              run[r].truth = ToSet(BillsOf(r)) /\ ToSet(run[r].rows) \subseteq run[r].truth

\* The transactions read so far are the first ones of a list that stays.
Begins(rows, list) == Len(rows) <= Len(list) /\ rows = SubSeq(list, 1, Len(rows))

MovesHeard(r) ==
    at[r] = "moves" =>
        /\ IsInjective(run[r].rows)
        /\ run[r].page = 1 => run[r].rows = <<>>
        /\ run[r].page # 1 /\ run[r].truth # Absent =>
              run[r].truth = ToSet(remote.moves) /\ Begins(run[r].rows, remote.moves)

\* What a run has concluded from a list that it has read to the end.
Concluded(r) ==
    /\ at[r] \in {"moves", "observed"} /\ run[r].listed # Absent =>
          run[r].bill = Picked(run[r].listed, Wants[r], Day(run[r].asked))
    /\ at[r] = "observed" /\ Wants[r].moves /\ run[r].truth # Absent =>
          ToSet(run[r].moves) = run[r].truth

IsWhole(rep) ==
    /\ rep.retrieved < rep.expires
    /\ rep.bills # Absent => rep.bill = Picked(rep.bills, rep.selection, rep.cutoff)
    /\ rep.selection.moves /\ rep.moves # Absent => rep.linked = Linked(rep.moves, rep.bill)

\* The report that is about to take the place of the one that stands.
Made(r) ==
    at[r] \in {"built", "written"} =>
        /\ IsWhole(run[r].made) /\ run[r].made # Absent
        /\ run[r].made.retrieved \in Int /\ run[r].made.retrieved <= clock
        /\ report # Absent => report.retrieved <= run[r].made.retrieved

Right(r) == BillsHeard(r) /\ MovesHeard(r) /\ Concluded(r) /\ Made(r)

ReportStanding == report # Absent => report.retrieved \in Int /\ report.retrieved <= clock

WholeInv == AskedInv /\ ReportStanding /\ \A r \in Runs : Right(r)

\* A report is never taken for the lack of one.
AbsentIsNoReport ==
    \A want, now, day, card, bill, linked, bills, moves :
        Absent # [selection |-> want, retrieved |-> now, cutoff |-> day, expires |-> Expiry,
                card |-> card, bill |-> bill, linked |-> linked, bills |-> bills, moves |-> moves]

\* As many records as the list has, all of them from it and none twice, are all.
LEMMA CompleteIsAll ==
  ASSUME NEW list \in Seq(Listable), NEW heard \in Seq(Listable), IsInjective(heard),
         ToSet(heard) \subseteq ToSet(list), Len(heard) = Len(list)
  PROVE  ToSet(heard) = ToSet(list)
<1>1. /\ Len(list) \in Nat /\ DOMAIN list = 1 .. Len(list)
      /\ list \in [1 .. Len(list) -> Listable]
      /\ DOMAIN heard = 1 .. Len(list) /\ heard \in [1 .. Len(list) -> Listable]
  BY LenProperties
<1>2. list \in Surjection(1 .. Len(list), ToSet(list))
  BY <1>1 DEF Surjection, ToSet
<1>3. heard \in Bijection(1 .. Len(list), ToSet(heard))
  BY <1>1 DEF Bijection, Injection, Surjection, ToSet, IsInjective
<1>4. IsFiniteSet(ToSet(list)) /\ Cardinality(ToSet(list)) <= Len(list)
  BY <1>1, <1>2, FS_NatSurjection, FS_SurjCardinalityBound DEF ExistsSurjection
<1>5. IsFiniteSet(ToSet(heard)) /\ Cardinality(ToSet(heard)) = Len(list)
  BY <1>1, <1>3, FS_NatBijection, FS_CountingElements DEF ExistsBijection
<1>6. /\ Cardinality(ToSet(heard)) <= Cardinality(ToSet(list))
      /\ Cardinality(ToSet(list)) = Cardinality(ToSet(heard)) => ToSet(list) = ToSet(heard)
  BY <1>4, FS_Subset
<1>7. Cardinality(ToSet(list)) \in Nat
  BY <1>4, FS_CardinalityType
<1> QED
  BY <1>1, <1>4, <1>5, <1>6, <1>7

\* A page of the bills that is not refused.
LEMMA BillsGoOn ==
  ASSUME IsSetUp, PilotShape, NEW r \in Runs, BillsHeard(r), at[r] = "bills",
         NEW got, got = Paged(Asked(r), BillsOf(r)), got.end # "refused"
  PROVE  /\ IsInjective(got.knows.rows) /\ got.knows.page # 1
         /\ got.knows.truth # Absent =>
               /\ got.knows.truth = ToSet(BillsOf(r))
               /\ ToSet(got.knows.rows) \subseteq got.knows.truth
               /\ got.end = "whole" => ToSet(got.knows.rows) = got.knows.truth
<1> DEFINE list == BillsOf(r)
           rows == Page(list, run[r].page)
           heard == run[r].rows \o rows
<1>1. /\ Knowledge(Asked(r)) /\ Asked(r).rows = run[r].rows /\ Asked(r).page = run[r].page
      /\ Asked(r).truth = run[r].truth
      /\ run[r].rows \in Seq(Listable) /\ run[r].page \in Nat \ {0}
  BY DEF PilotShape, Knowledge, Asked, Fields
<1>2. list \in Seq(Listable)
  BY ListsAreSequences, EmptySeq DEF BillsOf
<1>3. /\ got.knows.rows = heard /\ got.knows.page = run[r].page + 1
      /\ got.knows.truth = IF run[r].page = 1 THEN ToSet(list) ELSE run[r].truth
  <2> DEFINE knows == Asked(r)
  <2>1. Knowledge(knows)
    BY <1>1
  <2>2. got = Paged(knows, list) /\ knows.rows = run[r].rows /\ knows.page = run[r].page
        /\ knows.truth = run[r].truth
    BY <1>1
  <2> HIDE DEF knows, list
  <2>3. LET with == Paged(knows, list).knows
        IN  /\ with.rows = knows.rows \o Page(list, knows.page)
            /\ with.page = knows.page + 1
            /\ with.truth = IF knows.page = 1 THEN ToSet(list) ELSE knows.truth
    BY ONLY <1>2, <2>1, PagedKnows, IsSetUp
  <2> QED
    BY <2>2, <2>3
<1>4. rows \in Seq(Listable) /\ ToSet(rows) \subseteq ToSet(list)
  BY <1>1, <1>2, PageOfList
<1>5. heard \in Seq(Listable) /\ ToSet(heard) = ToSet(run[r].rows) \union ToSet(rows)
  BY <1>1, <1>4, HeardTogether
<1>6. IsInjective(heard) /\ (got.end = "whole" => Len(heard) = Len(list))
  <2>1. PagesOf(list) \in Int
    BY <1>2, LenProperties DEF PagesOf, IsSetUp
  <2> HIDE DEF heard, rows, list
  <2>2. /\ AreNew(rows, run[r].rows)
        /\ run[r].page >= PagesOf(list) => IsComplete(heard, Len(list))
        /\ got.end = "whole" => ~(run[r].page < PagesOf(list))
    BY <1>1 DEF Paged, heard, rows, list
  <2> QED
    BY <1>1, <2>1, <2>2 DEF AreNew, IsComplete, heard
<1>7. ASSUME got.knows.truth # Absent
      PROVE  got.knows.truth = ToSet(list) /\ ToSet(run[r].rows) \subseteq ToSet(list)
  <2>1. CASE run[r].page = 1
    <3>1. run[r].rows = <<>>
      BY <2>1 DEF BillsHeard
    <3>2. ToSet(run[r].rows) = {}
      BY <3>1 DEF ToSet
    <3> QED
      BY <1>3, <2>1, <3>2
  <2>2. CASE run[r].page # 1
    BY <1>3, <1>7, <2>2 DEF BillsHeard
  <2> QED
    BY <2>1, <2>2
<1>8. got.knows.page # 1
  BY <1>1, <1>3
<1> HIDE DEF heard, rows, list
<1>9. Len(heard) = Len(list) /\ ToSet(heard) \subseteq ToSet(list) => ToSet(heard) = ToSet(list)
  BY <1>2, <1>5, <1>6, CompleteIsAll
<1> QED
  BY <1>3, <1>4, <1>5, <1>6, <1>7, <1>8, <1>9 DEF list

PageEnd(list, first) ==
    IF first + PageSize - 1 < Len(list) THEN first + PageSize - 1 ELSE Len(list)

\* While the list stays, a cursor takes up where the pages before it ended, or
\* repeats one of them.
LEMMA ResumesAfter ==
  ASSUME IsSetUp, NEW list \in Seq(Listable), NEW rows \in Seq(Listable), IsInjective(rows),
         Begins(rows, list), NEW first \in Nat \ {0}, first \in Resumed(list, rows),
         NEW last \in Int, last = PageEnd(list, first),
         AreNew(SubSeq(list, first, last), rows)
  PROVE  /\ last \in 0 .. Len(list)
         /\ rows \o SubSeq(list, first, last) = SubSeq(list, 1, last)
<1>1. /\ Len(list) \in Nat /\ DOMAIN list = 1 .. Len(list) /\ Len(rows) \in Nat
      /\ DOMAIN rows = 1 .. Len(rows)
  BY LenProperties
<1>2. last <= Len(list) /\ (first <= last \/ last = Len(list))
  <2>1. PageSize \in Nat \ {0} /\ first + PageSize - 1 \in Int /\ first <= first + PageSize - 1
    BY DEF IsSetUp
  <2>2. \/ last = first + PageSize - 1 /\ first + PageSize - 1 < Len(list)
        \/ last = Len(list)
    BY DEF PageEnd
  <2> QED
    BY <1>1, <2>1, <2>2
<1>3. /\ SubSeq(list, first, last) \in Seq(Listable)
      /\ Len(SubSeq(list, first, last)) = IF first <= last THEN last - first + 1 ELSE 0
      /\ \A i \in 1 .. last - first + 1 : SubSeq(list, first, last)[i] = list[first + i - 1]
  <2>1. \A i \in first .. last : list[i] \in Listable
    BY <1>1, <1>2, ElementOfSeq
  <2> QED
    BY <2>1, SubSeqProperties
<1>4. \A i \in 1 .. Len(rows) : rows[i] = list[i]
  <2>1. \A i \in 1 .. Len(rows) : list[i] \in Listable
    BY <1>1, ElementOfSeq DEF Begins
  <2>2. \A i \in 1 .. Len(rows) : SubSeq(list, 1, Len(rows))[i] = list[i]
    BY <1>1, <2>1, SubSeqProperties
  <2> QED
    BY <2>2 DEF Begins
<1>5. CASE rows = <<>>
  <2>1. first = 1
    BY <1>5 DEF Resumed
  <2> QED
    BY <1>1, <1>2, <1>3, <1>5, <2>1, ConcatEmptySeq
<1>6. CASE rows # <<>>
  <2>1. Len(rows) \in 1 .. Len(list)
    BY <1>1, <1>6, EmptySeq DEF Begins
  <2>2. Last(rows) = list[Len(rows)]
    BY <1>4, <2>1 DEF Last
  <2>3. Last(rows) \in ToSet(list)
    BY <1>1, <2>1, <2>2 DEF ToSet
  <2> DEFINE I == {i \in 1 .. Len(list) : list[i] = Last(rows)}
  <2>4. Min(I) = Len(rows)
    <3>1. Len(rows) \in I
      BY <2>1, <2>2
    <3>2. Min(I) \in I /\ Min(I) <= Len(rows)
      <4>1. I \subseteq Nat /\ I # {}
        BY <3>1
      <4> HIDE DEF I
      <4> QED
        BY <3>1, <4>1, LeastIsIn
    <3>3. Min(I) \in 1 .. Len(list) /\ list[Min(I)] = Last(rows)
      BY <3>2
    <3> HIDE DEF I
    <3>4. Min(I) \in 1 .. Len(rows)
      BY <1>1, <3>2, <3>3
    <3>5. rows[Min(I)] = rows[Len(rows)]
      BY <1>4, <3>3, <3>4 DEF Last
    <3> QED
      BY <1>1, <2>1, <3>4, <3>5 DEF IsInjective
  <2>5. first = 1 \/ first = Len(rows) + 1
    <3>1. I # {}
      BY <2>1, <2>2
    <3>2. first = 1 \/ first = (IF I # {} THEN Min(I) ELSE 0) + 1
      BY <1>6, <2>3 DEF Resumed, SelectInSeq
    <3> QED
      BY <2>4, <3>1, <3>2
  <2>6. CASE first = 1
    <3> DEFINE next == SubSeq(list, first, last)
    <3>1. 1 <= last /\ Len(next) \in Nat \ {0}
      BY <1>1, <1>2, <1>3, <2>1, <2>6
    <3>2. /\ Len(rows \o next) = Len(rows) + Len(next)
          /\ \A i \in 1 .. Len(rows) + Len(next) :
                (rows \o next)[i] = IF i <= Len(rows) THEN rows[i] ELSE next[i - Len(rows)]
          /\ DOMAIN (rows \o next) = 1 .. Len(rows) + Len(next)
      <4>1. next \in Seq(Listable)
        BY <1>3
      <4> HIDE DEF next
      <4>2. /\ rows \o next \in Seq(Listable) /\ Len(rows \o next) = Len(rows) + Len(next)
            /\ \A i \in 1 .. Len(rows) + Len(next) :
                  (rows \o next)[i] = IF i <= Len(rows) THEN rows[i] ELSE next[i - Len(rows)]
        BY <4>1, ConcatProperties
      <4>3. DOMAIN (rows \o next) = 1 .. Len(rows \o next)
        BY <4>2, LenProperties
      <4> QED
        BY <4>2, <4>3
    <3>3. next[1] = list[1]
      BY <1>3, <2>6, <3>1
    <3>4. rows[1] = list[1]
      BY <1>4, <2>1
    <3> HIDE DEF next
    <3>5. (rows \o next)[1] = rows[1] /\ (rows \o next)[Len(rows) + 1] = next[1]
      BY <1>1, <2>1, <3>1, <3>2
    <3>6. 1 \in DOMAIN (rows \o next) /\ Len(rows) + 1 \in DOMAIN (rows \o next)
      BY <1>1, <2>1, <3>1, <3>2
    <3>7. Len(rows) + 1 # 1
      BY <1>1, <2>1
    <3>8. FALSE
      BY <3>3, <3>4, <3>5, <3>6, <3>7 DEF AreNew, IsInjective, next
    <3> QED
      BY <3>8
  <2>7. CASE first = Len(rows) + 1
    <3>1. last \in Len(rows) .. Len(list)
      BY <1>1, <1>2, <2>1, <2>7
    <3>2. SubSeq(list, 1, Len(rows)) \o SubSeq(list, Len(rows) + 1, last) = SubSeq(list, 1, last)
      BY <1>1, <2>1, <3>1, ConcatAdjacentSubSeq
    <3>3. rows = SubSeq(list, 1, Len(rows))
      BY DEF Begins
    <3>4. last \in 0 .. Len(list)
      BY <1>1, <3>1
    <3> QED
      BY <2>7, <3>2, <3>3, <3>4
  <2> QED
    BY <2>5, <2>6, <2>7
<1> QED
  BY <1>5, <1>6

\* A run that steps stays right.
LEMMA RightStep ==
  ASSUME IsSetUp, AbsentIsNoReport, PilotShape, ReportStanding, NEW r \in Runs, Right(r), RunStep(r)
  PROVE  Right(r)'
<1>0. PilotShape' /\ UNCHANGED <<clock, remote>>
  BY StepOfOne
<1>k. /\ Knowledge(run[r]) /\ Knowledge(Asked(r)) /\ Asked(r).rows = run[r].rows
      /\ Asked(r).asked = run[r].asked /\ Asked(r).page = run[r].page
      /\ Asked(r).truth = run[r].truth /\ Asked(r).listed = run[r].listed
      /\ Asked(r).bill = run[r].bill /\ Asked(r).card = run[r].card
  BY DEF PilotShape, Knowledge, Asked, Fields
<1>l. /\ remote.cards \in Seq(Listable) /\ remote.bills \in Seq(Listable)
      /\ remote.moves \in Seq(Listable) /\ <<>> \in Seq(Listable)
  BY ListsAreSequences, EmptySeq
<1>e. IsInjective(<<>>)
  BY DEF IsInjective
\* NothingKnown is said of a run that is elsewhere.
<1>a. ASSUME at'[r] \notin {"bills", "moves", "observed", "built", "written"}
      PROVE  Right(r)'
  BY <1>a DEF Right, BillsHeard, MovesHeard, Concluded, Made
<1>c. ASSUME Stops(r)
      PROVE  Right(r)'
  BY <1>a, <1>c DEF Stops, PilotShape
<1>d. ASSUME NEW knows, NEW to, Continues(r, knows, to)
      PROVE  /\ at'[r] = to /\ run'[r] = knows /\ UNCHANGED report
             /\ BillsOf(r)' = IF knows.card = Own THEN remote.bills ELSE <<>>
  BY <1>0, <1>d, LearnsIt DEF Continues, PilotShape, BillsOf
<1>1. CASE Begin(r) \/ Lock(r) \/ Load(r) \/ Authenticate(r) \/ Unlock(r) \/ Dies(r)
  <2>1. at'[r] \in {"begun", "locked", "told", "authenticate", "item", "done", "failed"}
    BY <1>1 DEF Begin, Lock, Load, Authenticate, Unlock, Dies, Goes, Stops, PilotShape
  <2> QED
    BY <1>a, <2>1
<1>2. CASE RequestFails(r) \/ RefusesRequest(r) \/ StorageFails(r)
  BY <1>2, <1>c DEF RequestFails, RefusesRequest, StorageFails
<1>3. CASE ReadItem(r)
  BY <1>3, <1>a, <1>c DEF ReadItem, Goes, PilotShape
<1>4. CASE ReadCards(r)
  <2> DEFINE got == Paged(Asked(r), remote.cards)
  <2>1. Knowledge(got.knows)
    BY <1>k, <1>l, PagedKnows
  <2>2. PICK card : \/ Stops(r) \/ Continues(r, got.knows, "cards")
                    \/ Continues(r, Begun([got.knows EXCEPT !.card = card]), "bills")
    BY <1>4 DEF ReadCards, GoesOn
  <2> HIDE DEF got
  <2>3. ASSUME Continues(r, Begun([got.knows EXCEPT !.card = card]), "bills")
        PROVE  Right(r)'
    <3> DEFINE knows == Begun([got.knows EXCEPT !.card = card])
    <3>1. knows.rows = <<>> /\ knows.page = 1
      BY <2>1 DEF Begun, Knowledge, Fields
    <3> HIDE DEF knows
    <3>2. at'[r] = "bills" /\ run'[r] = knows
      BY <1>d, <2>3 DEF knows
    <3> QED
      BY <1>e, <3>1, <3>2 DEF Right, BillsHeard, MovesHeard, Concluded, Made
  <2> QED
    BY <1>a, <1>c, <1>d, <2>2, <2>3
<1>5. CASE ReadBills(r)
  <2> DEFINE got == Paged(Asked(r), BillsOf(r))
             bill == Picked(ToSet(got.knows.rows), Wants[r], Day(got.knows.asked))
             chosen == [got.knows EXCEPT !.bill = bill, !.listed = got.knows.truth]
  <2>0. at[r] = "bills" /\ BillsOf(r) \in Seq(Listable)
    BY <1>5, <1>l DEF ReadBills, BillsOf
  <2>1. /\ Knowledge(got.knows)
        /\ got.knows.asked = run[r].asked /\ got.knows.card = run[r].card
    BY <1>k, <2>0, PagedKnows
  <2>2. \/ Stops(r)
        \/ got.end = "more" /\ Continues(r, got.knows, "bills")
        \/ got.end = "whole" /\ Wants[r].moves /\ Continues(r, Begun(chosen), "moves")
        \/ got.end = "whole" /\ ~Wants[r].moves /\ Continues(r, chosen, "observed")
    BY <1>5 DEF ReadBills, GoesOn, BillsOf
  <2> DEFINE Fine == /\ IsInjective(got.knows.rows) /\ got.knows.page # 1
                     /\ got.knows.truth # Absent =>
                           /\ got.knows.truth = ToSet(BillsOf(r))
                           /\ ToSet(got.knows.rows) \subseteq got.knows.truth
                           /\ got.end = "whole" => ToSet(got.knows.rows) = got.knows.truth
  <2>3. got.end # "refused" => Fine
    BY <2>0, BillsGoOn DEF Right
  <2> HIDE DEF got
  <2>4. ASSUME got.end = "more", Continues(r, got.knows, "bills")
        PROVE  Right(r)'
    <3>1. BillsOf(r)' = BillsOf(r)
      BY <1>d, <2>1, <2>4 DEF BillsOf
    <3> QED
      BY <1>d, <2>3, <2>4, <3>1 DEF Right, BillsHeard, MovesHeard, Concluded, Made
  <2>5. /\ chosen.listed = got.knows.truth /\ chosen.bill = bill /\ chosen.asked = run[r].asked
        /\ Begun(chosen).listed = got.knows.truth /\ Begun(chosen).bill = bill
        /\ Begun(chosen).asked = run[r].asked
        /\ Begun(chosen).rows = <<>> /\ Begun(chosen).page = 1
    <3> HIDE DEF bill
    <3> QED
      BY <2>1 DEF Begun, Knowledge, Fields
  <2>6. got.end = "whole" /\ got.knows.truth # Absent =>
            bill = Picked(got.knows.truth, Wants[r], Day(run[r].asked))
    BY <2>1, <2>3
  <2> HIDE DEF bill, chosen
  <2>7. ASSUME got.end = "whole", Continues(r, Begun(chosen), "moves")
        PROVE  Right(r)'
    BY <1>d, <1>e, <2>5, <2>6, <2>7 DEF Right, BillsHeard, MovesHeard, Concluded, Made
  <2>8. ASSUME got.end = "whole", ~Wants[r].moves, Continues(r, chosen, "observed")
        PROVE  Right(r)'
    BY <1>d, <2>5, <2>6, <2>8 DEF Right, BillsHeard, MovesHeard, Concluded, Made
  <2> QED
    BY <1>c, <2>2, <2>4, <2>7, <2>8
<1>6. CASE ReadMoves(r)
  <2> DEFINE list == remote.moves
             heard == run[r].rows
             noted == Noting(Asked(r), list)
  <2>0. at[r] = "moves"
    BY <1>6 DEF ReadMoves
  <2>1. /\ Knowledge(noted) /\ noted.rows = heard /\ noted.page = run[r].page
        /\ noted.asked = run[r].asked /\ noted.listed = run[r].listed /\ noted.bill = run[r].bill
        /\ noted.truth = IF run[r].page = 1 THEN ToSet(list) ELSE run[r].truth
    BY <1>k DEF Noting, Knowledge, Fields
  <2>2. PICK first \in Resumed(list, heard) :
          LET last == PageEnd(list, first)
              rows == SubSeq(list, first, last)
              knows == [noted EXCEPT !.rows = @ \o rows, !.page = @ + 1]
          IN  \/ Stops(r)
              \/ AreNew(rows, heard) /\ last < Len(list) /\ Continues(r, knows, "moves")
              \/ /\ AreNew(rows, heard) /\ ~(last < Len(list))
                 /\ Continues(r, [knows EXCEPT !.moves = knows.rows], "observed")
    BY <1>6 DEF ReadMoves, PageEnd
  <2> DEFINE last == PageEnd(list, first)
             rows == SubSeq(list, first, last)
             knows == [noted EXCEPT !.rows = @ \o rows, !.page = @ + 1]
             ended == [knows EXCEPT !.moves = knows.rows]
  <2>3. first \in Nat \ {0} /\ last \in Int /\ Len(list) \in Nat /\ last <= Len(list)
    <3>1. first \in Nat \ {0} /\ Len(list) \in Nat
      BY <1>l, <2>2, ResumedIsPlace, LenProperties
    <3>2. PageSize \in Nat
      BY DEF IsSetUp
    <3> QED
      BY <3>1, <3>2 DEF PageEnd
  <2>4. heard \in Seq(Listable) /\ run[r].page \in Nat \ {0} /\ IsInjective(heard)
    BY <1>k, <2>0 DEF Knowledge, Right, MovesHeard
  <2>5. noted.truth # Absent => noted.truth = ToSet(list) /\ Begins(heard, list)
    <3>1. CASE run[r].page = 1
      <4>1. heard = <<>>
        BY <2>0, <3>1 DEF Right, MovesHeard
      <4>2. Len(heard) = 0 /\ SubSeq(list, 1, 0) = <<>>
        BY <4>1, SubSeqEmpty, EmptySeq
      <4> QED
        BY <2>1, <2>3, <3>1, <4>1, <4>2 DEF Begins
    <3>2. CASE run[r].page # 1
      BY <2>0, <2>1, <3>2 DEF Right, MovesHeard
    <3> QED
      BY <3>1, <3>2
  <2>6. AreNew(rows, heard) /\ Begins(heard, list) =>
            last \in 0 .. Len(list) /\ heard \o rows = SubSeq(list, 1, last)
    <3> SUFFICES ASSUME AreNew(rows, heard), Begins(heard, list)
                 PROVE  last \in 0 .. Len(list) /\ heard \o rows = SubSeq(list, 1, last)
      OBVIOUS
    <3>1. last = PageEnd(list, first) /\ rows = SubSeq(list, first, last)
      OBVIOUS
    <3>2. first \in Resumed(list, heard) /\ list \in Seq(Listable)
      BY <1>l, <2>2
    <3> HIDE DEF last, rows, list, heard
    <3>3. AreNew(SubSeq(list, first, last), heard)
      BY <3>1
    <3>4. /\ last \in 0 .. Len(list)
          /\ heard \o SubSeq(list, first, last) = SubSeq(list, 1, last)
      BY <2>3, <2>4, <3>1, <3>2, <3>3, ResumesAfter
    <3> QED
      BY <3>1, <3>4
  <2> HIDE DEF noted, rows, last
  <2>7. /\ knows.rows = heard \o rows /\ knows.page = run[r].page + 1
        /\ knows.asked = run[r].asked /\ knows.listed = run[r].listed /\ knows.bill = run[r].bill
        /\ knows.truth = noted.truth
        /\ ended.moves = heard \o rows
        /\ ended.asked = run[r].asked /\ ended.listed = run[r].listed /\ ended.bill = run[r].bill
        /\ ended.truth = noted.truth
    BY <2>1 DEF Knowledge, Fields
  <2> HIDE DEF knows, ended
  <2>8. ASSUME AreNew(rows, heard), Continues(r, knows, "moves")
        PROVE  Right(r)'
    <3>1. IsInjective(heard \o rows)
      BY <2>8 DEF AreNew
    <3>2. run[r].page + 1 # 1
      BY <2>4
    <3>3. knows.truth # Absent => Begins(heard \o rows, list)
      <4> SUFFICES ASSUME knows.truth # Absent
                   PROVE  Begins(heard \o rows, list)
        OBVIOUS
      <4>1. last \in 0 .. Len(list) /\ heard \o rows = SubSeq(list, 1, last)
        BY <2>5, <2>6, <2>7, <2>8
      <4>2. Len(SubSeq(list, 1, last)) = last
        <5>1. \A i \in 1 .. last : list[i] \in Listable
          BY <1>l, <2>3, <4>1, ElementOfSeq
        <5> QED
          BY <2>3, <4>1, <5>1, SubSeqProperties
      <4> QED
        BY <2>3, <4>1, <4>2 DEF Begins
    <3>4. at'[r] = "moves" /\ run'[r] = knows /\ remote' = remote
      BY <1>0, <1>d, <2>8
    <3> QED
      BY <2>0, <2>5, <2>7, <3>1, <3>2, <3>3, <3>4
        DEF Right, BillsHeard, MovesHeard, Concluded, Made
  <2>9. ASSUME AreNew(rows, heard), ~(last < Len(list)), Continues(r, ended, "observed")
        PROVE  Right(r)'
    <3>1. ended.truth # Absent => ToSet(ended.moves) = ended.truth
      <4> SUFFICES ASSUME ended.truth # Absent
                   PROVE  ToSet(ended.moves) = ended.truth
        OBVIOUS
      <4>1. last = Len(list)
        BY <2>3, <2>9 DEF last
      <4>2. ended.moves = list /\ ended.truth = ToSet(list)
        BY <1>l, <2>5, <2>6, <2>7, <2>9, <4>1, SubSeqFull
      <4> QED
        BY <4>2
    <3>2. at'[r] = "observed" /\ run'[r] = ended
      BY <1>d, <2>9
    <3> QED
      BY <2>0, <2>7, <3>1, <3>2 DEF Right, BillsHeard, MovesHeard, Concluded, Made
  <2>10. \/ Stops(r)
         \/ AreNew(rows, heard) /\ Continues(r, knows, "moves")
         \/ AreNew(rows, heard) /\ ~(last < Len(list)) /\ Continues(r, ended, "observed")
    BY <2>2 DEF knows, ended, rows, last
  <2> QED
    BY <1>c, <2>8, <2>9, <2>10
<1>7. CASE BuildReport(r)
  <2> DEFINE stored == [selection |-> Wants[r], retrieved |-> clock, cutoff |-> Day(run[r].asked),
                        expires |-> Expiry, card |-> run[r].card, bill |-> run[r].bill,
                        linked |-> Linked(ToSet(run[r].moves), run[r].bill),
                        bills |-> run[r].listed, moves |-> run[r].truth]
             knows == [NothingKnown EXCEPT !.asked = run[r].asked, !.made = stored]
  <2>0. at[r] = "observed"
    BY <1>7 DEF BuildReport
  <2>1. Stops(r) \/ (clock < Expiry /\ Continues(r, knows, "built"))
    BY <1>7 DEF BuildReport, StillAuthorized
  <2>2. stored # Absent
    BY DEF AbsentIsNoReport
  <2>3. /\ clock < Expiry => IsWhole(stored)
        /\ stored.retrieved = clock /\ clock \in Int
    BY <2>0 DEF IsWhole, Right, Concluded, PilotShape
  <2> HIDE DEF stored
  <2>4. knows.made = stored
    BY NothingIsKnowledge DEF Knowledge, Fields
  <2> HIDE DEF knows
  <2>5. ASSUME clock < Expiry, Continues(r, knows, "built")
        PROVE  Right(r)'
    <3>1. /\ at'[r] = "built" /\ run'[r] = knows /\ UNCHANGED report
      BY <1>d, <2>5
    <3> QED
      BY <1>0, <2>2, <2>3, <2>4, <2>5, <3>1
        DEF Right, BillsHeard, MovesHeard, Concluded, Made, ReportStanding
  <2> QED
    BY <1>c, <2>1, <2>5
<1>8. CASE WriteTemporary(r)
  BY <1>8 DEF WriteTemporary, Goes, PilotShape, Right, BillsHeard, MovesHeard, Concluded, Made
<1>9. CASE Replace(r)
  BY <1>9, <1>a DEF Replace, Goes, PilotShape
<1> QED
  BY <1>1, <1>2, <1>3, <1>4, <1>5, <1>6, <1>7, <1>8, <1>9 DEF RunStep

LEMMA WholeStep ==
  ASSUME IsSetUp, AbsentIsNoReport, WholeInv, PilotNext
  PROVE  WholeInv' /\ (report' # report => \E r \in Runs : at[r] = "written" /\ report' = run[r].made)
<1>0. /\ PilotShape /\ HoldersHold /\ ReportStanding /\ AskedInv' /\ PilotShape'
      /\ \A r \in Runs : Right(r)
  BY AskedStep DEF WholeInv, AskedInv
<1>1. ASSUME NEW r \in Runs, RunStep(r)
      PROVE  /\ WholeInv'
             /\ report' # report => at[r] = "written" /\ report' = run[r].made
  <2>1. /\ \A q \in Runs \ {r} : at'[q] = at[q] /\ run'[q] = run[q]
        /\ UNCHANGED <<clock, remote>>
    BY <1>0, <1>1, StepOfOne
  <2>2. report' = report \/ (at[r] = "written" /\ report' = run[r].made)
    BY <1>0, <1>1, StepIsGuarded
  <2>3. Right(r)'
    BY <1>0, <1>1, RightStep
  <2>4. ASSUME NEW q \in Runs \ {r}
        PROVE  Right(q)'
    <3>1. at[q] \in {"built", "written"} => report' = report
      BY <1>0, <2>2, <2>4 DEF HoldersHold, Holds, Reads
    <3>2. (BillsHeard(q) /\ MovesHeard(q) /\ Concluded(q))'
      BY <1>0, <2>1, <2>4 DEF Right, BillsHeard, MovesHeard, Concluded, BillsOf
    <3>3. Made(q)'
      BY <1>0, <2>1, <2>4, <3>1 DEF Right, Made
    <3> QED
      BY <3>2, <3>3 DEF Right
  <2>5. ReportStanding'
    BY <1>0, <2>1, <2>2 DEF ReportStanding, Right, Made
  <2> QED
    BY <1>0, <2>2, <2>3, <2>4, <2>5 DEF WholeInv
<1>2. CASE Tick
  <2>1. clock' = clock + 1 /\ clock \in Nat /\ UNCHANGED <<remote, at, run, holder, report>>
    BY <1>0, <1>2 DEF Tick, PilotShape
  <2>2. ASSUME NEW r \in Runs
        PROVE  Right(r)'
    <3>1. Right(r)
      BY <1>0
    <3>2. (BillsHeard(r) /\ MovesHeard(r) /\ Concluded(r))'
      BY <2>1, <3>1 DEF Right, BillsHeard, MovesHeard, Concluded, BillsOf
    <3>3. Made(r)'
      BY <2>1, <3>1 DEF Right, Made
    <3> QED
      BY <3>2, <3>3 DEF Right
  <2>3. ReportStanding'
    BY <1>0, <2>1 DEF ReportStanding
  <2> QED
    BY <1>0, <2>1, <2>2, <2>3 DEF WholeInv
<1>3. CASE Relist
  <2>1. UNCHANGED <<clock, at, holder, report>>
    BY <1>3 DEF Relist
  <2>2. ASSUME NEW r \in Runs
        PROVE  Right(r)'
    <3>0. Right(r) /\ Knowledge(run[r])
      BY <1>0 DEF PilotShape
    <3>1. \/ run'[r] = run[r] /\ ~Misled(r, remote')
          \/ run'[r] = [run[r] EXCEPT !.truth = Absent]
      BY <1>3 DEF Relist
    <3>2. /\ run'[r].rows = run[r].rows /\ run'[r].page = run[r].page
          /\ run'[r].listed = run[r].listed /\ run'[r].bill = run[r].bill
          /\ run'[r].card = run[r].card /\ run'[r].asked = run[r].asked
          /\ run'[r].moves = run[r].moves /\ run'[r].made = run[r].made
          /\ run'[r].truth \in {run[r].truth, Absent}
          /\ run'[r].truth # Absent => run'[r] = run[r] /\ ~Misled(r, remote')
      BY <3>0, <3>1 DEF Knowledge, Fields
    <3>3. BillsHeard(r)'
      <4>1. ASSUME at[r] = "bills", run[r].page # 1, run'[r].truth # Absent
            PROVE  run[r].truth = ToSet(BillsOf(r)')
        <5>1. run[r].truth = ToSet(BillsOf(r)) /\ ToSet(remote'.bills) = run[r].truth
          BY <3>0, <3>2, <4>1 DEF Right, BillsHeard, Misled
        <5> QED
          BY <3>2, <5>1 DEF BillsOf
      <4> QED
        BY <2>1, <3>0, <3>2, <4>1 DEF Right, BillsHeard
    <3>4. MovesHeard(r)'
      BY <2>1, <3>0, <3>2 DEF Right, MovesHeard, Misled
    <3>5. Concluded(r)' /\ Made(r)'
      BY <2>1, <3>0, <3>2 DEF Right, Concluded, Made
    <3> QED
      BY <3>3, <3>4, <3>5 DEF Right
  <2>3. ReportStanding'
    BY <1>0, <2>1 DEF ReportStanding
  <2> QED
    BY <1>0, <2>1, <2>2, <2>3 DEF WholeInv
<1> QED
  BY <1>1, <1>2, <1>3 DEF PilotNext

\* Whatever the provider lists, however its pages are cut and its lists change,
\* and whatever fails: a report that is saved is whole, and takes the place of
\* an earlier one only.
THEOREM WholeReportsStand == AbsentIsNoReport => (PilotSpec => ReportsStandWhole)
<1> SUFFICES ASSUME AbsentIsNoReport
             PROVE  PilotSpec => ReportsStandWhole
  OBVIOUS
<1>0. IsSetUp
  BY SettingsAssumption
<1>1. PilotInit => WholeInv
  <2> SUFFICES ASSUME PilotInit
               PROVE  WholeInv
    OBVIOUS
  <2>1. AskedInv /\ report = Absent /\ \A r \in Runs : at[r] = "started"
    BY <1>0, AskedInit DEF PilotInit
  <2> QED
    BY <2>1 DEF WholeInv, ReportStanding, Right, BillsHeard, MovesHeard, Concluded, Made
<1>2. WholeInv /\ [PilotNext]_pilotVars => WholeInv'
  <2>1. CASE PilotNext
    BY <1>0, <2>1, WholeStep
  <2>2. WholeInv /\ UNCHANGED pilotVars => WholeInv'
    BY DEF pilotVars, WholeInv, AskedInv, PilotShape, HoldersHold, NothingStands, Holds, Reads, ReportStanding,
           Right, BillsHeard, BillsOf, MovesHeard, Concluded, Made
  <2> QED
    BY <2>1, <2>2
<1>3. WholeInv /\ [PilotNext]_pilotVars =>
        [report' # report =>
            /\ ReportsAreWhole'
            /\ report # Absent => report' # Absent /\ report'.retrieved >= report.retrieved]_pilotVars
  <2> SUFFICES ASSUME WholeInv, PilotNext, report' # report
               PROVE  /\ ReportsAreWhole'
                      /\ report # Absent => report' # Absent /\ report'.retrieved >= report.retrieved
    BY DEF pilotVars
  <2>1. PICK r \in Runs : at[r] = "written" /\ report' = run[r].made
    BY <1>0, WholeStep
  <2>2. Made(r) /\ ReportStanding
    BY DEF WholeInv, Right
  <2>3. /\ IsWhole(report') /\ report' # Absent
        /\ report # Absent => report.retrieved <= report'.retrieved
        /\ report'.retrieved \in Int
    BY <2>1, <2>2 DEF Made
  <2>4. ReportsAreWhole'
    BY <2>3 DEF ReportsAreWhole, IsWhole
  <2> QED
    BY <2>2, <2>3, <2>4 DEF ReportStanding
<1> QED
  BY <1>1, <1>2, <1>3, PTL DEF PilotSpec, ReportsStandWhole
=============================================================================
