---------------------------- MODULE MCIngestion -----------------------------
(***************************************************************************)
(* Two statements of one account that overlap in an entry: a CSV file of   *)
(* two entries and an OFX file of one, both holding the debit "x".  The    *)
(* user's own entry has the same cash.                                     *)
(*                                                                         *)
(* In behaviours of its own, the vault: one record that two requests       *)
(* write, one deletes and one previews.                                    *)
(***************************************************************************)
EXTENDS Ingestion, Vault, TLC

CONSTANTS left, right, writer, again, deleter, viewer, card

MCFiles == [march |-> <<[debit |-> 2, credit |-> 0, id |-> "x"],
                        [debit |-> 0, credit |-> 3, id |-> "y"]>>,
            april |-> <<[debit |-> 2, credit |-> 0, id |-> "x"]>>]
MCFormat == [march |-> "CSV", april |-> "OFX"]

MCKind == [q \in {writer, again, deleter, viewer} |->
    CASE q \in {writer, again} -> "write" [] q = deleter -> "delete" [] q = viewer -> "preview"]
MCRecordOf == [q \in {writer, again, deleter, viewer} |-> card]

\* They share nothing: each behaviour is of one of them.
VARIABLE subject

BothInit == Init /\ VaultInit /\ subject \in {"statements", "secrets"}
BothNext == /\ \/ subject = "statements" /\ Next /\ UNCHANGED vaultVars
               \/ subject = "secrets" /\ VaultNext /\ UNCHANGED vars
            /\ UNCHANGED subject
BothSpec == BothInit /\ [][BothNext]_<<vars, vaultVars, subject>>

Symmetry == Permutations({writer, again})
=============================================================================
