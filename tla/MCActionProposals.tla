-------------------------- MODULE MCActionProposals --------------------------
(***************************************************************************)
(* The instance of ActionProposals: an update and a creation that share    *)
(* the category they were reviewed against, a transaction beside them, a   *)
(* tab that confirms the update while another discards it, and two tabs    *)
(* that confirm the creation.                                              *)
(***************************************************************************)
EXTENDS ActionProposals, TLC

CONSTANTS t1, t2, cat, edit, add, tab1, tab2, tab3, tab4, run

MCDependsOn == [p \in Proposals |-> IF p = edit THEN {t1, cat} ELSE {cat}]
MCEffect == [p \in Proposals |-> IF p = edit THEN "update" ELSE "create"]
MCSource == [p \in Proposals |-> IF p = edit THEN t1 ELSE None]
MCRunOf == [p \in Proposals |-> run]
MCTargetOf == [q \in Requests |-> IF q \in {tab2, tab3} THEN add ELSE edit]

\* The tabs that confirm the creation differ by nothing else.
Symmetry == Permutations({tab2, tab3})
=============================================================================
