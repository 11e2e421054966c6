----------------------------- MODULE MCRemotes ------------------------------
(***************************************************************************)
(* The two clients of remote services.  The stream of one reply: two       *)
(* calls, output of two items, a chunk of text, three rounds.              *)
(*                                                                         *)
(* And, in behaviours of their own, three runs of the Open Finance pilot:  *)
(* two that name a bill and one that names a card, of an item whose lists  *)
(* fill two pages and change once, over the days until its authorization   *)
(* ends.                                                                   *)
(***************************************************************************)
EXTENDS OpenFinancePilot, ProviderStream, TLC

CONSTANTS auto, twin, named, c1, c2, b1, b2, b3, m1, m2

MCRuns == {auto, twin, named}

Option(card, bill, moves) == [card |-> card, bill |-> bill, moves |-> moves]
MCWants == (auto :> Option(Absent, b1, TRUE)) @@ (twin :> Option(Absent, b1, TRUE))
           @@ (named :> Option(c1, Absent, FALSE))

Lists(cards, bills, moves) == [cards |-> cards, bills |-> bills, moves |-> moves]
MCFirstLists == {Lists(<<c1, c2>>, <<b2, b1>>, <<m1, m2>>), Lists(<<c1>>, <<b1>>, <<m1, m2>>)}
MCLaterLists == {Lists(<<c1>>, <<b1, b2>>, <<m2, m1>>), Lists(<<c1, c2>>, <<b3, b2, b1>>, <<m1>>)}

MCClosesOn == (b1 :> 1) @@ (b2 :> 0) @@ (b3 :> Absent)
MCBillOf == (m1 :> b1) @@ (m2 :> b1)

CONSTANTS k1, k2, k3

\* They share nothing: each behaviour is of one of them.
VARIABLE subject

AtRest == PilotInit /\ remote = CHOOSE lists \in FirstLists : TRUE
BothInit == \/ subject = "reply" /\ StreamInit /\ AtRest
            \/ subject = "report" /\ StreamInit /\ tools /\ PilotInit
BothNext == /\ \/ subject = "reply" /\ StreamNext /\ UNCHANGED pilotVars
               \/ subject = "report" /\ PilotNext /\ UNCHANGED adapterVars
            /\ UNCHANGED subject
BothSpec == BothInit /\ [][BothNext]_<<pilotVars, adapterVars, subject>> /\ StreamFairness
=============================================================================
