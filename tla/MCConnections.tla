--------------------------- MODULE MCConnections ----------------------------
(***************************************************************************)
(* Two instances of Connections.    MCConnectAttempts.cfg: two             *)
(* authorizations begin, one goes through its callback, its confirmation   *)
(* and its cancellation.  MCConnectLinks.cfg: a confirmation that awaits,  *)
(* a renewal, a use of the plan and a disconnect meet at one connection.   *)
(***************************************************************************)
EXTENDS Connections, TLC

CONSTANTS a1, a2, old, new1, new2, me, you,
          begin1, begin2, callback1, callback2, cancel, finish1, finish2, refresh, token,
          activate, disconnect

\* The first attempt links an account, the second renews the old connection.
MCStaged == (a1 :> new1) @@ (a2 :> new2)
MCSelected == (a1 :> None) @@ (a2 :> old)

MCKind == [q \in Requests |->
    CASE q \in {begin1, begin2} -> "begin"
      [] q \in {callback1, callback2} -> "callback"
      [] q = cancel -> "cancel"
      [] q \in {finish1, finish2} -> "finish"
      [] q = refresh -> "refresh"
      [] q = token -> "token"
      [] q = activate -> "activate"
      [] q = disconnect -> "disconnect"]

MCAttemptOf == [q \in Requests |-> IF q \in {begin2, callback2, finish2} THEN a2 ELSE a1]
MCConnectionOf == [q \in Requests |-> old]

Symmetry == Permutations({me, you})
=============================================================================
