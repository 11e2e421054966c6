----------------------------- MODULE Connections ----------------------------
(***************************************************************************)
(* Linking provider accounts (assistant/connections/service.py).  Rows of  *)
(* the database say what is linked; the secrets are files of the vault     *)
(* (vault.py), under the id of an attempt or of a connection.  The two are *)
(* written one after the other, under file locks that a request holds      *)
(* across calls of the provider and that a crash releases.                 *)
(*                                                                         *)
(* A request is a process; a step is a lock taken with the reading that    *)
(* follows, or one write to the database, the vault or the provider.       *)
(* Simplifications:                                                        *)
(*  - One user and one session; the checks of their ownership and of the   *)
(*    shape of credentials always pass, except the identity.               *)
(*  - A credential is the number of its refresh token; the provider        *)
(*    accepts each of them once.  What a token allows is a flag, and an    *)
(*    access token is fresh until it becomes stale.                        *)
(*  - The vault replaces a file atomically (module Vault).                 *)
(*  - An exception that no handler repairs is a crash of its request: both *)
(*    release the locks and leave the rest as it is.                       *)
(***************************************************************************)
EXTENDS Naturals, FiniteSets

CONSTANTS Attempts,      \* AuthorizationAttempt, named with its vault id
          Connections,   \* ProviderConnection ids
          Staged,        \* the id a new connection of each attempt would have
          Selected,      \* the connection an attempt renews, or None
          Awaiting,      \* attempts that await their confirmation at the start
          Accounts,      \* registrations with the provider
          Requests, Kind, AttemptOf, ConnectionOf,
          None,
          MaxOpen,       \* MAX_PENDING_ATTEMPTS
          MaxTokens,     \* bound: refresh tokens the provider issues
          Mortal         \* bound: the requests that may be cut short

Kinds == {"begin", "callback", "cancel", "finish", "refresh", "token", "activate",
          "disconnect"}

ASSUME ConnectionAssumption ==
    /\ Staged \in [Attempts -> Connections]
    /\ \A a, b \in Attempts : Staged[a] = Staged[b] => a = b
    /\ IsFiniteSet(Attempts) /\ Awaiting \subseteq Attempts
    /\ Selected \in [Attempts -> (Connections \union {None})]
    /\ \A a, b \in Attempts : Selected[a] # Staged[b]
    /\ Kind \in [Requests -> Kinds]
    /\ AttemptOf \in [Requests -> Attempts]
    /\ ConnectionOf \in [Requests -> Connections]
    /\ Attempts \intersect Connections = {} /\ "user" \notin Attempts \union Connections
    /\ None \notin Connections \union Requests \union Accounts
    /\ MaxOpen \in Nat /\ MaxTokens \in Nat /\ Mortal \subseteq Requests

Open == {"pending", "exchanging", "verified", "finishing"}
Locks == {"user"} \union Attempts \union Connections

\* A file of the vault.
Record == [kind : {"none", "authorization", "registration", "credentials"},
           token : Nat, account : Accounts \union {None}, plan : BOOLEAN]
Plain(kind) == [kind |-> kind, token |-> 0, account |-> None, plan |-> FALSE]
Missing == Plain("none")

VARIABLES
    status,     \* AuthorizationAttempt.status, absent before it begins
    linked,     \* AuthorizationAttempt.connection
    passed,     \* the attempts past expires_at
    state,      \* ProviderConnection.status, absent before it is inserted
    account,    \* its issuer, subject and client
    active,     \* the connections with is_active
    records,    \* the files of the vault
    issued,     \* the provider: refresh tokens issued so far
    live,       \* the provider: those it would accept
    stale,      \* the tokens whose access token is about to expire
    lock,       \* the request that holds each file lock, or None
    pc,         \* where each request is
    hand,       \* the credentials it carries
    target,     \* the connection a confirmation writes, or None
    previous,   \* the file it replaced there
    todo,       \* the cleanups it has ahead
    apart       \* history: connections whose file and row a crash or a lost answer parted,
                \* and attempts whose tokens a confirmation left there as well

rowVars == <<status, linked, state, account, active>>
providerVars == <<issued, live>>
carried == <<hand, target, previous, todo>>
vars == <<rowVars, passed, records, providerVars, stale, lock, pc, carried, apart>>

\* Connections that were linked before, one per account, and what they and the
\* attempts that await hold: a token of their own each.
Existing == {Selected[a] : a \in Attempts} \ {None}
Held == Existing \union Awaiting
First == CHOOSE f \in [Held -> 1 .. Cardinality(Held)] :
            \A x, y \in Held : f[x] = f[y] => x = y

Init ==
    /\ status = [a \in Attempts |-> IF a \in Awaiting THEN "verified" ELSE "absent"]
    /\ linked = [a \in Attempts |-> IF a \in Awaiting THEN Selected[a] ELSE None]
    /\ passed = {}
    /\ \E who \in [Held -> Accounts], state0 \in [Existing -> {"ready", "disconnected"}] :
          LET ready == {c \in Existing : state0[c] = "ready"}
          IN  /\ \A c, d \in Existing : who[c] = who[d] => c = d
              /\ \A a \in Awaiting : Selected[a] # None => who[a] = who[Selected[a]]
              /\ state = [c \in Connections |-> IF c \in Existing THEN state0[c] ELSE "absent"]
              /\ account = [c \in Connections |-> IF c \in Existing THEN who[c] ELSE None]
              /\ records = [i \in Attempts \union Connections |->
                    IF i \in Awaiting \union ready
                    THEN [kind |-> "credentials", token |-> First[i], account |-> who[i],
                          plan |-> TRUE]
                    ELSE IF i \in Existing THEN Plain("registration") ELSE Missing]
              /\ IF ready = {} THEN active = {} ELSE \E c \in ready : active = {c}
    /\ issued = Cardinality(Held) /\ live = 1 .. issued /\ stale = {}
    /\ lock = [i \in Locks |-> None]
    /\ pc = [q \in Requests |-> "start"]
    /\ hand = [q \in Requests |-> Missing]
    /\ target = [q \in Requests |-> None]
    /\ previous = [q \in Requests |-> Missing]
    /\ todo = [q \in Requests |-> {}]
    /\ apart = {}
-----------------------------------------------------------------------------
Is(q, kind, here) == Kind[q] = kind /\ pc[q] = here
Go(q, there) == pc' = [pc EXCEPT ![q] = there]

\* Mutant of Free: nobody waits for a lock.
FreeToAll(i) == TRUE

\* CredentialVault.lock: a file lock that only its holder or a crash releases.
Free(i) == lock[i] = None
Acquire(q, i) == Free(i) /\ lock' = [lock EXCEPT ![i] = q]
Release(q, held) ==
    lock' = [i \in Locks |-> IF i \in held /\ lock[i] = q THEN None ELSE lock[i]]

\* The request returns or raises: every lock it holds is released.
End(q) == Go(q, "done") /\ Release(q, Locks)

Holds(i, kind) == records[i].kind = kind
Put(i, record) == records' = [records EXCEPT ![i] = record]
Delete(i) == Put(i, Missing)

\* Mutant of Metadata: the capability is stored for the status.
MetadataCapability(record) == IF record.plan THEN "plan_authorized" ELSE "identity_only"

\* _metadata: a connection is ready when its account granted the plan.
Metadata(record) == IF record.plan THEN "ready" ELSE "identity_only"

Fresh(record) == record.token \notin stale
Fits(record, c) == c = None \/ record.account = account[c]

\* The provider issues a new refresh token for what it is asked.
Issue(q, who, spent) ==
    /\ issued < MaxTokens
    /\ issued' = issued + 1
    /\ live' = (live \ spent) \union {issued + 1}
    /\ \E plan \in BOOLEAN :
          hand' = [hand EXCEPT ![q] = [kind |-> "credentials", token |-> issued + 1,
                                       account |-> who, plan |-> plan]]
-----------------------------------------------------------------------------
(* begin_authorization                                                     *)

BeginLock(q) ==
    LET a == AttemptOf[q]
    IN  /\ Is(q, "begin", "start") /\ status[a] = "absent"
        /\ Selected[a] # None => state[Selected[a]] # "absent"
        /\ Acquire(q, "user")
        /\ todo' = [todo EXCEPT ![q] = {<<x, "record">> :
                                          x \in {y \in passed : status[y] # "absent"}}]
        /\ Go(q, "sweep")
        /\ UNCHANGED <<rowVars, passed, records, providerVars, stale, hand, target, previous,
                       apart>>

\* _expire_attempts: what an expired attempt left in the vault goes ...
SweepRecord(q, a) ==
    /\ Is(q, "begin", "sweep") /\ <<a, "record">> \in todo[q]
    /\ Free(a) /\ Delete(a)
    /\ todo' = [todo EXCEPT ![q] = (@ \ {<<a, "record">>}) \union {<<a, "staged">>}]
    /\ UNCHANGED <<rowVars, passed, providerVars, stale, lock, pc, hand, target, previous, apart>>

\* ... with what its interrupted confirmation staged; a connection that exists
\* keeps its file.
SweepTarget(a) == IF state[Staged[a]] = "absent" THEN {Staged[a]} ELSE {}

SweepStaged(q, a) ==
    /\ Is(q, "begin", "sweep") /\ <<a, "staged">> \in todo[q]
    /\ \A c \in SweepTarget(a) : Free(c)
    /\ records' = [i \in Attempts \union Connections |->
                     IF i \in SweepTarget(a) THEN Missing ELSE records[i]]
    /\ status' = [status EXCEPT ![a] = IF @ = "complete" THEN @ ELSE "expired"]
    /\ todo' = [todo EXCEPT ![q] = @ \ {<<a, "staged">>}]
    /\ UNCHANGED <<linked, state, account, active, passed, providerVars, stale, lock, pc, hand,
                   target, previous, apart>>

\* The secrets of the attempt are written before its row ...
BeginWrite(q) ==
    LET a == AttemptOf[q]
    IN  /\ Is(q, "begin", "sweep") /\ todo[q] = {}
        /\ IF Cardinality({x \in Attempts : status[x] \in Open}) >= MaxOpen
           THEN End(q) /\ UNCHANGED records
           ELSE /\ Selected[a] # None => Free(Selected[a])
                /\ Put(a, Plain("authorization"))
                /\ Go(q, "insert") /\ UNCHANGED lock
        /\ UNCHANGED <<rowVars, passed, providerVars, stale, carried, apart>>

\* ... and taken back when the row is refused.
BeginInsert(q) ==
    LET a == AttemptOf[q]
    IN  /\ Is(q, "begin", "insert")
        /\ \/ /\ status' = [status EXCEPT ![a] = "pending"]
              /\ linked' = [linked EXCEPT ![a] = Selected[a]]
              /\ UNCHANGED records
           \/ Delete(a) /\ UNCHANGED <<status, linked>>
        /\ End(q)
        /\ UNCHANGED <<state, account, active, passed, providerVars, stale, carried, apart>>
-----------------------------------------------------------------------------
(* receive_callback, and cancel_authorization, which ends like its failure *)

CallbackLook(q) ==
    /\ Is(q, "callback", "start") /\ status[AttemptOf[q]] # "absent"
    /\ IF status[AttemptOf[q]] = "pending" THEN Go(q, "time") ELSE Go(q, "done")
    /\ UNCHANGED <<rowVars, passed, records, providerVars, stale, lock, carried, apart>>

CallbackTime(q) ==
    /\ Is(q, "callback", "time")
    /\ Go(q, IF AttemptOf[q] \in passed THEN "expire" ELSE "claim")
    /\ UNCHANGED <<rowVars, passed, records, providerVars, stale, lock, carried, apart>>

\* An expired attempt loses its secrets, if the vault lets it, and its row says so.
CallbackExpire(q) ==
    /\ Is(q, "callback", "expire") /\ Free(AttemptOf[q])
    /\ Delete(AttemptOf[q]) \/ UNCHANGED records
    /\ Go(q, "expired")
    /\ UNCHANGED <<rowVars, passed, providerVars, stale, lock, carried, apart>>

CallbackExpired(q) ==
    /\ Is(q, "callback", "expired")
    /\ status' = [status EXCEPT ![AttemptOf[q]] = "expired"]
    /\ Go(q, "done")
    /\ UNCHANGED <<linked, state, account, active, passed, records, providerVars, stale, lock,
                   carried, apart>>

\* The conditional update that claims the callback, at the time read before.
Claimable(a) == status[a] = "pending"

CallbackClaim(q) ==
    LET a == AttemptOf[q]
    IN  /\ Is(q, "callback", "claim")
        /\ IF Claimable(a)
           THEN status' = [status EXCEPT ![a] = "exchanging"] /\ Go(q, "open")
           ELSE Go(q, "done") /\ UNCHANGED status
        /\ UNCHANGED <<linked, state, account, active, passed, records, providerVars, stale, lock,
                       carried, apart>>

CallbackOpen(q) ==
    LET a == AttemptOf[q]
    IN  /\ Is(q, "callback", "open") /\ Free(a)
        /\ IF Holds(a, "authorization")
           THEN Acquire(q, a) /\ Go(q, "exchange")
           ELSE Go(q, "fail") /\ UNCHANGED lock
        /\ UNCHANGED <<rowVars, passed, records, providerVars, stale, carried, apart>>

\* exchange_code: the provider names the account, or refuses.
CallbackExchange(q) ==
    LET a == AttemptOf[q]
    IN  /\ Is(q, "callback", "exchange")
        /\ \/ /\ \E who \in Accounts : Issue(q, who, {})
              /\ IF Fits(hand'[q], Selected[a])
                 THEN Go(q, "keep") /\ UNCHANGED lock
                 ELSE Go(q, "fail") /\ Release(q, {a})
           \/ /\ Go(q, "fail") /\ Release(q, {a})
              /\ UNCHANGED <<providerVars, hand>>
        /\ UNCHANGED <<rowVars, passed, records, stale, target, previous, todo, apart>>

CallbackKeep(q) ==
    LET a == AttemptOf[q]
    IN  /\ Is(q, "callback", "keep")
        /\ \/ Put(a, hand[q]) /\ Go(q, "advance") /\ UNCHANGED lock
           \/ Go(q, "fail") /\ Release(q, {a}) /\ UNCHANGED records
        /\ UNCHANGED <<rowVars, passed, providerVars, stale, carried, apart>>

\* It awaits its confirmation, unless it was cancelled or expired meanwhile.
AdvanceOrTakeBack(q, a) ==
    IF status[a] = "exchanging" /\ a \notin passed
    THEN /\ status' = [status EXCEPT ![a] = "verified"]
         /\ Go(q, "reread") /\ UNCHANGED records
    ELSE Delete(a) /\ Go(q, "fail") /\ UNCHANGED status

CallbackAdvance(q) ==
    LET a == AttemptOf[q]
    IN  /\ Is(q, "callback", "advance")
        /\ AdvanceOrTakeBack(q, a)
        /\ Release(q, {a})
        /\ UNCHANGED <<linked, state, account, active, passed, providerVars, stale, carried, apart>>

\* Read again without the lock: anything but verified is taken for cancelled.
CallbackReread(q) ==
    /\ Is(q, "callback", "reread")
    /\ Go(q, IF status[AttemptOf[q]] = "verified" THEN "done" ELSE "fail")
    /\ UNCHANGED <<rowVars, passed, records, providerVars, stale, lock, carried, apart>>

CallbackFail(q) ==
    LET a == AttemptOf[q]
    IN  /\ Is(q, "callback", "fail")
        /\ status' = [status EXCEPT ![a] = IF @ = "exchanging" THEN "failed" ELSE @]
        /\ Go(q, "discard")
        /\ UNCHANGED <<linked, state, account, active, passed, records, providerVars, stale, lock,
                       carried, apart>>

\* Mutant of Cancellable: a confirmation on its way is cancelled too.
CancellableAnyOpen(a) == status[a] \in Open

Cancellable(a) == status[a] \in Open \ {"finishing"}

Cancel(q) ==
    LET a == AttemptOf[q]
    IN  /\ Is(q, "cancel", "start") /\ status[a] # "absent"
        /\ IF Cancellable(a)
           THEN status' = [status EXCEPT ![a] = "failed"] /\ Go(q, "discard")
           ELSE Go(q, "done") /\ UNCHANGED status
        /\ UNCHANGED <<linked, state, account, active, passed, records, providerVars, stale, lock,
                       carried, apart>>

\* Mutant of Discard: only what the attempt began with is deleted.
DiscardAuthorization(q) ==
    LET a == AttemptOf[q]
    IN  /\ Kind[q] \in {"callback", "cancel"} /\ pc[q] = "discard"
        /\ Free(a) /\ IF Holds(a, "authorization") THEN Delete(a) ELSE UNCHANGED records
        /\ Go(q, "done")
        /\ UNCHANGED <<rowVars, passed, providerVars, stale, lock, carried, apart>>

Discard(q) ==
    LET a == AttemptOf[q]
    IN  /\ Kind[q] \in {"callback", "cancel"} /\ pc[q] = "discard"
        /\ Free(a) /\ Delete(a)
        /\ Go(q, "done")
        /\ UNCHANGED <<rowVars, passed, providerVars, stale, lock, carried, apart>>
-----------------------------------------------------------------------------
(* finish_authorization                                                    *)

FinishLook(q) ==
    /\ Is(q, "finish", "start") /\ status[AttemptOf[q]] # "absent"
    /\ Go(q, IF AttemptOf[q] \in passed THEN "done" ELSE "enter")
    /\ UNCHANGED <<rowVars, passed, records, providerVars, stale, lock, carried, apart>>

FinishEnter(q) ==
    /\ Is(q, "finish", "enter") /\ Acquire(q, "user")
    /\ Go(q, "claim")
    /\ UNCHANGED <<rowVars, passed, records, providerVars, stale, carried, apart>>

FinishClaim(q) ==
    LET a == AttemptOf[q]
    IN  /\ Is(q, "finish", "claim")
        /\ IF status[a] = "verified" /\ a \notin passed
           THEN status' = [status EXCEPT ![a] = "finishing"] /\ Go(q, "open") /\ UNCHANGED lock
           ELSE End(q) /\ UNCHANGED status
        /\ UNCHANGED <<linked, state, account, active, passed, records, providerVars, stale,
                       carried, apart>>

\* The connection to write: the one selected, the one registered with the same
\* identity, or a new one under an id that a sweep can find again.
Target(a, record) ==
    LET same == {c \in Connections : state[c] # "absent" /\ account[c] = record.account}
    IN  IF Selected[a] # None THEN Selected[a]
        ELSE IF same # {} THEN CHOOSE c \in same : TRUE ELSE Staged[a]

FinishOpen(q) ==
    LET a == AttemptOf[q]
    IN  /\ Is(q, "finish", "open") /\ Free(a)
        /\ IF Holds(a, "credentials") /\ Fits(records[a], Selected[a])
           THEN /\ Acquire(q, a)
                /\ hand' = [hand EXCEPT ![q] = records[a]]
                /\ target' = [target EXCEPT ![q] = Target(a, records[a])]
                /\ Go(q, "target")
           ELSE Go(q, "undo") /\ UNCHANGED <<lock, hand, target>>
        /\ UNCHANGED <<rowVars, passed, records, providerVars, stale, previous, todo, apart>>

FinishTarget(q) ==
    /\ Is(q, "finish", "target") /\ Acquire(q, target[q])
    /\ Go(q, "replace")
    /\ UNCHANGED <<rowVars, passed, records, providerVars, stale, carried, apart>>

FinishReplace(q) ==
    LET a == AttemptOf[q]
    IN  /\ Is(q, "finish", "replace")
        /\ IF a \in passed
           THEN Go(q, "undo") /\ Release(q, Locks \ {"user"}) /\ UNCHANGED <<records, previous>>
           ELSE /\ previous' = [previous EXCEPT ![q] = records[target[q]]]
                /\ Put(target[q], hand[q])
                /\ Go(q, "commit") /\ UNCHANGED lock
        /\ UNCHANGED <<rowVars, passed, providerVars, stale, hand, target, todo, apart>>

\* The rows, in one transaction; when it fails the file is put back, if the
\* vault lets it.
FinishCommit(q) ==
    LET a == AttemptOf[q]  c == target[q]
    IN  /\ Is(q, "finish", "commit")
        /\ \/ /\ active' = {c}
              /\ state' = [state EXCEPT ![c] = Metadata(hand[q])]
              /\ account' = [account EXCEPT ![c] = hand[q].account]
              /\ status' = [status EXCEPT ![a] = "complete"]
              /\ linked' = [linked EXCEPT ![a] = c]
              /\ Go(q, "tidy") /\ Release(q, {c})
              /\ apart' = IF a \in apart THEN apart \union {c} ELSE apart \ {c}
              /\ UNCHANGED records
           \/ /\ \/ Put(c, previous[q]) /\ UNCHANGED apart
                 \/ UNCHANGED records /\ apart' = apart \union {a, c}
              /\ Go(q, "undo") /\ Release(q, Locks \ {"user"})
              /\ UNCHANGED <<status, linked, state, account, active>>
        /\ UNCHANGED <<passed, providerVars, stale, carried>>

\* The duplicate goes, or waits for expiry or a disconnect.
FinishTidy(q) ==
    /\ Is(q, "finish", "tidy")
    /\ Delete(AttemptOf[q]) \/ UNCHANGED records
    /\ End(q)
    /\ UNCHANGED <<rowVars, passed, providerVars, stale, carried, apart>>

FinishUndo(q) ==
    LET a == AttemptOf[q]
    IN  /\ Is(q, "finish", "undo")
        /\ status' = [status EXCEPT ![a] = IF @ = "finishing" THEN "verified" ELSE @]
        /\ End(q)
        /\ UNCHANGED <<linked, state, account, active, passed, records, providerVars, stale,
                       carried, apart>>
-----------------------------------------------------------------------------
(* get_authorized_access_token and refresh_connection                      *)

\* A token is handed out of a selected, ready connection with a fresh file; a
\* stale one is renewed first, and looked at again.
TokenLook(q) ==
    LET c == ConnectionOf[q]
    IN  /\ Is(q, "token", "start") /\ state[c] # "absent"
        /\ Go(q, IF c \in active /\ state[c] = "ready" THEN "serve" ELSE "done")
        /\ UNCHANGED <<rowVars, passed, records, providerVars, stale, lock, carried, apart>>

TokenServe(q) ==
    LET c == ConnectionOf[q]
    IN  /\ Kind[q] = "token" /\ pc[q] \in {"serve", "serve again"} /\ Free(c)
        /\ Go(q, IF /\ pc[q] = "serve" /\ c \in active /\ state[c] = "ready"
                    /\ Holds(c, "credentials") /\ records[c].plan /\ ~Fresh(records[c])
                 THEN "enter" ELSE "done")
        /\ UNCHANGED <<rowVars, passed, records, providerVars, stale, lock, carried, apart>>

Renews(q) == Kind[q] \in {"refresh", "token"}
Renewed(q) == IF Kind[q] = "token" THEN Go(q, "serve again") ELSE Go(q, "done")

RefreshEnter(q) ==
    LET c == ConnectionOf[q]
    IN  /\ Renews(q) /\ pc[q] = (IF Kind[q] = "token" THEN "enter" ELSE "start")
        /\ state[c] # "absent"
        /\ Acquire(q, c)
        /\ Go(q, "consult")
        /\ UNCHANGED <<rowVars, passed, records, providerVars, stale, carried, apart>>

\* The row is read again under the lock.
Renewable(c) == state[c] \notin {"disconnected", "reconnect"}

RefreshConsult(q) ==
    LET c == ConnectionOf[q]
    IN  /\ Renews(q) /\ pc[q] = "consult"
        /\ \/ /\ ~Renewable(c) \/ Holds(c, "none")
              /\ End(q) /\ UNCHANGED state
           \/ /\ Renewable(c) /\ ~Holds(c, "none")
              /\ ~Holds(c, "credentials") \/ ~Fits(records[c], c)
              /\ Go(q, "mark") /\ UNCHANGED <<lock, state>>
           \/ /\ Renewable(c) /\ Holds(c, "credentials") /\ Fits(records[c], c)
              /\ IF Fresh(records[c])
                 THEN /\ state' = [state EXCEPT ![c] = Metadata(records[c])]
                      /\ Release(q, {c}) /\ Renewed(q)
                 ELSE Go(q, "renew") /\ UNCHANGED <<lock, state>>
        /\ UNCHANGED <<status, linked, account, active, passed, records, providerVars, stale,
                       carried, apart>>

\* refresh_credentials: a spent token is refused; an answer may be lost.
RefreshRenew(q) ==
    LET c == ConnectionOf[q]  t == records[c].token
    IN  /\ Renews(q) /\ pc[q] = "renew"
        /\ \/ /\ t \in live
              /\ Issue(q, records[c].account, {t})
              /\ \/ Go(q, "rotate") /\ UNCHANGED <<lock, apart>>
                 \/ End(q) /\ apart' = apart \union {c}
           \/ End(q) /\ UNCHANGED <<providerVars, hand, apart>>
           \/ t \notin live /\ Go(q, "mark") /\ UNCHANGED <<providerVars, hand, lock, apart>>
        /\ UNCHANGED <<rowVars, passed, records, stale, target, previous, todo>>

RefreshRotate(q) ==
    LET c == ConnectionOf[q]
    IN  /\ Renews(q) /\ pc[q] = "rotate"
        /\ Put(c, hand[q])
        /\ Go(q, "note")
        /\ UNCHANGED <<rowVars, passed, providerVars, stale, lock, carried, apart>>

RefreshNote(q) ==
    LET c == ConnectionOf[q]
    IN  /\ Renews(q) /\ pc[q] = "note"
        /\ state' = [state EXCEPT ![c] = Metadata(hand[q])]
        /\ Release(q, {c}) /\ Renewed(q)
        /\ UNCHANGED <<status, linked, account, active, passed, records, providerVars, stale,
                       carried, apart>>

\* _mark_reconnect: the tokens go first, then the row says so.
RefreshMark(q) ==
    /\ Renews(q) /\ pc[q] = "mark"
    /\ Put(ConnectionOf[q], Plain("registration"))
    /\ Go(q, "marked")
    /\ UNCHANGED <<rowVars, passed, providerVars, stale, lock, carried, apart>>

RefreshMarked(q) ==
    /\ Renews(q) /\ pc[q] = "marked"
    /\ state' = [state EXCEPT ![ConnectionOf[q]] = "reconnect"]
    /\ End(q)
    /\ UNCHANGED <<status, linked, account, active, passed, records, providerVars, stale,
                   carried, apart>>
-----------------------------------------------------------------------------
(* activate_connection and disconnect_connection                           *)

Activate(q) ==
    LET c == ConnectionOf[q]
    IN  /\ Is(q, "activate", "start") /\ state[c] # "absent" /\ Free("user")
        /\ active' = IF state[c] = "disconnected" THEN active ELSE {c}
        /\ Go(q, "done")
        /\ UNCHANGED <<status, linked, state, account, passed, records, providerVars, stale, lock,
                       carried, apart>>

\* Mutant of DisconnectOrder: the file of the connection is locked first.
ConnectionThenUser(c) == <<c, "user">>

DisconnectOrder(c) == <<"user", c>>

DisconnectEnter(q) ==
    LET c == ConnectionOf[q]
    IN  /\ Is(q, "disconnect", "start") /\ state[c] # "absent"
        /\ Acquire(q, DisconnectOrder(c)[1])
        /\ Go(q, "second")
        /\ UNCHANGED <<rowVars, passed, records, providerVars, stale, carried, apart>>

DisconnectLock(q) ==
    /\ Is(q, "disconnect", "second")
    /\ Acquire(q, DisconnectOrder(ConnectionOf[q])[2])
    /\ Go(q, "revoke")
    /\ UNCHANGED <<rowVars, passed, records, providerVars, stale, carried, apart>>

\* revoke_credentials: the provider may not be reached.
DisconnectRevoke(q) ==
    LET c == ConnectionOf[q]
    IN  /\ Is(q, "disconnect", "revoke")
        /\ \/ /\ Holds(c, "credentials") /\ Fits(records[c], c)
              /\ live' = live \ {records[c].token}
           \/ UNCHANGED live
        /\ Go(q, "clear")
        /\ UNCHANGED <<rowVars, passed, records, issued, stale, lock, carried, apart>>

DisconnectClear(q) ==
    /\ Is(q, "disconnect", "clear")
    /\ Put(ConnectionOf[q], Plain("registration"))
    /\ Go(q, "drop")
    /\ UNCHANGED <<rowVars, passed, providerVars, stale, lock, carried, apart>>

DisconnectDrop(q) ==
    LET c == ConnectionOf[q]
    IN  /\ Is(q, "disconnect", "drop")
        /\ state' = [state EXCEPT ![c] = "disconnected"]
        /\ active' = active \ {c}
        /\ todo' = [todo EXCEPT ![q] = {<<a, "record">> : a \in
                      {x \in Attempts : status[x] = "complete" /\ linked[x] = c}}]
        /\ apart' = apart \ {c}
        /\ Release(q, {c}) /\ Go(q, "tidy")
        /\ UNCHANGED <<status, linked, account, passed, records, providerVars, stale, hand, target,
                       previous>>

\* The duplicates its confirmations left.
DisconnectTidy(q) ==
    /\ Is(q, "disconnect", "tidy")
    /\ \/ \E a \in Attempts :
            /\ <<a, "record">> \in todo[q] /\ Free(a) /\ Delete(a)
            /\ todo' = [todo EXCEPT ![q] = @ \ {<<a, "record">>}]
            /\ UNCHANGED <<pc, lock>>
       \/ todo[q] = {} /\ End(q) /\ UNCHANGED <<records, todo>>
    /\ UNCHANGED <<rowVars, passed, providerVars, stale, hand, target, previous, apart>>
-----------------------------------------------------------------------------
(* The rest of the world.                                                  *)

\* A worker dies, or an exception nobody handles: its locks are released.
Crash(q) ==
    LET c == IF Kind[q] = "finish" THEN target[q] ELSE ConnectionOf[q]
        kept == IF Kind[q] = "finish" THEN {AttemptOf[q], c} ELSE {c}
    IN  /\ q \in Mortal /\ pc[q] \notin {"start", "done", "dead"}
        /\ Go(q, "dead") /\ Release(q, Locks)
        /\ apart' = IF \/ Renews(q) /\ pc[q] \in {"rotate", "marked"}
                       \/ Kind[q] = "disconnect" /\ pc[q] \in {"clear", "drop", "tidy"}
                       \/ Is(q, "finish", "commit")
                    THEN apart \union kept ELSE apart
        /\ UNCHANGED <<rowVars, passed, records, providerVars, stale, carried>>

\* ATTEMPT_LIFETIME passes.
PassAttempt(a) ==
    /\ status[a] # "absent" /\ a \notin passed
    /\ passed' = passed \union {a}
    /\ UNCHANGED <<rowVars, records, providerVars, stale, lock, pc, carried, apart>>

\* An access token in use comes within a minute of its end.
AccessEnds(t) ==
    /\ t \in {records[c].token : c \in Connections} \ (stale \union {0})
    /\ stale' = stale \union {t}
    /\ UNCHANGED <<rowVars, passed, records, providerVars, lock, pc, carried, apart>>

Step(q) ==
    \/ BeginLock(q) \/ BeginWrite(q) \/ BeginInsert(q)
    \/ \E a \in Attempts : SweepRecord(q, a) \/ SweepStaged(q, a)
    \/ CallbackLook(q) \/ CallbackTime(q) \/ CallbackExpire(q) \/ CallbackExpired(q)
    \/ CallbackClaim(q) \/ CallbackOpen(q) \/ CallbackExchange(q) \/ CallbackKeep(q)
    \/ CallbackAdvance(q) \/ CallbackReread(q) \/ CallbackFail(q)
    \/ Cancel(q) \/ Discard(q)
    \/ FinishLook(q) \/ FinishEnter(q) \/ FinishClaim(q) \/ FinishOpen(q) \/ FinishTarget(q)
    \/ FinishReplace(q) \/ FinishCommit(q) \/ FinishTidy(q) \/ FinishUndo(q)
    \/ TokenLook(q) \/ TokenServe(q)
    \/ RefreshEnter(q) \/ RefreshConsult(q) \/ RefreshRenew(q) \/ RefreshRotate(q)
    \/ RefreshNote(q) \/ RefreshMark(q) \/ RefreshMarked(q)
    \/ Activate(q) \/ DisconnectEnter(q) \/ DisconnectLock(q) \/ DisconnectRevoke(q)
    \/ DisconnectClear(q) \/ DisconnectDrop(q) \/ DisconnectTidy(q)

Next ==
    \/ \E q \in Requests : Step(q) \/ Crash(q)
    \/ \E a \in Attempts : PassAttempt(a)
    \/ \E t \in 1 .. MaxTokens : AccessEnds(t)

Spec == Init /\ [][Next]_vars

\* Some worker goes on while one has a step to take: the provider answers or
\* times out, a lock is granted once it is free.
Fairness == WF_vars(\E q \in Requests : pc[q] # "start" /\ Step(q))
FairSpec == Spec /\ Fairness
-----------------------------------------------------------------------------
(* Properties.                                                             *)

TypeOK ==
    /\ status \in [Attempts -> Open \union {"absent", "complete", "failed", "expired"}]
    /\ linked \in [Attempts -> Connections \union {None}]
    /\ passed \subseteq Attempts
    /\ state \in [Connections -> {"absent", "ready", "identity_only", "reconnect", "disconnected"}]
    /\ account \in [Connections -> Accounts \union {None}]
    /\ active \subseteq Connections
    /\ records \in [Attempts \union Connections -> Record]
    /\ issued \in 0 .. MaxTokens /\ live \subseteq 1 .. issued /\ stale \subseteq 1 .. issued
    /\ lock \in [Locks -> Requests \union {None}]
    /\ hand \in [Requests -> Record] /\ previous \in [Requests -> Record]
    /\ target \in [Requests -> Connections \union {None}]
    /\ todo \in [Requests -> SUBSET (Attempts \X {"record", "staged"})]
    /\ apart \subseteq Attempts \union Connections

Away(q) == pc[q] \in {"start", "done"}

\* A cancelled or refused authorization, one that is FAILED, keeps no secrets once
\* its requests are over: what a late callback still writes is taken back.  One
\* that ran out keeps its record until the next begin sweeps it, and is not meant.
CancelledKeepsNoSecrets ==
    \A a \in Attempts :
        /\ status[a] = "failed"
        /\ \A q \in Requests : Kind[q] \in {"callback", "cancel"} /\ AttemptOf[q] = a => Away(q)
        => Holds(a, "none")

\* A disconnected connection holds no tokens, nor do the confirmations it came
\* from, unless a request was cut short there: no renewal or confirmation beside
\* the disconnect leaves any behind.
DisconnectedKeepsNoTokens ==
    \A c \in Connections \ apart :
        /\ state[c] = "disconnected"
        /\ \A q \in Requests :
              /\ Kind[q] = "finish" /\ target[q] = c => Away(q)
              /\ Kind[q] = "disconnect" /\ ConnectionOf[q] = c => Away(q)
        => /\ ~Holds(c, "credentials")
           /\ \A a \in Attempts :
                 status[a] = "complete" /\ linked[a] = c => ~Holds(a, "credentials")

\* A refresh token is spent once and its successor kept: what a ready connection
\* holds, when nobody has it locked, is a token the provider still accepts, or a
\* crash, a lost answer or a failed restoration came between.
TokensAreLive ==
    \A c \in Connections \ apart :
        state[c] = "ready" /\ Free(c) => Holds(c, "credentials") /\ records[c].token \in live

\* However a renewal, a confirmation and a disconnect fall beside each other, the
\* vault holds what the rows say.
CredentialsFollowRows == TokensAreLive /\ DisconnectedKeepsNoTokens

\* A stalled callback may find its attempt expired while a confirmation that
\* was in time is on its way: that one is decided by the confirmation.
Undecided ==
    {a \in Attempts :
        \/ status[a] \in Open \union {"absent"}
        \/ /\ status[a] = "expired"
           /\ \E q \in Requests : /\ Kind[q] = "finish" /\ AttemptOf[q] = a
                                  /\ pc[q] \in {"open", "target", "replace", "commit"}}

Links == INSTANCE LinkedAccounts WITH
    undecided <- Undecided,
    joined <- {c \in Connections : state[c] \in {"ready", "identity_only"}}

\* Rows and requests implement what linking promises: an authorization is
\* decided once, and only a confirmation links a connection.
KeepsLinks == Links!Spec

\* No lock is waited for in a circle: however the requests meet, the time comes
\* when none of them is under way.
RequestsEnd ==
    []<>(\A q \in Requests : pc[q] \in {"start", "done", "dead"})
=============================================================================
