------------------------------- MODULE Vault --------------------------------
(***************************************************************************)
(* The private directory of credentials (assistant/connections/vault.py):  *)
(* a key, a check that the key opens, a host identity and one encrypted    *)
(* file per record.  A request sets the directory up, or finds it set up,  *)
(* under one file lock, and then uses a record under that record's lock; a *)
(* preview reads without either.                                           *)
(*                                                                         *)
(* A new file is written under a temporary name and published by a hard    *)
(* link, which cannot replace another, or by a rename, which does.  A      *)
(* crash leaves the temporary name behind, and a published file that has   *)
(* two names is refused ever after.  Contents are numbers: a key or an     *)
(* identity is fresh when it is made, a check names its key, a record      *)
(* names the key and the identity it was written under.                    *)
(***************************************************************************)
EXTENDS Naturals, FiniteSets

CONSTANTS Records, Requests, Kind, RecordOf, Unlocked,
          MaxMade      \* bound: keys and identities ever made

\* How the vault is used.
IsUsedWell ==
    /\ Kind \in [Requests -> {"write", "delete", "read", "preview"}]
    /\ RecordOf \in [Requests -> Records]
    /\ Records \intersect {"key", "check", "host", "other", "setup"} = {}
    /\ Unlocked \notin Requests
    /\ MaxMade \in Nat

ASSUME VaultIsUsedWell == IsUsedWell

KeyFiles == {"key", "check", "host"}

VARIABLES
    file,      \* contents of the three files, 0 when absent
    record,    \* contents of the record files
    temporary, \* temporary names left or in use: what they are for, and whether published
    used,      \* lock files of records that were created
    made,      \* keys and identities made so far
    lock,      \* the holder of each lock
    pc, seen,  \* where each request is, and the names it listed
    cipher,    \* the key it opened
    lost,      \* history: a file was lost with its backup
    litter     \* history: a crash left a temporary name

vaultVars == <<file, record, temporary, used, made, lock, pc, seen, cipher, lost, litter>>

Nothing == [key |-> 0, host |-> 0]
Locks == {"setup"} \union Records

VaultInit ==
    /\ file = [f \in KeyFiles |-> 0]
    /\ record = [r \in Records |-> Nothing]
    /\ temporary = {} /\ used = {} /\ made = 0
    /\ lock = [i \in Locks |-> Unlocked]
    /\ pc = [q \in Requests |-> <<"start", "key">>]
    /\ seen = [q \in Requests |-> {}]
    /\ cipher = [q \in Requests |-> 0]
    /\ lost = FALSE /\ litter = FALSE
-----------------------------------------------------------------------------
At(q, phase, f) == pc[q] = <<phase, f>>
Go(q, phase, f) == pc' = [pc EXCEPT ![q] = <<phase, f>>]
Over(q) == pc[q][1] \in {"done", "failed", "dead"}

Release(q) == lock' = [i \in Locks |-> IF lock[i] = q THEN Unlocked ELSE lock[i]]
Fail(q) == Go(q, "failed", "key") /\ Release(q)

\* _validate_private: a regular file with a single name.
Sound(f) == file[f] # 0 /\ ~\E t \in temporary : t.name = f /\ t.published

\* _fernet and _host_id
Opens == Sound("key") /\ Sound("check") /\ file["check"] = file["key"]
HostKnown == Sound("host")

Listed ==
    {f \in KeyFiles : file[f] # 0} \union {r \in Records : record[r] # Nothing}
    \union (IF temporary # {} \/ used # {} THEN {"other"} ELSE {})

Enter(q) ==
    /\ At(q, "start", "key") /\ Kind[q] # "preview"
    /\ lock["setup"] = Unlocked /\ lock' = [lock EXCEPT !["setup"] = q]
    /\ seen' = [seen EXCEPT ![q] = Listed]
    /\ Go(q, "consider", "key")
    /\ UNCHANGED <<file, record, temporary, used, made, cipher, lost, litter>>

\* Mutant of MayMake: whatever is missing is made anew.
MayMakeAlways(f, names) == TRUE

\* Nothing that exists may depend on what is missing.
MayMake(f, names) ==
    IF f = "key" THEN names = {} ELSE names \intersect Records = {}

\* Mutant of IsMissing: a check is only made with its key.
IsMissingWithKey(f, names) ==
    f \notin names /\ (f = "check" => "key" \notin names)

IsMissing(f, names) == f \notin names

Following(f) == CASE f = "key" -> "check" [] f = "check" -> "host" [] f = "host" -> "end"

\* What has to be right before a file is looked at, whether it is missing or not.
Ready(f) ==
    CASE f = "key" -> TRUE
      [] f = "check" -> TRUE
      [] f = "host" -> Opens
      [] f = "end" -> HostKnown

Consider(q, f) ==
    /\ At(q, "consider", f)
    /\ \/ /\ Ready(f) /\ f \in KeyFiles /\ ~IsMissing(f, seen[q])
          /\ Go(q, "consider", Following(f))
          /\ UNCHANGED <<temporary, lock>>
       \/ /\ Ready(f) /\ f \in KeyFiles /\ IsMissing(f, seen[q]) /\ MayMake(f, seen[q])
          /\ f = "check" => Sound("key")
          /\ temporary' = temporary \union {[name |-> f, published |-> FALSE, of |-> q]}
          /\ Go(q, "link", f)
          /\ UNCHANGED lock
       \/ /\ \/ ~Ready(f)
             \/ f \in KeyFiles /\ IsMissing(f, seen[q]) /\ ~MayMake(f, seen[q])
             \/ f = "check" /\ IsMissing(f, seen[q]) /\ ~Sound("key")
          /\ Fail(q)
          /\ UNCHANGED temporary
       \/ /\ f = "end" /\ Ready(f)
          /\ Go(q, "ready", "key") /\ Release(q)
          /\ UNCHANGED temporary
    /\ UNCHANGED <<file, record, used, made, seen, cipher, lost, litter>>

\* _atomic_write without replacement: published under its name, then unlinked.
Link(q, f) ==
    /\ At(q, "link", f) /\ file[f] = 0
    /\ f # "check" => made < MaxMade
    /\ made' = IF f = "check" THEN made ELSE made + 1
    /\ file' = [file EXCEPT ![f] = IF f = "check" THEN file["key"] ELSE made + 1]
    /\ temporary' = {IF t.of = q THEN [t EXCEPT !.published = TRUE] ELSE t : t \in temporary}
    /\ Go(q, "unlink", f)
    /\ UNCHANGED <<record, used, lock, seen, cipher, lost, litter>>

Unlink(q, f) ==
    /\ At(q, "unlink", f)
    /\ temporary' = {t \in temporary : t.of # q}
    /\ Go(q, "consider", Following(f))
    /\ UNCHANGED <<file, record, used, made, lock, seen, cipher, lost, litter>>
-----------------------------------------------------------------------------
(* lock, read, write and delete                                            *)

LockRecord(q) ==
    LET r == RecordOf[q]
    IN  /\ At(q, "ready", "key") /\ lock[r] = Unlocked
        /\ IF Opens /\ HostKnown
           THEN /\ used' = used \union {r}
                /\ lock' = [lock EXCEPT ![r] = q]
                /\ Go(q, "use", "key")
           ELSE Fail(q) /\ UNCHANGED used
        /\ UNCHANGED <<file, record, temporary, made, seen, cipher, lost, litter>>

\* A preview begins here, without a lock and whatever the others are doing.
Open(q) ==
    /\ At(q, "use", "key") \/ (Kind[q] = "preview" /\ At(q, "start", "key"))
    /\ IF Opens /\ HostKnown
       THEN /\ cipher' = [cipher EXCEPT ![q] = file["key"]]
            /\ temporary' = IF Kind[q] # "write" THEN temporary
                            ELSE temporary \union
                                 {[name |-> RecordOf[q], published |-> FALSE, of |-> q]}
            /\ Go(q, "act", "key") /\ UNCHANGED lock
       ELSE Fail(q) /\ UNCHANGED <<cipher, temporary>>
    /\ UNCHANGED <<file, record, used, made, seen, lost, litter>>

\* The temporary name takes the place of the record's in one step.
Write(q) ==
    /\ At(q, "act", "key") /\ Kind[q] = "write"
    /\ record' = [record EXCEPT ![RecordOf[q]] = [key |-> cipher[q], host |-> file["host"]]]
    /\ temporary' = {t \in temporary : t.of # q}
    /\ Go(q, "done", "key") /\ Release(q)
    /\ UNCHANGED <<file, used, made, seen, cipher, lost, litter>>

Delete(q) ==
    /\ At(q, "act", "key") /\ Kind[q] = "delete"
    /\ record' = [record EXCEPT ![RecordOf[q]] = Nothing]
    /\ Go(q, "done", "key") /\ Release(q)
    /\ UNCHANGED <<file, temporary, used, made, seen, cipher, lost, litter>>

\* A record that is missing or does not open is refused.
Read(q) ==
    /\ At(q, "act", "key") /\ Kind[q] \in {"read", "preview"}
    /\ IF record[RecordOf[q]] = Nothing
       THEN Go(q, "done", "key") /\ Release(q)
       ELSE IF record[RecordOf[q]].key = cipher[q]
            THEN Go(q, "done", "key") /\ Release(q) ELSE Fail(q)
    /\ UNCHANGED <<file, record, temporary, used, made, seen, cipher, lost, litter>>
-----------------------------------------------------------------------------
(* The worker and the operator.                                            *)

Crash(q) ==
    /\ ~Over(q) /\ pc[q] # <<"start", "key">>
    /\ Go(q, "dead", "key") /\ Release(q)
    /\ litter' = (litter \/ \E t \in temporary : t.of = q)
    /\ UNCHANGED <<file, record, temporary, used, made, seen, cipher, lost>>

\* While nothing runs, a backup is restored that lacks one of the three files.
Restore(f) ==
    /\ \A q \in Requests : pc[q] = <<"start", "key">> \/ Over(q)
    /\ file[f] # 0
    /\ file' = [file EXCEPT ![f] = 0]
    /\ lost' = TRUE
    /\ UNCHANGED <<record, temporary, used, made, lock, pc, seen, cipher, litter>>

Step(q) ==
    \/ Enter(q) \/ LockRecord(q) \/ Open(q) \/ Write(q) \/ Delete(q) \/ Read(q)
    \/ \E f \in KeyFiles \union {"end"} : Consider(q, f)
    \/ \E f \in KeyFiles : Link(q, f) \/ Unlink(q, f)

VaultNext ==
    \/ \E q \in Requests : Step(q) \/ Crash(q)
    \/ \E f \in KeyFiles : Restore(f)

VaultSpec == VaultInit /\ [][VaultNext]_vaultVars
-----------------------------------------------------------------------------
TypeOK ==
    /\ file \in [KeyFiles -> 0 .. MaxMade]
    /\ record \in [Records -> [key : 0 .. MaxMade, host : 0 .. MaxMade]]
    /\ temporary \subseteq [name : KeyFiles \union Records, published : BOOLEAN, of : Requests]
    /\ used \subseteq Records /\ made \in 0 .. MaxMade
    /\ lock \in [Locks -> Requests \union {Unlocked}]
    /\ cipher \in [Requests -> 0 .. MaxMade]
    /\ seen \in [Requests -> SUBSET (KeyFiles \union Records \union {"other"})]
    /\ lost \in BOOLEAN /\ litter \in BOOLEAN

\* No key and no identity is ever made beside a record that needs another one
\* ("a missing key beside any existing material never creates a new key"): what
\* is stored stays readable, whoever else sets the directory up, dies doing so,
\* or restores half of it.
RecordsStayReadable ==
    \A r \in Records :
        record[r] # Nothing => /\ file["key"] \in {0, record[r].key}
                               /\ file["host"] \in {0, record[r].host}

\* A setup that was cut short is taken up by the next request: a request is only
\* refused when a file was lost, a crash left a temporary name, or a preview
\* came before the setup was over.
SetupResumes ==
    \A q \in Requests : pc[q][1] = "failed" => lost \/ litter \/ Kind[q] = "preview"
=============================================================================
