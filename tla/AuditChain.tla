------------------------------ MODULE AuditChain ------------------------------
(***************************************************************************)
(* The audit log as a hash chain: transactions that append to it, the      *)
(* scrub that takes e-mail addresses out of old rows and seals the whole   *)
(* chain again, and the retention scan that deletes operational rows.      *)
(*                                                                         *)
(* A hash stands for what it covers: the contents of its row and of all    *)
(* the rows its chain runs through.  A content carries its chainSeq, so    *)
(* the set of them also fixes their order.  The empty set is null.         *)
(*                                                                         *)
(* Everything runs at READ COMMITTED: an open transaction's rows are seen  *)
(* by itself alone.                                                        *)
(***************************************************************************)
EXTENDS Integers, FiniteSets

CONSTANTS
    Actors,        \* processes that record audit events or run the scrub
    Legacy,        \* rows there are at the start, sealed, with e-mail addresses
    MaxSeq,        \* bound: how many rows are ever inserted
    None

ASSUME AuditChainAssumption ==
    /\ Legacy \in Nat
    /\ MaxSeq \in Nat
    /\ Legacy <= MaxSeq
    /\ None \notin Actors

Seqs == 1..MaxSeq
Contents == Seqs \X BOOLEAN

VARIABLES
    row,        \* AuditEvent by chainSeq
    next,       \* the sequence behind chainSeq
    lock,       \* who holds the advisory lock AUDIT_CHAIN_LOCK_KEY
    actor,      \* the transaction or the scrub each actor is in
    scrubbed    \* rows whose content changed since their hash was computed

vars == <<row, next, lock, actor, scrubbed>>

------------------------------------------------------------------------------
\* by: the transaction that has yet to commit the row.  op: the action is one
\* the retention scan deletes.  pii: the metadata still carries an e-mail address.
Row == [state : {"none", "open", "present", "rolledBack", "purged"}, by : Actors \cup {None},
        op : BOOLEAN, pii : BOOLEAN, prev : SUBSET Contents, hash : SUBSET Contents]

\* head: the hash read as the chain's head.  todo: rows the scrub has yet to
\* clean, any: it cleaned one.  read: the contents the re-seal read under the
\* lock, then: what comes after it.
Actor == [pc : {"idle", "locked", "read", "inserted", "scrub", "seal", "sealing", "record"},
          head : SUBSET Contents, todo : SUBSET Seqs, any : BOOLEAN, read : SUBSET Contents,
          then : {"idle", "record"}]

NoRow == [state |-> "none", by |-> None, op |-> FALSE, pii |-> FALSE, prev |-> {}, hash |-> {}]
Idle == [pc |-> "idle", head |-> {}, todo |-> {}, any |-> FALSE, read |-> {}, then |-> "idle"]

Present == {n \in Seqs : row[n].state = "present"}
Open(a) == {n \in Seqs : row[n].state = "open" /\ row[n].by = a}
Content(n) == <<n, row[n].pii>>

------------------------------------------------------------------------------
\* Mutants of the definitions below, one plausible bug each.
LockNeverWaits(a) == TRUE
HashOfContentAlone(prev, c) == {c}
CarriedTooLate(read, n) == {c \in read : c[1] <= n}

\* pg_advisory_xact_lock waits for whoever holds it, and lets its holder in again.
LockFree(a) == lock \in {None, a}

\* findFirst by chainSeq desc.
IsHead(S, n) == \A m \in S : m <= n

\* computeAuditHash.
Hash(prev, c) == prev \cup {c}

\* What the re-seal's walk in chainSeq order carries to row n as prevHash.
Carried(read, n) == {c \in read : c[1] < n}

\* Every row the re-seal read is still there to be updated.
AllThere(a) == \A c \in actor[a].read : c[1] \in Present

\* The transaction of a is over, and with it its lock.
Release(a) == lock' = IF lock = a THEN None ELSE lock

------------------------------------------------------------------------------
\* Legacy rows were sealed with the addresses in them.
Sealed(n) == {<<m, TRUE>> : m \in 1..n}
LegacyRow(n, op) ==
    [state |-> "present", by |-> None, op |-> op, pii |-> TRUE,
     prev |-> Sealed(n - 1), hash |-> Sealed(n)]

Init ==
    /\ \E ops \in [Seqs -> BOOLEAN] :
          row = [n \in Seqs |-> IF n <= Legacy THEN LegacyRow(n, ops[n]) ELSE NoRow]
    /\ next = Legacy + 1
    /\ lock = None
    /\ actor = [a \in Actors |-> Idle]
    /\ scrubbed = {}

------------------------------------------------------------------------------
(* recordAuditEvent: an append, in a transaction of its own or its caller's. *)

AcquireLock(a) ==
    /\ actor[a].pc \in {"idle", "record"}
    /\ LockFree(a)
    /\ lock' = a
    /\ actor' = [actor EXCEPT ![a].pc = "locked"]
    /\ UNCHANGED <<row, next, scrubbed>>

\* The caller's transaction may have inserted rows before, which only it sees.
Visible(a) == Present \cup (IF actor[a].pc = "inserted" THEN Open(a) ELSE {})

ReadHead(a) ==
    LET seen == Visible(a)
    IN /\ actor[a].pc \in {"locked", "inserted"}
       /\ \/ /\ seen = {}
             /\ actor' = [actor EXCEPT ![a].pc = "read", ![a].head = {}]
          \/ \E n \in seen :
                /\ IsHead(seen, n)
                /\ actor' = [actor EXCEPT ![a].pc = "read", ![a].head = row[n].hash]
       /\ UNCHANGED <<row, next, lock, scrubbed>>

Insert(a, op) ==
    /\ actor[a].pc = "read"
    /\ next \in Seqs
    /\ row' = [row EXCEPT ![next] =
                 [state |-> "open", by |-> a, op |-> op, pii |-> FALSE,
                  prev |-> actor[a].head, hash |-> Hash(actor[a].head, <<next, FALSE>>)]]
    /\ next' = next + 1
    /\ actor' = [actor EXCEPT ![a].pc = "inserted"]
    /\ UNCHANGED <<lock, scrubbed>>

End(a, state) ==
    row' = [n \in Seqs |->
              IF n \in Open(a) THEN [row[n] EXCEPT !.state = state, !.by = None] ELSE row[n]]
Rest(a) == actor' = [actor EXCEPT ![a] = Idle]

Commit(a) ==
    /\ actor[a].pc = "inserted"
    /\ End(a, "present")
    /\ Release(a)
    /\ Rest(a)
    /\ UNCHANGED <<next, scrubbed>>

\* A statement fails, the caller's transaction rolls back, or the process dies.
Rollback(a) ==
    /\ actor[a].pc \in {"locked", "read", "inserted", "sealing"}
    /\ End(a, "rolledBack")
    /\ Release(a)
    /\ Rest(a)
    /\ UNCHANGED <<next, scrubbed>>

------------------------------------------------------------------------------
(* scrubHistoricalAuditPii: clean the rows one by one, outside of the lock,  *)
(* then seal the chain again (backfillAuditChain), then record the event.    *)

FindPii(a) ==
    /\ actor[a].pc = "idle"
    /\ actor' = [actor EXCEPT ![a].pc = "scrub", ![a].todo = {n \in Present : row[n].pii}]
    /\ UNCHANGED <<row, next, lock, scrubbed>>

ScrubRow(a, n) ==
    /\ actor[a].pc = "scrub" /\ n \in actor[a].todo
    /\ row[n].state = "present"
    /\ row' = [row EXCEPT ![n].pii = FALSE]
    /\ scrubbed' = IF row[n].pii THEN scrubbed \cup {n} ELSE scrubbed
    /\ actor' = [actor EXCEPT ![a].todo = @ \ {n}, ![a].any = TRUE]
    /\ UNCHANGED <<next, lock>>

\* The row to update is gone, or the process dies: nothing seals the rows that
\* were cleaned so far, and a second scrub does not find them.
ScrubFails(a) ==
    /\ actor[a].pc \in {"scrub", "seal", "record"}
    /\ Rest(a)
    /\ UNCHANGED <<row, next, lock, scrubbed>>

ScrubEnds(a) ==
    /\ actor[a].pc = "scrub" /\ actor[a].todo = {}
    /\ actor' = [actor EXCEPT ![a] = IF @.any THEN [Idle EXCEPT !.pc = "seal", !.then = "record"]
                                                ELSE Idle]
    /\ UNCHANGED <<row, next, lock, scrubbed>>

\* Run by hand too: scripts/maintenance/backfill-audit-chain.ts.
Backfill(a) ==
    /\ actor[a].pc = "idle"
    /\ actor' = [actor EXCEPT ![a].pc = "seal"]
    /\ UNCHANGED <<row, next, lock, scrubbed>>

SealRead(a) ==
    /\ actor[a].pc = "seal"
    /\ LockFree(a)
    /\ lock' = a
    /\ actor' = [actor EXCEPT ![a].pc = "sealing", ![a].read = {Content(n) : n \in Present}]
    /\ UNCHANGED <<row, next, scrubbed>>

SealCommit(a) ==
    /\ actor[a].pc = "sealing"
    /\ AllThere(a)
    /\ LET read == actor[a].read
       IN /\ row' = [n \in Seqs |->
                       IF \E c \in read : c[1] = n
                       THEN [row[n] EXCEPT !.prev = Carried(read, n),
                                           !.hash = {c \in read : c[1] <= n}]
                       ELSE row[n]]
          /\ scrubbed' = {n \in scrubbed : Content(n) \notin read}
    /\ Release(a)
    /\ actor' = [actor EXCEPT ![a] = [Idle EXCEPT !.pc = actor[a].then]]
    /\ UNCHANGED next

------------------------------------------------------------------------------
\* deleteOperationalAuditEventsOlderThan, one batch: the oldest ones, up to n.
Purge(n) ==
    LET old == {m \in Present : row[m].op /\ m <= n}
    IN /\ old # {}
       /\ row' = [m \in Seqs |-> IF m \in old THEN [row[m] EXCEPT !.state = "purged"] ELSE row[m]]
       /\ scrubbed' = scrubbed \ old
       /\ UNCHANGED <<next, lock, actor>>

Next ==
    \/ \E a \in Actors :
          \/ AcquireLock(a) \/ ReadHead(a) \/ Commit(a) \/ Rollback(a)
          \/ FindPii(a) \/ ScrubFails(a) \/ ScrubEnds(a)
          \/ Backfill(a) \/ SealRead(a) \/ SealCommit(a)
          \/ \E op \in BOOLEAN : Insert(a, op)
          \/ \E n \in Seqs : ScrubRow(a, n)
    \/ \E n \in Seqs : Purge(n)

Spec == Init /\ [][Next]_vars
------------------------------------------------------------------------------
(* Properties. *)

\* Types.  A row that is not committed belongs to the holder of the lock, and
\* nothing is above the sequence.
TypeOK ==
    /\ row \in [Seqs -> Row]
    /\ next \in 1..(MaxSeq + 1)
    /\ lock \in Actors \cup {None}
    /\ actor \in [Actors -> Actor]
    /\ scrubbed \subseteq Seqs
    /\ \A n \in Seqs : /\ row[n].state = "open" => lock = row[n].by /\ lock # None
                      /\ (n >= next) = (row[n].state = "none")

Linked == {n \in Seqs : row[n].state \in {"present", "open"}}

\* Concurrent writers never branch the chain: no two rows have the same prevHash
\* (auditService.ts, "can never branch the chain"), whatever the scrub has
\* sealed anew and the retention scan has deleted.
NoBranch == \A m, n \in Linked : row[m].prev = row[n].prev => m = n

Below(n) == {m \in Present : m < n}
LinkHolds(n) == /\ Below(n) = {} => row[n].prev = {}
                /\ \A p \in Below(n) : IsHead(Below(n), p) => row[n].prev = row[p].hash

\* verifyAuditChain reports chain_break only where the retention scan deleted a
\* row: between the row it names and the row before that one.
BreaksAreGaps ==
    \A n \in Present : LinkHolds(n) \/ \E g \in Seqs : /\ g < n /\ row[g].state = "purged"
                                                     /\ \A p \in Below(n) : p < g

\* verifyAuditChain reports hash_mismatch only for rows a scrub has cleaned since
\* the chain was last sealed: a scrub that lost its process, or that another one
\* overtook, leaves exactly those behind.
MismatchesAreScrubs ==
    \A n \in Present : row[n].hash = row[n].prev \cup {Content(n)} \/ (n \in scrubbed /\ ~row[n].pii)
==============================================================================
