--------------------------- MODULE AuditChainProofs ---------------------------
(***************************************************************************)
(* Proofs about AuditChain for every set of actors and every number of     *)
(* rows.                                                                   *)
(*                                                                         *)
(* The argument.  A transaction keeps the lock from before it reads the    *)
(* head until it ends, so the head it read is still above every row there  *)
(* is when it inserts.  A prevHash therefore covers a row at or above each *)
(* older row, and nothing at or above its own: that tells the prevHashes   *)
(* of any two rows apart.  The re-seal reads under the lock every row it   *)
(* then writes; what changes meanwhile was changed by a scrub, and what is *)
(* missing was deleted by the retention scan.                              *)
(***************************************************************************)
EXTENDS AuditChain, FiniteSetTheorems, WellFoundedInduction, TLAPS

------------------------------------------------------------------------------
(* The inductive invariant, in parts.                                       *)

HasLock(a) == actor[a].pc \in {"locked", "read", "inserted", "sealing"}

\* Whoever is past the lock holds it; only a transaction past its head has rows.
LockInv ==
    /\ \A a \in Actors : HasLock(a) => lock = a
    /\ \A n \in Seqs : row[n].state = "open" =>
          /\ row[n].by \in Actors
          /\ actor[row[n].by].pc \in {"read", "inserted"}

\* Open rows are the newest.
OrderInv ==
    \A m, n \in Seqs : row[m].state = "open" /\ row[n].state = "present" => n < m

\* A set of contents covers the linked rows below k, and nothing at or above k.
Covers(S, k) == /\ \A c \in S : c[1] < k
                /\ \A m \in Linked : m < k => \E c \in S : c[1] >= m

CoversInv ==
    \A n \in Linked : /\ Covers(row[n].prev, n)
                      /\ \A c \in row[n].hash : c[1] <= n
                      /\ \E c \in row[n].hash : c[1] = n

\* The linked rows below k; something deleted between all of them and k.
Older(k) == {m \in Linked : m < k}
Gap(k) == \E g \in Seqs : g < k /\ row[g].state = "purged" /\ \A p \in Older(k) : p < g

\* S is what a row at k should have as its prevHash.
Continues(S, k) == \/ Gap(k)
                   \/ /\ Older(k) = {} => S = {}
                      /\ \A p \in Older(k) : IsHead(Older(k), p) => S = row[p].hash

LinkInv == \A n \in Linked : Continues(row[n].prev, n)

\* The head that was read is still the head.
HeadInv ==
    \A a \in Actors : actor[a].pc = "read" =>
        Covers(actor[a].head, next) /\ Continues(actor[a].head, next)

\* A re-seal read every row, each once, as it was; only scrubs changed them.
SealInv ==
    \A a \in Actors : actor[a].pc = "sealing" =>
        /\ \A n \in Present : \E c \in actor[a].read : c[1] = n
        /\ \A c, d \in actor[a].read : c[1] = d[1] => c = d
        /\ \A c \in actor[a].read : row[c[1]].state = "present" =>
              c = Content(c[1]) \/ (c[1] \in scrubbed /\ ~row[c[1]].pii)

\* A hash is that of its row, or the row was cleaned since.
HashInv ==
    \A n \in Linked : row[n].hash = row[n].prev \cup {Content(n)} \/ (n \in scrubbed /\ ~row[n].pii)

IInv == TypeOK /\ LockInv /\ OrderInv /\ CoversInv /\ LinkInv /\ HeadInv /\ SealInv /\ HashInv

------------------------------------------------------------------------------
LEMMA SealedMember ==
    ASSUME NEW k, NEW c, c \in Sealed(k)
    PROVE  \E m \in 1..k : c = <<m, TRUE>>
  BY DEF Sealed

LEMMA InitInvariant == Init => IInv
<1> SUFFICES ASSUME Init PROVE IInv
  OBVIOUS
<1> USE AuditChainAssumption
<1>1. PICK ops \in [Seqs -> BOOLEAN] :
         row = [n \in Seqs |-> IF n <= Legacy THEN LegacyRow(n, ops[n]) ELSE NoRow]
  BY DEF Init
<1>2. \A n \in Seqs : n <= Legacy =>
         /\ row[n].state = "present" /\ row[n].pii = TRUE
         /\ row[n].prev = Sealed(n - 1) /\ row[n].hash = Sealed(n)
  BY <1>1 DEF LegacyRow
<1>15. \A n \in Seqs : n \in Nat /\ 1 <= n /\ n <= MaxSeq
  BY DEF Seqs
<1>3. \A n \in Seqs : n > Legacy => row[n] = NoRow
  BY <1>1 DEF Seqs
<1>13. \A n \in Seqs : n > Legacy => row[n].state = "none"
  BY <1>3 DEF NoRow
<1>4. Linked = {n \in Seqs : n <= Legacy} /\ Present = Linked
  <2>1. \A n \in Seqs : n <= Legacy \/ n > Legacy
    BY <1>15
  <2> QED
    BY <2>1, <1>2, <1>13 DEF Linked, Present
<1>5. \A a \in Actors : actor[a] = Idle
  BY DEF Init
<1>6. \A n \in Seqs : row[n] \in Row
  <2> TAKE n \in Seqs
  <2>1. CASE n <= Legacy
    <3>1. 1..(n - 1) \subseteq Seqs /\ 1..n \subseteq Seqs
      BY DEF Seqs
    <3>2. Sealed(n - 1) \subseteq Contents /\ Sealed(n) \subseteq Contents
      <4>1. \A m \in Seqs : <<m, TRUE>> \in Contents
        BY DEF Contents
      <4>2. ASSUME NEW k, 1..k \subseteq Seqs, NEW c \in Sealed(k) PROVE c \in Contents
        <5>1. PICK m \in 1..k : c = <<m, TRUE>>
          BY <4>2, SealedMember
        <5> QED
          BY <4>1, <4>2, <5>1
      <4> QED
        BY <3>1, <4>2
    <3> QED
      BY <2>1, <1>1, <3>2 DEF LegacyRow, Row
  <2>2. CASE n > Legacy
    <3>1. NoRow \in Row
      BY DEF NoRow, Row
    <3> QED
      BY <2>2, <1>3, <3>1
  <2> QED
    BY <2>1, <2>2 DEF Seqs
<1>7. TypeOK
  <2>1. row \in [Seqs -> Row]
    BY <1>1, <1>6
  <2>2. actor \in [Actors -> Actor]
    BY DEF Init, Idle, Actor
  <2>3. \A n \in Seqs : (n >= next) = (row[n].state = "none")
    BY <1>2, <1>13, <1>15 DEF Init
  <2>4. \A n \in Seqs : row[n].state # "open"
    BY <1>2, <1>13, <1>15
  <2> QED
    BY <2>1, <2>2, <2>3, <2>4 DEF TypeOK, Init
<1>8. LockInv /\ OrderInv
  <2>1. \A n \in Seqs : row[n].state # "open"
    BY <1>2, <1>13, <1>15
  <2>2. \A a \in Actors : ~HasLock(a)
    BY <1>5 DEF HasLock, Idle
  <2> QED
    BY <2>1, <2>2 DEF LockInv, OrderInv
<1>9. HeadInv /\ SealInv
  BY <1>5 DEF HeadInv, SealInv, Idle
<1>14. \A n \in Linked : n \in Seqs /\ n \in Nat /\ 1 <= n
  BY <1>4, <1>15
<1>10. CoversInv
  <2> SUFFICES ASSUME NEW n \in Linked
               PROVE  /\ Covers(row[n].prev, n)
                      /\ \A c \in row[n].hash : c[1] <= n
                      /\ \E c \in row[n].hash : c[1] = n
    BY DEF CoversInv
  <2>1. row[n].prev = Sealed(n - 1) /\ row[n].hash = Sealed(n)
    BY <1>2, <1>4
  <2>2. \A m \in Linked : m < n => <<m, TRUE>> \in row[n].prev
    <3>1. \A m \in Linked : m < n => m \in 1..(n - 1)
      BY <1>14
    <3> QED
      BY <3>1, <2>1 DEF Sealed
  <2>8. ASSUME NEW k \in Nat, NEW c \in Sealed(k) PROVE c[1] \in Int /\ c[1] <= k
    <3>1. PICK m \in 1..k : c = <<m, TRUE>>
      BY <2>8, SealedMember
    <3> QED
      BY <3>1
  <2>3. \A c \in row[n].prev : c[1] < n
    <3>1. n - 1 \in Nat
      BY <1>14
    <3>2. \A c \in Sealed(n - 1) : c[1] \in Int /\ c[1] <= n - 1
      BY <3>1, <2>8
    <3> QED
      BY <2>1, <3>2, <1>14
  <2>4. \A m \in Linked : m < n => \E c \in row[n].prev : c[1] >= m
    <3> SUFFICES ASSUME NEW m \in Linked, m < n PROVE \E c \in row[n].prev : c[1] >= m
      OBVIOUS
    <3>1. <<m, TRUE>>[1] >= m
      BY <1>14
    <3> QED
      BY <2>2, <3>1
  <2>5. <<n, TRUE>> \in row[n].hash
    <3>1. n \in 1..n
      BY <1>14
    <3> QED
      BY <3>1, <2>1 DEF Sealed
  <2>6. \A c \in row[n].hash : c[1] <= n
    BY <2>1, <1>14, <2>8
  <2>7. \E c \in row[n].hash : c[1] = n
    BY <2>5
  <2> QED
    BY <2>3, <2>4, <2>6, <2>7 DEF Covers
<1>11. LinkInv
  <2> SUFFICES ASSUME NEW n \in Linked PROVE Continues(row[n].prev, n)
    BY DEF LinkInv
  <2>1. row[n].prev = Sealed(n - 1)
    BY <1>2, <1>4
  <2>2. Older(n) = {m \in Seqs : m < n}
    BY <1>4 DEF Older, Seqs
  <2>3. ASSUME Older(n) = {} PROVE row[n].prev = {}
    <3>1. n = 1
      <4>1. SUFFICES ASSUME n # 1 PROVE FALSE
        OBVIOUS
      <4>2. 1 \in Seqs /\ 1 < n
        BY <4>1, <1>14 DEF Seqs
      <4> QED
        BY <4>2, <2>2, <2>3
    <3> QED
      BY <3>1, <2>1 DEF Sealed
  <2>4. ASSUME NEW p \in Older(n), IsHead(Older(n), p) PROVE row[n].prev = row[p].hash
    <3>1. p = n - 1
      <4>1. p \in Nat /\ p < n /\ n - 1 >= 1
        BY <1>15, <1>14, <2>2
      <4>2. n - 1 \in Older(n)
        BY <4>1, <1>14, <2>2 DEF Seqs
      <4> QED
        BY <4>1, <4>2, <1>14, <2>4 DEF IsHead
    <3>2. row[p].hash = Sealed(p)
      BY <1>2, <1>4, <2>4 DEF Older
    <3> QED
      BY <3>1, <3>2, <2>1
  <2> QED
    BY <2>3, <2>4 DEF Continues
<1>12. HashInv
  <2> SUFFICES ASSUME NEW n \in Linked PROVE row[n].hash = row[n].prev \cup {Content(n)}
    BY DEF HashInv
  <2>1. row[n].prev = Sealed(n - 1) /\ row[n].hash = Sealed(n) /\ row[n].pii = TRUE
    BY <1>2, <1>4
  <2>2. Content(n) = <<n, TRUE>>
    BY <2>1 DEF Content
  <2>3. 1..n = (1..(n - 1)) \cup {n}
    BY <1>14
  <2>4. Sealed(n) = Sealed(n - 1) \cup {<<n, TRUE>>}
    <3>1. Sealed(n) \subseteq Sealed(n - 1) \cup {<<n, TRUE>>}
      <4> SUFFICES ASSUME NEW c \in Sealed(n) PROVE c \in Sealed(n - 1) \/ c = <<n, TRUE>>
        OBVIOUS
      <4>1. PICK m \in 1..n : c = <<m, TRUE>>
        BY SealedMember
      <4> QED
        BY <4>1, <2>3 DEF Sealed
    <3>2. Sealed(n - 1) \subseteq Sealed(n) /\ <<n, TRUE>> \in Sealed(n)
      BY <2>3 DEF Sealed
    <3> QED
      BY <3>1, <3>2
  <2> QED
    BY <2>1, <2>2, <2>4
<1> QED
  BY <1>7, <1>8, <1>9, <1>10, <1>11, <1>12 DEF IInv

------------------------------------------------------------------------------
(* What several steps share.                                                *)

LEMMA SeqsNat == Seqs \subseteq Nat
  BY AuditChainAssumption DEF Seqs

\* As long as the linked rows and their hashes stay, so do their links.
LEMMA SameLinks ==
    ASSUME Linked' = Linked,
           \A n \in Linked : row'[n].prev = row[n].prev /\ row'[n].hash = row[n].hash,
           \A n \in Seqs : row[n].state = "purged" => row'[n].state = "purged"
    PROVE  /\ \A S, k : Covers(S, k) => Covers(S, k)'
           /\ \A S, k : Continues(S, k) => Continues(S, k)'
           /\ CoversInv => CoversInv'
           /\ LinkInv => LinkInv'
<1>1. \A S, k : Covers(S, k) => Covers(S, k)'
  BY DEF Covers
<1>2. \A k : Older(k)' = Older(k)
  BY DEF Older
<1>3. \A k : Gap(k) => Gap(k)'
  BY <1>2 DEF Gap
<1>4. ASSUME NEW S, NEW k, Continues(S, k) PROVE Continues(S, k)'
  <2>1. \A p \in Older(k) : row'[p].hash = row[p].hash
    BY DEF Older
  <2> QED
    BY <1>2, <1>3, <1>4, <2>1 DEF Continues, IsHead
<1>5. CoversInv => CoversInv'
  BY <1>1 DEF CoversInv
<1>6. LinkInv => LinkInv'
  BY <1>4 DEF LinkInv
<1> QED
  BY <1>1, <1>4, <1>5, <1>6

\* Some row is the newest of those below k.
LEMMA OlderHasHead ==
    ASSUME NEW k \in Nat, Older(k) # {}
    PROVE  \E p \in Older(k) : IsHead(Older(k), p)
<1> DEFINE Up(p) == {m \in Older(k) : m >= p}
           Ups == {Up(p) : p \in Older(k)}
<1>1. Older(k) \subseteq Nat
  BY SeqsNat DEF Older, Linked
<1>2. IsFiniteSet(Older(k))
  <2>1. \A p \in Older(k) : p <= k
    BY <1>1 DEF Older
  <2> QED
    BY <1>1, <2>1, FS_BoundedSetOfNaturals
<1>3. Ups \subseteq FiniteSubsetsOf(Older(k)) /\ Ups # {}
  <2>1. \A p \in Older(k) : Up(p) \subseteq Older(k) /\ IsFiniteSet(Up(p))
    BY <1>2, FS_Subset
  <2> QED
    BY <2>1 DEF FiniteSubsetsOf
<1>4. PICK U \in Ups : \A V \in Ups : <<V, U>> \notin StrictSubsetOrdering(Older(k))
  <2>1. IsWellFoundedOn(StrictSubsetOrdering(Older(k)), FiniteSubsetsOf(Older(k)))
    BY FS_StrictSubsetOrderingWellFounded
  <2> HIDE DEF Ups
  <2> QED
    BY <1>3, <2>1, WFMin
<1>5. PICK p \in Older(k) : U = Up(p)
  OBVIOUS
<1>6. ASSUME NEW q \in Older(k), ~(q <= p) PROVE FALSE
  <2>1. Up(q) \subseteq Up(p) /\ p \in Up(p) /\ p \notin Up(q)
    BY <1>1, <1>6
  <2>2. <<Up(q), Up(p)>> \in StrictSubsetOrdering(Older(k))
    BY <2>1 DEF StrictSubsetOrdering
  <2> QED
    BY <1>4, <1>5, <2>2
<1> QED
  BY <1>6 DEF IsHead

\* While an actor holds the lock, every open row is its own.
LEMMA OpenIsMine ==
    ASSUME IInv, NEW a \in Actors, HasLock(a)
    PROVE  /\ \A n \in Seqs : row[n].state = "open" => row[n].by = a
           /\ \A b \in Actors : HasLock(b) => b = a
           /\ actor[a].pc \in {"locked", "sealing"} => \A n \in Seqs : row[n].state # "open"
  BY DEF IInv, TypeOK, LockInv

\* While the lock is free nothing is open.
LEMMA FreeIsClosed ==
    ASSUME IInv, NEW a \in Actors, LockFree(a), ~HasLock(a)
    PROVE  /\ \A n \in Seqs : row[n].state # "open"
           /\ \A b \in Actors : ~HasLock(b)
<1>1. \A b \in Actors : b # None
  BY AuditChainAssumption
<1> QED
  BY <1>1 DEF IInv, TypeOK, LockInv, LockFree, HasLock

------------------------------------------------------------------------------
(* One lemma per step.                                                      *)

\* Steps that touch no row, and neither take nor leave the lock.
LEMMA QuietKeeps ==
    ASSUME IInv, NEW a \in Actors, UNCHANGED <<row, next, lock, scrubbed>>,
           ~HasLock(a),
           \E r \in Actor : actor' = [actor EXCEPT ![a] = r]
                          /\ r.pc \notin {"locked", "read", "inserted", "sealing"}
    PROVE  IInv'
<1>1. \A b \in Actors : b # a => actor'[b] = actor[b]
  BY DEF IInv, TypeOK
<1>2. actor'[a] \in Actor /\ ~HasLock(a)'
  BY DEF IInv, TypeOK, HasLock
<1>3. Linked' = Linked /\ Present' = Present
  BY DEF Linked, Present
<1>4. TypeOK'
  BY DEF IInv, TypeOK
<1>5. LockInv'
  BY <1>1, <1>2 DEF IInv, LockInv, HasLock
<1>6. OrderInv' /\ HashInv'
  BY <1>3 DEF IInv, OrderInv, HashInv, Content
<1>7. CoversInv' /\ LinkInv' /\ (\A S, k : Covers(S, k) => Covers(S, k)')
      /\ (\A S, k : Continues(S, k) => Continues(S, k)')
  BY <1>3, SameLinks DEF IInv
<1>8. HeadInv'
  BY <1>1, <1>2, <1>7 DEF IInv, HeadInv, HasLock
<1>9. SealInv'
  BY <1>1, <1>2, <1>3 DEF IInv, SealInv, HasLock, Content
<1> QED
  BY <1>4, <1>5, <1>6, <1>7, <1>8, <1>9 DEF IInv

LEMMA AcquireLockKeeps == ASSUME IInv, NEW a \in Actors, AcquireLock(a) PROVE IInv'
<1>1. ~HasLock(a) /\ LockFree(a)
  BY DEF AcquireLock, HasLock
<1>2. (\A n \in Seqs : row[n].state # "open") /\ (\A b \in Actors : ~HasLock(b))
  BY <1>1, FreeIsClosed
<1>3. \A b \in Actors : b # a => actor'[b] = actor[b]
  BY DEF IInv, TypeOK, AcquireLock
<1>4. actor'[a].pc = "locked" /\ lock' = a /\ UNCHANGED <<row, next, scrubbed>>
  BY DEF IInv, TypeOK, AcquireLock
<1>5. Linked' = Linked /\ Present' = Present
  BY <1>4 DEF Linked, Present
<1>6. TypeOK'
  <2>1. actor' \in [Actors -> Actor]
    BY DEF IInv, TypeOK, AcquireLock, Actor
  <2> QED
    BY <1>2, <1>4, <2>1 DEF IInv, TypeOK
<1>7. LockInv'
  BY <1>2, <1>3, <1>4 DEF LockInv, HasLock
<1>8. OrderInv' /\ HashInv'
  BY <1>4, <1>5 DEF IInv, OrderInv, HashInv, Content
<1>9. CoversInv' /\ LinkInv'
  BY <1>4, <1>5, SameLinks DEF IInv
<1>10. HeadInv' /\ SealInv'
  BY <1>2, <1>3, <1>4 DEF HeadInv, SealInv, HasLock
<1> QED
  BY <1>6, <1>7, <1>8, <1>9, <1>10 DEF IInv

LEMMA ReadHeadKeeps == ASSUME IInv, NEW a \in Actors, ReadHead(a) PROVE IInv'
<1>1. HasLock(a)
  BY DEF ReadHead, HasLock
<1>2. (\A n \in Seqs : row[n].state = "open" => row[n].by = a)
      /\ (\A b \in Actors : HasLock(b) => b = a)
      /\ (actor[a].pc = "locked" => \A n \in Seqs : row[n].state # "open")
  BY <1>1, OpenIsMine
<1>3. Visible(a) = Linked
  BY <1>2 DEF ReadHead, Visible, Linked, Present, Open
<1>4. /\ UNCHANGED <<row, next, lock, scrubbed>>
      /\ actor'[a].pc = "read"
      /\ \/ Linked = {} /\ actor'[a].head = {}
         \/ \E n \in Linked : IsHead(Linked, n) /\ actor'[a].head = row[n].hash
      /\ \A b \in Actors : b # a => actor'[b] = actor[b]
  <2>1. ASSUME NEW S, actor' = [actor EXCEPT ![a].pc = "read", ![a].head = S]
        PROVE  actor'[a].pc = "read" /\ actor'[a].head = S
               /\ \A b \in Actors : b # a => actor'[b] = actor[b]
    BY <2>1 DEF IInv, TypeOK, Actor
  <2>2. UNCHANGED <<row, next, lock, scrubbed>>
    BY DEF ReadHead
  <2>3. CASE Linked = {} /\ actor' = [actor EXCEPT ![a].pc = "read", ![a].head = {}]
    BY <2>1, <2>2, <2>3
  <2>4. ASSUME NEW n \in Linked, IsHead(Linked, n),
               actor' = [actor EXCEPT ![a].pc = "read", ![a].head = row[n].hash]
        PROVE  actor'[a].pc = "read" /\ actor'[a].head = row[n].hash
               /\ \A b \in Actors : b # a => actor'[b] = actor[b]
    BY <2>1, <2>4
  <2> QED
    BY <1>3, <2>2, <2>3, <2>4 DEF ReadHead
<1>5. Linked' = Linked /\ Present' = Present
  BY <1>4 DEF Linked, Present
<1>6. \A m \in Linked : m \in Nat /\ m < next
  BY SeqsNat DEF IInv, TypeOK, Linked
<1>7. next \in Nat
  BY AuditChainAssumption DEF IInv, TypeOK
<1>8. Older(next) = Linked
  BY <1>6 DEF Older
<1>9. Covers(actor'[a].head, next) /\ Continues(actor'[a].head, next)
  <2>1. CASE Linked = {} /\ actor'[a].head = {}
    BY <2>1, <1>8 DEF Covers, Continues
  <2>2. ASSUME NEW n \in Linked, IsHead(Linked, n), actor'[a].head = row[n].hash
        PROVE  Covers(actor'[a].head, next) /\ Continues(actor'[a].head, next)
    <3>1. (\A c \in row[n].hash : c[1] <= n) /\ (\E c \in row[n].hash : c[1] = n)
      BY <2>2 DEF IInv, CoversInv
    <3>2. \A c \in row[n].hash : c[1] \in Nat
      <4>1. row[n].hash \subseteq Contents
        BY DEF IInv, TypeOK, Row, Linked
      <4> QED
        BY <4>1, SeqsNat DEF Contents
    <3>3. \A c \in row[n].hash : c[1] < next
      BY <3>1, <3>2, <1>6, <1>7
    <3>4. \A m \in Linked : \E c \in row[n].hash : c[1] >= m
      BY <3>1, <2>2 DEF IsHead
    <3>5. \A p \in Linked : IsHead(Linked, p) => p = n
      BY <1>6, <2>2 DEF IsHead
    <3> QED
      BY <2>2, <3>3, <3>4, <3>5, <1>8 DEF Covers, Continues
  <2> QED
    BY <1>4, <2>1, <2>2
<1>10. TypeOK'
  <2>1. actor' \in [Actors -> Actor]
    <3>1. \A n \in Linked : row[n].hash \subseteq Contents
      BY DEF IInv, TypeOK, Row, Linked
    <3> QED
      BY <3>1, <1>3 DEF IInv, TypeOK, ReadHead, Actor
  <2> QED
    BY <1>4, <2>1 DEF IInv, TypeOK
<1>11. LockInv'
  BY <1>1, <1>2, <1>4 DEF IInv, LockInv, HasLock
<1>12. OrderInv' /\ HashInv'
  BY <1>4, <1>5 DEF IInv, OrderInv, HashInv, Content
<1>13. CoversInv' /\ LinkInv' /\ (\A S, k : Covers(S, k) => Covers(S, k)')
      /\ (\A S, k : Continues(S, k) => Continues(S, k)')
  BY <1>4, <1>5, SameLinks DEF IInv
<1>14. HeadInv'
  <2>1. \A b \in Actors : actor'[b].pc = "read" => b = a
    BY <1>2, <1>4 DEF HasLock
  <2>2. PICK S : S = actor'[a].head
    OBVIOUS
  <2>3. Covers(S, next)' /\ Continues(S, next)'
    BY <1>9, <1>13, <1>4, <2>2
  <2> QED
    BY <2>1, <2>2, <2>3 DEF HeadInv
<1>15. SealInv'
  BY <1>2, <1>4 DEF SealInv, HasLock
<1> QED
  BY <1>10, <1>11, <1>12, <1>13, <1>14, <1>15 DEF IInv

LEMMA InsertKeeps ==
    ASSUME IInv, NEW a \in Actors, NEW op \in BOOLEAN, Insert(a, op) PROVE IInv'
<1> DEFINE c0 == <<next, FALSE>>
           head == actor[a].head
<1>1. HasLock(a) /\ actor[a].pc = "read" /\ next \in Seqs /\ next \in Nat
  BY SeqsNat DEF Insert, HasLock
<1>2. (\A n \in Seqs : row[n].state = "open" => row[n].by = a)
      /\ (\A b \in Actors : HasLock(b) => b = a)
  BY <1>1, OpenIsMine
<1>3. /\ lock' = lock /\ scrubbed' = scrubbed /\ next' = next + 1
      /\ \A n \in Seqs : n # next => row'[n] = row[n]
      /\ row'[next].state = "open" /\ row'[next].by = a /\ row'[next].pii = FALSE
      /\ row'[next].prev = head /\ row'[next].hash = head \cup {c0}
      /\ actor'[a].pc = "inserted"
      /\ \A b \in Actors : b # a => actor'[b] = actor[b]
  BY <1>1 DEF IInv, TypeOK, Insert, Hash
<1>4. row[next].state = "none"
  BY <1>1 DEF IInv, TypeOK
<1>5. Linked' = Linked \cup {next} /\ Present' = Present /\ next \notin Linked
  BY <1>1, <1>3, <1>4 DEF Linked, Present
<1>6. \A n \in Linked : n \in Nat /\ n < next /\ n \in Seqs
  BY <1>1, SeqsNat DEF IInv, TypeOK, Linked
<1>7. head \subseteq Contents /\ c0 \in Contents
  BY <1>1 DEF IInv, TypeOK, Actor, Contents
<1>8. TypeOK'
  <2>1. row' \in [Seqs -> Row]
    BY <1>1, <1>7 DEF IInv, TypeOK, Insert, Hash, Row
  <2>2. actor' \in [Actors -> Actor]
    BY DEF IInv, TypeOK, Insert, Actor
  <2>3. next' \in 1..(MaxSeq + 1)
    BY <1>1, <1>3, AuditChainAssumption DEF Seqs
  <2>4. lock = a /\ a # None
    BY <1>1, AuditChainAssumption DEF IInv, LockInv
  <2>5. ASSUME NEW n \in Seqs
        PROVE  /\ row'[n].state = "open" => lock' = row'[n].by /\ lock' # None
               /\ (n >= next') = (row'[n].state = "none")
    <3>1. CASE n = next
      BY <3>1, <1>1, <1>3, <2>4
    <3>2. CASE n # next
      <4>1. n \in Nat /\ row'[n] = row[n] /\ (n >= next + 1) = (n >= next)
        BY <3>2, <1>1, <1>3, SeqsNat
      <4> QED
        BY <4>1, <1>3 DEF IInv, TypeOK
    <3> QED
      BY <3>1, <3>2
  <2> QED
    BY <2>1, <2>2, <2>3, <2>5, <1>3 DEF IInv, TypeOK
<1>9. LockInv'
  BY <1>1, <1>2, <1>3 DEF IInv, LockInv, HasLock
<1>10. OrderInv'
  BY <1>1, <1>3, <1>6 DEF IInv, OrderInv, Linked
<1>11. Covers(head, next) /\ Continues(head, next)
  BY <1>1 DEF IInv, HeadInv
<1>12. \A n \in Linked : Older(n)' = Older(n)
  BY <1>5, <1>6, <1>1 DEF Older
<1>13. Older(next) = Linked /\ \A k : k = next => Older(k)' = Linked
  BY <1>5, <1>6, <1>1 DEF Older
<1>14. CoversInv'
  <2>1. ASSUME NEW n \in Linked
        PROVE  /\ \A c \in row'[n].prev : c[1] < n
               /\ \A m \in Linked' : m < n => \E c \in row'[n].prev : c[1] >= m
               /\ \A c \in row'[n].hash : c[1] <= n
               /\ \E c \in row'[n].hash : c[1] = n
    BY <1>1, <1>3, <1>5, <1>6 DEF IInv, CoversInv, Covers
  <2>2. /\ \A c \in row'[next].prev : c[1] < next
        /\ \A m \in Linked' : m < next => \E c \in row'[next].prev : c[1] >= m
    BY <1>1, <1>3, <1>5, <1>11 DEF Covers
  <2>3. \A c \in row'[next].hash : c[1] <= next
    <3>1. \A c \in head : c[1] \in Nat
      BY <1>7, SeqsNat DEF Contents
    <3>2. \A c \in head : c[1] <= next
      BY <1>1, <1>11, <3>1 DEF Covers
    <3>3. c0[1] <= next
      BY <1>1
    <3> HIDE DEF c0
    <3> QED
      BY <1>3, <3>2, <3>3
  <2>4. \E c \in row'[next].hash : c[1] = next
    <3>1. c0 \in row'[next].hash /\ c0[1] = next
      BY <1>3
    <3> HIDE DEF c0
    <3> QED
      BY <3>1
  <2> QED
    BY <2>1, <2>2, <2>3, <2>4, <1>5 DEF CoversInv, Covers
<1>15. LinkInv'
  <2> SUFFICES ASSUME NEW n \in Linked' PROVE Continues(row[n].prev, n)'
    BY DEF LinkInv
  <2>1. CASE n \in Linked
    <3>1. Continues(row[n].prev, n) /\ row'[n].prev = row[n].prev /\ Older(n)' = Older(n)
      BY <2>1, <1>3, <1>5, <1>6, <1>12 DEF IInv, LinkInv
    <3>2. Gap(n) => Gap(n)'
      BY <3>1, <1>3, <1>4 DEF Gap
    <3>3. \A p \in Older(n) : row'[p].hash = row[p].hash
      BY <1>3, <1>5, <1>6 DEF Older
    <3> QED
      BY <3>1, <3>2, <3>3 DEF Continues, IsHead
  <2>2. CASE n = next
    <3>1. Older(n)' = Older(next)
      BY <2>2, <1>13
    <3>2. Gap(next) => Gap(n)'
      BY <3>1, <2>2, <1>3, <1>4 DEF Gap
    <3>3. \A p \in Older(next) : row'[p].hash = row[p].hash
      BY <1>3, <1>5, <1>6 DEF Older
    <3> QED
      BY <2>2, <3>1, <3>2, <3>3, <1>3, <1>11 DEF Continues, IsHead
  <2> QED
    BY <2>1, <2>2, <1>5
<1>16. HeadInv' /\ SealInv'
  BY <1>1, <1>2, <1>3 DEF HeadInv, SealInv, HasLock
<1>17. HashInv'
  BY <1>1, <1>3, <1>5, <1>6 DEF IInv, HashInv, Content
<1> QED
  BY <1>8, <1>9, <1>10, <1>14, <1>15, <1>16, <1>17 DEF IInv

\* Both ways a transaction ends.
LEMMA EndKeeps ==
    ASSUME IInv, NEW a \in Actors, NEW state \in {"present", "rolledBack"}, HasLock(a),
           End(a, state), Release(a), Rest(a), UNCHANGED <<next, scrubbed>>
    PROVE  IInv'
<1>1. (\A n \in Seqs : row[n].state = "open" => row[n].by = a)
      /\ (\A b \in Actors : HasLock(b) => b = a)
      /\ lock = a
  BY OpenIsMine DEF IInv, LockInv
<1>2. /\ lock' = None /\ actor'[a] = Idle
      /\ \A b \in Actors : b # a => actor'[b] = actor[b]
  BY <1>1 DEF Release, Rest, IInv, TypeOK
<1>3. /\ \A n \in Seqs : row[n].state # "open" => row'[n] = row[n]
      /\ \A n \in Seqs : row[n].state = "open" => row'[n] = [row[n] EXCEPT !.state = state, !.by = None]
  BY <1>1 DEF End, Open
<1>4. \A n \in Seqs : row[n].state = "open" =>
         /\ row'[n].state = state /\ row'[n].prev = row[n].prev
         /\ row'[n].hash = row[n].hash /\ row'[n].pii = row[n].pii
  BY <1>3 DEF IInv, TypeOK, Row
<1>5. \A n \in Seqs : row'[n].state # "open"
  BY <1>3, <1>4
<1>6. \A b \in Actors : ~HasLock(b)'
  BY <1>1, <1>2 DEF HasLock, Idle
<1>7. TypeOK'
  <2>1. row' \in [Seqs -> Row]
    BY DEF IInv, TypeOK, End, Row
  <2>2. actor' \in [Actors -> Actor]
    BY DEF IInv, TypeOK, Rest, Idle, Actor
  <2>3. \A n \in Seqs : (n >= next') = (row'[n].state = "none")
    BY <1>3, <1>4 DEF IInv, TypeOK
  <2> QED
    BY <1>2, <1>5, <2>1, <2>2, <2>3 DEF IInv, TypeOK
<1>8. LockInv' /\ OrderInv' /\ HeadInv' /\ SealInv'
  BY <1>5, <1>6 DEF LockInv, OrderInv, HeadInv, SealInv, HasLock
<1>9. Linked' \subseteq Linked /\ \A n \in Linked' : \A p \in Linked : p < n => p \in Linked'
  <2>1. ASSUME state = "present" PROVE Linked' = Linked
    BY <1>3, <1>4, <2>1 DEF Linked
  <2>2. ASSUME state = "rolledBack"
        PROVE  Linked' = Present
    BY <1>3, <1>4, <2>2 DEF Linked, Present
  <2>3. \A n \in Present : \A p \in Linked : p < n => p \in Present
    <3>1. \A n \in Present, p \in Linked : n \in Nat /\ p \in Nat
      BY SeqsNat DEF Present, Linked
    <3> QED
      BY <3>1 DEF IInv, OrderInv, Linked, Present
  <2> QED
    BY <2>1, <2>2, <2>3 DEF Linked, Present
<1>10. \A n \in Linked : /\ row'[n].prev = row[n].prev /\ row'[n].hash = row[n].hash
                         /\ row'[n].pii = row[n].pii
  BY <1>3, <1>4 DEF Linked
<1>11. \A n \in Linked' : Older(n)' = Older(n)
  BY <1>9 DEF Older
<1>12. CoversInv'
  BY <1>9, <1>10 DEF IInv, CoversInv, Covers
<1>13. LinkInv'
  <2> SUFFICES ASSUME NEW n \in Linked' PROVE Continues(row[n].prev, n)'
    BY DEF LinkInv
  <2>1. Continues(row[n].prev, n) /\ row'[n].prev = row[n].prev /\ Older(n)' = Older(n)
    BY <1>9, <1>10, <1>11 DEF IInv, LinkInv
  <2>2. Gap(n) => Gap(n)'
    BY <2>1, <1>3 DEF Gap
  <2>3. \A p \in Older(n) : row'[p].hash = row[p].hash
    BY <1>10 DEF Older
  <2> QED
    BY <2>1, <2>2, <2>3 DEF Continues, IsHead
<1>14. HashInv'
  BY <1>9, <1>10 DEF IInv, HashInv, Content
<1> QED
  BY <1>7, <1>8, <1>12, <1>13, <1>14 DEF IInv

LEMMA CommitKeeps == ASSUME IInv, NEW a \in Actors, Commit(a) PROVE IInv'
  BY EndKeeps DEF Commit, HasLock

LEMMA RollbackKeeps == ASSUME IInv, NEW a \in Actors, Rollback(a) PROVE IInv'
  BY EndKeeps DEF Rollback, HasLock

LEMMA ScrubQuietKeeps ==
    ASSUME IInv, NEW a \in Actors,
           FindPii(a) \/ ScrubFails(a) \/ ScrubEnds(a) \/ Backfill(a)
    PROVE  IInv'
<1> DEFINE Outside == {"locked", "read", "inserted", "sealing"}
<1>1. ~HasLock(a) /\ UNCHANGED <<row, next, lock, scrubbed>> /\ actor[a] \in Actor
  BY DEF FindPii, ScrubFails, ScrubEnds, Backfill, HasLock, IInv, TypeOK
<1>2. Idle \in Actor /\ Idle.pc \notin Outside
  BY DEF Idle, Actor
<1>3. CASE FindPii(a)
  <2> DEFINE r == [actor[a] EXCEPT !.pc = "scrub", !.todo = {n \in Present : row[n].pii}]
  <2>1. r \in Actor /\ r.pc \notin Outside
    BY <1>1 DEF Actor, Present
  <2>2. actor' = [actor EXCEPT ![a] = r]
    BY <1>3 DEF FindPii
  <2> QED
    BY <1>1, <2>1, <2>2, QuietKeeps
<1>4. CASE ScrubFails(a)
  BY <1>1, <1>2, <1>4, QuietKeeps DEF ScrubFails, Rest
<1>5. CASE ScrubEnds(a)
  <2> DEFINE r == [Idle EXCEPT !.pc = "seal", !.then = "record"]
  <2>1. r \in Actor /\ r.pc \notin Outside
    BY DEF Actor, Idle
  <2>2. actor' = [actor EXCEPT ![a] = r] \/ actor' = [actor EXCEPT ![a] = Idle]
    BY <1>5 DEF ScrubEnds
  <2> QED
    BY <1>1, <1>2, <2>1, <2>2, QuietKeeps
<1>6. CASE Backfill(a)
  <2> DEFINE r == [actor[a] EXCEPT !.pc = "seal"]
  <2>1. r \in Actor /\ r.pc \notin Outside
    BY <1>1 DEF Actor
  <2>2. actor' = [actor EXCEPT ![a] = r]
    BY <1>6 DEF Backfill
  <2> QED
    BY <1>1, <2>1, <2>2, QuietKeeps
<1> QED
  BY <1>3, <1>4, <1>5, <1>6

LEMMA ScrubRowKeeps ==
    ASSUME IInv, NEW a \in Actors, NEW n \in Seqs, ScrubRow(a, n) PROVE IInv'
<1>1. /\ next' = next /\ lock' = lock /\ row[n].state = "present"
      /\ \A m \in Seqs : m # n => row'[m] = row[m]
      /\ row'[n] = [row[n] EXCEPT !.pii = FALSE]
      /\ scrubbed' = IF row[n].pii THEN scrubbed \cup {n} ELSE scrubbed
      /\ actor'[a].pc = "scrub" /\ actor[a].pc = "scrub"
      /\ \A b \in Actors : b # a => actor'[b] = actor[b]
  BY DEF IInv, TypeOK, ScrubRow
<1>2. /\ row'[n].state = "present" /\ row'[n].prev = row[n].prev /\ row'[n].hash = row[n].hash
      /\ row'[n].pii = FALSE /\ row'[n].by = row[n].by
  BY <1>1 DEF IInv, TypeOK, Row
<1>3. Linked' = Linked /\ Present' = Present
  BY <1>1, <1>2 DEF Linked, Present
<1>4. TypeOK'
  <2>1. row' \in [Seqs -> Row]
    BY DEF IInv, TypeOK, ScrubRow, Row
  <2>2. actor' \in [Actors -> Actor]
    <3>1. actor[a] \in Actor
      BY DEF IInv, TypeOK
    <3>2. [actor[a] EXCEPT !.todo = @ \ {n}, !.any = TRUE] \in Actor
      BY <3>1 DEF Actor
    <3>3. actor' = [actor EXCEPT ![a] = [actor[a] EXCEPT !.todo = @ \ {n}, !.any = TRUE]]
      BY DEF ScrubRow
    <3> QED
      BY <3>2, <3>3 DEF IInv, TypeOK
  <2>3. \A m \in Seqs : row'[m].state = row[m].state /\ row'[m].by = row[m].by
    BY <1>1, <1>2
  <2> QED
    BY <1>1, <2>1, <2>2, <2>3 DEF IInv, TypeOK
<1>5. LockInv' /\ OrderInv'
  <2>1. \A m \in Seqs : row'[m].state = row[m].state /\ row'[m].by = row[m].by
    BY <1>1, <1>2
  <2>2. \A b \in Actors : actor'[b].pc = actor[b].pc
    BY <1>1
  <2> QED
    BY <1>1, <2>1, <2>2 DEF IInv, LockInv, OrderInv, HasLock
<1>6. CoversInv' /\ LinkInv' /\ (\A S, k : Covers(S, k) => Covers(S, k)')
      /\ (\A S, k : Continues(S, k) => Continues(S, k)')
  <2>1. \A m \in Linked : row'[m].prev = row[m].prev /\ row'[m].hash = row[m].hash
    BY <1>1, <1>2 DEF Linked
  <2>2. \A m \in Seqs : row[m].state = "purged" => row'[m].state = "purged"
    BY <1>1, <1>2
  <2> QED
    BY <1>3, <2>1, <2>2, SameLinks DEF IInv
<1>7. HeadInv'
  BY <1>1, <1>6 DEF IInv, HeadInv
<1>8. SealInv'
  <2> SUFFICES ASSUME NEW b \in Actors, actor'[b].pc = "sealing"
               PROVE  /\ \A m \in Present' : \E c \in actor'[b].read : c[1] = m
                      /\ \A c, d \in actor'[b].read : c[1] = d[1] => c = d
                      /\ \A c \in actor'[b].read : row'[c[1]].state = "present" =>
                            c = Content(c[1])' \/ (c[1] \in scrubbed' /\ ~row'[c[1]].pii)
    BY DEF SealInv, Content
  <2>1. actor[b].pc = "sealing" /\ actor'[b] = actor[b]
    BY <1>1
  <2>2. \A c \in actor[b].read : c[1] \in Seqs
    BY DEF IInv, TypeOK, Actor, Contents
  <2>3. ASSUME NEW c \in actor[b].read, row'[c[1]].state = "present"
        PROVE  c = Content(c[1])' \/ (c[1] \in scrubbed' /\ ~row'[c[1]].pii)
    <3>1. row[c[1]].state = "present"
      BY <1>1, <2>2, <2>3
    <3>2. c = Content(c[1]) \/ (c[1] \in scrubbed /\ ~row[c[1]].pii)
      BY <2>1, <3>1 DEF IInv, SealInv
    <3>3. CASE c[1] # n
      BY <1>1, <2>2, <3>2, <3>3 DEF Content
    <3>4. CASE c[1] = n /\ row[n].pii
      BY <1>1, <1>2, <3>4
    <3>5. CASE c[1] = n /\ ~row[n].pii
      <4>1. row[n].pii = FALSE
        BY <3>5 DEF IInv, TypeOK, Row
      <4> QED
        BY <1>1, <1>2, <3>2, <3>5, <4>1 DEF Content
    <3> QED
      BY <3>3, <3>4, <3>5
  <2> QED
    BY <1>3, <2>1, <2>3 DEF IInv, SealInv
<1>9. HashInv'
  <2>1. ASSUME NEW m \in Linked, m # n
        PROVE  row'[m].hash = row'[m].prev \cup {Content(m)'} \/ (m \in scrubbed' /\ ~row'[m].pii)
    BY <1>1, <2>1 DEF IInv, HashInv, Content, Linked
  <2>2. row'[n].hash = row'[n].prev \cup {Content(n)'} \/ (n \in scrubbed' /\ ~row'[n].pii)
    <3>1. CASE row[n].pii
      BY <1>1, <1>2, <3>1
    <3>2. CASE ~row[n].pii
      <4>1. row[n].pii = FALSE /\ n \in Linked
        BY <1>1, <3>2 DEF IInv, TypeOK, Row, Linked
      <4> QED
        BY <1>1, <1>2, <4>1 DEF IInv, HashInv, Content
    <3> QED
      BY <3>1, <3>2
  <2> QED
    BY <1>3, <2>1, <2>2 DEF HashInv
<1> QED
  BY <1>4, <1>5, <1>6, <1>7, <1>8, <1>9 DEF IInv

LEMMA SealReadKeeps == ASSUME IInv, NEW a \in Actors, SealRead(a) PROVE IInv'
<1>1. ~HasLock(a) /\ LockFree(a)
  BY DEF SealRead, HasLock
<1>2. (\A n \in Seqs : row[n].state # "open") /\ (\A b \in Actors : ~HasLock(b))
  BY <1>1, FreeIsClosed
<1>3. /\ \A b \in Actors : b # a => actor'[b] = actor[b]
      /\ actor'[a].pc = "sealing" /\ actor'[a].read = {Content(n) : n \in Present}
      /\ lock' = a /\ UNCHANGED <<row, next, scrubbed>>
  BY DEF IInv, TypeOK, SealRead
<1>4. Linked' = Linked /\ Present' = Present
  BY <1>3 DEF Linked, Present
<1>5. TypeOK'
  <2>1. {Content(n) : n \in Present} \subseteq Contents
    BY DEF IInv, TypeOK, Row, Content, Contents, Present
  <2>2. actor' \in [Actors -> Actor]
    <3>1. actor[a] \in Actor
      BY DEF IInv, TypeOK
    <3>2. PICK R \in SUBSET Contents : R = {Content(n) : n \in Present}
      BY <2>1
    <3>3. [actor[a] EXCEPT !.pc = "sealing", !.read = R] \in Actor
      BY <3>1 DEF Actor
    <3>4. actor' = [actor EXCEPT ![a] = [actor[a] EXCEPT !.pc = "sealing", !.read = R]]
      BY <3>2 DEF SealRead
    <3> QED
      BY <3>3, <3>4 DEF IInv, TypeOK
  <2> QED
    BY <1>2, <1>3, <2>2 DEF IInv, TypeOK
<1>6. LockInv' /\ OrderInv' /\ HeadInv'
  BY <1>2, <1>3 DEF LockInv, OrderInv, HeadInv, HasLock
<1>7. CoversInv' /\ LinkInv'
  BY <1>3, <1>4, SameLinks DEF IInv
<1>8. HashInv'
  BY <1>3, <1>4 DEF IInv, HashInv, Content
<1>9. \A b \in Actors : actor'[b].pc = "sealing" => b = a
  BY <1>2, <1>3 DEF HasLock
<1>10. \A c \in actor'[a].read : \E n \in Present : c = Content(n) /\ c[1] = n
  BY <1>3 DEF Content
<1>11. \A n \in Present : \E c \in actor'[a].read : c[1] = n
  <2> TAKE n \in Present
  <2>1. Content(n) \in actor'[a].read /\ Content(n)[1] = n
    BY <1>3 DEF Content
  <2> QED
    BY <2>1
<1>12. SealInv'
  BY <1>3, <1>4, <1>9, <1>10, <1>11 DEF SealInv, Content
<1> QED
  BY <1>5, <1>6, <1>7, <1>8, <1>12 DEF IInv

LEMMA SealCommitKeeps == ASSUME IInv, NEW a \in Actors, SealCommit(a) PROVE IInv'
<1> DEFINE read == actor[a].read
<1>1. HasLock(a) /\ actor[a].pc = "sealing"
  BY DEF SealCommit, HasLock
<1>2. /\ \A n \in Seqs : row[n].state # "open"
      /\ \A b \in Actors : HasLock(b) => b = a
      /\ lock = a
  BY <1>1, OpenIsMine DEF IInv, LockInv
<1>3. read \subseteq Contents /\ \A c \in read : c[1] \in Nat
  BY SeqsNat DEF IInv, TypeOK, Actor, Contents
<1>4. \A n \in Seqs : (\E c \in read : c[1] = n) <=> n \in Present
  <2>1. \A n \in Present : \E c \in read : c[1] = n
    BY <1>1 DEF IInv, SealInv
  <2>2. \A c \in read : c[1] \in Present
    BY DEF SealCommit, AllThere
  <2> HIDE DEF read
  <2> QED
    BY <2>1, <2>2
<1>5. /\ \A n \in Seqs \ Present : row'[n] = row[n]
      /\ \A n \in Present : row'[n] = [row[n] EXCEPT !.prev = Carried(read, n),
                                                  !.hash = {c \in read : c[1] <= n}]
  BY <1>4 DEF SealCommit, Present
<1>6. \A n \in Present :
         /\ row'[n].state = "present" /\ row'[n].pii = row[n].pii
         /\ row'[n].prev = {c \in read : c[1] < n}
         /\ row'[n].hash = {c \in read : c[1] <= n}
  BY <1>5 DEF IInv, TypeOK, Row, Present, Carried
<1>7. /\ lock' = None /\ next' = next
      /\ actor'[a] = [Idle EXCEPT !.pc = actor[a].then]
      /\ \A b \in Actors : b # a => actor'[b] = actor[b]
  BY <1>2 DEF IInv, TypeOK, SealCommit, Release
<1>8. actor'[a] \in Actor /\ actor'[a].pc \in {"idle", "record"}
  BY <1>7 DEF IInv, TypeOK, Actor, Idle
<1>9. \A b \in Actors : ~HasLock(b)'
  BY <1>2, <1>7, <1>8 DEF HasLock
<1>10. Linked = Present /\ Linked' = Present /\ Present' = Present
  BY <1>2, <1>5, <1>6 DEF Linked, Present
<1>11. \A n \in Seqs : row'[n].state = row[n].state
  BY <1>5, <1>6 DEF Present
<1>12. TypeOK'
  <2>1. row' \in [Seqs -> Row]
    <3>1. \A n \in Seqs : Carried(read, n) \in SUBSET Contents /\ {c \in read : c[1] <= n} \in SUBSET Contents
      BY <1>3 DEF Carried
    <3>2. ASSUME NEW r \in Row, NEW S \in SUBSET Contents, NEW T \in SUBSET Contents
          PROVE  [r EXCEPT !.prev = S, !.hash = T] \in Row
      BY DEF Row
    <3>3. ASSUME NEW n \in Seqs
          PROVE  [row[n] EXCEPT !.prev = Carried(read, n), !.hash = {c \in read : c[1] <= n}] \in Row
      BY <3>1, <3>2 DEF IInv, TypeOK
    <3>4. row' = [n \in Seqs |->
                    IF \E c \in read : c[1] = n
                    THEN [row[n] EXCEPT !.prev = Carried(read, n), !.hash = {c \in read : c[1] <= n}]
                    ELSE row[n]]
      BY DEF SealCommit
    <3>5. \A n \in Seqs : row[n] \in Row
      BY DEF IInv, TypeOK
    <3> QED
      BY <3>3, <3>4, <3>5
  <2>2. actor' \in [Actors -> Actor]
    BY <1>8 DEF IInv, TypeOK, SealCommit
  <2>3. scrubbed' \subseteq Seqs
    BY DEF IInv, TypeOK, SealCommit
  <2> QED
    BY <1>2, <1>7, <1>11, <2>1, <2>2, <2>3 DEF IInv, TypeOK
<1>13. LockInv' /\ OrderInv' /\ HeadInv' /\ SealInv'
  BY <1>2, <1>9, <1>11 DEF LockInv, OrderInv, HeadInv, SealInv, HasLock
<1>14. \A n \in Present : n \in Seqs /\ n \in Nat
  BY SeqsNat DEF Present
<1>15. CoversInv'
  <2>1. ASSUME NEW n \in Present
        PROVE  /\ \A c \in row'[n].prev : c[1] < n
               /\ \A m \in Present : m < n => \E c \in row'[n].prev : c[1] >= m
               /\ \A c \in row'[n].hash : c[1] <= n
               /\ \E c \in row'[n].hash : c[1] = n
    <3>1. \A m \in Present : \E c \in read : c[1] = m
      BY <1>4, <1>14
    <3> HIDE DEF read
    <3> QED
      BY <1>6, <1>14, <3>1
  <2> QED
    BY <1>10, <2>1 DEF CoversInv, Covers
<1>16. LinkInv'
  <2> SUFFICES ASSUME NEW n \in Present PROVE Continues(row[n].prev, n)'
    BY <1>10 DEF LinkInv
  <2>1. Older(n)' = {m \in Present : m < n}
    BY <1>10 DEF Older
  <2>2. \A c \in read : c[1] \in Present
    BY <1>3, <1>4 DEF Contents
  <2>3. Older(n)' = {} => row'[n].prev = {}
    BY <2>1, <2>2, <1>6
  <2>4. ASSUME NEW p \in Older(n)', IsHead(Older(n)', p) PROVE row'[n].prev = row'[p].hash
    <3>1. p \in Present /\ p < n /\ \A m \in Present : m < n => m <= p
      BY <2>1, <2>4 DEF IsHead
    <3>2. \A c \in read : c[1] < n <=> c[1] <= p
      BY <3>1, <2>2, <1>14
    <3> QED
      BY <3>1, <3>2, <1>6
  <2> QED
    BY <2>3, <2>4 DEF Continues, IsHead
<1>17. HashInv'
  <2> SUFFICES ASSUME NEW n \in Present
               PROVE  \/ row'[n].hash = row'[n].prev \cup {Content(n)'}
                      \/ n \in scrubbed' /\ ~row'[n].pii
    BY <1>10 DEF HashInv
  <2>1. PICK c \in read : c[1] = n
    BY <1>4, <1>14
  <2>2. \A d \in read : d[1] = n => d = c
    BY <2>1, <1>1 DEF IInv, SealInv
  <2>3. row'[n].hash = row'[n].prev \cup {c}
    <3>1. \A d \in read : d[1] <= n <=> d[1] < n \/ d = c
      BY <2>1, <2>2, <1>3, <1>14
    <3> QED
      BY <3>1, <2>1, <1>6
  <2>4. c = Content(n) \/ (n \in scrubbed /\ ~row[n].pii)
    BY <2>1, <1>1 DEF IInv, SealInv, Present
  <2>5. CASE c = Content(n)
    <3>1. Content(n)' = Content(n)
      BY <1>6 DEF Content
    <3> QED
      BY <2>3, <2>5, <3>1
  <2>6. CASE c # Content(n) /\ n \in scrubbed /\ ~row[n].pii
    <3>1. Content(n) \notin read
      <4>1. Content(n)[1] = n
        BY DEF Content
      <4> QED
        BY <2>2, <2>6, <4>1
    <3> QED
      BY <3>1, <2>6, <1>6 DEF SealCommit
  <2> QED
    BY <2>4, <2>5, <2>6
<1> QED
  BY <1>12, <1>13, <1>15, <1>16, <1>17 DEF IInv

LEMMA PurgeKeeps == ASSUME IInv, NEW k \in Seqs, Purge(k) PROVE IInv'
<1> DEFINE old == {m \in Present : row[m].op /\ m <= k}
<1>1. /\ UNCHANGED <<next, lock, actor>> /\ scrubbed' = scrubbed \ old
      /\ \A n \in Seqs \ old : row'[n] = row[n]
      /\ \A n \in old : row'[n] = [row[n] EXCEPT !.state = "purged"]
  BY DEF Purge, Present
<1>2. \A n \in old : n \in Seqs /\ row[n].state = "present" /\ row'[n].state = "purged"
  BY <1>1 DEF IInv, TypeOK, Row, Present
<1>3. Linked' = Linked \ old /\ Present' = Present \ old
  BY <1>1, <1>2 DEF Linked, Present
<1>4. \A n \in Linked' : n \in Linked /\ n \in Seqs /\ n \in Nat /\ row'[n] = row[n]
  BY <1>1, <1>3, SeqsNat DEF Linked
<1>5. TypeOK'
  <2>1. row' \in [Seqs -> Row]
    BY DEF IInv, TypeOK, Purge, Row
  <2>2. \A n \in Seqs : /\ row'[n].state = "open" => row'[n] = row[n]
                        /\ (row'[n].state = "none") = (row[n].state = "none")
    BY <1>1, <1>2
  <2> QED
    BY <1>1, <2>1, <2>2 DEF IInv, TypeOK
<1>6. LockInv' /\ OrderInv'
  <2>1. \A n \in Seqs : row'[n].state \in {"open", "present"} => row'[n] = row[n]
    BY <1>1, <1>2
  <2> QED
    BY <1>1, <2>1 DEF IInv, LockInv, OrderInv, HasLock
<1>7. \A S, j : Covers(S, j) => Covers(S, j)'
  BY <1>3 DEF Covers
<1>8. CoversInv'
  BY <1>4, <1>7 DEF IInv, CoversInv
<1>9. \A j : Older(j)' = Older(j) \ old
  BY <1>3 DEF Older
<1>10. ASSUME NEW S, NEW j \in Nat, Continues(S, j)
       PROVE  Continues(S, j)'
  <2>1. CASE Gap(j)
    <3>1. PICK g \in Seqs : g < j /\ row[g].state = "purged" /\ \A p \in Older(j) : p < g
      BY <2>1 DEF Gap
    <3>2. row'[g].state = "purged"
      BY <1>1, <1>2, <3>1
    <3> QED
      BY <3>1, <3>2, <1>9 DEF Continues, Gap
  <2>2. CASE Older(j) = {} /\ ~Gap(j)
    BY <2>2, <1>9, <1>10 DEF Continues
  <2>3. ASSUME NEW p \in Older(j), IsHead(Older(j), p), ~Gap(j)
        PROVE  Continues(S, j)'
    <3>1. p \in Seqs /\ p < j /\ \A m \in Older(j) : m <= p /\ m \in Nat
      BY <2>3, SeqsNat DEF Older, Linked, IsHead
    <3>2. CASE p \in old
      <4>1. \A m \in Older(j)' : m < p
        BY <3>1, <3>2, <1>9
      <4> QED
        BY <3>1, <3>2, <4>1, <1>2 DEF Continues, Gap
    <3>3. CASE p \notin old
      <4>1. p \in Older(j)' /\ row'[p].hash = row[p].hash
        BY <2>3, <3>1, <3>3, <1>1, <1>9
      <4>2. \A m \in Older(j)' : IsHead(Older(j)', m) => m = p
        BY <3>1, <4>1, <1>9, SeqsNat DEF IsHead
      <4>3. S = row[p].hash
        BY <1>10, <2>3 DEF Continues
      <4> QED
        BY <4>1, <4>2, <4>3 DEF Continues, IsHead
    <3> QED
      BY <3>2, <3>3
  <2>4. Older(j) # {} => \E p \in Older(j) : IsHead(Older(j), p)
    BY OlderHasHead
  <2> QED
    BY <2>1, <2>2, <2>3, <2>4
<1>11. LinkInv'
  <2> SUFFICES ASSUME NEW n \in Linked' PROVE Continues(row[n].prev, n)'
    BY DEF LinkInv
  <2>1. Continues(row[n].prev, n) /\ row'[n].prev = row[n].prev /\ n \in Nat
    BY <1>4 DEF IInv, LinkInv
  <2>2. PICK S : S = row[n].prev
    OBVIOUS
  <2> QED
    BY <2>1, <2>2, <1>10
<1>12. HeadInv'
  <2>1. next \in Nat
    BY AuditChainAssumption DEF IInv, TypeOK
  <2> QED
    BY <1>1, <1>7, <1>10, <2>1 DEF IInv, HeadInv
<1>13. SealInv'
  <2> SUFFICES ASSUME NEW b \in Actors, actor[b].pc = "sealing"
               PROVE  /\ \A n \in Present' : \E c \in actor[b].read : c[1] = n
                      /\ \A c, d \in actor[b].read : c[1] = d[1] => c = d
                      /\ \A c \in actor[b].read : row'[c[1]].state = "present" =>
                            c = Content(c[1])' \/ (c[1] \in scrubbed' /\ ~row'[c[1]].pii)
    BY <1>1 DEF SealInv
  <2>1. \A c \in actor[b].read : c[1] \in Seqs
    BY DEF IInv, TypeOK, Actor, Contents
  <2>2. ASSUME NEW c \in actor[b].read, row'[c[1]].state = "present"
        PROVE  c = Content(c[1])' \/ (c[1] \in scrubbed' /\ ~row'[c[1]].pii)
    <3>1. c[1] \notin old /\ row'[c[1]] = row[c[1]]
      BY <1>1, <1>2, <2>1, <2>2
    <3> QED
      BY <3>1, <2>2, <1>1 DEF IInv, SealInv, Content
  <2> QED
    BY <1>3, <2>2 DEF IInv, SealInv
<1>14. HashInv'
  BY <1>1, <1>3, <1>4 DEF IInv, HashInv, Content
<1> QED
  BY <1>5, <1>6, <1>8, <1>11, <1>12, <1>13, <1>14 DEF IInv

LEMMA StepInvariant == IInv /\ [Next]_vars => IInv'
<1> SUFFICES ASSUME IInv, [Next]_vars PROVE IInv'
  OBVIOUS
<1>1. ASSUME NEW a \in Actors, AcquireLock(a) \/ ReadHead(a) \/ Commit(a) \/ Rollback(a)
      PROVE  IInv'
  BY <1>1, AcquireLockKeeps, ReadHeadKeeps, CommitKeeps, RollbackKeeps
<1>2. ASSUME NEW a \in Actors, NEW op \in BOOLEAN, Insert(a, op) PROVE IInv'
  BY <1>2, InsertKeeps
<1>3. ASSUME NEW a \in Actors, FindPii(a) \/ ScrubFails(a) \/ ScrubEnds(a) \/ Backfill(a)
      PROVE  IInv'
  BY <1>3, ScrubQuietKeeps
<1>4. ASSUME NEW a \in Actors, NEW n \in Seqs, ScrubRow(a, n) PROVE IInv'
  BY <1>4, ScrubRowKeeps
<1>5. ASSUME NEW a \in Actors, SealRead(a) \/ SealCommit(a) PROVE IInv'
  BY <1>5, SealReadKeeps, SealCommitKeeps
<1>6. ASSUME NEW n \in Seqs, Purge(n) PROVE IInv'
  BY <1>6, PurgeKeeps
<1>7. CASE UNCHANGED vars
  <2>1. Linked' = Linked /\ Present' = Present
    BY <1>7 DEF vars, Linked, Present
  <2>2. CoversInv' /\ LinkInv' /\ (\A S, k : Covers(S, k) => Covers(S, k)')
        /\ (\A S, k : Continues(S, k) => Continues(S, k)')
    BY <1>7, <2>1, SameLinks DEF vars, IInv
  <2> QED
    BY <1>7, <2>1, <2>2 DEF vars, IInv, TypeOK, LockInv, OrderInv, HeadInv, SealInv, HashInv,
                            HasLock, Content
<1> QED
  BY <1>1, <1>2, <1>3, <1>4, <1>5, <1>6, <1>7 DEF Next

\* The invariant holds in every reachable state.
THEOREM Invariant == Spec => []IInv
  BY InitInvariant, StepInvariant, PTL DEF Spec

\* Every variable stays in its type, and rows that are not committed belong to
\* the holder of the lock.
THEOREM TypeCorrect == Spec => []TypeOK
<1>1. IInv => TypeOK
  BY DEF IInv
<1> QED
  BY <1>1, Invariant, PTL

\* The chain never branches, however many transactions append to it, whatever
\* the scrub seals anew and the retention scan deletes.
THEOREM ChainNeverBranches == Spec => []NoBranch
<1>1. ASSUME IInv, NEW m \in Linked, NEW n \in Linked, m < n, row[m].prev = row[n].prev
      PROVE  FALSE
  <2>1. \E c \in row[n].prev : c[1] >= m
    BY <1>1 DEF IInv, CoversInv, Covers
  <2>2. \A c \in row[m].prev : c[1] < m
    BY <1>1 DEF IInv, CoversInv, Covers
  <2>3. \A c \in row[m].prev : c[1] \in Nat
    BY <1>1, SeqsNat DEF IInv, TypeOK, Row, Linked, Contents
  <2>4. PICK c \in row[m].prev : c[1] >= m
    BY <1>1, <2>1
  <2>5. m \in Nat
    BY SeqsNat DEF Linked
  <2> QED
    BY <2>2, <2>3, <2>4, <2>5
<1>2. IInv => NoBranch
  <2> SUFFICES ASSUME IInv, NEW m \in Linked, NEW n \in Linked, row[m].prev = row[n].prev
               PROVE  m = n
    BY DEF NoBranch
  <2>1. m \in Nat /\ n \in Nat
    BY SeqsNat DEF Linked
  <2> QED
    BY <1>1, <2>1
<1> QED
  BY <1>2, Invariant, PTL

\* The check of the chain finds a broken link only where the retention scan has
\* deleted a row.
THEOREM BreaksAreDeletions == Spec => []BreaksAreGaps
<1>1. ASSUME IInv, NEW n \in Present
      PROVE  LinkHolds(n) \/ \E g \in Seqs : /\ g < n /\ row[g].state = "purged"
                                           /\ \A p \in Below(n) : p < g
  <2>1. Below(n) = Older(n)
    <3>1. \A m \in Linked : m < n => m \in Present
      <4>1. \A m \in Linked : m \in Nat /\ n \in Nat
        BY SeqsNat DEF Linked, Present
      <4> QED
        BY <1>1, <4>1 DEF IInv, OrderInv, Linked, Present
    <3> QED
      BY <3>1 DEF Below, Older, Linked, Present
  <2>2. Continues(row[n].prev, n)
    BY <1>1 DEF IInv, LinkInv, Linked, Present
  <2> QED
    BY <2>1, <2>2 DEF Continues, Gap, LinkHolds
<1>2. IInv => BreaksAreGaps
  BY <1>1 DEF BreaksAreGaps
<1> QED
  BY <1>2, Invariant, PTL

\* The check of the chain finds a wrong hash only in rows that a scrub has
\* cleaned since the chain was last sealed.
THEOREM MismatchesAreCleaned == Spec => []MismatchesAreScrubs
<1>1. IInv => MismatchesAreScrubs
  BY DEF IInv, HashInv, MismatchesAreScrubs, Linked, Present
<1> QED
  BY <1>1, Invariant, PTL
==============================================================================
