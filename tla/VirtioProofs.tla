---------------------------- MODULE VirtioProofs ----------------------------
(***************************************************************************)
(* Proofs about the disk driver, for any numbers of callers, blocks and    *)
(* descriptors, and any width of the ring indexes that NUM divides: the    *)
(* chains of descriptors, the way of a request through the rings, and that *)
(* driver, handler and device together refine SyncDisk.                    *)
(*                                                                         *)
(* The invariant follows every chain: the heads between the indexes of     *)
(* the avail ring, those in the device's hands, and those between the      *)
(* indexes of the used ring are, each in one of these places, the heads of *)
(* the calls whose buffer is on the disk.  A ring never overflows because  *)
(* each entry stands for three descriptors.                                *)
(***************************************************************************)
EXTENDS VirtioDisk, FiniteSetTheorems, WellFoundedInduction, TLAPS

-----------------------------------------------------------------------------
(* Facts about numbers.                                                    *)

\* Quotient and remainder are unique.
LEMMA ModUnique ==
  ASSUME NEW W \in Nat, W > 0, NEW a \in Int, NEW q \in Int, NEW r \in 0..(W - 1),
         a = q * W + r
  PROVE  a % W = r
  OBVIOUS

\* Every number has a quotient and a remainder.
LEMMA Quot ==
  ASSUME NEW W \in Nat, W > 0, NEW a \in Int, NEW r \in Int, r = a % W
  PROVE  r \in 0..(W - 1) /\ \E q \in Int : a = q * W + r
  OBVIOUS

\* Multiplication distributes; stated so that the provers need not find it.
LEMMA MultAdd ==
  ASSUME NEW a \in Int, NEW d \in Int, NEW P \in Int
  PROVE  (a + d) * P = a * P + d * P
  OBVIOUS

LEMMA MultSub ==
  ASSUME NEW a \in Int, NEW d \in Int, NEW P \in Int
  PROVE  (a - d) * P = a * P - d * P
  OBVIOUS

\* A multiple of P makes no difference modulo P, ...
LEMMA ModAdd ==
  ASSUME NEW P \in Nat, P > 0, NEW W \in Nat, W % P = 0, NEW x \in Int
  PROVE  (x + W) % P = x % P
  <1>1. PICK a \in Int : W = a * P + 0
    BY Quot
  <1>2. PICK r \in Int : r = x % P
    OBVIOUS
  <1>3. PICK q \in Int : x = q * P + r
    BY <1>2, Quot
  <1>4. PICK c \in Int : c = q + a
    OBVIOUS
  <1>5. c * P = q * P + a * P
    BY <1>4, MultAdd
  <1>6. x + W = c * P + r
    <2>1. q * P \in Int /\ a * P \in Int
      OBVIOUS
    <2>2. QED BY <2>1, <1>1, <1>3, <1>5
  <1>7. r \in 0..(P - 1)
    BY <1>2, Quot
  <1>8. (x + W) % P = r
    <2>1. PICK y \in Int : y = x + W
      OBVIOUS
    <2>2. QED BY <1>6, <1>7, <2>1, ModUnique
  <1>9. QED BY <1>2, <1>8

\* ... and less than P always does.
LEMMA ModDiffer ==
  ASSUME NEW P \in Nat, P > 0, NEW x \in Int, NEW d \in 1..(P - 1)
  PROVE  x % P # (x + d) % P
  <1> SUFFICES ASSUME x % P = (x + d) % P PROVE FALSE
    OBVIOUS
  <1>1. PICK r \in Int : r = x % P
    OBVIOUS
  <1>2. PICK q1 \in Int : x = q1 * P + r
    BY <1>1, Quot
  <1>3. PICK q2 \in Int : x + d = q2 * P + r
    <2>1. PICK y \in Int : y = x + d
      OBVIOUS
    <2>2. r = y % P
      BY <1>1, <2>1
    <2>3. \E q2 \in Int : y = q2 * P + r
      BY <2>2, Quot
    <2>4. QED BY <2>1, <2>3
  <1>4. PICK q \in Int : q = q2 - q1
    OBVIOUS
  <1>5. q * P = q2 * P - q1 * P
    BY <1>4, MultSub
  <1>6. d = q * P
    <2>1. q1 * P \in Int /\ q2 * P \in Int
      OBVIOUS
    <2>2. QED BY <2>1, <1>2, <1>3, <1>5
  <1>7. CASE q <= 0
    BY <1>6, <1>7
  <1>8. CASE q >= 1
    BY <1>6, <1>8
  <1>9. QED BY <1>7, <1>8

\* A set of natural numbers has a least one.
LEMMA NatMin ==
  ASSUME NEW T \in SUBSET Nat, T # {}
  PROVE  \E x \in T : \A y \in T : x <= y
  <1>1. PICK R : R = OpToRel(<, Nat)
    OBVIOUS
  <1>2. IsWellFoundedOn(R, Nat)
    BY <1>1, NatLessThanWellFounded
  <1>3. PICK x \in T : \A y \in T : ~ (<<y, x>> \in R)
    BY <1>2, WFMin
  <1>4. \A y \in T : ~ (y < x)
    BY <1>1, <1>3 DEF OpToRel
  <1>5. \A y \in T : x <= y
    BY <1>4
  <1>6. QED BY <1>5

-----------------------------------------------------------------------------
(* The inductive invariant.                                                *)

Pcs == {"idle", "enter", "sleepfree", "publish", "notify", "wait", "sleepbuf", "woken"}
Holding == {"publish", "notify", "wait"}

\* The types of what TypeOK leaves open.
LocalsOK ==
  /\ desc \in [Desc -> [kind : {"none", "op", "data", "status"}, of : Desc \cup Blocks,
                        more : {0, 1}, next : Desc]]
  /\ ops \in [Desc -> [type : {0, 1}, sector : Blocks \cup {NoBlock}]]
  /\ info \in [Desc -> [b : Blocks \cup {NoBlock}, status : {0, 255}]]
  /\ pc \in [Procs -> Pcs] /\ write \in [Procs -> {0, 1}]
  /\ idx \in [Procs -> Desc \X Desc \X Desc]
  /\ hpc \in {"off", "loop"} /\ notified \in {0, 1} /\ intr \in {0, 1} /\ Running

\* vdisk_lock is held where the code holds it, and a call has a buffer of its own.
CallInv ==
  /\ \A p \in Procs : lock = p <=> pc[p] \in Holding
  /\ lock = Handler <=> hpc = "loop"
  /\ \A p \in Procs : b[p] = NoBlock <=> pc[p] = "idle"
  /\ \A p, q \in Procs : p # q /\ b[p] = b[q] => b[p] = NoBlock

Front(p) == idx[p][1]

\* A chain is as alloc3_desc()'s caller has laid it out.
Linked(p) ==
  LET i0 == idx[p][1]
      i1 == idx[p][2]
      i2 == idx[p][3]
  IN /\ i0 # i1 /\ i0 # i2 /\ i1 # i2
     /\ desc[i0] = [kind |-> "op", of |-> i0, more |-> 1, next |-> i1]
     /\ desc[i1] = [kind |-> "data", of |-> b[p], more |-> 1, next |-> i2]
     /\ desc[i2] = [kind |-> "status", of |-> i0, more |-> 0, next |-> 0]
     /\ ops[i0] = [type |-> write[p], sector |-> b[p]] /\ info[i0].b = b[p]
Apart == \A p, q \in HasChain : p # q => ChainOf(p) \cap ChainOf(q) = {}
Taken == \A i \in Desc : free[i] = 0 <=> \E p \in HasChain : i \in ChainOf(p)
ChainsInv == (\A p \in HasChain : Linked(p)) /\ Apart /\ Taken

\* The calls whose chain the device has, or has been offered.
OnDisk == {p \in HasChain : pc[p] # "publish" /\ bdisk[b[p]] = 1}
Fronts == {Front(p) : p \in OnDisk}

\* No two entries of a ring between from and to are the same.
Span(from, to) == (to - from) % IDX
Place(from, k) == (from + k) % NUM
Once(ring, from, to) ==
  \A j, k \in 0..(Span(from, to) - 1) : ring[Place(from, j)] = ring[Place(from, k)] => j = k
RingsInv == Once(avail, seen, avail_idx) /\ Once(used, used_idx, used_ridx)

\* Chains on the disk are in one of four places.
Places(U, B, F, H, all) ==
  /\ U \cup B \cup F \cup H = all
  /\ U \cap B = {} /\ U \cap F = {} /\ U \cap H = {} /\ B \cap F = {} /\ B \cap H = {} /\ F \cap H = {}
PlaceInv == Places(Unseen, busy, finished, Unhandled, Fronts)

\* The status byte is written by the device, once it has moved the block.
StatusInv ==
  \A p \in HasChain : info[Front(p)].status = 0 <=> pc[p] # "publish" /\ Front(p) \notin Unseen \cup busy
PublishInv ==
  \A p \in Procs : pc[p] = "publish" => avail[avail_idx % NUM] = Front(p) /\ bdisk[b[p]] = 1

\* Whoever has to act has been told, and nobody sleeps for what is there.
ToldInv ==
  /\ Unseen # {} => notified = 1 \/ \E p \in Procs : pc[p] = "notify"
  /\ Unhandled # {} => hpc # "off" \/ intr = 1
  /\ \A p \in Procs : pc[p] = "sleepbuf" => bdisk[b[p]] = 1
  /\ (\E p \in Procs : pc[p] = "sleepfree") => ~ThreeFree

IInv == /\ TypeOK /\ LocalsOK /\ CallInv /\ ChainsInv /\ RingsInv /\ PlaceInv /\ StatusInv
        /\ PublishInv /\ ToldInv

-----------------------------------------------------------------------------
(* The rings.                                                              *)

LEMMA Sizes ==
  /\ NUM \in Nat /\ NUM >= 3 /\ IDX \in Nat /\ IDX > 0 /\ IDX % NUM = 0 /\ IDX >= NUM
  /\ Desc = 0..(NUM - 1) /\ 0 \in Desc
<1>1. NUM \in Nat /\ NUM >= 3 /\ IDX \in Nat /\ IDX > 0 /\ IDX % NUM = 0
  BY VirtioAssumption
<1>2. PICK a \in Int : IDX = a * NUM + 0
  BY <1>1, Quot
<1>3. a >= 1
  BY <1>1, <1>2
<1>4. IDX >= NUM
  BY <1>1, <1>2, <1>3
<1> QED BY <1>1, <1>4 DEF Desc

LEMMA Small == NUM \in Nat /\ NUM >= 3 /\ IDX \in Nat /\ IDX >= NUM
  BY Sizes

LEMMA WrapSlot == ASSUME NEW x \in Int PROVE (x + IDX) % NUM = x % NUM
<1>1. NUM \in Nat /\ NUM > 0 /\ IDX \in Nat /\ IDX % NUM = 0
  BY Sizes
<1> QED BY <1>1, ModAdd

LEMMA NextIdx ==
  ASSUME NEW x \in 0..(IDX - 1)
  PROVE  /\ (x + 1) % IDX = IF x = IDX - 1 THEN 0 ELSE x + 1
         /\ (x + 1) % IDX \in 0..(IDX - 1)
  BY Sizes

LEMMA SpanIs ==
  ASSUME NEW x \in 0..(IDX - 1), NEW y \in 0..(IDX - 1)
  PROVE  Span(x, y) = (IF x <= y THEN y - x ELSE y - x + IDX) /\ Span(x, y) \in 0..(IDX - 1)
<1>1. CASE x <= y
  BY <1>1, Sizes DEF Span
<1>2. CASE ~(x <= y)
  <2>1. y - x = (-1) * IDX + (y - x + IDX) /\ y - x + IDX \in 0..(IDX - 1)
    BY <1>2, Sizes
  <2>2. (y - x) % IDX = y - x + IDX
    BY <2>1, Sizes, ModUnique
  <2> QED BY <1>2, <2>1, <2>2 DEF Span
<1> QED BY <1>1, <1>2

LEMMA SlotType == ASSUME NEW x \in Int PROVE x % NUM \in Desc
  BY Sizes

LEMMA PlaceType == ASSUME NEW x \in Int, NEW k \in Int PROVE Place(x, k) \in Desc
<1>1. x + k \in Int
  OBVIOUS
<1> QED BY <1>1, SlotType DEF Place

LEMMA PlacesDiffer ==
  ASSUME NEW x \in Int, NEW j \in Int, NEW k \in Int, j < k, k - j < NUM
  PROVE  Place(x, j) # Place(x, k)
<1>1. PICK d \in Int : d = k - j
  OBVIOUS
<1>2. PICK y \in Int : y = x + j
  OBVIOUS
<1>3. d \in 1..(NUM - 1) /\ NUM \in Nat /\ NUM > 0 /\ x + k = y + d
  BY <1>1, <1>2, Sizes
<1>4. y % NUM # (y + d) % NUM
  BY <1>3, ModDiffer
<1> QED BY <1>2, <1>3, <1>4 DEF Place

\* The place behind the last entry, ...
LEMMA RingEnd ==
  ASSUME NEW x \in 0..(IDX - 1), NEW y \in 0..(IDX - 1)
  PROVE  Place(x, Span(x, y)) = y % NUM
<1>1. CASE x <= y
  <2>1. x + Span(x, y) = y
    BY <1>1, SpanIs, Sizes
  <2> QED BY <2>1 DEF Place
<1>2. CASE ~(x <= y)
  <2>1. x + Span(x, y) = y + IDX
    BY <1>2, SpanIs, Sizes
  <2>2. (y + IDX) % NUM = y % NUM
    BY WrapSlot
  <2> QED BY <2>1, <2>2 DEF Place
<1> QED BY <1>1, <1>2

\* ... and the places seen from the next index.
LEMMA PlaceNext ==
  ASSUME NEW x \in 0..(IDX - 1), NEW k \in Int
  PROVE  Place((x + 1) % IDX, k) = Place(x, k + 1)
<1>1. CASE x # IDX - 1
  <2>1. ((x + 1) % IDX) + k = x + (k + 1)
    BY <1>1, NextIdx, Sizes
  <2> QED BY <2>1 DEF Place
<1>2. CASE x = IDX - 1
  <2>1. ((x + 1) % IDX) + k = k /\ x + (k + 1) = k + IDX
    BY <1>2, NextIdx, Sizes
  <2>2. (k + IDX) % NUM = k % NUM
    BY WrapSlot
  <2> QED BY <2>1, <2>2 DEF Place
<1> QED BY <1>1, <1>2

LEMMA EntriesAre ==
  ASSUME NEW ring, NEW x, NEW y
  PROVE  Entries(ring, x, y) = {ring[Place(x, k)] : k \in 0..(Span(x, y) - 1)}
  BY DEF Entries, Place, Span

\* One step of the writer's index.
LEMMA SpanGrows ==
  ASSUME NEW x \in 0..(IDX - 1), NEW y \in 0..(IDX - 1), Span(x, y) + 1 < IDX
  PROVE  Span(x, (y + 1) % IDX) = Span(x, y) + 1
<1>1. PICK z \in 0..(IDX - 1) : z = (y + 1) % IDX
  BY NextIdx
<1>2. z = IF y = IDX - 1 THEN 0 ELSE y + 1
  BY <1>1, NextIdx
<1>3. Span(x, z) = IF x <= z THEN z - x ELSE z - x + IDX
  BY SpanIs
<1>4. Span(x, y) = IF x <= y THEN y - x ELSE y - x + IDX
  BY SpanIs
<1>5. Span(x, z) = Span(x, y) + 1
  BY <1>2, <1>3, <1>4, Sizes
<1> QED BY <1>1, <1>5

\* One step of the reader's.
LEMMA SpanShrinks ==
  ASSUME NEW x \in 0..(IDX - 1), NEW y \in 0..(IDX - 1), x # y
  PROVE  Span((x + 1) % IDX, y) = Span(x, y) - 1 /\ Span(x, y) > 0
<1>1. PICK z \in 0..(IDX - 1) : z = (x + 1) % IDX
  BY NextIdx
<1>2. z = IF x = IDX - 1 THEN 0 ELSE x + 1
  BY <1>1, NextIdx
<1>3. Span(z, y) = IF z <= y THEN y - z ELSE y - z + IDX
  BY SpanIs
<1>4. Span(x, y) = IF x <= y THEN y - x ELSE y - x + IDX
  BY SpanIs
<1>5. Span(z, y) = Span(x, y) - 1 /\ Span(x, y) > 0
  BY <1>2, <1>3, <1>4, Sizes
<1> QED BY <1>1, <1>5

\* A ring is empty when its indexes are equal.
LEMMA RingEmpty ==
  ASSUME NEW ring, NEW x \in 0..(IDX - 1), NEW y \in 0..(IDX - 1), x = y
  PROVE  Entries(ring, x, y) = {} /\ Once(ring, x, y)
<1>1. Span(x, y) = 0
  BY SpanIs
<1> QED BY <1>1, EntriesAre DEF Once

\* An entry is a descriptor.
LEMMA EntriesType ==
  ASSUME NEW ring \in [Desc -> Desc], NEW x \in 0..(IDX - 1), NEW y \in 0..(IDX - 1)
  PROVE  Entries(ring, x, y) \subseteq Desc
<1>1. \A k \in 0..(Span(x, y) - 1) : Place(x, k) \in Desc
  BY PlaceType, SpanIs
<1> QED BY <1>1, EntriesAre

\* Two rings with the same entries at the places between the indexes.
LEMMA SameEntries ==
  ASSUME NEW r1, NEW r2, NEW x, NEW y,
         \A k \in 0..(Span(x, y) - 1) : r1[Place(x, k)] = r2[Place(x, k)]
  PROVE  Entries(r1, x, y) = Entries(r2, x, y) /\ (Once(r1, x, y) <=> Once(r2, x, y))
  BY EntriesAre DEF Once

\* An entry written behind the last one is not yet between the indexes.
LEMMA RingWrite ==
  ASSUME NEW ring \in [Desc -> Desc], NEW r2 \in [Desc -> Desc],
         NEW x \in 0..(IDX - 1), NEW y \in 0..(IDX - 1), NEW s \in Desc, s = y % NUM,
         \A i \in Desc : i # s => r2[i] = ring[i], Span(x, y) < NUM
  PROVE  /\ Entries(r2, x, y) = Entries(ring, x, y)
         /\ Once(ring, x, y) <=> Once(r2, x, y)
<1>4. PICK n \in 0..(NUM - 1) : n = Span(x, y)
  <2>1. Span(x, y) \in 0..(IDX - 1)
    BY SpanIs
  <2> QED BY <2>1, Small
<1>5. ASSUME NEW k \in 0..(n - 1) PROVE r2[Place(x, k)] = ring[Place(x, k)]
  <2>1. Place(x, k) # Place(x, n)
    <3>1. k \in Int /\ n \in Int /\ x \in Int /\ k < n /\ n - k < NUM
      BY <1>4, <1>5, Small
    <3> QED BY <3>1, PlacesDiffer
  <2>2. Place(x, n) = s
    BY <1>4, RingEnd
  <2>3. Place(x, k) \in Desc
    BY PlaceType
  <2> QED BY <2>1, <2>2, <2>3
<1>6. Entries(r2, x, y) = Entries(ring, x, y) /\ (Once(r2, x, y) <=> Once(ring, x, y))
  BY <1>4, <1>5, SameEntries
<1> QED BY <1>6

\* The writer's index takes in the entry behind the last one.
LEMMA RingExtend ==
  ASSUME NEW ring \in [Desc -> Desc], NEW x \in 0..(IDX - 1), NEW y \in 0..(IDX - 1), NEW z, NEW h,
         z = (y + 1) % IDX, h = ring[y % NUM], Span(x, y) + 1 < IDX
  PROVE  /\ Entries(ring, x, z) = Entries(ring, x, y) \cup {h}
         /\ Once(ring, x, y) /\ h \notin Entries(ring, x, y) => Once(ring, x, z)
<1>1. PICK n \in Nat : n = Span(x, y)
  BY SpanIs, Sizes
<1>2. Span(x, z) = n + 1
  BY <1>1, SpanGrows
<1>3. ring[Place(x, n)] = h
  BY <1>1, RingEnd
<1>4. Entries(ring, x, y) = {ring[Place(x, k)] : k \in 0..(n - 1)}
  BY <1>1, EntriesAre
<1>5. Entries(ring, x, z) = {ring[Place(x, k)] : k \in 0..n}
  BY <1>2, EntriesAre
<1>6. \A k \in Int : k \in 0..n <=> k \in 0..(n - 1) \/ k = n
  OBVIOUS
<1>7. Entries(ring, x, z) = Entries(ring, x, y) \cup {h}
  BY <1>3, <1>4, <1>5, <1>6
<1>8. ASSUME Once(ring, x, y), h \notin Entries(ring, x, y) PROVE Once(ring, x, z)
  <2>1. \A k \in 0..(n - 1) : ring[Place(x, k)] # h
    BY <1>4, <1>8
  <2>2. \A j, k \in 0..(n - 1) : ring[Place(x, j)] = ring[Place(x, k)] => j = k
    BY <1>1, <1>8 DEF Once
  <2>3. \A j, k \in 0..n : ring[Place(x, j)] = ring[Place(x, k)] => j = k
    BY <1>3, <1>6, <2>1, <2>2
  <2>4. 0..(Span(x, z) - 1) = 0..n
    BY <1>2
  <2> QED BY <2>3, <2>4 DEF Once
<1> QED BY <1>7, <1>8

\* The reader's index leaves the first entry behind.
LEMMA RingTake ==
  ASSUME NEW ring \in [Desc -> Desc], NEW x \in 0..(IDX - 1), NEW y \in 0..(IDX - 1), NEW z, NEW h,
         x # y, z = (x + 1) % IDX, h = ring[x % NUM], Once(ring, x, y)
  PROVE  /\ h \in Entries(ring, x, y) /\ h \in Desc
         /\ Entries(ring, z, y) = Entries(ring, x, y) \ {h}
         /\ Once(ring, z, y)
<1>1. PICK n \in Nat : n = Span(x, y)
  BY SpanIs, Sizes
<1>2. Span(z, y) = n - 1 /\ n > 0
  BY <1>1, SpanShrinks
<1>3. Place(x, 0) = x % NUM /\ x % NUM \in Desc
  BY SlotType DEF Place
<1>4. Entries(ring, x, y) = {ring[Place(x, k)] : k \in 0..(n - 1)}
  BY <1>1, EntriesAre
<1>5. \A k \in 0..(n - 2) : ring[Place(z, k)] = ring[Place(x, k + 1)]
  BY PlaceNext
<1>6. 0..(Span(z, y) - 1) = 0..(n - 2)
  BY <1>2
<1>7. Entries(ring, z, y) = {ring[Place(z, k)] : k \in 0..(n - 2)}
  BY <1>6, EntriesAre
<1>8. \A j, k \in 0..(n - 1) : ring[Place(x, j)] = ring[Place(x, k)] => j = k
  BY <1>1 DEF Once
<1>9. h \in Entries(ring, x, y) /\ h \in Desc
  BY <1>2, <1>3, <1>4
<1>10. ASSUME NEW e \in Entries(ring, z, y) PROVE e \in Entries(ring, x, y) \ {h}
  <2>1. PICK k \in 0..(n - 2) : e = ring[Place(z, k)]
    BY <1>7
  <2>2. e = ring[Place(x, k + 1)] /\ k + 1 \in 0..(n - 1) /\ 0 \in 0..(n - 1) /\ k + 1 # 0
    BY <1>2, <1>5, <2>1
  <2>3. e # ring[Place(x, 0)]
    BY <1>8, <2>2
  <2> QED BY <1>3, <1>4, <2>2, <2>3
<1>11. ASSUME NEW e \in Entries(ring, x, y), e # h PROVE e \in Entries(ring, z, y)
  <2>1. PICK k \in 0..(n - 1) : e = ring[Place(x, k)]
    BY <1>4
  <2>2. k # 0
    BY <1>3, <1>11, <2>1
  <2>3. PICK j \in 0..(n - 2) : k = j + 1
    BY <2>2
  <2>4. e = ring[Place(z, j)]
    BY <1>5, <2>1, <2>3
  <2> QED BY <1>7, <2>4
<1>12. ASSUME NEW j \in 0..(n - 2), NEW k \in 0..(n - 2), ring[Place(z, j)] = ring[Place(z, k)]
       PROVE  j = k
  <2>1. j + 1 \in 0..(n - 1) /\ k + 1 \in 0..(n - 1)
    OBVIOUS
  <2>2. ring[Place(x, j + 1)] = ring[Place(x, k + 1)]
    BY <1>5, <1>12
  <2>3. j + 1 = k + 1
    BY <1>8, <2>1, <2>2
  <2> QED BY <2>3
<1>13. Once(ring, z, y)
  BY <1>6, <1>12 DEF Once
<1> QED BY <1>9, <1>10, <1>11, <1>13

\* A ring without two of the descriptors has room for one more entry.
LEMMA RingRoom ==
  ASSUME NEW ring \in [Desc -> Desc], NEW x \in 0..(IDX - 1), NEW y \in 0..(IDX - 1),
         Once(ring, x, y), NEW d1 \in Desc, NEW d2 \in Desc, d1 # d2,
         d1 \notin Entries(ring, x, y), d2 \notin Entries(ring, x, y)
  PROVE  Span(x, y) < NUM /\ Span(x, y) + 1 < IDX
<1>1. PICK n \in Nat : n = Span(x, y)
  BY SpanIs, Sizes
<1> DEFINE S == 0..(n - 1)
           T == (Desc \ {d1}) \ {d2}
           f == [k \in S |-> ring[Place(x, k)]]
<1>2. IsFiniteSet(Desc) /\ Cardinality(Desc) = NUM
  BY FS_Interval, Sizes
<1>3. IsFiniteSet(Desc \ {d1}) /\ Cardinality(Desc \ {d1}) = NUM - 1
  BY <1>2, FS_RemoveElement
<1>4. IsFiniteSet(T) /\ Cardinality(T) = (NUM - 1) - 1
  BY <1>3, FS_RemoveElement
<1>5. IsFiniteSet(S) /\ Cardinality(S) = n
  BY FS_Interval
<1>6. \A k \in S : f[k] \in T
  BY <1>1, EntriesAre, EntriesType
<1>7. f \in [S -> T]
  BY <1>6
<1>8. \A j, k \in S : f[j] = f[k] => j = k
  BY <1>1 DEF Once
<1>9. f \in Injection(S, T)
  <2> HIDE DEF S, T, f
  <2> QED BY <1>7, <1>8 DEF Injection, IsInjective
<1>10. Cardinality(S) <= Cardinality(T)
  BY <1>4, <1>9, FS_Injection
<1> HIDE DEF S, T, f
<1>11. n <= NUM - 2
  BY <1>4, <1>5, <1>10, Small
<1> QED BY <1>1, <1>11, Small

-----------------------------------------------------------------------------
(* What the invariant says about a chain.                                  *)

LEMMA IdxType ==
  ASSUME LocalsOK, NEW p \in Procs
  PROVE  /\ idx[p][1] \in Desc /\ idx[p][2] \in Desc /\ idx[p][3] \in Desc
         /\ Front(p) \in ChainOf(p) /\ ChainOf(p) \subseteq Desc
  BY DEF LocalsOK, Front, ChainOf

\* free_chain() goes through the chain of the call, and nothing else.
LEMMA ChainIs ==
  ASSUME LocalsOK, NEW p \in Procs, Linked(p)
  PROVE  Chain(idx[p][1]) = ChainOf(p) /\ Cardinality(ChainOf(p)) = 3
<1> DEFINE i0 == idx[p][1]
           i1 == idx[p][2]
           i2 == idx[p][3]
<1>1. i0 # i1 /\ i0 # i2 /\ i1 # i2
  BY DEF Linked
<1>2. desc[i0].more = 1 /\ desc[i0].next = i1 /\ desc[i1].more = 1 /\ desc[i1].next = i2
  BY DEF Linked
<1>3. Chain(i0) = {i0, i1, i2}
  BY <1>2 DEF Chain
<1>4. IsFiniteSet({i0}) /\ Cardinality({i0}) = 1
  BY FS_Singleton
<1>5. IsFiniteSet({i0} \cup {i1}) /\ Cardinality({i0} \cup {i1}) = 2
  <2>1. i1 \notin {i0}
    BY <1>1
  <2>2. /\ IsFiniteSet({i0} \cup {i1})
        /\ Cardinality({i0} \cup {i1}) = IF i1 \in {i0} THEN Cardinality({i0}) ELSE Cardinality({i0}) + 1
    BY <1>4, FS_AddElement
  <2> QED BY <1>4, <2>1, <2>2
<1>6. Cardinality(({i0} \cup {i1}) \cup {i2}) = 3
  <2>1. i2 \notin {i0} \cup {i1}
    BY <1>1
  <2>2. Cardinality(({i0} \cup {i1}) \cup {i2}) = IF i2 \in {i0} \cup {i1}
          THEN Cardinality({i0} \cup {i1}) ELSE Cardinality({i0} \cup {i1}) + 1
    BY <1>5, FS_AddElement
  <2> QED BY <1>5, <2>1, <2>2
<1>7. ({i0} \cup {i1}) \cup {i2} = {i0, i1, i2}
  OBVIOUS
<1> QED BY <1>3, <1>6, <1>7 DEF ChainOf

\* Chains are told apart by their heads, and calls by their buffers.
LEMMA FrontsDiffer ==
  ASSUME LocalsOK, CallInv, ChainsInv, NEW p \in HasChain, NEW q \in HasChain, p # q
  PROVE  /\ Front(p) # Front(q) /\ Front(p) \notin ChainOf(q) /\ b[p] # b[q]
         /\ idx[p][2] # Front(q) /\ idx[p][3] # Front(q)
<1>1. p \in Procs /\ q \in Procs /\ pc[p] # "idle"
  BY DEF HasChain
<1>2. ChainOf(p) \cap ChainOf(q) = {}
  BY DEF ChainsInv, Apart
<1> QED BY <1>1, <1>2 DEF CallInv, ChainOf, Front

LEMMA OnDiskChain == OnDisk \subseteq HasChain /\ HasChain \subseteq Procs
  BY DEF OnDisk, HasChain

\* A chain in one of the four places belongs to one call, whose block is on the disk.
LEMMA Owner ==
  ASSUME PlaceInv, NEW h \in Unseen \cup busy \cup finished \cup Unhandled
  PROVE  \E p \in OnDisk : h = Front(p)
  BY DEF PlaceInv, Places, Fronts

\* Two of the descriptors of a chain are no chain's head.
LEMMA NoFronts ==
  ASSUME LocalsOK, CallInv, ChainsInv, NEW p \in HasChain
  PROVE  idx[p][2] \notin Fronts /\ idx[p][3] \notin Fronts /\ idx[p][2] # idx[p][3]
<1>1. Linked(p)
  BY DEF ChainsInv
<1>2. \A q \in HasChain : idx[p][2] # Front(q) /\ idx[p][3] # Front(q)
  <2> SUFFICES ASSUME NEW q \in HasChain PROVE idx[p][2] # Front(q) /\ idx[p][3] # Front(q)
    OBVIOUS
  <2>1. CASE q = p
    BY <1>1, <2>1 DEF Linked, Front
  <2>2. CASE q # p
    BY <2>2, FrontsDiffer
  <2> QED BY <2>1, <2>2
<1> QED BY <1>1, <1>2, OnDiskChain DEF Linked, Fronts

-----------------------------------------------------------------------------
(* What the invariant was introduced for.                                  *)

LEMMA InvChains == IInv => ChainInv
<1> SUFFICES ASSUME IInv PROVE ChainInv
  OBVIOUS
<1>1. TypeOK /\ Running
  BY DEF IInv, LocalsOK
<1>2. ASSUME NEW p \in HasChain
      PROVE  /\ Cardinality(ChainOf(p)) = 3 /\ Chain(idx[p][1]) = ChainOf(p)
             /\ info[idx[p][1]].b = b[p] /\ ops[idx[p][1]].sector = b[p]
             /\ desc[idx[p][2]].of = b[p]
  <2>1. Linked(p) /\ p \in Procs
    BY DEF IInv, ChainsInv, HasChain
  <2>2. Chain(idx[p][1]) = ChainOf(p) /\ Cardinality(ChainOf(p)) = 3
    BY <2>1, ChainIs DEF IInv
  <2>3. info[idx[p][1]].b = b[p] /\ ops[idx[p][1]].sector = b[p] /\ desc[idx[p][2]].of = b[p]
    BY <2>1 DEF Linked
  <2> QED BY <2>2, <2>3
<1> QED BY <1>1, <1>2 DEF ChainInv, IInv, ChainsInv, Taken, Apart

LEMMA OnePlace ==
  ASSUME PlaceInv, NEW h \in Fronts
  PROVE  InOnePlace(h)
<1> DEFINE K == {k \in 1..4 : h \in <<Unseen, busy, finished, Unhandled>>[k]}
<1>1. \E j : K = {j}
  <2>1. CASE h \in Unseen
    <3>1. K = {1}
      BY <2>1 DEF PlaceInv, Places
    <3> QED BY <3>1
  <2>2. CASE h \in busy
    <3>1. K = {2}
      BY <2>2 DEF PlaceInv, Places
    <3> QED BY <3>1
  <2>3. CASE h \in finished
    <3>1. K = {3}
      BY <2>3 DEF PlaceInv, Places
    <3> QED BY <3>1
  <2>4. CASE h \in Unhandled
    <3>1. K = {4}
      BY <2>4 DEF PlaceInv, Places
    <3> QED BY <3>1
  <2> QED BY <2>1, <2>2, <2>3, <2>4 DEF PlaceInv, Places
<1>2. Cardinality(K) = 1
  BY <1>1, FS_Singleton
<1> QED BY <1>2 DEF InOnePlace

LEMMA InvCompletion == IInv => NoLostCompletion
<1> SUFFICES ASSUME IInv PROVE NoLostCompletion
  OBVIOUS
<1>1. ASSUME NEW p \in HasChain, pc[p] # "publish", bdisk[b[p]] = 1 PROVE InOnePlace(idx[p][1])
  <2>1. Front(p) \in Fronts
    BY <1>1 DEF Fronts, OnDisk
  <2> QED BY <2>1, OnePlace DEF IInv, Front
<1> QED BY <1>1 DEF NoLostCompletion, IInv, ToldInv

-----------------------------------------------------------------------------
(* Steps that leave the chains, or the places they are in, alone.          *)

SameChains ==
  /\ HasChain' = HasChain /\ UNCHANGED <<free, desc, ops>>
  /\ \A p \in HasChain : idx'[p] = idx[p] /\ b'[p] = b[p] /\ write'[p] = write[p]
  /\ \A i \in Desc : info'[i].b = info[i].b
SameFronts ==
  \A p \in HasChain : /\ pc'[p] = "publish" <=> pc[p] = "publish"
                      /\ bdisk'[b[p]] = bdisk[b[p]]
Quiet ==
  /\ UNCHANGED <<info, avail, avail_idx, used, used_ridx, used_idx, bdisk, seen, busy, finished>>
  /\ \A p \in Procs : pc'[p] = "publish" <=> pc[p] = "publish"
SamePlaces == UNCHANGED <<avail, avail_idx, used, used_ridx, used_idx, seen, busy, finished>>

LEMMA KeepChains ==
  ASSUME LocalsOK, ChainsInv, SameChains
  PROVE  ChainsInv'
<1>1. \A p \in HasChain : ChainOf(p)' = ChainOf(p)
  BY DEF SameChains, ChainOf
<1>2. Apart' /\ Taken'
  BY <1>1 DEF ChainsInv, Apart, Taken, SameChains
<1>3. ASSUME NEW p \in HasChain PROVE Linked(p)'
  <2>1. Linked(p) /\ idx[p][1] \in Desc
    BY IdxType DEF ChainsInv, HasChain
  <2>2. info'[idx[p][1]].b = info[idx[p][1]].b /\ idx'[p] = idx[p] /\ b'[p] = b[p]
        /\ write'[p] = write[p] /\ desc' = desc /\ ops' = ops
    BY <2>1 DEF SameChains
  <2> QED BY <2>1, <2>2 DEF Linked
<1> QED BY <1>2, <1>3 DEF ChainsInv, SameChains

LEMMA KeepFronts ==
  ASSUME SameChains, SameFronts
  PROVE  OnDisk' = OnDisk /\ Fronts' = Fronts
<1>1. OnDisk' = OnDisk
  BY DEF OnDisk, SameChains, SameFronts
<1>2. \A p \in OnDisk : Front(p)' = Front(p)
  BY OnDiskChain DEF SameChains, Front
<1> QED BY <1>1, <1>2 DEF Fronts

LEMMA KeepPlaces ==
  ASSUME PlaceInv, RingsInv, SamePlaces, Fronts' = Fronts
  PROVE  PlaceInv' /\ RingsInv' /\ Unseen' = Unseen /\ Unhandled' = Unhandled
  BY DEF PlaceInv, RingsInv, SamePlaces, Unseen, Unhandled, Entries, Once, Places, Span, Place

QuietInv == ChainsInv /\ RingsInv /\ PlaceInv /\ StatusInv /\ PublishInv
LEMMA QuietStep ==
  ASSUME IInv, SameChains, Quiet
  PROVE  QuietInv' /\ Unseen' = Unseen /\ Unhandled' = Unhandled
<1> USE DEF IInv
<1>1. ChainsInv'
  BY KeepChains
<1>2. SameFronts
  BY OnDiskChain DEF SameFronts, Quiet
<1>3. Fronts' = Fronts /\ SamePlaces
  BY <1>2, KeepFronts DEF Quiet, SamePlaces
<1>4. PlaceInv' /\ RingsInv' /\ Unseen' = Unseen /\ Unhandled' = Unhandled
  BY <1>3, KeepPlaces
<1>5. StatusInv'
  <2>1. \A p \in HasChain : Front(p)' = Front(p) /\ (pc'[p] = "publish" <=> pc[p] = "publish")
    BY OnDiskChain DEF SameChains, Front, Quiet
  <2> QED BY <1>4, <2>1 DEF StatusInv, SameChains, Quiet
<1>6. PublishInv'
  <2>1. \A p \in Procs : pc[p] = "publish" => p \in HasChain
    BY DEF HasChain
  <2>2. \A p \in Procs : pc[p] = "publish" => Front(p)' = Front(p) /\ b'[p] = b[p]
    BY <2>1 DEF SameChains, Front
  <2> QED BY <2>2 DEF PublishInv, Quiet
<1> QED BY <1>1, <1>4, <1>5, <1>6 DEF QuietInv

LEMMA Parts ==
  IInv <=> TypeOK /\ LocalsOK /\ CallInv /\ QuietInv /\ ToldInv
  BY DEF IInv, QuietInv
LEMMA PartsPrime ==
  IInv' <=> TypeOK' /\ LocalsOK' /\ CallInv' /\ QuietInv' /\ ToldInv'
  BY DEF IInv, QuietInv

-----------------------------------------------------------------------------
(* The steps that leave chains and rings alone.                            *)

LEMMA RwInv ==
  ASSUME IInv, NEW p \in Procs, NEW x \in Blocks, NEW w \in {0, 1}, virtio_disk_rw(p, x, w)
  PROVE  IInv'
<1> USE DEF IInv
<1>1. /\ pc[p] = "idle" /\ \A q \in Procs : b[q] # x
      /\ UNCHANGED <<driver, lock, idx, hpc, device, intr>>
  BY DEF virtio_disk_rw
<1>2. \A q \in Procs : /\ pc'[q] = IF q = p THEN "enter" ELSE pc[q]
                       /\ b'[q] = IF q = p THEN x ELSE b[q]
                       /\ write'[q] = IF q = p THEN w ELSE write[q]
  BY DEF virtio_disk_rw, Goto, TypeOK, LocalsOK
<1>3. TypeOK'
  BY <1>1 DEF virtio_disk_rw, TypeOK, driver, device
<1>4. LocalsOK'
  BY <1>1 DEF virtio_disk_rw, LocalsOK, Goto, driver, device, Running, Pcs
<1>5. CallInv'
  <2>1. NoBlock \notin Blocks
    BY VirtioAssumption
  <2> QED BY <1>1, <1>2, <2>1 DEF CallInv, Holding
<1>6. SameChains /\ Quiet
  BY <1>1, <1>2 DEF SameChains, Quiet, HasChain, driver, device
<1>7. QuietInv' /\ Unseen' = Unseen /\ Unhandled' = Unhandled
  BY <1>6, QuietStep
<1>8. ToldInv'
  BY <1>1, <1>2, <1>7 DEF ToldInv, ThreeFree, Free, driver, device
<1> QED BY <1>3, <1>4, <1>5, <1>7, <1>8, PartsPrime

\* The steps that change nothing but control points, the lock and the three flags.
LEMMA ControlStep ==
  ASSUME IInv, UNCHANGED <<driver, data, b, write, idx, content, seen, busy, finished, used, used_ridx>>,
         pc' \in [Procs -> Pcs], lock' \in Procs \cup {Nobody, Handler},
         hpc' \in {"off", "loop"}, notified' \in {0, 1}, intr' \in {0, 1},
         \A p \in Procs : /\ pc'[p] = "publish" <=> pc[p] = "publish"
                          /\ pc'[p] = "idle" <=> pc[p] = "idle"
                          /\ p \in HasChain' <=> p \in HasChain
  PROVE  /\ TypeOK' /\ LocalsOK' /\ QuietInv' /\ Unseen' = Unseen /\ Unhandled' = Unhandled
         /\ \A p \in Procs : b'[p] = NoBlock <=> pc'[p] = "idle"
         /\ \A p, q \in Procs : p # q /\ b'[p] = b'[q] => b'[p] = NoBlock
         /\ ThreeFree' = ThreeFree
<1> USE DEF IInv
<1>1. TypeOK'
  BY DEF TypeOK, driver
<1>2. LocalsOK'
  BY DEF LocalsOK, driver, Running
<1>3. SameChains /\ Quiet
  BY OnDiskChain DEF SameChains, Quiet, driver, HasChain
<1>4. QuietInv' /\ Unseen' = Unseen /\ Unhandled' = Unhandled
  BY <1>3, QuietStep
<1>5. ThreeFree' = ThreeFree
  BY DEF ThreeFree, Free, driver
<1> QED BY <1>1, <1>2, <1>4, <1>5 DEF CallInv

LEMMA Names == Nobody \notin Procs /\ Handler \notin Procs /\ Nobody # Handler /\ NoBlock \notin Blocks
  BY VirtioAssumption

LEMMA SleepFreeInv ==
  ASSUME IInv, NEW p \in Procs, alloc3_desc(p), ~ThreeFree
  PROVE  IInv'
<1> USE DEF IInv
<1>1. /\ pc[p] = "enter" /\ lock = Nobody
      /\ UNCHANGED <<driver, data, b, write, idx, content, seen, busy, finished, used, used_ridx>>
      /\ UNCHANGED <<lock, hpc, notified, intr>>
      /\ pc' = [Wake(pc, "sleepfree", "enter", IF Free = {} THEN {} ELSE Procs) EXCEPT ![p] = "sleepfree"]
  BY DEF alloc3_desc, driver, device
<1>2. \A q \in Procs : pc'[q] = pc[q] \/ {pc[q], pc'[q]} \subseteq {"enter", "sleepfree"}
  BY <1>1 DEF Wake
<1>3. pc' \in [Procs -> Pcs]
  BY <1>1 DEF Wake, LocalsOK, Pcs
<1>4. \A q \in Procs : /\ pc'[q] = "publish" <=> pc[q] = "publish"
                       /\ pc'[q] = "idle" <=> pc[q] = "idle"
                       /\ q \in HasChain' <=> q \in HasChain
  BY <1>2 DEF HasChain
<1>5. /\ TypeOK' /\ LocalsOK' /\ QuietInv' /\ Unseen' = Unseen /\ Unhandled' = Unhandled
      /\ \A q \in Procs : b'[q] = NoBlock <=> pc'[q] = "idle"
      /\ \A r, q \in Procs : r # q /\ b'[r] = b'[q] => b'[r] = NoBlock
      /\ ThreeFree' = ThreeFree
  BY <1>1, <1>3, <1>4, ControlStep DEF TypeOK, LocalsOK
<1>6. CallInv'
  BY <1>1, <1>2, <1>5 DEF CallInv, Holding
<1>7. ToldInv'
  BY <1>1, <1>2, <1>5 DEF ToldInv, driver
<1> QED BY <1>5, <1>6, <1>7, PartsPrime

LEMMA NotifyInv ==
  ASSUME IInv, NEW p \in Procs, notify(p)
  PROVE  IInv'
<1> USE DEF IInv
<1>1. /\ pc[p] = "notify" /\ pc' = [pc EXCEPT ![p] = "wait"] /\ notified' = 1
      /\ UNCHANGED <<driver, data, b, write, idx, content, seen, busy, finished, used, used_ridx>>
      /\ UNCHANGED <<lock, hpc, intr>>
  BY DEF notify, Goto
<1>2. \A q \in Procs : pc'[q] = IF q = p THEN "wait" ELSE pc[q]
  BY <1>1 DEF LocalsOK
<1>3. pc' \in [Procs -> Pcs]
  BY <1>1 DEF LocalsOK, Pcs
<1>4. \A q \in Procs : /\ pc'[q] = "publish" <=> pc[q] = "publish"
                       /\ pc'[q] = "idle" <=> pc[q] = "idle"
                       /\ q \in HasChain' <=> q \in HasChain
  BY <1>1, <1>2 DEF HasChain
<1>5. /\ TypeOK' /\ LocalsOK' /\ QuietInv' /\ Unseen' = Unseen /\ Unhandled' = Unhandled
      /\ \A q \in Procs : b'[q] = NoBlock <=> pc'[q] = "idle"
      /\ \A r, q \in Procs : r # q /\ b'[r] = b'[q] => b'[r] = NoBlock
      /\ ThreeFree' = ThreeFree
  BY <1>1, <1>3, <1>4, ControlStep DEF TypeOK, LocalsOK
<1>6. CallInv'
  BY <1>1, <1>2, <1>5 DEF CallInv, Holding
<1>7. ToldInv'
  BY <1>1, <1>2, <1>5 DEF ToldInv, driver
<1> QED BY <1>5, <1>6, <1>7, PartsPrime

LEMMA SleepBufInv ==
  ASSUME IInv, NEW p \in Procs, wait(p), StillOnDisk(p)
  PROVE  IInv'
<1> USE DEF IInv
<1>1. /\ pc[p] = "wait" \/ (pc[p] = "woken" /\ lock = Nobody)
      /\ pc' = [pc EXCEPT ![p] = "sleepbuf"] /\ lock' = Nobody
      /\ UNCHANGED <<driver, data, b, write, idx, content, seen, busy, finished, used, used_ridx>>
      /\ UNCHANGED <<hpc, notified, intr>>
  BY DEF wait, Goto, driver, device
<1>2. \A q \in Procs : pc'[q] = IF q = p THEN "sleepbuf" ELSE pc[q]
  BY <1>1 DEF LocalsOK
<1>3. pc' \in [Procs -> Pcs] /\ lock' \in Procs \cup {Nobody, Handler}
  BY <1>1 DEF LocalsOK, Pcs
<1>4. \A q \in Procs : /\ pc'[q] = "publish" <=> pc[q] = "publish"
                       /\ pc'[q] = "idle" <=> pc[q] = "idle"
                       /\ q \in HasChain' <=> q \in HasChain
  BY <1>1, <1>2 DEF HasChain
<1>5. /\ TypeOK' /\ LocalsOK' /\ QuietInv' /\ Unseen' = Unseen /\ Unhandled' = Unhandled
      /\ \A q \in Procs : b'[q] = NoBlock <=> pc'[q] = "idle"
      /\ \A r, q \in Procs : r # q /\ b'[r] = b'[q] => b'[r] = NoBlock
      /\ ThreeFree' = ThreeFree
  BY <1>1, <1>3, <1>4, ControlStep DEF LocalsOK
<1>6. CallInv'
  <2>1. \A q \in Procs : lock = q => q = p
    BY <1>1, Names DEF CallInv, Holding
  <2>2. \A q \in Procs : pc'[q] \notin Holding
    BY <1>2, <2>1 DEF CallInv, Holding
  <2>3. lock # Handler
    BY <1>1, Names DEF CallInv, Holding
  <2> QED BY <1>1, <1>5, <2>2, <2>3, Names DEF CallInv
<1>7. ToldInv'
  BY <1>1, <1>2, <1>5 DEF ToldInv, driver, StillOnDisk
<1> QED BY <1>5, <1>6, <1>7, PartsPrime

\* The handler's first and last step.
LEMMA IntrInv ==
  ASSUME IInv, virtio_disk_intr \/ intr_end
  PROVE  IInv'
<1> USE DEF IInv
<1>1. UNCHANGED <<driver, data, b, write, idx, content, seen, busy, finished, used, used_ridx>>
      /\ UNCHANGED <<pc, notified>>
  BY DEF virtio_disk_intr, intr_end, caller, device
<1>2. \/ hpc = "off" /\ lock = Nobody /\ lock' = Handler /\ hpc' = "loop" /\ intr' = 0
      \/ hpc = "loop" /\ used_idx = used_ridx /\ hpc' = "off" /\ lock' = Nobody /\ intr' = intr
  BY DEF virtio_disk_intr, intr_end
<1>3. lock' \in Procs \cup {Nobody, Handler} /\ hpc' \in {"off", "loop"} /\ intr' \in {0, 1}
  BY <1>2 DEF LocalsOK
<1>4. \A q \in Procs : q \in HasChain' <=> q \in HasChain
  BY <1>1 DEF HasChain
<1>5. /\ TypeOK' /\ LocalsOK' /\ QuietInv' /\ Unseen' = Unseen /\ Unhandled' = Unhandled
      /\ \A q \in Procs : b'[q] = NoBlock <=> pc'[q] = "idle"
      /\ \A r, q \in Procs : r # q /\ b'[r] = b'[q] => b'[r] = NoBlock
      /\ ThreeFree' = ThreeFree
  BY <1>1, <1>3, <1>4, ControlStep DEF LocalsOK
<1>6. CallInv'
  BY <1>1, <1>2, <1>5, Names DEF CallInv
<1>7. used_idx = used_ridx => Unhandled = {}
  BY RingEmpty DEF Unhandled, TypeOK
<1>8. ToldInv'
  BY <1>1, <1>2, <1>5, <1>7 DEF ToldInv, driver
<1> QED BY <1>5, <1>6, <1>8, PartsPrime

-----------------------------------------------------------------------------
(* alloc3_desc()                                                           *)

\* Of three free descriptors, three different ones are taken.
LEMMA LowestIn == ASSUME NEW S \in SUBSET Desc, S # {} PROVE Lowest(S) \in S
<1>1. S \in SUBSET Nat
  BY Sizes
<1>2. \E i \in S : \A j \in S : i <= j
  BY <1>1, NatMin
<1> QED BY <1>2 DEF Lowest

LEMMA ThreeTaken ==
  ASSUME ThreeFree
  PROVE  /\ Lowest(Free) \in Free
         /\ Lowest(Free \ {Lowest(Free)}) \in Free \ {Lowest(Free)}
         /\ Lowest(Free \ {Lowest(Free), Lowest(Free \ {Lowest(Free)})})
              \in Free \ {Lowest(Free), Lowest(Free \ {Lowest(Free)})}
<1>1. IsFiniteSet(Desc) /\ Free \in SUBSET Desc
  BY FS_Interval, Small DEF Desc, Free
<1>2. IsFiniteSet(Free) /\ Cardinality(Free) >= 3 /\ Cardinality(Free) \in Nat
  BY <1>1, FS_Subset, FS_CardinalityType DEF ThreeFree
<1>3. Free # {}
  BY <1>2, FS_EmptySet
<1>4. PICK i0 : i0 = Lowest(Free)
  OBVIOUS
<1>5. i0 \in Free
  BY <1>1, <1>3, <1>4, LowestIn
<1>6. IsFiniteSet(Free \ {i0}) /\ Cardinality(Free \ {i0}) = Cardinality(Free) - 1
  BY <1>2, <1>5, FS_RemoveElement
<1>7. Free \ {i0} # {}
  BY <1>2, <1>6, FS_EmptySet
<1>8. PICK i1 : i1 = Lowest(Free \ {i0})
  OBVIOUS
<1>9. i1 \in Free \ {i0}
  BY <1>1, <1>7, <1>8, LowestIn
<1>10. Cardinality((Free \ {i0}) \ {i1}) = Cardinality(Free \ {i0}) - 1 /\ IsFiniteSet((Free \ {i0}) \ {i1})
  BY <1>6, <1>9, FS_RemoveElement
<1>11. (Free \ {i0}) \ {i1} # {}
  BY <1>2, <1>6, <1>10, FS_EmptySet
<1>12. Free \ {i0, i1} # {} /\ Free \ {i0, i1} \in SUBSET Desc
  BY <1>1, <1>11
<1>13. Lowest(Free \ {i0, i1}) \in Free \ {i0, i1}
  BY <1>12, LowestIn
<1> QED BY <1>4, <1>5, <1>8, <1>9, <1>13

\* The step, with the descriptors it takes.
Alloc(p, i0, i1, i2) ==
  /\ pc[p] = "enter" /\ lock = Nobody /\ i0 # i1 /\ i0 # i2 /\ i1 # i2
  /\ {i0, i1, i2} \subseteq Free
  /\ free' = [free EXCEPT ![i0] = 0, ![i1] = 0, ![i2] = 0]
  /\ idx' = [idx EXCEPT ![p] = <<i0, i1, i2>>]
  /\ ops' = [ops EXCEPT ![i0] = [type |-> write[p], sector |-> b[p]]]
  /\ desc' = [desc EXCEPT
       ![i0] = [kind |-> "op", of |-> i0, more |-> 1, next |-> i1],
       ![i1] = [kind |-> "data", of |-> b[p], more |-> 1, next |-> i2],
       ![i2] = [kind |-> "status", of |-> i0, more |-> 0, next |-> 0]]
  /\ info' = [info EXCEPT ![i0] = [b |-> b[p], status |-> 255]]
  /\ bdisk' = [bdisk EXCEPT ![b[p]] = 1]
  /\ avail' = [avail EXCEPT ![avail_idx % NUM] = i0]
  /\ pc' = [pc EXCEPT ![p] = "publish"] /\ lock' = p
  /\ UNCHANGED <<avail_idx, used_idx, panicked, data, b, write, hpc, device, intr>>

LEMMA AllocIs ==
  ASSUME NEW p \in Procs, alloc3_desc(p), ThreeFree
  PROVE  \E i0, i1, i2 \in Desc : Alloc(p, i0, i1, i2)
<1>1. PICK i0 : i0 = Lowest(Free)
  OBVIOUS
<1>2. PICK i1 : i1 = Lowest(Free \ {i0})
  OBVIOUS
<1>3. PICK i2 : i2 = Lowest(Free \ {i0, i1})
  OBVIOUS
<1>4. i0 \in Free /\ i1 \in Free \ {i0} /\ i2 \in Free \ {i0, i1}
  BY <1>1, <1>2, <1>3, ThreeTaken
<1>5. Alloc(p, i0, i1, i2)
  BY <1>1, <1>2, <1>3, <1>4 DEF alloc3_desc, Alloc, Goto
<1> QED BY <1>4, <1>5 DEF Free

LEMMA AllocInv ==
  ASSUME IInv, NEW p \in Procs, NEW i0 \in Desc, NEW i1 \in Desc, NEW i2 \in Desc, Alloc(p, i0, i1, i2)
  PROVE  IInv'
<1> USE DEF IInv
<1>1. /\ pc[p] = "enter" /\ lock = Nobody /\ lock' = p
      /\ UNCHANGED <<avail_idx, used_idx, panicked, data, b, write, hpc, content, notified, seen,
                     busy, finished, used, used_ridx, intr>>
  BY DEF Alloc, device
<1>2. i0 # i1 /\ i0 # i2 /\ i1 # i2 /\ free[i0] = 1 /\ free[i1] = 1 /\ free[i2] = 1
  BY DEF Alloc, Free
<1>3. b[p] \in Blocks /\ write[p] \in {0, 1}
  BY <1>1 DEF CallInv, TypeOK, LocalsOK
<1>4. /\ \A q \in Procs : /\ pc'[q] = IF q = p THEN "publish" ELSE pc[q]
                          /\ q # p => idx'[q] = idx[q]
      /\ idx'[p] = <<i0, i1, i2>>
      /\ \A x \in Blocks : bdisk'[x] = IF x = b[p] THEN 1 ELSE bdisk[x]
      /\ \A i \in Desc : /\ free'[i] = IF i \in {i0, i1, i2} THEN 0 ELSE free[i]
                         /\ i # i0 => ops'[i] = ops[i] /\ info'[i] = info[i]
                         /\ i \notin {i0, i1, i2} => desc'[i] = desc[i]
      /\ info'[i0] = [b |-> b[p], status |-> 255]
      /\ ops'[i0] = [type |-> write[p], sector |-> b[p]]
      /\ desc'[i0] = [kind |-> "op", of |-> i0, more |-> 1, next |-> i1]
      /\ desc'[i1] = [kind |-> "data", of |-> b[p], more |-> 1, next |-> i2]
      /\ desc'[i2] = [kind |-> "status", of |-> i0, more |-> 0, next |-> 0]
  BY <1>2, <1>3 DEF Alloc, TypeOK, LocalsOK
<1>5. p \notin HasChain /\ HasChain' = HasChain \cup {p}
  BY <1>1, <1>4 DEF HasChain
<1>6. \A q \in HasChain : q # p /\ q \in Procs /\ ChainOf(q) \cap {i0, i1, i2} = {} /\ ChainOf(q) \subseteq Desc
  <2>1. \A q \in HasChain : \A i \in ChainOf(q) : i \in Desc => free[i] = 0
    BY DEF ChainsInv, Taken
  <2> QED BY <1>2, <1>5, <2>1, IdxType, OnDiskChain
<1>7. \A q \in HasChain : ChainOf(q)' = ChainOf(q) /\ Front(q)' = Front(q) /\ Front(q) \in ChainOf(q)
  BY <1>4, <1>6 DEF ChainOf, Front
<1>8. ChainOf(p)' = {i0, i1, i2} /\ Front(p)' = i0
  BY <1>4 DEF ChainOf, Front
<1>9. OnDisk' = OnDisk /\ Fronts' = Fronts
  <2>1. \A q \in HasChain : b[q] # b[p] /\ b[q] \in Blocks
    BY <1>3, <1>6, Names DEF CallInv, TypeOK, HasChain
  <2>2. OnDisk' = OnDisk
    BY <1>1, <1>4, <1>5, <1>6, <2>1 DEF OnDisk
  <2> QED BY <1>7, <2>2, OnDiskChain DEF Fronts
<1>10. i0 \notin Fronts /\ i1 \notin Fronts /\ i2 \notin Fronts
  BY <1>6, <1>7, OnDiskChain DEF Fronts
<1>11. avail' \in [Desc -> Desc] /\ avail'[avail_idx % NUM] = i0 /\ Unseen' = Unseen
       /\ Once(avail', seen, avail_idx)
  <2>1. Unseen \subseteq Fronts
    BY DEF PlaceInv, Places
  <2>2. Span(seen, avail_idx) < NUM
    BY <1>2, <1>10, <2>1, RingRoom DEF RingsInv, Unseen, TypeOK
  <2>3. avail' = [avail EXCEPT ![avail_idx % NUM] = i0]
    BY DEF Alloc
  <2>4. /\ avail \in [Desc -> Desc] /\ seen \in 0..(IDX - 1) /\ avail_idx \in 0..(IDX - 1)
        /\ Once(avail, seen, avail_idx)
    BY DEF TypeOK, RingsInv
  <2>5. PICK s \in Desc : s = avail_idx % NUM
    BY <2>4, SlotType
  <2>6. avail' \in [Desc -> Desc] /\ avail'[s] = i0 /\ \A i \in Desc : i # s => avail'[i] = avail[i]
    BY <2>3, <2>4, <2>5
  <2>7. /\ Entries(avail', seen, avail_idx) = Entries(avail, seen, avail_idx)
        /\ Once(avail', seen, avail_idx)
    BY <2>2, <2>4, <2>5, <2>6, RingWrite
  <2> QED BY <1>1, <2>5, <2>6, <2>7 DEF Unseen
<1>12. TypeOK'
  <2>1. free' \in [Desc -> {0, 1}] /\ bdisk' \in [Blocks -> {0, 1}]
    BY <1>3 DEF Alloc, TypeOK
  <2> QED BY <1>1, <1>11, <2>1 DEF TypeOK
<1>13. LocalsOK'
  <2>1. 0 \in Desc
    BY Sizes
  <2>2. desc' \in [Desc -> [kind : {"none", "op", "data", "status"}, of : Desc \cup Blocks,
                            more : {0, 1}, next : Desc]]
    BY <1>3, <2>1 DEF Alloc, LocalsOK
  <2>3. /\ ops' \in [Desc -> [type : {0, 1}, sector : Blocks \cup {NoBlock}]]
        /\ info' \in [Desc -> [b : Blocks \cup {NoBlock}, status : {0, 255}]]
    BY <1>3 DEF Alloc, LocalsOK
  <2>4. pc' \in [Procs -> Pcs] /\ idx' \in [Procs -> Desc \X Desc \X Desc]
    BY DEF Alloc, LocalsOK, Pcs
  <2> QED BY <1>1, <2>2, <2>3, <2>4 DEF LocalsOK, Running
<1>14. CallInv'
  BY <1>1, <1>4, Names DEF CallInv, Holding
<1>15. ChainsInv'
  <2>1. ASSUME NEW q \in HasChain PROVE Linked(q)'
    <3>1. Linked(q) /\ q # p /\ q \in Procs
      BY <1>6 DEF ChainsInv
    <3>2. idx[q][1] \in ChainOf(q) /\ idx[q][2] \in ChainOf(q) /\ idx[q][3] \in ChainOf(q)
      BY DEF ChainOf
    <3>3. /\ desc'[idx[q][1]] = desc[idx[q][1]] /\ desc'[idx[q][2]] = desc[idx[q][2]]
          /\ desc'[idx[q][3]] = desc[idx[q][3]] /\ ops'[idx[q][1]] = ops[idx[q][1]]
          /\ info'[idx[q][1]] = info[idx[q][1]] /\ idx'[q] = idx[q] /\ b'[q] = b[q] /\ write'[q] = write[q]
      BY <1>1, <1>4, <1>6, <3>1, <3>2
    <3> QED BY <3>1, <3>3 DEF Linked
  <2>2. Linked(p)'
    BY <1>1, <1>2, <1>4 DEF Linked
  <2>3. Apart'
    BY <1>5, <1>6, <1>7, <1>8 DEF ChainsInv, Apart
  <2>4. Taken'
    BY <1>4, <1>5, <1>7, <1>8 DEF ChainsInv, Taken
  <2> QED BY <1>5, <2>1, <2>2, <2>3, <2>4 DEF ChainsInv
<1>16. RingsInv' /\ Unhandled' = Unhandled
  BY <1>1, <1>11 DEF RingsInv, Unhandled, Once, Entries, Span, Place
<1>17. PlaceInv'
  BY <1>1, <1>9, <1>11, <1>16 DEF PlaceInv
<1>18. StatusInv'
  <2>1. ASSUME NEW q \in HasChain
        PROVE  info'[Front(q)] = info[Front(q)] /\ pc'[q] = pc[q]
    <3>1. Front(q) # i0 /\ Front(q) \in Desc /\ q # p /\ q \in Procs
      BY <1>6, <1>7
    <3> QED BY <1>4, <3>1
  <2> QED BY <1>1, <1>4, <1>5, <1>7, <1>8, <1>11, <2>1 DEF StatusInv
<1>19. PublishInv'
  <2>1. \A q \in Procs : pc[q] # "publish"
    BY <1>1, Names DEF CallInv, Holding
  <2> QED BY <1>1, <1>3, <1>4, <1>8, <1>11, <2>1 DEF PublishInv
<1>20. ToldInv'
  <2>1. ThreeFree' => ThreeFree
    <3>0. Free' \in SUBSET Free
      BY <1>4 DEF Free
    <3>1. IsFiniteSet(Desc) /\ Free \in SUBSET Desc /\ Free' \in SUBSET Free
      BY <3>0, FS_Interval, Small DEF Desc, Free
    <3>2. IsFiniteSet(Free) /\ Cardinality(Free) \in Nat
      BY <3>1, FS_Subset, FS_CardinalityType
    <3>3. Cardinality(Free') <= Cardinality(Free) /\ Cardinality(Free') \in Nat
      BY <3>1, <3>2, FS_Subset, FS_CardinalityType
    <3> QED BY <3>2, <3>3 DEF ThreeFree
  <2>2. \A q \in Procs : pc'[q] = "sleepbuf" => bdisk'[b[q]] = 1
    BY <1>3, <1>4 DEF ToldInv, TypeOK, CallInv
  <2>3. \A q \in Procs : pc[q] = "notify" => pc'[q] = "notify"
    BY <1>1, <1>4
  <2> QED BY <1>1, <1>4, <1>11, <1>16, <2>1, <2>2, <2>3 DEF ToldInv
<1> QED BY <1>12, <1>13, <1>14, <1>15, <1>16, <1>17, <1>18, <1>19, <1>20, <1>11, PartsPrime
           DEF QuietInv, RingsInv

-----------------------------------------------------------------------------
(* The way of a chain: avail ring, device, used ring, handler.             *)

\* avail->idx += 1
LEMMA PublishStep ==
  ASSUME IInv, NEW p \in Procs, publish(p)
  PROVE  IInv'
<1> USE DEF IInv
<1>1. /\ pc[p] = "publish" /\ avail_idx' = (avail_idx + 1) % IDX /\ pc' = [pc EXCEPT ![p] = "notify"]
      /\ UNCHANGED <<free, desc, ops, info, avail, used_idx, bdisk, panicked, data, lock, b,
                     write, idx, hpc, content, notified, seen, busy, finished, used, used_ridx, intr>>
  BY DEF publish, Goto, device
<1>2. \A q \in Procs : pc'[q] = IF q = p THEN "notify" ELSE pc[q]
  BY <1>1 DEF LocalsOK
<1>3. avail_idx \in 0..(IDX - 1) /\ seen \in 0..(IDX - 1) /\ avail \in [Desc -> Desc]
  BY DEF TypeOK
<1>4. TypeOK' /\ LocalsOK'
  BY <1>1, <1>3, NextIdx DEF TypeOK, LocalsOK, Pcs, Running
<1>5. CallInv'
  BY <1>1, <1>2 DEF CallInv, Holding
<1>6. SameChains /\ p \in HasChain
  BY <1>1, <1>2 DEF SameChains, HasChain
<1>7. ChainsInv'
  BY <1>6, KeepChains
<1>8. \A q \in HasChain : Front(q)' = Front(q)
  BY <1>1 DEF Front
<1>9. OnDisk' = OnDisk \cup {p} /\ Fronts' = Fronts \cup {Front(p)}
  <2>1. bdisk[b[p]] = 1
    BY <1>1 DEF PublishInv
  <2>2. \A q \in Procs : q \in HasChain' <=> q \in HasChain
    BY <1>6 DEF SameChains
  <2>3. OnDisk' = OnDisk \cup {p}
    BY <1>1, <1>2, <1>6, <2>1, <2>2, OnDiskChain DEF OnDisk, SameChains
  <2> QED BY <1>6, <1>8, <2>3, OnDiskChain DEF Fronts
<1>10. Front(p) \notin Fronts
  <2>1. p \notin OnDisk
    BY <1>1 DEF OnDisk
  <2> QED BY <1>6, <2>1, FrontsDiffer, OnDiskChain DEF Fronts
<1>11. avail[avail_idx % NUM] = Front(p)
  BY <1>1 DEF PublishInv
<1>12. Span(seen, avail_idx) + 1 < IDX
  <2>1. idx[p][2] \notin Fronts /\ idx[p][3] \notin Fronts /\ idx[p][2] # idx[p][3]
    BY <1>6, NoFronts
  <2>2. Unseen \subseteq Fronts
    BY DEF PlaceInv, Places
  <2>3. Once(avail, seen, avail_idx) /\ idx[p][2] \in Desc /\ idx[p][3] \in Desc
    BY IdxType DEF RingsInv
  <2> QED BY <1>3, <2>1, <2>2, <2>3, RingRoom DEF Unseen
<1>13. Unseen' = Unseen \cup {Front(p)}
  <2>1. Entries(avail, seen, avail_idx') = Entries(avail, seen, avail_idx) \cup {Front(p)}
    BY <1>1, <1>3, <1>11, <1>12, RingExtend
  <2> QED BY <1>1, <2>1 DEF Unseen
<1>14. Unhandled' = Unhandled
  BY <1>1 DEF Unhandled, Entries
<1>15. RingsInv'
  <2>1. Once(avail, seen, avail_idx) /\ Front(p) \notin Entries(avail, seen, avail_idx)
    BY <1>10 DEF RingsInv, PlaceInv, Places, Unseen
  <2>2. Once(avail, seen, avail_idx')
    BY <1>1, <1>3, <1>11, <1>12, <2>1, RingExtend
  <2> QED BY <1>1, <2>2 DEF RingsInv, Once, Span, Place
<1>16. PlaceInv'
  BY <1>1, <1>9, <1>10, <1>13, <1>14 DEF PlaceInv, Places
<1>17. StatusInv'
  <2>1. \A q \in HasChain : q # p => Front(q) # Front(p)
    BY <1>6, FrontsDiffer
  <2> QED BY <1>1, <1>2, <1>6, <1>8, <1>13, <2>1, OnDiskChain DEF StatusInv, SameChains
<1>18. PublishInv'
  <2>1. \A q \in Procs : pc[q] = "publish" => q = p
    BY <1>1 DEF CallInv, Holding
  <2> QED BY <1>2, <2>1 DEF PublishInv
<1>19. ToldInv'
  BY <1>1, <1>2, <1>14 DEF ToldInv, ThreeFree, Free
<1> QED BY <1>4, <1>5, <1>7, <1>15, <1>16, <1>17, <1>18, <1>19, PartsPrime DEF QuietInv

\* The steps of the device: nothing the driver has laid out changes.
DeviceKeeps ==
  /\ UNCHANGED <<free, desc, ops, avail, avail_idx, used_idx, bdisk, panicked, lock, caller, hpc>>
  /\ \A i \in Desc : info'[i].b = info[i].b
LEMMA DeviceStep ==
  ASSUME IInv, DeviceKeeps
  PROVE  /\ CallInv' /\ ChainsInv' /\ PublishInv' /\ SameChains /\ Fronts' = Fronts
         /\ ThreeFree' = ThreeFree /\ UNCHANGED pc
         /\ \A p \in HasChain : Front(p)' = Front(p)
<1> USE DEF IInv
<1>1. SameChains
  BY DEF SameChains, DeviceKeeps, caller, HasChain
<1>2. ChainsInv'
  BY <1>1, KeepChains
<1>3. SameFronts
  BY DEF SameFronts, DeviceKeeps, caller
<1>4. Fronts' = Fronts
  BY <1>1, <1>3, KeepFronts
<1>5. CallInv' /\ PublishInv' /\ UNCHANGED pc /\ ThreeFree' = ThreeFree
  BY DEF CallInv, PublishInv, DeviceKeeps, caller, Front, ThreeFree, Free
<1>6. \A p \in HasChain : Front(p)' = Front(p)
  BY DEF DeviceKeeps, caller, Front
<1> QED BY <1>1, <1>2, <1>4, <1>5, <1>6

LEMMA FetchInv ==
  ASSUME IInv, DevFetch
  PROVE  IInv'
<1> USE DEF IInv
<1>1. UNCHANGED <<driver, data, lock, caller, hpc, content, finished, used, used_ridx, intr>>
  BY DEF DevFetch
<1>2. DeviceKeeps
  BY <1>1 DEF DeviceKeeps, driver
<1>3. /\ CallInv' /\ ChainsInv' /\ PublishInv' /\ SameChains /\ Fronts' = Fronts
      /\ ThreeFree' = ThreeFree /\ UNCHANGED pc /\ \A p \in HasChain : Front(p)' = Front(p)
  BY <1>2, DeviceStep
<1>4. Unhandled' = Unhandled
  BY <1>1 DEF Unhandled, Entries, driver
<1>5. avail_idx \in 0..(IDX - 1) /\ seen \in 0..(IDX - 1) /\ avail \in [Desc -> Desc]
      /\ Once(avail, seen, avail_idx)
  BY DEF TypeOK, RingsInv
<1>6. CASE seen = avail_idx
  <2>1. notified' = 0 /\ UNCHANGED <<busy, seen>>
    BY <1>6 DEF DevFetch
  <2>2. Unseen = {} /\ Unseen' = Unseen
    BY <1>1, <1>5, <1>6, <2>1, RingEmpty DEF Unseen, driver
  <2>3. TypeOK' /\ LocalsOK'
    BY <1>1, <2>1 DEF TypeOK, LocalsOK, driver, caller, Running
  <2>4. RingsInv'
    BY <1>1, <2>1 DEF RingsInv, Once, Span, Place, driver
  <2>5. PlaceInv'
    BY <1>1, <1>3, <1>4, <2>1, <2>2 DEF PlaceInv
  <2>6. StatusInv'
    BY <1>1, <1>3, <2>1, <2>2 DEF StatusInv, SameChains, driver, caller
  <2>7. ToldInv'
    BY <1>1, <1>3, <1>4, <2>2 DEF ToldInv, driver, caller
  <2> QED BY <1>3, <2>3, <2>4, <2>5, <2>6, <2>7, PartsPrime DEF QuietInv
<1>7. CASE seen # avail_idx
  <2>1. PICK h : h = avail[seen % NUM]
    OBVIOUS
  <2>2. busy' = busy \cup {h} /\ seen' = (seen + 1) % IDX /\ notified' = notified
    BY <1>7, <2>1 DEF DevFetch
  <2>3. /\ h \in Entries(avail, seen, avail_idx) /\ h \in Desc
        /\ Entries(avail, seen', avail_idx) = Entries(avail, seen, avail_idx) \ {h}
        /\ Once(avail, seen', avail_idx)
    BY <1>5, <1>7, <2>1, <2>2, RingTake
  <2>4. h \in Unseen /\ Unseen' = Unseen \ {h}
    BY <1>1, <2>3 DEF Unseen, driver
  <2>5. TypeOK' /\ LocalsOK'
    BY <1>1, <1>5, <2>2, <2>3, NextIdx DEF TypeOK, LocalsOK, driver, caller, Running
  <2>6. RingsInv'
    BY <1>1, <2>3 DEF RingsInv, Once, Span, Place, driver
  <2>7. PlaceInv'
    BY <1>1, <1>3, <1>4, <2>2, <2>4 DEF PlaceInv, Places
  <2>8. StatusInv'
    BY <1>1, <1>3, <2>2, <2>4 DEF StatusInv, SameChains, driver, caller
  <2>9. ToldInv'
    BY <1>1, <1>3, <1>4, <2>2, <2>4 DEF ToldInv, driver, caller
  <2> QED BY <1>3, <2>5, <2>6, <2>7, <2>8, <2>9, PartsPrime DEF QuietInv
<1> QED BY <1>6, <1>7

\* What the device finds in the chain of a call.
LEMMA DeviceSees ==
  ASSUME LocalsOK, NEW p \in Procs, Linked(p), NEW h, h = Front(p)
  PROVE  /\ h \in Desc /\ ops[desc[h].of] = [type |-> write[p], sector |-> b[p]]
         /\ desc[desc[h].next].of = b[p] /\ desc[desc[desc[h].next].next].of = h
<1>1. h \in Desc /\ h = idx[p][1]
  BY IdxType DEF Front
<1>2. desc[h].of = h /\ desc[h].next = idx[p][2] /\ ops[h] = [type |-> write[p], sector |-> b[p]]
  BY <1>1 DEF Linked
<1>3. desc[idx[p][2]].of = b[p] /\ desc[idx[p][2]].next = idx[p][3] /\ desc[idx[p][3]].of = h
  BY <1>1 DEF Linked
<1> QED BY <1>1, <1>2, <1>3

\* The device moves the block of the call, and of no other.
LEMMA TransferIs ==
  ASSUME IInv, NEW h \in busy, DevTransfer(h)
  PROVE  \E p \in OnDisk :
           /\ h = Front(p) /\ h \in Desc /\ b[p] \in Blocks
           /\ IF write[p] = 1
                THEN content' = [content EXCEPT ![b[p]] = data[b[p]]] /\ UNCHANGED data
                ELSE data' = [data EXCEPT ![b[p]] = content[b[p]]] /\ UNCHANGED content
           /\ info' = [info EXCEPT ![h].status = 0]
<1> USE DEF IInv
<1>1. PICK p \in OnDisk : h = Front(p)
  BY Owner
<1>2. p \in HasChain /\ p \in Procs /\ Linked(p)
  BY OnDiskChain DEF ChainsInv
<1>3. b[p] \in Blocks
  BY <1>2 DEF CallInv, TypeOK, HasChain
<1>4. /\ h \in Desc /\ ops[desc[h].of] = [type |-> write[p], sector |-> b[p]]
      /\ desc[desc[h].next].of = b[p] /\ desc[desc[desc[h].next].next].of = h
  BY <1>1, <1>2, DeviceSees
<1>5. ops[desc[h].of].type = write[p] /\ ops[desc[h].of].sector = b[p]
  BY <1>4
<1>6. /\ IF write[p] = 1
           THEN content' = [content EXCEPT ![b[p]] = data[b[p]]] /\ UNCHANGED data
           ELSE data' = [data EXCEPT ![b[p]] = content[b[p]]] /\ UNCHANGED content
      /\ info' = [info EXCEPT ![h].status = 0]
  BY <1>4, <1>5 DEF DevTransfer
<1> QED BY <1>1, <1>3, <1>4, <1>6

LEMMA TransferInv ==
  ASSUME IInv, NEW h \in Desc, DevTransfer(h)
  PROVE  IInv'
<1> USE DEF IInv
<1>1. /\ h \in busy /\ busy' = busy \ {h} /\ finished' = finished \cup {h}
      /\ UNCHANGED <<free, desc, ops, avail, avail_idx, used_idx, bdisk, panicked, lock, caller,
                     hpc, notified, seen, used, used_ridx, intr>>
  BY Zenon DEF DevTransfer
<1>2. PICK p \in OnDisk :
        /\ h = Front(p) /\ h \in Desc /\ b[p] \in Blocks
        /\ IF write[p] = 1
             THEN content' = [content EXCEPT ![b[p]] = data[b[p]]] /\ UNCHANGED data
             ELSE data' = [data EXCEPT ![b[p]] = content[b[p]]] /\ UNCHANGED content
        /\ info' = [info EXCEPT ![h].status = 0]
  BY <1>1, TransferIs
<1>3. /\ \A i \in Desc : info'[i].b = info[i].b /\ (i # h => info'[i] = info[i])
      /\ info'[h].status = 0
  BY <1>2 DEF LocalsOK
<1>4. DeviceKeeps
  BY <1>1, <1>3 DEF DeviceKeeps
<1>5. /\ CallInv' /\ ChainsInv' /\ PublishInv' /\ SameChains /\ Fronts' = Fronts
      /\ ThreeFree' = ThreeFree /\ UNCHANGED pc /\ \A q \in HasChain : Front(q)' = Front(q)
  BY <1>4, DeviceStep
<1>6. Unhandled' = Unhandled /\ Unseen' = Unseen
  BY <1>1 DEF Unhandled, Unseen, Entries
<1>7. TypeOK'
  <2>1. content' \in [Blocks -> Vals] /\ data' \in [Blocks -> Vals]
    BY <1>2 DEF TypeOK
  <2> QED BY <1>1, <2>1 DEF TypeOK, caller
<1>8. LocalsOK'
  <2>1. PICK y : y = [info[h] EXCEPT !.status = 0]
    OBVIOUS
  <2>2. info' = [info EXCEPT ![h] = y]
    BY <1>2, <2>1
  <2>4. info[h] \in [b : Blocks \cup {NoBlock}, status : {0, 255}]
    BY DEF LocalsOK
  <2>5. y \in [b : Blocks \cup {NoBlock}, status : {0, 255}]
    BY <2>1, <2>4
  <2>3. info' \in [Desc -> [b : Blocks \cup {NoBlock}, status : {0, 255}]]
    BY <2>2, <2>5 DEF LocalsOK
  <2> QED BY <1>1, <2>3 DEF LocalsOK, caller, Running
<1>9. RingsInv'
  BY <1>1 DEF RingsInv, Once, Span, Place
<1>10. PlaceInv'
  BY <1>1, <1>5, <1>6 DEF PlaceInv, Places
<1>11. StatusInv'
  <2>1. p \in HasChain /\ pc[p] # "publish"
    BY DEF OnDisk
  <2>2. ASSUME NEW q \in HasChain, q # p PROVE Front(q) # h /\ Front(q) \in Desc /\ info'[Front(q)] = info[Front(q)]
    BY <1>2, <1>3, <2>1, <2>2, FrontsDiffer, IdxType, OnDiskChain
  <2>3. h \notin Unseen
    BY <1>1 DEF PlaceInv, Places
  <2>4. ASSUME NEW q \in HasChain
        PROVE  info'[Front(q)].status = 0 <=> pc[q] # "publish" /\ Front(q) \notin Unseen \cup busy'
    <3>1. CASE q = p
      BY <1>1, <1>2, <1>3, <2>1, <2>3, <3>1
    <3>2. CASE q # p
      BY <1>1, <2>2, <3>2 DEF StatusInv
    <3> QED BY <3>1, <3>2
  <2> QED BY <1>5, <1>6, <2>4 DEF StatusInv, SameChains
<1>12. ToldInv'
  BY <1>1, <1>5, <1>6 DEF ToldInv, caller
<1> QED BY <1>5, <1>7, <1>8, <1>9, <1>10, <1>11, <1>12, PartsPrime DEF QuietInv

\* used->ring[] and used->idx
LEMMA DevPublishInv ==
  ASSUME IInv, NEW h \in Desc, DevPublish(h)
  PROVE  IInv'
<1> USE DEF IInv
<1>1. /\ h \in finished /\ finished' = finished \ {h} /\ intr' = 1
      /\ used' = [used EXCEPT ![used_ridx % NUM] = h] /\ used_ridx' = (used_ridx + 1) % IDX
      /\ UNCHANGED <<driver, data, lock, caller, hpc, content, notified, seen, busy>>
  BY DEF DevPublish
<1>2. DeviceKeeps
  BY <1>1 DEF DeviceKeeps, driver
<1>3. /\ CallInv' /\ ChainsInv' /\ PublishInv' /\ SameChains /\ Fronts' = Fronts
      /\ ThreeFree' = ThreeFree /\ UNCHANGED pc /\ \A p \in HasChain : Front(p)' = Front(p)
  BY <1>2, DeviceStep
<1>4. used_idx \in 0..(IDX - 1) /\ used_ridx \in 0..(IDX - 1) /\ used \in [Desc -> Desc]
      /\ Once(used, used_idx, used_ridx)
  BY DEF TypeOK, RingsInv
<1>5. PICK p \in OnDisk : h = Front(p)
  BY <1>1, Owner
<1>6. Span(used_idx, used_ridx) < NUM /\ Span(used_idx, used_ridx) + 1 < IDX
  <2>1. idx[p][2] \notin Fronts /\ idx[p][3] \notin Fronts /\ idx[p][2] # idx[p][3]
    BY NoFronts, OnDiskChain
  <2>2. Unhandled \subseteq Fronts
    BY DEF PlaceInv, Places
  <2>3. idx[p][2] \in Desc /\ idx[p][3] \in Desc
    BY IdxType, OnDiskChain
  <2> QED BY <1>4, <2>1, <2>2, <2>3, RingRoom DEF Unhandled
<1>7. PICK s \in Desc : s = used_ridx % NUM
  BY <1>4, SlotType
<1>8. used' \in [Desc -> Desc] /\ used'[s] = h /\ \A i \in Desc : i # s => used'[i] = used[i]
  BY <1>1, <1>4, <1>7
<1>9. Entries(used', used_idx, used_ridx) = Unhandled /\ Once(used', used_idx, used_ridx)
  BY <1>4, <1>6, <1>7, <1>8, RingWrite DEF Unhandled
<1>10. h \notin Unhandled
  BY <1>1 DEF PlaceInv, Places
<1>11. /\ Entries(used', used_idx, used_ridx') = Entries(used', used_idx, used_ridx) \cup {h}
       /\ Once(used', used_idx, used_ridx')
  <2>1. used_ridx' = (used_ridx + 1) % IDX /\ h = used'[used_ridx % NUM]
    BY <1>1, <1>7, <1>8
  <2> QED BY <1>4, <1>6, <1>8, <1>9, <1>10, <2>1, RingExtend
<1>12. Unhandled' = Unhandled \cup {h}
  BY <1>1, <1>9, <1>11 DEF Unhandled, driver
<1>13. Unseen' = Unseen
  BY <1>1 DEF Unseen, Entries, driver
<1>14. TypeOK' /\ LocalsOK'
  BY <1>1, <1>4, <1>8, NextIdx DEF TypeOK, LocalsOK, driver, caller, Running
<1>15. RingsInv'
  BY <1>1, <1>11 DEF RingsInv, Once, Span, Place, driver
<1>16. PlaceInv'
  BY <1>1, <1>3, <1>12, <1>13 DEF PlaceInv, Places
<1>17. StatusInv'
  BY <1>1, <1>3, <1>13 DEF StatusInv, SameChains, driver, caller
<1>18. ToldInv'
  BY <1>1, <1>3, <1>13 DEF ToldInv, driver, caller
<1> QED BY <1>3, <1>14, <1>15, <1>16, <1>17, <1>18, PartsPrime DEF QuietInv

\* One entry of the used ring belongs to a call whose block has been moved.
LEMMA CompleteIs ==
  ASSUME IInv, complete
  PROVE  \E p \in OnDisk :
           /\ hpc = "loop" /\ used_idx # used_ridx /\ Front(p) = used[used_idx % NUM]
           /\ bdisk' = [bdisk EXCEPT ![b[p]] = 0]
           /\ pc' = Wake(pc, "sleepbuf", "woken", {q \in Procs : b[q] = b[p]})
           /\ used_idx' = (used_idx + 1) % IDX
<1> USE DEF IInv
<1>1. PICK h : h = used[used_idx % NUM]
  OBVIOUS
<1>2. hpc = "loop" /\ used_idx # used_ridx
  BY Zenon DEF complete
<1>3. used_idx \in 0..(IDX - 1) /\ used_ridx \in 0..(IDX - 1) /\ used \in [Desc -> Desc]
      /\ Once(used, used_idx, used_ridx)
  BY DEF TypeOK, RingsInv
<1>4. h \in Unhandled
  BY <1>1, <1>2, <1>3, RingTake DEF Unhandled
<1>5. PICK p \in OnDisk : h = Front(p)
  BY <1>4, Owner
<1>6. p \in HasChain /\ p \in Procs /\ pc[p] # "publish"
  BY OnDiskChain DEF OnDisk
<1>7. info[h].b = b[p]
  BY <1>5, <1>6 DEF ChainsInv, Linked, Front
<1>8. info[h].status = 0
  BY <1>4, <1>5, <1>6 DEF StatusInv, PlaceInv, Places
<1>9. /\ bdisk' = [bdisk EXCEPT ![b[p]] = 0]
      /\ pc' = Wake(pc, "sleepbuf", "woken", {q \in Procs : b[q] = b[p]})
      /\ used_idx' = (used_idx + 1) % IDX
  BY <1>1, <1>7, <1>8 DEF complete
<1> QED BY <1>1, <1>2, <1>5, <1>9

LEMMA CompleteInv ==
  ASSUME IInv, complete
  PROVE  IInv'
<1> USE DEF IInv
<1>1. PICK p \in OnDisk :
        /\ hpc = "loop" /\ used_idx # used_ridx /\ Front(p) = used[used_idx % NUM]
        /\ bdisk' = [bdisk EXCEPT ![b[p]] = 0]
        /\ pc' = Wake(pc, "sleepbuf", "woken", {q \in Procs : b[q] = b[p]})
        /\ used_idx' = (used_idx + 1) % IDX
  BY CompleteIs
<1>2. UNCHANGED <<free, desc, ops, info, avail, avail_idx, data, lock, b, write, idx, hpc,
                  content, notified, seen, busy, finished, used, used_ridx, intr>>
  BY Zenon DEF complete, device
<1>3. UNCHANGED panicked
  <2>1. info[used[used_idx % NUM]].status = 0
    <3>1. Front(p) \in Unhandled
      BY <1>1, RingTake DEF Unhandled, TypeOK, RingsInv
    <3> QED BY <1>1, <3>1 DEF StatusInv, PlaceInv, Places, OnDisk
  <2> QED BY <2>1 DEF complete
<1>4. p \in HasChain /\ p \in Procs /\ b[p] \in Blocks /\ pc[p] # "publish"
  BY OnDiskChain DEF OnDisk, CallInv, TypeOK, HasChain
<1>5. /\ \A q \in Procs : pc'[q] = IF pc[q] = "sleepbuf" /\ b[q] = b[p] THEN "woken" ELSE pc[q]
      /\ \A x \in Blocks : bdisk'[x] = IF x = b[p] THEN 0 ELSE bdisk[x]
  BY <1>1 DEF Wake, TypeOK
<1>6. TypeOK'
  <2>1. used_idx' \in 0..(IDX - 1)
    BY <1>1, NextIdx DEF TypeOK
  <2>2. bdisk' \in [Blocks -> {0, 1}]
    BY <1>1 DEF TypeOK
  <2> QED BY <1>2, <2>1, <2>2 DEF TypeOK
<1>7. LocalsOK'
  <2>1. pc' \in [Procs -> Pcs]
    BY <1>1 DEF Wake, LocalsOK, Pcs
  <2> QED BY <1>2, <1>3, <2>1 DEF LocalsOK, Running
<1>8. CallInv'
  BY <1>2, <1>5 DEF CallInv, Holding
<1>9. SameChains
  BY <1>2, <1>5 DEF SameChains, HasChain
<1>10. ChainsInv'
  BY <1>9, KeepChains
<1>11. \A q \in HasChain : Front(q)' = Front(q)
  BY <1>2 DEF Front
<1>12. OnDisk' = OnDisk \ {p} /\ Fronts' = Fronts \ {Front(p)}
  <2>1. \A q \in HasChain : q # p => b[q] # b[p] /\ Front(q) # Front(p)
    BY <1>4, FrontsDiffer
  <2>2. \A q \in HasChain : b[q] \in Blocks
    BY DEF HasChain, CallInv, TypeOK
  <2>3. \A q \in HasChain : pc'[q] = "publish" <=> pc[q] = "publish"
    BY <1>5, OnDiskChain
  <2>4. \A q \in HasChain : q \in OnDisk' <=> q \in OnDisk /\ q # p
    BY <1>2, <1>4, <1>5, <1>9, <2>1, <2>2, <2>3 DEF OnDisk, SameChains
  <2>5. OnDisk' \subseteq HasChain
    BY <1>9 DEF OnDisk, SameChains
  <2>6. OnDisk' = OnDisk \ {p}
    BY <2>4, <2>5, OnDiskChain
  <2>7. \A q \in OnDisk : Front(q) = Front(p) => q = p
    BY <2>1, OnDiskChain
  <2> QED BY <1>11, <2>6, <2>7, OnDiskChain DEF Fronts
<1>13. Unseen' = Unseen
  BY <1>2 DEF Unseen, Entries
<1>14. /\ Front(p) \in Unhandled /\ Unhandled' = Unhandled \ {Front(p)}
       /\ Once(used, used_idx', used_ridx)
  <2>1. /\ Front(p) \in Entries(used, used_idx, used_ridx)
        /\ Entries(used, used_idx', used_ridx) = Entries(used, used_idx, used_ridx) \ {Front(p)}
        /\ Once(used, used_idx', used_ridx)
    BY <1>1, RingTake DEF TypeOK, RingsInv
  <2> QED BY <1>2, <2>1 DEF Unhandled
<1>15. RingsInv'
  BY <1>2, <1>14 DEF RingsInv, Once, Span, Place
<1>16. PlaceInv'
  BY <1>2, <1>12, <1>13, <1>14 DEF PlaceInv, Places
<1>17. StatusInv'
  <2>1. \A q \in HasChain : pc'[q] = "publish" <=> pc[q] = "publish"
    BY <1>5, OnDiskChain
  <2> QED BY <1>2, <1>9, <1>11, <1>13, <2>1 DEF StatusInv, SameChains
<1>18. PublishInv'
  <2>1. ASSUME NEW q \in Procs, pc'[q] = "publish"
        PROVE  avail'[avail_idx' % NUM] = Front(q)' /\ bdisk'[b'[q]] = 1
    <3>1. pc[q] = "publish" /\ q # p /\ q \in HasChain
      BY <1>4, <1>5, <2>1 DEF HasChain
    <3>2. b[q] # b[p] /\ b[q] \in Blocks
      BY <1>4, <3>1, FrontsDiffer DEF CallInv, TypeOK
    <3> QED BY <1>2, <1>5, <1>11, <3>1, <3>2 DEF PublishInv
  <2> QED BY <2>1 DEF PublishInv
<1>19. ToldInv'
  <2>1. \A q \in Procs : pc'[q] = "sleepbuf" => bdisk'[b[q]] = 1
    BY <1>5 DEF ToldInv, CallInv, TypeOK
  <2>2. ThreeFree' = ThreeFree
    BY <1>2 DEF ThreeFree, Free
  <2>3. \A q \in Procs : /\ pc[q] = "notify" => pc'[q] = "notify"
                         /\ pc'[q] = "sleepfree" => pc[q] = "sleepfree"
    BY <1>5
  <2> QED BY <1>1, <1>2, <1>13, <2>1, <2>2, <2>3 DEF ToldInv
<1> QED BY <1>6, <1>7, <1>8, <1>10, <1>15, <1>16, <1>17, <1>18, <1>19, PartsPrime DEF QuietInv

-----------------------------------------------------------------------------
(* free_chain()                                                            *)

\* The chain given back is the one taken: no panic.
FreeStep(p) ==
  /\ pc[p] = "wait" \/ (pc[p] = "woken" /\ lock = Nobody)
  /\ lock' = Nobody /\ bdisk[b[p]] # 1
  /\ info' = [info EXCEPT ![idx[p][1]].b = NoBlock]
  /\ free' = [i \in Desc |-> IF i \in ChainOf(p) THEN 1 ELSE free[i]]
  /\ desc' = [i \in Desc |-> IF i \in ChainOf(p) THEN None ELSE desc[i]]
  /\ pc' = [WakeFree(pc) EXCEPT ![p] = "idle"]
  /\ b' = [b EXCEPT ![p] = NoBlock] /\ write' = [write EXCEPT ![p] = 0]
  /\ idx' = [idx EXCEPT ![p] = <<0, 0, 0>>]
  /\ UNCHANGED <<panicked, ops, avail, avail_idx, used_idx, bdisk, data, hpc, device, intr>>

LEMMA FreeIs ==
  ASSUME IInv, NEW p \in Procs, wait(p), ~StillOnDisk(p)
  PROVE  p \in HasChain /\ FreeStep(p)
<1> USE DEF IInv
<1>1. p \in HasChain
  BY DEF wait, HasChain
<1>2. Freed(p) = ChainOf(p)
  BY <1>1, ChainIs DEF ChainsInv, Freed
<1>3. \A i \in Freed(p) : free[i] = 0
  BY <1>1, <1>2, IdxType DEF ChainsInv, Taken
<1>4. free_chain(p)
  BY DEF wait
<1>5. /\ info' = [info EXCEPT ![idx[p][1]].b = NoBlock]
      /\ free' = [i \in Desc |-> IF i \in ChainOf(p) THEN 1 ELSE free[i]]
      /\ desc' = [i \in Desc |-> IF i \in ChainOf(p) THEN None ELSE desc[i]]
      /\ pc' = [WakeFree(pc) EXCEPT ![p] = "idle"]
      /\ b' = [b EXCEPT ![p] = NoBlock] /\ write' = [write EXCEPT ![p] = 0]
      /\ idx' = [idx EXCEPT ![p] = <<0, 0, 0>>] /\ UNCHANGED panicked
  BY <1>2, <1>3, <1>4 DEF free_chain, Return
<1> QED BY <1>1, <1>5 DEF FreeStep, wait, StillOnDisk

LEMMA FreeInv ==
  ASSUME IInv, NEW p \in HasChain, FreeStep(p)
  PROVE  IInv'
<1> USE DEF IInv
<1>0. p \in Procs
  BY DEF HasChain
<1>1. /\ pc[p] = "wait" \/ (pc[p] = "woken" /\ lock = Nobody)
      /\ lock' = Nobody /\ bdisk[b[p]] # 1
      /\ UNCHANGED <<panicked, ops, avail, avail_idx, used_idx, bdisk, data, hpc, content, notified, seen,
                     busy, finished, used, used_ridx, intr>>
  BY DEF FreeStep, device
<1>2. /\ \A q \in Procs : /\ pc'[q] = IF q = p THEN "idle" ELSE IF pc[q] = "sleepfree" THEN "enter" ELSE pc[q]
                          /\ q # p => idx'[q] = idx[q] /\ b'[q] = b[q] /\ write'[q] = write[q]
      /\ b'[p] = NoBlock
      /\ \A i \in Desc : /\ free'[i] = IF i \in ChainOf(p) THEN 1 ELSE free[i]
                         /\ i \notin ChainOf(p) => desc'[i] = desc[i]
                         /\ i # Front(p) => info'[i] = info[i]
  BY <1>0 DEF FreeStep, WakeFree, Wake, LocalsOK, TypeOK, Front
<1>3. HasChain' = HasChain \ {p}
  BY <1>0, <1>2 DEF HasChain
<1>4. \A q \in HasChain \ {p} :
        /\ ChainOf(q)' = ChainOf(q) /\ Front(q)' = Front(q) /\ Front(q) \in ChainOf(q)
        /\ ChainOf(q) \subseteq Desc /\ ChainOf(q) \cap ChainOf(p) = {} /\ Front(q) # Front(p)
        /\ q \in Procs /\ idx'[q] = idx[q] /\ b'[q] = b[q] /\ write'[q] = write[q]
  <2> SUFFICES ASSUME NEW q \in HasChain \ {p}
               PROVE  /\ ChainOf(q)' = ChainOf(q) /\ Front(q)' = Front(q) /\ Front(q) \in ChainOf(q)
                      /\ ChainOf(q) \subseteq Desc /\ ChainOf(q) \cap ChainOf(p) = {} /\ Front(q) # Front(p)
                      /\ q \in Procs /\ idx'[q] = idx[q] /\ b'[q] = b[q] /\ write'[q] = write[q]
    OBVIOUS
  <2>1. q \in Procs /\ q # p
    BY OnDiskChain
  <2>2. ChainOf(q) \cap ChainOf(p) = {} /\ Front(q) # Front(p)
    BY <2>1, FrontsDiffer DEF ChainsInv, Apart
  <2>3. idx'[q] = idx[q] /\ b'[q] = b[q] /\ write'[q] = write[q]
    BY <1>2, <2>1
  <2> QED BY <2>1, <2>2, <2>3, IdxType DEF ChainOf, Front
<1>5. TypeOK'
  <2>1. free' \in [Desc -> {0, 1}] /\ b' \in [Procs -> Blocks \cup {NoBlock}]
    BY DEF FreeStep, TypeOK
  <2> QED BY <1>1, <2>1 DEF TypeOK
<1>6. LocalsOK'
  <2>1. 0 \in Desc /\ Front(p) \in Desc /\ Front(p) = idx[p][1]
    BY <1>0, Sizes, IdxType DEF Front
  <2>2. None \in [kind : {"none", "op", "data", "status"}, of : Desc \cup Blocks,
                  more : {0, 1}, next : Desc]
    BY <2>1 DEF None
  <2>3. desc' \in [Desc -> [kind : {"none", "op", "data", "status"}, of : Desc \cup Blocks,
                            more : {0, 1}, next : Desc]]
    BY <2>2 DEF FreeStep, LocalsOK
  <2>4. PICK y : y = [info[Front(p)] EXCEPT !.b = NoBlock]
    OBVIOUS
  <2>5. info' = [info EXCEPT ![Front(p)] = y]
    BY <2>1, <2>4 DEF FreeStep
  <2>6. info[Front(p)] \in [b : Blocks \cup {NoBlock}, status : {0, 255}]
    BY <2>1 DEF LocalsOK
  <2>7. y \in [b : Blocks \cup {NoBlock}, status : {0, 255}]
    BY <2>4, <2>6
  <2>8. info' \in [Desc -> [b : Blocks \cup {NoBlock}, status : {0, 255}]]
    BY <2>5, <2>7 DEF LocalsOK
  <2>9. pc' \in [Procs -> Pcs] /\ write' \in [Procs -> {0, 1}]
    BY DEF FreeStep, LocalsOK, WakeFree, Wake, Pcs
  <2>10. idx' \in [Procs -> Desc \X Desc \X Desc]
    BY <2>1 DEF FreeStep, LocalsOK
  <2> QED BY <1>1, <2>3, <2>8, <2>9, <2>10 DEF LocalsOK, Running
<1>7. CallInv'
  <2>1. \A q \in Procs : q # p => lock # q /\ pc[q] \notin Holding
    BY <1>0, <1>1, Names DEF CallInv, Holding
  <2>2. lock # Handler
    BY <1>0, <1>1, Names DEF CallInv, Holding
  <2> QED BY <1>0, <1>1, <1>2, <2>1, <2>2, Names DEF CallInv, Holding
<1>8. ChainsInv'
  <2>1. ASSUME NEW q \in HasChain \ {p} PROVE Linked(q)'
    <3>1. Linked(q)
      BY DEF ChainsInv
    <3>2. idx[q][1] \in ChainOf(q) /\ idx[q][2] \in ChainOf(q) /\ idx[q][3] \in ChainOf(q) /\ Front(q) = idx[q][1]
      BY DEF ChainOf, Front
    <3>3. /\ desc'[idx[q][1]] = desc[idx[q][1]] /\ desc'[idx[q][2]] = desc[idx[q][2]]
          /\ desc'[idx[q][3]] = desc[idx[q][3]] /\ ops' = ops
          /\ info'[idx[q][1]] = info[idx[q][1]] /\ idx'[q] = idx[q] /\ b'[q] = b[q] /\ write'[q] = write[q]
      BY <1>1, <1>2, <1>4, <3>2
    <3> QED BY <3>1, <3>3 DEF Linked
  <2>2. Apart'
    BY <1>3, <1>4 DEF ChainsInv, Apart
  <2>3. ASSUME NEW i \in Desc PROVE free'[i] = 0 <=> \E q \in HasChain \ {p} : i \in ChainOf(q)'
    <3>1. CASE i \in ChainOf(p)
      BY <1>2, <1>4, <3>1
    <3>2. CASE i \notin ChainOf(p)
      BY <1>2, <1>4, <3>2 DEF ChainsInv, Taken
    <3> QED BY <3>1, <3>2
  <2>4. Taken'
    BY <1>3, <2>3 DEF Taken
  <2> QED BY <1>3, <2>1, <2>2, <2>4 DEF ChainsInv
<1>9. OnDisk' = OnDisk /\ Fronts' = Fronts
  <2>1. p \notin OnDisk
    BY <1>1 DEF OnDisk
  <2>2. \A q \in HasChain \ {p} : q \in OnDisk' <=> q \in OnDisk
    BY <1>1, <1>2, <1>3, <1>4 DEF OnDisk
  <2>3. OnDisk' \subseteq HasChain \ {p}
    BY <1>3 DEF OnDisk
  <2>4. OnDisk' = OnDisk
    BY <2>1, <2>2, <2>3, OnDiskChain
  <2> QED BY <1>4, <2>1, <2>4, OnDiskChain DEF Fronts
<1>10. SamePlaces
  BY <1>1 DEF SamePlaces
<1>11. PlaceInv' /\ RingsInv' /\ Unseen' = Unseen /\ Unhandled' = Unhandled
  BY <1>9, <1>10, KeepPlaces
<1>12. StatusInv'
  <2>1. \A q \in HasChain \ {p} : pc'[q] = "publish" <=> pc[q] = "publish"
    BY <1>2, <1>4
  <2>2. \A q \in HasChain \ {p} : info'[Front(q)] = info[Front(q)]
    BY <1>2, <1>4
  <2> QED BY <1>1, <1>3, <1>4, <1>11, <2>1, <2>2 DEF StatusInv
<1>13. PublishInv'
  <2>1. \A q \in Procs : pc'[q] # "publish"
    BY <1>0, <1>1, <1>2, Names DEF CallInv, Holding
  <2> QED BY <2>1 DEF PublishInv
<1>14. ToldInv'
  BY <1>0, <1>1, <1>2, <1>11 DEF ToldInv
<1> QED BY <1>5, <1>6, <1>7, <1>8, <1>11, <1>12, <1>13, <1>14, PartsPrime DEF QuietInv

-----------------------------------------------------------------------------
(* The theorems.                                                           *)

LEMMA InitInv == Init => IInv
<1> SUFFICES ASSUME Init PROVE IInv
  OBVIOUS
<1>1. HasChain = {} /\ OnDisk = {} /\ Fronts = {}
  BY DEF Init, HasChain, OnDisk, Fronts
<1>2. 0 \in Desc /\ 0 \in 0..(IDX - 1)
  BY Sizes
<1>3. TypeOK
  BY <1>2 DEF Init, TypeOK
<1>4. LocalsOK
  BY <1>2 DEF Init, LocalsOK, None, Pcs, Running
<1>5. CallInv
  BY Names DEF Init, CallInv, Holding
<1>6. ChainsInv
  BY <1>1 DEF ChainsInv, Apart, Taken, Init
<1>7. Unseen = {} /\ Unhandled = {} /\ RingsInv
  BY <1>2, RingEmpty DEF Init, Unseen, Unhandled, RingsInv
<1>8. PlaceInv
  BY <1>1, <1>7 DEF PlaceInv, Places, Init
<1>9. StatusInv
  BY <1>1 DEF StatusInv
<1>10. PublishInv
  BY DEF Init, PublishInv
<1>11. ToldInv
  BY <1>7 DEF Init, ToldInv
<1> QED BY <1>3, <1>4, <1>5, <1>6, <1>7, <1>8, <1>9, <1>10, <1>11 DEF IInv

LEMMA NextInv == IInv /\ [Next]_vars => IInv'
<1> SUFFICES ASSUME IInv, [Next]_vars PROVE IInv'
  OBVIOUS
<1>1. CASE UNCHANGED vars
  <2>1. UNCHANGED <<driver, data, lock, caller, hpc, device, intr>>
    BY <1>1 DEF vars
  <2>2. SameChains /\ Quiet
    BY <2>1 DEF SameChains, Quiet, HasChain, driver, caller, device
  <2>3. QuietInv' /\ Unseen' = Unseen /\ Unhandled' = Unhandled
    BY <2>2, QuietStep
  <2>4. TypeOK' /\ LocalsOK'
    BY <2>1 DEF IInv, TypeOK, LocalsOK, driver, caller, device, Running
  <2>5. CallInv' /\ ToldInv'
    BY <2>1, <2>3 DEF IInv, CallInv, ToldInv, ThreeFree, Free, driver, caller, device
  <2> QED BY <2>3, <2>4, <2>5, PartsPrime
<1>2. CASE Next
  <2>1. CASE DevFetch
    BY <2>1, FetchInv
  <2>2. ASSUME NEW h \in Desc, DevTransfer(h) \/ DevPublish(h) PROVE IInv'
    BY <2>2, TransferInv, DevPublishInv
  <2>3. CASE Interrupt
    BY <2>3, IntrInv, CompleteInv DEF Interrupt
  <2>4. ASSUME NEW p \in Procs, NEW x \in Blocks, NEW w \in {0, 1}, virtio_disk_rw(p, x, w) PROVE IInv'
    BY <2>4, RwInv
  <2>5. ASSUME NEW p \in Procs, alloc3_desc(p) PROVE IInv'
    BY <2>5, SleepFreeInv, AllocIs, AllocInv
  <2>6. ASSUME NEW p \in Procs, publish(p) \/ notify(p) PROVE IInv'
    BY <2>6, PublishStep, NotifyInv
  <2>7. ASSUME NEW p \in Procs, wait(p) PROVE IInv'
    BY <2>7, SleepBufInv, FreeIs, FreeInv
  <2> QED BY <1>2, <2>1, <2>2, <2>3, <2>4, <2>5, <2>6, <2>7 DEF Next, Device, Driver
<1> QED BY <1>1, <1>2

\* For every number of callers, blocks and descriptors, the chain of a call is its own three
\* descriptors until the call gives them back: no panic of virtio_disk.c is reached.
THEOREM ChainsSafe == Spec => []ChainInv
<1>1. Spec => []IInv
  BY InitInv, NextInv, PTL DEF Spec
<1> QED BY <1>1, InvChains, PTL

\* A request on the disk is in one place, and nobody sleeps for what has already happened.
THEOREM CompletionsArrive == Spec => []NoLostCompletion
<1>1. Spec => []IInv
  BY InitInv, NextInv, PTL DEF Spec
<1> QED BY <1>1, InvCompletion, PTL

-----------------------------------------------------------------------------
(* The driver is a synchronous disk.                                       *)

\* The call of p, as SyncDisk sees it.
Nothing == [b |-> NoBlock, write |-> 0, done |-> 0]
CallOf(p) == IF pc[p] = "idle" THEN [b |-> NoBlock, write |-> 0, done |-> 0]
             ELSE [b |-> b[p], write |-> write[p], done |-> Moved(p)]
Bar == [p \in Procs |-> CallOf(p)]

LEMMA CallSame ==
  ASSUME NEW p \in Procs, pc'[p] = "idle" <=> pc[p] = "idle", b'[p] = b[p], write'[p] = write[p],
         Moved(p)' = Moved(p)
  PROVE  CallOf(p)' = CallOf(p)
  BY DEF CallOf

LEMMA MovedSame ==
  ASSUME NEW p \in Procs, p \in HasChain' <=> p \in HasChain,
         p \in HasChain => /\ idx'[p] = idx[p]
                           /\ info'[idx[p][1]].status = 0 <=> info[idx[p][1]].status = 0
  PROVE  Moved(p)' = Moved(p)
  BY DEF Moved

\* A step that begins no call, ends none, and moves no block.
Silent == /\ UNCHANGED <<content, data, b, write>>
          /\ \A p \in Procs : /\ pc'[p] = "idle" <=> pc[p] = "idle"
                              /\ Moved(p)' = Moved(p)
LEMMA SilentStep == ASSUME Silent PROVE UNCHANGED <<content, data, Bar>>
<1>1. \A p \in Procs : CallOf(p)' = CallOf(p)
  BY CallSame DEF Silent
<1> QED BY <1>1 DEF Bar, Silent

LEMMA KeptStep ==
  ASSUME UNCHANGED <<content, data, b, write, idx, info>>,
         \A p \in Procs : /\ pc'[p] = "idle" <=> pc[p] = "idle"
                          /\ p \in HasChain' <=> p \in HasChain
  PROVE  UNCHANGED <<content, data, Bar>>
<1>1. \A p \in Procs : Moved(p)' = Moved(p)
  BY MovedSame
<1> QED BY <1>1, SilentStep DEF Silent

LEMMA QuietSteps ==
  ASSUME IInv, NEW p \in Procs,
         \/ publish(p) \/ notify(p) \/ (wait(p) /\ StillOnDisk(p))
         \/ (alloc3_desc(p) /\ ~ThreeFree)
         \/ virtio_disk_intr \/ intr_end \/ DevFetch \/ \E h \in Desc : DevPublish(h)
  PROVE  UNCHANGED <<content, data, Bar>>
<1> USE DEF IInv
<1>1. UNCHANGED <<content, data, b, write, idx, info>>
  BY DEF publish, notify, wait, alloc3_desc, virtio_disk_intr, intr_end, DevFetch, DevPublish,
         driver, device, caller
<1>2. \A q \in Procs : /\ pc'[q] = "idle" <=> pc[q] = "idle"
                       /\ q \in HasChain' <=> q \in HasChain
  <2>1. CASE publish(p) \/ notify(p) \/ (wait(p) /\ StillOnDisk(p))
    BY <2>1 DEF publish, notify, wait, Goto, HasChain, LocalsOK
  <2>2. CASE alloc3_desc(p) /\ ~ThreeFree
    <3>1. /\ pc[p] = "enter"
          /\ pc' = [Wake(pc, "sleepfree", "enter", IF Free = {} THEN {} ELSE Procs) EXCEPT ![p] = "sleepfree"]
      BY <2>2 DEF alloc3_desc
    <3>2. \A q \in Procs : pc'[q] = pc[q] \/ {pc[q], pc'[q]} \subseteq {"enter", "sleepfree"}
      BY <3>1 DEF Wake
    <3> QED BY <3>2 DEF HasChain
  <2>3. CASE UNCHANGED pc
    BY <2>3 DEF HasChain
  <2> QED BY <2>1, <2>2, <2>3 DEF virtio_disk_intr, intr_end, DevFetch, DevPublish, caller
<1> QED BY <1>1, <1>2, KeptStep

LEMMA CompleteSilent == ASSUME IInv, complete PROVE UNCHANGED <<content, data, Bar>>
<1>1. PICK p \in OnDisk : pc' = Wake(pc, "sleepbuf", "woken", {q \in Procs : b[q] = b[p]})
  BY CompleteIs
<1>2. UNCHANGED <<content, data, b, write, idx, info>>
  BY Zenon DEF complete, device
<1>3. \A q \in Procs : pc'[q] = pc[q] \/ {pc[q], pc'[q]} \subseteq {"sleepbuf", "woken"}
  BY <1>1 DEF Wake
<1>4. \A q \in Procs : /\ pc'[q] = "idle" <=> pc[q] = "idle"
                       /\ q \in HasChain' <=> q \in HasChain
  BY <1>3 DEF HasChain
<1> QED BY <1>2, <1>4, KeptStep

LEMMA AllocSilent ==
  ASSUME IInv, NEW p \in Procs, NEW i0 \in Desc, NEW i1 \in Desc, NEW i2 \in Desc, Alloc(p, i0, i1, i2)
  PROVE  UNCHANGED <<content, data, Bar>>
<1> USE DEF IInv
<1>1. /\ pc[p] = "enter" /\ free[i0] = 1 /\ UNCHANGED <<content, data, b, write>>
      /\ \A q \in Procs : /\ pc'[q] = IF q = p THEN "publish" ELSE pc[q]
                          /\ q # p => idx'[q] = idx[q]
      /\ idx'[p] = <<i0, i1, i2>> /\ info'[i0].status = 255
      /\ \A i \in Desc : i # i0 => info'[i] = info[i]
  BY DEF Alloc, LocalsOK, device, Free
<1>2. Moved(p)' = Moved(p)
  BY <1>1 DEF Moved, HasChain
<1>3. ASSUME NEW q \in Procs, q # p PROVE Moved(q)' = Moved(q)
  <2>1. q \in HasChain' <=> q \in HasChain
    BY <1>1, <1>3 DEF HasChain
  <2>2. ASSUME q \in HasChain PROVE idx[q][1] # i0
    BY <1>1, <2>2, IdxType DEF ChainsInv, Taken, Front
  <2> QED BY <1>1, <1>3, <2>1, <2>2, MovedSame, IdxType
<1> QED BY <1>1, <1>2, <1>3, SilentStep DEF Silent

\* A call begins.
LEMMA RwIsCall ==
  ASSUME IInv, NEW p \in Procs, NEW x \in Blocks, NEW w \in {0, 1}, virtio_disk_rw(p, x, w)
  PROVE  SD!Call(p, x, w)
<1> USE DEF IInv
<1>1. /\ pc[p] = "idle" /\ \A q \in Procs : b[q] # x
      /\ UNCHANGED <<idx, info, content>>
      /\ \A q \in Procs : /\ pc'[q] = IF q = p THEN "enter" ELSE pc[q]
                          /\ b'[q] = IF q = p THEN x ELSE b[q]
                          /\ write'[q] = IF q = p THEN w ELSE write[q]
      /\ \/ w = 0 /\ UNCHANGED data
         \/ w = 1 /\ \E v \in Vals : data' = [data EXCEPT ![x] = v]
  BY DEF virtio_disk_rw, Goto, TypeOK, LocalsOK, driver, device
<1>2. \A q \in Procs : q # p => CallOf(q)' = CallOf(q)
  <2>1. \A q \in Procs : q \in HasChain' <=> q \in HasChain
    BY <1>1 DEF HasChain
  <2> QED BY <1>1, <2>1, MovedSame, CallSame
<1>3. CallOf(p) = Nothing /\ CallOf(p)' = [b |-> x, write |-> w, done |-> 0]
  BY <1>1 DEF CallOf, Nothing, Moved, HasChain
<1>4. \A q \in Procs : CallOf(q).b # x
  BY <1>1, Names DEF CallOf
<1>5. Bar' = [Bar EXCEPT ![p] = [b |-> x, write |-> w, done |-> 0]]
  BY <1>2, <1>3 DEF Bar
<1>6. Bar[p] = Nothing /\ \A q \in Procs : Bar[q].b # x
  BY <1>3, <1>4 DEF Bar
<1> QED BY <1>1, <1>5, <1>6 DEF SD!Call, SD!Idle, Bar, CallOf, Nothing

\* The device moves a block.
LEMMA TransferIsMove ==
  ASSUME IInv, NEW h \in Desc, DevTransfer(h)
  PROVE  \E p \in Procs : SD!Move(p)
<1> USE DEF IInv
<1>1. h \in busy /\ UNCHANGED caller
  BY Zenon DEF DevTransfer
<1>2. PICK p \in OnDisk :
        /\ h = Front(p) /\ h \in Desc /\ b[p] \in Blocks
        /\ IF write[p] = 1
             THEN content' = [content EXCEPT ![b[p]] = data[b[p]]] /\ UNCHANGED data
             ELSE data' = [data EXCEPT ![b[p]] = content[b[p]]] /\ UNCHANGED content
        /\ info' = [info EXCEPT ![h].status = 0]
  BY <1>1, TransferIs
<1>3. p \in HasChain /\ p \in Procs /\ pc[p] # "idle"
  BY OnDiskChain DEF HasChain
<1>4. HasChain' = HasChain /\ UNCHANGED <<pc, b, write, idx>>
  BY <1>1 DEF HasChain, caller
<1>5. Moved(p) = 0 /\ Moved(p)' = 1
  <2>1. info[h].status # 0 /\ info'[h].status = 0
    BY <1>1, <1>2, <1>3 DEF StatusInv, LocalsOK
  <2> QED BY <1>2, <1>3, <1>4, <2>1 DEF Moved, Front
<1>6. ASSUME NEW q \in Procs, q # p PROVE CallOf(q)' = CallOf(q)
  <2>1. ASSUME q \in HasChain PROVE info'[idx[q][1]] = info[idx[q][1]]
    <3>1. idx[q][1] # h /\ idx[q][1] \in Desc
      BY <1>2, <1>3, <1>6, <2>1, FrontsDiffer, IdxType DEF Front
    <3> QED BY <1>2, <3>1 DEF LocalsOK
  <2>2. Moved(q)' = Moved(q)
    BY <1>4, <2>1, MovedSame
  <2> QED BY <1>4, <2>2, CallSame
<1>7. /\ CallOf(p) = [b |-> b[p], write |-> write[p], done |-> 0]
      /\ CallOf(p)' = [b |-> b[p], write |-> write[p], done |-> 1]
  BY <1>3, <1>4, <1>5 DEF CallOf
<1>8. Bar[p] = [b |-> b[p], write |-> write[p], done |-> 0]
  BY <1>3, <1>7 DEF Bar
<1>9. Bar' = [Bar EXCEPT ![p] = [b |-> b[p], write |-> write[p], done |-> 1]]
  BY <1>6, <1>7 DEF Bar
<1>10. Bar' = [Bar EXCEPT ![p].done = 1]
  <2>1. PICK r : r = [b |-> b[p], write |-> write[p], done |-> 0]
    OBVIOUS
  <2>2. [r EXCEPT !.done = 1] = [b |-> b[p], write |-> write[p], done |-> 1]
    BY <2>1
  <2>3. [Bar EXCEPT ![p].done = 1] = [Bar EXCEPT ![p] = [r EXCEPT !.done = 1]]
    BY <1>8, <2>1
  <2> QED BY <1>9, <2>2, <2>3
<1>11. b[p] # NoBlock /\ Bar[p].b = b[p] /\ Bar[p].done = 0 /\ Bar[p].write = write[p]
  BY <1>2, <1>8, Names
<1>12. SD!Move(p)
  BY <1>2, <1>10, <1>11 DEF SD!Move, Bar, CallOf
<1> QED BY <1>3, <1>12

\* The call returns, its block moved.
LEMMA FreeIsReturn ==
  ASSUME IInv, NEW p \in HasChain, FreeStep(p)
  PROVE  SD!Return(p)
<1> USE DEF IInv
<1>0. p \in Procs
  BY DEF HasChain
<1>1. /\ pc[p] \in {"wait", "woken"} /\ bdisk[b[p]] # 1 /\ UNCHANGED <<content, data>>
      /\ \A q \in Procs : /\ pc'[q] = IF q = p THEN "idle" ELSE IF pc[q] = "sleepfree" THEN "enter" ELSE pc[q]
                          /\ q # p => idx'[q] = idx[q] /\ b'[q] = b[q] /\ write'[q] = write[q]
      /\ \A i \in Desc : info'[i].status = info[i].status
  BY <1>0 DEF FreeStep, WakeFree, Wake, LocalsOK, TypeOK, device
<1>2. Moved(p) = 1
  <2>1. Front(p) \notin Fronts
    <3>1. p \notin OnDisk
      BY <1>1 DEF OnDisk
    <3> QED BY <3>1, FrontsDiffer, OnDiskChain DEF Fronts
  <2>2. Front(p) \notin Unseen \cup busy
    BY <2>1 DEF PlaceInv, Places
  <2> QED BY <1>1, <2>2 DEF StatusInv, Moved, Front
<1>3. ASSUME NEW q \in Procs, q # p PROVE CallOf(q)' = CallOf(q)
  <2>1. q \in HasChain' <=> q \in HasChain
    BY <1>1, <1>3 DEF HasChain
  <2>2. Moved(q)' = Moved(q)
    BY <1>1, <1>3, <2>1, MovedSame, IdxType
  <2> QED BY <1>1, <1>3, <2>2, CallSame
<1>4. CallOf(p).done = 1 /\ CallOf(p)' = Nothing
  BY <1>0, <1>1, <1>2 DEF CallOf, Nothing
<1>5. Bar[p].done = 1 /\ Bar' = [Bar EXCEPT ![p] = Nothing]
  BY <1>0, <1>3, <1>4 DEF Bar
<1> QED BY <1>1, <1>5 DEF SD!Return, SD!Idle, Bar, CallOf, Nothing

LEMMA RefStep ==
  ASSUME IInv, [Next]_vars
  PROVE  SD!SNext \/ UNCHANGED <<content, data, Bar>>
<1>1. CASE UNCHANGED vars
  BY <1>1, KeptStep DEF vars, driver, caller, device, HasChain
<1>2. CASE Next
  <2>1. ASSUME Procs = {} PROVE UNCHANGED <<content, data, Bar>>
    <3>1. HasChain = {} /\ OnDisk = {}
      BY <2>1 DEF HasChain, OnDisk
    <3>2. busy = {} /\ ~ complete
      BY <3>1, CompleteIs DEF IInv, PlaceInv, Places, Fronts
    <3>3. UNCHANGED <<content, data>>
      BY <1>2, <2>1, <3>2, Zenon
         DEF Next, Device, Interrupt, DevFetch, DevTransfer, DevPublish, virtio_disk_intr, intr_end, device
    <3> QED BY <2>1, <3>3 DEF Bar
  <2>2. ASSUME NEW p \in Procs, DevFetch \/ (\E h \in Desc : DevPublish(h)) \/ virtio_disk_intr \/ intr_end
        PROVE  UNCHANGED <<content, data, Bar>>
    BY <2>2, QuietSteps
  <2>3. CASE complete
    BY <2>3, CompleteSilent
  <2>4. ASSUME NEW h \in Desc, DevTransfer(h) PROVE SD!SNext
    BY <2>4, TransferIsMove DEF SD!SNext
  <2>5. ASSUME NEW p \in Procs, NEW x \in Blocks, NEW w \in {0, 1}, virtio_disk_rw(p, x, w) PROVE SD!SNext
    BY <2>5, RwIsCall DEF SD!SNext
  <2>6. ASSUME NEW p \in Procs, alloc3_desc(p) PROVE UNCHANGED <<content, data, Bar>>
    BY <2>6, QuietSteps, AllocIs, AllocSilent
  <2>7. ASSUME NEW p \in Procs, publish(p) \/ notify(p) PROVE UNCHANGED <<content, data, Bar>>
    BY <2>7, QuietSteps
  <2>8. ASSUME NEW p \in Procs, wait(p) PROVE SD!SNext \/ UNCHANGED <<content, data, Bar>>
    <3>1. CASE StillOnDisk(p)
      BY <2>8, <3>1, QuietSteps
    <3>2. CASE ~StillOnDisk(p)
      BY <2>8, <3>2, FreeIs, FreeIsReturn DEF SD!SNext
    <3> QED BY <3>1, <3>2
  <2> QED BY <1>2, <2>1, <2>2, <2>3, <2>4, <2>5, <2>6, <2>7, <2>8 DEF Next, Device, Interrupt, Driver
<1> QED BY <1>1, <1>2

\* The driver, its handler and the device refine SyncDisk: a call moves its block once,
\* before it returns, for every number of calls in flight and every order of completion.
THEOREM DriverMovesOnce == Spec => MovesOnce
<1>1. Init => SD!SInit
  BY DEF Init, SD!SInit, SD!Idle
<1>2. IInv /\ [Next]_vars =>
        [SD!SNext]_<<content, data,
          [p \in Procs |-> IF pc[p] = "idle" THEN [b |-> NoBlock, write |-> 0, done |-> 0]
                           ELSE [b |-> b[p], write |-> write[p], done |-> Moved(p)]]>>
  BY RefStep DEF Bar, CallOf
<1> QED BY <1>1, <1>2, InitInv, NextInv, PTL DEF Spec, MovesOnce, SD!SSpec, SD!svars
=============================================================================
