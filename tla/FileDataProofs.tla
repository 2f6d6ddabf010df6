--------------------------- MODULE FileDataProofs ---------------------------
(***************************************************************************)
(* Theorems about FileData, for any number of processes, inodes and blocks *)
(* and any size of block, of inode and of transaction.                     *)
(*                                                                         *)
(* bmap() allocates in at most two places, and every change it makes is    *)
(* one of two: a free block goes into an address of the inode, or into an  *)
(* entry of its indirect block.  The lemmas about these are stated for     *)
(* values bm, d and A of bitmap, data and addrs, so that they can be       *)
(* applied one after the other.                                            *)
(***************************************************************************)
EXTENDS FileData, FiniteSetTheorems, WellFoundedInduction, TLAPS

-----------------------------------------------------------------------------
(* Facts about numbers.                                                    *)

\* Quotient and remainder are unique.
LEMMA ModUnique ==
  ASSUME NEW W \in Nat, W > 0, NEW a \in Int, NEW q \in Int, NEW r \in 0..(W - 1),
         a = q * W + r
  PROVE  a % W = r
  OBVIOUS

\* Multiplication distributes; stated so that the provers need not find it.
LEMMA MultAdd ==
  ASSUME NEW a \in Int, NEW b \in Int, NEW P \in Int
  PROVE  (a + b) * P = a * P + b * P
  OBVIOUS

\* Numbers in range are their own remainders.
LEMMA ModSmall ==
  ASSUME NEW P \in Nat, P > 0, NEW x \in 0..(P - 1)
  PROVE  x % P = x
  OBVIOUS

\* A set of natural numbers has a least one.
LEMMA NatMin ==
  ASSUME NEW T \in SUBSET Nat, T # {}
  PROVE  \E x \in T : \A y \in T : x <= y
  <1>1. PICK R : R = OpToRel(<, Nat)
    OBVIOUS
  <1>2. IsWellFoundedOn(R, Nat)
    BY <1>1, NatLessThanWellFounded
  <1>3. PICK x \in T : \A y \in T : ~ (<<y, x>> \in R)
    BY <1>2, WFMin
  <1>4. \A y \in T : ~ (y < x)
    BY <1>1, <1>3 DEF OpToRel
  <1>5. \A y \in T : x <= y
    BY <1>4
  <1>6. QED BY <1>5

-----------------------------------------------------------------------------
(* The inductive invariant.                                                *)

Content == [0..(BSIZE - 1) -> ({Nobody} \X (0..NBLOCKS)) \cup (Inodes \X Nat)]
Addrs == [0..NDIRECT -> 0..NBLOCKS]

\* The places where an inode can name a block: its addresses, that of the indirect block
\* last, and then the entries of the indirect block.
Places == 0..(NDIRECT + NINDIRECT)
IndirectOf(a, d) == IF a[NDIRECT] = 0 THEN Zeroed ELSE d[a[NDIRECT]]
Place(a, d, k) == IF k <= NDIRECT THEN a[k] ELSE IndirectOf(a, d)[k - NDIRECT - 1][2]
\* The place of block bn of the file.
PlaceOf(bn) == IF bn < NDIRECT THEN bn ELSE bn + 1

AllocType(bm, d, A) ==
  /\ bm \in [Blocks -> {0, 1}] /\ d \in [Blocks -> Content] /\ A \in [Inodes -> Addrs]
\* What an inode takes for its indirect block holds addresses.
IndirectAddrs(d, A) ==
  \A i \in Inodes, k \in 0..(BSIZE - 1) : IndirectOf(A[i], d)[k] \in {Nobody} \X (0..NBLOCKS)
OneOwner(d, A) ==
  \A i, j \in Inodes : \A k, l \in Places :
    Place(A[i], d, k) # 0 /\ Place(A[i], d, k) = Place(A[j], d, l) => i = j /\ k = l
Marked(bm, d, A) ==
  \A b \in Blocks : bm[b] = 1 <=> \E i \in Inodes, k \in Places : Place(A[i], d, k) = b
Alloc(bm, d, A) ==
  AllocType(bm, d, A) /\ IndirectAddrs(d, A) /\ OneOwner(d, A) /\ Marked(bm, d, A)

\* The first n bytes of inode i are there.
Holds(a, d, i, n) ==
  \A o \in 0..(n - 1) :
    /\ Place(a, d, PlaceOf(o \div BSIZE)) # 0
    /\ d[Place(a, d, PlaceOf(o \div BSIZE))][o % BSIZE] = Byte(i, o)

MAXBYTES == MAXFILE * BSIZE
Writing == {"writei", "update"}

TypeOK ==
  /\ size \in [Inodes -> 0..MAXBYTES] /\ off \in [Files -> 0..MAXBYTES]
  /\ ilk \in [Inodes -> Procs \cup {Nobody}]
  /\ pc \in [Procs -> {"user", "chunk", "itrunc"} \cup Writing]
  /\ call \in [Procs -> [f : (Inodes \cup {Nobody}) \X Nat, n : Int, n1 : Int, at : Int, tot : Int]]
  /\ daddrs \in [Inodes -> Addrs] /\ dsize \in [Inodes -> 0..MAXBYTES]
  /\ wrote \in [Procs -> SUBSET Int]

\* The blocks a transaction that writes n1 bytes from offset s on can log.
Touched(i, s, n1) ==
  {Bitmap, InodeBlock, addrs[i][NDIRECT]}
    \cup {Place(addrs[i], data, PlaceOf(bn)) : bn \in (s \div BSIZE)..((s + n1 - 1) \div BSIZE)}

WriterOK(p) ==
  LET c == call[p]
      i == inode(p)
      s == off[c.f]
  IN /\ c.f \in Files /\ ilk[i] = p
     /\ c.n1 \in 1..MaxWrite /\ c.tot \in 0..c.n1 /\ c.at = s + c.tot
     /\ At(p, "update") => c.tot < c.n1
     /\ s + c.n1 <= MAXBYTES
     /\ Holds(addrs[i], data, i, size[i]) /\ Holds(addrs[i], data, i, c.at)
     /\ wrote[p] \subseteq Touched(i, s, c.n1)

ProcOK(p) ==
  /\ At(p, "user") => call[p] = Idle
  /\ pc[p] \in {"user", "chunk"} => wrote[p] = {}
  /\ At(p, "chunk") => call[p].f \in Files
  /\ pc[p] \in Writing => WriterOK(p)
  /\ At(p, "itrunc") => /\ inode(p) \in Inodes /\ ilk[inode(p)] = p
                        /\ wrote[p] = {Bitmap, InodeBlock}
                        /\ \A k \in 0..(NDIRECT - 1) : addrs[inode(p)][k] = 0

InodeOK(i) ==
  ilk[i] = Nobody => /\ Holds(addrs[i], data, i, size[i])
                     /\ daddrs[i] = addrs[i] /\ dsize[i] = size[i]

IInv ==
  /\ TypeOK /\ Alloc(bitmap, data, addrs)
  /\ \A p \in Procs : ProcOK(p)
  /\ \A i \in Inodes : InodeOK(i)

-----------------------------------------------------------------------------
(* Offsets and blocks.                                                     *)

LEMMA DivMod ==
  ASSUME NEW B \in Nat, B > 0, NEW o \in Nat
  PROVE  /\ o \div B \in Nat /\ o % B \in 0..(B - 1)
         /\ \E q \in Nat, r \in 0..(B - 1) : q = o \div B /\ r = o % B /\ o = q * B + r
  <1>1. o \div B \in Nat /\ o % B \in 0..(B - 1)
    OBVIOUS
  <1>2. o = (o \div B) * B + (o % B)
    OBVIOUS
  <1>3. QED BY <1>1, <1>2

LEMMA DivUnique ==
  ASSUME NEW B \in Nat, B > 0, NEW q \in Nat, NEW r \in 0..(B - 1)
  PROVE  (q * B + r) \div B = q /\ (q * B + r) % B = r
  OBVIOUS

LEMMA MultMono ==
  ASSUME NEW B \in Nat, NEW x \in Int, NEW y \in Int, x <= y
  PROVE  x * B <= y * B
  OBVIOUS

\* Offsets in order lie in blocks in order.
LEMMA DivMono ==
  ASSUME NEW B \in Nat, B > 0, NEW x \in Nat, NEW y \in Nat, x <= y
  PROVE  x \div B <= y \div B
  <1>1. PICK q \in Nat, r \in 0..(B - 1) : q = x \div B /\ r = x % B /\ x = q * B + r
    BY DivMod
  <1>2. PICK u \in Nat, v \in 0..(B - 1) : u = y \div B /\ v = y % B /\ y = u * B + v
    BY DivMod
  <1>3. SUFFICES ASSUME u + 1 <= q PROVE FALSE
    BY <1>1, <1>2
  <1>4. (u + 1) * B <= q * B
    BY <1>3, MultMono
  <1>5. (u + 1) * B = u * B + B
    BY MultAdd
  <1>6. PICK a \in Int, b \in Int : a = u * B /\ b = q * B
    OBVIOUS
  <1>7. QED BY <1>1, <1>2, <1>4, <1>5, <1>6

\* An offset below N blocks lies in one of them.
LEMMA DivBound ==
  ASSUME NEW B \in Nat, B > 0, NEW N \in Nat, NEW o \in Nat, o < N * B
  PROVE  o \div B < N
  <1>1. PICK q \in Nat, r \in 0..(B - 1) : q = o \div B /\ r = o % B /\ o = q * B + r
    BY DivMod
  <1>2. SUFFICES ASSUME N <= q PROVE FALSE
    BY <1>1
  <1>3. N * B <= q * B
    BY <1>2, MultMono
  <1>4. PICK a \in Int, b \in Int : a = N * B /\ b = q * B
    OBVIOUS
  <1>5. QED BY <1>1, <1>3, <1>4

\* n bytes, no more than K blocks have, lie in at most K + 1 blocks.
LEMMA DivSpan ==
  ASSUME NEW B \in Nat, B > 0, NEW K \in Nat, NEW s \in Nat, NEW n \in Nat, n >= 1, n <= K * B
  PROVE  (s + n - 1) \div B <= s \div B + K
  <1>1. PICK q \in Nat, r \in 0..(B - 1) : q = s \div B /\ r = s % B /\ s = q * B + r
    BY DivMod
  <1>2. PICK y \in Nat : y = s + n - 1
    OBVIOUS
  <1>3. PICK u \in Nat, v \in 0..(B - 1) : u = y \div B /\ v = y % B /\ y = u * B + v
    BY DivMod
  <1>4. SUFFICES ASSUME q + K + 1 <= u PROVE FALSE
    BY <1>1, <1>2, <1>3
  <1>5. (q + K + 1) * B <= u * B
    BY <1>4, MultMono
  <1>6. (q + K + 1) * B = q * B + K * B + B
    <2>1. (q + K + 1) * B = (q + K) * B + 1 * B
      BY MultAdd
    <2>2. (q + K) * B = q * B + K * B
      BY MultAdd
    <2>3. QED BY <2>1, <2>2
  <1>7. PICK a \in Int, b \in Int, c \in Int : a = q * B /\ b = K * B /\ c = u * B
    OBVIOUS
  <1>8. QED BY <1>1, <1>2, <1>3, <1>5, <1>6, <1>7

\* Offsets in the rest of a block.
LEMMA SameBlock ==
  ASSUME NEW B \in Nat, B > 0, NEW at \in Nat, NEW o \in Nat, at <= o, o < at + (B - (at % B))
  PROVE  o \div B = at \div B /\ o % B = (at % B) + (o - at)
  <1>1. PICK q \in Nat, r \in 0..(B - 1) : q = at \div B /\ r = at % B /\ at = q * B + r
    BY DivMod
  <1>2. PICK u \in Nat : u = r + (o - at)
    BY <1>1
  <1>3. u \in 0..(B - 1)
    BY <1>1, <1>2
  <1>4. PICK a \in Int : a = q * B
    OBVIOUS
  <1>5. o = q * B + u
    BY <1>1, <1>2, <1>4
  <1>6. QED BY <1>1, <1>2, <1>3, <1>5, DivUnique

\* An offset is given by its block and the place in it.
LEMMA OffsetIs ==
  ASSUME NEW B \in Nat, B > 0, NEW at \in Nat, NEW o \in Nat, o \div B = at \div B
  PROVE  (at - (at % B)) + (o % B) = o
  <1>1. PICK q \in Nat, r \in 0..(B - 1) : q = at \div B /\ r = at % B /\ at = q * B + r
    BY DivMod
  <1>2. PICK u \in Nat, v \in 0..(B - 1) : u = o \div B /\ v = o % B /\ o = u * B + v
    BY DivMod
  <1>3. PICK a \in Int : a = q * B
    OBVIOUS
  <1>4. QED BY <1>1, <1>2, <1>3

LEMMA MinTwo ==
  ASSUME NEW a \in Int, NEW b \in Int
  PROVE  Min({a, b}) \in {a, b} /\ Min({a, b}) <= a /\ Min({a, b}) <= b
  BY DEF Min

LEMMA MaxTwo ==
  ASSUME NEW a \in Int, NEW b \in Int
  PROVE  Max({a, b}) \in {a, b} /\ Max({a, b}) >= a /\ Max({a, b}) >= b
  BY DEF Max

LEMMA MinIn ==
  ASSUME NEW S \in SUBSET Nat, S # {}
  PROVE  Min(S) \in S
  BY NatMin DEF Min

-----------------------------------------------------------------------------
(* Allocation.                                                             *)

LEMMA Consts ==
  /\ BSIZE \in Nat /\ BSIZE > 0 /\ NDIRECT \in Nat /\ NDIRECT > 0 /\ NBLOCKS \in Nat
  /\ NINDIRECT = BSIZE /\ MAXFILE = NDIRECT + BSIZE /\ MAXFILE \in Nat
  BY FileDataAssumption DEF NINDIRECT, MAXFILE

LEMMA ZeroedType ==
  /\ Zeroed \in Content
  /\ \A k \in 0..(BSIZE - 1) : Zeroed[k] \in {Nobody} \X (0..NBLOCKS) /\ Zeroed[k][2] = 0
  BY Consts DEF Zeroed, Content, Addr

\* A place names a block, or none.
LEMMA PlaceType ==
  ASSUME NEW bm, NEW d, NEW A, AllocType(bm, d, A), IndirectAddrs(d, A), NEW i \in Inodes,
         NEW k \in Places
  PROVE  Place(A[i], d, k) \in 0..NBLOCKS
  <1>1. CASE k <= NDIRECT
    BY <1>1, Consts DEF Place, AllocType, Addrs, Places
  <1>2. CASE ~(k <= NDIRECT)
    <2>1. k - NDIRECT - 1 \in 0..(BSIZE - 1)
      BY <1>2, Consts DEF Places
    <2>2. IndirectOf(A[i], d)[k - NDIRECT - 1] \in {Nobody} \X (0..NBLOCKS)
      BY <2>1 DEF IndirectAddrs
    <2>3. QED BY <1>2, <2>2 DEF Place
  <1>3. QED BY <1>1, <1>2

\* What a free block has to do with an inode: nothing.
LEMMA FreeBlock ==
  ASSUME NEW bm, NEW d, NEW A, Marked(bm, d, A), NEW b \in Blocks, bm[b] = 0,
         NEW i \in Inodes, NEW k \in Places
  PROVE  Place(A[i], d, k) # b
  BY DEF Marked

\* Block b, which was free, has come to be named in place k of inode i, and in no other.
Added(bm, d, A, bm2, d2, A2, i, k, b) ==
  /\ Place(A[i], d, k) = 0 /\ bm[b] = 0
  /\ bm2[b] = 1 /\ \A x \in Blocks : x # b => bm2[x] = bm[x]
  /\ Place(A2[i], d2, k) = b
  /\ \A j \in Inodes, l \in Places :
       ~(j = i /\ l = k) => Place(A2[j], d2, l) = Place(A[j], d, l)

LEMMA AddPlace ==
  ASSUME NEW bm, NEW d, NEW A, OneOwner(d, A), Marked(bm, d, A),
         NEW i \in Inodes, NEW k \in Places, NEW b \in Blocks, NEW bm2, NEW d2, NEW A2,
         Added(bm, d, A, bm2, d2, A2, i, k, b)
  PROVE  OneOwner(d2, A2) /\ Marked(bm2, d2, A2)
  <1>0. /\ Place(A[i], d, k) = 0 /\ bm[b] = 0
        /\ bm2[b] = 1 /\ \A x \in Blocks : x # b => bm2[x] = bm[x]
        /\ Place(A2[i], d2, k) = b
        /\ \A j \in Inodes, l \in Places :
             ~(j = i /\ l = k) => Place(A2[j], d2, l) = Place(A[j], d, l)
    BY DEF Added
  <1>1. b # 0
    BY Consts DEF Blocks
  <1>2. \A j \in Inodes, l \in Places : Place(A[j], d, l) # b
    BY <1>0, FreeBlock
  <1>3. OneOwner(d2, A2)
    <2> SUFFICES ASSUME NEW j1 \in Inodes, NEW j2 \in Inodes, NEW l1 \in Places, NEW l2 \in Places,
                        Place(A2[j1], d2, l1) # 0, Place(A2[j1], d2, l1) = Place(A2[j2], d2, l2)
                 PROVE  j1 = j2 /\ l1 = l2
      BY DEF OneOwner
    <2>1. CASE j1 = i /\ l1 = k
      BY <2>1, <1>2, <1>0
    <2>2. CASE j2 = i /\ l2 = k
      BY <2>2, <1>2, <1>0
    <2>3. CASE ~(j1 = i /\ l1 = k) /\ ~(j2 = i /\ l2 = k)
      BY <2>3, <1>0 DEF OneOwner
    <2>4. QED BY <2>1, <2>2, <2>3
  <1>4. Marked(bm2, d2, A2)
    <2> SUFFICES ASSUME NEW x \in Blocks
                 PROVE  bm2[x] = 1 <=> \E j \in Inodes, l \in Places : Place(A2[j], d2, l) = x
      BY DEF Marked
    <2>1. CASE x = b
      <3>1. bm2[x] = 1
        BY <2>1, <1>0
      <3>2. Place(A2[i], d2, k) = x
        BY <2>1, <1>0
      <3>3. QED BY <3>1, <3>2
    <2>2. CASE x # b
      <3>1. bm2[x] = bm[x]
        BY <2>2, <1>0
      <3>2. x # 0
        BY Consts DEF Blocks
      <3>3. ASSUME NEW j \in Inodes, NEW l \in Places
            PROVE  Place(A2[j], d2, l) = x <=> Place(A[j], d, l) = x
        BY <2>2, <3>2, <1>0
      <3>4. QED BY <3>1, <3>3 DEF Marked
    <2>3. QED BY <2>1, <2>2
  <1>5. QED BY <1>3, <1>4

\* Nothing that was named is lost, and the blocks of files keep what they hold.
Grows(d, A, d2, A2) ==
  \A j \in Inodes, l \in Places :
    Place(A[j], d, l) # 0 =>
      /\ Place(A2[j], d2, l) = Place(A[j], d, l)
      /\ l # NDIRECT => d2[Place(A[j], d, l)] = d[Place(A[j], d, l)]

LEMMA GrowsRefl ==
  ASSUME NEW d, NEW A PROVE Grows(d, A, d, A)
  BY DEF Grows

LEMMA GrowsTrans ==
  ASSUME NEW d, NEW A, NEW d2, NEW A2, NEW d3, NEW A3, Grows(d, A, d2, A2), Grows(d2, A2, d3, A3)
  PROVE  Grows(d, A, d3, A3)
  BY DEF Grows

\* Inode i has got the addresses a.
With(A, i, a) == [A EXCEPT ![i] = a]

\* A free block is zeroed and becomes address k of inode i.
LEMMA TakeAddress ==
  ASSUME NEW bm, NEW d, NEW A, Alloc(bm, d, A),
         NEW i \in Inodes, NEW k \in 0..NDIRECT, A[i][k] = 0, NEW b \in Blocks, bm[b] = 0,
         NEW bm2, bm2 = [bm EXCEPT ![b] = 1], NEW d2, d2 = [d EXCEPT ![b] = Zeroed],
         NEW a, a = [A[i] EXCEPT ![k] = b]
  PROVE  Alloc(bm2, d2, With(A, i, a)) /\ Grows(d, A, d2, With(A, i, a))
  <1> USE Consts
  <1> DEFINE A2 == [A EXCEPT ![i] = [A[i] EXCEPT ![k] = b]]
  <1>0. AllocType(bm, d, A) /\ IndirectAddrs(d, A) /\ OneOwner(d, A) /\ Marked(bm, d, A)
    BY DEF Alloc
  <1>1. AllocType(bm2, d2, A2)
    <2>1. A[i] \in Addrs /\ b \in 0..NBLOCKS
      BY <1>0 DEF AllocType, Blocks
    <2>2. [A[i] EXCEPT ![k] = b] \in Addrs
      BY <2>1 DEF Addrs
    <2>3. QED BY <1>0, <2>2, ZeroedType DEF AllocType
  <1>2. k \in Places /\ Place(A[i], d, k) = 0 /\ NDIRECT \in Places
    BY DEF Places, Place
  <1>3. \A j \in Inodes, l \in Places : Place(A[j], d, l) # b
    BY <1>0, FreeBlock
  <1>4. \A j \in Inodes : A2[j][NDIRECT] = IF j = i /\ k = NDIRECT THEN b ELSE A[j][NDIRECT]
    BY <1>0 DEF AllocType, Addrs
  <1>5. \A j \in Inodes : A[j][NDIRECT] \in 0..NBLOCKS /\ A[j][NDIRECT] # b
    BY <1>0, <1>2, <1>3 DEF AllocType, Addrs, Place
  <1>6. ASSUME NEW j \in Inodes PROVE IndirectOf(A2[j], d2) = IndirectOf(A[j], d)
    <2>1. CASE j = i /\ k = NDIRECT
      <3>1. A2[j][NDIRECT] = b /\ A[j][NDIRECT] = 0
        BY <2>1, <1>4
      <3>2. d2[b] = Zeroed /\ b # 0
        BY <1>0 DEF AllocType, Blocks
      <3>3. QED BY <3>1, <3>2 DEF IndirectOf
    <2>2. CASE ~(j = i /\ k = NDIRECT)
      <3>1. A2[j][NDIRECT] = A[j][NDIRECT]
        BY <2>2, <1>4
      <3>2. A[j][NDIRECT] # 0 => d2[A[j][NDIRECT]] = d[A[j][NDIRECT]]
        BY <1>0, <1>5 DEF AllocType, Blocks
      <3>3. QED BY <3>1, <3>2 DEF IndirectOf
    <2>3. QED BY <2>1, <2>2
  <1>7. IndirectAddrs(d2, A2)
    BY <1>0, <1>6 DEF IndirectAddrs
  <1>8. ASSUME NEW j \in Inodes, NEW l \in Places
        PROVE  Place(A2[j], d2, l) = IF j = i /\ l = k THEN b ELSE Place(A[j], d, l)
    <2>1. CASE l <= NDIRECT
      <3>1. A2[j][l] = IF j = i /\ l = k THEN b ELSE A[j][l]
        BY <1>0, <2>1 DEF AllocType, Addrs, Places
      <3>2. QED BY <2>1, <3>1 DEF Place
    <2>2. CASE ~(l <= NDIRECT)
      <3>1. l # k
        BY <2>2
      <3>2. IndirectOf(A2[j], d2) = IndirectOf(A[j], d)
        BY <1>6
      <3>3. Place(A2[j], d2, l) = Place(A[j], d, l)
        BY <2>2, <3>2 DEF Place
      <3>4. QED BY <3>1, <3>3
    <2>3. QED BY <2>1, <2>2
  <1>9. OneOwner(d2, A2) /\ Marked(bm2, d2, A2)
    <2>1. Place(A2[i], d2, k) = b
      BY <1>2, <1>8
    <2>2. \A j \in Inodes, l \in Places :
            ~(j = i /\ l = k) => Place(A2[j], d2, l) = Place(A[j], d, l)
      BY <1>8
    <2>3. bm2[b] = 1 /\ \A x \in Blocks : x # b => bm2[x] = bm[x]
      BY <1>0 DEF AllocType
    <2>4. Added(bm, d, A, bm2, d2, A2, i, k, b)
      BY <1>2, <2>1, <2>2, <2>3 DEF Added
    <2>5. QED BY <1>0, <1>2, <2>4, AddPlace
  <1>10. Grows(d, A, d2, A2)
    <2> SUFFICES ASSUME NEW j \in Inodes, NEW l \in Places, Place(A[j], d, l) # 0
                 PROVE  /\ Place(A2[j], d2, l) = Place(A[j], d, l)
                        /\ d2[Place(A[j], d, l)] = d[Place(A[j], d, l)]
      BY DEF Grows
    <2>1. Place(A2[j], d2, l) = Place(A[j], d, l)
      BY <1>2, <1>8
    <2>2. Place(A[j], d, l) \in Blocks /\ Place(A[j], d, l) # b
      <3>1. Place(A[j], d, l) \in 0..NBLOCKS
        BY <1>0, PlaceType
      <3>2. QED BY <3>1, <1>3 DEF Blocks
    <2>3. d2[Place(A[j], d, l)] = d[Place(A[j], d, l)]
      BY <1>0, <2>2 DEF AllocType
    <2>4. QED BY <2>1, <2>3
  <1>11. A2 = With(A, i, a)
    BY DEF With
  <1>12. QED BY <1>1, <1>7, <1>9, <1>10, <1>11 DEF Alloc

\* A free block is zeroed and becomes entry k of the indirect block of inode i.
LEMMA TakeEntry ==
  ASSUME NEW bm, NEW d, NEW A, Alloc(bm, d, A),
         NEW i \in Inodes, NEW k \in 0..(BSIZE - 1), NEW ib, ib = A[i][NDIRECT], ib # 0,
         d[ib][k] = Addr(0), NEW b \in Blocks, bm[b] = 0,
         NEW bm2, bm2 = [bm EXCEPT ![b] = 1],
         NEW d1, d1 = [d EXCEPT ![b] = Zeroed],
         NEW d2, d2 = [d1 EXCEPT ![ib] = [d1[ib] EXCEPT ![k] = Addr(b)]]
  PROVE  Alloc(bm2, d2, A) /\ Grows(d, A, d2, A) /\ Place(A[i], d2, k + NDIRECT + 1) = b
  <1> USE Consts
  <1>0. AllocType(bm, d, A) /\ IndirectAddrs(d, A) /\ OneOwner(d, A) /\ Marked(bm, d, A)
    BY DEF Alloc
  <1>1. /\ NDIRECT \in Places /\ k + NDIRECT + 1 \in Places /\ ib = Place(A[i], d, NDIRECT)
        /\ b \in 0..NBLOCKS /\ b # 0
    BY DEF Places, Place, Blocks
  <1>2. ib \in Blocks
    BY <1>0 DEF AllocType, Addrs, Blocks
  <1>3. \A j \in Inodes, l \in Places : Place(A[j], d, l) # b
    BY <1>0, FreeBlock
  <1>4. ib # b
    BY <1>1, <1>3
  <1>5. d1 \in [Blocks -> Content] /\ d1[ib] = d[ib] /\ d1[b] = Zeroed
    BY <1>0, <1>2, <1>4, ZeroedType DEF AllocType
  <1>6. PICK new : new = [d[ib] EXCEPT ![k] = Addr(b)]
    OBVIOUS
  <1>7. new \in Content
    <2>1. d[ib] \in Content
      BY <1>0, <1>2 DEF AllocType
    <2>2. Addr(b) \in {Nobody} \X (0..NBLOCKS)
      BY <1>1 DEF Addr
    <2>3. QED BY <1>6, <2>1, <2>2 DEF Content
  <1>8. d2 = [d1 EXCEPT ![ib] = new]
    BY <1>5, <1>6
  <1>9. /\ d2 \in [Blocks -> Content] /\ d2[ib] = new /\ d2[b] = Zeroed
        /\ \A x \in Blocks : x # ib /\ x # b => d2[x] = d[x]
    BY <1>0, <1>2, <1>4, <1>5, <1>7, <1>8 DEF AllocType
  <1>10. AllocType(bm2, d2, A)
    BY <1>0, <1>9 DEF AllocType
  <1>11. IndirectOf(A[i], d2) = new /\ IndirectOf(A[i], d) = d[ib]
    BY <1>9 DEF IndirectOf
  <1>12. ASSUME NEW j \in Inodes, j # i PROVE IndirectOf(A[j], d2) = IndirectOf(A[j], d)
    <2>1. Place(A[j], d, NDIRECT) = A[j][NDIRECT]
      BY DEF Place
    <2>2. A[j][NDIRECT] \in 0..NBLOCKS /\ A[j][NDIRECT] # b
      BY <1>0, <1>1, <1>3, <2>1, PlaceType
    <2>3. A[j][NDIRECT] # 0 => A[j][NDIRECT] # ib
      BY <1>0, <1>1, <1>12, <2>1 DEF OneOwner
    <2>4. A[j][NDIRECT] # 0 => d2[A[j][NDIRECT]] = d[A[j][NDIRECT]]
      BY <1>9, <2>2, <2>3 DEF Blocks
    <2>5. QED BY <2>4 DEF IndirectOf
  <1>13. IndirectAddrs(d2, A)
    <2> SUFFICES ASSUME NEW j \in Inodes, NEW l \in 0..(BSIZE - 1)
                 PROVE  IndirectOf(A[j], d2)[l] \in {Nobody} \X (0..NBLOCKS)
      BY DEF IndirectAddrs
    <2>1. IndirectOf(A[j], d)[l] \in {Nobody} \X (0..NBLOCKS)
      BY <1>0 DEF IndirectAddrs
    <2>2. CASE j # i
      BY <2>1, <2>2, <1>12
    <2>3. CASE j = i
      <3>1. d[ib][l] \in {Nobody} \X (0..NBLOCKS) /\ d[ib] \in Content
        BY <2>1, <2>3, <1>0, <1>2, <1>11 DEF AllocType
      <3>2. Addr(b) \in {Nobody} \X (0..NBLOCKS)
        BY <1>1 DEF Addr
      <3>3. new[l] \in {Nobody} \X (0..NBLOCKS)
        BY <1>6, <3>1, <3>2 DEF Content
      <3>4. QED BY <2>3, <3>3, <1>11
    <2>4. QED BY <2>2, <2>3
  <1>14. Place(A[i], d, k + NDIRECT + 1) = 0 /\ Place(A[i], d2, k + NDIRECT + 1) = b
    <2>1. (k + NDIRECT + 1) - NDIRECT - 1 = k /\ ~(k + NDIRECT + 1 <= NDIRECT)
      OBVIOUS
    <2>2. new[k] = Addr(b)
      BY <1>0, <1>2, <1>6 DEF AllocType, Content
    <2>3. Addr(b)[2] = b /\ Addr(0)[2] = 0
      BY DEF Addr
    <2>4. QED BY <1>11, <2>1, <2>2, <2>3 DEF Place
  <1>15. ASSUME NEW j \in Inodes, NEW l \in Places, ~(j = i /\ l = k + NDIRECT + 1)
         PROVE  Place(A[j], d2, l) = Place(A[j], d, l)
    <2>1. CASE l <= NDIRECT
      BY <2>1 DEF Place
    <2>2. CASE ~(l <= NDIRECT) /\ j # i
      <3>1. IndirectOf(A[j], d2) = IndirectOf(A[j], d)
        BY <2>2, <1>12
      <3>2. QED BY <2>2, <3>1 DEF Place
    <2>3. CASE ~(l <= NDIRECT) /\ j = i
      <3>1. l - NDIRECT - 1 \in 0..(BSIZE - 1) /\ l - NDIRECT - 1 # k
        BY <2>3, <1>15 DEF Places
      <3>2. d[ib] \in Content
        BY <1>0, <1>2 DEF AllocType
      <3>3. new[l - NDIRECT - 1] = d[ib][l - NDIRECT - 1]
        BY <1>6, <3>1, <3>2 DEF Content
      <3>4. QED BY <2>3, <3>3, <1>11 DEF Place
    <2>4. QED BY <2>1, <2>2, <2>3
  <1>16. OneOwner(d2, A) /\ Marked(bm2, d2, A)
    <2>1. bm2[b] = 1 /\ \A x \in Blocks : x # b => bm2[x] = bm[x]
      BY <1>0 DEF AllocType
    <2>2. Added(bm, d, A, bm2, d2, A, i, k + NDIRECT + 1, b)
      BY <1>14, <1>15, <2>1 DEF Added
    <2>3. QED BY <1>0, <1>1, <2>2, AddPlace
  <1>17. Grows(d, A, d2, A)
    <2> SUFFICES ASSUME NEW j \in Inodes, NEW l \in Places, Place(A[j], d, l) # 0
                 PROVE  /\ Place(A[j], d2, l) = Place(A[j], d, l)
                        /\ l # NDIRECT => d2[Place(A[j], d, l)] = d[Place(A[j], d, l)]
      BY DEF Grows
    <2>1. Place(A[j], d2, l) = Place(A[j], d, l)
      BY <1>14, <1>15
    <2>2. Place(A[j], d, l) \in Blocks /\ Place(A[j], d, l) # b
      <3>1. Place(A[j], d, l) \in 0..NBLOCKS
        BY <1>0, PlaceType
      <3>2. QED BY <3>1, <1>3 DEF Blocks
    <2>3. l # NDIRECT => Place(A[j], d, l) # ib
      BY <1>0, <1>1 DEF OneOwner
    <2>4. QED BY <1>9, <2>1, <2>2, <2>3
  <1>18. QED BY <1>10, <1>13, <1>14, <1>16, <1>17 DEF Alloc

\* What is written into a block of a file changes no place.
LEMMA CopyKeeps ==
  ASSUME NEW bm, NEW d, NEW A, Alloc(bm, d, A),
         NEW i \in Inodes, NEW k \in Places, k # NDIRECT, NEW b, b = Place(A[i], d, k), b # 0,
         NEW new \in Content, NEW d2, d2 = [d EXCEPT ![b] = new]
  PROVE  /\ Alloc(bm, d2, A)
         /\ \A j \in Inodes, l \in Places : Place(A[j], d2, l) = Place(A[j], d, l)
  <1> USE Consts
  <1>0. AllocType(bm, d, A) /\ IndirectAddrs(d, A) /\ OneOwner(d, A) /\ Marked(bm, d, A)
    BY DEF Alloc
  <1>1. NDIRECT \in Places
    BY DEF Places
  <1>2. ASSUME NEW j \in Inodes PROVE IndirectOf(A[j], d2) = IndirectOf(A[j], d)
    <2>1. Place(A[j], d, NDIRECT) = A[j][NDIRECT]
      BY DEF Place
    <2>2. A[j][NDIRECT] \in 0..NBLOCKS
      BY <1>0, <1>1, <2>1, PlaceType
    <2>3. A[j][NDIRECT] # b
      BY <1>0, <1>1, <2>1 DEF OneOwner
    <2>4. A[j][NDIRECT] # 0 => d2[A[j][NDIRECT]] = d[A[j][NDIRECT]]
      BY <1>0, <2>2, <2>3 DEF Blocks, AllocType
    <2>5. QED BY <2>4 DEF IndirectOf
  <1>3. ASSUME NEW j \in Inodes, NEW l \in Places PROVE Place(A[j], d2, l) = Place(A[j], d, l)
    <2>1. IndirectOf(A[j], d2) = IndirectOf(A[j], d)
      BY <1>2
    <2>2. QED BY <2>1 DEF Place
  <1>4. AllocType(bm, d2, A)
    BY <1>0 DEF AllocType
  <1>5. IndirectAddrs(d2, A)
    BY <1>0, <1>2 DEF IndirectAddrs
  <1>6. OneOwner(d2, A)
    <2> SUFFICES ASSUME NEW j1 \in Inodes, NEW j2 \in Inodes, NEW l1 \in Places, NEW l2 \in Places,
                        Place(A[j1], d2, l1) # 0, Place(A[j1], d2, l1) = Place(A[j2], d2, l2)
                 PROVE  j1 = j2 /\ l1 = l2
      BY DEF OneOwner
    <2>1. Place(A[j1], d2, l1) = Place(A[j1], d, l1) /\ Place(A[j2], d2, l2) = Place(A[j2], d, l2)
      BY <1>3
    <2>2. QED BY <1>0, <2>1 DEF OneOwner
  <1>7. Marked(bm, d2, A)
    <2> SUFFICES ASSUME NEW x \in Blocks
                 PROVE  bm[x] = 1 <=> \E j \in Inodes, l \in Places : Place(A[j], d2, l) = x
      BY DEF Marked
    <2>1. bm[x] = 1 <=> \E j \in Inodes, l \in Places : Place(A[j], d, l) = x
      BY <1>0 DEF Marked
    <2>2. QED BY <1>3, <2>1
  <1>8. QED BY <1>3, <1>4, <1>5, <1>6, <1>7 DEF Alloc

Chain == [bitmap : [Blocks -> {0, 1}], addrs : Addrs, data : [Blocks -> Content],
          log : SUBSET Int, ret : 0..NBLOCKS]

\* balloc() finds no block, or takes one that is free.
LEMMA BallocTakes ==
  ASSUME NEW t \in Chain, NEW u, u = balloc(t)
  PROVE  /\ u \in Chain /\ u.addrs = t.addrs
         /\ \/ u.bitmap = t.bitmap /\ u.data = t.data /\ u.log = t.log /\ u.ret = 0
            \/ /\ u.ret \in Blocks /\ t.bitmap[u.ret] = 0
               /\ u.bitmap = [t.bitmap EXCEPT ![u.ret] = 1]
               /\ u.data = [t.data EXCEPT ![u.ret] = Zeroed]
               /\ u.log = t.log \cup {Bitmap, u.ret}
  <1> USE Consts
  <1>1. CASE \A b \in Blocks : t.bitmap[b] = 1
    <2>1. u = [t EXCEPT !.ret = 0]
      BY <1>1 DEF balloc
    <2>2. QED BY <2>1 DEF Chain
  <1>2. CASE ~(\A b \in Blocks : t.bitmap[b] = 1)
    <2>1. PICK S : S = {c \in Blocks : t.bitmap[c] = 0}
      OBVIOUS
    <2>2. S # {} /\ S \in SUBSET Nat
      BY <1>2, <2>1 DEF Chain, Blocks
    <2>3. PICK b : b = Min(S)
      OBVIOUS
    <2>4. b \in Blocks /\ t.bitmap[b] = 0
      BY <2>1, <2>2, <2>3, MinIn
    <2>5. u = [t EXCEPT !.bitmap[b] = 1, !.data[b] = Zeroed, !.log = @ \cup {Bitmap, b}, !.ret = b]
      BY <1>2, <2>1, <2>3 DEF balloc
    <2>6. /\ u.bitmap = [t.bitmap EXCEPT ![b] = 1] /\ u.data = [t.data EXCEPT ![b] = Zeroed]
          /\ u.log = t.log \cup {Bitmap, b} /\ u.ret = b /\ u.addrs = t.addrs
      BY <2>5 DEF Chain
    <2>7. u \in Chain
      <3>1. [t.bitmap EXCEPT ![b] = 1] \in [Blocks -> {0, 1}]
        BY <2>4 DEF Chain
      <3>2. [t.data EXCEPT ![b] = Zeroed] \in [Blocks -> Content]
        BY <2>4, ZeroedType DEF Chain
      <3>3. t.log \cup {Bitmap, b} \in SUBSET Int /\ b \in 0..NBLOCKS
        BY <2>4 DEF Chain, Bitmap, Blocks
      <3>4. QED BY <2>5, <3>1, <3>2, <3>3 DEF Chain
    <2>8. QED BY <2>4, <2>6, <2>7
  <1>3. QED BY <1>1, <1>2

\* t is what a chain of calls has made of the disk and of inode i, the others being as in A.
Stands(t, A, i) == t \in Chain /\ t.addrs = A[i] /\ Alloc(t.bitmap, t.data, A)

LEMMA AddressTakes ==
  ASSUME NEW t, NEW A, NEW i \in Inodes, Stands(t, A, i), NEW k \in 0..NDIRECT,
         NEW u, u = Address(t, k)
  PROVE  /\ Stands(u, With(A, i, u.addrs), i) /\ Grows(t.data, A, u.data, With(A, i, u.addrs))
         /\ u.ret = u.addrs[k] /\ u.log \subseteq t.log \cup {Bitmap, u.ret}
  <1> USE Consts
  <1> DEFINE A2 == With(A, i, u.addrs)
  <1>0. t \in Chain /\ t.addrs = A[i] /\ Alloc(t.bitmap, t.data, A) /\ A \in [Inodes -> Addrs]
    BY DEF Stands, Alloc, AllocType
  <1>1. CASE t.addrs[k] # 0
    <2>1. u = [t EXCEPT !.ret = t.addrs[k]]
      BY <1>1 DEF Address
    <2>2. t.addrs[k] \in 0..NBLOCKS
      BY <1>0 DEF Chain, Addrs
    <2>3. /\ u \in Chain /\ u.bitmap = t.bitmap /\ u.data = t.data /\ u.addrs = t.addrs
          /\ u.log = t.log /\ u.ret = t.addrs[k]
      BY <1>0, <2>1, <2>2 DEF Chain
    <2>4. A2 = A
      BY <1>0, <2>3 DEF With
    <2>5. QED BY <1>0, <2>3, <2>4, GrowsRefl DEF Stands
  <1>2. CASE t.addrs[k] = 0
    <2>1. PICK v : v = balloc(t)
      OBVIOUS
    <2>2. u = [v EXCEPT !.addrs[k] = v.ret]
      BY <1>2, <2>1 DEF Address
    <2>3. v \in Chain /\ v.addrs = t.addrs
      BY <1>0, <2>1, BallocTakes
    <2>4. [v.addrs EXCEPT ![k] = v.ret] \in Addrs
      BY <2>3 DEF Chain, Addrs
    <2>5. /\ u \in Chain /\ u.bitmap = v.bitmap /\ u.data = v.data /\ u.log = v.log
          /\ u.ret = v.ret /\ u.addrs = [A[i] EXCEPT ![k] = v.ret]
      BY <1>0, <2>2, <2>3, <2>4 DEF Chain
    <2>6. A[i] \in Addrs
      BY <1>0
    <2>7. u.ret = u.addrs[k]
      BY <2>5, <2>6 DEF Addrs
    <2>8. CASE v.bitmap = t.bitmap /\ v.data = t.data /\ v.log = t.log /\ v.ret = 0
      <3>1. u.addrs = A[i]
        BY <1>0, <1>2, <2>5, <2>6, <2>8 DEF Addrs
      <3>2. A2 = A
        BY <1>0, <3>1 DEF With
      <3>3. QED BY <1>0, <2>5, <2>7, <2>8, <3>1, <3>2, GrowsRefl DEF Stands
    <2>9. CASE /\ v.ret \in Blocks /\ t.bitmap[v.ret] = 0
               /\ v.bitmap = [t.bitmap EXCEPT ![v.ret] = 1]
               /\ v.data = [t.data EXCEPT ![v.ret] = Zeroed]
               /\ v.log = t.log \cup {Bitmap, v.ret}
      <3>1. PICK b : b = v.ret
        OBVIOUS
      <3>2. u.addrs = [A[i] EXCEPT ![k] = b] /\ A[i][k] = 0
        BY <1>0, <1>2, <2>5, <3>1
      <3>3. Alloc(v.bitmap, v.data, A2) /\ Grows(t.data, A, v.data, A2)
        <4>1. b \in Blocks /\ t.bitmap[b] = 0 /\ v.bitmap = [t.bitmap EXCEPT ![b] = 1]
          BY <2>9, <3>1
        <4>2. v.data = [t.data EXCEPT ![b] = Zeroed]
          BY <2>9, <3>1
        <4>3. QED BY <1>0, <3>2, <4>1, <4>2, TakeAddress
      <3>4. A2[i] = u.addrs
        BY <1>0 DEF With
      <3>5. QED BY <2>5, <2>7, <2>9, <3>3, <3>4 DEF Stands
    <2>10. QED BY <1>0, <2>1, <2>8, <2>9, BallocTakes
  <1>3. QED BY <1>1, <1>2

LEMMA IndirectTakes ==
  ASSUME NEW t, NEW A, NEW i \in Inodes, Stands(t, A, i), NEW k \in 0..(BSIZE - 1),
         NEW b, b = t.addrs[NDIRECT], b # 0, NEW u, u = Indirect(t, b, k)
  PROVE  /\ Stands(u, A, i) /\ Grows(t.data, A, u.data, A)
         /\ u.ret = Place(u.addrs, u.data, k + NDIRECT + 1)
         /\ u.log \subseteq t.log \cup {Bitmap, b, u.ret}
  <1> USE Consts
  <1>0. /\ t \in Chain /\ t.addrs = A[i] /\ Alloc(t.bitmap, t.data, A)
        /\ AllocType(t.bitmap, t.data, A) /\ IndirectAddrs(t.data, A)
    BY DEF Stands, Alloc
  <1>1. b \in Blocks
    BY <1>0 DEF AllocType, Addrs, Blocks
  <1>2. t.data[b][k] \in {Nobody} \X (0..NBLOCKS)
    BY <1>0 DEF IndirectAddrs, IndirectOf
  <1>3. Place(A[i], t.data, k + NDIRECT + 1) = t.data[b][k][2]
    <2>1. (k + NDIRECT + 1) - NDIRECT - 1 = k /\ ~(k + NDIRECT + 1 <= NDIRECT)
      OBVIOUS
    <2>2. IndirectOf(A[i], t.data) = t.data[b]
      BY <1>0 DEF IndirectOf
    <2>3. QED BY <2>1, <2>2 DEF Place
  <1>4. CASE t.data[b][k] # Addr(0)
    <2>1. u = [t EXCEPT !.ret = t.data[b][k][2]]
      BY <1>4 DEF Indirect
    <2>2. t.data[b][k][2] \in 0..NBLOCKS
      BY <1>2
    <2>3. /\ u \in Chain /\ u.bitmap = t.bitmap /\ u.data = t.data /\ u.addrs = t.addrs
          /\ u.log = t.log /\ u.ret = t.data[b][k][2]
      BY <1>0, <2>1, <2>2 DEF Chain
    <2>4. QED BY <1>0, <1>3, <2>3, GrowsRefl DEF Stands
  <1>5. CASE t.data[b][k] = Addr(0)
    <2>1. PICK v : v = balloc(t)
      OBVIOUS
    <2>2. v \in Chain /\ v.addrs = t.addrs
      BY <1>0, <2>1, BallocTakes
    <2>3. CASE v.bitmap = t.bitmap /\ v.data = t.data /\ v.log = t.log /\ v.ret = 0
      <3>1. u = v
        BY <1>5, <2>1, <2>3 DEF Indirect
      <3>2. t.data[b][k][2] = 0
        BY <1>5 DEF Addr
      <3>3. QED BY <1>0, <1>3, <2>2, <2>3, <3>1, <3>2, GrowsRefl DEF Stands
    <2>4. CASE /\ v.ret \in Blocks /\ t.bitmap[v.ret] = 0
               /\ v.bitmap = [t.bitmap EXCEPT ![v.ret] = 1]
               /\ v.data = [t.data EXCEPT ![v.ret] = Zeroed]
               /\ v.log = t.log \cup {Bitmap, v.ret}
      <3>1. PICK x : x = v.ret
        OBVIOUS
      <3>2. x # 0 /\ x \in Blocks
        BY <2>4, <3>1 DEF Blocks
      <3>3. u = [v EXCEPT !.data[b][k] = Addr(x), !.log = @ \cup {b}]
        BY <1>5, <2>1, <3>1, <3>2 DEF Indirect
      <3>4. PICK d2 : d2 = [v.data EXCEPT ![b] = [v.data[b] EXCEPT ![k] = Addr(x)]]
        OBVIOUS
      <3>5. /\ u.bitmap = v.bitmap /\ u.data = d2 /\ u.addrs = v.addrs
            /\ u.log = v.log \cup {b} /\ u.ret = x
        BY <2>2, <3>1, <3>3, <3>4 DEF Chain
      <3>6. /\ Alloc(v.bitmap, d2, A) /\ Grows(t.data, A, d2, A)
            /\ Place(A[i], d2, k + NDIRECT + 1) = x
        <4>1. b = A[i][NDIRECT] /\ t.bitmap[x] = 0 /\ v.bitmap = [t.bitmap EXCEPT ![x] = 1]
          BY <1>0, <2>4, <3>1
        <4>2. v.data = [t.data EXCEPT ![x] = Zeroed]
          BY <2>4, <3>1
        <4>3. QED BY <1>0, <1>5, <3>2, <3>4, <4>1, <4>2, TakeEntry
      <3>7. u \in Chain
        <4>1. d2 \in [Blocks -> Content]
          BY <3>6 DEF Alloc, AllocType
        <4>2. v.log \cup {b} \in SUBSET Int
          BY <1>1, <2>2 DEF Chain, Blocks
        <4>3. u = [v EXCEPT !.data = d2, !.log = v.log \cup {b}]
          BY <2>2, <3>3, <3>4 DEF Chain
        <4>4. QED BY <2>2, <4>1, <4>2, <4>3 DEF Chain
      <3>8. u.addrs = A[i]
        BY <1>0, <2>2, <3>5
      <3>9. u.log \subseteq t.log \cup {Bitmap, b, u.ret}
        BY <2>4, <3>1, <3>5
      <3>10. QED BY <3>5, <3>6, <3>7, <3>8, <3>9 DEF Stands
    <2>5. QED BY <1>0, <2>1, <2>3, <2>4, BallocTakes
  <1>6. QED BY <1>4, <1>5

\* bmap() finds the block where it is, or puts one there; nothing is lost, and it logs the
\* bitmap, the block and perhaps the indirect block.
LEMMA BmapTakes ==
  ASSUME NEW t, NEW A, NEW i \in Inodes, Stands(t, A, i), NEW bn \in 0..(MAXFILE - 1),
         NEW u, u = bmap(t, bn)
  PROVE  /\ Stands(u, With(A, i, u.addrs), i) /\ Grows(t.data, A, u.data, With(A, i, u.addrs))
         /\ u.ret = Place(u.addrs, u.data, PlaceOf(bn))
         /\ u.log \subseteq t.log \cup {Bitmap, u.addrs[NDIRECT], u.ret}
  <1> USE Consts
  <1> DEFINE A2 == With(A, i, u.addrs)
  <1>0. A \in [Inodes -> Addrs]
    BY DEF Stands, Alloc, AllocType
  <1>1. CASE bn < NDIRECT
    <2>1. u = Address(t, bn) /\ bn \in 0..NDIRECT
      BY <1>1 DEF bmap
    <2>2. /\ Stands(u, A2, i) /\ Grows(t.data, A, u.data, A2)
          /\ u.ret = u.addrs[bn] /\ u.log \subseteq t.log \cup {Bitmap, u.ret}
      BY <2>1, AddressTakes
    <2>3. Place(u.addrs, u.data, PlaceOf(bn)) = u.addrs[bn]
      BY <1>1 DEF Place, PlaceOf
    <2>4. QED BY <2>2, <2>3
  <1>2. CASE ~(bn < NDIRECT)
    <2>1. PICK v : v = Address(t, NDIRECT)
      OBVIOUS
    <2>2. PICK A1 : A1 = With(A, i, v.addrs)
      OBVIOUS
    <2>3. /\ Stands(v, A1, i) /\ Grows(t.data, A, v.data, A1)
          /\ v.ret = v.addrs[NDIRECT] /\ v.log \subseteq t.log \cup {Bitmap, v.ret}
      BY <2>1, <2>2, AddressTakes
    <2>4. CASE v.ret = 0
      <3>1. u = v
        BY <1>2, <2>1, <2>4 DEF bmap
      <3>2. A2 = A1
        BY <2>2, <3>1
      <3>3. /\ PlaceOf(bn) - NDIRECT - 1 \in 0..(BSIZE - 1) /\ ~(PlaceOf(bn) <= NDIRECT)
        BY <1>2 DEF PlaceOf
      <3>4. Place(u.addrs, u.data, PlaceOf(bn)) = 0
        <4>1. IndirectOf(u.addrs, u.data) = Zeroed
          BY <2>3, <2>4, <3>1 DEF IndirectOf
        <4>2. QED BY <3>3, <4>1, ZeroedType DEF Place
      <3>5. QED BY <2>3, <2>4, <3>1, <3>2, <3>4
    <2>5. CASE v.ret # 0
      <3>1. u = Indirect(v, v.ret, bn - NDIRECT) /\ bn - NDIRECT \in 0..(BSIZE - 1)
        BY <1>2, <2>1, <2>5 DEF bmap
      <3>2. PICK k \in 0..(BSIZE - 1) : k = bn - NDIRECT
        BY <3>1
      <3>3. /\ Stands(u, A1, i) /\ Grows(v.data, A1, u.data, A1)
            /\ u.ret = Place(u.addrs, u.data, k + NDIRECT + 1)
            /\ u.log \subseteq v.log \cup {Bitmap, v.ret, u.ret}
        BY <2>3, <2>5, <3>1, <3>2, IndirectTakes
      <3>4. u.addrs = v.addrs
        BY <2>3, <3>3 DEF Stands
      <3>5. A2 = A1
        BY <2>2, <3>4
      <3>6. PlaceOf(bn) = k + NDIRECT + 1
        BY <1>2, <3>2 DEF PlaceOf
      <3>7. Grows(t.data, A, u.data, A1)
        BY <2>3, <3>3, GrowsTrans
      <3>8. QED BY <2>3, <3>3, <3>4, <3>5, <3>6, <3>7
    <2>6. QED BY <2>4, <2>5
  <1>3. QED BY <1>1, <1>2

-----------------------------------------------------------------------------
(* Truncation.                                                             *)

\* The places D of inode i are cleared, and what they named is marked free.
Dropped(bm, d, A, bm2, A2, i, D) ==
  /\ \A l \in Places : l \in D => Place(A2[i], d, l) = 0
  /\ \A j \in Inodes, l \in Places : ~(j = i /\ l \in D) => Place(A2[j], d, l) = Place(A[j], d, l)
  /\ \A b \in Blocks : bm2[b] = IF \E l \in Places : l \in D /\ Place(A[i], d, l) = b THEN 0 ELSE bm[b]

LEMMA DropPlaces ==
  ASSUME NEW bm, NEW d, NEW A, OneOwner(d, A), Marked(bm, d, A),
         NEW i \in Inodes, NEW D, NEW bm2, NEW A2, Dropped(bm, d, A, bm2, A2, i, D)
  PROVE  OneOwner(d, A2) /\ Marked(bm2, d, A2)
  <1>0. /\ \A l \in Places : l \in D => Place(A2[i], d, l) = 0
        /\ \A j \in Inodes, l \in Places :
             ~(j = i /\ l \in D) => Place(A2[j], d, l) = Place(A[j], d, l)
        /\ \A b \in Blocks :
             bm2[b] = IF \E l \in Places : l \in D /\ Place(A[i], d, l) = b THEN 0 ELSE bm[b]
    BY DEF Dropped
  <1>1. OneOwner(d, A2)
    <2> SUFFICES ASSUME NEW j1 \in Inodes, NEW j2 \in Inodes, NEW l1 \in Places, NEW l2 \in Places,
                        Place(A2[j1], d, l1) # 0, Place(A2[j1], d, l1) = Place(A2[j2], d, l2)
                 PROVE  j1 = j2 /\ l1 = l2
      BY DEF OneOwner
    <2>1. ~(j1 = i /\ l1 \in D) /\ ~(j2 = i /\ l2 \in D)
      BY <1>0
    <2>2. Place(A2[j1], d, l1) = Place(A[j1], d, l1) /\ Place(A2[j2], d, l2) = Place(A[j2], d, l2)
      BY <1>0, <2>1
    <2>3. Place(A[j1], d, l1) # 0 /\ Place(A[j1], d, l1) = Place(A[j2], d, l2)
      BY <2>2
    <2>4. QED BY <2>3 DEF OneOwner
  <1>2. Marked(bm2, d, A2)
    <2> SUFFICES ASSUME NEW x \in Blocks
                 PROVE  bm2[x] = 1 <=> \E j \in Inodes, l \in Places : Place(A2[j], d, l) = x
      BY DEF Marked
    <2>0. x # 0
      BY Consts DEF Blocks
    <2>1. CASE \E l \in Places : l \in D /\ Place(A[i], d, l) = x
      <3>1. bm2[x] = 0
        BY <1>0, <2>1
      <3>2. PICK l0 \in Places : l0 \in D /\ Place(A[i], d, l0) = x
        BY <2>1
      <3>3. ASSUME NEW j \in Inodes, NEW l \in Places, Place(A2[j], d, l) = x PROVE FALSE
        <4>1. ~(j = i /\ l \in D)
          BY <1>0, <2>0, <3>3
        <4>2. Place(A[j], d, l) = x
          BY <1>0, <3>3, <4>1
        <4>3. QED BY <2>0, <3>2, <4>1, <4>2 DEF OneOwner
      <3>4. QED BY <3>1, <3>3
    <2>2. CASE ~ \E l \in Places : l \in D /\ Place(A[i], d, l) = x
      <3>1. bm2[x] = bm[x]
        BY <1>0, <2>2
      <3>2. ASSUME NEW j \in Inodes, NEW l \in Places
            PROVE  Place(A2[j], d, l) = x <=> Place(A[j], d, l) = x
        BY <1>0, <2>0, <2>2
      <3>3. QED BY <3>1, <3>2 DEF Marked
    <2>3. QED BY <2>1, <2>2
  <1>3. QED BY <1>1, <1>2

LEMMA NoAddrsType == NoAddrs \in Addrs /\ \A k \in 0..NDIRECT : NoAddrs[k] = 0
  BY Consts DEF NoAddrs, Addrs

\* What bfree() makes of the bitmap, and what itrunc() frees and leaves of an inode.
Unmark(bm, S) == [b \in Blocks |-> IF b \in S THEN 0 ELSE bm[b]]
DirectOf(a) == {a[k] : k \in 0..(NDIRECT - 1)} \ {0}
IndirectSet(a, d) ==
  IF a[NDIRECT] = 0 THEN {}
  ELSE ({a[NDIRECT]} \cup {d[a[NDIRECT]][k][2] : k \in 0..(NINDIRECT - 1)}) \ {0}
Cut(a) == [NoAddrs EXCEPT ![NDIRECT] = a[NDIRECT]]

\* itrunc() up to the direct blocks.
LEMMA FreeDirect ==
  ASSUME NEW bm, NEW d, NEW A, Alloc(bm, d, A), NEW i \in Inodes
  PROVE  /\ Alloc(Unmark(bm, DirectOf(A[i])), d, With(A, i, Cut(A[i]))) /\ Cut(A[i]) \in Addrs
         /\ \A k \in 0..(NDIRECT - 1) : Cut(A[i])[k] = 0
  <1> USE Consts
  <1>a. PICK a : a = Cut(A[i])
    OBVIOUS
  <1>b. PICK S : S = DirectOf(A[i])
    OBVIOUS
  <1>c. PICK bm2 : bm2 = Unmark(bm, S)
    OBVIOUS
  <1>0. AllocType(bm, d, A) /\ IndirectAddrs(d, A) /\ OneOwner(d, A) /\ Marked(bm, d, A)
    BY DEF Alloc
  <1>1. A[i][NDIRECT] \in 0..NBLOCKS
    BY <1>0 DEF AllocType, Addrs
  <1>2. a \in Addrs /\ a[NDIRECT] = A[i][NDIRECT] /\ \A k \in 0..(NDIRECT - 1) : a[k] = 0
    BY <1>a, <1>1, NoAddrsType DEF Addrs, Cut
  <1>3. PICK A2 : A2 = With(A, i, a)
    OBVIOUS
  <1>4. A2 \in [Inodes -> Addrs] /\ A2[i] = a /\ \A j \in Inodes : j # i => A2[j] = A[j]
    BY <1>0, <1>2, <1>3 DEF With, AllocType
  <1>5. bm2 \in [Blocks -> {0, 1}] /\ \A b \in Blocks : bm2[b] = IF b \in S THEN 0 ELSE bm[b]
    BY <1>c, <1>0 DEF AllocType, Unmark
  <1>6. ASSUME NEW j \in Inodes PROVE IndirectOf(A2[j], d) = IndirectOf(A[j], d)
    BY <1>2, <1>4 DEF IndirectOf
  <1>7. IndirectAddrs(d, A2)
    BY <1>0, <1>6 DEF IndirectAddrs
  <1>8. Dropped(bm, d, A, bm2, A2, i, 0..(NDIRECT - 1))
    <2>1. ASSUME NEW l \in Places, l \in 0..(NDIRECT - 1) PROVE Place(A2[i], d, l) = 0
      BY <1>2, <1>4, <2>1 DEF Place
    <2>2. ASSUME NEW j \in Inodes, NEW l \in Places, ~(j = i /\ l \in 0..(NDIRECT - 1))
          PROVE  Place(A2[j], d, l) = Place(A[j], d, l)
      <3>1. CASE j # i
        BY <3>1, <1>4
      <3>2. CASE j = i /\ l = NDIRECT
        BY <3>2, <1>2, <1>4 DEF Place
      <3>3. CASE j = i /\ ~(l <= NDIRECT)
        <4>1. IndirectOf(A2[i], d) = IndirectOf(A[i], d)
          BY <1>6
        <4>2. QED BY <3>3, <4>1 DEF Place
      <3>4. QED BY <2>2, <3>1, <3>2, <3>3 DEF Places
    <2>3. ASSUME NEW b \in Blocks
          PROVE  b \in S <=> \E l \in Places : l \in 0..(NDIRECT - 1) /\ Place(A[i], d, l) = b
      <3>1. b # 0 /\ \A l \in 0..(NDIRECT - 1) : l \in Places /\ Place(A[i], d, l) = A[i][l]
        BY DEF Blocks, Places, Place
      <3>2. QED BY <1>b, <3>1 DEF DirectOf
    <2>4. QED BY <1>5, <2>1, <2>2, <2>3 DEF Dropped
  <1>9. OneOwner(d, A2) /\ Marked(bm2, d, A2)
    BY <1>0, <1>8, DropPlaces
  <1>10. QED BY <1>a, <1>b, <1>c, <1>0, <1>2, <1>3, <1>4, <1>5, <1>7, <1>9 DEF Alloc, AllocType

\* The rest of itrunc().
LEMMA FreeIndirect ==
  ASSUME NEW bm, NEW d, NEW A, Alloc(bm, d, A), NEW i \in Inodes,
         \A k \in 0..(NDIRECT - 1) : A[i][k] = 0
  PROVE  Alloc(Unmark(bm, IndirectSet(A[i], d)), d, With(A, i, NoAddrs))
  <1> USE Consts
  <1>a. PICK c : c = A[i][NDIRECT]
    OBVIOUS
  <1>b. PICK S : S = IndirectSet(A[i], d)
    OBVIOUS
  <1>c. PICK bm2 : bm2 = Unmark(bm, S)
    OBVIOUS
  <1>0. AllocType(bm, d, A) /\ IndirectAddrs(d, A) /\ OneOwner(d, A) /\ Marked(bm, d, A)
    BY DEF Alloc
  <1>3. PICK A2 : A2 = With(A, i, NoAddrs)
    OBVIOUS
  <1>4. A2 \in [Inodes -> Addrs] /\ A2[i] = NoAddrs /\ \A j \in Inodes : j # i => A2[j] = A[j]
    BY <1>0, <1>3, NoAddrsType DEF With, AllocType
  <1>5. bm2 \in [Blocks -> {0, 1}] /\ \A b \in Blocks : bm2[b] = IF b \in S THEN 0 ELSE bm[b]
    BY <1>c, <1>0 DEF AllocType, Unmark
  <1>6. IndirectOf(A2[i], d) = Zeroed
    BY <1>4, NoAddrsType DEF IndirectOf
  <1>7. IndirectAddrs(d, A2)
    <2> SUFFICES ASSUME NEW j \in Inodes, NEW k \in 0..(BSIZE - 1)
                 PROVE  IndirectOf(A2[j], d)[k] \in {Nobody} \X (0..NBLOCKS)
      BY DEF IndirectAddrs
    <2>1. CASE j = i
      BY <2>1, <1>6, ZeroedType
    <2>2. CASE j # i
      BY <2>2, <1>0, <1>4 DEF IndirectAddrs
    <2>3. QED BY <2>1, <2>2
  <1>8. Dropped(bm, d, A, bm2, A2, i, Places)
    <2>1. ASSUME NEW l \in Places PROVE Place(A2[i], d, l) = 0
      <3>1. CASE l <= NDIRECT
        BY <3>1, <1>4, NoAddrsType DEF Place, Places
      <3>2. CASE ~(l <= NDIRECT)
        <4>1. l - NDIRECT - 1 \in 0..(BSIZE - 1)
          BY <3>2 DEF Places
        <4>2. QED BY <3>2, <4>1, <1>6, ZeroedType DEF Place
      <3>3. QED BY <3>1, <3>2
    <2>2. ASSUME NEW j \in Inodes, NEW l \in Places, ~(j = i /\ l \in Places)
          PROVE  Place(A2[j], d, l) = Place(A[j], d, l)
      BY <2>2, <1>4
    <2>3. ASSUME NEW b \in Blocks
          PROVE  b \in S <=> \E l \in Places : l \in Places /\ Place(A[i], d, l) = b
      <3>0. b # 0
        BY DEF Blocks
      <3>1. CASE c = 0
        <4>1. ASSUME NEW l \in Places PROVE Place(A[i], d, l) = 0
          <5>1. CASE l <= NDIRECT
            <6>1. l = NDIRECT \/ l \in 0..(NDIRECT - 1)
              BY <5>1 DEF Places
            <6>2. A[i][l] = 0
              BY <1>a, <3>1, <6>1
            <6>3. QED BY <5>1, <6>2 DEF Place
          <5>2. CASE ~(l <= NDIRECT)
            <6>1. l - NDIRECT - 1 \in 0..(BSIZE - 1) /\ IndirectOf(A[i], d) = Zeroed
              BY <1>a, <5>2, <3>1 DEF Places, IndirectOf
            <6>2. QED BY <5>2, <6>1, ZeroedType DEF Place
          <5>3. QED BY <5>1, <5>2
        <4>2. QED BY <1>a, <1>b, <3>0, <3>1, <4>1 DEF IndirectSet
      <3>2. CASE c # 0
        <4>1. b \in S <=> b = c \/ \E k \in 0..(BSIZE - 1) : d[c][k][2] = b
          BY <1>a, <1>b, <3>0, <3>2 DEF IndirectSet
        <4>2. NDIRECT \in Places /\ Place(A[i], d, NDIRECT) = c
          BY <1>a DEF Places, Place
        <4>3. \A k \in 0..(NDIRECT - 1) : Place(A[i], d, k) = 0
          BY DEF Place
        <4>4. IndirectOf(A[i], d) = d[c]
          BY <1>a, <3>2 DEF IndirectOf
        <4>5. ASSUME NEW k \in 0..(BSIZE - 1)
              PROVE  k + NDIRECT + 1 \in Places /\ Place(A[i], d, k + NDIRECT + 1) = d[c][k][2]
          <5>1. (k + NDIRECT + 1) - NDIRECT - 1 = k /\ ~(k + NDIRECT + 1 <= NDIRECT)
            OBVIOUS
          <5>2. QED BY <4>4, <5>1 DEF Place, Places
        <4>6. ASSUME NEW l \in Places, Place(A[i], d, l) = b
              PROVE  b = c \/ \E k \in 0..(BSIZE - 1) : d[c][k][2] = b
          <5>1. CASE l \in 0..(NDIRECT - 1)
            BY <5>1, <4>3, <4>6, <3>0
          <5>2. CASE l = NDIRECT
            BY <5>2, <4>2, <4>6
          <5>3. CASE ~(l <= NDIRECT)
            <6>1. l - NDIRECT - 1 \in 0..(BSIZE - 1)
              BY <5>3 DEF Places
            <6>2. d[c][l - NDIRECT - 1][2] = b
              BY <5>3, <4>4, <4>6 DEF Place
            <6>3. QED BY <6>1, <6>2
          <5>4. QED BY <5>1, <5>2, <5>3 DEF Places
        <4>7. QED BY <4>1, <4>2, <4>5, <4>6
      <3>3. QED BY <3>1, <3>2
    <2>4. QED BY <1>5, <2>1, <2>2, <2>3 DEF Dropped
  <1>9. OneOwner(d, A2) /\ Marked(bm2, d, A2)
    BY <1>0, <1>8, DropPlaces
  <1>10. QED BY <1>b, <1>c, <1>0, <1>3, <1>4, <1>5, <1>7, <1>9 DEF Alloc, AllocType

-----------------------------------------------------------------------------
(* Contents.                                                               *)

LEMMA PlaceOfType ==
  ASSUME NEW bn \in 0..(MAXFILE - 1) PROVE PlaceOf(bn) \in Places /\ PlaceOf(bn) # NDIRECT
  BY Consts DEF PlaceOf, Places

LEMMA PlaceOfOne ==
  ASSUME NEW x \in Nat, NEW y \in Nat, PlaceOf(x) = PlaceOf(y) PROVE x = y
  BY Consts DEF PlaceOf

\* The blocks of the bytes of a file are blocks of the file.
LEMMA OffsetType ==
  ASSUME NEW o \in Nat, o < MAXBYTES
  PROVE  o \div BSIZE \in 0..(MAXFILE - 1) /\ o % BSIZE \in 0..(BSIZE - 1)
  <1>1. o \div BSIZE \in Nat /\ o % BSIZE \in 0..(BSIZE - 1)
    BY Consts, DivMod
  <1>2. o \div BSIZE < MAXFILE
    BY Consts, DivBound DEF MAXBYTES
  <1>3. QED BY <1>1, <1>2, Consts

LEMMA MaxBytes == MAXBYTES \in Nat
  BY Consts DEF MAXBYTES

LEMMA HoldsGrows ==
  ASSUME NEW d, NEW A, NEW d2, NEW A2, Grows(d, A, d2, A2), NEW i \in Inodes,
         NEW n \in 0..MAXBYTES, Holds(A[i], d, i, n)
  PROVE  Holds(A2[i], d2, i, n)
  <1> SUFFICES ASSUME NEW o \in 0..(n - 1)
               PROVE  /\ Place(A2[i], d2, PlaceOf(o \div BSIZE)) # 0
                      /\ d2[Place(A2[i], d2, PlaceOf(o \div BSIZE))][o % BSIZE] = Byte(i, o)
    BY DEF Holds
  <1>1. PICK k : k = PlaceOf(o \div BSIZE)
    OBVIOUS
  <1>2. k \in Places /\ k # NDIRECT
    BY <1>1, OffsetType, PlaceOfType, MaxBytes
  <1>3. Place(A[i], d, k) # 0 /\ d[Place(A[i], d, k)][o % BSIZE] = Byte(i, o)
    BY <1>1 DEF Holds
  <1>4. Place(A2[i], d2, k) = Place(A[i], d, k) /\ d2[Place(A[i], d, k)] = d[Place(A[i], d, k)]
    BY <1>2, <1>3 DEF Grows
  <1>5. QED BY <1>1, <1>3, <1>4

\* Bytes copied to their place spoil nothing, of this file or of another.
LEMMA HoldsCopy ==
  ASSUME NEW bm, NEW d, NEW A, Alloc(bm, d, A), NEW i \in Inodes,
         NEW at \in Nat, at < MAXBYTES, NEW b, b = Place(A[i], d, PlaceOf(at \div BSIZE)), b # 0,
         NEW m \in 0..(BSIZE - (at % BSIZE)), NEW d2, d2 = Copied(d, b, i, at, m)
  PROVE  /\ Alloc(bm, d2, A)
         /\ \A j \in Inodes, l \in Places : Place(A[j], d2, l) = Place(A[j], d, l)
         /\ \A j \in Inodes, n \in 0..MAXBYTES : Holds(A[j], d, j, n) => Holds(A[j], d2, j, n)
         /\ Holds(A[i], d, i, at) => Holds(A[i], d2, i, at + m)
  <1> USE Consts
  <1>0. AllocType(bm, d, A) /\ IndirectAddrs(d, A) /\ OneOwner(d, A)
    BY DEF Alloc
  <1>1. /\ at \div BSIZE \in 0..(MAXFILE - 1) /\ at % BSIZE \in 0..(BSIZE - 1)
        /\ at - (at % BSIZE) \in Nat
    <2>1. PICK q \in Nat, r \in 0..(BSIZE - 1) : q = at \div BSIZE /\ r = at % BSIZE /\ at = q * BSIZE + r
      BY DivMod
    <2>2. PICK z \in Nat : z = q * BSIZE
      OBVIOUS
    <2>3. at - (at % BSIZE) = z
      BY <2>1, <2>2
    <2>4. QED BY <2>3, OffsetType
  <1>2. PICK k0 : k0 = PlaceOf(at \div BSIZE)
    OBVIOUS
  <1>3. k0 \in Places /\ k0 # NDIRECT /\ b = Place(A[i], d, k0)
    BY <1>1, <1>2, PlaceOfType
  <1>4. b \in Blocks
    <2>1. b \in 0..NBLOCKS
      BY <1>0, <1>3, PlaceType
    <2>2. QED BY <2>1 DEF Blocks
  <1>5. PICK base \in Nat : base = at - (at % BSIZE)
    BY <1>1
  <1>6. PICK r \in 0..(BSIZE - 1) : r = at % BSIZE
    BY <1>1
  <1>7. PICK new : new = [k \in 0..(BSIZE - 1) |->
                            IF r <= k /\ k < r + m THEN Byte(i, base + k) ELSE d[b][k]]
    OBVIOUS
  <1>8. d2 = [d EXCEPT ![b] = new]
    BY <1>5, <1>6, <1>7 DEF Copied
  <1>9. new \in Content
    <2>1. d[b] \in Content
      BY <1>0, <1>4 DEF AllocType
    <2>2. ASSUME NEW k \in 0..(BSIZE - 1)
          PROVE  (IF r <= k /\ k < r + m THEN Byte(i, base + k) ELSE d[b][k])
                   \in ({Nobody} \X (0..NBLOCKS)) \cup (Inodes \X Nat)
      <3>1. Byte(i, base + k) \in Inodes \X Nat
        BY DEF Byte
      <3>2. QED BY <2>1, <3>1 DEF Content
    <2>3. QED BY <1>7, <2>2 DEF Content
  <1>10. Alloc(bm, d2, A) /\ \A j \in Inodes, l \in Places : Place(A[j], d2, l) = Place(A[j], d, l)
    BY <1>3, <1>8, <1>9, CopyKeeps
  <1>11. d2[b] = new /\ \A x \in Blocks : x # b => d2[x] = d[x]
    BY <1>0, <1>4, <1>8 DEF AllocType
  <1>12. ASSUME NEW j \in Inodes, NEW n \in 0..MAXBYTES, Holds(A[j], d, j, n)
         PROVE  Holds(A[j], d2, j, n)
    <2> SUFFICES ASSUME NEW o \in 0..(n - 1)
                 PROVE  /\ Place(A[j], d2, PlaceOf(o \div BSIZE)) # 0
                        /\ d2[Place(A[j], d2, PlaceOf(o \div BSIZE))][o % BSIZE] = Byte(j, o)
      BY DEF Holds
    <2>0. o \in Nat /\ o < MAXBYTES
      BY MaxBytes
    <2>1. PICK k : k = PlaceOf(o \div BSIZE)
      OBVIOUS
    <2>2. k \in Places /\ o % BSIZE \in 0..(BSIZE - 1) /\ o \div BSIZE \in Nat
      BY <2>0, <2>1, OffsetType, PlaceOfType
    <2>3. Place(A[j], d, k) # 0 /\ d[Place(A[j], d, k)][o % BSIZE] = Byte(j, o)
      BY <1>12, <2>1 DEF Holds
    <2>4. Place(A[j], d2, k) = Place(A[j], d, k) /\ Place(A[j], d, k) \in 0..NBLOCKS
      BY <1>0, <1>10, <2>2, PlaceType
    <2>5. CASE Place(A[j], d, k) # b
      <3>1. Place(A[j], d, k) \in Blocks
        BY <2>3, <2>4 DEF Blocks
      <3>2. QED BY <1>11, <2>1, <2>3, <2>4, <2>5, <3>1
    <2>6. CASE Place(A[j], d, k) = b
      <3>1. j = i /\ k = k0
        BY <1>0, <1>3, <2>2, <2>3, <2>6 DEF OneOwner
      <3>2. o \div BSIZE = at \div BSIZE
        BY <1>1, <1>2, <2>1, <2>2, <3>1, PlaceOfOne
      <3>3. base + (o % BSIZE) = o
        BY <1>5, <2>0, <3>2, OffsetIs
      <3>4. new[o % BSIZE] = Byte(j, o)
        BY <1>7, <2>2, <2>3, <2>6, <3>1, <3>3
      <3>5. QED BY <1>11, <2>1, <2>3, <2>4, <2>6, <3>4
    <2>7. QED BY <2>5, <2>6
  <1>13. ASSUME Holds(A[i], d, i, at) PROVE Holds(A[i], d2, i, at + m)
    <2> SUFFICES ASSUME NEW o \in 0..(at + m - 1)
                 PROVE  /\ Place(A[i], d2, PlaceOf(o \div BSIZE)) # 0
                        /\ d2[Place(A[i], d2, PlaceOf(o \div BSIZE))][o % BSIZE] = Byte(i, o)
      BY <1>6 DEF Holds
    <2>0. m \in Nat
      BY <1>6
    <2>1. CASE o < at
      <3>1. Holds(A[i], d2, i, at)
        BY <1>12, <1>13, MaxBytes
      <3>2. o \in 0..(at - 1)
        BY <2>0, <2>1
      <3>3. QED BY <3>1, <3>2 DEF Holds
    <2>2. CASE o >= at
      <3>1. o \in Nat /\ at <= o /\ o < at + (BSIZE - (at % BSIZE)) /\ o < at + m
        BY <2>0, <2>2, <1>6
      <3>2. o \div BSIZE = at \div BSIZE /\ o % BSIZE = r + (o - at)
        BY <3>1, <1>6, SameBlock
      <3>3. base + (o % BSIZE) = o
        BY <1>5, <3>1, <3>2, OffsetIs
      <3>4. o % BSIZE \in 0..(BSIZE - 1)
        BY <3>1, DivMod
      <3>5. r <= o % BSIZE /\ o % BSIZE < r + m
        BY <2>0, <3>1, <3>2
      <3>6. new[o % BSIZE] = Byte(i, o)
        BY <1>7, <3>3, <3>4, <3>5
      <3>7. Place(A[i], d2, PlaceOf(o \div BSIZE)) = b
        BY <1>2, <1>3, <1>10, <3>2
      <3>8. QED BY <1>11, <3>6, <3>7
    <2>3. QED BY <2>0, <2>1, <2>2
  <1>14. QED BY <1>10, <1>12, <1>13

-----------------------------------------------------------------------------
(* What an action leaves alone.                                            *)

\* Inode i keeps the blocks it names and the bytes it holds.
Stays(i) ==
  /\ \A l \in Places : Place(addrs[i], data, l) # 0 =>
       Place(addrs'[i], data', l) = Place(addrs[i], data, l)
  /\ \A n \in 0..MAXBYTES : Holds(addrs[i], data, i, n) => Holds(addrs'[i], data', i, n)

LEMMA StaysRefl ==
  ASSUME NEW i \in Inodes, addrs'[i] = addrs[i], data' = data
  PROVE  Stays(i)
  BY DEF Stays

\* The blocks of a transaction are blocks of the file.
LEMMA SpanType ==
  ASSUME NEW s \in Nat, NEW n1 \in Nat, n1 >= 1, s + n1 <= MAXBYTES,
         NEW bn \in (s \div BSIZE)..((s + n1 - 1) \div BSIZE)
  PROVE  bn \in 0..(MAXFILE - 1)
  <1>1. PICK z \in Nat : z = s + n1 - 1 /\ z < MAXBYTES
    BY MaxBytes
  <1>2. z \div BSIZE \in 0..(MAXFILE - 1) /\ s \div BSIZE \in Nat
    BY <1>1, OffsetType, Consts, DivMod
  <1>3. QED BY <1>1, <1>2, Consts

LEMMA TouchedStays ==
  ASSUME NEW i \in Inodes, Stays(i), NEW s \in Nat, NEW n1 \in Nat, n1 >= 1, s + n1 <= MAXBYTES
  PROVE  Touched(i, s, n1) \subseteq Touched(i, s, n1)'
  <1>0. /\ \A l \in Places : Place(addrs[i], data, l) # 0 =>
             Place(addrs'[i], data', l) = Place(addrs[i], data, l)
    BY DEF Stays
  <1>1. NDIRECT \in Places /\ Place(addrs[i], data, NDIRECT) = addrs[i][NDIRECT]
        /\ Place(addrs'[i], data', NDIRECT) = addrs'[i][NDIRECT]
    BY Consts DEF Places, Place
  <1>2. addrs[i][NDIRECT] # 0 => addrs'[i][NDIRECT] = addrs[i][NDIRECT]
    BY <1>0, <1>1
  <1>3. ASSUME NEW bn \in (s \div BSIZE)..((s + n1 - 1) \div BSIZE),
               Place(addrs[i], data, PlaceOf(bn)) # 0
        PROVE  Place(addrs'[i], data', PlaceOf(bn)) = Place(addrs[i], data, PlaceOf(bn))
    BY <1>0, <1>3, SpanType, PlaceOfType
  <1>4. SUFFICES ASSUME NEW x \in Touched(i, s, n1) PROVE x \in Touched(i, s, n1)'
    OBVIOUS
  <1>5. CASE x \in {Bitmap, InodeBlock}
    BY <1>5 DEF Touched, Bitmap, InodeBlock
  <1>6. CASE x = addrs[i][NDIRECT]
    BY <1>2, <1>6 DEF Touched, Bitmap
  <1>7. CASE x \in {Place(addrs[i], data, PlaceOf(bn)) : bn \in (s \div BSIZE)..((s + n1 - 1) \div BSIZE)}
    <2>1. PICK bn \in (s \div BSIZE)..((s + n1 - 1) \div BSIZE) : x = Place(addrs[i], data, PlaceOf(bn))
      BY <1>7
    <2>2. CASE x = 0
      BY <2>2 DEF Touched, Bitmap
    <2>3. CASE x # 0
      <3>1. x = Place(addrs'[i], data', PlaceOf(bn))
        BY <1>3, <2>1, <2>3
      <3>2. QED BY <3>1 DEF Touched
    <2>4. QED BY <2>2, <2>3
  <1>8. QED BY <1>4, <1>5, <1>6, <1>7 DEF Touched

\* What a process outside the action needs to be left as it is.
Spared(q) ==
  /\ pc'[q] = pc[q] /\ call'[q] = call[q] /\ wrote'[q] = wrote[q]
  /\ \A i \in Inodes : ilk[i] = q =>
       /\ ilk'[i] = q /\ addrs'[i] = addrs[i] /\ size'[i] = size[i] /\ Stays(i)
  /\ \A f \in Files : ilk[f[1]] = q => off'[f] = off[f]

LEMMA FileType ==
  ASSUME NEW f \in Files PROVE f[1] \in Inodes /\ f[2] \in Nat /\ f \in (Inodes \cup {Nobody}) \X Nat
  BY FileDataAssumption DEF Files

LEMMA MaxWriteType == MaxWrite \in Nat /\ MaxWrite >= 1 /\ \E K \in Nat : 2 * K + 4 <= MAXOPBLOCKS /\ MaxWrite = K * BSIZE
  <1>1. PICK K \in Nat : K = (MAXOPBLOCKS - 1 - 1 - 2) \div 2
    BY FileDataAssumption
  <1>2. K >= 1 /\ 2 * K + 4 <= MAXOPBLOCKS
    BY <1>1, FileDataAssumption
  <1>3. MaxWrite = K * BSIZE
    BY <1>1 DEF MaxWrite
  <1>4. 1 * BSIZE <= K * BSIZE /\ K * BSIZE \in Nat
    BY <1>2, Consts, MultMono
  <1>5. QED BY <1>2, <1>3, <1>4, Consts

\* The numbers of a writer.
LEMMA WriterNumbers ==
  ASSUME TypeOK, NEW p \in Procs, WriterOK(p)
  PROVE  /\ call[p].f \in Files /\ inode(p) \in Inodes /\ off[call[p].f] \in Nat
         /\ call[p].n1 \in Nat /\ call[p].n1 >= 1 /\ off[call[p].f] + call[p].n1 <= MAXBYTES
         /\ call[p].tot \in Nat /\ call[p].at \in 0..MAXBYTES /\ ilk[inode(p)] = p
  <1>1. /\ call[p].f \in Files /\ ilk[inode(p)] = p
        /\ call[p].n1 \in 1..MaxWrite /\ call[p].tot \in 0..call[p].n1
        /\ call[p].at = off[call[p].f] + call[p].tot
        /\ off[call[p].f] + call[p].n1 <= MAXBYTES
    BY DEF WriterOK
  <1>2. inode(p) \in Inodes
    BY <1>1, FileType DEF inode
  <1>3. off[call[p].f] \in 0..MAXBYTES
    BY <1>1 DEF TypeOK
  <1>4. QED BY <1>1, <1>2, <1>3, MaxWriteType, MaxBytes

LEMMA SparedOK ==
  ASSUME TypeOK, NEW q \in Procs, ProcOK(q), Spared(q)
  PROVE  ProcOK(q)'
  <1>0. /\ pc'[q] = pc[q] /\ call'[q] = call[q] /\ wrote'[q] = wrote[q]
        /\ \A i \in Inodes : ilk[i] = q =>
             /\ ilk'[i] = q /\ addrs'[i] = addrs[i] /\ size'[i] = size[i] /\ Stays(i)
        /\ \A f \in Files : ilk[f[1]] = q => off'[f] = off[f]
    BY DEF Spared
  <1>1. pc[q] \in Writing => WriterOK(q)'
    <2> SUFFICES ASSUME pc[q] \in Writing PROVE WriterOK(q)'
      OBVIOUS
    <2>1. WriterOK(q)
      BY DEF ProcOK
    <2>2. PICK c : c = call[q]
      OBVIOUS
    <2>3. PICK i : i = inode(q)
      OBVIOUS
    <2>4. /\ c.f \in Files /\ i \in Inodes /\ off[c.f] \in Nat /\ c.n1 \in Nat /\ c.n1 >= 1
          /\ off[c.f] + c.n1 <= MAXBYTES /\ c.at \in 0..MAXBYTES /\ ilk[i] = q /\ i = c.f[1]
      BY <2>1, <2>2, <2>3, WriterNumbers DEF inode
    <2>5. /\ c.n1 \in 1..MaxWrite /\ c.tot \in 0..c.n1 /\ c.at = off[c.f] + c.tot
          /\ At(q, "update") => c.tot < c.n1
          /\ Holds(addrs[i], data, i, size[i]) /\ Holds(addrs[i], data, i, c.at)
          /\ wrote[q] \subseteq Touched(i, off[c.f], c.n1)
      BY <2>1, <2>2, <2>3 DEF WriterOK
    <2>6. off'[c.f] = off[c.f] /\ ilk'[i] = q /\ addrs'[i] = addrs[i] /\ size'[i] = size[i] /\ Stays(i)
      BY <1>0, <2>4
    <2>7. Holds(addrs'[i], data', i, size'[i]) /\ Holds(addrs'[i], data', i, c.at)
      <3>1. size[i] \in 0..MAXBYTES
        BY <2>4 DEF TypeOK
      <3>2. QED BY <2>4, <2>5, <2>6, <3>1 DEF Stays
    <2>8. wrote'[q] \subseteq Touched(i, off[c.f], c.n1)'
      <3>1. PICK s \in Nat : s = off[c.f]
        BY <2>4
      <3>2. PICK n1 \in Nat : n1 = c.n1
        BY <2>4
      <3>3. Touched(i, s, n1) \subseteq Touched(i, s, n1)'
        BY <2>4, <2>6, <3>1, <3>2, TouchedStays
      <3>4. s = off'[c.f]
        BY <2>6, <3>1
      <3>5. wrote'[q] \subseteq Touched(i, s, n1)'
        BY <1>0, <2>5, <3>1, <3>2, <3>3
      <3>6. QED BY <3>5, <3>4, <3>2, <3>1, <2>6 DEF Touched
    <2>9. call'[q] = c /\ inode(q)' = i /\ At(q, "update")' = At(q, "update")
      BY <1>0, <2>2, <2>3 DEF inode, At
    <2>10. QED BY <2>4, <2>5, <2>6, <2>7, <2>8, <2>9 DEF WriterOK
  <1>2. pc'[q] = pc[q] /\ call'[q] = call[q] /\ wrote'[q] = wrote[q] /\ inode(q)' = inode(q)
    BY <1>0 DEF inode
  <1>3. pc[q] = "itrunc" => /\ inode(q) \in Inodes /\ ilk'[inode(q)] = q
                            /\ wrote'[q] = {Bitmap, InodeBlock}
                            /\ \A k \in 0..(NDIRECT - 1) : addrs'[inode(q)][k] = 0
    BY <1>0 DEF ProcOK, At
  <1>4. /\ At(q, "user")' => call'[q] = Idle
        /\ pc'[q] \in {"user", "chunk"} => wrote'[q] = {}
        /\ At(q, "chunk")' => call'[q].f \in Files
    BY <1>2 DEF ProcOK, At
  <1>5. QED BY <1>1, <1>2, <1>3, <1>4 DEF ProcOK, At, Bitmap, InodeBlock, Idle

\* An inode that is not locked and was not.
LEMMA InodeKept ==
  ASSUME TypeOK, NEW i \in Inodes, InodeOK(i), ilk'[i] = Nobody => ilk[i] = Nobody,
         addrs'[i] = addrs[i], size'[i] = size[i], daddrs'[i] = daddrs[i], dsize'[i] = dsize[i],
         Stays(i)
  PROVE  InodeOK(i)'
  <1> SUFFICES ASSUME ilk'[i] = Nobody
               PROVE  Holds(addrs'[i], data', i, size'[i]) /\ daddrs'[i] = addrs'[i] /\ dsize'[i] = size'[i]
    BY DEF InodeOK
  <1>1. Holds(addrs[i], data, i, size[i]) /\ daddrs[i] = addrs[i] /\ dsize[i] = size[i]
    BY DEF InodeOK
  <1>2. size[i] \in 0..MAXBYTES
    BY DEF TypeOK
  <1>3. QED BY <1>1, <1>2 DEF Stays

-----------------------------------------------------------------------------
(* The actions.                                                            *)

CallType == [f : (Inodes \cup {Nobody}) \X Nat, n : Int, n1 : Int, at : Int, tot : Int]

LEMMA IdleType == Idle \in CallType /\ Idle.f = <<Nobody, 0>>
  BY DEF Idle, CallType

\* A step of p that changes no inode and no data.
LEMMA Quiet ==
  ASSUME IInv, NEW p \in Procs, UNCHANGED <<disk, addrs, size>>,
         TypeOK', ProcOK(p)',
         \A i \in Inodes : ilk'[i] = ilk[i] \/ (ilk[i] = Nobody /\ ilk'[i] = p),
         \A q \in Procs : q # p =>
           /\ pc'[q] = pc[q] /\ call'[q] = call[q] /\ wrote'[q] = wrote[q]
           /\ \A f \in Files : ilk[f[1]] = q => off'[f] = off[f]
  PROVE  IInv'
  <1>1. bitmap' = bitmap /\ data' = data /\ addrs' = addrs /\ size' = size /\ daddrs' = daddrs /\ dsize' = dsize
    BY DEF disk
  <1>2. Alloc(bitmap, data, addrs)'
    BY <1>1 DEF IInv
  <1>3. Nobody \notin Procs
    BY FileDataAssumption
  <1>4. ASSUME NEW q \in Procs PROVE ProcOK(q)'
    <2>1. CASE q = p
      BY <2>1
    <2>2. CASE q # p
      <3>1. ASSUME NEW i \in Inodes, ilk[i] = q
            PROVE  ilk'[i] = q /\ addrs'[i] = addrs[i] /\ size'[i] = size[i] /\ Stays(i)
        BY <1>1, <1>3, <2>2, <3>1, StaysRefl
      <3>2. Spared(q)
        BY <2>2, <3>1 DEF Spared
      <3>3. QED BY <3>2, SparedOK DEF IInv
    <2>3. QED BY <2>1, <2>2
  <1>5. ASSUME NEW i \in Inodes PROVE InodeOK(i)'
    <2>1. ilk'[i] = Nobody => ilk[i] = Nobody
      BY <1>3
    <2>2. QED BY <1>1, <2>1, StaysRefl, InodeKept DEF IInv
  <1>6. QED BY <1>2, <1>4, <1>5 DEF IInv

LEMMA FilewriteStep ==
  ASSUME IInv, NEW p \in Procs, NEW f \in Files, NEW n \in WriteSizes, filewrite(p, f, n)
  PROVE  IInv'
  <1>0. /\ TypeOK /\ ProcOK(p) /\ pc[p] = "user" /\ pc' = [pc EXCEPT ![p] = "chunk"]
        /\ call' = [call EXCEPT ![p] = [Idle EXCEPT !.f = f, !.n = Signed(n)]]
        /\ UNCHANGED <<disk, addrs, size, ilk, off, wrote>>
    BY DEF filewrite, At, Goto, IInv
  <1>1. PICK c : c = [Idle EXCEPT !.f = f, !.n = Signed(n)]
    OBVIOUS
  <1>2. Signed(n) \in Int
    BY FileDataAssumption DEF Signed
  <1>3. c \in CallType /\ c.f = f
    BY <1>1, <1>2, IdleType, FileType DEF CallType
  <1>4. call' \in [Procs -> CallType] /\ call'[p] = c
    BY <1>0, <1>1, <1>3 DEF TypeOK, CallType
  <1>5. TypeOK'
    <2>1. pc' \in [Procs -> {"user", "chunk", "itrunc"} \cup Writing]
      BY <1>0 DEF TypeOK
    <2>2. QED BY <1>0, <1>4, <2>1 DEF TypeOK, CallType, disk, Files, Addrs, MAXBYTES
  <1>6. ProcOK(p)'
    <2>1. pc'[p] = "chunk" /\ wrote'[p] = {}
      BY <1>0 DEF TypeOK, ProcOK
    <2>2. QED BY <1>3, <1>4, <2>1 DEF ProcOK, At, Writing
  <1>7. ASSUME NEW q \in Procs, q # p PROVE pc'[q] = pc[q] /\ call'[q] = call[q]
    BY <1>0, <1>7 DEF TypeOK
  <1>8. QED BY <1>0, <1>5, <1>6, <1>7, Quiet

LEMMA ReadCountBound ==
  ASSUME TypeOK, NEW f \in Files, NEW n \in ReadSizes
  PROVE  off[f] + ReadCount(f[1], off[f], n) \in 0..MAXBYTES
  <1>1. PICK i \in Inodes : i = f[1]
    BY FileType
  <1>2. PICK o \in 0..MAXBYTES : o = off[f]
    BY DEF TypeOK
  <1>3. PICK z \in 0..MAXBYTES : z = size[i]
    BY DEF TypeOK
  <1>4. UINT \in Nat /\ UINT > MAXBYTES /\ n \in 0..(UINT - 1)
    <2>1. PICK y \in Nat : y = MAXFILE * BSIZE
      BY Consts
    <2>2. 2 * MAXFILE * BSIZE = 2 * y
      BY Consts, <2>1
    <2>3. QED BY <2>1, <2>2, FileDataAssumption DEF MAXBYTES
  <1>5. PICK r : r = ReadCount(i, o, n)
    OBVIOUS
  <1>6. CASE o > z \/ (o + n) % UINT < o
    <2>1. r = 0
      BY <1>3, <1>5, <1>6 DEF ReadCount
    <2>2. QED BY <1>1, <1>2, <1>5, <2>1
  <1>7. CASE ~(o > z \/ (o + n) % UINT < o) /\ (o + n) % UINT > z
    <2>1. r = z - o
      BY <1>3, <1>5, <1>7 DEF ReadCount
    <2>2. QED BY <1>1, <1>2, <1>5, <2>1, MaxBytes
  <1>8. CASE ~(o > z \/ (o + n) % UINT < o) /\ ~((o + n) % UINT > z)
    <2>1. r = n
      BY <1>3, <1>5, <1>8 DEF ReadCount
    <2>2. o + n < UINT
      <3>1. SUFFICES ASSUME o + n >= UINT PROVE FALSE
        BY <1>4, MaxBytes
      <3>2. (o + n) % UINT = o + n - UINT
        <4>1. PICK r1 \in 0..(UINT - 1) : r1 = o + n - UINT
          BY <1>4, <3>1, MaxBytes
        <4>2. o + n = 1 * UINT + r1
          BY <1>4, <4>1, MaxBytes
        <4>3. QED BY <1>4, <4>1, <4>2, ModUnique, MaxBytes
      <3>3. QED BY <1>4, <1>8, <3>2, MaxBytes
    <2>3. (o + n) % UINT = o + n
      BY <1>4, <2>2, ModSmall, MaxBytes
    <2>4. o + n <= z
      BY <1>4, <1>8, <2>3, MaxBytes
    <2>5. QED BY <1>1, <1>2, <1>4, <1>5, <2>1, <2>4, MaxBytes
  <1>9. QED BY <1>6, <1>7, <1>8

\* Steps that move the offset of a file whose inode is not locked.
LEMMA OffsetStep ==
  ASSUME IInv, NEW p \in Procs, NEW f \in Files, ilk[f[1]] = Nobody, NEW o \in 0..MAXBYTES,
         At(p, "user"),
         off' = [off EXCEPT ![f] = o], UNCHANGED <<disk, addrs, size, ilk, pc, call, wrote>>
  PROVE  IInv'
  <1>0. TypeOK /\ ProcOK(p) /\ Nobody \notin Procs /\ pc[p] = "user"
    BY FileDataAssumption DEF IInv, At
  <1>1. TypeOK'
    BY <1>0 DEF TypeOK, disk, Files, Addrs, MAXBYTES
  <1>2. \A g \in Files : g # f => off'[g] = off[g]
    BY <1>0 DEF TypeOK
  <1>3. ProcOK(p)'
    <2>1. pc'[p] = "user" /\ call'[p] = Idle /\ wrote'[p] = {}
      BY <1>0 DEF ProcOK, At
    <2>2. QED BY <2>1 DEF ProcOK, At, Writing, Idle
  <1>4. ASSUME NEW q \in Procs, NEW g \in Files, ilk[g[1]] = q PROVE off'[g] = off[g]
    BY <1>0, <1>2, <1>4
  <1>5. QED BY <1>1, <1>3, <1>4, Quiet

LEMMA FilereadStep ==
  ASSUME IInv, NEW p \in Procs, NEW f \in Files, NEW n \in ReadSizes, fileread(p, f, n)
  PROVE  IInv'
  <1>1. PICK o \in 0..MAXBYTES : o = off[f] + ReadCount(f[1], off[f], n)
    BY ReadCountBound DEF IInv
  <1>2. /\ At(p, "user") /\ ilk[f[1]] = Nobody /\ off' = [off EXCEPT ![f] = o]
        /\ UNCHANGED <<disk, addrs, size, ilk, pc, call, wrote>>
    BY <1>1 DEF fileread
  <1>3. QED BY <1>2, OffsetStep

LEMMA OpenStep ==
  ASSUME IInv, NEW p \in Procs, NEW f \in Files, open(p, f)
  PROVE  IInv'
  <1>1. PICK o \in 0..MAXBYTES : o = 0
    BY MaxBytes
  <1>2. /\ At(p, "user") /\ ilk[f[1]] = Nobody /\ off' = [off EXCEPT ![f] = o]
        /\ UNCHANGED <<disk, addrs, size, ilk, pc, call, wrote>>
    BY <1>1 DEF open
  <1>3. QED BY <1>2, OffsetStep

LEMMA HoldsLess ==
  ASSUME NEW a, NEW d, NEW i, NEW n \in Nat, NEW m \in 0..n, Holds(a, d, i, n)
  PROVE  Holds(a, d, i, m)
  BY DEF Holds

LEMMA ChunkStep ==
  ASSUME IInv, NEW p \in Procs, chunk(p)
  PROVE  IInv'
  <1>a. PICK n1 : n1 = Min({call[p].n, MaxWrite})
    OBVIOUS
  <1>b. PICK i : i = inode(p)
    OBVIOUS
  <1>c. PICK f : f = call[p].f
    OBVIOUS
  <1>0. /\ TypeOK /\ ProcOK(p) /\ pc[p] = "chunk" /\ Nobody \notin Procs
        /\ UNCHANGED <<disk, addrs, size, off>>
    BY FileDataAssumption DEF chunk, At, IInv
  <1>1. f \in Files /\ i \in Inodes /\ i = f[1] /\ call[p] \in CallType /\ wrote[p] = {}
    BY <1>0, <1>b, <1>c, FileType DEF ProcOK, At, inode, TypeOK, CallType
  <1>2. ASSUME /\ pc' = [pc EXCEPT ![p] = "user"] /\ call' = [call EXCEPT ![p] = Idle]
               /\ UNCHANGED <<ilk, wrote>>
        PROVE  IInv'
    <2>1. call' \in [Procs -> CallType] /\ call'[p] = Idle
      BY <1>0, <1>2, IdleType DEF TypeOK, CallType
    <2>2. TypeOK'
      <3>1. pc' \in [Procs -> {"user", "chunk", "itrunc"} \cup Writing]
        BY <1>0, <1>2 DEF TypeOK
      <3>2. QED BY <1>0, <1>2, <2>1, <3>1 DEF TypeOK, CallType, disk, Files, Addrs, MAXBYTES
    <2>3. ProcOK(p)'
      <3>1. pc'[p] = "user" /\ wrote'[p] = {}
        BY <1>0, <1>1, <1>2 DEF TypeOK
      <3>2. QED BY <2>1, <3>1 DEF ProcOK, At, Writing, Idle
    <2>4. ASSUME NEW q \in Procs, q # p PROVE pc'[q] = pc[q] /\ call'[q] = call[q]
      BY <1>0, <1>2, <2>4 DEF TypeOK
    <2>5. QED BY <1>0, <1>2, <2>2, <2>3, <2>4, Quiet
  <1>3. ASSUME /\ call[p].n > 0 /\ ilk[i] = Nobody /\ Writable(i, off[f], n1)
               /\ ilk' = [ilk EXCEPT ![i] = p] /\ wrote' = [wrote EXCEPT ![p] = {InodeBlock}]
               /\ call' = [call EXCEPT ![p].n1 = n1, ![p].at = off[f], ![p].tot = 0]
               /\ pc' = [pc EXCEPT ![p] = "writei"]
        PROVE  IInv'
    <2>1. n1 \in 1..MaxWrite
      <3>1. call[p].n \in Int
        BY <1>1 DEF CallType
      <3>2. n1 \in {call[p].n, MaxWrite} /\ n1 <= MaxWrite
        <4>1. MaxWrite \in Int
          BY MaxWriteType
        <4>2. QED BY <1>a, <3>1, <4>1, MinTwo
      <3>3. QED BY <1>3, <3>1, <3>2, MaxWriteType
    <2>2. off[f] \in 0..MAXBYTES /\ size[i] \in 0..MAXBYTES
      BY <1>0, <1>1 DEF TypeOK
    <2>3. off[f] <= size[i] /\ off[f] + n1 <= MAXBYTES
      BY <1>3, <2>1, <2>2, MaxBytes DEF Writable, MAXBYTES
    <2>4. PICK c : c = [call[p] EXCEPT !.n1 = n1, !.at = off[f], !.tot = 0]
      OBVIOUS
    <2>5. /\ c \in CallType /\ c.f = f /\ c.n1 = n1 /\ c.at = off[f] /\ c.tot = 0
      <3>1. n1 \in Int /\ off[f] \in Int
        BY <2>1, <2>2
      <3>2. PICK x \in Int, y \in Int, z \in Int : x = n1 /\ y = off[f] /\ z = 0
        BY <3>1
      <3>3. c = [call[p] EXCEPT !.n1 = x, !.at = y, !.tot = z]
        BY <2>4, <3>2
      <3>4. c \in CallType /\ c.f = f /\ c.n1 = x /\ c.at = y /\ c.tot = z
        BY <1>1, <1>c, <3>3 DEF CallType
      <3>5. QED BY <3>2, <3>4
    <2>6. call' = [call EXCEPT ![p] = c]
      BY <1>0, <1>1, <1>3, <2>4 DEF TypeOK, CallType
    <2>7. call' \in [Procs -> CallType] /\ call'[p] = c
      BY <1>0, <2>5, <2>6 DEF TypeOK, CallType
    <2>8. ilk' \in [Inodes -> Procs \cup {Nobody}] /\ ilk'[i] = p
      BY <1>0, <1>1, <1>3 DEF TypeOK
    <2>9. TypeOK'
      <3>1. pc' \in [Procs -> {"user", "chunk", "itrunc"} \cup Writing]
        BY <1>0, <1>3 DEF TypeOK, Writing
      <3>2. InodeBlock \in Int
        BY Consts DEF InodeBlock
      <3>3. wrote' \in [Procs -> SUBSET Int]
        BY <1>0, <1>3, <3>2 DEF TypeOK
      <3>4. QED BY <1>0, <2>7, <2>8, <3>1, <3>3 DEF TypeOK, CallType, disk, Files, Addrs, MAXBYTES
    <2>10. Holds(addrs[i], data, i, size[i]) /\ Holds(addrs[i], data, i, off[f])
      <3>1. Holds(addrs[i], data, i, size[i])
        BY <1>1, <1>3 DEF IInv, InodeOK
      <3>2. off[f] \in 0..size[i] /\ size[i] \in Nat
        BY <2>2, <2>3, MaxBytes
      <3>3. QED BY <3>1, <3>2, HoldsLess
    <2>11. pc'[p] = "writei" /\ wrote'[p] = {InodeBlock}
      BY <1>0, <1>3 DEF TypeOK
    <2>12. inode(p)' = i /\ off' = off /\ size' = size /\ addrs' = addrs /\ data' = data
      BY <1>0, <1>1, <1>b, <1>c, <2>5, <2>7 DEF inode, disk
    <2>13. PICK s : s = off[f]
      OBVIOUS
    <2>14. WriterOK(p)'
      <3>1. c.f \in Files /\ ilk'[i] = p /\ c.n1 \in 1..MaxWrite /\ c.tot \in 0..c.n1 /\ c.at = off'[c.f] + c.tot
        BY <1>1, <2>1, <2>2, <2>5, <2>8, <2>12, MaxWriteType, MaxBytes, <1>c
      <3>2. ~At(p, "update")'
        BY <2>11 DEF At
      <3>3. off'[c.f] + c.n1 <= MAXBYTES /\ wrote'[p] \subseteq Touched(i, s, c.n1)' /\ s = off'[c.f]
        BY <2>3, <2>5, <2>11, <2>12, <2>13 DEF Touched, InodeBlock
      <3>4. Holds(addrs'[i], data', i, size'[i]) /\ Holds(addrs'[i], data', i, c.at)
        BY <2>5, <2>10, <2>12
      <3>5. QED BY <3>1, <3>2, <3>3, <3>4, <2>7, <2>12 DEF WriterOK
    <2>15. ProcOK(p)'
      BY <2>11, <2>14 DEF ProcOK, At
    <2>16. ASSUME NEW q \in Procs, q # p
           PROVE  pc'[q] = pc[q] /\ call'[q] = call[q] /\ wrote'[q] = wrote[q]
      BY <1>0, <1>3, <2>6, <2>16 DEF TypeOK
    <2>17. ASSUME NEW j \in Inodes PROVE ilk'[j] = ilk[j] \/ (ilk[j] = Nobody /\ ilk'[j] = p)
      BY <1>0, <1>1, <1>3 DEF TypeOK
    <2>18. QED BY <1>0, <2>9, <2>12, <2>15, <2>16, <2>17, Quiet
  <1>4. QED BY <1>a, <1>b, <1>c, <1>2, <1>3 DEF chunk, Goto

LEMMA ChainFields == ASSUME NEW u \in Chain PROVE u.log \in SUBSET Int /\ u.ret \in Int
  BY Consts DEF Chain

Bmapped(i, at) == bmap([bitmap |-> bitmap, addrs |-> addrs[i], data |-> data,
                        log |-> {}, ret |-> 0], at \div BSIZE)

\* What bmap() and the copy of one iteration do to the files.
LEMMA WriteBlock ==
  ASSUME TypeOK, Alloc(bitmap, data, addrs), NEW i \in Inodes, NEW at \in Nat, at < MAXBYTES,
         NEW t, t = Bmapped(i, at), bitmap' = t.bitmap, addrs' = With(addrs, i, t.addrs),
         \/ data' = t.data
         \/ t.ret # 0 /\ \E m \in 0..(BSIZE - (at % BSIZE)) : data' = Copied(t.data, t.ret, i, at, m)
  PROVE  /\ Alloc(bitmap', data', addrs')
         /\ \A j \in Inodes : Stays(j)
         /\ t.ret = Place(addrs'[i], data', PlaceOf(at \div BSIZE))
         /\ t.log \subseteq {Bitmap, addrs'[i][NDIRECT], t.ret}
         /\ t.log \in SUBSET Int /\ t.ret \in Int
         /\ \A m \in 0..(BSIZE - (at % BSIZE)) :
              /\ t.ret # 0 /\ data' = Copied(t.data, t.ret, i, at, m)
              /\ Holds(addrs[i], data, i, at)
              => Holds(addrs'[i], data', i, at + m)
  <1>1. PICK t0 : t0 = [bitmap |-> bitmap, addrs |-> addrs[i], data |-> data, log |-> {}, ret |-> 0]
    OBVIOUS
  <1>2. /\ t0.bitmap = bitmap /\ t0.addrs = addrs[i] /\ t0.data = data /\ t0.log = {} /\ t0.ret = 0
    BY <1>1
  <1>3. Stands(t0, addrs, i)
    <2>1. /\ bitmap \in [Blocks -> {0, 1}] /\ data \in [Blocks -> Content] /\ addrs[i] \in Addrs
      BY DEF Alloc, AllocType
    <2>2. t0 \in Chain
      BY <1>1, <2>1, Consts DEF Chain
    <2>3. QED BY <1>2, <2>2 DEF Stands
  <1>4. PICK bn \in 0..(MAXFILE - 1) : bn = at \div BSIZE
    BY OffsetType
  <1>5. t = bmap(t0, bn)
    BY <1>1, <1>4 DEF Bmapped
  <1>6. PICK A2 : A2 = With(addrs, i, t.addrs)
    OBVIOUS
  <1>7. /\ Stands(t, A2, i) /\ Grows(data, addrs, t.data, A2)
        /\ t.ret = Place(t.addrs, t.data, PlaceOf(bn))
        /\ t.log \subseteq {Bitmap, t.addrs[NDIRECT], t.ret}
    <2>1. /\ Stands(t, With(addrs, i, t.addrs), i)
          /\ Grows(t0.data, addrs, t.data, With(addrs, i, t.addrs))
          /\ t.ret = Place(t.addrs, t.data, PlaceOf(bn))
          /\ t.log \subseteq t0.log \cup {Bitmap, t.addrs[NDIRECT], t.ret}
      BY <1>3, <1>5, BmapTakes
    <2>2. QED BY <1>2, <1>6, <2>1
  <1>8. addrs' = A2
    BY <1>6
  <1>9. /\ Alloc(t.bitmap, t.data, A2) /\ A2[i] = t.addrs /\ t.log \in SUBSET Int /\ t.ret \in Int
        /\ t.ret = Place(A2[i], t.data, PlaceOf(at \div BSIZE))
    <2>1. t \in Chain /\ t.addrs = A2[i] /\ Alloc(t.bitmap, t.data, A2)
      BY <1>7 DEF Stands
    <2>2. t.log \in SUBSET Int /\ t.ret \in Int
      BY <2>1, ChainFields
    <2>3. QED BY <1>4, <1>7, <2>1, <2>2
  <1>10. ASSUME NEW j \in Inodes, NEW l \in Places, Place(addrs[j], data, l) # 0
         PROVE  Place(A2[j], t.data, l) = Place(addrs[j], data, l)
    BY <1>7, <1>10 DEF Grows
  <1>11. ASSUME NEW j \in Inodes, NEW n \in 0..MAXBYTES, Holds(addrs[j], data, j, n)
         PROVE  Holds(A2[j], t.data, j, n)
    BY <1>7, <1>11, HoldsGrows
  <1>12. at \in 0..MAXBYTES
    BY MaxBytes
  <1>13. ASSUME NEW m \in 0..(BSIZE - (at % BSIZE)), t.ret # 0, data' = Copied(t.data, t.ret, i, at, m)
         PROVE  /\ Alloc(t.bitmap, data', A2)
                /\ \A j \in Inodes, l \in Places : Place(A2[j], data', l) = Place(A2[j], t.data, l)
                /\ \A j \in Inodes, n \in 0..MAXBYTES : Holds(A2[j], t.data, j, n) => Holds(A2[j], data', j, n)
                /\ Holds(A2[i], t.data, i, at) => Holds(A2[i], data', i, at + m)
    <2>1. PICK b : b = t.ret
      OBVIOUS
    <2>2. PICK d : d = t.data
      OBVIOUS
    <2>3. PICK d2 : d2 = data'
      OBVIOUS
    <2>4. Alloc(t.bitmap, d, A2) /\ b = Place(A2[i], d, PlaceOf(at \div BSIZE)) /\ b # 0
          /\ d2 = Copied(d, b, i, at, m)
      BY <1>9, <1>13, <2>1, <2>2, <2>3
    <2>5. /\ Alloc(t.bitmap, d2, A2)
          /\ \A j \in Inodes, l \in Places : Place(A2[j], d2, l) = Place(A2[j], d, l)
          /\ \A j \in Inodes, n \in 0..MAXBYTES : Holds(A2[j], d, j, n) => Holds(A2[j], d2, j, n)
          /\ Holds(A2[i], d, i, at) => Holds(A2[i], d2, i, at + m)
      BY <2>4, HoldsCopy
    <2>6. QED BY <2>2, <2>3, <2>5
  <1>14. /\ Alloc(t.bitmap, data', A2)
         /\ \A j \in Inodes, l \in Places : Place(A2[j], data', l) = Place(A2[j], t.data, l)
         /\ \A j \in Inodes, n \in 0..MAXBYTES : Holds(A2[j], t.data, j, n) => Holds(A2[j], data', j, n)
    <2>1. CASE data' = t.data
      BY <1>9, <2>1
    <2>2. CASE t.ret # 0 /\ \E m \in 0..(BSIZE - (at % BSIZE)) : data' = Copied(t.data, t.ret, i, at, m)
      BY <1>13, <2>2
    <2>3. QED BY <2>1, <2>2
  <1>15. ASSUME NEW j \in Inodes PROVE Stays(j)
    BY <1>8, <1>10, <1>11, <1>14 DEF Stays
  <1>16. PlaceOf(at \div BSIZE) \in Places
    BY <1>4, PlaceOfType
  <1>17. ASSUME NEW m \in 0..(BSIZE - (at % BSIZE)),
                t.ret # 0, data' = Copied(t.data, t.ret, i, at, m), Holds(addrs[i], data, i, at)
         PROVE  Holds(addrs'[i], data', i, at + m)
    BY <1>8, <1>11, <1>12, <1>13, <1>17
  <1>18. t.ret = Place(addrs'[i], data', PlaceOf(at \div BSIZE))
    BY <1>8, <1>9, <1>14, <1>16
  <1>19. QED BY <1>7, <1>8, <1>9, <1>14, <1>15, <1>17, <1>18

LEMMA WriteiStep ==
  ASSUME IInv, NEW p \in Procs, writei(p)
  PROVE  IInv'
  <1>a. PICK i : i = inode(p)
    OBVIOUS
  <1>b. PICK c : c = call[p]
    OBVIOUS
  <1>c. PICK t : t = bmap([bitmap |-> bitmap, addrs |-> addrs[i], data |-> data,
                           log |-> {}, ret |-> 0], c.at \div BSIZE)
    OBVIOUS
  <1>d. PICK m : m = Min({c.n1 - c.tot, BSIZE - (c.at % BSIZE)})
    OBVIOUS
  <1>0. /\ TypeOK /\ Alloc(bitmap, data, addrs) /\ ProcOK(p) /\ pc[p] = "writei" /\ c.tot < c.n1
        /\ Nobody \notin Procs
    BY <1>b, FileDataAssumption DEF writei, At, IInv
  <1>1. /\ bitmap' = t.bitmap /\ addrs' = [addrs EXCEPT ![i] = t.addrs]
        /\ \/ /\ t.ret # 0
              /\ data' = Copied(t.data, t.ret, i, c.at, m)
              /\ wrote' = [wrote EXCEPT ![p] = @ \cup t.log \cup {t.ret}]
              /\ call' = [call EXCEPT ![p].at = @ + m, ![p].tot = @ + m]
              /\ UNCHANGED pc
           \/ /\ IF t.ret = 0 THEN data' = t.data
                 ELSE \E k \in 0..(m - 1) : data' = Copied(t.data, t.ret, i, c.at, k)
              /\ wrote' = [wrote EXCEPT ![p] = @ \cup t.log]
              /\ pc' = [pc EXCEPT ![p] = "update"] /\ UNCHANGED call
        /\ UNCHANGED <<daddrs, dsize, size, ilk, off>>
    BY <1>a, <1>b, <1>c, <1>d, Zenon DEF writei, Goto
  <1>2. WriterOK(p)
    BY <1>0 DEF ProcOK, Writing
  <1>3. PICK s : s = off[c.f]
    OBVIOUS
  <1>4. /\ c.f \in Files /\ i \in Inodes /\ s \in Nat /\ c.n1 \in Nat /\ c.n1 >= 1
        /\ s + c.n1 <= MAXBYTES /\ c.tot \in Nat /\ ilk[i] = p
    BY <1>a, <1>b, <1>0, <1>2, <1>3, WriterNumbers
  <1>5. /\ c.n1 \in 1..MaxWrite /\ c.at = s + c.tot
        /\ Holds(addrs[i], data, i, size[i]) /\ Holds(addrs[i], data, i, c.at)
        /\ wrote[p] \subseteq Touched(i, s, c.n1)
    BY <1>a, <1>b, <1>2, <1>3 DEF WriterOK
  <1>6. PICK at \in Nat : at = c.at /\ at < s + c.n1 /\ at < MAXBYTES
    BY <1>0, <1>4, <1>5, MaxBytes
  <1>7. at % BSIZE \in 0..(BSIZE - 1)
    BY Consts, DivMod
  <1>8. m \in 1..(BSIZE - (at % BSIZE)) /\ m \in Nat /\ c.tot + m <= c.n1
    <2>1. PICK x \in Int, y \in Int : x = c.n1 - c.tot /\ y = BSIZE - (at % BSIZE) /\ x >= 1 /\ y >= 1
      BY <1>0, <1>4, <1>7, Consts
    <2>2. m \in {x, y} /\ m <= x /\ m <= y
      BY <1>d, <1>6, <2>1, MinTwo
    <2>3. QED BY <1>4, <2>1, <2>2
  <1>9. \/ data' = t.data
        \/ t.ret # 0 /\ \E k \in 0..(BSIZE - (at % BSIZE)) : data' = Copied(t.data, t.ret, i, at, k)
    <2>1. m \in 0..(BSIZE - (at % BSIZE))
      BY <1>7, <1>8, Consts
    <2>2. \A k \in 0..(m - 1) : k \in 0..(BSIZE - (at % BSIZE))
      BY <1>7, <1>8, Consts
    <2>3. QED BY <1>1, <1>6, <2>1, <2>2
  <1>10. /\ Alloc(bitmap', data', addrs')
         /\ \A j \in Inodes : Stays(j)
         /\ t.ret = Place(addrs'[i], data', PlaceOf(at \div BSIZE))
         /\ t.log \subseteq {Bitmap, addrs'[i][NDIRECT], t.ret}
         /\ t.log \in SUBSET Int /\ t.ret \in Int
         /\ \A k \in 0..(BSIZE - (at % BSIZE)) :
              /\ t.ret # 0 /\ data' = Copied(t.data, t.ret, i, at, k)
              /\ Holds(addrs[i], data, i, at)
              => Holds(addrs'[i], data', i, at + k)
    <2>1. t = Bmapped(i, at)
      BY <1>c, <1>6 DEF Bmapped
    <2>2. bitmap' = t.bitmap /\ addrs' = With(addrs, i, t.addrs)
      BY <1>1 DEF With
    <2>3. QED BY <1>0, <1>4, <1>6, <1>9, <2>1, <2>2, WriteBlock
  <1>11. t.log \cup {t.ret} \subseteq Touched(i, s, c.n1)'
    <2>1. at \div BSIZE \in (s \div BSIZE)..((s + c.n1 - 1) \div BSIZE)
      <3>1. s <= at /\ at <= s + c.n1 - 1 /\ s + c.n1 - 1 \in Nat
        BY <1>4, <1>5, <1>6
      <3>2. s \div BSIZE <= at \div BSIZE /\ at \div BSIZE <= (s + c.n1 - 1) \div BSIZE
        BY <1>4, <3>1, Consts, DivMono
      <3>3. s \div BSIZE \in Nat /\ at \div BSIZE \in Nat /\ (s + c.n1 - 1) \div BSIZE \in Nat
        BY <1>4, <3>1, Consts, DivMod
      <3>4. QED BY <3>2, <3>3
    <2>2. t.ret \in {Place(addrs'[i], data', PlaceOf(bn)) : bn \in (s \div BSIZE)..((s + c.n1 - 1) \div BSIZE)}
      BY <1>10, <2>1
    <2>3. QED BY <1>10, <2>2 DEF Touched, Bitmap
  <1>12. wrote[p] \subseteq Touched(i, s, c.n1)'
    <2>1. PICK n1 \in Nat : n1 = c.n1
      BY <1>4
    <2>2. Touched(i, s, n1) \subseteq Touched(i, s, n1)'
      BY <1>4, <1>10, <2>1, TouchedStays
    <2>3. QED BY <1>5, <2>1, <2>2
  <1>13. /\ Holds(addrs'[i], data', i, size[i]) /\ Holds(addrs'[i], data', i, at)
    <2>1. size[i] \in 0..MAXBYTES /\ at \in 0..MAXBYTES
      BY <1>0, <1>4, <1>6, MaxBytes DEF TypeOK
    <2>2. QED BY <1>4, <1>5, <1>6, <1>10, <2>1 DEF Stays
  <1>14. size' = size /\ ilk' = ilk /\ off' = off /\ daddrs' = daddrs /\ dsize' = dsize
    BY <1>1
  <1>15. c \in CallType
    BY <1>0, <1>b DEF TypeOK, CallType
  <1>16. /\ TypeOK' /\ ProcOK(p)'
         /\ \A q \in Procs : q # p => pc'[q] = pc[q] /\ call'[q] = call[q] /\ wrote'[q] = wrote[q]
    <2>1. CASE /\ t.ret # 0
               /\ data' = Copied(t.data, t.ret, i, c.at, m)
               /\ wrote' = [wrote EXCEPT ![p] = @ \cup t.log \cup {t.ret}]
               /\ call' = [call EXCEPT ![p].at = @ + m, ![p].tot = @ + m]
               /\ UNCHANGED pc
      <3>1. PICK x \in Int, y \in Int : x = c.at + m /\ y = c.tot + m
        BY <1>4, <1>6, <1>8
      <3>2. PICK c2 : c2 = [c EXCEPT !.at = x, !.tot = y]
        OBVIOUS
      <3>3. c2 \in CallType /\ c2.f = c.f /\ c2.n1 = c.n1 /\ c2.at = x /\ c2.tot = y
        BY <1>15, <3>2 DEF CallType
      <3>4. call' = [call EXCEPT ![p] = c2]
        BY <1>b, <1>0, <2>1, <3>1, <3>2 DEF TypeOK
      <3>5. call' \in [Procs -> CallType] /\ call'[p] = c2 /\ \A q \in Procs : q # p => call'[q] = call[q]
        BY <1>0, <3>3, <3>4 DEF TypeOK, CallType
      <3>6. /\ wrote' \in [Procs -> SUBSET Int] /\ wrote'[p] = wrote[p] \cup (t.log \cup {t.ret})
            /\ \A q \in Procs : q # p => wrote'[q] = wrote[q]
        BY <1>0, <1>10, <2>1 DEF TypeOK
      <3>7. TypeOK'
        BY <1>0, <1>14, <2>1, <3>5, <3>6 DEF TypeOK, CallType, Files, Addrs, MAXBYTES
      <3>8. pc'[p] = "writei" /\ inode(p)' = i
        BY <1>a, <1>b, <1>0, <2>1, <3>3, <3>5 DEF inode
      <3>9. Holds(addrs'[i], data', i, x)
        <4>1. m \in 0..(BSIZE - (at % BSIZE)) /\ x = at + m
          BY <1>6, <1>8, <3>1, <1>7, Consts
        <4>2. QED BY <1>5, <1>6, <1>10, <2>1, <4>1
      <3>10. WriterOK(p)'
        <4>1. y \in 0..c.n1 /\ x = s + y
          BY <1>4, <1>5, <1>6, <1>8, <3>1
        <4>2. wrote'[p] \subseteq Touched(i, s, c.n1)' /\ off'[c2.f] = s
          BY <1>3, <1>11, <1>12, <1>14, <3>3, <3>6
        <4>3. ~At(p, "update")'
          BY <3>8 DEF At
        <4>4. QED BY <1>4, <1>5, <1>13, <1>14, <3>3, <3>5, <3>8, <3>9, <4>1, <4>2, <4>3 DEF WriterOK
      <3>11. ProcOK(p)'
        BY <3>8, <3>10 DEF ProcOK, At
      <3>12. QED BY <2>1, <3>5, <3>6, <3>7, <3>11
    <2>2. CASE /\ wrote' = [wrote EXCEPT ![p] = @ \cup t.log]
               /\ pc' = [pc EXCEPT ![p] = "update"] /\ UNCHANGED call
      <3>1. /\ wrote' \in [Procs -> SUBSET Int] /\ wrote'[p] = wrote[p] \cup t.log
            /\ \A q \in Procs : q # p => wrote'[q] = wrote[q]
        BY <1>0, <1>10, <2>2 DEF TypeOK
      <3>2. /\ pc' \in [Procs -> {"user", "chunk", "itrunc"} \cup Writing] /\ pc'[p] = "update"
            /\ \A q \in Procs : q # p => pc'[q] = pc[q]
        BY <1>0, <2>2 DEF TypeOK, Writing
      <3>3. TypeOK'
        BY <1>0, <1>14, <2>2, <3>1, <3>2 DEF TypeOK, CallType, Files, Addrs, MAXBYTES
      <3>4. call'[p] = c /\ inode(p)' = i
        BY <1>a, <1>b, <2>2 DEF inode
      <3>5. WriterOK(p)'
        <4>1. wrote'[p] \subseteq Touched(i, s, c.n1)' /\ off'[c.f] = s
          BY <1>3, <1>11, <1>12, <1>14, <3>1
        <4>2. c.tot \in 0..c.n1 /\ Holds(addrs'[i], data', i, c.at)
          BY <1>0, <1>4, <1>6, <1>13
        <4>3. QED BY <1>0, <1>4, <1>5, <1>13, <1>14, <3>4, <4>1, <4>2 DEF WriterOK
      <3>6. ProcOK(p)'
        BY <3>2, <3>5 DEF ProcOK, At
      <3>7. QED BY <2>2, <3>1, <3>2, <3>3, <3>6
    <2>3. QED BY <1>1, <2>1, <2>2
  <1>17. ASSUME NEW j \in Inodes, j # i PROVE addrs'[j] = addrs[j]
    BY <1>0, <1>1, <1>17 DEF Alloc, AllocType
  <1>18. ASSUME NEW q \in Procs PROVE ProcOK(q)'
    <2>1. CASE q = p
      BY <1>16, <2>1
    <2>2. CASE q # p
      <3>1. ASSUME NEW j \in Inodes, ilk[j] = q
            PROVE  ilk'[j] = q /\ addrs'[j] = addrs[j] /\ size'[j] = size[j] /\ Stays(j)
        BY <1>4, <1>10, <1>14, <1>17, <2>2, <3>1
      <3>2. Spared(q)
        BY <1>14, <1>16, <2>2, <3>1 DEF Spared
      <3>3. QED BY <1>0, <3>2, SparedOK DEF IInv
    <2>3. QED BY <2>1, <2>2
  <1>19. ASSUME NEW j \in Inodes PROVE InodeOK(j)'
    <2>1. CASE j = i
      <3>1. ilk'[i] # Nobody
        BY <1>0, <1>4, <1>14
      <3>2. QED BY <2>1, <3>1 DEF InodeOK
    <2>2. CASE j # i
      BY <1>0, <1>10, <1>14, <1>17, <2>2, InodeKept DEF IInv
    <2>3. QED BY <2>1, <2>2
  <1>20. QED BY <1>10, <1>16, <1>18, <1>19 DEF IInv

LEMMA WriteiEndStep ==
  ASSUME IInv, NEW p \in Procs, writei_end(p)
  PROVE  IInv'
  <1>a. PICK i : i = inode(p)
    OBVIOUS
  <1>b. PICK c : c = call[p]
    OBVIOUS
  <1>c. PICK n : n = Max({size[i], c.at})
    OBVIOUS
  <1>0. TypeOK /\ Alloc(bitmap, data, addrs) /\ ProcOK(p) /\ pc[p] \in Writing /\ Nobody \notin Procs
    BY FileDataAssumption DEF writei_end, At, IInv, Writing
  <1>1. /\ size' = [size EXCEPT ![i] = n] /\ daddrs' = [daddrs EXCEPT ![i] = addrs[i]]
        /\ dsize' = [dsize EXCEPT ![i] = n] /\ off' = [off EXCEPT ![c.f] = @ + c.tot]
        /\ ilk' = [ilk EXCEPT ![i] = Nobody] /\ wrote' = [wrote EXCEPT ![p] = {}]
        /\ UNCHANGED <<bitmap, data, addrs>>
        /\ \/ /\ pc' = [pc EXCEPT ![p] = "chunk"]
              /\ call' = [call EXCEPT ![p] = [Idle EXCEPT !.f = c.f, !.n = c.n - c.tot]]
           \/ pc' = [pc EXCEPT ![p] = "user"] /\ call' = [call EXCEPT ![p] = Idle]
    BY <1>a, <1>b, <1>c DEF writei_end, Goto, UpdateAlways, iupdate
  <1>2. WriterOK(p)
    BY <1>0 DEF ProcOK
  <1>3. /\ c.f \in Files /\ i \in Inodes /\ off[c.f] \in Nat /\ off[c.f] + c.n1 <= MAXBYTES
        /\ c.n1 \in Nat /\ c.tot \in 0..c.n1 /\ c.at \in 0..MAXBYTES /\ ilk[i] = p /\ i = c.f[1]
        /\ Holds(addrs[i], data, i, size[i]) /\ Holds(addrs[i], data, i, c.at)
    BY <1>a, <1>b, <1>0, <1>2, WriterNumbers DEF WriterOK, inode
  <1>4. n \in {size[i], c.at} /\ n \in 0..MAXBYTES
    <2>1. size[i] \in 0..MAXBYTES
      BY <1>0, <1>3 DEF TypeOK
    <2>2. PICK x \in Int, y \in Int : x = size[i] /\ y = c.at
      BY <1>3, <2>1
    <2>3. n \in {x, y}
      BY <1>c, <2>2, MaxTwo
    <2>4. QED BY <1>3, <2>1, <2>2, <2>3
  <1>5. Holds(addrs[i], data, i, n)
    BY <1>3, <1>4
  <1>6. /\ size' \in [Inodes -> 0..MAXBYTES] /\ dsize' \in [Inodes -> 0..MAXBYTES]
        /\ size'[i] = n /\ dsize'[i] = n
        /\ \A j \in Inodes : j # i => size'[j] = size[j] /\ dsize'[j] = dsize[j]
    BY <1>0, <1>1, <1>3, <1>4 DEF TypeOK
  <1>7. /\ daddrs' \in [Inodes -> Addrs] /\ daddrs'[i] = addrs[i]
        /\ \A j \in Inodes : j # i => daddrs'[j] = daddrs[j]
    <2>1. addrs[i] \in Addrs
      BY <1>0, <1>3 DEF Alloc, AllocType
    <2>2. QED BY <1>0, <1>1, <1>3, <2>1 DEF TypeOK
  <1>8. off' \in [Files -> 0..MAXBYTES] /\ \A f \in Files : f # c.f => off'[f] = off[f]
    <2>1. PICK o \in 0..MAXBYTES : o = off[c.f] + c.tot
      BY <1>3, MaxBytes
    <2>2. off' = [off EXCEPT ![c.f] = o]
      BY <1>0, <1>1, <1>3, <2>1 DEF TypeOK
    <2>3. QED BY <1>0, <1>3, <2>2 DEF TypeOK
  <1>9. /\ ilk' \in [Inodes -> Procs \cup {Nobody}] /\ ilk'[i] = Nobody
        /\ \A j \in Inodes : j # i => ilk'[j] = ilk[j]
    BY <1>0, <1>1, <1>3 DEF TypeOK
  <1>10. /\ wrote' \in [Procs -> SUBSET Int] /\ wrote'[p] = {}
         /\ \A q \in Procs : q # p => wrote'[q] = wrote[q]
    BY <1>0, <1>1 DEF TypeOK
  <1>11. /\ call' \in [Procs -> CallType] /\ pc' \in [Procs -> {"user", "chunk", "itrunc"} \cup Writing]
         /\ \/ pc'[p] = "chunk" /\ call'[p].f \in Files
            \/ pc'[p] = "user" /\ call'[p] = Idle
         /\ \A q \in Procs : q # p => pc'[q] = pc[q] /\ call'[q] = call[q]
    <2>0. call \in [Procs -> CallType] /\ pc \in [Procs -> {"user", "chunk", "itrunc"} \cup Writing]
      BY <1>0 DEF TypeOK, CallType
    <2>1. CASE /\ pc' = [pc EXCEPT ![p] = "chunk"]
               /\ call' = [call EXCEPT ![p] = [Idle EXCEPT !.f = c.f, !.n = c.n - c.tot]]
      <3>1. PICK y \in Int : y = c.n - c.tot
        BY <1>b, <1>3, <2>0 DEF CallType
      <3>2. PICK f \in Files : f = c.f
        BY <1>3
      <3>3. PICK c2 : c2 = [Idle EXCEPT !.f = f, !.n = y]
        OBVIOUS
      <3>4. c2 \in CallType /\ c2.f = f
        BY <3>3, IdleType, FileType DEF CallType
      <3>5. call' = [call EXCEPT ![p] = c2]
        BY <2>1, <3>1, <3>2, <3>3
      <3>6. call' \in [Procs -> CallType] /\ call'[p] = c2 /\ \A q \in Procs : q # p => call'[q] = call[q]
        BY <2>0, <3>4, <3>5
      <3>7. QED BY <2>0, <2>1, <3>4, <3>6
    <2>2. CASE pc' = [pc EXCEPT ![p] = "user"] /\ call' = [call EXCEPT ![p] = Idle]
      BY <2>0, <2>2, IdleType
    <2>3. QED BY <1>1, <2>1, <2>2
  <1>12. TypeOK'
    BY <1>6, <1>7, <1>8, <1>9, <1>10, <1>11 DEF TypeOK, CallType, Files, Addrs, MAXBYTES
  <1>13. Alloc(bitmap, data, addrs)'
    BY <1>0, <1>1
  <1>14. ASSUME NEW j \in Inodes PROVE Stays(j)
    BY <1>1, StaysRefl
  <1>15. ASSUME NEW q \in Procs PROVE ProcOK(q)'
    <2>1. CASE q = p
      BY <1>10, <1>11, <2>1 DEF ProcOK, At, Writing, Idle
    <2>2. CASE q # p
      <3>1. ASSUME NEW j \in Inodes, ilk[j] = q
            PROVE  ilk'[j] = q /\ addrs'[j] = addrs[j] /\ size'[j] = size[j] /\ Stays(j)
        BY <1>1, <1>3, <1>6, <1>9, <1>14, <2>2, <3>1
      <3>2. ASSUME NEW f \in Files, ilk[f[1]] = q PROVE off'[f] = off[f]
        BY <1>3, <1>8, <2>2, <3>2
      <3>3. Spared(q)
        BY <1>10, <1>11, <2>2, <3>1, <3>2 DEF Spared
      <3>4. QED BY <1>0, <3>3, SparedOK DEF IInv
    <2>3. QED BY <2>1, <2>2
  <1>16. ASSUME NEW j \in Inodes PROVE InodeOK(j)'
    <2>1. CASE j = i
      <3>1. Holds(addrs'[i], data', i, size'[i]) /\ daddrs'[i] = addrs'[i] /\ dsize'[i] = size'[i]
        BY <1>1, <1>5, <1>6, <1>7
      <3>2. QED BY <2>1, <3>1 DEF InodeOK
    <2>2. CASE j # i
      BY <1>0, <1>1, <1>6, <1>7, <1>9, <1>14, <2>2, InodeKept DEF IInv
    <2>3. QED BY <2>1, <2>2
  <1>17. QED BY <1>12, <1>13, <1>15, <1>16 DEF IInv

LEMMA ItruncStep ==
  ASSUME IInv, NEW p \in Procs, NEW i \in Inodes, itrunc(p, i)
  PROVE  IInv'
  <1>a. PICK a : a = Cut(addrs[i])
    OBVIOUS
  <1>0. /\ TypeOK /\ Alloc(bitmap, data, addrs) /\ ProcOK(p) /\ pc[p] = "user" /\ Nobody \notin Procs
        /\ ilk[i] = Nobody /\ call[p] = Idle
    BY FileDataAssumption DEF itrunc, At, IInv, ProcOK
  <1>1. /\ ilk' = [ilk EXCEPT ![i] = p] /\ wrote' = [wrote EXCEPT ![p] = {Bitmap, InodeBlock}]
        /\ bitmap' = Unmark(bitmap, DirectOf(addrs[i]))
        /\ addrs' = With(addrs, i, a)
        /\ pc' = [pc EXCEPT ![p] = "itrunc"] /\ call' = [call EXCEPT ![p].f = <<i, 1>>]
        /\ UNCHANGED <<data, daddrs, dsize, size, off>>
    BY <1>a DEF itrunc, bfree, Goto, With, Cut, Unmark, DirectOf, DirectBlocks
  <1>2. /\ Alloc(bitmap', data, addrs') /\ a \in Addrs
        /\ \A k \in 0..(NDIRECT - 1) : a[k] = 0
    BY <1>a, <1>0, <1>1, FreeDirect
  <1>3. addrs'[i] = a /\ \A j \in Inodes : j # i => addrs'[j] = addrs[j]
    BY <1>0, <1>1 DEF With, Alloc, AllocType
  <1>4. /\ ilk' \in [Inodes -> Procs \cup {Nobody}] /\ ilk'[i] = p
        /\ \A j \in Inodes : j # i => ilk'[j] = ilk[j]
    BY <1>0, <1>1 DEF TypeOK
  <1>5. /\ wrote' \in [Procs -> SUBSET Int] /\ wrote'[p] = {Bitmap, InodeBlock}
        /\ \A q \in Procs : q # p => wrote'[q] = wrote[q]
    <2>1. {Bitmap, InodeBlock} \in SUBSET Int
      BY Consts DEF Bitmap, InodeBlock
    <2>2. PICK W \in SUBSET Int : W = {Bitmap, InodeBlock}
      BY <2>1
    <2>3. QED BY <1>0, <1>1, <2>2 DEF TypeOK
  <1>6. /\ call' \in [Procs -> CallType] /\ call'[p].f = <<i, 1>>
        /\ \A q \in Procs : q # p => call'[q] = call[q]
    <2>1. PICK c : c = [call[p] EXCEPT !.f = <<i, 1>>]
      OBVIOUS
    <2>2. call \in [Procs -> CallType]
      BY <1>0 DEF TypeOK, CallType
    <2>3. c \in CallType /\ c.f = <<i, 1>>
      BY <2>1, <2>2 DEF CallType
    <2>4. call' = [call EXCEPT ![p] = c]
      BY <1>1, <2>1, <2>2
    <2>5. QED BY <2>2, <2>3, <2>4
  <1>7. /\ pc' \in [Procs -> {"user", "chunk", "itrunc"} \cup Writing] /\ pc'[p] = "itrunc"
        /\ \A q \in Procs : q # p => pc'[q] = pc[q]
    BY <1>0, <1>1 DEF TypeOK
  <1>8. TypeOK'
    BY <1>0, <1>1, <1>4, <1>5, <1>6, <1>7 DEF TypeOK, CallType, Files, Addrs, MAXBYTES
  <1>9. ASSUME NEW q \in Procs PROVE ProcOK(q)'
    <2>1. CASE q = p
      <3>1. inode(p)' = i
        BY <1>6 DEF inode
      <3>2. QED BY <1>2, <1>3, <1>4, <1>5, <1>7, <2>1, <3>1 DEF ProcOK, At, Writing, Bitmap, InodeBlock
    <2>2. CASE q # p
      <3>1. ASSUME NEW j \in Inodes, ilk[j] = q
            PROVE  ilk'[j] = q /\ addrs'[j] = addrs[j] /\ size'[j] = size[j] /\ Stays(j)
        BY <1>0, <1>1, <1>3, <1>4, <2>2, <3>1, StaysRefl
      <3>2. Spared(q)
        BY <1>1, <1>5, <1>6, <1>7, <2>2, <3>1 DEF Spared
      <3>3. QED BY <1>0, <3>2, SparedOK DEF IInv
    <2>3. QED BY <2>1, <2>2
  <1>10. ASSUME NEW j \in Inodes PROVE InodeOK(j)'
    <2>1. CASE j = i
      BY <1>0, <1>4, <2>1 DEF InodeOK
    <2>2. CASE j # i
      BY <1>0, <1>1, <1>3, <1>4, <2>2, StaysRefl, InodeKept DEF IInv
    <2>3. QED BY <2>1, <2>2
  <1>11. Alloc(bitmap, data, addrs)'
    BY <1>1, <1>2
  <1>12. QED BY <1>8, <1>9, <1>10, <1>11 DEF IInv

LEMMA ItruncEndStep ==
  ASSUME IInv, NEW p \in Procs, itrunc_end(p)
  PROVE  IInv'
  <1>a. PICK i : i = inode(p)
    OBVIOUS
  <1>0. /\ TypeOK /\ Alloc(bitmap, data, addrs) /\ ProcOK(p) /\ pc[p] = "itrunc" /\ Nobody \notin Procs
    BY FileDataAssumption DEF itrunc_end, At, IInv
  <1>1. i \in Inodes /\ ilk[i] = p /\ \A k \in 0..(NDIRECT - 1) : addrs[i][k] = 0
    BY <1>a, <1>0 DEF ProcOK, At
  <1>2. /\ bitmap' = Unmark(bitmap, IndirectSet(addrs[i], data))
        /\ addrs' = With(addrs, i, NoAddrs) /\ size' = [size EXCEPT ![i] = 0]
        /\ daddrs' = [daddrs EXCEPT ![i] = NoAddrs] /\ dsize' = [dsize EXCEPT ![i] = 0]
        /\ ilk' = [ilk EXCEPT ![i] = Nobody]
        /\ pc' = [pc EXCEPT ![p] = "user"] /\ call' = [call EXCEPT ![p] = Idle]
        /\ wrote' = [wrote EXCEPT ![p] = {}] /\ UNCHANGED <<data, off>>
    BY <1>a DEF itrunc_end, bfree, iupdate, Goto, With, Unmark, IndirectSet, IndirectBlocks
  <1>3. Alloc(bitmap', data, addrs')
    BY <1>0, <1>1, <1>2, FreeIndirect
  <1>4. addrs'[i] = NoAddrs /\ \A j \in Inodes : j # i => addrs'[j] = addrs[j]
    BY <1>0, <1>1, <1>2 DEF With, Alloc, AllocType
  <1>5. /\ ilk' \in [Inodes -> Procs \cup {Nobody}] /\ ilk'[i] = Nobody
        /\ \A j \in Inodes : j # i => ilk'[j] = ilk[j]
    BY <1>0, <1>1, <1>2 DEF TypeOK
  <1>6. /\ size' \in [Inodes -> 0..MAXBYTES] /\ dsize' \in [Inodes -> 0..MAXBYTES]
        /\ size'[i] = 0 /\ dsize'[i] = 0
        /\ \A j \in Inodes : j # i => size'[j] = size[j] /\ dsize'[j] = dsize[j]
    <2>1. PICK z \in 0..MAXBYTES : z = 0
      BY MaxBytes
    <2>2. QED BY <1>0, <1>1, <1>2, <2>1 DEF TypeOK
  <1>7. /\ daddrs' \in [Inodes -> Addrs] /\ daddrs'[i] = NoAddrs
        /\ \A j \in Inodes : j # i => daddrs'[j] = daddrs[j]
    BY <1>0, <1>1, <1>2, NoAddrsType DEF TypeOK
  <1>8. /\ wrote' \in [Procs -> SUBSET Int] /\ wrote'[p] = {}
        /\ \A q \in Procs : q # p => wrote'[q] = wrote[q]
    BY <1>0, <1>2 DEF TypeOK
  <1>9. /\ call' \in [Procs -> CallType] /\ call'[p] = Idle
        /\ \A q \in Procs : q # p => call'[q] = call[q]
    BY <1>0, <1>2, IdleType DEF TypeOK, CallType
  <1>10. /\ pc' \in [Procs -> {"user", "chunk", "itrunc"} \cup Writing] /\ pc'[p] = "user"
         /\ \A q \in Procs : q # p => pc'[q] = pc[q]
    BY <1>0, <1>2 DEF TypeOK
  <1>11. TypeOK'
    BY <1>0, <1>2, <1>5, <1>6, <1>7, <1>8, <1>9, <1>10 DEF TypeOK, CallType, Files, Addrs, MAXBYTES
  <1>12. ASSUME NEW q \in Procs PROVE ProcOK(q)'
    <2>1. CASE q = p
      BY <1>8, <1>9, <1>10, <2>1 DEF ProcOK, At, Writing, Idle
    <2>2. CASE q # p
      <3>1. ASSUME NEW j \in Inodes, ilk[j] = q
            PROVE  ilk'[j] = q /\ addrs'[j] = addrs[j] /\ size'[j] = size[j] /\ Stays(j)
        BY <1>1, <1>2, <1>4, <1>5, <1>6, <2>2, <3>1, StaysRefl
      <3>2. Spared(q)
        BY <1>2, <1>8, <1>9, <1>10, <2>2, <3>1 DEF Spared
      <3>3. QED BY <1>0, <3>2, SparedOK DEF IInv
    <2>3. QED BY <2>1, <2>2
  <1>13. ASSUME NEW j \in Inodes PROVE InodeOK(j)'
    <2>1. CASE j = i
      <3>1. Holds(addrs'[i], data', i, size'[i])
        BY <1>6 DEF Holds
      <3>2. QED BY <1>4, <1>6, <1>7, <2>1, <3>1 DEF InodeOK
    <2>2. CASE j # i
      BY <1>0, <1>2, <1>4, <1>5, <1>6, <1>7, <2>2, StaysRefl, InodeKept DEF IInv
    <2>3. QED BY <2>1, <2>2
  <1>14. Alloc(bitmap, data, addrs)'
    BY <1>2, <1>3
  <1>15. QED BY <1>11, <1>12, <1>13, <1>14 DEF IInv

-----------------------------------------------------------------------------
(* The invariant, and what it says.                                        *)

LEMMA InitOK == Init => IInv
  <1> SUFFICES ASSUME Init PROVE IInv
    OBVIOUS
  <1> USE Consts
  <1>0. /\ bitmap = [b \in Blocks |-> 0] /\ data = [b \in Blocks |-> Zeroed]
        /\ daddrs = [i \in Inodes |-> NoAddrs] /\ dsize = [i \in Inodes |-> 0]
        /\ addrs = daddrs /\ size = dsize
        /\ ilk = [i \in Inodes |-> Nobody] /\ off = [f \in Files |-> 0]
        /\ pc = [p \in Procs |-> "user"] /\ call = [p \in Procs |-> Idle]
        /\ wrote = [p \in Procs |-> {}]
    BY DEF Init
  <1>1. TypeOK
    <2>1. 0 \in 0..MAXBYTES
      BY MaxBytes
    <2>2. call \in [Procs -> CallType]
      BY <1>0, IdleType
    <2>3. QED BY <1>0, <2>1, <2>2, NoAddrsType DEF TypeOK, CallType
  <1>2. ASSUME NEW i \in Inodes PROVE addrs[i] = NoAddrs /\ IndirectOf(addrs[i], data) = Zeroed
    BY <1>0, NoAddrsType DEF IndirectOf
  <1>3. ASSUME NEW i \in Inodes, NEW k \in Places PROVE Place(addrs[i], data, k) = 0
    <2>1. CASE k <= NDIRECT
      BY <1>2, <2>1, NoAddrsType DEF Place, Places
    <2>2. CASE ~(k <= NDIRECT)
      <3>1. k - NDIRECT - 1 \in 0..(BSIZE - 1)
        BY <2>2 DEF Places
      <3>2. QED BY <1>2, <2>2, <3>1, ZeroedType DEF Place
    <2>3. QED BY <2>1, <2>2
  <1>4. Alloc(bitmap, data, addrs)
    <2>1. AllocType(bitmap, data, addrs)
      BY <1>0, ZeroedType, NoAddrsType DEF AllocType
    <2>2. IndirectAddrs(data, addrs)
      BY <1>2, ZeroedType DEF IndirectAddrs
    <2>3. OneOwner(data, addrs)
      BY <1>3 DEF OneOwner
    <2>4. Marked(bitmap, data, addrs)
      BY <1>0, <1>3 DEF Marked, Blocks
    <2>5. QED BY <2>1, <2>2, <2>3, <2>4 DEF Alloc
  <1>5. ASSUME NEW p \in Procs PROVE ProcOK(p)
    <2>1. pc[p] = "user" /\ call[p] = Idle /\ wrote[p] = {}
      BY <1>0
    <2>2. QED BY <2>1 DEF ProcOK, At, Writing
  <1>6. ASSUME NEW i \in Inodes PROVE InodeOK(i)
    <2>1. size[i] = 0 /\ daddrs[i] = addrs[i] /\ dsize[i] = size[i]
      BY <1>0
    <2>2. Holds(addrs[i], data, i, size[i])
      BY <2>1 DEF Holds
    <2>3. QED BY <2>1, <2>2 DEF InodeOK
  <1>7. QED BY <1>1, <1>4, <1>5, <1>6 DEF IInv

LEMMA StutterOK ==
  ASSUME IInv, UNCHANGED vars PROVE IInv'
  <1>1. /\ UNCHANGED <<disk, addrs, size>> /\ ilk' = ilk /\ off' = off /\ pc' = pc /\ call' = call
        /\ wrote' = wrote
    BY DEF vars
  <1>2. TypeOK'
    BY <1>1 DEF IInv, TypeOK, disk, Files, Addrs, MAXBYTES
  <1>3. bitmap' = bitmap /\ data' = data /\ addrs' = addrs /\ size' = size /\ daddrs' = daddrs /\ dsize' = dsize
    BY <1>1 DEF disk
  <1>4. Alloc(bitmap, data, addrs)'
    BY <1>3 DEF IInv
  <1>5. ASSUME NEW q \in Procs PROVE ProcOK(q)'
    <2>1. Spared(q)
      BY <1>1, <1>3, StaysRefl DEF Spared
    <2>2. QED BY <2>1, SparedOK DEF IInv
  <1>6. ASSUME NEW i \in Inodes PROVE InodeOK(i)'
    BY <1>1, <1>3, StaysRefl, InodeKept DEF IInv
  <1>7. QED BY <1>2, <1>4, <1>5, <1>6 DEF IInv

LEMMA StepOK == IInv /\ [Next]_vars => IInv'
  <1>1. ASSUME IInv, NEW p \in Procs,
               \/ chunk(p) \/ writei(p) \/ writei_end(p) \/ itrunc_end(p)
               \/ \E i \in Inodes : itrunc(p, i)
               \/ \E f \in Files : open(p, f)
               \/ \E f \in Files, n \in WriteSizes : filewrite(p, f, n)
               \/ \E f \in Files, n \in ReadSizes : fileread(p, f, n)
        PROVE  IInv'
    BY <1>1, ChunkStep, WriteiStep, WriteiEndStep, ItruncEndStep, ItruncStep, OpenStep,
       FilewriteStep, FilereadStep
  <1>2. QED BY <1>1, StutterOK DEF Next

\* The invariant that every other theorem of this module follows from: who holds which inode
\* and what he may rely on, each marked block is named in one place, and each byte below the
\* size of a file, or written so far by the call that has it locked, is where bmap() finds it.
THEOREM FileDataSafety == Spec => []IInv
  <1>1. QED BY InitOK, StepOK, PTL DEF Spec

LEMMA PairEq ==
  ASSUME NEW S, NEW T, NEW x \in S \X T, NEW y \in S \X T, x[1] = y[1], x[2] = y[2]
  PROVE  x = y
  OBVIOUS

\* The places of the bitmap and the places BlockInv counts are the same.
LEMMA NamedOnce ==
  ASSUME Alloc(bitmap, data, addrs), NEW b \in Blocks
  PROVE  bitmap[b] = Named(b)
  <1> USE Consts
  <1>0. /\ AllocType(bitmap, data, addrs) /\ IndirectAddrs(data, addrs) /\ OneOwner(data, addrs)
        /\ Marked(bitmap, data, addrs)
    BY DEF Alloc
  <1>a. PICK S : S = {s \in Inodes \X (0..NDIRECT) : addrs[s[1]][s[2]] = b}
    OBVIOUS
  <1>b. PICK T : T = {s \in Inodes \X (0..(NINDIRECT - 1)) : Entries(s[1])[s[2]] = Addr(b)}
    OBVIOUS
  <1>1. Named(b) = Cardinality(S) + Cardinality(T)
    BY <1>a, <1>b DEF Named
  <1>2. b # 0
    BY DEF Blocks
  <1>3. ASSUME NEW i \in Inodes, NEW k \in 0..NDIRECT
        PROVE  k \in Places /\ Place(addrs[i], data, k) = addrs[i][k]
    BY DEF Places, Place
  <1>4. ASSUME NEW i \in Inodes, NEW k \in 0..(BSIZE - 1)
        PROVE  /\ k + NDIRECT + 1 \in Places
               /\ Entries(i)[k] = Addr(b) <=> Place(addrs[i], data, k + NDIRECT + 1) = b
    <2>1. Entries(i) = IndirectOf(addrs[i], data)
      BY DEF Entries, IndirectOf
    <2>2. Entries(i)[k] \in {Nobody} \X (0..NBLOCKS)
      BY <1>0, <2>1 DEF IndirectAddrs
    <2>3. (k + NDIRECT + 1) - NDIRECT - 1 = k /\ ~(k + NDIRECT + 1 <= NDIRECT)
      OBVIOUS
    <2>4. Place(addrs[i], data, k + NDIRECT + 1) = Entries(i)[k][2]
      BY <2>1, <2>3 DEF Place
    <2>5. Entries(i)[k] = Addr(b) <=> Entries(i)[k][2] = b
      BY <2>2 DEF Addr
    <2>6. k + NDIRECT + 1 \in Places
      BY DEF Places
    <2>7. QED BY <2>4, <2>5, <2>6
  <1>5. ASSUME NEW s \in S
        PROVE  /\ s \in Inodes \X (0..NDIRECT) /\ s[1] \in Inodes /\ s[2] \in Places
               /\ s[2] <= NDIRECT /\ Place(addrs[s[1]], data, s[2]) = b
    <2>1. s \in Inodes \X (0..NDIRECT) /\ addrs[s[1]][s[2]] = b
      BY <1>a
    <2>2. s[1] \in Inodes /\ s[2] \in 0..NDIRECT
      BY <2>1
    <2>3. QED BY <1>3, <2>1, <2>2
  <1>6. ASSUME NEW s \in T
        PROVE  /\ s \in Inodes \X (0..(NINDIRECT - 1)) /\ s[1] \in Inodes /\ s[2] \in 0..(BSIZE - 1)
               /\ s[2] + NDIRECT + 1 \in Places
               /\ Place(addrs[s[1]], data, s[2] + NDIRECT + 1) = b
    <2>1. s \in Inodes \X (0..(NINDIRECT - 1)) /\ Entries(s[1])[s[2]] = Addr(b)
      BY <1>b
    <2>2. s[1] \in Inodes /\ s[2] \in 0..(BSIZE - 1)
      BY <2>1
    <2>3. QED BY <1>4, <2>1, <2>2
  <1>7. CASE bitmap[b] = 0
    <2>1. \A i \in Inodes, k \in Places : Place(addrs[i], data, k) # b
      BY <1>0, <1>7, FreeBlock
    <2>2. S = {} /\ T = {}
      BY <1>5, <1>6, <2>1
    <2>3. Cardinality(S) = 0 /\ Cardinality(T) = 0
      BY <2>2, FS_EmptySet
    <2>4. QED BY <1>1, <1>7, <2>3
  <1>8. CASE bitmap[b] = 1
    <2>1. PICK i \in Inodes, k \in Places : Place(addrs[i], data, k) = b
      BY <1>0, <1>8 DEF Marked
    <2>2. ASSUME NEW j \in Inodes, NEW l \in Places, Place(addrs[j], data, l) = b PROVE j = i /\ l = k
      BY <1>0, <1>2, <2>1, <2>2 DEF OneOwner
    <2>3. CASE k <= NDIRECT
      <3>1. k \in 0..NDIRECT
        BY <2>3 DEF Places
      <3>2. PICK x : x = <<i, k>>
        OBVIOUS
      <3>3. x \in Inodes \X (0..NDIRECT) /\ x[1] = i /\ x[2] = k
        BY <3>1, <3>2
      <3>4. x \in S
        BY <1>a, <1>3, <2>1, <3>1, <3>3
      <3>5. ASSUME NEW s \in S PROVE s = x
        BY <1>5, <2>2, <3>3, PairEq
      <3>6. S = {x}
        BY <3>4, <3>5
      <3>7. T = {}
        <4>1. SUFFICES ASSUME NEW s \in T PROVE FALSE
          OBVIOUS
        <4>2. s[2] + NDIRECT + 1 = k /\ s[2] \in 0..(BSIZE - 1)
          BY <1>6, <2>2
        <4>3. QED BY <2>3, <4>2
      <3>8. Cardinality(S) = 1 /\ Cardinality(T) = 0
        BY <3>6, <3>7, FS_EmptySet, FS_Singleton
      <3>9. QED BY <1>1, <1>8, <3>8
    <2>4. CASE ~(k <= NDIRECT)
      <3>1. PICK l \in 0..(BSIZE - 1) : k = l + NDIRECT + 1
        <4>1. k - NDIRECT - 1 \in 0..(BSIZE - 1) /\ k = (k - NDIRECT - 1) + NDIRECT + 1
          BY <2>4 DEF Places
        <4>2. QED BY <4>1
      <3>2. PICK x : x = <<i, l>>
        OBVIOUS
      <3>3. x \in Inodes \X (0..(NINDIRECT - 1)) /\ x[1] = i /\ x[2] = l
        BY <3>1, <3>2
      <3>4. x \in T
        BY <1>b, <1>4, <2>1, <3>1, <3>3
      <3>5. ASSUME NEW s \in T PROVE s = x
        <4>1. s[1] = i /\ s[2] + NDIRECT + 1 = k /\ s[2] \in 0..(BSIZE - 1)
          BY <1>6, <2>2
        <4>2. s[2] = l
          BY <3>1, <4>1
        <4>3. QED BY <1>6, <3>3, <4>1, <4>2, PairEq
      <3>6. T = {x}
        BY <3>4, <3>5
      <3>7. S = {}
        <4>1. SUFFICES ASSUME NEW s \in S PROVE FALSE
          OBVIOUS
        <4>2. s[2] = k /\ s[2] <= NDIRECT
          BY <1>5, <2>2
        <4>3. QED BY <2>4, <4>2
      <3>8. Cardinality(T) = 1 /\ Cardinality(S) = 0
        BY <3>6, <3>7, FS_EmptySet, FS_Singleton
      <3>9. QED BY <1>1, <1>8, <3>8
    <2>5. QED BY <2>3, <2>4
  <1>9. bitmap[b] \in {0, 1}
    BY <1>0 DEF AllocType
  <1>10. QED BY <1>7, <1>8, <1>9

\* Allocation is exact: a block is marked in the bitmap if one inode names it in one place
\* and free if none does, after writes that ran out of disk or of user memory and between the
\* halves of a truncation too; an inode nobody has locked is on disk as it is in memory.
THEOREM AllocationExact == Spec => []BlockInv
  <1>1. IInv => BlockInv
    <2> SUFFICES ASSUME IInv PROVE BlockInv
      OBVIOUS
    <2>1. \A b \in Blocks : bitmap[b] = Named(b)
      BY NamedOnce DEF IInv
    <2>2. QED BY <2>1 DEF IInv, InodeOK, BlockInv
  <1>2. QED BY <1>1, FileDataSafety, PTL

\* Every byte below the size of a file nobody has locked is the one written there, in a block
\* that bmap() finds, so that reading never allocates.
THEOREM ContentKept == Spec => []ContentInv
  <1>1. IInv => ContentInv
    <2> SUFFICES ASSUME IInv, NEW i \in Inodes, ilk[i] = Nobody, NEW o \in 0..(size[i] - 1)
                 PROVE  /\ Mapped(i, o \div BSIZE) # 0
                        /\ data[Mapped(i, o \div BSIZE)][o % BSIZE] = Byte(i, o)
      BY DEF ContentInv
    <2>1. Holds(addrs[i], data, i, size[i]) /\ size[i] \in 0..MAXBYTES
      BY DEF IInv, InodeOK, TypeOK
    <2>2. PICK bn \in 0..(MAXFILE - 1) : bn = o \div BSIZE
      <3>1. o \in Nat /\ o < MAXBYTES
        BY <2>1, MaxBytes
      <3>2. QED BY <3>1, OffsetType
    <2>3. Mapped(i, bn) = Place(addrs[i], data, PlaceOf(bn))
      <3>1. Entries(i) = IndirectOf(addrs[i], data)
        BY DEF Entries, IndirectOf
      <3>2. CASE bn < NDIRECT
        BY <3>2, Consts DEF Mapped, Place, PlaceOf
      <3>3. CASE ~(bn < NDIRECT)
        <4>1. PlaceOf(bn) = bn + 1 /\ ~(bn + 1 <= NDIRECT) /\ (bn + 1) - NDIRECT - 1 = bn - NDIRECT
          BY <3>3, Consts DEF PlaceOf
        <4>2. QED BY <3>1, <3>3, <4>1 DEF Mapped, Place
      <3>4. QED BY <3>2, <3>3
    <2>4. QED BY <2>1, <2>2, <2>3 DEF Holds
  <1>2. QED BY <1>1, FileDataSafety, PTL

\* A transaction that writes n1 bytes touches at most K + 1 blocks of the file, where K blocks
\* hold n1 bytes, and three others.
LEMMA TouchedSize ==
  ASSUME NEW i \in Inodes, NEW s \in Nat, NEW n1 \in Nat, n1 >= 1, NEW K \in Nat, n1 <= K * BSIZE
  PROVE  IsFiniteSet(Touched(i, s, n1)) /\ Cardinality(Touched(i, s, n1)) <= K + 4
  <1> USE Consts
  <1>1. PICK lo \in Int, hi \in Int : lo = s \div BSIZE /\ hi = (s + n1 - 1) \div BSIZE
    OBVIOUS
  <1>2. hi - lo + 1 <= K + 1
    BY <1>1, DivSpan
  <1>3. IsFiniteSet(lo..hi) /\ Cardinality(lo..hi) <= K + 1 /\ Cardinality(lo..hi) \in Nat
    <2>1. IsFiniteSet(lo..hi) /\ Cardinality(lo..hi) = IF lo > hi THEN 0 ELSE hi - lo + 1
      BY FS_Interval
    <2>2. QED BY <1>2, <2>1
  <1>4. PICK g : g = [bn \in lo..hi |-> Place(addrs[i], data, PlaceOf(bn))]
    OBVIOUS
  <1>5. PICK T : T = {g[bn] : bn \in lo..hi}
    OBVIOUS
  <1>6. T = {Place(addrs[i], data, PlaceOf(bn)) : bn \in lo..hi}
    BY <1>4, <1>5
  <1>7. g \in Surjection(lo..hi, T)
    <2>1. g \in [lo..hi -> T] /\ \A y \in T : \E x \in lo..hi : g[x] = y
      BY <1>4, <1>5
    <2>2. QED BY <2>1 DEF Surjection
  <1>8. IsFiniteSet(T) /\ Cardinality(T) <= K + 1 /\ Cardinality(T) \in Nat
    <2>1. IsFiniteSet(T) /\ Cardinality(T) <= Cardinality(lo..hi)
      BY <1>3, <1>7, FS_Surjection
    <2>2. Cardinality(T) \in Nat
      BY <2>1, FS_CardinalityType
    <2>3. QED BY <1>3, <2>1, <2>2
  <1>9. PICK T1 : T1 = T \cup {Bitmap}
    OBVIOUS
  <1>10. IsFiniteSet(T1) /\ Cardinality(T1) \in Nat /\ Cardinality(T1) <= K + 2
    BY <1>8, <1>9, FS_AddElement
  <1>11. PICK T2 : T2 = T1 \cup {InodeBlock}
    OBVIOUS
  <1>12. IsFiniteSet(T2) /\ Cardinality(T2) \in Nat /\ Cardinality(T2) <= K + 3
    BY <1>10, <1>11, FS_AddElement
  <1>13. PICK T3 : T3 = T2 \cup {addrs[i][NDIRECT]}
    OBVIOUS
  <1>14. IsFiniteSet(T3) /\ Cardinality(T3) \in Nat /\ Cardinality(T3) <= K + 4
    <2>1. PICK x : x = addrs[i][NDIRECT]
      OBVIOUS
    <2>2. IsFiniteSet(T2 \cup {x}) /\ Cardinality(T2 \cup {x}) = IF x \in T2 THEN Cardinality(T2) ELSE Cardinality(T2) + 1
      BY <1>12, FS_AddElement
    <2>3. T3 = T2 \cup {x}
      BY <1>13, <2>1
    <2>4. QED BY <1>12, <2>2, <2>3
  <1>15. Touched(i, s, n1) = T3
    BY <1>1, <1>6, <1>9, <1>11, <1>13 DEF Touched
  <1>16. QED BY <1>14, <1>15

\* One transaction of filewrite(), and one of a truncation, logs no more blocks than
\* begin_op() has reserved for it: the assumption under which the log has room.
THEOREM TransactionFits == Spec => []OpFits
  <1>1. IInv => OpFits
    <2> SUFFICES ASSUME IInv, NEW p \in Procs PROVE Cardinality(wrote[p]) <= MAXOPBLOCKS
      BY DEF OpFits
    <2>0. TypeOK /\ ProcOK(p) /\ MAXOPBLOCKS \in Nat /\ MAXOPBLOCKS >= 6
      BY FileDataAssumption DEF IInv
    <2>1. CASE pc[p] \in {"user", "chunk"}
      <3>1. wrote[p] = {}
        BY <2>0, <2>1 DEF ProcOK
      <3>2. Cardinality(wrote[p]) = 0
        BY <3>1, FS_EmptySet
      <3>3. QED BY <2>0, <3>2
    <2>2. CASE pc[p] = "itrunc"
      <3>1. wrote[p] = {Bitmap} \cup {InodeBlock}
        BY <2>0, <2>2 DEF ProcOK, At
      <3>2. IsFiniteSet({Bitmap}) /\ Cardinality({Bitmap}) = 1
        BY FS_Singleton
      <3>3. Cardinality({Bitmap} \cup {InodeBlock}) <= 2
        BY <3>2, FS_AddElement
      <3>4. Cardinality({Bitmap} \cup {InodeBlock}) \in Nat
        BY <3>2, FS_AddElement, FS_CardinalityType
      <3>5. QED BY <2>0, <3>1, <3>3, <3>4
    <2>3. CASE pc[p] \in Writing
      <3>1. WriterOK(p)
        BY <2>0, <2>3 DEF ProcOK
      <3>2. PICK i \in Inodes, s \in Nat, n1 \in Nat :
              i = inode(p) /\ s = off[call[p].f] /\ n1 = call[p].n1 /\ n1 >= 1
        BY <2>0, <3>1, WriterNumbers
      <3>3. n1 \in 1..MaxWrite /\ wrote[p] \subseteq Touched(i, s, n1)
        BY <3>1, <3>2 DEF WriterOK
      <3>4. PICK K \in Nat : 2 * K + 4 <= MAXOPBLOCKS /\ MaxWrite = K * BSIZE
        BY MaxWriteType
      <3>5. n1 <= K * BSIZE
        BY <3>3, <3>4, MaxWriteType
      <3>6. IsFiniteSet(Touched(i, s, n1)) /\ Cardinality(Touched(i, s, n1)) <= K + 4
        BY <3>2, <3>5, TouchedSize
      <3>7. /\ Cardinality(wrote[p]) <= Cardinality(Touched(i, s, n1)) /\ IsFiniteSet(wrote[p])
        BY <3>3, <3>6, FS_Subset
      <3>8. Cardinality(wrote[p]) \in Nat /\ Cardinality(Touched(i, s, n1)) \in Nat
        BY <3>6, <3>7, FS_CardinalityType
      <3>9. QED BY <2>0, <3>4, <3>6, <3>7, <3>8
    <2>4. QED BY <2>0, <2>1, <2>2, <2>3 DEF TypeOK
  <1>2. QED BY <1>1, FileDataSafety, PTL
=============================================================================
