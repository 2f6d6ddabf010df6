---------------------------- MODULE BufCacheProofs ---------------------------
(***************************************************************************)
(* Proofs about the buffer cache, for any numbers of buffers, users and    *)
(* blocks: its invariant, that no sleeper is forgotten, the order in which *)
(* buffers are reused, and that the cache refines BlockStore.              *)
(*                                                                         *)
(* The list is reasoned about as the walk from head along prev: that the   *)
(* recursive function Back is that walk, and that the walk through NBUF    *)
(* buffers meets each of them once, are shown first, by induction, and     *)
(* then what MoveToFront() makes of the walk.                              *)
(***************************************************************************)
EXTENDS BufCache, FiniteSetTheorems, WellFoundedInduction, TLAPS

-----------------------------------------------------------------------------
(* Facts about numbers.                                                    *)

\* A set of natural numbers has a least one.
LEMMA NatMin ==
  ASSUME NEW T \in SUBSET Nat, T # {}
  PROVE  \E x \in T : \A y \in T : x <= y
  <1>1. PICK R : R = OpToRel(<, Nat)
    OBVIOUS
  <1>2. IsWellFoundedOn(R, Nat)
    BY <1>1, NatLessThanWellFounded
  <1>3. PICK x \in T : \A y \in T : ~ (<<y, x>> \in R)
    BY <1>2, WFMin
  <1>4. \A y \in T : ~ (y < x)
    BY <1>1, <1>3 DEF OpToRel
  <1>5. \A y \in T : x <= y
    BY <1>4
  <1>6. QED BY <1>5

\* Induction up to N, with the property as a set.
LEMMA Induct ==
  ASSUME NEW N \in Nat, NEW S, 0 \in S, \A k \in 0..(N - 1) : k \in S => k + 1 \in S
  PROVE  0..N \subseteq S
  <1>1. SUFFICES ASSUME (0..N) \ S # {} PROVE FALSE
    OBVIOUS
  <1>2. PICK m \in (0..N) \ S : \A y \in (0..N) \ S : m <= y
    <2>1. (0..N) \ S \in SUBSET Nat
      OBVIOUS
    <2>2. QED BY <1>1, <2>1, NatMin
  <1>3. m # 0 /\ m - 1 \in 0..(N - 1) /\ m - 1 \notin (0..N) \ S
    BY <1>2
  <1>4. m - 1 \in S
    BY <1>3
  <1>5. (m - 1) + 1 \in S
    BY <1>3, <1>4
  <1>6. QED BY <1>2, <1>5

-----------------------------------------------------------------------------
(* The list of buffers, from the back.                                     *)

Nodes == Bufs \cup {head}

\* Back[], for any prev pointers pv.
BackOf(pv) == CHOOSE f : f = [k \in 0..(NBUF + 1) |-> IF k = 0 THEN head ELSE pv[f[k - 1]]]

\* f lists what the pointers pv lead to from head, as far as position m.
Walk(pv, f, m) == /\ f \in [0..m -> Nodes] /\ f[0] = head
                  /\ \A k \in 1..m : f[k] = pv[f[k - 1]]

LEMMA NbufType == NBUF \in Nat /\ NBUF > 0
  <1>1. NBUF \in Nat /\ (NBUF = 0 <=> Bufs = {})
    BY BufAssumption, FS_CardinalityType, FS_EmptySet DEF NBUF
  <1>2. QED BY <1>1, BufAssumption

\* There is such a walk, ...
LEMMA WalkExists ==
  ASSUME NEW pv \in [Nodes -> Nodes], NEW N \in Nat
  PROVE  \E f : Walk(pv, f, N)
  <1> DEFINE S == {m \in Nat : \E f : Walk(pv, f, m)}
  <1>1. 0 \in S
    <2>1. Walk(pv, [k \in 0..0 |-> head], 0)
      BY DEF Walk, Nodes
    <2>2. QED BY <2>1
  <1>2. ASSUME NEW m \in 0..(N - 1), m \in S PROVE m + 1 \in S
    <2>1. PICK f : Walk(pv, f, m)
      BY <1>2
    <2>2. PICK g : g = [k \in 0..(m + 1) |-> IF k = m + 1 THEN pv[f[m]] ELSE f[k]]
      OBVIOUS
    <2>3. m \in 0..m /\ m + 1 \in Nat /\ m \in Nat
      OBVIOUS
    <2>4. f[m] \in Nodes
      BY <2>1, <2>3 DEF Walk
    <2>5. g \in [0..(m + 1) -> Nodes]
      BY <2>1, <2>2, <2>4 DEF Walk
    <2>6. g[0] = head
      BY <2>1, <2>2 DEF Walk
    <2>7. ASSUME NEW k \in 1..(m + 1) PROVE g[k] = pv[g[k - 1]]
      <3>1. g[k - 1] = f[k - 1]
        BY <2>2
      <3>2. CASE k = m + 1
        BY <2>2, <3>1, <3>2
      <3>3. CASE k \in 1..m
        BY <2>1, <2>2, <3>1, <3>3 DEF Walk
      <3>4. QED BY <3>2, <3>3
    <2>8. Walk(pv, g, m + 1)
      BY <2>5, <2>6, <2>7 DEF Walk
    <2>9. QED BY <2>3, <2>8
  <1>3. 0..N \subseteq S
    BY <1>1, <1>2, Induct
  <1>4. N \in S
    BY <1>3
  <1>5. QED BY <1>4

\* ... and only one.
LEMMA WalkUnique ==
  ASSUME NEW pv, NEW N \in Nat, NEW f, NEW g, Walk(pv, f, N), Walk(pv, g, N)
  PROVE  f = g
  <1> DEFINE S == {m \in Nat : m \in 0..N => f[m] = g[m]}
  <1>1. 0 \in S
    BY DEF Walk
  <1>2. ASSUME NEW m \in 0..(N - 1), m \in S PROVE m + 1 \in S
    <2>1. f[m] = g[m] /\ m + 1 \in 1..N /\ (m + 1) - 1 = m /\ m + 1 \in Nat
      BY <1>2
    <2>2. f[m + 1] = pv[f[m]] /\ g[m + 1] = pv[g[m]]
      BY <2>1 DEF Walk
    <2>3. QED BY <2>1, <2>2
  <1>3. 0..N \subseteq S
    BY <1>1, <1>2, Induct
  <1>4. \A m \in 0..N : f[m] = g[m]
    BY <1>3
  <1>5. QED BY <1>4 DEF Walk

LEMMA BackWalk ==
  ASSUME NEW pv \in [Nodes -> Nodes]
  PROVE  Walk(pv, BackOf(pv), NBUF + 1)
  <1> DEFINE Eq(f) == f = [k \in 0..(NBUF + 1) |-> IF k = 0 THEN head ELSE pv[f[k - 1]]]
  <1>0. NBUF + 1 \in Nat
    BY NbufType
  <1>1. PICK f : Walk(pv, f, NBUF + 1)
    BY <1>0, WalkExists
  <1>2. f = [k \in 0..(NBUF + 1) |-> f[k]]
    BY <1>1 DEF Walk
  <1>3. \A k \in 0..(NBUF + 1) : f[k] = IF k = 0 THEN head ELSE pv[f[k - 1]]
    BY <1>0, <1>1 DEF Walk
  <1>4. Eq(f)
    BY <1>2, <1>3
  <1>5. Eq(BackOf(pv))
    BY <1>4 DEF BackOf
  <1>6. PICK g : g = BackOf(pv) /\ Eq(g)
    BY <1>5
  <1>7. g = [k \in 0..(NBUF + 1) |-> g[k]] /\ g[0] = head
        /\ \A k \in 1..(NBUF + 1) : g[k] = pv[g[k - 1]]
    BY <1>0, <1>6
  <1> DEFINE S == {m \in Nat : m \in 0..(NBUF + 1) => g[m] \in Nodes}
  <1>8. 0 \in S
    BY <1>7 DEF Nodes
  <1>9. ASSUME NEW m \in 0..((NBUF + 1) - 1), m \in S PROVE m + 1 \in S
    <2>1. g[m] \in Nodes /\ m + 1 \in 1..(NBUF + 1) /\ (m + 1) - 1 = m /\ m + 1 \in Nat
      BY <1>0, <1>9
    <2>2. g[m + 1] = pv[g[m]]
      BY <1>7, <2>1
    <2>3. QED BY <2>1, <2>2
  <1>10. 0..(NBUF + 1) \subseteq S
    BY <1>0, <1>8, <1>9, Induct
  <1>11. \A m \in 0..(NBUF + 1) : g[m] \in Nodes
    BY <1>10
  <1>12. QED BY <1>6, <1>7, <1>11 DEF Walk

LEMMA BackIs == Back = BackOf(prev) /\ Back' = BackOf(prev')
  BY DEF Back, BackOf

\* Ring, for any pointers.
RingOf(nx, pv) ==
  /\ {BackOf(pv)[k] : k \in 1..NBUF} = Bufs /\ BackOf(pv)[NBUF + 1] = head
  /\ \A x \in Nodes : nx[pv[x]] = x

\* The same without the recursive definition: any walk that meets every buffer and
\* comes back is the walk.
LEMMA RingByWalk ==
  ASSUME NEW nx, NEW pv \in [Nodes -> Nodes], NEW f, Walk(pv, f, NBUF + 1),
         {f[k] : k \in 1..NBUF} = Bufs, f[NBUF + 1] = head, \A x \in Nodes : nx[pv[x]] = x
  PROVE  RingOf(nx, pv) /\ BackOf(pv) = f
  <1>1. BackOf(pv) = f
    BY BackWalk, WalkUnique, NbufType
  <1>2. QED BY <1>1 DEF RingOf

\* As there are NBUF buffers, the walk meets each of them once.
LEMMA RingInjective ==
  ASSUME NEW nx, NEW pv \in [Nodes -> Nodes], RingOf(nx, pv)
  PROVE  /\ \A i \in 0..(NBUF + 1) : BackOf(pv)[i] \in Nodes
         /\ \A i \in 1..NBUF : BackOf(pv)[i] \in Bufs
         /\ \A i, j \in 1..NBUF : BackOf(pv)[i] = BackOf(pv)[j] => i = j
         /\ BackOf(pv)[0] = head /\ BackOf(pv)[NBUF + 1] = head
         /\ \A x \in Bufs : \E i \in 1..NBUF : x = BackOf(pv)[i]
  <1> DEFINE f == BackOf(pv)
             g == [k \in 1..NBUF |-> f[k]]
  <1>1. Walk(pv, f, NBUF + 1)
    BY BackWalk
  <1> HIDE DEF f
  <1>2. {f[k] : k \in 1..NBUF} = Bufs /\ f[NBUF + 1] = head
    BY DEF RingOf, f
  <1>3. g \in Surjection(1..NBUF, Bufs)
    <2>1. g \in [1..NBUF -> Bufs]
      BY <1>2
    <2>2. ASSUME NEW t \in Bufs PROVE \E s \in 1..NBUF : g[s] = t
      <3>1. t \in {f[k] : k \in 1..NBUF}
        BY <1>2
      <3>2. QED BY <3>1
    <2>3. QED BY <2>1, <2>2 DEF Surjection
  <1>4. IsFiniteSet(1..NBUF) /\ Cardinality(1..NBUF) = Cardinality(Bufs)
    <2>1. NBUF \in Int /\ 1 \in Int /\ ~(1 > NBUF) /\ NBUF - 1 + 1 = NBUF
      BY NbufType
    <2>2. QED BY <2>1, FS_Interval DEF NBUF
  <1>5. g \in Injection(1..NBUF, Bufs)
    BY <1>3, <1>4, FS_SurjSameCardinalityImpliesInj
  <1>6. \A i, j \in 1..NBUF : g[i] = g[j] => i = j
    BY <1>5 DEF Injection, IsInjective
  <1>7. \A i, j \in 1..NBUF : f[i] = f[j] => i = j
    BY <1>6
  <1>8. \A i \in 1..NBUF : f[i] \in Bufs
    BY <1>2
  <1>9. f[0] = head /\ \A i \in 0..(NBUF + 1) : f[i] \in Nodes
    BY <1>1 DEF Walk
  <1>10. \A x \in Bufs : \E i \in 1..NBUF : x = f[i]
    BY <1>2
  <1>11. QED BY <1>2, <1>7, <1>8, <1>9, <1>10 DEF f

\* The walk after the i-th buffer from the back was moved to the front.
Rotated(f, i) == [k \in 0..(NBUF + 1) |-> IF k < i THEN f[k] ELSE IF k < NBUF THEN f[k + 1]
                                          ELSE IF k = NBUF THEN f[i] ELSE head]

\* Around the i-th buffer from the back.
LEMMA RingNeighbours ==
  ASSUME NEW nx \in [Nodes -> Nodes], NEW pv \in [Nodes -> Nodes], RingOf(nx, pv),
         NEW k \in 0..NBUF
  PROVE  /\ pv[BackOf(pv)[k]] = BackOf(pv)[k + 1]
         /\ nx[BackOf(pv)[k + 1]] = BackOf(pv)[k]
  <1>1. Walk(pv, BackOf(pv), NBUF + 1)
    BY BackWalk
  <1>2. k + 1 \in 1..(NBUF + 1) /\ (k + 1) - 1 = k /\ k \in 0..(NBUF + 1)
    BY NbufType
  <1>3. BackOf(pv)[k + 1] = pv[BackOf(pv)[k]] /\ BackOf(pv)[k] \in Nodes
    BY <1>1, <1>2 DEF Walk
  <1>4. QED BY <1>3 DEF RingOf

\* What MoveToFront() writes into the pointers, as a property of the new ones.
Moves(nx, pv, x, nx2, pv2) ==
  \E n1, p1 : /\ n1 = [nx EXCEPT ![pv[x]] = nx[x]]
              /\ p1 = [pv EXCEPT ![nx[x]] = pv[x]]
              /\ nx2 = [n1 EXCEPT ![x] = n1[head], ![head] = x]
              /\ pv2 = [[p1 EXCEPT ![x] = head] EXCEPT ![n1[head]] = x]

\* The buffer that is then the second from the front, and the new pointers one by
\* one.
LEMMA MovePointers ==
  ASSUME NEW nx \in [Nodes -> Nodes], NEW pv \in [Nodes -> Nodes], NEW nx2, NEW pv2,
         RingOf(nx, pv), NEW i \in 1..NBUF, NEW B, B = BackOf(pv), Moves(nx, pv, B[i], nx2, pv2),
         NEW l, l = IF i = NBUF THEN NBUF - 1 ELSE NBUF
  PROVE  /\ nx2 \in [Nodes -> Nodes] /\ pv2 \in [Nodes -> Nodes]
         /\ \A j, k \in 0..NBUF : B[j] = B[k] => j = k
         /\ pv2[B[i]] = head /\ nx2[head] = B[i]
         /\ pv2[B[l]] = B[i] /\ nx2[B[i]] = B[l]
         /\ i # NBUF => pv2[B[i - 1]] = B[i + 1] /\ nx2[B[i + 1]] = B[i - 1]
         /\ \A k \in 0..NBUF : /\ k \notin {l, i, i - 1} => pv2[B[k]] = pv[B[k]]
                               /\ k \notin {0, i, i + 1} => nx2[B[k]] = nx[B[k]]
  <1>0. NBUF \in Nat /\ NBUF > 0 /\ head \notin Bufs /\ i - 1 \in 0..NBUF /\ i \in 0..NBUF
    <2>1. head \notin Bufs
      BY BufAssumption
    <2>2. QED BY <2>1, NbufType
  <1>1. /\ \A k \in 0..(NBUF + 1) : B[k] \in Nodes
        /\ \A k \in 1..NBUF : B[k] \in Bufs
        /\ \A j, k \in 1..NBUF : B[j] = B[k] => j = k
        /\ B[0] = head /\ B[NBUF + 1] = head
    BY RingInjective
  <1>2. \A j, k \in 0..NBUF : B[j] = B[k] => j = k
    <2>1. SUFFICES ASSUME NEW j \in 0..NBUF, NEW k \in 0..NBUF, B[j] = B[k] PROVE j = k
      OBVIOUS
    <2>2. CASE j \in 1..NBUF /\ k \in 1..NBUF
      BY <1>1, <2>1, <2>2
    <2>3. CASE j = 0 /\ k = 0
      BY <2>3
    <2>4. CASE j = 0 /\ k \in 1..NBUF
      BY <1>0, <1>1, <2>1, <2>4
    <2>5. CASE k = 0 /\ j \in 1..NBUF
      BY <1>0, <1>1, <2>1, <2>5
    <2>6. QED BY <1>0, <2>2, <2>3, <2>4, <2>5
  <1>3. \A k \in 0..NBUF : pv[B[k]] = B[k + 1] /\ nx[B[k + 1]] = B[k]
    BY RingNeighbours
  <1>4. pv[B[i]] = B[i + 1] /\ nx[B[i]] = B[i - 1]
    <2>1. (i - 1) + 1 = i
      OBVIOUS
    <2>2. QED BY <1>0, <1>3, <2>1
  <1>5. PICK n1, p1 : /\ n1 = [nx EXCEPT ![B[i + 1]] = B[i - 1]]
                      /\ p1 = [pv EXCEPT ![B[i - 1]] = B[i + 1]]
                      /\ nx2 = [n1 EXCEPT ![B[i]] = n1[head], ![head] = B[i]]
                      /\ pv2 = [[p1 EXCEPT ![B[i]] = head] EXCEPT ![n1[head]] = B[i]]
    <2>1. PICK n1, p1 : /\ n1 = [nx EXCEPT ![pv[B[i]]] = nx[B[i]]]
                        /\ p1 = [pv EXCEPT ![nx[B[i]]] = pv[B[i]]]
                        /\ nx2 = [n1 EXCEPT ![B[i]] = n1[head], ![head] = B[i]]
                        /\ pv2 = [[p1 EXCEPT ![B[i]] = head] EXCEPT ![n1[head]] = B[i]]
      BY Zenon DEF Moves
    <2>2. /\ n1 = [nx EXCEPT ![B[i + 1]] = B[i - 1]]
          /\ p1 = [pv EXCEPT ![B[i - 1]] = B[i + 1]]
      BY <1>4, <2>1, Zenon
    <2>3. QED BY <2>1, <2>2, Zenon
  <1>6. B[i] \in Bufs /\ B[i] \in Nodes /\ B[i + 1] \in Nodes /\ B[i - 1] \in Nodes /\ head \in Nodes
    <2>1. i + 1 \in 0..(NBUF + 1) /\ i - 1 \in 0..(NBUF + 1)
      BY <1>0
    <2>2. QED BY <1>1, <2>1 DEF Nodes
  <1>7. n1 \in [Nodes -> Nodes] /\ p1 \in [Nodes -> Nodes]
    BY <1>5, <1>6
  <1>8. l \in 0..NBUF /\ l # i
    BY <1>0
  <1>9. n1[head] = B[l]
    <2>1. CASE i = NBUF
      <3>1. B[i + 1] = head /\ l = i - 1
        BY <1>1, <2>1
      <3>2. QED BY <1>5, <1>6, <3>1
    <2>2. CASE i # NBUF
      <3>1. i + 1 \in 1..NBUF /\ l = NBUF /\ NBUF \in 0..NBUF
        BY <1>0, <2>2
      <3>2. B[i + 1] # head
        BY <1>0, <1>1, <3>1
      <3>3. nx[head] = B[NBUF]
        BY <1>1, <1>3, <3>1
      <3>4. QED BY <1>5, <1>6, <3>1, <3>2, <3>3
    <2>3. QED BY <2>1, <2>2
  <1>10. B[l] \in Nodes
    BY <1>7, <1>9, <1>6
  <1>11. nx2 = [n1 EXCEPT ![B[i]] = B[l], ![head] = B[i]]
         /\ pv2 = [[p1 EXCEPT ![B[i]] = head] EXCEPT ![B[l]] = B[i]]
    BY <1>5, <1>9
  <1>12. nx2 \in [Nodes -> Nodes] /\ pv2 \in [Nodes -> Nodes]
    BY <1>6, <1>7, <1>10, <1>11
  <1>13. /\ \A y \in Nodes : pv2[y] = IF y = B[l] THEN B[i] ELSE IF y = B[i] THEN head
                                      ELSE IF y = B[i - 1] THEN B[i + 1] ELSE pv[y]
         /\ \A y \in Nodes : nx2[y] = IF y = head THEN B[i] ELSE IF y = B[i] THEN B[l]
                                      ELSE IF y = B[i + 1] THEN B[i - 1] ELSE nx[y]
    BY <1>5, <1>6, <1>7, <1>10, <1>11
  <1>14. pv2[B[i]] = head /\ nx2[head] = B[i] /\ pv2[B[l]] = B[i] /\ nx2[B[i]] = B[l]
    <2>1. B[l] # B[i] /\ B[i] # head
      BY <1>0, <1>1, <1>2, <1>8
    <2>2. QED BY <1>6, <1>10, <1>13, <2>1
  <1>15. ASSUME i # NBUF
         PROVE  pv2[B[i - 1]] = B[i + 1] /\ nx2[B[i + 1]] = B[i - 1]
    <2>1. i + 1 \in 1..NBUF /\ l = NBUF /\ i + 1 \in 0..NBUF
      BY <1>0, <1>15
    <2>2. B[i - 1] # B[l] /\ B[i - 1] # B[i] /\ B[i + 1] # B[i] /\ B[i + 1] # head
      <3>1. i - 1 # l /\ i - 1 # i /\ i + 1 # i
        BY <1>0, <2>1
      <3>2. QED BY <1>0, <1>1, <1>2, <1>8, <2>1, <3>1
    <2>3. QED BY <1>6, <1>13, <2>2
  <1>16. ASSUME NEW k \in 0..NBUF
         PROVE  /\ k \notin {l, i, i - 1} => pv2[B[k]] = pv[B[k]]
                /\ k \notin {0, i, i + 1} => nx2[B[k]] = nx[B[k]]
    <2>1. B[k] \in Nodes
      BY <1>0, <1>1
    <2>2. ASSUME k \notin {l, i, i - 1} PROVE pv2[B[k]] = pv[B[k]]
      <3>1. B[k] # B[l] /\ B[k] # B[i] /\ B[k] # B[i - 1]
        BY <1>0, <1>2, <1>8, <2>2
      <3>2. QED BY <1>13, <2>1, <3>1
    <2>3. ASSUME k \notin {0, i, i + 1} PROVE nx2[B[k]] = nx[B[k]]
      <3>1. B[k] # head /\ B[k] # B[i]
        BY <1>0, <1>1, <1>2, <2>3
      <3>2. B[k] # B[i + 1]
        <4>1. CASE i = NBUF
          BY <1>1, <3>1, <4>1
        <4>2. CASE i # NBUF
          <5>1. i + 1 \in 0..NBUF
            BY <1>0, <4>2
          <5>2. QED BY <1>2, <2>3, <5>1
        <4>3. QED BY <4>1, <4>2
      <3>3. QED BY <1>13, <2>1, <3>1, <3>2
    <2>4. QED BY <2>2, <2>3
  <1>17. QED BY <1>2, <1>12, <1>14, <1>15, <1>16

\* The positions of Rotated() one by one.
LEMMA RotatedAt ==
  ASSUME NEW B, NEW i \in 1..NBUF
  PROVE  LET R == Rotated(B, i)
         IN /\ \A k \in 0..(i - 1) : R[k] = B[k]
            /\ \A k \in i..(NBUF - 1) : R[k] = B[k + 1]
            /\ R[NBUF] = B[i] /\ R[NBUF + 1] = head
  BY NbufType DEF Rotated

\* MoveToFront() keeps the ring, and moves the buffer from the i-th place from the
\* back to the front of it.
LEMMA MoveRing ==
  ASSUME NEW nx \in [Nodes -> Nodes], NEW pv \in [Nodes -> Nodes], NEW nx2, NEW pv2,
         RingOf(nx, pv), NEW i \in 1..NBUF, Moves(nx, pv, BackOf(pv)[i], nx2, pv2)
  PROVE  /\ nx2 \in [Nodes -> Nodes] /\ pv2 \in [Nodes -> Nodes]
         /\ RingOf(nx2, pv2) /\ BackOf(pv2) = Rotated(BackOf(pv), i)
  <1>0. NBUF \in Nat /\ NBUF > 0
    BY NbufType
  <1>1. PICK B : B = BackOf(pv)
    OBVIOUS
  <1>2. PICK R : R = Rotated(B, i)
    OBVIOUS
  <1>3. PICK l \in 0..NBUF : l = IF i = NBUF THEN NBUF - 1 ELSE NBUF
    BY <1>0
  <1>4. /\ nx2 \in [Nodes -> Nodes] /\ pv2 \in [Nodes -> Nodes]
        /\ pv2[B[i]] = head /\ nx2[head] = B[i]
        /\ pv2[B[l]] = B[i] /\ nx2[B[i]] = B[l]
        /\ i # NBUF => pv2[B[i - 1]] = B[i + 1] /\ nx2[B[i + 1]] = B[i - 1]
        /\ \A k \in 0..NBUF : /\ k \notin {l, i, i - 1} => pv2[B[k]] = pv[B[k]]
                              /\ k \notin {0, i, i + 1} => nx2[B[k]] = nx[B[k]]
    <2>1. Moves(nx, pv, B[i], nx2, pv2)
      BY <1>1
    <2>2. QED BY <1>1, <1>3, <2>1, MovePointers
  <1>5. /\ \A k \in 0..(NBUF + 1) : B[k] \in Nodes
        /\ \A k \in 1..NBUF : B[k] \in Bufs
        /\ B[0] = head
        /\ \A x \in Bufs : \E k \in 1..NBUF : x = B[k]
    BY <1>1, RingInjective
  <1>6. \A k \in 0..NBUF : pv[B[k]] = B[k + 1] /\ nx[B[k + 1]] = B[k]
    BY <1>1, RingNeighbours
  <1>7. /\ \A k \in 0..(i - 1) : R[k] = B[k]
        /\ \A k \in i..(NBUF - 1) : R[k] = B[k + 1]
        /\ R[NBUF] = B[i] /\ R[NBUF + 1] = head
    BY <1>2, RotatedAt
  <1>8. R[NBUF - 1] = B[l]
    <2>1. CASE i = NBUF
      BY <1>0, <1>3, <1>7, <2>1
    <2>2. CASE i # NBUF
      <3>1. NBUF - 1 \in i..(NBUF - 1) /\ (NBUF - 1) + 1 = l
        BY <1>0, <1>3, <2>2
      <3>2. QED BY <1>7, <3>1
    <2>3. QED BY <2>1, <2>2
  <1>9. ASSUME NEW k \in 0..NBUF PROVE pv2[R[k]] = R[k + 1] /\ nx2[R[k + 1]] = R[k]
    <2>1. CASE k = NBUF
      BY <1>4, <1>7, <2>1
    <2>2. CASE k = NBUF - 1
      <3>1. k + 1 = NBUF
        BY <1>0, <2>2
      <3>2. QED BY <1>4, <1>7, <1>8, <2>2, <3>1
    <2>3. CASE k < NBUF - 1 /\ k + 1 < i
      <3>1. /\ k \in 0..(i - 1) /\ k + 1 \in 0..(i - 1) /\ k \in 0..NBUF /\ k + 1 \in 0..NBUF
            /\ k \notin {l, i, i - 1} /\ k + 1 \notin {0, i, i + 1}
        BY <1>0, <1>3, <2>3
      <3>2. R[k] = B[k] /\ R[k + 1] = B[k + 1]
        BY <1>7, <3>1
      <3>3. pv2[B[k]] = pv[B[k]] /\ nx2[B[k + 1]] = nx[B[k + 1]]
        BY <1>4, <3>1
      <3>4. QED BY <1>6, <3>1, <3>2, <3>3
    <2>4. CASE k < NBUF - 1 /\ k + 1 = i
      <3>1. k \in 0..(i - 1) /\ k + 1 \in i..(NBUF - 1) /\ k = i - 1 /\ i # NBUF
            /\ (k + 1) + 1 = i + 1
        BY <1>0, <2>4
      <3>2. R[k] = B[i - 1] /\ R[k + 1] = B[i + 1]
        BY <1>7, <3>1
      <3>3. QED BY <1>4, <3>1, <3>2
    <2>5. CASE k < NBUF - 1 /\ k + 1 > i
      <3>1. /\ k \in i..(NBUF - 1) /\ k + 1 \in i..(NBUF - 1) /\ k + 1 \in 0..NBUF
            /\ (k + 1) + 1 \in 0..NBUF
            /\ k + 1 \notin {l, i, i - 1} /\ (k + 1) + 1 \notin {0, i, i + 1}
        BY <1>0, <1>3, <2>5
      <3>2. R[k] = B[k + 1] /\ R[k + 1] = B[(k + 1) + 1]
        BY <1>7, <3>1
      <3>3. pv2[B[k + 1]] = pv[B[k + 1]] /\ nx2[B[(k + 1) + 1]] = nx[B[(k + 1) + 1]]
        BY <1>4, <3>1
      <3>4. QED BY <1>6, <3>1, <3>2, <3>3
    <2>6. QED BY <1>0, <2>1, <2>2, <2>3, <2>4, <2>5
  <1>10. ASSUME NEW k \in 1..NBUF PROVE R[k] \in Bufs
    <2>1. CASE k < i
      BY <1>5, <1>7, <2>1
    <2>2. CASE k >= i /\ k < NBUF
      <3>1. k \in i..(NBUF - 1) /\ k + 1 \in 1..NBUF
        BY <1>0, <2>2
      <3>2. QED BY <1>5, <1>7, <3>1
    <2>3. CASE k = NBUF
      BY <1>5, <1>7, <2>3
    <2>4. QED BY <1>0, <2>1, <2>2, <2>3
  <1>11. R[0] = head
    <2>1. 0 \in 0..(i - 1)
      OBVIOUS
    <2>2. QED BY <1>5, <1>7, <2>1
  <1>12. ASSUME NEW j \in 1..NBUF PROVE \E k \in 1..NBUF : R[k] = B[j]
    <2>1. CASE j < i
      BY <1>7, <2>1
    <2>2. CASE j = i
      BY <1>0, <1>7, <2>2
    <2>3. CASE j > i
      <3>1. j - 1 \in i..(NBUF - 1) /\ (j - 1) + 1 = j /\ j - 1 \in 1..NBUF
        BY <1>0, <2>3
      <3>2. R[j - 1] = B[j]
        BY <1>7, <3>1
      <3>3. QED BY <3>1, <3>2
    <2>4. QED BY <2>1, <2>2, <2>3
  <1>13. Walk(pv2, R, NBUF + 1)
    <2>1. DOMAIN R = 0..(NBUF + 1) /\ R = [k \in 0..(NBUF + 1) |-> R[k]]
      BY <1>2 DEF Rotated
    <2>2. ASSUME NEW k \in 0..(NBUF + 1) PROVE R[k] \in Nodes
      <3>1. k = 0 \/ k = NBUF + 1 \/ k \in 1..NBUF
        BY <1>0
      <3>2. QED BY <1>7, <1>10, <1>11, <3>1 DEF Nodes
    <2>3. ASSUME NEW k \in 1..(NBUF + 1) PROVE R[k] = pv2[R[k - 1]]
      <3>1. k - 1 \in 0..NBUF /\ (k - 1) + 1 = k
        BY <1>0
      <3>2. QED BY <1>9, <3>1
    <2>4. R \in [0..(NBUF + 1) -> Nodes]
      BY <2>1, <2>2
    <2>5. QED BY <1>11, <2>3, <2>4 DEF Walk
  <1>14. {R[k] : k \in 1..NBUF} = Bufs
    BY <1>5, <1>10, <1>12
  <1>15. ASSUME NEW y \in Nodes PROVE nx2[pv2[y]] = y
    <2>1. PICK k \in 0..NBUF : R[k] = y
      <3>1. CASE y = head
        BY <1>0, <1>11, <3>1
      <3>2. CASE y \in Bufs
        BY <1>0, <1>5, <1>12, <3>2
      <3>3. QED BY <3>1, <3>2 DEF Nodes
    <2>2. QED BY <1>9, <2>1
  <1>16. RingOf(nx2, pv2) /\ BackOf(pv2) = R
    BY <1>4, <1>7, <1>13, <1>14, <1>15, RingByWalk
  <1>17. QED BY <1>1, <1>2, <1>4, <1>16

-----------------------------------------------------------------------------
(* The inductive invariant.                                                *)

\* Who refers to buffer x.
Refs(x) == {u \in Users : pc[u] \in Referencing /\ b[u] = x}

\* The three parts of RefInv.
BlockInv == \A u \in Users : pc[u] \in Referencing =>
              b[u] \in Bufs /\ blk[u] \in Blocks /\ blockno[b[u]] = blk[u]
CountInv == \A x \in Bufs : refcnt[x] = Cardinality(Refs(x)) + (IF x \in pinned THEN 1 ELSE 0)
HolderInv == \A u \in Users, x \in Bufs :
               holder[x] = u <=> pc[u] \in InUse \cup {"locked"} /\ b[u] = x

\* What is in a buffer that is valid.
ValidInv == /\ \A x \in Bufs : /\ valid[x] = 1 => blockno[x] # NoBlock
                               /\ x \in pinned => valid[x] = 1
            /\ \A u \in Users : pc[u] \in InUse => valid[b[u]] = 1

\* bwrite() has brought the disk up to date, until the next change.
WrittenInv == \A u \in Users : pc[u] = "written" => data[b[u]] = disk[blk[u]]

IInv == CacheInv /\ NoLostWakeup /\ WrittenInv

\* The invariant by its parts, before and after a step.
LEMMA Parts ==
  IInv <=> /\ TypeOK /\ OneBuffer /\ BlockInv /\ CountInv /\ HolderInv /\ CleanInv
           /\ LocksHeld /\ Ring /\ ValidInv /\ NoLostWakeup /\ WrittenInv
  <1>1. RefInv <=> BlockInv /\ CountInv /\ HolderInv
    BY Zenon DEF RefInv, BlockInv, CountInv, HolderInv, Refs
  <1>2. CacheInv <=> /\ TypeOK /\ OneBuffer /\ RefInv /\ CleanInv /\ LocksHeld /\ Ring
                     /\ ValidInv
    BY BufAssumption, Zenon DEF CacheInv, ValidInv
  <1>3. QED BY <1>1, <1>2 DEF IInv

LEMMA PartsPrime ==
  ASSUME TypeOK', OneBuffer', BlockInv', CountInv', HolderInv', CleanInv', LocksHeld', Ring',
         ValidInv', NoLostWakeup', WrittenInv'
  PROVE  IInv'
  BY DEF IInv, CacheInv, RefInv, BlockInv, CountInv, HolderInv, ValidInv, Refs

\* Ring is what was shown about lists.
LEMMA RingIs == /\ Ring <=> RingOf(next, prev)
                /\ Ring' <=> RingOf(next', prev')
  BY BackIs DEF Ring, RingOf, Nodes

LEMMA KeepRing == ASSUME Ring, UNCHANGED list PROVE Ring'
  BY RingIs DEF list

\* The references to a buffer are finitely many.
LEMMA RefsFinite ==
  ASSUME NEW x
  PROVE  /\ IsFiniteSet(Refs(x)) /\ Cardinality(Refs(x)) \in Nat
         /\ Refs(x) = {} <=> Cardinality(Refs(x)) = 0
  <1>1. Refs(x) \subseteq Users
    BY DEF Refs
  <1>2. IsFiniteSet(Refs(x))
    BY <1>1, BufAssumption, FS_Subset
  <1>3. QED BY <1>2, FS_CardinalityType, FS_EmptySet

\* Counts change with the references and the pins only.
LEMMA KeepCount ==
  ASSUME CountInv, \A u \in Users : pc'[u] \in Referencing <=> pc[u] \in Referencing,
         UNCHANGED <<b, refcnt, pinned>>
  PROVE  CountInv'
  <1>1. \A x \in Bufs : Refs(x)' = Refs(x)
    BY DEF Refs
  <1>2. QED BY <1>1 DEF CountInv

\* A buffer without references is neither pinned nor anybody's.
LEMMA UnusedFree ==
  ASSUME CountInv, NEW x \in Bufs, refcnt[x] = 0
  PROVE  x \notin pinned /\ \A u \in Users : pc[u] \in Referencing => b[u] # x
  <1>1. Cardinality(Refs(x)) \in Nat /\ (Refs(x) = {} <=> Cardinality(Refs(x)) = 0)
    BY RefsFinite
  <1>2. x \notin pinned /\ Refs(x) = {}
    BY <1>1 DEF CountInv
  <1>3. QED BY <1>2 DEF Refs

\* bget() finds the least recently used buffer when one is unused.
LEMMA LeastRecentUnused ==
  ASSUME TypeOK, Ring, Unused # {}
  PROVE  LeastRecent \in Bufs /\ refcnt[LeastRecent] = 0
  <1>1. prev \in [Nodes -> Nodes] /\ RingOf(next, prev)
    BY RingIs DEF TypeOK, Nodes
  <1>2. PICK y \in Bufs : y \in Unused
    BY DEF Unused
  <1>3. PICK i \in 1..NBUF : y = Back[i]
    BY <1>1, RingInjective, BackIs
  <1> DEFINE T == {k \in 1..NBUF : Back[k] \in Unused}
  <1>4. T \in SUBSET Nat /\ i \in T
    BY <1>2, <1>3
  <1>5. PICK m \in T : \A k \in T : m <= k
    BY <1>4, NatMin
  <1>6. m \in 1..NBUF /\ Back[m] \in Unused /\ \A j \in 1..(m - 1) : Back[j] \notin Unused
    <2>1. ASSUME NEW j \in 1..(m - 1) PROVE Back[j] \notin Unused
      <3>1. j \in 1..NBUF /\ ~(m <= j)
        BY <1>5, NbufType
      <3>2. QED BY <1>5, <3>1
    <2>2. QED BY <1>5, <2>1
  <1>7. PICK c : c = CHOOSE k \in 1..NBUF :
                   Back[k] \in Unused /\ \A j \in 1..(k - 1) : Back[j] \notin Unused
    OBVIOUS
  <1>8. Back[c] \in Unused
    BY <1>6, <1>7
  <1>9. LeastRecent = Back[c]
    BY <1>7 DEF LeastRecent
  <1>10. QED BY <1>8, <1>9 DEF Unused

\* Whoever uses a buffer holds its lock, and nobody else uses it.
LEMMA HoldsLock ==
  ASSUME BlockInv, HolderInv, NEW u \in Users, pc[u] \in InUse \cup {"locked"}
  PROVE  /\ b[u] \in Bufs /\ blk[u] \in Blocks /\ blockno[b[u]] = blk[u] /\ u # Nobody
         /\ holder[b[u]] = u
         /\ \A q \in Users : q # u /\ b[q] = b[u] => pc[q] \notin InUse \cup {"locked"}
  <1>1. pc[u] \in Referencing
    BY DEF Referencing, InUse
  <1>2. b[u] \in Bufs /\ blk[u] \in Blocks /\ blockno[b[u]] = blk[u] /\ u # Nobody
    BY <1>1, BufAssumption DEF BlockInv
  <1>3. holder[b[u]] = u
    BY <1>2 DEF HolderInv
  <1>4. ASSUME NEW q \in Users, q # u, b[q] = b[u], pc[q] \in InUse \cup {"locked"} PROVE FALSE
    <2>1. holder[b[u]] = q
      BY <1>2, <1>4 DEF HolderInv
    <2>2. QED BY <1>3, <1>4, <2>1
  <1>5. QED BY <1>2, <1>3, <1>4

\* The step of one user's control point.
LEMMA GotoAt ==
  ASSUME TypeOK, NEW u \in Users, NEW l, Goto(u, l)
  PROVE  pc'[u] = l /\ \A q \in Users \ {u} : pc'[q] = pc[q]
  BY DEF TypeOK, Goto

\* The pins of a buffer.
Pin(x) == IF x \in pinned THEN 1 ELSE 0

\* One reference or pin more, or less, at one buffer.
LEMMA CountAt ==
  ASSUME CountInv, TypeOK, NEW y \in Bufs, refcnt' \in [Bufs -> Int],
         \A x \in Bufs \ {y} : /\ refcnt'[x] = refcnt[x] /\ Refs(x)' = Refs(x)
                               /\ x \in pinned' <=> x \in pinned,
         refcnt'[y] = Cardinality(Refs(y)') + Pin(y)'
  PROVE  CountInv'
  <1>1. SUFFICES ASSUME NEW x \in Bufs
                 PROVE  refcnt'[x] = Cardinality(Refs(x)') + (IF x \in pinned' THEN 1 ELSE 0)
    BY DEF CountInv
  <1>2. CASE x = y
    BY <1>2 DEF Pin
  <1>3. CASE x # y
    BY <1>3 DEF CountInv
  <1>4. QED BY <1>2, <1>3

\* The lock of a buffer is taken when it is free; otherwise somebody holds it.
LEMMA AcquiresleepInv == ASSUME IInv, NEW u \in Users, acquiresleep(u) PROVE IInv'
  <1> USE DEF acquiresleep, LockFree, meta, list, Goto, InUse, Referencing
  <1>1. /\ TypeOK /\ OneBuffer /\ BlockInv /\ CountInv /\ HolderInv /\ CleanInv /\ LocksHeld
        /\ Ring /\ ValidInv /\ NoLostWakeup /\ WrittenInv
    BY Parts
  <1>0. b[u] \in Bufs /\ blk[u] \in Blocks /\ blockno[b[u]] = blk[u] /\ u # Nobody
    BY <1>1, BufAssumption DEF BlockInv
  <1>2. TypeOK'
    BY <1>1, <1>0 DEF TypeOK
  <1>3. OneBuffer'
    BY <1>1 DEF OneBuffer
  <1>4. BlockInv'
    BY <1>1, <1>0 DEF TypeOK, BlockInv
  <1>5. CountInv'
    BY <1>1, <1>0, KeepCount DEF TypeOK
  <1>6. HolderInv'
    <2>1. SUFFICES ASSUME NEW q \in Users, NEW x \in Bufs
                   PROVE  holder'[x] = q <=> pc'[q] \in InUse \cup {"locked"} /\ b[q] = x
      BY DEF HolderInv
    <2>2. holder[x] = q <=> pc[q] \in InUse \cup {"locked"} /\ b[q] = x
      BY <1>1 DEF HolderInv
    <2>3. CASE LockFree(u) /\ holder' = [holder EXCEPT ![b[u]] = u] /\ Goto(u, "locked")
      <3>1. pc'[u] = "locked" /\ \A r \in Users \ {u} : pc'[r] = pc[r]
        BY <1>1, <2>3, GotoAt
      <3>2. holder'[x] = IF x = b[u] THEN u ELSE holder[x]
        BY <1>0, <1>1, <2>3 DEF TypeOK
      <3>3. holder[b[u]] = Nobody /\ q # Nobody /\ pc[u] \in {"lock", "woken"}
        BY <2>3, BufAssumption
      <3>4. CASE x = b[u]
        BY <2>2, <3>1, <3>2, <3>3, <3>4
      <3>5. CASE x # b[u]
        BY <2>2, <3>1, <3>2, <3>3, <3>5
      <3>6. QED BY <3>4, <3>5
    <2>4. CASE Goto(u, "asleep") /\ UNCHANGED holder
      <3>1. pc'[u] = "asleep" /\ \A r \in Users \ {u} : pc'[r] = pc[r]
        BY <1>1, <2>4, GotoAt
      <3>2. QED BY <2>2, <2>4, <3>1
    <2>5. QED BY <2>3, <2>4
  <1>7. CleanInv'
    BY <1>1, <1>0 DEF TypeOK, CleanInv
  <1>8. LocksHeld'
    BY <1>1, <1>0 DEF LocksHeld
  <1>9. Ring'
    BY <1>1, KeepRing
  <1>10. ValidInv'
    BY <1>1, <1>0 DEF TypeOK, ValidInv
  <1>11. NoLostWakeup'
    BY <1>1, <1>0 DEF TypeOK, NoLostWakeup, BlockInv
  <1>12. WrittenInv'
    BY <1>1, <1>0 DEF TypeOK, WrittenInv
  <1>13. QED BY <1>2, <1>3, <1>4, <1>5, <1>6, <1>7, <1>8, <1>9, <1>10, <1>11, <1>12, PartsPrime

\* What bread() finds in a valid buffer, or reads from the disk, is the block.
LEMMA BreadInv == ASSUME IInv, NEW u \in Users, bread(u) PROVE IInv'
  <1> USE DEF bread, meta, list, Goto, InUse, Referencing
  <1>1. /\ TypeOK /\ OneBuffer /\ BlockInv /\ CountInv /\ HolderInv /\ CleanInv /\ LocksHeld
        /\ Ring /\ ValidInv /\ NoLostWakeup /\ WrittenInv
    BY Parts
  <1>0. /\ b[u] \in Bufs /\ blk[u] \in Blocks /\ blockno[b[u]] = blk[u] /\ u # Nobody
        /\ holder[b[u]] = u
        /\ \A q \in Users : q # u /\ b[q] = b[u] => pc[q] \notin InUse \cup {"locked"}
    BY <1>1, HoldsLock
  <1>2. TypeOK'
    BY <1>1, <1>0 DEF TypeOK
  <1>3. OneBuffer'
    BY <1>1 DEF OneBuffer
  <1>4. BlockInv'
    BY <1>1, <1>0 DEF TypeOK, BlockInv
  <1>5. CountInv'
    BY <1>1, <1>0, KeepCount DEF TypeOK
  <1>6. HolderInv'
    BY <1>1, <1>0 DEF TypeOK, HolderInv
  <1>7. CleanInv'
    BY <1>1, <1>0 DEF TypeOK, CleanInv
  <1>8. LocksHeld'
    BY <1>1, <1>0 DEF LocksHeld
  <1>9. Ring'
    BY <1>1, KeepRing
  <1>10. ValidInv'
    <2>1. /\ pc'[u] = "held" /\ \A q \in Users \ {u} : pc'[q] = pc[q]
          /\ valid'[b[u]] = 1 /\ \A x \in Bufs : valid[x] = 1 => valid'[x] = 1
          /\ \A x \in Bufs : x # b[u] => valid'[x] = valid[x]
      BY <1>0, <1>1, GotoAt DEF TypeOK
    <2>2. blockno[b[u]] # NoBlock
      BY <1>0, BufAssumption
    <2>3. \A x \in Bufs : (valid'[x] = 1 => blockno'[x] # NoBlock) /\ (x \in pinned' => valid'[x] = 1)
      BY <1>1, <2>1, <2>2 DEF ValidInv
    <2>4. ASSUME NEW q \in Users, pc'[q] \in InUse PROVE valid'[b'[q]] = 1
      <3>1. CASE q = u
        BY <2>1, <3>1
      <3>2. CASE q # u
        BY <1>1, <2>1, <2>4, <3>2 DEF ValidInv, BlockInv
      <3>3. QED BY <3>1, <3>2
    <2>5. QED BY <2>3, <2>4 DEF ValidInv
  <1>11. NoLostWakeup'
    BY <1>1, <1>0 DEF TypeOK, NoLostWakeup
  <1>12. WrittenInv'
    BY <1>1, <1>0 DEF TypeOK, WrittenInv
  <1>13. QED BY <1>2, <1>3, <1>4, <1>5, <1>6, <1>7, <1>8, <1>9, <1>10, <1>11, <1>12, PartsPrime

\* The user that changes a buffer holds its lock.
LEMMA ModifyInv == ASSUME IInv, NEW u \in Users, NEW v \in Vals, Modify(u, v) PROVE IInv'
  <1> USE DEF Modify, meta, list, Goto, InUse, Referencing
  <1>1. /\ TypeOK /\ OneBuffer /\ BlockInv /\ CountInv /\ HolderInv /\ CleanInv /\ LocksHeld
        /\ Ring /\ ValidInv /\ NoLostWakeup /\ WrittenInv
    BY Parts
  <1>0. /\ b[u] \in Bufs /\ blk[u] \in Blocks /\ blockno[b[u]] = blk[u] /\ u # Nobody
        /\ holder[b[u]] = u
        /\ \A q \in Users : q # u /\ b[q] = b[u] => pc[q] \notin InUse \cup {"locked"}
    BY <1>1, HoldsLock
  <1>2. TypeOK'
    BY <1>1, <1>0 DEF TypeOK
  <1>3. OneBuffer'
    BY <1>1 DEF OneBuffer
  <1>4. BlockInv'
    BY <1>1, <1>0 DEF TypeOK, BlockInv
  <1>5. CountInv'
    BY <1>1, <1>0, KeepCount DEF TypeOK
  <1>6. HolderInv'
    BY <1>1, <1>0 DEF TypeOK, HolderInv
  <1>7. CleanInv'
    BY <1>1, <1>0 DEF TypeOK, CleanInv
  <1>8. LocksHeld'
    BY <1>1, <1>0 DEF LocksHeld
  <1>9. Ring'
    BY <1>1, KeepRing
  <1>10. ValidInv'
    BY <1>1, <1>0 DEF TypeOK, ValidInv
  <1>11. NoLostWakeup'
    BY <1>1, <1>0 DEF TypeOK, NoLostWakeup
  <1>12. WrittenInv'
    BY <1>1, <1>0 DEF TypeOK, WrittenInv
  <1>13. QED BY <1>2, <1>3, <1>4, <1>5, <1>6, <1>7, <1>8, <1>9, <1>10, <1>11, <1>12, PartsPrime

\* bwrite() makes the disk agree with the buffer, and no other buffer has the block.
LEMMA BwriteInv == ASSUME IInv, NEW u \in Users, bwrite(u) PROVE IInv'
  <1> USE DEF bwrite, Holding, meta, list, Goto, InUse, Referencing
  <1>1. /\ TypeOK /\ OneBuffer /\ BlockInv /\ CountInv /\ HolderInv /\ CleanInv /\ LocksHeld
        /\ Ring /\ ValidInv /\ NoLostWakeup /\ WrittenInv
    BY Parts
  <1>0. /\ b[u] \in Bufs /\ blk[u] \in Blocks /\ blockno[b[u]] = blk[u] /\ u # Nobody
        /\ holder[b[u]] = u
        /\ \A q \in Users : q # u /\ b[q] = b[u] => pc[q] \notin InUse \cup {"locked"}
    BY <1>1, HoldsLock
  <1>2. TypeOK'
    BY <1>1, <1>0 DEF TypeOK
  <1>3. OneBuffer'
    BY <1>1 DEF OneBuffer
  <1>4. BlockInv'
    BY <1>1, <1>0 DEF TypeOK, BlockInv
  <1>5. CountInv'
    BY <1>1, <1>0, KeepCount DEF TypeOK
  <1>6. HolderInv'
    BY <1>1, <1>0 DEF TypeOK, HolderInv
  <1>7. CleanInv'
    <2>1. /\ disk' = [disk EXCEPT ![blk[u]] = data[b[u]]]
          /\ pc'[u] = "written" /\ \A q \in Users \ {u} : pc'[q] = pc[q]
      BY <1>0, <1>1, GotoAt
    <2>2. SUFFICES ASSUME NEW x \in Bufs, valid[x] = 1, x \notin pinned,
                          data[x] # disk'[blockno[x]]
                   PROVE  \E q \in Users : b[q] = x /\ pc'[q] = "dirty"
      BY DEF CleanInv
    <2>3. blockno[x] \in Blocks
      BY <1>1, <2>2 DEF TypeOK, ValidInv
    <2>4. x # b[u]
      BY <1>0, <1>1, <2>1, <2>2 DEF TypeOK
    <2>5. blockno[x] # blk[u]
      BY <1>0, <1>1, <2>3, <2>4, BufAssumption DEF OneBuffer
    <2>6. disk'[blockno[x]] = disk[blockno[x]]
      BY <1>1, <2>1, <2>3, <2>5 DEF TypeOK
    <2>7. PICK q \in Users : b[q] = x /\ pc[q] = "dirty"
      BY <1>1, <2>2, <2>6 DEF CleanInv
    <2>8. q # u
      BY <2>4, <2>7
    <2>9. QED BY <2>1, <2>7, <2>8
  <1>8. LocksHeld'
    BY <1>1, <1>0 DEF LocksHeld
  <1>9. Ring'
    BY <1>1, KeepRing
  <1>10. ValidInv'
    BY <1>1, <1>0 DEF TypeOK, ValidInv
  <1>11. NoLostWakeup'
    BY <1>1, <1>0 DEF TypeOK, NoLostWakeup
  <1>12. WrittenInv'
    <2>1. /\ disk' = [disk EXCEPT ![blk[u]] = data[b[u]]]
          /\ pc'[u] = "written" /\ \A q \in Users \ {u} : pc'[q] = pc[q]
      BY <1>0, <1>1, GotoAt
    <2>2. SUFFICES ASSUME NEW q \in Users, pc'[q] = "written"
                   PROVE  data[b[q]] = disk'[blk[q]]
      BY DEF WrittenInv
    <2>3. CASE blk[q] = blk[u]
      <3>1. b[q] = b[u]
        <4>1. CASE q = u
          BY <4>1
        <4>2. CASE q # u
          BY <1>0, <1>1, <2>1, <2>2, <2>3, <4>2, BufAssumption DEF BlockInv, OneBuffer
        <4>3. QED BY <4>1, <4>2
      <3>2. QED BY <1>0, <1>1, <2>1, <2>3, <3>1 DEF TypeOK
    <2>4. CASE blk[q] # blk[u]
      <3>1. q # u /\ pc[q] = "written"
        BY <2>1, <2>2, <2>4
      <3>2. disk'[blk[q]] = disk[blk[q]]
        BY <1>1, <2>1, <2>4, <3>1 DEF TypeOK, BlockInv
      <3>3. QED BY <1>1, <3>1, <3>2 DEF WrittenInv
    <2>5. QED BY <2>3, <2>4
  <1>13. QED BY <1>2, <1>3, <1>4, <1>5, <1>6, <1>7, <1>8, <1>9, <1>10, <1>11, <1>12, PartsPrime

\* A pin is one reference more.
LEMMA BpinInv == ASSUME IInv, NEW u \in Users, bpin(u) PROVE IInv'
  <1> USE DEF bpin, meta, list, Goto, InUse, Referencing
  <1>1. /\ TypeOK /\ OneBuffer /\ BlockInv /\ CountInv /\ HolderInv /\ CleanInv /\ LocksHeld
        /\ Ring /\ ValidInv /\ NoLostWakeup /\ WrittenInv
    BY Parts
  <1>0. /\ b[u] \in Bufs /\ blk[u] \in Blocks /\ blockno[b[u]] = blk[u] /\ u # Nobody
        /\ holder[b[u]] = u
        /\ \A q \in Users : q # u /\ b[q] = b[u] => pc[q] \notin InUse \cup {"locked"}
    BY <1>1, HoldsLock
  <1>2. TypeOK'
    BY <1>1, <1>0 DEF TypeOK
  <1>3. OneBuffer'
    BY <1>1 DEF OneBuffer
  <1>4. BlockInv'
    BY <1>1, <1>0 DEF TypeOK, BlockInv
  <1>5. CountInv'
    <2>1. refcnt' \in [Bufs -> Int] /\ \A x \in Bufs : Refs(x)' = Refs(x)
      BY <1>0, <1>1 DEF TypeOK, Refs
    <2>2. refcnt'[b[u]] = Cardinality(Refs(b[u])') + Pin(b[u])'
      <3>1. Cardinality(Refs(b[u])) \in Nat
        BY RefsFinite
      <3>2. Pin(b[u])' = 1 /\ refcnt'[b[u]] = IF b[u] \in pinned THEN refcnt[b[u]]
                                              ELSE refcnt[b[u]] + 1
        BY <1>0, <1>1 DEF TypeOK, Pin
      <3>3. refcnt[b[u]] = Cardinality(Refs(b[u])) + (IF b[u] \in pinned THEN 1 ELSE 0)
        BY <1>0, <1>1 DEF CountInv
      <3>4. QED BY <1>0, <2>1, <3>1, <3>2, <3>3
    <2>3. \A x \in Bufs \ {b[u]} : refcnt'[x] = refcnt[x] /\ (x \in pinned' <=> x \in pinned)
      BY <1>0, <1>1 DEF TypeOK
    <2>4. QED BY <1>0, <1>1, <2>1, <2>2, <2>3, CountAt
  <1>6. HolderInv'
    BY <1>1, <1>0 DEF TypeOK, HolderInv
  <1>7. CleanInv'
    BY <1>1, <1>0 DEF TypeOK, CleanInv
  <1>8. LocksHeld'
    BY <1>1, <1>0 DEF LocksHeld
  <1>9. Ring'
    BY <1>1, KeepRing
  <1>10. ValidInv'
    BY <1>1, <1>0 DEF TypeOK, ValidInv
  <1>11. NoLostWakeup'
    BY <1>1, <1>0 DEF TypeOK, NoLostWakeup
  <1>12. WrittenInv'
    BY <1>1, <1>0 DEF TypeOK, WrittenInv
  <1>13. QED BY <1>2, <1>3, <1>4, <1>5, <1>6, <1>7, <1>8, <1>9, <1>10, <1>11, <1>12, PartsPrime

\* A buffer is unpinned when it has been written.
LEMMA BunpinInv == ASSUME IInv, NEW u \in Users, bunpin(u) PROVE IInv'
  <1> USE DEF bunpin, meta, list, Goto, InUse, Referencing
  <1>1. /\ TypeOK /\ OneBuffer /\ BlockInv /\ CountInv /\ HolderInv /\ CleanInv /\ LocksHeld
        /\ Ring /\ ValidInv /\ NoLostWakeup /\ WrittenInv
    BY Parts
  <1>0. /\ b[u] \in Bufs /\ blk[u] \in Blocks /\ blockno[b[u]] = blk[u] /\ u # Nobody
        /\ holder[b[u]] = u
        /\ \A q \in Users : q # u /\ b[q] = b[u] => pc[q] \notin InUse \cup {"locked"}
    BY <1>1, HoldsLock
  <1>2. TypeOK'
    <2>1. refcnt[b[u]] = Cardinality(Refs(b[u])) + 1 /\ Cardinality(Refs(b[u])) \in Nat
      BY <1>0, <1>1, RefsFinite DEF CountInv
    <2>2. QED BY <1>0, <1>1, <2>1 DEF TypeOK
  <1>3. OneBuffer'
    BY <1>1 DEF OneBuffer
  <1>4. BlockInv'
    BY <1>1, <1>0 DEF TypeOK, BlockInv
  <1>5. CountInv'
    <2>1. refcnt' \in [Bufs -> Int] /\ \A x \in Bufs : Refs(x)' = Refs(x)
      BY <1>0, <1>1 DEF TypeOK, Refs
    <2>2. refcnt'[b[u]] = Cardinality(Refs(b[u])') + Pin(b[u])'
      <3>1. Cardinality(Refs(b[u])) \in Nat
        BY RefsFinite
      <3>2. Pin(b[u])' = 0 /\ refcnt'[b[u]] = refcnt[b[u]] - 1
        BY <1>0, <1>1 DEF TypeOK, Pin
      <3>3. refcnt[b[u]] = Cardinality(Refs(b[u])) + 1
        BY <1>0, <1>1 DEF CountInv
      <3>4. QED BY <1>0, <2>1, <3>1, <3>2, <3>3
    <2>3. \A x \in Bufs \ {b[u]} : refcnt'[x] = refcnt[x] /\ (x \in pinned' <=> x \in pinned)
      BY <1>0, <1>1 DEF TypeOK
    <2>4. QED BY <1>0, <1>1, <2>1, <2>2, <2>3, CountAt
  <1>6. HolderInv'
    BY <1>1, <1>0 DEF TypeOK, HolderInv
  <1>7. CleanInv'
    <2>1. pc'[u] = "held" /\ \A q \in Users \ {u} : pc'[q] = pc[q]
      BY <1>1, GotoAt
    <2>2. data[b[u]] = disk[blockno[b[u]]]
      BY <1>0, <1>1 DEF WrittenInv
    <2>3. QED BY <1>1, <2>1, <2>2 DEF CleanInv
  <1>8. LocksHeld'
    BY <1>1, <1>0 DEF LocksHeld
  <1>9. Ring'
    BY <1>1, KeepRing
  <1>10. ValidInv'
    BY <1>1, <1>0 DEF TypeOK, ValidInv
  <1>11. NoLostWakeup'
    BY <1>1, <1>0 DEF TypeOK, NoLostWakeup
  <1>12. WrittenInv'
    BY <1>1, <1>0 DEF TypeOK, WrittenInv
  <1>13. QED BY <1>2, <1>3, <1>4, <1>5, <1>6, <1>7, <1>8, <1>9, <1>10, <1>11, <1>12, PartsPrime

\* Whoever sleeps for the lock that is given up is woken.
LEMMA ReleasesleepInv == ASSUME IInv, NEW u \in Users, releasesleep(u) PROVE IInv'
  <1> USE DEF releasesleep, Holding, Woken, meta, list, Goto, InUse, Referencing
  <1>1. /\ TypeOK /\ OneBuffer /\ BlockInv /\ CountInv /\ HolderInv /\ CleanInv /\ LocksHeld
        /\ Ring /\ ValidInv /\ NoLostWakeup /\ WrittenInv
    BY Parts
  <1>0. /\ b[u] \in Bufs /\ blk[u] \in Blocks /\ blockno[b[u]] = blk[u] /\ u # Nobody
        /\ holder[b[u]] = u
        /\ \A q \in Users : q # u /\ b[q] = b[u] => pc[q] \notin InUse \cup {"locked"}
    BY <1>1, HoldsLock
  <1>2. TypeOK'
    BY <1>1, <1>0 DEF TypeOK
  <1>3. OneBuffer'
    BY <1>1 DEF OneBuffer
  <1>4. BlockInv'
    BY <1>1, <1>0 DEF TypeOK, BlockInv
  <1>5. CountInv'
    BY <1>1, <1>0, KeepCount DEF TypeOK
  <1>6. HolderInv'
    <2>1. pc'[u] = "unref" /\ \A q \in Users \ {u} :
            pc'[q] = IF pc[q] = "asleep" /\ b[q] = b[u] THEN "woken" ELSE pc[q]
      BY <1>0, <1>1 DEF TypeOK
    <2>2. SUFFICES ASSUME NEW q \in Users, NEW x \in Bufs
                   PROVE  holder'[x] = q <=> pc'[q] \in InUse \cup {"locked"} /\ b[q] = x
      BY DEF HolderInv
    <2>3. holder[x] = q <=> pc[q] \in InUse \cup {"locked"} /\ b[q] = x
      BY <1>1 DEF HolderInv
    <2>4. holder'[x] = IF x = b[u] THEN Nobody ELSE holder[x]
      BY <1>0, <1>1 DEF TypeOK
    <2>5. q # Nobody
      BY BufAssumption
    <2>6. QED BY <1>0, <2>1, <2>3, <2>4, <2>5
  <1>7. CleanInv'
    <2>1. pc'[u] = "unref" /\ \A q \in Users \ {u} :
            pc'[q] = IF pc[q] = "asleep" /\ b[q] = b[u] THEN "woken" ELSE pc[q]
      BY <1>0, <1>1 DEF TypeOK
    <2>2. \A q \in Users : pc[q] = "dirty" => pc'[q] = "dirty"
      BY <2>1
    <2>3. QED BY <1>1, <2>2 DEF CleanInv
  <1>8. LocksHeld'
    BY <1>1, <1>0 DEF LocksHeld
  <1>9. Ring'
    BY <1>1, KeepRing
  <1>10. ValidInv'
    BY <1>1, <1>0 DEF TypeOK, ValidInv
  <1>11. NoLostWakeup'
    <2>1. pc'[u] = "unref" /\ \A q \in Users \ {u} :
            pc'[q] = IF pc[q] = "asleep" /\ b[q] = b[u] THEN "woken" ELSE pc[q]
      BY <1>0, <1>1 DEF TypeOK
    <2>2. \A q \in Users : pc'[q] = "asleep" => pc[q] = "asleep" /\ b[q] # b[u] /\ b[q] \in Bufs
      BY <1>1, <2>1 DEF BlockInv
    <2>3. \A x \in Bufs : x # b[u] => holder'[x] = holder[x]
      BY <1>0, <1>1 DEF TypeOK
    <2>4. QED BY <1>1, <2>2, <2>3 DEF NoLostWakeup
  <1>12. WrittenInv'
    BY <1>1, <1>0 DEF TypeOK, WrittenInv
  <1>13. QED BY <1>2, <1>3, <1>4, <1>5, <1>6, <1>7, <1>8, <1>9, <1>10, <1>11, <1>12, PartsPrime

\* A user that had no buffer refers to y from now on.
LEMMA RefsAdd ==
  ASSUME TypeOK, NEW u \in Users, pc[u] = "idle", NEW y \in Bufs, Goto(u, "lock"),
         b' = [b EXCEPT ![u] = y]
  PROVE  /\ Refs(y)' = Refs(y) \cup {u} /\ u \notin Refs(y)
         /\ \A x \in Bufs \ {y} : Refs(x)' = Refs(x)
  <1>1. pc'[u] = "lock" /\ \A q \in Users \ {u} : pc'[q] = pc[q]
    BY GotoAt
  <1>2. b'[u] = y /\ \A q \in Users \ {u} : b'[q] = b[q]
    BY DEF TypeOK
  <1>3. QED BY <1>1, <1>2 DEF Refs, Referencing, InUse

\* One reference more is counted.
LEMMA CountAdd ==
  ASSUME TypeOK, CountInv, NEW u \in Users, pc[u] = "idle", NEW y \in Bufs, Goto(u, "lock"),
         b' = [b EXCEPT ![u] = y], UNCHANGED pinned,
         refcnt' = [refcnt EXCEPT ![y] = refcnt[y] + 1]
  PROVE  CountInv' /\ refcnt' \in [Bufs -> Nat]
  <1>1. /\ Refs(y)' = Refs(y) \cup {u} /\ u \notin Refs(y)
        /\ \A x \in Bufs \ {y} : Refs(x)' = Refs(x)
    BY RefsAdd
  <1>2. refcnt' \in [Bufs -> Nat] /\ refcnt'[y] = refcnt[y] + 1 /\ refcnt[y] \in Nat
        /\ \A x \in Bufs \ {y} : refcnt'[x] = refcnt[x]
    BY DEF TypeOK
  <1>3. Cardinality(Refs(y)') = Cardinality(Refs(y)) + 1 /\ Cardinality(Refs(y)) \in Nat
    BY <1>1, RefsFinite, FS_AddElement
  <1>4. refcnt[y] = Cardinality(Refs(y)) + (IF y \in pinned THEN 1 ELSE 0)
    BY DEF CountInv
  <1>5. refcnt'[y] = Cardinality(Refs(y)') + Pin(y)'
    BY <1>2, <1>3, <1>4 DEF Pin
  <1>6. refcnt' \in [Bufs -> Int]
    BY <1>2
  <1>7. QED BY <1>1, <1>2, <1>5, <1>6, CountAt

\* The user gives its reference back.
LEMMA CountRemove ==
  ASSUME TypeOK, CountInv, NEW u \in Users, pc[u] \in Referencing, b[u] \in Bufs, Goto(u, "idle"),
         b' = [b EXCEPT ![u] = head], UNCHANGED pinned,
         refcnt' = [refcnt EXCEPT ![b[u]] = refcnt[b[u]] - 1]
  PROVE  CountInv' /\ refcnt' \in [Bufs -> Nat]
  <1>1. PICK y \in Bufs : y = b[u]
    OBVIOUS
  <1>2. pc'[u] = "idle" /\ \A q \in Users \ {u} : pc'[q] = pc[q]
    BY GotoAt
  <1>3. b'[u] = head /\ \A q \in Users \ {u} : b'[q] = b[q]
    BY DEF TypeOK
  <1>4. /\ Refs(y)' = Refs(y) \ {u} /\ u \in Refs(y)
        /\ \A x \in Bufs \ {y} : Refs(x)' = Refs(x)
    BY <1>1, <1>2, <1>3 DEF Refs, Referencing, InUse
  <1>5. Cardinality(Refs(y)') = Cardinality(Refs(y)) - 1 /\ Cardinality(Refs(y)) \in Nat
        /\ Cardinality(Refs(y)') \in Nat
    <2>1. IsFiniteSet(Refs(y)) /\ Cardinality(Refs(y)) \in Nat
      BY RefsFinite
    <2>2. IsFiniteSet(Refs(y) \ {u}) /\ Cardinality(Refs(y) \ {u}) = Cardinality(Refs(y)) - 1
      BY <1>4, <2>1, FS_RemoveElement
    <2>3. Cardinality(Refs(y) \ {u}) \in Nat
      BY <2>2, FS_CardinalityType
    <2>4. QED BY <1>4, <2>1, <2>2, <2>3
  <1>6. refcnt[y] = Cardinality(Refs(y)) + (IF y \in pinned THEN 1 ELSE 0)
    BY DEF CountInv
  <1>7. refcnt'[y] = refcnt[y] - 1 /\ \A x \in Bufs \ {y} : refcnt'[x] = refcnt[x]
    BY <1>1 DEF TypeOK
  <1>8. refcnt'[y] = Cardinality(Refs(y)') + Pin(y)' /\ refcnt'[y] \in Nat
    BY <1>5, <1>6, <1>7 DEF Pin
  <1>9. refcnt' \in [Bufs -> Nat] /\ refcnt' \in [Bufs -> Int]
    BY <1>1, <1>7, <1>8 DEF TypeOK
  <1>10. QED BY <1>4, <1>7, <1>8, <1>9, CountAt

\* The block is in the cache: one user more.
BgetHit(u, n) ==
  /\ pc[u] = "idle" /\ \E x \in Cached(n) : Reference(u, n, x, refcnt[x] + 1)
  /\ UNCHANGED <<blockno, valid, list, pinned, data, holder, disk>>

\* The least recently used buffer is recycled for the block.
BgetRecycle(u, n) ==
  /\ pc[u] = "idle" /\ Cached(n) = {} /\ Unused # {}
  /\ Reference(u, n, LeastRecent, 1)
  /\ blockno' = [blockno EXCEPT ![LeastRecent] = n]
  /\ valid' = [valid EXCEPT ![LeastRecent] = 0]
  /\ UNCHANGED <<list, pinned, data, holder, disk>>

\* Every buffer is in use.
BgetPanic(u, n) ==
  /\ pc[u] = "idle" /\ Cached(n) = {} /\ Unused = {} /\ panicked' = "bget_no_buffers"
  /\ UNCHANGED <<blockno, valid, refcnt, b, blk, pc, list, pinned, data, holder, disk>>

LEMMA BgetCases ==
  ASSUME NEW u, NEW n, bget(u, n)
  PROVE  BgetHit(u, n) \/ BgetRecycle(u, n) \/ BgetPanic(u, n)
  BY DEF bget, BgetHit, BgetRecycle, BgetPanic, list

\* Those that are between acquiresleep() and releasesleep(), and their buffers.
SameLockers ==
  \A q \in Users : /\ pc'[q] \in InUse \cup {"locked"} <=> pc[q] \in InUse \cup {"locked"}
                   /\ pc'[q] \in InUse \cup {"locked"} => b'[q] = b[q]

\* A lock changes hands in acquiresleep() and releasesleep() only.
LEMMA KeepHolder ==
  ASSUME HolderInv, UNCHANGED holder, SameLockers
  PROVE  HolderInv'
  <1>1. SUFFICES ASSUME NEW q \in Users, NEW x \in Bufs
                 PROVE  holder'[x] = q <=> pc'[q] \in InUse \cup {"locked"} /\ b'[q] = x
    BY DEF HolderInv
  <1>2. holder[x] = q <=> pc[q] \in InUse \cup {"locked"} /\ b[q] = x
    BY DEF HolderInv
  <1>3. QED BY <1>2 DEF SameLockers

\* The buffer that is found has the block, whoever uses it.
LEMMA BgetHitInv == ASSUME IInv, NEW u \in Users, NEW n \in Blocks, BgetHit(u, n) PROVE IInv'
  <1> USE DEF BgetHit, list, Reference, InUse, Referencing
  <1>1. /\ TypeOK /\ OneBuffer /\ BlockInv /\ CountInv /\ HolderInv /\ CleanInv /\ LocksHeld
        /\ Ring /\ ValidInv /\ NoLostWakeup /\ WrittenInv
    BY Parts
  <1>0. PICK y \in Cached(n) : Reference(u, n, y, refcnt[y] + 1)
    OBVIOUS
  <1>a. y \in Bufs /\ blockno[y] = n /\ pc[u] = "idle"
    BY <1>0 DEF Cached
  <1>b. /\ pc'[u] = "lock" /\ \A q \in Users \ {u} : pc'[q] = pc[q]
        /\ b'[u] = y /\ \A q \in Users \ {u} : b'[q] = b[q]
        /\ blk'[u] = n /\ \A q \in Users \ {u} : blk'[q] = blk[q]
    BY <1>0, <1>1, GotoAt DEF TypeOK
  <1>5a. CountInv' /\ refcnt' \in [Bufs -> Nat]
    BY <1>0, <1>1, <1>a, CountAdd
  <1>2. TypeOK'
    BY <1>1, <1>5a, <1>0, <1>a DEF TypeOK, Goto
  <1>3. OneBuffer'
    BY <1>1 DEF OneBuffer
  <1>4. BlockInv'
    BY <1>1, <1>0, <1>a, <1>b DEF BlockInv
  <1>5. CountInv'
    BY <1>5a
  <1>6. HolderInv'
    <2>1. SameLockers
      BY <1>a, <1>b DEF SameLockers
    <2>2. QED BY <1>1, <2>1, KeepHolder
  <1>7. CleanInv'
    <2>1. \A q \in Users : pc[q] = "dirty" => pc'[q] = "dirty" /\ b'[q] = b[q]
      BY <1>a, <1>b
    <2>2. QED BY <1>1, <2>1 DEF CleanInv
  <1>8. LocksHeld'
    BY <1>1, <1>0 DEF LocksHeld
  <1>9. Ring'
    BY <1>1, KeepRing
  <1>10. ValidInv'
    <2>1. \A q \in Users : pc'[q] \in InUse => pc[q] \in InUse /\ b'[q] = b[q]
      BY <1>a, <1>b
    <2>2. QED BY <1>1, <2>1 DEF ValidInv
  <1>11. NoLostWakeup'
    <2>1. \A q \in Users : pc'[q] = "asleep" => pc[q] = "asleep" /\ b'[q] = b[q]
      BY <1>a, <1>b
    <2>2. QED BY <1>1, <2>1 DEF NoLostWakeup
  <1>12. WrittenInv'
    <2>1. \A q \in Users : pc'[q] = "written" => pc[q] = "written" /\ b'[q] = b[q] /\ blk'[q] = blk[q]
      BY <1>a, <1>b
    <2>2. QED BY <1>1, <2>1 DEF WrittenInv
  <1>13. QED BY <1>2, <1>3, <1>4, <1>5, <1>6, <1>7, <1>8, <1>9, <1>10, <1>11, <1>12, PartsPrime

\* The recycled buffer is nobody's and is not pinned: the disk has what was in it.
LEMMA BgetRecycleInv == ASSUME IInv, NEW u \in Users, NEW n \in Blocks, BgetRecycle(u, n) PROVE IInv'
  <1> USE DEF BgetRecycle, list, Reference, InUse, Referencing
  <1>1. /\ TypeOK /\ OneBuffer /\ BlockInv /\ CountInv /\ HolderInv /\ CleanInv /\ LocksHeld
        /\ Ring /\ ValidInv /\ NoLostWakeup /\ WrittenInv
    BY Parts
  <1>0. PICK y : y = LeastRecent
    OBVIOUS
  <1>a. y \in Bufs /\ refcnt[y] = 0 /\ pc[u] = "idle" /\ Reference(u, n, y, 1)
        /\ blockno' = [blockno EXCEPT ![y] = n] /\ valid' = [valid EXCEPT ![y] = 0]
    BY <1>0, <1>1, LeastRecentUnused
  <1>b. /\ pc'[u] = "lock" /\ \A q \in Users \ {u} : pc'[q] = pc[q]
        /\ b'[u] = y /\ \A q \in Users \ {u} : b'[q] = b[q]
        /\ blk'[u] = n /\ \A q \in Users \ {u} : blk'[q] = blk[q]
    BY <1>a, <1>1, GotoAt DEF TypeOK
  <1>c. y \notin pinned /\ \A q \in Users : pc[q] \in Referencing => b[q] # y
    BY <1>1, <1>a, UnusedFree
  <1>d. /\ blockno'[y] = n /\ \A x \in Bufs \ {y} : blockno'[x] = blockno[x]
        /\ valid'[y] = 0 /\ \A x \in Bufs \ {y} : valid'[x] = valid[x]
    BY <1>1, <1>a DEF TypeOK
  <1>e. \A x \in Bufs : blockno[x] # n
    BY DEF Cached
  <1>5a. CountInv' /\ refcnt' \in [Bufs -> Nat]
    <2>1. refcnt' = [refcnt EXCEPT ![y] = refcnt[y] + 1]
      <3>1. refcnt' = [refcnt EXCEPT ![y] = 1]
        BY <1>a, Zenon
      <3>2. refcnt[y] + 1 = 1
        BY <1>a
      <3>3. QED BY <3>1, <3>2
    <2>2. QED BY <1>1, <1>a, <2>1, CountAdd
  <1>2. TypeOK'
    <2>1. pc' \in [Users -> Referencing \cup {"idle"}]
      BY <1>1, <1>a DEF TypeOK, Goto
    <2>2. /\ blockno' \in [Bufs -> Blocks \cup {NoBlock}] /\ valid' \in [Bufs -> {0, 1}]
          /\ blk' \in [Users -> Blocks \cup {NoBlock}] /\ b' \in [Users -> Bufs \cup {head}]
      BY <1>1, <1>a DEF TypeOK
    <2>3. QED BY <1>1, <1>5a, <1>a, <2>1, <2>2 DEF TypeOK
  <1>3. OneBuffer'
    <2>1. SUFFICES ASSUME NEW x \in Bufs, NEW z \in Bufs, blockno'[x] = blockno'[z],
                          blockno'[x] # NoBlock, x # z
                   PROVE  FALSE
      BY DEF OneBuffer
    <2>2. x # y /\ z # y
      BY <1>d, <1>e, <2>1
    <2>3. QED BY <1>1, <1>d, <2>1, <2>2 DEF OneBuffer
  <1>4. BlockInv'
    <2>1. SUFFICES ASSUME NEW q \in Users, pc'[q] \in Referencing
                   PROVE  b'[q] \in Bufs /\ blk'[q] \in Blocks /\ blockno'[b'[q]] = blk'[q]
      BY DEF BlockInv
    <2>2. CASE q = u
      BY <1>a, <1>b, <1>d, <2>2
    <2>3. CASE q # u
      BY <1>1, <1>b, <1>c, <1>d, <2>1, <2>3 DEF BlockInv
    <2>4. QED BY <2>2, <2>3
  <1>5. CountInv'
    BY <1>5a
  <1>6. HolderInv'
    <2>1. SameLockers
      BY <1>a, <1>b DEF SameLockers
    <2>2. QED BY <1>1, <2>1, KeepHolder
  <1>7. CleanInv'
    <2>1. \A q \in Users : pc[q] = "dirty" => pc'[q] = "dirty" /\ b'[q] = b[q]
      BY <1>a, <1>b
    <2>2. QED BY <1>1, <1>d, <2>1 DEF CleanInv
  <1>8. LocksHeld'
    BY <1>1, <1>a DEF LocksHeld
  <1>9. Ring'
    BY <1>1, KeepRing
  <1>10. ValidInv'
    <2>1. \A q \in Users : pc'[q] \in InUse => pc[q] \in InUse /\ b'[q] = b[q] /\ b[q] \in Bufs \ {y}
      BY <1>1, <1>a, <1>b, <1>c DEF BlockInv
    <2>2. QED BY <1>1, <1>c, <1>d, <2>1 DEF ValidInv
  <1>11. NoLostWakeup'
    <2>1. \A q \in Users : pc'[q] = "asleep" => pc[q] = "asleep" /\ b'[q] = b[q]
      BY <1>a, <1>b
    <2>2. QED BY <1>1, <2>1 DEF NoLostWakeup
  <1>12. WrittenInv'
    <2>1. \A q \in Users : pc'[q] = "written" => pc[q] = "written" /\ b'[q] = b[q] /\ blk'[q] = blk[q]
      BY <1>a, <1>b
    <2>2. QED BY <1>1, <2>1 DEF WrittenInv
  <1>13. QED BY <1>2, <1>3, <1>4, <1>5, <1>6, <1>7, <1>8, <1>9, <1>10, <1>11, <1>12, PartsPrime

\* When no buffer is left, bget() panics.
LEMMA BgetPanicInv == ASSUME IInv, NEW u \in Users, NEW n \in Blocks, BgetPanic(u, n) PROVE IInv'
  <1> USE DEF BgetPanic, list
  <1>1. /\ TypeOK /\ OneBuffer /\ BlockInv /\ CountInv /\ HolderInv /\ CleanInv /\ LocksHeld
        /\ Ring /\ ValidInv /\ NoLostWakeup /\ WrittenInv
    BY Parts
  <1>2. TypeOK'
    BY <1>1 DEF TypeOK
  <1>3. OneBuffer'
    BY <1>1 DEF OneBuffer
  <1>4. BlockInv'
    BY <1>1 DEF BlockInv
  <1>5. CountInv'
    BY <1>1, KeepCount
  <1>6. HolderInv'
    BY <1>1 DEF HolderInv
  <1>7. CleanInv'
    BY <1>1 DEF CleanInv
  <1>8. LocksHeld'
    BY <1>1 DEF LocksHeld
  <1>9. Ring'
    BY <1>1, KeepRing
  <1>10. ValidInv'
    BY <1>1 DEF ValidInv
  <1>11. NoLostWakeup'
    BY <1>1 DEF NoLostWakeup
  <1>12. WrittenInv'
    BY <1>1 DEF WrittenInv
  <1>13. QED BY <1>2, <1>3, <1>4, <1>5, <1>6, <1>7, <1>8, <1>9, <1>10, <1>11, <1>12, PartsPrime

\* MoveToFront() moves the pointers of the i-th buffer from the back.
LEMMA BrelseMoves ==
  ASSUME TypeOK, Ring, NEW x \in Bufs, MoveToFront(x)
  PROVE  /\ next' \in [Nodes -> Nodes] /\ prev' \in [Nodes -> Nodes]
         /\ RingOf(next', prev')
         /\ \E i \in 1..NBUF : Back[i] = x /\ BackOf(prev') = Rotated(BackOf(prev), i)
  <1>1. /\ next \in [Nodes -> Nodes] /\ prev \in [Nodes -> Nodes] /\ RingOf(next, prev)
    BY RingIs DEF TypeOK, Nodes
  <1>2. PICK i \in 1..NBUF : x = BackOf(prev)[i]
    BY <1>1, RingInjective
  <1>3. Moves(next, prev, x, next', prev')
    BY Zenon DEF Moves, MoveToFront
  <1>4. Moves(next, prev, BackOf(prev)[i], next', prev')
    BY <1>2, <1>3
  <1>5. /\ next' \in [Nodes -> Nodes] /\ prev' \in [Nodes -> Nodes]
        /\ RingOf(next', prev') /\ BackOf(prev') = Rotated(BackOf(prev), i)
    BY <1>1, <1>4, MoveRing
  <1>6. QED BY <1>2, <1>5, BackIs

\* The last reference moves the buffer in the ring; the others stay.
LEMMA BrelseInv == ASSUME IInv, NEW u \in Users, brelse(u) PROVE IInv'
  <1> USE DEF brelse, list, InUse, Referencing
  <1>1. /\ TypeOK /\ OneBuffer /\ BlockInv /\ CountInv /\ HolderInv /\ CleanInv /\ LocksHeld
        /\ Ring /\ ValidInv /\ NoLostWakeup /\ WrittenInv
    BY Parts
  <1>0. b[u] \in Bufs /\ pc[u] = "unref"
    BY <1>1 DEF BlockInv
  <1>a. /\ next' \in [Nodes -> Nodes] /\ prev' \in [Nodes -> Nodes]
        /\ RingOf(next', prev')
    <2>1. /\ next \in [Nodes -> Nodes] /\ prev \in [Nodes -> Nodes] /\ RingOf(next, prev)
      BY <1>1, RingIs DEF TypeOK, Nodes
    <2>2. CASE refcnt[b[u]] = 1
      BY <1>1, <1>0, <2>2, BrelseMoves
    <2>3. CASE refcnt[b[u]] # 1
      BY <2>1, <2>3
    <2>4. QED BY <2>2, <2>3
  <1>b. /\ pc'[u] = "idle" /\ \A q \in Users \ {u} : pc'[q] = pc[q]
        /\ \A q \in Users \ {u} : b'[q] = b[q]
        /\ \A q \in Users \ {u} : blk'[q] = blk[q]
    BY <1>1, GotoAt DEF TypeOK
  <1>5a. CountInv' /\ refcnt' \in [Bufs -> Nat]
    BY <1>1, <1>0, CountRemove
  <1>2. TypeOK'
    BY <1>1, <1>5a, <1>0, <1>a DEF TypeOK, Goto, Nodes
  <1>3. OneBuffer'
    BY <1>1 DEF OneBuffer
  <1>4. BlockInv'
    BY <1>1, <1>0, <1>b DEF BlockInv
  <1>5. CountInv'
    BY <1>5a
  <1>6. HolderInv'
    <2>1. SameLockers
      BY <1>0, <1>b DEF SameLockers
    <2>2. QED BY <1>1, <2>1, KeepHolder
  <1>7. CleanInv'
    <2>1. \A q \in Users : pc[q] = "dirty" => pc'[q] = "dirty" /\ b'[q] = b[q]
      BY <1>0, <1>b
    <2>2. QED BY <1>1, <2>1 DEF CleanInv
  <1>8. LocksHeld'
    BY <1>1, <1>0 DEF LocksHeld
  <1>9. Ring'
    BY <1>a, RingIs
  <1>10. ValidInv'
    <2>1. \A q \in Users : pc'[q] \in InUse => pc[q] \in InUse /\ b'[q] = b[q]
      BY <1>0, <1>b
    <2>2. QED BY <1>1, <2>1 DEF ValidInv
  <1>11. NoLostWakeup'
    <2>1. \A q \in Users : pc'[q] = "asleep" => pc[q] = "asleep" /\ b'[q] = b[q]
      BY <1>0, <1>b
    <2>2. QED BY <1>1, <2>1 DEF NoLostWakeup
  <1>12. WrittenInv'
    <2>1. \A q \in Users : pc'[q] = "written" => pc[q] = "written" /\ b'[q] = b[q] /\ blk'[q] = blk[q]
      BY <1>0, <1>b
    <2>2. QED BY <1>1, <2>1 DEF WrittenInv
  <1>13. QED BY <1>2, <1>3, <1>4, <1>5, <1>6, <1>7, <1>8, <1>9, <1>10, <1>11, <1>12, PartsPrime

-----------------------------------------------------------------------------
(* The invariant holds at first and in every step.                         *)

\* binit() takes each buffer once.
LEMMA BinitOnce ==
  /\ \A i \in 1..NBUF : binitOrder[i] \in Bufs
  /\ \A i, j \in 1..NBUF : binitOrder[i] = binitOrder[j] => i = j
  /\ \A x \in Bufs : \E i \in 1..NBUF : binitOrder[i] = x
  <1>1. /\ \A i \in 1..NBUF : binitOrder[i] \in Bufs
        /\ \A x \in Bufs : \E i \in 1..NBUF : binitOrder[i] = x
    BY BufAssumption
  <1>2. binitOrder \in Surjection(1..NBUF, Bufs)
    BY <1>1, BufAssumption DEF Surjection
  <1>3. IsFiniteSet(1..NBUF) /\ Cardinality(1..NBUF) = NBUF
    BY NbufType, FS_Interval
  <1>4. binitOrder \in Injection(1..NBUF, Bufs)
    BY <1>2, <1>3, FS_SurjSameCardinalityImpliesInj DEF NBUF
  <1>5. QED BY <1>1, <1>4 DEF Injection, IsInjective

\* The list that binit() leaves: from the back, the order in which it took the
\* buffers.
LEMMA InitRing ==
  ASSUME Init
  PROVE  next \in [Nodes -> Nodes] /\ prev \in [Nodes -> Nodes] /\ RingOf(next, prev)
  <1> DEFINE at(i) == IF i \in 1..NBUF THEN binitOrder[i] ELSE head
             pos(x) == CHOOSE i \in 1..NBUF : binitOrder[i] = x
             R == [k \in 0..(NBUF + 1) |-> at(k)]
  <1>1. NBUF \in Nat /\ NBUF > 0 /\ head \notin Bufs
    BY NbufType, BufAssumption
  <1>2. /\ next = [x \in Nodes |-> IF x = head THEN at(NBUF) ELSE at(pos(x) - 1)]
        /\ prev = [x \in Nodes |-> IF x = head THEN at(1) ELSE at(pos(x) + 1)]
    BY DEF Init, Nodes
  <1>3. ASSUME NEW k \in 1..NBUF PROVE pos(binitOrder[k]) = k
    BY BinitOnce
  <1>4. \A i : at(i) \in Nodes
    BY BinitOnce DEF Nodes
  <1>5. /\ \A k \in 1..NBUF : at(k) = binitOrder[k] /\ at(k) \in Bufs /\ at(k) # head
        /\ at(0) = head /\ at(NBUF + 1) = head
    BY <1>1, BinitOnce
  <1>6. ASSUME NEW k \in 1..NBUF
        PROVE  prev[at(k)] = at(k + 1) /\ next[at(k)] = at(k - 1)
    <2>1. PICK y : y = at(k)
      OBVIOUS
    <2>2. y \in Nodes /\ y # head /\ pos(y) = k
      BY <1>3, <1>5, <2>1 DEF Nodes
    <2> HIDE DEF at, pos
    <2>3. prev[y] = at(pos(y) + 1) /\ next[y] = at(pos(y) - 1)
      BY <1>2, <2>2
    <2>4. QED BY <2>1, <2>2, <2>3
  <1>7. prev[head] = at(1) /\ next[head] = at(NBUF)
    BY <1>2 DEF Nodes
  <1>8. next \in [Nodes -> Nodes] /\ prev \in [Nodes -> Nodes]
    BY <1>2, <1>4
  <1> HIDE DEF at, pos
  <1>9. ASSUME NEW k \in 0..NBUF PROVE prev[at(k)] = at(k + 1) /\ next[at(k + 1)] = at(k)
    <2>1. prev[at(k)] = at(k + 1)
      <3>1. CASE k = 0
        BY <1>5, <1>7, <3>1
      <3>2. CASE k \in 1..NBUF
        BY <1>6, <3>2
      <3>3. QED BY <3>1, <3>2
    <2>2. next[at(k + 1)] = at(k)
      <3>1. CASE k = NBUF
        BY <1>5, <1>7, <3>1
      <3>2. CASE k + 1 \in 1..NBUF
        <4>1. next[at(k + 1)] = at((k + 1) - 1) /\ (k + 1) - 1 = k
          BY <1>6, <3>2
        <4>2. QED BY <4>1
      <3>3. QED BY <1>1, <3>1, <3>2
    <2>3. QED BY <2>1, <2>2
  <1>10. Walk(prev, R, NBUF + 1)
    <2>1. R \in [0..(NBUF + 1) -> Nodes] /\ R[0] = head
      BY <1>1, <1>4, <1>5
    <2>2. ASSUME NEW k \in 1..(NBUF + 1) PROVE R[k] = prev[R[k - 1]]
      <3>1. k - 1 \in 0..NBUF /\ (k - 1) + 1 = k /\ k - 1 \in 0..(NBUF + 1) /\ k \in 0..(NBUF + 1)
        BY <1>1
      <3>2. R[k] = at(k) /\ R[k - 1] = at(k - 1)
        BY <3>1
      <3>3. prev[at(k - 1)] = at((k - 1) + 1)
        BY <1>9, <3>1
      <3>4. QED BY <3>1, <3>2, <3>3
    <2>3. QED BY <2>1, <2>2 DEF Walk
  <1>11. {R[k] : k \in 1..NBUF} = Bufs /\ R[NBUF + 1] = head
    <2>1. \A k \in 1..NBUF : R[k] = binitOrder[k]
      BY <1>1, <1>5
    <2>2. QED BY <1>1, <1>5, <2>1, BinitOnce
  <1>12. ASSUME NEW x \in Nodes PROVE next[prev[x]] = x
    <2>1. PICK k \in 0..NBUF : x = at(k)
      <3>1. CASE x = head
        BY <1>1, <1>5, <3>1
      <3>2. CASE x \in Bufs
        <4>1. PICK k \in 1..NBUF : binitOrder[k] = x
          BY <3>2, BinitOnce
        <4>2. k \in 0..NBUF /\ x = at(k)
          BY <1>1, <1>5, <4>1
        <4>3. QED BY <4>2
      <3>3. QED BY <3>1, <3>2 DEF Nodes
    <2>2. QED BY <1>9, <2>1
  <1> HIDE DEF R
  <1>13. RingOf(next, prev)
    BY <1>8, <1>10, <1>11, <1>12, RingByWalk
  <1>14. QED BY <1>8, <1>13

LEMMA InitInv == Init => IInv
  <1> SUFFICES ASSUME Init PROVE IInv
    OBVIOUS
  <1>1. next \in [Nodes -> Nodes] /\ prev \in [Nodes -> Nodes] /\ Ring
    BY InitRing, RingIs
  <1>2. \A u \in Users : pc[u] = "idle"
    BY DEF Init
  <1>3. \A x \in Bufs : Refs(x) = {}
    BY <1>2 DEF Refs, Referencing, InUse
  <1>4. CountInv
    <2>1. \A x \in Bufs : refcnt[x] = 0 /\ x \notin pinned
      BY DEF Init
    <2>2. Cardinality({}) = 0
      BY FS_EmptySet
    <2>3. QED BY <1>3, <2>1, <2>2 DEF CountInv
  <1>5. TypeOK
    <2>1. /\ next \in [Bufs \cup {head} -> Bufs \cup {head}]
          /\ prev \in [Bufs \cup {head} -> Bufs \cup {head}]
      BY <1>1 DEF Nodes
    <2>2. (CHOOSE v \in Vals : TRUE) \in Vals
      BY BufAssumption
    <2>3. QED BY <2>1, <2>2 DEF Init, TypeOK
  <1>6. OneBuffer /\ CleanInv /\ ValidInv /\ LocksHeld
    BY <1>2 DEF Init, OneBuffer, CleanInv, ValidInv, LocksHeld, InUse
  <1>7. BlockInv /\ NoLostWakeup /\ WrittenInv
    BY <1>2 DEF BlockInv, NoLostWakeup, WrittenInv, Referencing, InUse
  <1>8. HolderInv
    <2>1. \A x \in Bufs : holder[x] = Nobody
      BY DEF Init
    <2>2. QED BY <1>2, <2>1, BufAssumption DEF HolderInv, InUse
  <1>9. QED BY <1>1, <1>4, <1>5, <1>6, <1>7, <1>8, Parts

LEMMA StepInv == IInv /\ [Next]_vars => IInv'
  <1> SUFFICES ASSUME IInv, [Next]_vars PROVE IInv'
    OBVIOUS
  <1>1. CASE UNCHANGED vars
    <2>1. /\ TypeOK /\ OneBuffer /\ BlockInv /\ CountInv /\ HolderInv /\ CleanInv /\ LocksHeld
          /\ Ring /\ ValidInv /\ NoLostWakeup /\ WrittenInv
      BY Parts
    <2> USE <1>1 DEF vars, meta, list
    <2>2. TypeOK' /\ OneBuffer' /\ BlockInv' /\ HolderInv'
      BY <2>1 DEF TypeOK, OneBuffer, BlockInv, HolderInv
    <2>3. CleanInv' /\ LocksHeld' /\ ValidInv' /\ NoLostWakeup' /\ WrittenInv'
      BY <2>1 DEF CleanInv, LocksHeld, ValidInv, NoLostWakeup, WrittenInv
    <2>4. CountInv' /\ Ring'
      BY <2>1, KeepCount, KeepRing
    <2>5. QED BY <2>2, <2>3, <2>4, PartsPrime
  <1>2. CASE Next
    <2>1. PICK u \in Users : \/ acquiresleep(u) \/ bread(u) \/ bwrite(u) \/ bpin(u) \/ bunpin(u)
                             \/ releasesleep(u) \/ brelse(u)
                             \/ \E n \in Blocks : bget(u, n)
                             \/ \E v \in Vals : Modify(u, v)
      BY <1>2 DEF Next
    <2>2. CASE acquiresleep(u) BY <2>2, AcquiresleepInv
    <2>3. CASE bread(u) BY <2>3, BreadInv
    <2>4. CASE bwrite(u) BY <2>4, BwriteInv
    <2>5. CASE bpin(u) BY <2>5, BpinInv
    <2>6. CASE bunpin(u) BY <2>6, BunpinInv
    <2>7. CASE releasesleep(u) BY <2>7, ReleasesleepInv
    <2>8. CASE brelse(u) BY <2>8, BrelseInv
    <2>9. CASE \E n \in Blocks : bget(u, n)
      <3>1. PICK n \in Blocks : bget(u, n)
        BY <2>9
      <3>2. QED BY <3>1, BgetCases, BgetHitInv, BgetRecycleInv, BgetPanicInv
    <2>10. CASE \E v \in Vals : Modify(u, v) BY <2>10, ModifyInv
    <2>11. QED
      BY <2>1, <2>2, <2>3, <2>4, <2>5, <2>6, <2>7, <2>8, <2>9, <2>10
  <1>3. QED BY <1>1, <1>2

\* Between any two critical sections of bcache.lock and of the sleep-locks a block
\* is in one buffer at most, a buffer somebody refers to is not recycled, a clean
\* buffer agrees with the disk, and the list is a ring through all the buffers,
\* for any number of buffers, users and blocks.
THEOREM CacheSafety == Spec => []CacheInv
  <1>1. Spec => []IInv
    BY InitInv, StepInv, PTL DEF Spec
  <1>2. IInv => CacheInv
    BY DEF IInv
  <1>3. QED BY <1>1, <1>2, PTL

\* Nobody sleeps for a sleep-lock that nobody holds: releasesleep() wakes every
\* sleeper of the lock.
THEOREM CacheNoLostWakeup == Spec => []NoLostWakeup
  <1>1. Spec => []IInv
    BY InitInv, StepInv, PTL DEF Spec
  <1>2. IInv => NoLostWakeup
    BY DEF IInv
  <1>3. QED BY <1>1, <1>2, PTL

-----------------------------------------------------------------------------
(* The order of use.                                                       *)

\* Order, for any prev pointers.
OrderOf(pv) == [k \in 1..NBUF |-> BackOf(pv)[NBUF + 1 - k]]

LEMMA OrderIs == Order = OrderOf(prev) /\ Order' = OrderOf(prev')
  BY BackIs DEF Order, OrderOf

\* A rotation of the list moves one buffer to the front of the order.
LEMMA RotatedMoves ==
  ASSUME TypeOK, Ring, NEW i \in 1..NBUF, BackOf(prev') = Rotated(BackOf(prev), i)
  PROVE  Order' = Moved(Back[i])
  <1>1. NBUF \in Nat /\ NBUF > 0
    BY NbufType
  <1>2. PICK B : B = BackOf(prev)
    OBVIOUS
  <1>3. PICK R : R = Rotated(B, i)
    OBVIOUS
  <1>15. R = BackOf(prev')
    BY <1>2, <1>3
  <1>4. prev \in [Nodes -> Nodes] /\ RingOf(next, prev)
    BY RingIs DEF TypeOK, Nodes
  <1>5. \A j, k \in 1..NBUF : B[j] = B[k] => j = k
    BY <1>2, <1>4, RingInjective
  <1>6. Order = [k \in 1..NBUF |-> B[NBUF + 1 - k]] /\ Order' = [k \in 1..NBUF |-> R[NBUF + 1 - k]]
    BY <1>2, <1>15, OrderIs DEF OrderOf
  <1>7. /\ \A k \in 0..(i - 1) : R[k] = B[k]
        /\ \A k \in i..(NBUF - 1) : R[k] = B[k + 1]
        /\ R[NBUF] = B[i]
    BY <1>3, RotatedAt
  <1>8. PICK x : x = B[i]
    OBVIOUS
  <1>9. PICK c : c = CHOOSE k \in 1..NBUF : Order[k] = x
    OBVIOUS
  <1>10. c = NBUF + 1 - i
    <2>1. NBUF + 1 - i \in 1..NBUF /\ NBUF + 1 - (NBUF + 1 - i) = i
      BY <1>1
    <2>2. Order[NBUF + 1 - i] = x
      BY <1>6, <1>8, <2>1
    <2>3. c \in 1..NBUF /\ Order[c] = x
      BY <1>9, <2>1, <2>2
    <2>4. NBUF + 1 - c \in 1..NBUF /\ B[NBUF + 1 - c] = B[i]
      BY <1>1, <1>6, <1>8, <2>3
    <2>5. NBUF + 1 - c = i
      BY <1>5, <2>4
    <2>6. QED BY <1>1, <2>3, <2>5
  <1>11. Moved(x) = [k \in 1..NBUF |->
                       IF k = 1 THEN x ELSE IF k <= c THEN Order[k - 1] ELSE Order[k]]
    BY <1>9 DEF Moved
  <1>12. ASSUME NEW k \in 1..NBUF
         PROVE  R[NBUF + 1 - k] = IF k = 1 THEN x ELSE IF k <= c THEN Order[k - 1] ELSE Order[k]
    <2>1. CASE k = 1
      <3>1. NBUF + 1 - k = NBUF
        BY <1>1, <2>1
      <3>2. QED BY <1>7, <1>8, <2>1, <3>1
    <2>2. CASE k # 1 /\ k <= c
      <3>1. /\ NBUF + 1 - k \in i..(NBUF - 1) /\ (NBUF + 1 - k) + 1 = NBUF + 1 - (k - 1)
            /\ k - 1 \in 1..NBUF
        BY <1>1, <1>10, <2>2
      <3>2. R[NBUF + 1 - k] = B[(NBUF + 1 - k) + 1]
        BY <1>7, <3>1
      <3>3. Order[k - 1] = B[NBUF + 1 - (k - 1)]
        BY <1>6, <3>1
      <3>4. QED BY <2>2, <3>1, <3>2, <3>3
    <2>3. CASE k # 1 /\ ~(k <= c)
      <3>1. NBUF + 1 - k \in 0..(i - 1)
        BY <1>1, <1>10, <2>3
      <3>2. R[NBUF + 1 - k] = B[NBUF + 1 - k]
        BY <1>7, <3>1
      <3>3. Order[k] = B[NBUF + 1 - k]
        BY <1>6
      <3>4. QED BY <2>3, <3>2, <3>3
    <2>4. QED BY <2>1, <2>2, <2>3
  <1>13. Order' = Moved(x)
    BY <1>6, <1>11, <1>12
  <1>14. QED BY <1>2, <1>8, <1>13, BackIs

\* The list changes in brelse() only, with the last reference.
LEMMA StepOrder ==
  ASSUME IInv, Next
  PROVE  Order' = Order \/ \E x \in Bufs : refcnt'[x] = 0 /\ Order' = Moved(x)
  <1>1. TypeOK /\ Ring /\ BlockInv
    BY Parts
  <1>2. PICK u \in Users : \/ acquiresleep(u) \/ bread(u) \/ bwrite(u) \/ bpin(u) \/ bunpin(u)
                           \/ releasesleep(u) \/ brelse(u)
                           \/ \E n \in Blocks : bget(u, n)
                           \/ \E v \in Vals : Modify(u, v)
    BY DEF Next
  <1>3. CASE brelse(u) /\ refcnt[b[u]] = 1
    <2>1. b[u] \in Bufs
      BY <1>1, <1>3 DEF BlockInv, brelse, Referencing
    <2>2. MoveToFront(b[u])
      BY <1>3 DEF brelse
    <2>3. PICK i \in 1..NBUF : Back[i] = b[u] /\ BackOf(prev') = Rotated(BackOf(prev), i)
      BY <1>1, <2>1, <2>2, BrelseMoves
    <2>4. Order' = Moved(b[u])
      BY <1>1, <2>3, RotatedMoves
    <2>5. refcnt'[b[u]] = 0
      BY <1>1, <1>3, <2>1 DEF brelse, TypeOK
    <2>6. QED BY <2>1, <2>4, <2>5
  <1>4. CASE ~(brelse(u) /\ refcnt[b[u]] = 1)
    <2>1. prev' = prev
      <3>1. CASE acquiresleep(u) \/ bread(u) \/ bwrite(u) \/ bpin(u) \/ bunpin(u)
        BY <3>1 DEF acquiresleep, bread, bwrite, bpin, bunpin, meta, list
      <3>2. CASE releasesleep(u) \/ brelse(u)
        BY <1>4, <3>2 DEF releasesleep, brelse, meta, list
      <3>3. CASE (\E n \in Blocks : bget(u, n)) \/ \E v \in Vals : Modify(u, v)
        BY <3>3 DEF bget, Modify, meta, list
      <3>4. QED BY <1>2, <3>1, <3>2, <3>3
    <2>2. QED BY <2>1, OrderIs
  <1>5. QED BY <1>3, <1>4

\* Releasing the last reference to a buffer moves it to the front of the list and
\* leaves the order of the others as it is; nothing else changes the order, so that
\* bget() recycles the buffer that has been free for the longest time.
THEOREM CacheLru == Spec => LruOrder
  <1> DEFINE Lru == Order' = Order \/ \E x \in Bufs : refcnt'[x] = 0 /\ Order' = Moved(x)
  <1>1. Spec => []IInv
    BY InitInv, StepInv, PTL DEF Spec
  <1>2. IInv /\ [Next]_vars => [Lru]_vars
    BY StepOrder
  <1> HIDE DEF Lru
  <1>3. Spec => [][Lru]_vars
    BY <1>1, <1>2, PTL DEF Spec
  <1>4. QED BY <1>3 DEF LruOrder, Lru

-----------------------------------------------------------------------------
(* The refinement of BlockStore.                                           *)

\* Content and User, for any values of the variables.
ContentOf(bn, vl, dt, dk) ==
  [n \in Blocks |-> IF \E x \in Bufs : bn[x] = n /\ vl[x] = 1
                      THEN dt[CHOOSE x \in Bufs : bn[x] = n] ELSE dk[n]]
UserOf(at, bk) ==
  [n \in Blocks |-> IF \E u \in Users : at[u] \in InUse /\ bk[u] = n
                      THEN CHOOSE u \in Users : at[u] \in InUse /\ bk[u] = n ELSE Nobody]

LEMMA StoreIs ==
  /\ Content = ContentOf(blockno, valid, data, disk) /\ User = UserOf(pc, blk)
  /\ Content' = ContentOf(blockno', valid', data', disk') /\ User' = UserOf(pc', blk')
  BY DEF Content, User, ContentOf, UserOf

\* The content of a block is in its valid buffer, or else on the disk.
LEMMA ContentAt ==
  ASSUME NEW bn, NEW vl, NEW dt, NEW dk, NEW n \in Blocks,
         \A x, y \in Bufs : bn[x] = bn[y] /\ bn[x] # NoBlock => x = y
  PROVE  /\ \A x \in Bufs : bn[x] = n /\ vl[x] = 1 => ContentOf(bn, vl, dt, dk)[n] = dt[x]
         /\ (\A x \in Bufs : ~(bn[x] = n /\ vl[x] = 1)) => ContentOf(bn, vl, dt, dk)[n] = dk[n]
  <1>1. n # NoBlock
    BY BufAssumption
  <1>2. ASSUME NEW x \in Bufs, bn[x] = n, vl[x] = 1
        PROVE  ContentOf(bn, vl, dt, dk)[n] = dt[x]
    <2>1. PICK c : c = CHOOSE y \in Bufs : bn[y] = n
      OBVIOUS
    <2>2. c \in Bufs /\ bn[c] = n
      BY <1>2, <2>1
    <2>3. c = x
      BY <1>1, <1>2, <2>2
    <2>4. QED BY <1>2, <2>1, <2>3 DEF ContentOf
  <1>3. ASSUME \A x \in Bufs : ~(bn[x] = n /\ vl[x] = 1)
        PROVE  ContentOf(bn, vl, dt, dk)[n] = dk[n]
    BY <1>3 DEF ContentOf
  <1>4. QED BY <1>2, <1>3

\* The same of the current state, and of the next.
Found(n, x) == blockno[x] = n /\ valid[x] = 1

LEMMA ContentNow ==
  ASSUME OneBuffer, NEW n \in Blocks
  PROVE  /\ \A x \in Bufs : Found(n, x) => Content[n] = data[x]
         /\ (\A x \in Bufs : ~Found(n, x)) => Content[n] = disk[n]
  BY ContentAt, StoreIs DEF OneBuffer, Found

LEMMA ContentNext ==
  ASSUME OneBuffer', NEW n \in Blocks
  PROVE  /\ \A x \in Bufs : Found(n, x)' => Content'[n] = data'[x]
         /\ (\A x \in Bufs : ~Found(n, x)') => Content'[n] = disk'[n]
  <1>1. \A x, y \in Bufs : blockno'[x] = blockno'[y] /\ blockno'[x] # NoBlock => x = y
    BY DEF OneBuffer
  <1>2. /\ \A x \in Bufs : blockno'[x] = n /\ valid'[x] = 1
                             => ContentOf(blockno', valid', data', disk')[n] = data'[x]
        /\ (\A x \in Bufs : ~(blockno'[x] = n /\ valid'[x] = 1))
             => ContentOf(blockno', valid', data', disk')[n] = disk'[n]
    BY <1>1, ContentAt
  <1>3. QED BY <1>2, StoreIs DEF Found

\* Contents are the same when they are the same block by block.
LEMMA ContentEqual ==
  ASSUME \A n \in Blocks : Content'[n] = Content[n]
  PROVE  Content' = Content
  BY DEF Content

\* Steps that touch none of it.
LEMMA KeepContent ==
  ASSUME UNCHANGED <<blockno, valid, data, disk>>
  PROVE  Content' = Content
  BY StoreIs

LEMMA KeepUser ==
  ASSUME \A q \in Users : /\ pc'[q] \in InUse <=> pc[q] \in InUse
                          /\ pc[q] \in InUse => blk'[q] = blk[q]
  PROVE  User' = User
  <1>1. ASSUME NEW n \in Blocks, NEW q \in Users
        PROVE  (pc'[q] \in InUse /\ blk'[q] = n) <=> (pc[q] \in InUse /\ blk[q] = n)
    OBVIOUS
  <1>2. QED BY <1>1 DEF User

\* The user of a block, and nobody otherwise.
LEMMA UserAt ==
  ASSUME NEW at, NEW bk, NEW n \in Blocks,
         \A q, r \in Users : at[q] \in InUse /\ at[r] \in InUse /\ bk[q] = n /\ bk[r] = n => q = r
  PROVE  /\ \A q \in Users : at[q] \in InUse /\ bk[q] = n => UserOf(at, bk)[n] = q
         /\ (\A q \in Users : ~(at[q] \in InUse /\ bk[q] = n)) => UserOf(at, bk)[n] = Nobody
  <1>1. ASSUME NEW q \in Users, at[q] \in InUse, bk[q] = n
        PROVE  UserOf(at, bk)[n] = q
    <2>1. PICK c : c = CHOOSE r \in Users : at[r] \in InUse /\ bk[r] = n
      OBVIOUS
    <2>2. c \in Users /\ at[c] \in InUse /\ bk[c] = n
      BY <1>1, <2>1
    <2>3. c = q
      BY <1>1, <2>2
    <2>4. QED BY <1>1, <2>1, <2>3 DEF UserOf
  <1>2. ASSUME \A q \in Users : ~(at[q] \in InUse /\ bk[q] = n)
        PROVE  UserOf(at, bk)[n] = Nobody
    BY <1>2 DEF UserOf
  <1>3. QED BY <1>1, <1>2

\* Two users of a block would hold one sleep-lock.
LEMMA OneUser ==
  ASSUME IInv, NEW q \in Users, NEW r \in Users, pc[q] \in InUse \cup {"locked"},
         pc[r] \in InUse \cup {"locked"}, blk[q] = blk[r]
  PROVE  q = r
  <1>1. BlockInv /\ HolderInv /\ OneBuffer
    BY Parts
  <1>2. /\ b[q] \in Bufs /\ blk[q] \in Blocks /\ blockno[b[q]] = blk[q]
        /\ b[r] \in Bufs /\ blockno[b[r]] = blk[r]
        /\ holder[b[q]] = q /\ holder[b[r]] = r
    BY <1>1, HoldsLock
  <1>3. b[q] = b[r]
    BY <1>1, <1>2, BufAssumption DEF OneBuffer
  <1>4. QED BY <1>2, <1>3

\* User in the current state.
LEMMA UserNow ==
  ASSUME IInv, NEW n \in Blocks
  PROVE  /\ \A q \in Users : pc[q] \in InUse /\ blk[q] = n => User[n] = q
         /\ (\A q \in Users : ~(pc[q] \in InUse /\ blk[q] = n)) => User[n] = Nobody
  <1>1. \A q, r \in Users : pc[q] \in InUse /\ pc[r] \in InUse /\ blk[q] = n /\ blk[r] = n => q = r
    BY OneUser
  <1>2. QED BY <1>1, UserAt, StoreIs

\* A user takes a block, gives it back.
LEMMA UserStep ==
  ASSUME IInv, IInv', NEW u \in Users, blk[u] \in Blocks, UNCHANGED blk, NEW w,
         \A q \in Users \ {u} : pc'[q] \in InUse <=> pc[q] \in InUse,
         \/ pc[u] = "locked" /\ pc'[u] \in InUse /\ w = u
         \/ pc[u] \in InUse /\ pc'[u] \notin InUse /\ w = Nobody
  PROVE  User' = [User EXCEPT ![blk[u]] = w]
  <1>1. \A q \in Users : pc[q] \in InUse /\ blk[q] = blk[u] => q = u
    BY OneUser
  <1>2. ASSUME NEW n \in Blocks, n # blk[u]
        PROVE  UserOf(pc', blk')[n] = UserOf(pc, blk)[n]
    <2>1. \A q \in Users : (pc'[q] \in InUse /\ blk'[q] = n) <=> (pc[q] \in InUse /\ blk[q] = n)
      BY <1>2
    <2>2. QED BY <2>1 DEF UserOf
  <1>3. UserOf(pc', blk')[blk[u]] = w
    <2>1. \A q, r \in Users : pc'[q] \in InUse /\ pc'[r] \in InUse
                              /\ blk'[q] = blk[u] /\ blk'[r] = blk[u] => q = r
      BY <1>1
    <2>2. CASE pc'[u] \in InUse /\ w = u
      BY <2>1, <2>2, UserAt
    <2>3. CASE pc'[u] \notin InUse /\ w = Nobody
      <3>1. \A q \in Users : ~(pc'[q] \in InUse /\ blk'[q] = blk[u])
        BY <1>1, <2>3
      <3>2. QED BY <2>1, <2>3, <3>1, UserAt
    <2>4. QED BY <2>2, <2>3
  <1>4. UserOf(pc', blk') = [UserOf(pc, blk) EXCEPT ![blk[u]] = w]
    <2>1. PICK f, g : f = UserOf(pc, blk) /\ g = UserOf(pc', blk')
      OBVIOUS
    <2>2. f = [n \in Blocks |-> f[n]] /\ g = [n \in Blocks |-> g[n]]
      BY <2>1 DEF UserOf
    <2>3. g = [f EXCEPT ![blk[u]] = w]
      BY <1>2, <1>3, <2>1, <2>2
    <2>4. QED BY <2>1, <2>3
  <1>5. QED BY <1>4, StoreIs

\* bread() takes the block: what it finds or reads is the content.
LEMMA BreadStep ==
  ASSUME IInv, IInv', NEW u \in Users, bread(u)
  PROVE  Store!Take(u, blk[u])
  <1> USE DEF bread, meta
  <1>1. TypeOK /\ OneBuffer /\ BlockInv /\ HolderInv /\ OneBuffer'
    BY Parts DEF IInv, CacheInv
  <1>2. /\ b[u] \in Bufs /\ blk[u] \in Blocks /\ blockno[b[u]] = blk[u]
    BY <1>1, HoldsLock
  <1>3. pc'[u] = "held" /\ \A q \in Users \ {u} : pc'[q] = pc[q]
    BY <1>1, GotoAt
  <1>4. User[blk[u]] = Nobody
    <2>1. \A q \in Users : ~(pc[q] \in InUse /\ blk[q] = blk[u])
      BY OneUser DEF InUse
    <2>2. QED BY <1>2, <2>1, UserNow
  <1>5. User' = [User EXCEPT ![blk[u]] = u]
    <2>1. pc[u] = "locked" /\ pc'[u] \in InUse
      BY <1>3 DEF InUse
    <2>2. QED BY <1>2, <1>3, <2>1, UserStep
  <1>6. ASSUME NEW n \in Blocks PROVE Content'[n] = Content[n]
    <2>1. /\ valid'[b[u]] = 1 /\ \A x \in Bufs : x # b[u] => valid'[x] = valid[x] /\ data'[x] = data[x]
          /\ data'[b[u]] = IF valid[b[u]] = 0 THEN disk[blk[u]] ELSE data[b[u]]
          /\ valid[b[u]] \in {0, 1}
      BY <1>1, <1>2 DEF TypeOK
    <2>2. CASE n = blk[u]
      <3>1. Content'[n] = data'[b[u]]
        BY <1>1, <1>2, <2>1, <2>2, ContentNext DEF Found
      <3>2. CASE valid[b[u]] = 1
        BY <1>1, <1>2, <2>1, <2>2, <3>1, <3>2, ContentNow DEF Found
      <3>3. CASE valid[b[u]] = 0
        <4>1. \A x \in Bufs : ~Found(n, x)
          <5>1. SUFFICES ASSUME NEW x \in Bufs, Found(n, x) PROVE FALSE
            OBVIOUS
          <5>2. blockno[x] = blockno[b[u]] /\ blockno[x] # NoBlock /\ valid[x] = 1
            BY <1>2, <2>2, <5>1, BufAssumption DEF Found
          <5>3. x = b[u]
            BY <1>1, <1>2, <5>2 DEF OneBuffer
          <5>4. QED BY <3>3, <5>2, <5>3
        <4>2. QED BY <1>1, <2>1, <2>2, <3>1, <3>3, <4>1, ContentNow
      <3>4. QED BY <2>1, <3>2, <3>3
    <2>3. CASE n # blk[u]
      <3>1. \A x \in Bufs : Found(n, x)' <=> Found(n, x)
        BY <1>2, <2>1, <2>3 DEF Found
      <3>2. CASE \E x \in Bufs : Found(n, x)
        <4>1. PICK x \in Bufs : Found(n, x)
          BY <3>2
        <4>2. x # b[u]
          BY <1>2, <2>3, <4>1 DEF Found
        <4>3. QED BY <1>1, <2>1, <3>1, <4>1, <4>2, ContentNow, ContentNext
      <3>3. CASE \A x \in Bufs : ~Found(n, x)
        BY <1>1, <3>1, <3>3, ContentNow, ContentNext
      <3>4. QED BY <3>2, <3>3
    <2>4. QED BY <2>2, <2>3
  <1>7. QED BY <1>4, <1>5, <1>6, ContentEqual DEF Store!Take

\* A change to the buffer is a change of the block's content.
LEMMA ModifyStep ==
  ASSUME IInv, IInv', NEW u \in Users, NEW v \in Vals, Modify(u, v)
  PROVE  Store!Write(u, blk[u], v)
  <1> USE DEF Modify, meta
  <1>1. TypeOK /\ OneBuffer /\ BlockInv /\ HolderInv /\ ValidInv /\ OneBuffer'
    BY Parts DEF IInv, CacheInv
  <1>2. b[u] \in Bufs /\ blk[u] \in Blocks /\ blockno[b[u]] = blk[u] /\ valid[b[u]] = 1
    BY <1>1, HoldsLock DEF InUse, ValidInv
  <1>3. pc'[u] = "dirty" /\ \A q \in Users \ {u} : pc'[q] = pc[q]
    BY <1>1, GotoAt
  <1>4. User[blk[u]] = u
    BY <1>2, UserNow DEF InUse
  <1>5. User' = User
    BY <1>3, KeepUser DEF InUse
  <1>6. data'[b[u]] = v /\ \A x \in Bufs : x # b[u] => data'[x] = data[x]
    BY <1>1, <1>2 DEF TypeOK
  <1>7. \A n \in Blocks, x \in Bufs : Found(n, x)' <=> Found(n, x)
    BY DEF Found
  <1>8. Content'[blk[u]] = v
    BY <1>1, <1>2, <1>6, <1>7, ContentNext DEF Found
  <1>9. ASSUME NEW n \in Blocks, n # blk[u] PROVE Content'[n] = Content[n]
    <2>1. CASE \E x \in Bufs : Found(n, x)
      <3>1. PICK x \in Bufs : Found(n, x)
        BY <2>1
      <3>2. x # b[u]
        BY <1>2, <1>9, <3>1 DEF Found
      <3>3. QED BY <1>1, <1>6, <1>7, <3>1, <3>2, ContentNow, ContentNext
    <2>2. CASE \A x \in Bufs : ~Found(n, x)
      BY <1>1, <1>7, <2>2, ContentNow, ContentNext
    <2>3. QED BY <2>1, <2>2
  <1>10. Content' = [Content EXCEPT ![blk[u]] = v]
    <2>1. PICK f, g : f = Content /\ g = Content'
      OBVIOUS
    <2>2. f = [n \in Blocks |-> f[n]] /\ g = [n \in Blocks |-> g[n]]
      BY <2>1 DEF Content
    <2>3. g = [f EXCEPT ![blk[u]] = v]
      BY <1>8, <1>9, <2>1, <2>2
    <2>4. QED BY <2>1, <2>3
  <1>11. QED BY <1>4, <1>5, <1>10 DEF Store!Write

\* releasesleep() gives the block back.
LEMMA ReleasesleepStep ==
  ASSUME IInv, IInv', NEW u \in Users, releasesleep(u)
  PROVE  Store!Give(u, blk[u])
  <1>1. TypeOK /\ BlockInv /\ HolderInv
    BY Parts
  <1>2. pc[u] \in InUse /\ b[u] \in Bufs /\ blk[u] \in Blocks /\ holder[b[u]] = u
    BY <1>1, HoldsLock DEF releasesleep, InUse
  <1>3. /\ pc' = [Woken(b[u]) EXCEPT ![u] = "unref"]
        /\ UNCHANGED <<blockno, valid, data, disk, blk>>
    BY <1>2 DEF releasesleep, Holding, meta
  <1>4. pc'[u] = "unref" /\ \A q \in Users \ {u} : pc'[q] \in InUse <=> pc[q] \in InUse
    BY <1>1, <1>3 DEF Woken, InUse, TypeOK
  <1>5. User[blk[u]] = u
    BY <1>2, UserNow
  <1>6. User' = [User EXCEPT ![blk[u]] = Nobody]
    <2>1. pc'[u] \notin InUse
      BY <1>4 DEF InUse
    <2>2. QED BY <1>2, <1>3, <1>4, <2>1, UserStep
  <1>7. Content' = Content
    BY <1>3, KeepContent
  <1>8. QED BY <1>5, <1>6, <1>7 DEF Store!Give

\* bwrite() changes the disk below a buffer that is valid.
LEMMA BwriteStep ==
  ASSUME IInv, IInv', NEW u \in Users, bwrite(u)
  PROVE  UNCHANGED <<Content, User>>
  <1>1. TypeOK /\ OneBuffer /\ BlockInv /\ HolderInv /\ ValidInv /\ OneBuffer'
    BY Parts DEF IInv, CacheInv
  <1>2. /\ pc[u] \in InUse /\ b[u] \in Bufs /\ blk[u] \in Blocks /\ blockno[b[u]] = blk[u]
        /\ holder[b[u]] = u /\ valid[b[u]] = 1
    <2>1. pc[u] \in InUse
      BY DEF bwrite, InUse
    <2>2. QED BY <1>1, <2>1, HoldsLock DEF ValidInv
  <1>3. /\ disk' = [disk EXCEPT ![blk[u]] = data[b[u]]] /\ Goto(u, "written")
        /\ UNCHANGED <<blockno, valid, data, blk>>
    BY <1>2 DEF bwrite, Holding, meta
  <1>4. User' = User
    <2>1. pc'[u] = "written" /\ \A q \in Users \ {u} : pc'[q] = pc[q]
      BY <1>1, <1>3, GotoAt
    <2>2. QED BY <1>2, <1>3, <2>1, KeepUser DEF InUse
  <1>5. \A n \in Blocks, x \in Bufs : Found(n, x)' <=> Found(n, x)
    BY <1>3 DEF Found
  <1>6. ASSUME NEW n \in Blocks PROVE Content'[n] = Content[n]
    <2>1. CASE \E x \in Bufs : Found(n, x)
      BY <1>1, <1>3, <1>5, <2>1, ContentNow, ContentNext
    <2>2. CASE \A x \in Bufs : ~Found(n, x)
      <3>1. n # blk[u]
        BY <1>2, <2>2 DEF Found
      <3>2. disk'[n] = disk[n]
        BY <1>1, <1>3, <3>1 DEF TypeOK
      <3>3. QED BY <1>1, <1>5, <2>2, <3>2, ContentNow, ContentNext
    <2>3. QED BY <2>1, <2>2
  <1>7. QED BY <1>4, <1>6, ContentEqual

\* The block that was in the recycled buffer is on the disk.
LEMMA RecycleStep ==
  ASSUME IInv, IInv', NEW u \in Users, NEW n \in Blocks, BgetRecycle(u, n)
  PROVE  UNCHANGED <<Content, User>>
  <1>1. /\ TypeOK /\ OneBuffer /\ CountInv /\ CleanInv /\ Ring /\ OneBuffer'
    BY Parts DEF IInv, CacheInv
  <1>2. PICK y : y = LeastRecent
    OBVIOUS
  <1>3. /\ y \in Bufs /\ refcnt[y] = 0 /\ pc[u] = "idle" /\ Goto(u, "lock")
        /\ blk' = [blk EXCEPT ![u] = n] /\ UNCHANGED <<data, disk>>
        /\ blockno' = [blockno EXCEPT ![y] = n] /\ valid' = [valid EXCEPT ![y] = 0]
    BY <1>1, <1>2, LeastRecentUnused DEF BgetRecycle, Reference
  <1>4. /\ blockno'[y] = n /\ \A x \in Bufs \ {y} : blockno'[x] = blockno[x]
        /\ valid'[y] = 0 /\ \A x \in Bufs \ {y} : valid'[x] = valid[x]
    BY <1>1, <1>3 DEF TypeOK
  <1>5. User' = User
    <2>1. pc'[u] = "lock" /\ \A q \in Users \ {u} : pc'[q] = pc[q] /\ blk'[q] = blk[q]
      BY <1>1, <1>3, GotoAt DEF TypeOK
    <2>2. QED BY <1>3, <2>1, KeepUser DEF InUse
  <1>6. y \notin pinned /\ \A q \in Users : pc[q] \in Referencing => b[q] # y
    BY <1>1, <1>3, UnusedFree
  <1>7. valid[y] = 1 => data[y] = disk[blockno[y]]
    BY <1>1, <1>3, <1>6 DEF CleanInv, Referencing, InUse
  <1>8. ASSUME NEW m \in Blocks PROVE Content'[m] = Content[m]
    <2>1. ~Found(m, y)' /\ \A x \in Bufs \ {y} : Found(m, x)' <=> Found(m, x)
      BY <1>4 DEF Found
    <2>2. CASE \E x \in Bufs \ {y} : Found(m, x)
      BY <1>1, <1>3, <2>1, <2>2, ContentNow, ContentNext
    <2>3. CASE \A x \in Bufs \ {y} : ~Found(m, x)
      <3>1. Content'[m] = disk[m]
        BY <1>1, <1>3, <2>1, <2>3, ContentNext
      <3>2. CASE Found(m, y)
        BY <1>1, <1>3, <1>7, <3>1, <3>2, ContentNow DEF Found
      <3>3. CASE ~Found(m, y)
        BY <1>1, <2>3, <3>1, <3>3, ContentNow
      <3>4. QED BY <3>2, <3>3
    <2>4. QED BY <2>2, <2>3
  <1>9. QED BY <1>5, <1>8, ContentEqual

\* What else a process does before and after it uses the block is not seen.
LEMMA OtherStep ==
  ASSUME IInv, NEW u \in Users,
         \/ acquiresleep(u) \/ bpin(u) \/ bunpin(u) \/ brelse(u)
         \/ \E n \in Blocks : BgetHit(u, n) \/ BgetPanic(u, n)
  PROVE  UNCHANGED <<Content, User>>
  <1>1. TypeOK
    BY Parts
  <1>2. Content' = Content
    <2>1. UNCHANGED <<blockno, valid, data, disk>>
      BY DEF acquiresleep, bpin, bunpin, brelse, BgetHit, BgetPanic, meta
    <2>2. QED BY <2>1, KeepContent
  <1>3. CASE acquiresleep(u) \/ bpin(u) \/ bunpin(u)
    <2>1. UNCHANGED blk
      BY <1>3 DEF acquiresleep, bpin, bunpin
    <2>2. \/ /\ pc[u] \in {"lock", "woken"}
             /\ Goto(u, "locked") \/ Goto(u, "asleep")
          \/ pc[u] \in {"dirty", "written"} /\ Goto(u, "held")
      BY <1>3 DEF acquiresleep, bpin, bunpin
    <2>3. \A q \in Users : pc'[q] \in InUse <=> pc[q] \in InUse
      BY <1>1, <2>2, GotoAt DEF InUse
    <2>4. QED BY <1>2, <2>1, <2>3, KeepUser
  <1>4. CASE brelse(u) \/ \E n \in Blocks : BgetHit(u, n)
    <2>1. /\ pc[u] \in {"unref", "idle"} /\ (Goto(u, "idle") \/ Goto(u, "lock"))
          /\ \E n \in Blocks \cup {NoBlock} : blk' = [blk EXCEPT ![u] = n]
      BY <1>4 DEF brelse, BgetHit, Reference
    <2>2. \A q \in Users : /\ pc'[q] \in InUse <=> pc[q] \in InUse
                           /\ pc[q] \in InUse => blk'[q] = blk[q]
      <3>1. pc'[u] \in {"idle", "lock"} /\ \A q \in Users \ {u} : pc'[q] = pc[q]
        BY <1>1, <2>1, GotoAt
      <3>2. \A q \in Users \ {u} : blk'[q] = blk[q]
        BY <1>1, <2>1 DEF TypeOK
      <3>3. QED BY <2>1, <3>1, <3>2 DEF InUse
    <2>3. QED BY <1>2, <2>2, KeepUser
  <1>5. CASE \E n \in Blocks : BgetPanic(u, n)
    BY <1>2, <1>5, KeepUser DEF BgetPanic
  <1>6. QED BY <1>3, <1>4, <1>5

\* The cache refines the store of blocks: however buffers are recycled and blocks
\* read again, a user finds in a block what the user before it left there, and no
\* other user is in it meanwhile.
THEOREM CacheRefinesStore == Spec => OneContent
  <1>1. Spec => []IInv
    BY InitInv, StepInv, PTL DEF Spec
  <1>2. Init => Store!SInit
    <2>1. SUFFICES ASSUME Init PROVE Content \in [Blocks -> Vals] /\ User = [n \in Blocks |-> Nobody]
      BY DEF Store!SInit
    <2>2. \A x \in Bufs : valid[x] = 0
      BY <2>1 DEF Init
    <2>3. \A u \in Users : pc[u] \notin InUse
      BY <2>1 DEF Init, InUse
    <2>4. disk \in [Blocks -> Vals]
      BY <2>1 DEF Init
    <2>5. QED BY <2>2, <2>3, <2>4 DEF Content, User
  <1>3. IInv /\ IInv' /\ [Next]_vars => [Store!SNext]_(Store!svars)
    <2> SUFFICES ASSUME IInv, IInv', [Next]_vars PROVE Store!SNext \/ UNCHANGED <<Content, User>>
      BY DEF Store!svars
    <2>1. CASE UNCHANGED vars
      BY <2>1, StoreIs DEF vars, meta
    <2>2. CASE Next
      <3>1. PICK u \in Users : \/ acquiresleep(u) \/ bread(u) \/ bwrite(u) \/ bpin(u) \/ bunpin(u)
                               \/ releasesleep(u) \/ brelse(u)
                               \/ \E n \in Blocks : bget(u, n)
                               \/ \E v \in Vals : Modify(u, v)
        BY <2>2 DEF Next
      <3>2. \A n : n = blk[u] /\ pc[u] \in InUse \cup {"locked"} => n \in Blocks
        BY Parts, HoldsLock
      <3>3. CASE bread(u)
        <4>1. Store!Take(u, blk[u]) /\ blk[u] \in Blocks
          BY <3>2, <3>3, BreadStep DEF bread
        <4>2. QED BY <4>1 DEF Store!SNext
      <3>4. CASE releasesleep(u)
        <4>1. Store!Give(u, blk[u]) /\ blk[u] \in Blocks
          BY <3>2, <3>4, ReleasesleepStep DEF releasesleep, InUse
        <4>2. QED BY <4>1 DEF Store!SNext
      <3>5. CASE \E v \in Vals : Modify(u, v)
        <4>1. PICK v \in Vals : Modify(u, v)
          BY <3>5
        <4>2. Store!Write(u, blk[u], v) /\ blk[u] \in Blocks
          BY <3>2, <4>1, ModifyStep DEF Modify, InUse
        <4>3. QED BY <4>2 DEF Store!SNext
      <3>6. CASE bwrite(u)
        BY <3>6, BwriteStep
      <3>7. CASE \E n \in Blocks : bget(u, n)
        <4>1. PICK n \in Blocks : bget(u, n)
          BY <3>7
        <4>2. QED BY <4>1, BgetCases, RecycleStep, OtherStep
      <3>8. CASE acquiresleep(u) \/ bpin(u) \/ bunpin(u) \/ brelse(u)
        BY <3>8, OtherStep
      <3>9. QED BY <3>1, <3>3, <3>4, <3>5, <3>6, <3>7, <3>8
    <2>3. QED BY <2>1, <2>2
  <1>4. QED BY <1>1, <1>2, <1>3, PTL DEF Spec, OneContent, Store!SSpec
=============================================================================
