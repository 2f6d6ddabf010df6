----------------------------- MODULE FsProofs -------------------------------
(***************************************************************************)
(* Theorems about Fs, for any number of processes, inodes, names, open     *)
(* files and descriptors.                                                  *)
(*                                                                         *)
(* A system call is a few operations of fs.c one after the other, and the  *)
(* proof follows it: Core() says what is true of tables x between any two  *)
(* of them, there is a lemma for each operation, and the proof of an       *)
(* action is the chain of the lemmas of its operations.  What a call is    *)
(* in the middle of is given to Core() as                                  *)
(*   h, the inode that each place which may hold a reference refers to,    *)
(*   M, the inodes that each process has locked,                           *)
(*   K, the inode whose link count is one too high because of it,          *)
(*   V, the inode it has allocated and not entered anywhere yet,           *)
(*   Q, the entries it has looked up in a directory it has locked.         *)
(***************************************************************************)
EXTENDS Fs, FiniteSetTheorems, WellFoundedInduction, TLAPS

\* No path has ".." in it: the parent of a directory that has been removed may be free.
DotDotFree == \A w \in DOMAIN Paths : \A path \in Paths[w] : path.els \in Seq(Names \cup {"."})

-----------------------------------------------------------------------------
(* The inductive invariant: types and references.                          *)

Types == {"none", "dir", "dev", "file"}
Refs == 0..NINODES
DirNames == Names \cup {".."}
DirRec == [DirNames -> Refs]
FileRec == [ref : Int, ip : Refs]
FsRec == [dtype : [Inodes -> Types], dnlink : [Inodes -> Int],
          ents : [Inodes -> DirRec], lost : [Inodes -> Int],
          ref : [Inodes -> Int], valid : [Inodes -> BOOLEAN], type : [Inodes -> Types],
          nlink : [Inodes -> Int], lk : [Inodes -> Procs \cup {Nobody}],
          file : [Files -> FileRec], panic : BOOLEAN]
Elems == IF DotDotFree THEN Names \cup {"."} ELSE Names \cup {".", ".."}
PathRec == [abs : BOOLEAN, els : Seq(Elems)]
CallRec == [call : {"none"} \cup DOMAIN Paths, ip : Refs, dp : Refs, old : Refs, freeing : Refs,
            rest : Seq(Elems), parent : BOOLEAN, name : Elems \cup {""}, new : PathRec]
Pcs == {"user", "exit", "namex", "found", "parent", "exists", "new", "opened", "made",
        "put_parent", "unlink2", "unlink3", "link_put", "link_bad"}
TypeOK == pc \in [Procs -> Pcs] /\ c \in [Procs -> CallRec] /\ cwd \in [Procs -> Refs]

\* The places that may hold a reference: the locals of a call, a working directory, an open file,
\* and one more for the middle of a step.
Kinds == {"cwd", "ip", "dp", "old", "freeing", "tmp"}
Places == (Procs \X Kinds) \cup (Files \X {"file"})
RefAt(t, x, C, W) ==
  CASE t[2] = "file" -> x.file[t[1]].ip
    [] t[2] = "cwd" -> W[t[1]]
    [] t[2] = "ip" -> C[t[1]].ip
    [] t[2] = "dp" -> C[t[1]].dp
    [] t[2] = "old" -> C[t[1]].old
    [] t[2] = "freeing" -> C[t[1]].freeing
    [] OTHER -> 0
Held(x, C, W) == [t \in Places |-> RefAt(t, x, C, W)]
To(h, j) == {t \in Places : h[t] = j}
RefCore(x, h) == /\ x \in FsRec /\ h \in [Places -> Refs]
                 /\ \A j \in Inodes : x.ref[j] = Cardinality(To(h, j))

-----------------------------------------------------------------------------
(* Locks, links and the tree of directories.                               *)

\* Inode i is locked by an iput() that is freeing it.
BeingFreed(x, h, i) == x.lk[i] # Nobody /\ h[<<x.lk[i], "freeing">>] = i

EntsOK(x) == /\ x.dtype[ROOTINO] = "dir"
             /\ \A d \in Inodes, n \in Names : x.ents[d][n] # 0 =>
                  x.dtype[d] = "dir" /\ x.dtype[x.ents[d][n]] # "none"
\* Whoever refers to an inode refers to one that is allocated, unless he is freeing it.
HoldOK(x, h) ==
  /\ \A t \in Places : h[t] # 0 /\ t[2] # "freeing" => x.dtype[h[t]] # "none"
  /\ \A p \in Procs : h[<<p, "dp">>] # 0 => x.dtype[h[<<p, "dp">>]] = "dir"
  /\ \A p \in Procs : h[<<p, "old">>] # 0 => x.dtype[h[<<p, "old">>]] # "dir"
FreeOK(h) == \A p, q \in Procs :
  p # q /\ h[<<p, "freeing">>] = h[<<q, "freeing">>] => h[<<p, "freeing">>] = 0
LockOK(x, h, M) ==
  /\ \A p \in Procs : \A i \in M[p] :
       /\ x.lk[i] = p /\ x.valid[i] /\ h[<<p, "freeing">>] # i
       /\ i \in {h[<<p, "ip">>], h[<<p, "dp">>], h[<<p, "old">>]}
  /\ \A i \in Inodes : x.lk[i] # Nobody => i \in M[x.lk[i]] \/ BeingFreed(x, h, i)
\* The table agrees with the disk.
CopyOK(x, h) == \A i \in Inodes : x.valid[i] /\ ~BeingFreed(x, h, i) =>
                  x.dtype[i] # "none" /\ x.type[i] = x.dtype[i] /\ x.nlink[i] = x.dnlink[i]
EntriesOf(E, i) == {e \in Inodes \X Names : E[e[1]][e[2]] = i}
SubdirsOf(E, T, i) == {n \in Names : E[i][n] # 0 /\ T[E[i][n]] = "dir"}
LinksOf(x, i) == Cardinality(EntriesOf(x.ents, i)) + Cardinality(SubdirsOf(x.ents, x.dtype, i))
                  + x.lost[i] + (IF i = ROOTINO THEN 1 ELSE 0)
Pending(K, i) == {p \in Procs : K[p] = i}
\* Links are counted exactly, those that a call is about to make or to give up included.
LinkOK(x, K) ==
  \A i \in Inodes : /\ x.lost[i] >= 0
                    /\ x.dtype[i] = "none" => x.lost[i] = 0
                    /\ x.dtype[i] # "none" => x.dnlink[i] = LinksOf(x, i) + Cardinality(Pending(K, i))
ExtraOK(h, K) == \A p \in Procs : K[p] # 0 => K[p] \in {h[<<p, "ip">>], h[<<p, "old">>]}
\* A new inode is its creator's, apart from an iput() that has not finished with it.
NewOK(x, h, V) ==
  \A p \in Procs : V[p] # 0 =>
    /\ x.dnlink[V[p]] = 0 /\ h[<<p, "ip">>] = V[p]
    /\ \A n \in Names : x.ents[V[p]][n] = 0
    /\ \A t \in Places : h[t] = V[p] => t = <<p, "ip">> \/ t[2] = "freeing"
SeenOK(x, M, Q) == /\ Q \subseteq Procs \X Inodes \X Names \X Refs
                   /\ \A s \in Q : s[2] \in M[s[1]] /\ x.ents[s[2]][s[3]] = s[4]
\* There is no circle of directories.
Acyclic(E) == \A D \in SUBSET Inodes : (\A d \in D : \E n \in Names : E[d][n] \in D) => D = {}

DiskOK(x, K) == ~ x.panic /\ EntsOK(x) /\ LinkOK(x, K) /\ Acyclic(x.ents)
Deep(x, h, M, K, V, Q) ==
  /\ DiskOK(x, K) /\ HoldOK(x, h) /\ FreeOK(h) /\ LockOK(x, h, M) /\ CopyOK(x, h)
  /\ ExtraOK(h, K) /\ NewOK(x, h, V) /\ SeenOK(x, M, Q)
Core(x, h, M, K, V, Q) ==
  /\ RefCore(x, h)
  /\ M \in [Procs -> SUBSET Inodes] /\ K \in [Procs -> Refs] /\ V \in [Procs -> Refs]
  /\ DotDotFree => Deep(x, h, M, K, V, Q)

-----------------------------------------------------------------------------
(* What a process has locked, and so on, at each point of a call.          *)

LockedAt(l, d) == IF l \in {"opened", "made", "unlink3"} THEN {d.ip}
                  ELSE IF l \in {"new", "put_parent", "unlink2"} THEN {d.dp} ELSE {}
ExtraAt(l, d) == IF l = "unlink3" THEN d.ip
                 ELSE IF l \in {"namex", "parent", "link_bad"} THEN d.old ELSE 0
NewAt(l, d) == IF l = "new" THEN d.ip ELSE 0
SeenAt(p, l, d) == IF l = "new" THEN {<<p, d.dp, d.name, 0>>}
                   ELSE IF l = "unlink2" THEN {<<p, d.dp, d.name, d.ip>>} ELSE {}
Locked == [p \in Procs |-> LockedAt(pc[p], c[p])]
Extra == [p \in Procs |-> ExtraAt(pc[p], c[p])]
New == [p \in Procs |-> NewAt(pc[p], c[p])]
Seen == UNION {SeenAt(p, pc[p], c[p]) : p \in Procs}

HasIp == {"namex", "found", "exists", "new", "opened", "made", "unlink2", "unlink3"}
HasDp == {"parent", "new", "put_parent", "unlink2"}
\* The references that a call holds at point l, with the locals d and the working directory w.
Shape(l, d, w) ==
  /\ d.ip # 0 <=> l \in HasIp
  /\ d.dp # 0 <=> l \in HasDp
  /\ d.old # 0 => l \in {"namex", "parent", "link_put", "link_bad"}
  /\ l \in {"link_put", "link_bad"} => d.old # 0
  /\ l = "parent" => d.name \in Elems /\ (d.call = "link" <=> d.old # 0)
  /\ l \in {"new", "unlink2"} => d.name \in Elems \ {"."}
  /\ l = "namex" => (d.old # 0 <=> d.call = "link" /\ d.parent)
  /\ l # "user" => w # 0
  /\ d.freeing # 0 => d.freeing \notin {d.ip, d.dp, d.old, w}
FilesOK ==
  /\ ofile \in [Procs -> [Fds -> 0..NFILE]]
  /\ \A f \in Files : /\ fs.file[f].ref = Cardinality({s \in Procs \X Fds : ofile[s[1]][s[2]] = f})
                      /\ fs.file[f].ref = 0 => fs.file[f].ip = 0
  /\ \A p \in Procs : cwd[p] = 0 => \A d \in Fds : ofile[p][d] = 0

IInv == /\ TypeOK /\ FilesOK /\ \A p \in Procs : Shape(pc[p], c[p], cwd[p])
        /\ Core(fs, Held(fs, c, cwd), Locked, Extra, New, Seen)

-----------------------------------------------------------------------------
(* Counting.                                                               *)

Hit(a, k) == IF a = k THEN 1 ELSE 0
Count(S, f, k) == Cardinality({u \in S : f[u] = k})

\* A function is changed at one place.
Upd(f, s, v) == [f EXCEPT ![s] = v]
\* A change of f at one place changes the count by what was there and what is there now.
LEMMA CountUpdate ==
  ASSUME NEW S, IsFiniteSet(S), NEW T, NEW f \in [S -> T], NEW s \in S, NEW v \in T, NEW k
  PROVE  /\ Count(S, f, k) \in Nat
         /\ Count(S, Upd(f, s, v), k) = Count(S, f, k) - Hit(f[s], k) + Hit(v, k)
  <1>0. PICK g : g = Upd(f, s, v)
    OBVIOUS
  <1>g. g \in [S -> T] /\ g[s] = v /\ \A u \in S : u # s => g[u] = f[u]
    BY <1>0 DEF Upd
  <1>1. PICK A : A = {u \in S : f[u] = k}
    OBVIOUS
  <1>2. PICK B : B = {u \in S : g[u] = k}
    OBVIOUS
  <1>3. IsFiniteSet(A) /\ Cardinality(A) \in Nat
    BY <1>1, FS_Subset, FS_CardinalityType
  <1>4. PICK R : R = A \ {s}
    OBVIOUS
  <1>5. IsFiniteSet(R) /\ Cardinality(R) = IF s \in A THEN Cardinality(A) - 1 ELSE Cardinality(A)
    BY <1>3, <1>4, FS_RemoveElement
  <1>6. Cardinality(B) = IF v = k THEN Cardinality(R) + 1 ELSE Cardinality(R)
    <2>1. s \notin R /\ B = IF v = k THEN R \cup {s} ELSE R
      BY <1>1, <1>2, <1>4, <1>g
    <2>2. Cardinality(R \cup {s}) = Cardinality(R) + 1
      BY <1>5, <2>1, FS_AddElement
    <2> QED BY <2>1, <2>2
  <1>7. (s \in A <=> f[s] = k) /\ Count(S, f, k) = Cardinality(A)
        /\ Count(S, Upd(f, s, v), k) = Cardinality(B)
    BY <1>0, <1>1, <1>2 DEF Count
  <1> QED BY <1>3, <1>5, <1>6, <1>7 DEF Hit

\* A value that is there is counted, and one that is counted once is in one place.
LEMMA CountOne ==
  ASSUME NEW S, IsFiniteSet(S), NEW T, NEW f \in [S -> T], NEW s \in S, NEW k, f[s] = k
  PROVE  /\ Count(S, f, k) \in Nat /\ Count(S, f, k) >= 1
         /\ Count(S, f, k) = 1 => \A u \in S : f[u] = k => u = s
  <1>1. PICK A : A = {u \in S : f[u] = k}
    OBVIOUS
  <1>2. IsFiniteSet(A) /\ Cardinality(A) \in Nat /\ s \in A
    BY <1>1, FS_Subset, FS_CardinalityType
  <1>3. Cardinality(A) # 0
    BY <1>2, FS_EmptySet
  <1>4. Cardinality(A) = 1 => \E y : A = {y}
    BY <1>2, FS_Singleton
  <1> QED BY <1>1, <1>2, <1>3, <1>4 DEF Count

\* What the assumptions say of the numbers of inodes and files.
LEMMA Numbers == /\ NINODES \in Nat /\ NFILE \in Nat /\ NOFILE \in Nat /\ NINODES > 0 /\ NFILE > 0
                 /\ ROOTINO \in Inodes /\ 0 \notin Inodes /\ 0 \notin Files /\ Inodes \subseteq Refs
                 /\ 0 \in Refs /\ \A r \in Refs : r # 0 => r \in Inodes
  BY FsAssumption DEF ROOTINO, Inodes, Files, Refs

\* There are finitely many places.
LEMMA PlacesFinite == IsFiniteSet(Places)
  <1>1. IsFiniteSet(Kinds)
    <2>1. IsFiniteSet({"cwd"})
      BY FS_Singleton
    <2>2. IsFiniteSet({"cwd"} \cup {"ip"})
      BY <2>1, FS_AddElement
    <2>3. IsFiniteSet(({"cwd"} \cup {"ip"}) \cup {"dp"})
      BY <2>2, FS_AddElement
    <2>4. IsFiniteSet((({"cwd"} \cup {"ip"}) \cup {"dp"}) \cup {"old"})
      BY <2>3, FS_AddElement
    <2>5. IsFiniteSet(((({"cwd"} \cup {"ip"}) \cup {"dp"}) \cup {"old"}) \cup {"freeing"})
      BY <2>4, FS_AddElement
    <2>6. IsFiniteSet((((({"cwd"} \cup {"ip"}) \cup {"dp"}) \cup {"old"}) \cup {"freeing"}) \cup {"tmp"})
      BY <2>5, FS_AddElement
    <2>7. Kinds = (((({"cwd"} \cup {"ip"}) \cup {"dp"}) \cup {"old"}) \cup {"freeing"}) \cup {"tmp"}
      BY DEF Kinds
    <2> QED BY <2>6, <2>7
  <1>2. IsFiniteSet(Files)
    BY Numbers, FS_Interval DEF Files
  <1>3. IsFiniteSet({"file"})
    BY FS_Singleton
  <1> QED BY <1>1, <1>2, <1>3, FsAssumption, FS_Product, FS_Union DEF Places

\* The places of a process.
LEMMA PlaceOf ==
  ASSUME NEW p \in Procs
  PROVE  /\ <<p, "cwd">> \in Places /\ <<p, "ip">> \in Places /\ <<p, "dp">> \in Places
         /\ <<p, "old">> \in Places /\ <<p, "freeing">> \in Places /\ <<p, "tmp">> \in Places
  BY DEF Places, Kinds

\* A set of natural numbers has a least one.
LEMMA MinIs ==
  ASSUME NEW T \in SUBSET Nat, T # {}
  PROVE  Min(T) \in T
  <1>1. PICK R : R = OpToRel(<, Nat)
    OBVIOUS
  <1>2. IsWellFoundedOn(R, Nat)
    BY <1>1, NatLessThanWellFounded
  <1>3. PICK x \in T : \A y \in T : ~ (<<y, x>> \in R)
    BY <1>2, WFMin
  <1>4. \A y \in T : ~ (y < x)
    BY <1>1, <1>3 DEF OpToRel
  <1>5. \A y \in T : x <= y
    BY <1>4
  <1> QED BY <1>5 DEF Min

-----------------------------------------------------------------------------
(* What the operations of fs.c do to each field.                           *)

SameDisk(x, y) == y.dtype = x.dtype /\ y.dnlink = x.dnlink /\ y.ents = x.ents /\ y.lost = x.lost
SameCopy(x, y) == y.valid = x.valid /\ y.type = x.type /\ y.nlink = x.nlink

\* What iget() does to each part of the tables.
LEMMA IgetIs ==
  ASSUME NEW x \in FsRec, NEW i \in Inodes, NEW y, y \in {iget(x, i), idup(x, i)}
  PROVE  /\ y \in FsRec /\ SameDisk(x, y) /\ y.panic = x.panic /\ y.lk = x.lk /\ y.file = x.file
         /\ y.ref = [x.ref EXCEPT ![i] = @ + 1] /\ y.type = x.type /\ y.nlink = x.nlink
         /\ \A j \in Inodes : j # i \/ x.ref[i] # 0 => (y.valid[j] <=> x.valid[j])
         /\ y.valid[i] => x.valid[i]
  <1>1. /\ y \in FsRec /\ SameDisk(x, y) /\ y.panic = x.panic /\ y.lk = x.lk /\ y.file = x.file
        /\ y.ref = [x.ref EXCEPT ![i] = @ + 1] /\ y.type = x.type /\ y.nlink = x.nlink
        /\ y.valid \in {x.valid, [x.valid EXCEPT ![i] = IF x.ref[i] = 0 THEN FALSE ELSE @]}
    <2>1. CASE y = iget(x, i)
      <3>1. PICK R : R = [x.ref EXCEPT ![i] = @ + 1]
        OBVIOUS
      <3>2. PICK A : A = [x.valid EXCEPT ![i] = IF x.ref[i] = 0 THEN FALSE ELSE @]
        OBVIOUS
      <3>3. R \in [Inodes -> Int] /\ A \in [Inodes -> BOOLEAN]
        <4>1. R \in [Inodes -> Int] /\ x.valid \in [Inodes -> BOOLEAN]
          BY <3>1 DEF FsRec
        <4>2. A = x.valid \/ A = [x.valid EXCEPT ![i] = FALSE]
          BY <3>2, <4>1
        <4> QED BY <4>1, <4>2
      <3>4. y = [x EXCEPT !.ref = R, !.valid = A]
        BY <2>1, <3>1, <3>2 DEF iget
      <3>5. /\ y \in FsRec /\ SameDisk(x, y) /\ y.panic = x.panic /\ y.lk = x.lk /\ y.file = x.file
            /\ y.ref = R /\ y.type = x.type /\ y.nlink = x.nlink /\ y.valid = A
        BY <3>3, <3>4 DEF FsRec, SameDisk
      <3> QED BY <3>1, <3>2, <3>5
    <2>2. CASE y = idup(x, i)
      BY <2>2 DEF idup, FsRec, SameDisk
    <2> QED BY <2>1, <2>2
  <1>2. /\ \A j \in Inodes : j # i \/ x.ref[i] # 0 => (y.valid[j] <=> x.valid[j])
        /\ y.valid[i] => x.valid[i]
    BY <1>1, ZenonT(30) DEF FsRec
  <1> QED BY <1>1, <1>2

\* What ilock() does to each part of the tables.
LEMMA IlockIs ==
  ASSUME NEW x \in FsRec, NEW p \in Procs, NEW i \in Inodes, NEW y, y = ilock(x, p, i)
  PROVE  /\ y \in FsRec /\ SameDisk(x, y) /\ y.file = x.file /\ y.ref = x.ref
         /\ y.lk[i] = p /\ y.valid[i]
         /\ y.type[i] = (IF x.valid[i] THEN x.type[i] ELSE x.dtype[i])
         /\ y.nlink[i] = (IF x.valid[i] THEN x.nlink[i] ELSE x.dnlink[i])
         /\ \A j \in Inodes : j # i => /\ y.lk[j] = x.lk[j] /\ (y.valid[j] <=> x.valid[j])
                                    /\ y.type[j] = x.type[j] /\ y.nlink[j] = x.nlink[j]
         /\ x.dtype[i] # "none" => y.panic = x.panic
  <1>1. /\ y \in FsRec /\ SameDisk(x, y) /\ y.file = x.file /\ y.ref = x.ref
        /\ y.lk = [x.lk EXCEPT ![i] = p] /\ y.valid = [x.valid EXCEPT ![i] = TRUE]
        /\ y.type = [x.type EXCEPT ![i] = IF x.valid[i] THEN @ ELSE x.dtype[i]]
        /\ y.nlink = [x.nlink EXCEPT ![i] = IF x.valid[i] THEN @ ELSE x.dnlink[i]]
        /\ x.dtype[i] # "none" => y.panic = x.panic
    <2>1. CASE x.valid[i]
      BY <2>1 DEF ilock, FsRec, SameDisk
    <2>2. CASE ~ x.valid[i]
      BY <2>2 DEF ilock, FsRec, SameDisk
    <2> QED BY <2>1, <2>2
  <1>2. /\ y.lk[i] = p /\ y.valid[i]
        /\ y.type[i] = (IF x.valid[i] THEN x.type[i] ELSE x.dtype[i])
        /\ y.nlink[i] = (IF x.valid[i] THEN x.nlink[i] ELSE x.dnlink[i])
        /\ \A j \in Inodes : j # i => /\ y.lk[j] = x.lk[j] /\ (y.valid[j] <=> x.valid[j])
                                   /\ y.type[j] = x.type[j] /\ y.nlink[j] = x.nlink[j]
    BY <1>1 DEF FsRec
  <1> QED BY <1>1, <1>2

\* What iunlock() does to each part of the tables.
LEMMA IunlockIs ==
  ASSUME NEW x \in FsRec, NEW i \in Inodes, NEW y, y = iunlock(x, i)
  PROVE  /\ y \in FsRec /\ SameDisk(x, y) /\ SameCopy(x, y) /\ y.panic = x.panic
         /\ y.file = x.file /\ y.ref = x.ref
         /\ y.lk[i] = Nobody /\ \A j \in Inodes : j # i => y.lk[j] = x.lk[j]
  BY DEF iunlock, FsRec, SameDisk, SameCopy

NlinkSet(x, y, i, n) ==
  /\ y.panic = x.panic /\ y.file = x.file /\ y.ref = x.ref /\ y.lk = x.lk
  /\ y.ents = x.ents /\ y.lost = x.lost /\ y.valid = x.valid /\ y.type = x.type
  /\ y.nlink[i] = n /\ y.dnlink[i] = n /\ y.dtype[i] = x.type[i]
  /\ \A j \in Inodes : j # i => /\ y.nlink[j] = x.nlink[j] /\ y.dnlink[j] = x.dnlink[j]
                             /\ y.dtype[j] = x.dtype[j]
\* What a change of nlink and iupdate() does to each part of the tables.
LEMMA SetNlinkIs ==
  ASSUME NEW x \in FsRec, NEW i \in Inodes, NEW n \in Int
  PROVE  SetNlink(x, i, n) \in FsRec /\ NlinkSet(x, SetNlink(x, i, n), i, n)
  <1>0. PICK y : y = SetNlink(x, i, n)
    OBVIOUS
  <1>1. /\ y \in FsRec /\ y.panic = x.panic /\ y.file = x.file /\ y.ref = x.ref /\ y.lk = x.lk
        /\ y.ents = x.ents /\ y.lost = x.lost /\ y.valid = x.valid /\ y.type = x.type
        /\ y.nlink = [x.nlink EXCEPT ![i] = n] /\ y.dnlink = [x.dnlink EXCEPT ![i] = n]
        /\ y.dtype = [x.dtype EXCEPT ![i] = x.type[i]]
    BY <1>0 DEF SetNlink, iupdate, FsRec
  <1>2. /\ y.nlink[i] = n /\ y.dnlink[i] = n /\ y.dtype[i] = x.type[i]
        /\ \A j \in Inodes : j # i => /\ y.nlink[j] = x.nlink[j] /\ y.dnlink[j] = x.dnlink[j]
                                   /\ y.dtype[j] = x.dtype[j]
    BY <1>1 DEF FsRec
  <1> QED BY <1>0, <1>1, <1>2 DEF NlinkSet

Entered(x, y, i, n, j) ==
  /\ y.panic = x.panic /\ y.file = x.file /\ y.ref = x.ref /\ y.lk = x.lk
  /\ y.valid = x.valid /\ y.type = x.type /\ y.nlink = x.nlink
  /\ y.lost = x.lost /\ y.dtype = x.dtype /\ y.dnlink = x.dnlink
  /\ y.ents[i][n] = j /\ \A m \in DirNames : m # n => y.ents[i][m] = x.ents[i][m]
  /\ \A k \in Inodes : k # i => y.ents[k] = x.ents[k]
\* What dirlink() does to each part of the tables.
LEMMA DirlinkIs ==
  ASSUME NEW x \in FsRec, NEW i \in Inodes, NEW n \in DirNames, NEW j \in Refs
  PROVE  dirlink(x, i, n, j) \in FsRec /\ Entered(x, dirlink(x, i, n, j), i, n, j)
  <1>0. PICK y : y = dirlink(x, i, n, j)
    OBVIOUS
  <1>1. PICK E : E = [x.ents EXCEPT ![i][n] = j]
    OBVIOUS
  <1>2. E \in [Inodes -> DirRec]
    BY <1>1 DEF FsRec, DirRec
  <1>3. y = [x EXCEPT !.ents = E]
    BY <1>0, <1>1 DEF dirlink
  <1>4. E[i][n] = j /\ (\A m \in DirNames : m # n => E[i][m] = x.ents[i][m])
        /\ \A k \in Inodes : k # i => E[k] = x.ents[k]
    BY <1>1 DEF FsRec, DirRec
  <1>5. /\ y \in FsRec /\ y.panic = x.panic /\ y.file = x.file /\ y.ref = x.ref /\ y.lk = x.lk
        /\ y.valid = x.valid /\ y.type = x.type /\ y.nlink = x.nlink
        /\ y.lost = x.lost /\ y.dtype = x.dtype /\ y.dnlink = x.dnlink
        /\ y.ents = E
    BY <1>2, <1>3 DEF FsRec
  <1> QED BY <1>0, <1>4, <1>5 DEF Entered

\* What giving up a reference does to each part of the tables.
LEMMA DropIs ==
  ASSUME NEW x \in FsRec, NEW i \in Inodes, NEW y, y = Drop(x, i)
  PROVE  /\ y \in FsRec /\ SameDisk(x, y) /\ y.panic = x.panic /\ y.lk = x.lk /\ y.file = x.file
         /\ y.ref[i] = x.ref[i] - 1 /\ (\A j \in Inodes : j # i => y.ref[j] = x.ref[j])
         /\ x.ref[i] > 1 => SameCopy(x, y)
         /\ ~ (x.ref[i] > 1) => ~ y.valid[i]
         /\ \A j \in Inodes : j # i => /\ y.valid[j] <=> x.valid[j]
                                    /\ y.type[j] = x.type[j] /\ y.nlink[j] = x.nlink[j]
  <1>1. CASE x.ref[i] > 1
    <2>1. /\ y \in FsRec /\ SameDisk(x, y) /\ y.panic = x.panic /\ y.lk = x.lk /\ y.file = x.file
          /\ y.ref = [x.ref EXCEPT ![i] = @ - 1] /\ SameCopy(x, y)
      BY <1>1 DEF Drop, FsRec, SameDisk, SameCopy
    <2>2. y.ref[i] = x.ref[i] - 1 /\ (\A j \in Inodes : j # i => y.ref[j] = x.ref[j])
      BY <2>1 DEF FsRec
    <2> QED BY <1>1, <2>1, <2>2 DEF SameCopy
  <1>2. CASE ~ (x.ref[i] > 1)
    <2>1. /\ y \in FsRec /\ SameDisk(x, y) /\ y.panic = x.panic /\ y.lk = x.lk /\ y.file = x.file
          /\ y.ref = [x.ref EXCEPT ![i] = @ - 1] /\ y.valid = [x.valid EXCEPT ![i] = FALSE]
          /\ y.type = [x.type EXCEPT ![i] = "none"] /\ y.nlink = [x.nlink EXCEPT ![i] = 0]
      <3>1. PICK R : R = [x.ref EXCEPT ![i] = @ - 1]
        OBVIOUS
      <3>2. PICK A : A = [x.valid EXCEPT ![i] = FALSE]
        OBVIOUS
      <3>3. PICK T : T = [x.type EXCEPT ![i] = "none"]
        OBVIOUS
      <3>4. PICK N : N = [x.nlink EXCEPT ![i] = 0]
        OBVIOUS
      <3>5. R \in [Inodes -> Int] /\ A \in [Inodes -> BOOLEAN] /\ N \in [Inodes -> Int]
        BY <3>1, <3>2, <3>4 DEF FsRec
      <3>6. T \in [Inodes -> Types]
        BY <3>3 DEF FsRec, Types
      <3>7. y = [x EXCEPT !.ref = R, !.valid = A, !.type = T, !.nlink = N]
        BY <1>2, <3>1, <3>2, <3>3, <3>4 DEF Drop
      <3> QED BY <3>1, <3>2, <3>3, <3>4, <3>5, <3>6, <3>7 DEF FsRec, SameDisk
    <2>2. /\ ~ y.valid[i] /\ \A j \in Inodes : j # i => (y.valid[j] <=> x.valid[j])
          /\ \A j \in Inodes : j # i => y.type[j] = x.type[j] /\ y.nlink[j] = x.nlink[j]
      BY <2>1 DEF FsRec
    <2>3. y.ref[i] = x.ref[i] - 1 /\ (\A j \in Inodes : j # i => y.ref[j] = x.ref[j])
      BY <2>1 DEF FsRec
    <2> QED BY <1>2, <2>1, <2>2, <2>3
  <1> QED BY <1>1, <1>2

\* What the end of an iput() that frees does to each part of the tables.
LEMMA FreedIs ==
  ASSUME NEW x \in FsRec, NEW i \in Inodes, NEW y, y = Freed(x, i)
  PROVE  /\ y \in FsRec /\ SameDisk(x, y) /\ y.panic = x.panic /\ y.file = x.file /\ y.ref = x.ref
         /\ y.lk[i] = Nobody /\ ~ y.valid[i] /\ y.type = x.type /\ y.nlink = x.nlink
         /\ \A j \in Inodes : j # i => y.lk[j] = x.lk[j] /\ (y.valid[j] <=> x.valid[j])
  BY DEF Freed, iunlock, FsRec, SameDisk

\* An empty directory is a directory.
LEMMA NoEntsType == NoEnts \in DirRec
  BY Numbers DEF NoEnts, DirRec, DirNames

\* Entries of directory i that name j.
Named(x, i, j) == {n \in Names : x.ents[i][n] = j}
\* A directory has finitely many entries for an inode.
LEMMA NamedFinite ==
  ASSUME NEW x, NEW i, NEW j
  PROVE  IsFiniteSet(Named(x, i, j)) /\ Cardinality(Named(x, i, j)) \in Nat
  BY FsAssumption, FS_Subset, FS_CardinalityType DEF Named

\* What iput() does to each part of the tables.
LEMMA IputIs ==
  ASSUME NEW x \in FsRec, NEW p \in Procs, NEW i \in Inodes, Last(x, i), NEW y, y = iput(x, p, i)
  PROVE  /\ y \in FsRec /\ y.file = x.file /\ y.ref = x.ref /\ y.valid = x.valid /\ y.nlink = x.nlink
         /\ x.lk[i] = Nobody => y.panic = x.panic
         /\ y.lk[i] = p /\ y.dtype[i] = "none" /\ y.dnlink[i] = x.nlink[i] /\ y.ents[i] = NoEnts
         /\ \A j \in Inodes : j # i => /\ y.lk[j] = x.lk[j] /\ y.type[j] = x.type[j]
                                    /\ y.dtype[j] = x.dtype[j] /\ y.dnlink[j] = x.dnlink[j]
                                    /\ y.ents[j] = x.ents[j]
         /\ \A j \in Inodes : y.lost[j] = x.lost[j] + Cardinality(Named(x, i, j))
  <1>1. PICK L : L = [j \in Inodes |-> x.lost[j] + Cardinality(Named(x, i, j))]
    OBVIOUS
  <1>2. L \in [Inodes -> Int]
    BY <1>1, NamedFinite DEF FsRec
  <1>3. y = iupdate([x EXCEPT !.panic = x.panic \/ x.lk[i] # Nobody, !.lk[i] = p,
                       !.ents[i] = NoEnts, !.type[i] = "none", !.lost = L], i)
    BY <1>1 DEF iput, Named
  <1>4. PICK z : z = [x EXCEPT !.panic = x.panic \/ x.lk[i] # Nobody, !.lk[i] = p,
                        !.ents[i] = NoEnts, !.type[i] = "none", !.lost = L]
    OBVIOUS
  <1>5. /\ z \in FsRec /\ z.file = x.file /\ z.ref = x.ref /\ z.valid = x.valid /\ z.nlink = x.nlink
        /\ z.lk = [x.lk EXCEPT ![i] = p] /\ z.type = [x.type EXCEPT ![i] = "none"]
        /\ z.dtype = x.dtype /\ z.dnlink = x.dnlink /\ z.lost = L
        /\ z.ents = [x.ents EXCEPT ![i] = NoEnts] /\ z.panic = (x.panic \/ x.lk[i] # Nobody)
    BY <1>2, <1>4, NoEntsType DEF FsRec, Types
  <1>6. /\ y \in FsRec /\ y.file = z.file /\ y.ref = z.ref /\ y.valid = z.valid /\ y.nlink = z.nlink
        /\ y.lk = z.lk /\ y.type = z.type /\ y.lost = z.lost /\ y.ents = z.ents /\ y.panic = z.panic
        /\ y.dtype = [z.dtype EXCEPT ![i] = z.type[i]] /\ y.dnlink = [z.dnlink EXCEPT ![i] = z.nlink[i]]
    <2>1. PICK T : T = [z.dtype EXCEPT ![i] = z.type[i]]
      OBVIOUS
    <2>2. PICK N : N = [z.dnlink EXCEPT ![i] = z.nlink[i]]
      OBVIOUS
    <2>3. T \in [Inodes -> Types] /\ N \in [Inodes -> Int]
      BY <1>5, <2>1, <2>2 DEF FsRec
    <2>4. y = [z EXCEPT !.dtype = T, !.dnlink = N]
      BY <1>3, <1>4, <2>1, <2>2 DEF iupdate
    <2> QED BY <1>5, <2>1, <2>2, <2>3, <2>4 DEF FsRec
  <1>7. z.type[i] = "none"
    BY <1>5 DEF FsRec
  <1>8. x.lk[i] = Nobody => y.panic = x.panic
    BY <1>5, <1>6 DEF FsRec
  <1>9. /\ y.lk[i] = p /\ y.dtype[i] = "none" /\ y.dnlink[i] = x.nlink[i] /\ y.ents[i] = NoEnts
        /\ \A j \in Inodes : j # i => /\ y.lk[j] = x.lk[j] /\ y.type[j] = x.type[j]
                                   /\ y.dtype[j] = x.dtype[j] /\ y.dnlink[j] = x.dnlink[j]
                                   /\ y.ents[j] = x.ents[j]
    BY <1>5, <1>6, <1>7 DEF FsRec
  <1>10. \A j \in Inodes : y.lost[j] = x.lost[j] + Cardinality(Named(x, i, j))
    BY <1>1, <1>5, <1>6
  <1> QED BY <1>5, <1>6, <1>8, <1>9, <1>10

Allocated(x, y, i, type) ==
  /\ y.panic = x.panic /\ y.file = x.file /\ y.lk = x.lk
  /\ y.ref = [x.ref EXCEPT ![i] = @ + 1] /\ y.type = x.type /\ y.nlink = x.nlink
  /\ \A j \in Inodes : j # i \/ x.ref[i] # 0 => (y.valid[j] <=> x.valid[j])
  /\ x.ref[i] = 0 => ~ y.valid[i]
  /\ y.lost = x.lost /\ y.ents[i] = NoEnts /\ y.dtype[i] = type /\ y.dnlink[i] = 0
  /\ \A j \in Inodes : j # i => /\ y.dtype[j] = x.dtype[j] /\ y.dnlink[j] = x.dnlink[j]
                             /\ y.ents[j] = x.ents[j]
\* What ialloc() does to each part of the tables.
LEMMA IallocIs ==
  ASSUME NEW x \in FsRec, NEW i \in Inodes, NEW type \in Types, NEW y, y = ialloc(x, i, type)
  PROVE  y \in FsRec /\ Allocated(x, y, i, type)
  <1>1. PICK z : z = [x EXCEPT !.dtype[i] = type, !.dnlink[i] = 0, !.ents[i] = NoEnts]
    OBVIOUS
  <1>2. /\ z \in FsRec /\ z.panic = x.panic /\ z.file = x.file /\ z.lk = x.lk /\ z.ref = x.ref
        /\ z.type = x.type /\ z.nlink = x.nlink /\ z.valid = x.valid /\ z.lost = x.lost
        /\ z.ents = [x.ents EXCEPT ![i] = NoEnts]
        /\ z.dtype = [x.dtype EXCEPT ![i] = type] /\ z.dnlink = [x.dnlink EXCEPT ![i] = 0]
    <2>1. PICK T : T = [x.dtype EXCEPT ![i] = type]
      OBVIOUS
    <2>2. PICK N : N = [x.dnlink EXCEPT ![i] = 0]
      OBVIOUS
    <2>3. PICK E : E = [x.ents EXCEPT ![i] = NoEnts]
      OBVIOUS
    <2>4. T \in [Inodes -> Types] /\ N \in [Inodes -> Int] /\ E \in [Inodes -> DirRec]
      BY <2>1, <2>2, <2>3, NoEntsType DEF FsRec
    <2>5. z = [x EXCEPT !.dtype = T, !.dnlink = N, !.ents = E]
      BY <1>1, <2>1, <2>2, <2>3
    <2> QED BY <2>1, <2>2, <2>3, <2>4, <2>5 DEF FsRec
  <1>3. y = iget(z, i)
    BY <1>1 DEF ialloc
  <1>4. x.ref[i] = 0 => ~ y.valid[i]
    BY <1>2, <1>3 DEF iget, FsRec
  <1>5. /\ y \in FsRec /\ SameDisk(z, y) /\ y.panic = z.panic /\ y.lk = z.lk /\ y.file = z.file
        /\ y.ref = [z.ref EXCEPT ![i] = @ + 1] /\ y.type = z.type /\ y.nlink = z.nlink
        /\ \A j \in Inodes : j # i \/ z.ref[i] # 0 => (y.valid[j] <=> z.valid[j])
    BY <1>2, <1>3, IgetIs
  <1>6. /\ z.ents[i] = NoEnts /\ z.dtype[i] = type /\ z.dnlink[i] = 0
        /\ \A j \in Inodes : j # i => /\ z.dtype[j] = x.dtype[j] /\ z.dnlink[j] = x.dnlink[j]
                                   /\ z.ents[j] = x.ents[j]
    BY <1>2 DEF FsRec
  <1> QED BY <1>2, <1>4, <1>5, <1>6 DEF SameDisk, Allocated

-----------------------------------------------------------------------------
(* References.                                                             *)

\* The references to an inode when one place changes.
LEMMA PlaceUpdate ==
  ASSUME NEW h \in [Places -> Refs], NEW t \in Places, NEW j \in Refs, NEW k
  PROVE  /\ Cardinality(To(h, k)) \in Nat
         /\ Cardinality(To(Upd(h, t, j), k)) = Cardinality(To(h, k)) - Hit(h[t], k) + Hit(j, k)
  <1>1. /\ Count(Places, h, k) \in Nat
        /\ Count(Places, Upd(h, t, j), k) = Count(Places, h, k) - Hit(h[t], k) + Hit(j, k)
    BY PlacesFinite, CountUpdate
  <1> QED BY <1>1 DEF Count, To

\* Counts stay right when one place and the counts change alike, ...
LEMMA RefUpdate ==
  ASSUME NEW x, NEW h, RefCore(x, h), NEW t \in Places, NEW j \in Refs, NEW y \in FsRec,
         \A k \in Inodes : y.ref[k] = x.ref[k] - Hit(h[t], k) + Hit(j, k)
  PROVE  RefCore(y, Upd(h, t, j))
  <1>1. h \in [Places -> Refs] /\ Upd(h, t, j) \in [Places -> Refs]
    BY DEF RefCore, Upd
  <1>2. ASSUME NEW k \in Inodes PROVE y.ref[k] = Cardinality(To(Upd(h, t, j), k))
    <2>1. Cardinality(To(Upd(h, t, j), k)) = Cardinality(To(h, k)) - Hit(h[t], k) + Hit(j, k)
      BY <1>1, PlaceUpdate
    <2>2. x.ref[k] = Cardinality(To(h, k))
      BY DEF RefCore
    <2> QED BY <2>1, <2>2
  <1> QED BY <1>1, <1>2 DEF RefCore

\* ... and when no reference count changes.
LEMMA RefSame ==
  ASSUME NEW x, NEW h, RefCore(x, h), NEW y \in FsRec, y.ref = x.ref
  PROVE  RefCore(y, h)
  BY DEF RefCore

\* The reference at t moves to u.
Move(h, t, u) == Upd(Upd(h, t, 0), u, h[t])
LEMMA RefMove ==
  ASSUME NEW x, NEW h, RefCore(x, h), NEW t \in Places, NEW u \in Places, t # u, h[u] = 0
  PROVE  RefCore(x, Move(h, t, u))
  <1>1. h \in [Places -> Refs] /\ 0 \in Refs /\ h[t] \in Refs
    BY Numbers DEF RefCore
  <1>2. PICK f : f = Upd(h, t, 0)
    OBVIOUS
  <1>3. f \in [Places -> Refs] /\ f[u] = 0 /\ Move(h, t, u) = Upd(f, u, h[t])
    BY <1>1, <1>2 DEF Upd, Move
  <1>4. ASSUME NEW k \in Inodes PROVE Cardinality(To(Move(h, t, u), k)) = Cardinality(To(h, k))
    <2>1. /\ Cardinality(To(h, k)) \in Nat
          /\ Cardinality(To(f, k)) = Cardinality(To(h, k)) - Hit(h[t], k) + Hit(0, k)
      BY <1>1, <1>2, PlaceUpdate
    <2>2. /\ Cardinality(To(f, k)) \in Nat
          /\ Cardinality(To(Move(h, t, u), k)) = Cardinality(To(f, k)) - Hit(f[u], k) + Hit(h[t], k)
      BY <1>1, <1>3, PlaceUpdate
    <2> QED BY <1>3, <2>1, <2>2 DEF Hit
  <1>7. Move(h, t, u) \in [Places -> Refs]
    BY <1>1, <1>3 DEF Upd
  <1> QED BY <1>4, <1>7 DEF RefCore

\* A reference counts, and the last one is the only one.
LEMMA RefOne ==
  ASSUME NEW x, NEW h, RefCore(x, h), NEW t \in Places, NEW i \in Inodes, h[t] = i
  PROVE  /\ x.ref[i] \in Nat /\ x.ref[i] >= 1
         /\ ~ (x.ref[i] > 1) => \A u \in Places : h[u] = i => u = t
  <1>1. x.ref[i] = Count(Places, h, i)
    BY DEF RefCore, Count, To
  <1>2. /\ Count(Places, h, i) \in Nat /\ Count(Places, h, i) >= 1
        /\ Count(Places, h, i) = 1 => \A u \in Places : h[u] = i => u = t
    BY PlacesFinite, CountOne DEF RefCore
  <1> QED BY <1>1, <1>2
-----------------------------------------------------------------------------
(* A reference is made, moved or counted in a file.                        *)

\* The types of the parts of the tables.
LEMMA FsTypes ==
  ASSUME NEW x \in FsRec
  PROVE  /\ x.dtype \in [Inodes -> Types] /\ x.dnlink \in [Inodes -> Int]
         /\ x.ents \in [Inodes -> DirRec] /\ x.lost \in [Inodes -> Int]
         /\ x.ref \in [Inodes -> Int] /\ x.valid \in [Inodes -> BOOLEAN]
         /\ x.type \in [Inodes -> Types] /\ x.nlink \in [Inodes -> Int]
         /\ x.lk \in [Inodes -> Procs \cup {Nobody}] /\ x.file \in [Files -> FileRec]
         /\ x.panic \in BOOLEAN
  BY DEF FsRec

\* The type of a lock.
LEMMA LkType == \A x \in FsRec : \A i \in Inodes : x.lk[i] \in Procs \/ x.lk[i] = Nobody
  BY DEF FsRec

\* What is true of the disk depends on the disk alone.
LEMMA DiskSame ==
  ASSUME NEW x, NEW y, SameDisk(x, y), y.panic = x.panic, NEW K, DiskOK(x, K)
  PROVE  DiskOK(y, K)
  BY DEF DiskOK, SameDisk, EntsOK, LinkOK, LinksOf

\* A change of one place.
LEMMA UpdPlace ==
  ASSUME NEW h \in [Places -> Refs], NEW t \in Places, NEW j \in Refs, NEW g, g = Upd(h, t, j)
  PROVE  g \in [Places -> Refs] /\ g[t] = j /\ \A u \in Places : u # t => g[u] = h[u]
  BY DEF Upd

\* The parts of Core().
LEMMA CoreTypes ==
  ASSUME NEW x, NEW h, NEW M, NEW K, NEW V, NEW Q, Core(x, h, M, K, V, Q)
  PROVE  /\ RefCore(x, h) /\ x \in FsRec /\ h \in [Places -> Refs]
         /\ M \in [Procs -> SUBSET Inodes] /\ K \in [Procs -> Refs] /\ V \in [Procs -> Refs]
         /\ DotDotFree => Deep(x, h, M, K, V, Q)
  BY DEF Core, RefCore

\* The inode of a locked one is referred to by whoever locked it.
LEMMA LockedHeld ==
  ASSUME NEW x, NEW h, NEW M \in [Procs -> SUBSET Inodes], LockOK(x, h, M), NEW p \in Procs,
         NEW i \in M[p]
  PROVE  /\ i \in Inodes /\ x.lk[i] = p /\ x.valid[i] /\ h[<<p, "freeing">>] # i
         /\ \E k \in {"ip", "dp", "old"} : h[<<p, k>>] = i
  BY DEF LockOK

\* iget() and idup() give a place that is free a reference to an allocated inode.
LEMMA CoreGet ==
  ASSUME NEW x, NEW h, NEW M, NEW K, NEW V, NEW Q, Core(x, h, M, K, V, Q),
         NEW i \in Inodes, NEW t \in Places, h[t] = 0, t[2] \in {"cwd", "ip", "tmp"},
         DotDotFree => x.dtype[i] # "none" /\ \A q \in Procs : V[q] # i,
         NEW y, y \in {iget(x, i), idup(x, i)}
  PROVE  Core(y, Upd(h, t, i), M, K, V, Q)
  <1>1. /\ RefCore(x, h) /\ x \in FsRec /\ h \in [Places -> Refs] /\ i \in Refs
        /\ M \in [Procs -> SUBSET Inodes] /\ K \in [Procs -> Refs] /\ V \in [Procs -> Refs]
    BY CoreTypes, Numbers
  <1>2. /\ y \in FsRec /\ SameDisk(x, y) /\ y.panic = x.panic /\ y.lk = x.lk /\ y.file = x.file
        /\ y.ref = [x.ref EXCEPT ![i] = @ + 1] /\ y.type = x.type /\ y.nlink = x.nlink
        /\ \A j \in Inodes : j # i \/ x.ref[i] # 0 => (y.valid[j] <=> x.valid[j])
        /\ y.valid[i] => x.valid[i]
    BY <1>1, IgetIs
  <1>d. y.dtype = x.dtype /\ y.dnlink = x.dnlink /\ y.ents = x.ents /\ y.lk = x.lk
    BY <1>2 DEF SameDisk
  <1>l. \A j \in Inodes : x.lk[j] \in Procs \/ x.lk[j] = Nobody
    BY <1>1, LkType
  <1>3. RefCore(y, Upd(h, t, i))
    <2>1. \A k \in Inodes : y.ref[k] = x.ref[k] - Hit(h[t], k) + Hit(i, k)
      BY <1>1, <1>2, FsTypes, Numbers DEF Hit
    <2>2. RefCore(x, h) /\ t \in Places /\ i \in Refs /\ y \in FsRec
      BY <1>1, <1>2
    <2> QED BY <2>1, <2>2, RefUpdate
  <1>4. ASSUME DotDotFree, NEW g, g = Upd(h, t, i) PROVE Deep(y, g, M, K, V, Q)
    <2>1. Deep(x, h, M, K, V, Q)
      BY <1>4, CoreTypes
    <2>2. g \in [Places -> Refs] /\ g[t] = i /\ \A u \in Places : u # t => g[u] = h[u]
      BY <1>1, <1>4, UpdPlace
    <2>3. ASSUME NEW p \in Procs
          PROVE  /\ g[<<p, "freeing">>] = h[<<p, "freeing">>] /\ g[<<p, "dp">>] = h[<<p, "dp">>]
                 /\ g[<<p, "old">>] = h[<<p, "old">>]
                 /\ g[<<p, "ip">>] = h[<<p, "ip">>] \/ h[<<p, "ip">>] = 0
      <3>1. <<p, "freeing">> # t /\ <<p, "dp">> # t /\ <<p, "old">> # t
        OBVIOUS
      <3> QED BY <2>2, <3>1, PlaceOf
    <2>4. \A p \in Procs : g[<<p, "freeing">>] = h[<<p, "freeing">>]
      BY <2>3
    <2>5. \A j \in Inodes : BeingFreed(y, g, j) <=> BeingFreed(x, h, j)
      BY <1>d, <1>l, <2>4 DEF BeingFreed
    <2>6. \A p \in Procs : g[<<p, "ip">>] = h[<<p, "ip">>] \/ h[<<p, "ip">>] = 0
      BY <2>3
    <2>a. DiskOK(y, K)
      BY <1>2, <2>1, DiskSame DEF Deep
    <2>b. HoldOK(y, g)
      <3>1. HoldOK(x, h)
        BY <2>1 DEF Deep
      <3>2. \A u \in Places : g[u] # 0 /\ u[2] # "freeing" => y.dtype[g[u]] # "none"
        BY <1>d, <1>4, <2>2, <3>1 DEF HoldOK
      <3>3. \A p \in Procs : g[<<p, "dp">>] = h[<<p, "dp">>] /\ g[<<p, "old">>] = h[<<p, "old">>]
        BY <2>3
      <3> QED BY <1>d, <3>1, <3>2, <3>3 DEF HoldOK
    <2>c. FreeOK(g)
      BY <2>1, <2>3 DEF Deep, FreeOK
    <2>d. LockOK(y, g, M)
      <3>1. LockOK(x, h, M)
        BY <2>1 DEF Deep
      <3>2. ASSUME NEW p \in Procs, NEW j \in M[p]
            PROVE  /\ y.lk[j] = p /\ y.valid[j] /\ g[<<p, "freeing">>] # j
                   /\ j \in {g[<<p, "ip">>], g[<<p, "dp">>], g[<<p, "old">>]}
        <4>1. /\ j \in Inodes /\ x.lk[j] = p /\ x.valid[j] /\ h[<<p, "freeing">>] # j
              /\ j \in {h[<<p, "ip">>], h[<<p, "dp">>], h[<<p, "old">>]}
          BY <1>1, <3>1 DEF LockOK
        <4>2. PICK u \in Places : h[u] = j
          BY <4>1, PlaceOf
        <4>3. x.ref[j] # 0
          BY <1>1, <4>1, <4>2, RefOne
        <4> QED BY <1>2, <2>3, <4>1, <4>3, Numbers
      <3>3. \A j \in Inodes : y.lk[j] # Nobody => j \in M[y.lk[j]] \/ BeingFreed(y, g, j)
        BY <1>d, <2>5, <3>1 DEF LockOK
      <3> QED BY <3>2, <3>3 DEF LockOK
    <2>e. CopyOK(y, g)
      BY <1>d, <1>2, <2>1, <2>5 DEF Deep, CopyOK
    <2>f. ExtraOK(g, K)
      BY <2>1, <2>3 DEF Deep, ExtraOK
    <2>g. NewOK(y, g, V)
      BY <1>d, <1>4, <2>1, <2>2, <2>6 DEF Deep, NewOK
    <2>h. SeenOK(y, M, Q)
      BY <1>d, <2>1 DEF Deep, SeenOK
    <2> QED BY <2>a, <2>b, <2>c, <2>d, <2>e, <2>f, <2>g, <2>h DEF Deep
  <1> QED BY <1>1, <1>3, <1>4 DEF Core

\* A reference moves from the place t to the place u.
LEMMA CoreMove ==
  ASSUME NEW x, NEW h, NEW M, NEW K, NEW V, NEW Q, Core(x, h, M, K, V, Q),
         NEW p \in Procs, NEW t \in Places, NEW u \in Places, t # u, h[u] = 0, h[t] # 0,
         t \in {<<p, "ip">>, <<p, "tmp">>}, u[2] \in {"dp", "old", "ip", "cwd", "file"},
         DotDotFree =>
           /\ u[2] = "dp" => x.dtype[h[t]] = "dir"
           /\ u[2] = "old" => x.dtype[h[t]] # "dir"
           /\ t = <<p, "ip">> => /\ h[t] \notin M[p] /\ V[p] = 0
                                 /\ K[p] \in {0, h[<<p, "old">>]} \/ u = <<p, "old">>
  PROVE  Core(x, Move(h, t, u), M, K, V, Q)
  <1>1. /\ RefCore(x, h) /\ x \in FsRec /\ h \in [Places -> Refs] /\ h[t] \in Refs /\ 0 \in Refs
        /\ M \in [Procs -> SUBSET Inodes] /\ K \in [Procs -> Refs] /\ V \in [Procs -> Refs]
    BY CoreTypes, Numbers
  <1>l. \A j \in Inodes : x.lk[j] \in Procs \/ x.lk[j] = Nobody
    BY <1>1, LkType
  <1>3. RefCore(x, Move(h, t, u))
    BY <1>1, RefMove
  <1>4. ASSUME DotDotFree, NEW g, g = Move(h, t, u) PROVE Deep(x, g, M, K, V, Q)
    <2>1. Deep(x, h, M, K, V, Q)
      BY <1>4, CoreTypes
    <2>2. g[t] = 0 /\ g[u] = h[t] /\ \A v \in Places : v # t /\ v # u => g[v] = h[v]
      BY <1>1, <1>4 DEF Move, Upd
    <2>3. \A q \in Procs : g[<<q, "freeing">>] = h[<<q, "freeing">>]
      <3>1. ASSUME NEW q \in Procs PROVE <<q, "freeing">> # t /\ <<q, "freeing">> # u
        OBVIOUS
      <3> QED BY <2>2, <3>1, PlaceOf
    <2>5. \A j \in Inodes : BeingFreed(x, g, j) <=> BeingFreed(x, h, j)
      BY <1>l, <2>3 DEF BeingFreed
    <2>6. \A q \in Procs : g[<<q, "ip">>] = h[<<q, "ip">>] \/ h[<<q, "ip">>] = 0 \/ (q = p /\ t = <<p, "ip">>)
      <3>1. ASSUME NEW q \in Procs, t = <<q, "ip">> PROVE q = p /\ t = <<p, "ip">>
        BY <3>1
      <3> QED BY <2>2, <3>1, PlaceOf
    <2>7. \A q \in Procs : g[<<q, "dp">>] = h[<<q, "dp">>]
                           \/ (h[<<q, "dp">>] = 0 /\ u[2] = "dp" /\ g[<<q, "dp">>] = h[t])
      <3>1. ASSUME NEW q \in Procs PROVE <<q, "dp">> # t /\ (u = <<q, "dp">> => u[2] = "dp")
        OBVIOUS
      <3> QED BY <2>2, <3>1, PlaceOf
    <2>8. \A q \in Procs : g[<<q, "old">>] = h[<<q, "old">>]
                           \/ (h[<<q, "old">>] = 0 /\ u[2] = "old" /\ g[<<q, "old">>] = h[t])
      <3>1. ASSUME NEW q \in Procs PROVE <<q, "old">> # t /\ (u = <<q, "old">> => u[2] = "old")
        OBVIOUS
      <3> QED BY <2>2, <3>1, PlaceOf
    <2>9. t[2] # "freeing"
      OBVIOUS
    <2>a. DiskOK(x, K) /\ SeenOK(x, M, Q)
      BY <2>1 DEF Deep
    <2>b. HoldOK(x, g)
      <3>1. HoldOK(x, h)
        BY <2>1 DEF Deep
      <3>2. \A v \in Places : g[v] # 0 /\ v[2] # "freeing" => x.dtype[g[v]] # "none"
        BY <2>2, <2>9, <3>1 DEF HoldOK
      <3>3. \A q \in Procs : g[<<q, "dp">>] # 0 => x.dtype[g[<<q, "dp">>]] = "dir"
        BY <1>4, <2>7, <3>1 DEF HoldOK
      <3>4. \A q \in Procs : g[<<q, "old">>] # 0 => x.dtype[g[<<q, "old">>]] # "dir"
        BY <1>4, <2>8, <3>1 DEF HoldOK
      <3> QED BY <3>2, <3>3, <3>4 DEF HoldOK
    <2>c. FreeOK(g)
      BY <2>1, <2>3 DEF Deep, FreeOK
    <2>d. LockOK(x, g, M)
      <3>1. LockOK(x, h, M)
        BY <2>1 DEF Deep
      <3>2. ASSUME NEW q \in Procs, NEW j \in M[q]
            PROVE  /\ x.lk[j] = q /\ x.valid[j] /\ g[<<q, "freeing">>] # j
                   /\ j \in {g[<<q, "ip">>], g[<<q, "dp">>], g[<<q, "old">>]}
        <4>1. /\ j \in Inodes /\ x.lk[j] = q /\ x.valid[j] /\ h[<<q, "freeing">>] # j
              /\ j \in {h[<<q, "ip">>], h[<<q, "dp">>], h[<<q, "old">>]}
          BY <1>1, <3>1 DEF LockOK
        <4>2. j # 0
          BY <4>1, Numbers
        <4>3. q = p /\ t = <<p, "ip">> => h[<<q, "ip">>] # j
          BY <1>4
        <4> QED BY <2>3, <2>6, <2>7, <2>8, <4>1, <4>2, <4>3
      <3>3. \A j \in Inodes : x.lk[j] # Nobody => j \in M[x.lk[j]] \/ BeingFreed(x, g, j)
        BY <2>5, <3>1 DEF LockOK
      <3> QED BY <3>2, <3>3 DEF LockOK
    <2>e. CopyOK(x, g)
      BY <2>1, <2>5 DEF Deep, CopyOK
    <2>f. ExtraOK(g, K)
      <3>1. ASSUME NEW q \in Procs, K[q] # 0 PROVE K[q] \in {g[<<q, "ip">>], g[<<q, "old">>]}
        <4>1. K[q] \in {h[<<q, "ip">>], h[<<q, "old">>]}
          BY <2>1, <3>1 DEF Deep, ExtraOK
        <4>2. CASE ~ (q = p /\ t = <<p, "ip">>)
          BY <2>6, <2>8, <3>1, <4>1, <4>2
        <4>3. CASE q = p /\ t = <<p, "ip">> /\ u = <<p, "old">>
          BY <2>2, <3>1, <4>1, <4>3
        <4>4. CASE q = p /\ t = <<p, "ip">> /\ u # <<p, "old">>
          BY <1>4, <2>8, <3>1, <4>4
        <4> QED BY <4>2, <4>3, <4>4
      <3> QED BY <3>1 DEF ExtraOK
    <2>g. NewOK(x, g, V)
      <3>1. ASSUME NEW q \in Procs, V[q] # 0
            PROVE  /\ x.dnlink[V[q]] = 0 /\ g[<<q, "ip">>] = V[q]
                   /\ \A n \in Names : x.ents[V[q]][n] = 0
                   /\ \A v \in Places : g[v] = V[q] => v = <<q, "ip">> \/ v[2] = "freeing"
        <4>1. /\ x.dnlink[V[q]] = 0 /\ h[<<q, "ip">>] = V[q]
              /\ \A n \in Names : x.ents[V[q]][n] = 0
              /\ \A v \in Places : h[v] = V[q] => v = <<q, "ip">> \/ v[2] = "freeing"
          BY <2>1, <3>1 DEF Deep, NewOK
        <4>2. ~ (q = p /\ t = <<p, "ip">>)
          BY <1>4, <3>1
        <4>3. t # <<q, "ip">>
          BY <4>2
        <4>4. h[t] # V[q]
          BY <2>9, <4>1, <4>3
        <4> QED BY <2>2, <2>6, <3>1, <4>1, <4>2, <4>4
      <3> QED BY <3>1 DEF NewOK
    <2> QED BY <2>a, <2>b, <2>c, <2>d, <2>e, <2>f, <2>g DEF Deep
  <1> QED BY <1>1, <1>3, <1>4 DEF Core

\* Only files are counted otherwise.
LEMMA CoreFile ==
  ASSUME NEW x, NEW h, NEW M, NEW K, NEW V, NEW Q, Core(x, h, M, K, V, Q),
         NEW y \in FsRec, SameDisk(x, y), SameCopy(x, y), y.panic = x.panic, y.lk = x.lk, y.ref = x.ref
  PROVE  Core(y, h, M, K, V, Q)
  <1>1. RefCore(y, h)
    BY CoreTypes, RefSame
  <1>2. ASSUME DotDotFree PROVE Deep(y, h, M, K, V, Q)
    <2>1. Deep(x, h, M, K, V, Q)
      BY <1>2, CoreTypes
    <2>2. DiskOK(y, K)
      BY <2>1, DiskSame DEF Deep
    <2>3. HoldOK(y, h) /\ FreeOK(h) /\ ExtraOK(h, K) /\ SeenOK(y, M, Q)
      BY <2>1 DEF Deep, HoldOK, SeenOK, SameDisk
    <2>4. LockOK(y, h, M)
      BY <2>1 DEF Deep, LockOK, BeingFreed, SameCopy
    <2>5. CopyOK(y, h)
      BY <2>1 DEF Deep, CopyOK, BeingFreed, SameCopy, SameDisk
    <2>6. NewOK(y, h, V)
      BY <2>1 DEF Deep, NewOK, SameDisk
    <2> QED BY <2>2, <2>3, <2>4, <2>5, <2>6 DEF Deep
  <1> QED BY <1>1, <1>2 DEF Core

\* The entries that others than p have seen.
Other(Q, p) == {s \in Q : s[1] # p}
Quiet(Q, p) == \A s \in Q : s[1] # p
\* Without what p has looked up, p is quiet.
LEMMA OtherQuiet == \A Q, p : Quiet(Other(Q, p), p)
  BY DEF Quiet, Other
\* A process may forget what it has looked up, ...
LEMMA CoreUnsee ==
  ASSUME NEW x, NEW h, NEW M, NEW K, NEW V, NEW Q, Core(x, h, M, K, V, Q), NEW p
  PROVE  Core(x, h, M, K, V, Other(Q, p))
  BY DEF Core, Deep, SeenOK, Other
\* ... and look at a directory it has locked.
LEMMA CoreSee ==
  ASSUME NEW x, NEW h, NEW M, NEW K, NEW V, NEW Q, Core(x, h, M, K, V, Q),
         NEW p \in Procs, NEW d, NEW n, NEW j,
         DotDotFree => d \in M[p] /\ n \in Names /\ j \in Refs /\ x.ents[d][n] = j
  PROVE  Core(x, h, M, K, V, Q \cup {<<p, d, n, j>>})
  <1>1. M \in [Procs -> SUBSET Inodes] /\ (DotDotFree => Deep(x, h, M, K, V, Q))
    BY CoreTypes
  <1>2. ASSUME DotDotFree PROVE SeenOK(x, M, Q \cup {<<p, d, n, j>>})
    BY <1>1, <1>2 DEF Deep, SeenOK
  <1> QED BY <1>1, <1>2 DEF Core, Deep

\* An inode is no longer new.
LEMMA CoreOld ==
  ASSUME NEW x, NEW h, NEW M, NEW K, NEW V, NEW Q, Core(x, h, M, K, V, Q), NEW p \in Procs
  PROVE  Core(x, h, M, K, Upd(V, p, 0), Q)
  <1>1. /\ V \in [Procs -> Refs] /\ Upd(V, p, 0) \in [Procs -> Refs]
        /\ \A q \in Procs : Upd(V, p, 0)[q] \in {0, V[q]}
    BY CoreTypes, Numbers DEF Upd
  <1>2. ASSUME DotDotFree, NEW W, W = Upd(V, p, 0) PROVE NewOK(x, h, W)
    <2>1. NewOK(x, h, V)
      BY <1>2, CoreTypes DEF Deep
    <2>2. \A q \in Procs : W[q] # 0 => W[q] = V[q]
      BY <1>1, <1>2
    <2> QED BY <2>1, <2>2 DEF NewOK
  <1> QED BY <1>1, <1>2 DEF Core, Deep

-----------------------------------------------------------------------------
(* An inode is locked and unlocked.                                        *)

\* ilock() of an inode that the process refers to.
LEMMA CoreLock ==
  ASSUME NEW x, NEW h, NEW M, NEW K, NEW V, NEW Q, Core(x, h, M, K, V, Q),
         NEW p \in Procs, NEW i \in Inodes, x.lk[i] = Nobody, h[<<p, "freeing">>] = 0,
         i \in {h[<<p, "ip">>], h[<<p, "dp">>], h[<<p, "old">>]},
         NEW y, y = ilock(x, p, i)
  PROVE  Core(y, h, Upd(M, p, M[p] \cup {i}), K, V, Q)
  <1>1. /\ RefCore(x, h) /\ x \in FsRec /\ h \in [Places -> Refs]
        /\ M \in [Procs -> SUBSET Inodes] /\ K \in [Procs -> Refs] /\ V \in [Procs -> Refs]
    BY CoreTypes
  <1>2. /\ y \in FsRec /\ SameDisk(x, y) /\ y.file = x.file /\ y.ref = x.ref
        /\ x.dtype[i] # "none" => y.panic = x.panic
    BY <1>1, IlockIs
  <1>d. y.dtype = x.dtype /\ y.dnlink = x.dnlink /\ y.ents = x.ents
    BY <1>2 DEF SameDisk
  <1>l. \A j \in Inodes : x.lk[j] \in Procs \/ x.lk[j] = Nobody
    BY <1>1, LkType
  <1>v. /\ y.lk[i] = p /\ y.valid[i] /\ \A j \in Inodes : j # i => y.lk[j] = x.lk[j] /\ (y.valid[j] <=> x.valid[j])
        /\ y.type[i] = (IF x.valid[i] THEN x.type[i] ELSE x.dtype[i])
        /\ y.nlink[i] = (IF x.valid[i] THEN x.nlink[i] ELSE x.dnlink[i])
        /\ \A j \in Inodes : j # i => y.type[j] = x.type[j] /\ y.nlink[j] = x.nlink[j]
    BY <1>1, IlockIs
  <1>3. RefCore(y, h)
    BY <1>1, <1>2, RefSame
  <1>m. /\ Upd(M, p, M[p] \cup {i}) \in [Procs -> SUBSET Inodes] /\ Upd(M, p, M[p] \cup {i})[p] = M[p] \cup {i}
        /\ \A q \in Procs : q # p => Upd(M, p, M[p] \cup {i})[q] = M[q]
    BY <1>1 DEF Upd
  <1>4. ASSUME DotDotFree, NEW N, N = Upd(M, p, M[p] \cup {i}) PROVE Deep(y, h, N, K, V, Q)
    <2>1. Deep(x, h, M, K, V, Q)
      BY <1>4, CoreTypes
    <2>2. x.dtype[i] # "none"
      <3>1. PICK u \in Places : h[u] = i /\ u[2] # "freeing"
        BY PlaceOf
      <3> QED BY <2>1, <3>1, Numbers DEF Deep, HoldOK
    <2>3. y.panic = x.panic
      BY <1>2, <2>2
    <2>5. \A j \in Inodes : j # i => (BeingFreed(y, h, j) <=> BeingFreed(x, h, j))
      BY <1>v, <1>l DEF BeingFreed
    <2>6. ~ BeingFreed(y, h, i) /\ ~ BeingFreed(x, h, i)
      BY <1>v, Numbers DEF BeingFreed
    <2>a. DiskOK(y, K)
      BY <1>2, <2>1, <2>3, DiskSame DEF Deep
    <2>b. HoldOK(y, h) /\ FreeOK(h) /\ ExtraOK(h, K)
      BY <1>d, <2>1 DEF Deep, HoldOK
    <2>d. LockOK(y, h, N)
      <3>1. LockOK(x, h, M)
        BY <2>1 DEF Deep
      <3>2. ASSUME NEW q \in Procs, NEW j \in N[q]
            PROVE  /\ y.lk[j] = q /\ y.valid[j] /\ h[<<q, "freeing">>] # j
                   /\ j \in {h[<<q, "ip">>], h[<<q, "dp">>], h[<<q, "old">>]}
        <4>1. CASE j \in M[q]
          <5>1. /\ j \in Inodes /\ x.lk[j] = q /\ x.valid[j] /\ h[<<q, "freeing">>] # j
                /\ j \in {h[<<q, "ip">>], h[<<q, "dp">>], h[<<q, "old">>]}
            BY <1>1, <3>1, <4>1 DEF LockOK
          <5>2. j # i
            BY <5>1, FsAssumption
          <5> QED BY <1>v, <5>1, <5>2
        <4>2. CASE j \notin M[q]
          <5>1. q = p /\ j = i
            BY <1>m, <1>4, <3>2, <4>2
          <5> QED BY <1>v, <5>1, Numbers
        <4> QED BY <4>1, <4>2
      <3>3. ASSUME NEW j \in Inodes, y.lk[j] # Nobody PROVE j \in N[y.lk[j]] \/ BeingFreed(y, h, j)
        <4>1. CASE j = i
          BY <1>v, <1>m, <1>4, <4>1
        <4>2. CASE j # i
          <5>1. x.lk[j] \in Procs /\ y.lk[j] = x.lk[j]
            BY <1>l, <1>v, <3>3, <4>2
          <5>2. j \in M[x.lk[j]] \/ BeingFreed(x, h, j)
            BY <3>1, <3>3, <5>1 DEF LockOK
          <5>3. j \in M[x.lk[j]] => j \in N[x.lk[j]]
            BY <1>m, <1>4, <5>1
          <5> QED BY <2>5, <4>2, <5>1, <5>2, <5>3
        <4> QED BY <4>1, <4>2
      <3> QED BY <3>2, <3>3 DEF LockOK
    <2>e. CopyOK(y, h)
      <3>1. CopyOK(x, h)
        BY <2>1 DEF Deep
      <3>2. \A j \in Inodes : j # i => (y.valid[j] /\ ~BeingFreed(y, h, j) =>
                  y.dtype[j] # "none" /\ y.type[j] = y.dtype[j] /\ y.nlink[j] = y.dnlink[j])
        BY <1>d, <1>v, <2>5, <3>1 DEF CopyOK
      <3>3. y.dtype[i] # "none" /\ y.type[i] = y.dtype[i] /\ y.nlink[i] = y.dnlink[i]
        BY <1>d, <1>v, <2>2, <2>6, <3>1 DEF CopyOK
      <3> QED BY <3>2, <3>3 DEF CopyOK
    <2>g. NewOK(y, h, V)
      BY <1>d, <2>1 DEF Deep, NewOK
    <2>h. SeenOK(y, N, Q)
      <3>1. SeenOK(x, M, Q) /\ \A q \in Procs : M[q] \subseteq N[q]
        BY <1>m, <1>4, <2>1 DEF Deep
      <3> QED BY <1>d, <3>1 DEF SeenOK
    <2> QED BY <2>a, <2>b, <2>d, <2>e, <2>g, <2>h DEF Deep
  <1> QED BY <1>1, <1>3, <1>4, <1>m DEF Core

\* iunlock() of an inode the process has locked.
LEMMA CoreUnlock ==
  ASSUME NEW x, NEW h, NEW M, NEW K, NEW V, NEW Q, Core(x, h, M, K, V, Q),
         NEW p \in Procs, NEW i \in Inodes, DotDotFree => i \in M[p], Quiet(Q, p),
         NEW y, y = iunlock(x, i)
  PROVE  Core(y, h, Upd(M, p, M[p] \ {i}), K, V, Q)
  <1>1. /\ RefCore(x, h) /\ x \in FsRec /\ h \in [Places -> Refs]
        /\ M \in [Procs -> SUBSET Inodes] /\ K \in [Procs -> Refs] /\ V \in [Procs -> Refs]
    BY CoreTypes
  <1>2. /\ y \in FsRec /\ SameDisk(x, y) /\ SameCopy(x, y) /\ y.panic = x.panic
        /\ y.file = x.file /\ y.ref = x.ref
    BY <1>1, IunlockIs
  <1>d. /\ y.dtype = x.dtype /\ y.dnlink = x.dnlink /\ y.ents = x.ents /\ y.valid = x.valid
        /\ y.type = x.type /\ y.nlink = x.nlink
    BY <1>2 DEF SameDisk, SameCopy
  <1>l. \A j \in Inodes : x.lk[j] \in Procs \/ x.lk[j] = Nobody
    BY <1>1, LkType
  <1>v. y.lk[i] = Nobody /\ \A j \in Inodes : j # i => y.lk[j] = x.lk[j]
    BY <1>1, IunlockIs
  <1>3. RefCore(y, h)
    BY <1>1, <1>2, RefSame
  <1>m. /\ Upd(M, p, M[p] \ {i}) \in [Procs -> SUBSET Inodes] /\ Upd(M, p, M[p] \ {i})[p] = M[p] \ {i}
        /\ \A q \in Procs : q # p => Upd(M, p, M[p] \ {i})[q] = M[q]
    BY <1>1 DEF Upd
  <1>4. ASSUME DotDotFree, NEW N, N = Upd(M, p, M[p] \ {i}) PROVE Deep(y, h, N, K, V, Q)
    <2>1. Deep(x, h, M, K, V, Q)
      BY <1>4, CoreTypes
    <2>2. LockOK(x, h, M) /\ i \in M[p]
      BY <1>4, <2>1 DEF Deep
    <2>3. x.lk[i] = p /\ h[<<p, "freeing">>] # i
      BY <2>2 DEF LockOK
    <2>5. \A j \in Inodes : j # i => (BeingFreed(y, h, j) <=> BeingFreed(x, h, j))
      BY <1>v, <1>l DEF BeingFreed
    <2>6. ~ BeingFreed(y, h, i) /\ ~ BeingFreed(x, h, i)
      BY <1>v, <2>3 DEF BeingFreed
    <2>a. DiskOK(y, K)
      BY <1>2, <2>1, DiskSame DEF Deep
    <2>b. HoldOK(y, h) /\ FreeOK(h) /\ ExtraOK(h, K)
      BY <1>d, <2>1 DEF Deep, HoldOK
    <2>d. LockOK(y, h, N)
      <3>2. ASSUME NEW q \in Procs, NEW j \in N[q]
            PROVE  /\ y.lk[j] = q /\ y.valid[j] /\ h[<<q, "freeing">>] # j
                   /\ j \in {h[<<q, "ip">>], h[<<q, "dp">>], h[<<q, "old">>]}
        <4>1. j \in M[q] /\ (q = p => j # i)
          BY <1>m, <1>4, <3>2
        <4>2. /\ j \in Inodes /\ x.lk[j] = q /\ x.valid[j] /\ h[<<q, "freeing">>] # j
              /\ j \in {h[<<q, "ip">>], h[<<q, "dp">>], h[<<q, "old">>]}
          BY <1>1, <2>2, <4>1 DEF LockOK
        <4>3. j # i
          BY <2>3, <4>1, <4>2
        <4> QED BY <1>d, <1>v, <4>2, <4>3
      <3>3. ASSUME NEW j \in Inodes, y.lk[j] # Nobody PROVE j \in N[y.lk[j]] \/ BeingFreed(y, h, j)
        <4>1. j # i
          BY <1>v, <3>3
        <4>2. x.lk[j] \in Procs /\ y.lk[j] = x.lk[j] /\ x.lk[j] # Nobody
          BY <1>l, <1>v, <3>3, <4>1
        <4>3. j \in M[x.lk[j]] \/ BeingFreed(x, h, j)
          BY <2>2, <4>2 DEF LockOK
        <4>4. j \in M[x.lk[j]] => j \in N[x.lk[j]]
          BY <1>m, <1>4, <4>1, <4>2
        <4> QED BY <2>5, <4>1, <4>2, <4>3, <4>4
      <3> QED BY <3>2, <3>3 DEF LockOK
    <2>e. CopyOK(y, h)
      BY <1>d, <2>1, <2>5, <2>6 DEF Deep, CopyOK
    <2>g. NewOK(y, h, V)
      BY <1>d, <2>1 DEF Deep, NewOK
    <2>h. SeenOK(y, N, Q)
      <3>1. SeenOK(x, M, Q) /\ \A q \in Procs : q # p => M[q] = N[q]
        BY <1>m, <1>4, <2>1 DEF Deep
      <3>2. ASSUME NEW s \in Q PROVE s[1] \in Procs /\ s[1] # p /\ s[2] \in M[s[1]] /\ x.ents[s[2]][s[3]] = s[4]
        BY <3>1 DEF SeenOK, Quiet
      <3> QED BY <1>d, <3>1, <3>2 DEF SeenOK
    <2> QED BY <2>a, <2>b, <2>d, <2>e, <2>g, <2>h DEF Deep
  <1> QED BY <1>1, <1>3, <1>4, <1>m DEF Core

\* An inode is locked and unlocked again.
LEMMA CoreTouch ==
  ASSUME NEW x, NEW h, NEW M, NEW K, NEW V, NEW Q, Core(x, h, M, K, V, Q),
         NEW p \in Procs, NEW i \in Inodes, x.lk[i] = Nobody, NEW t \in Places, h[t] = i, t[2] # "freeing",
         NEW y, y = iunlock(ilock(x, p, i), i)
  PROVE  Core(y, h, M, K, V, Q)
  <1>1. /\ RefCore(x, h) /\ x \in FsRec /\ h \in [Places -> Refs]
        /\ M \in [Procs -> SUBSET Inodes] /\ K \in [Procs -> Refs] /\ V \in [Procs -> Refs]
    BY CoreTypes
  <1>0. PICK z : z = ilock(x, p, i)
    OBVIOUS
  <1>2. /\ z \in FsRec /\ SameDisk(x, z) /\ z.file = x.file /\ z.ref = x.ref
        /\ z.lk[i] = p /\ z.valid[i]
        /\ z.type[i] = (IF x.valid[i] THEN x.type[i] ELSE x.dtype[i])
        /\ z.nlink[i] = (IF x.valid[i] THEN x.nlink[i] ELSE x.dnlink[i])
        /\ \A j \in Inodes : j # i => /\ z.lk[j] = x.lk[j] /\ (z.valid[j] <=> x.valid[j])
                                   /\ z.type[j] = x.type[j] /\ z.nlink[j] = x.nlink[j]
        /\ x.dtype[i] # "none" => z.panic = x.panic
    BY <1>0, <1>1, IlockIs
  <1>4. /\ y \in FsRec /\ SameDisk(z, y) /\ SameCopy(z, y) /\ y.panic = z.panic
        /\ y.file = z.file /\ y.ref = z.ref
        /\ y.lk[i] = Nobody /\ \A j \in Inodes : j # i => y.lk[j] = z.lk[j]
    BY <1>0, <1>2, IunlockIs
  <1>d. y.dtype = x.dtype /\ y.dnlink = x.dnlink /\ y.ents = x.ents /\ SameDisk(x, y)
    BY <1>2, <1>4 DEF SameDisk
  <1>v. /\ y.lk[i] = Nobody /\ y.valid[i]
        /\ \A j \in Inodes : j # i => y.lk[j] = x.lk[j] /\ (y.valid[j] <=> x.valid[j])
        /\ y.type[i] = (IF x.valid[i] THEN x.type[i] ELSE x.dtype[i])
        /\ y.nlink[i] = (IF x.valid[i] THEN x.nlink[i] ELSE x.dnlink[i])
        /\ \A j \in Inodes : j # i => y.type[j] = x.type[j] /\ y.nlink[j] = x.nlink[j]
    BY <1>2, <1>4 DEF SameCopy
  <1>k. \A j \in Inodes : y.lk[j] = x.lk[j]
    BY <1>v
  <1>3. RefCore(y, h)
    BY <1>1, <1>2, <1>4, RefSame
  <1>5. ASSUME DotDotFree PROVE Deep(y, h, M, K, V, Q)
    <2>1. Deep(x, h, M, K, V, Q)
      BY <1>5, CoreTypes
    <2>2. x.dtype[i] # "none"
      BY <2>1, Numbers DEF Deep, HoldOK
    <2>3. y.panic = x.panic
      BY <1>2, <1>4, <2>2
    <2>5. \A j \in Inodes : BeingFreed(y, h, j) <=> BeingFreed(x, h, j)
      BY <1>k DEF BeingFreed
    <2>6. ~ BeingFreed(x, h, i)
      BY DEF BeingFreed
    <2>a. DiskOK(y, K)
      BY <1>d, <2>1, <2>3, DiskSame DEF Deep
    <2>b. HoldOK(y, h) /\ FreeOK(h) /\ ExtraOK(h, K)
      BY <1>d, <2>1 DEF Deep, HoldOK
    <2>d. LockOK(y, h, M)
      <3>1. LockOK(x, h, M)
        BY <2>1 DEF Deep
      <3>2. ASSUME NEW q \in Procs, NEW j \in M[q]
            PROVE  /\ y.lk[j] = q /\ y.valid[j] /\ h[<<q, "freeing">>] # j
                   /\ j \in {h[<<q, "ip">>], h[<<q, "dp">>], h[<<q, "old">>]}
        <4>1. /\ j \in Inodes /\ x.lk[j] = q /\ x.valid[j] /\ h[<<q, "freeing">>] # j
              /\ j \in {h[<<q, "ip">>], h[<<q, "dp">>], h[<<q, "old">>]}
          BY <1>1, <3>1 DEF LockOK
        <4> QED BY <1>v, <1>k, <4>1
      <3>3. \A j \in Inodes : y.lk[j] # Nobody => j \in M[y.lk[j]] \/ BeingFreed(y, h, j)
        BY <1>k, <2>5, <3>1 DEF LockOK
      <3> QED BY <3>2, <3>3 DEF LockOK
    <2>e. CopyOK(y, h)
      <3>1. CopyOK(x, h)
        BY <2>1 DEF Deep
      <3>2. \A j \in Inodes : j # i => (y.valid[j] /\ ~BeingFreed(y, h, j) =>
                  y.dtype[j] # "none" /\ y.type[j] = y.dtype[j] /\ y.nlink[j] = y.dnlink[j])
        BY <1>d, <1>v, <2>5, <3>1 DEF CopyOK
      <3>3. y.dtype[i] # "none" /\ y.type[i] = y.dtype[i] /\ y.nlink[i] = y.dnlink[i]
        BY <1>d, <1>v, <2>2, <2>6, <3>1 DEF CopyOK
      <3> QED BY <3>2, <3>3 DEF CopyOK
    <2>g. NewOK(y, h, V)
      BY <1>d, <2>1 DEF Deep, NewOK
    <2>h. SeenOK(y, M, Q)
      BY <1>d, <2>1 DEF Deep, SeenOK
    <2> QED BY <2>a, <2>b, <2>d, <2>e, <2>g, <2>h DEF Deep
  <1> QED BY <1>1, <1>3, <1>5 DEF Core

-----------------------------------------------------------------------------
(* Counting links.                                                         *)

\* The entries that name an inode, and its subdirectories, are finitely many.
LEMMA LinksFinite ==
  ASSUME NEW E, NEW T, NEW K, NEW i
  PROVE  /\ IsFiniteSet(EntriesOf(E, i)) /\ Cardinality(EntriesOf(E, i)) \in Nat
         /\ IsFiniteSet(SubdirsOf(E, T, i)) /\ Cardinality(SubdirsOf(E, T, i)) \in Nat
         /\ IsFiniteSet(Pending(K, i)) /\ Cardinality(Pending(K, i)) \in Nat
  <1>1. IsFiniteSet(Inodes)
    BY Numbers, FS_Interval DEF Inodes
  <1>2. IsFiniteSet(Inodes \X Names)
    BY <1>1, FsAssumption, FS_Product
  <1>3. PICK A : A = EntriesOf(E, i)
    OBVIOUS
  <1>4. PICK B : B = SubdirsOf(E, T, i)
    OBVIOUS
  <1>5. PICK C : C = Pending(K, i)
    OBVIOUS
  <1>6. A \subseteq Inodes \X Names /\ B \subseteq Names /\ C \subseteq Procs
    BY <1>3, <1>4, <1>5 DEF EntriesOf, SubdirsOf, Pending
  <1>7. IsFiniteSet(A) /\ IsFiniteSet(B) /\ IsFiniteSet(C)
    BY <1>2, <1>6, FsAssumption, FS_Subset
  <1> QED BY <1>3, <1>4, <1>5, <1>7, FS_CardinalityType

\* An inode that has no links has no entries, and is nobody's that is about to give up a link.
LEMMA NoLinks ==
  ASSUME NEW x \in FsRec, NEW K \in [Procs -> Refs], LinkOK(x, K), NEW i \in Inodes,
         x.dtype[i] # "none", x.dnlink[i] = 0
  PROVE  /\ x.lost[i] = 0 /\ i # ROOTINO
         /\ \A d \in Inodes, n \in Names : x.ents[d][n] # i
         /\ \A n \in Names : x.ents[i][n] # 0 => x.dtype[x.ents[i][n]] # "dir"
         /\ \A p \in Procs : K[p] # i
  <1>1. PICK A : A = EntriesOf(x.ents, i)
    OBVIOUS
  <1>2. PICK B : B = SubdirsOf(x.ents, x.dtype, i)
    OBVIOUS
  <1>3. PICK C : C = Pending(K, i)
    OBVIOUS
  <1>4. /\ IsFiniteSet(A) /\ Cardinality(A) \in Nat /\ IsFiniteSet(B) /\ Cardinality(B) \in Nat
        /\ IsFiniteSet(C) /\ Cardinality(C) \in Nat
    BY <1>1, <1>2, <1>3, LinksFinite
  <1>5. PICK a \in Nat : a = Cardinality(A)
    BY <1>4
  <1>6. PICK b \in Nat : b = Cardinality(B)
    BY <1>4
  <1>7. PICK e \in Nat : e = Cardinality(C)
    BY <1>4
  <1>l. x.lost[i] \in Int /\ x.lost[i] >= 0
    BY FsTypes DEF LinkOK
  <1>8. PICK l \in Nat : l = x.lost[i]
    BY <1>l
  <1>r. PICK r \in {0, 1} : r = IF i = ROOTINO THEN 1 ELSE 0
    OBVIOUS
  <1>9. 0 = (a + b + l + r) + e
    <2>1. x.dnlink[i] = LinksOf(x, i) + Cardinality(Pending(K, i))
      BY DEF LinkOK
    <2>2. LinksOf(x, i) = a + b + l + r
      BY <1>1, <1>2, <1>5, <1>6, <1>8, <1>r DEF LinksOf
    <2> QED BY <1>3, <1>7, <2>1, <2>2
  <1>z. a = 0 /\ b = 0 /\ e = 0 /\ l = 0 /\ r = 0
    BY <1>9
  <1>10. a = 0 /\ b = 0 /\ e = 0 /\ x.lost[i] = 0 /\ i # ROOTINO
    BY <1>z, <1>8, <1>r
  <1>11. A = {} /\ B = {} /\ C = {}
    BY <1>4, <1>5, <1>6, <1>7, <1>10, FS_EmptySet
  <1>12. ASSUME NEW d \in Inodes, NEW n \in Names, x.ents[d][n] = i PROVE FALSE
    <2>1. <<d, n>> \in A
      BY <1>1, <1>12 DEF EntriesOf
    <2> QED BY <1>11, <2>1
  <1>13. \A n \in Names : x.ents[i][n] # 0 => x.dtype[x.ents[i][n]] # "dir"
    BY <1>2, <1>11 DEF SubdirsOf
  <1>14. \A p \in Procs : K[p] # i
    BY <1>3, <1>11 DEF Pending
  <1> QED BY <1>10, <1>12, <1>13, <1>14

\* The directory i is erased.
LEMMA EntriesErased ==
  ASSUME NEW x, NEW y, NEW i \in Inodes, NEW j \in Inodes,
         \A n \in Names : y.ents[i][n] = 0, \A d \in Inodes : d # i => y.ents[d] = x.ents[d]
  PROVE  Cardinality(EntriesOf(x.ents, j)) = Cardinality(EntriesOf(y.ents, j)) + Cardinality(Named(x, i, j))
  <1>1. PICK A : A = EntriesOf(y.ents, j)
    OBVIOUS
  <1>2. PICK N : N = Named(x, i, j)
    OBVIOUS
  <1>3. PICK B : B = {i} \X N
    OBVIOUS
  <1>4. IsFiniteSet(A) /\ Cardinality(A) \in Nat /\ IsFiniteSet(N) /\ Cardinality(N) \in Nat
    BY <1>1, <1>2, LinksFinite, NamedFinite
  <1>5. IsFiniteSet({i}) /\ Cardinality({i}) = 1
    BY FS_Singleton
  <1>6. IsFiniteSet(B) /\ Cardinality(B) = Cardinality(N)
    BY <1>3, <1>4, <1>5, FS_Product, SMTT(30)
  <1>7. A \cap B = {}
    BY <1>1, <1>2, <1>3, Numbers DEF EntriesOf, Named
  <1>8. EntriesOf(x.ents, j) = A \cup B
    <2>1. ASSUME NEW e \in Inodes \X Names PROVE x.ents[e[1]][e[2]] = j <=> e \in A \cup B
      <3>1. PICK d \in Inodes, n \in Names : e = <<d, n>>
        OBVIOUS
      <3>2. CASE d = i
        BY <1>1, <1>2, <1>3, <3>1, <3>2, Numbers DEF EntriesOf, Named
      <3>3. CASE d # i
        BY <1>1, <1>2, <1>3, <3>1, <3>3 DEF EntriesOf, Named
      <3> QED BY <3>2, <3>3
    <2>2. A \cup B \subseteq Inodes \X Names
      BY <1>1, <1>2, <1>3 DEF EntriesOf, Named
    <2> QED BY <2>1, <2>2 DEF EntriesOf
  <1>9. Cardinality(A \cup B) = Cardinality(A) + Cardinality(B) - Cardinality(A \cap B)
    BY <1>4, <1>6, FS_Union
  <1>10. Cardinality(A \cap B) = 0
    BY <1>7, FS_EmptySet
  <1> QED BY <1>1, <1>2, <1>4, <1>6, <1>8, <1>9, <1>10

-----------------------------------------------------------------------------
(* iput()                                                                  *)

\* The hold that is left of iput() at place t by p.
PutRef(x, h, t, p) == IF Last(x, h[t]) THEN Move(h, t, <<p, "freeing">>) ELSE Upd(h, t, 0)

\* An iput() that does not free the inode.
LEMMA CorePutDrop ==
  ASSUME NEW x, NEW h, NEW M, NEW K, NEW V, NEW Q, Core(x, h, M, K, V, Q),
         NEW p \in Procs, NEW i \in Inodes, NEW t \in Places, h[t] = i,
         t \in {<<p, "ip">>, <<p, "dp">>, <<p, "old">>, <<p, "cwd">>} \/ t[2] = "file",
         DotDotFree =>
           /\ i \notin M[p]
           /\ K[p] # 0 => K[p] \in {Upd(h, t, 0)[<<p, "ip">>], Upd(h, t, 0)[<<p, "old">>]}
           /\ V[p] # 0 => t # <<p, "ip">>,
         NEW y, y = Drop(x, i)
  PROVE  Core(y, Upd(h, t, 0), M, K, V, Q)
  <1>1. /\ RefCore(x, h) /\ x \in FsRec /\ h \in [Places -> Refs] /\ 0 \in Refs
        /\ M \in [Procs -> SUBSET Inodes] /\ K \in [Procs -> Refs] /\ V \in [Procs -> Refs]
    BY CoreTypes, Numbers
  <1>2. /\ y \in FsRec /\ SameDisk(x, y) /\ y.panic = x.panic /\ y.lk = x.lk /\ y.file = x.file
        /\ y.ref[i] = x.ref[i] - 1 /\ (\A j \in Inodes : j # i => y.ref[j] = x.ref[j])
        /\ x.ref[i] > 1 => SameCopy(x, y)
        /\ ~ (x.ref[i] > 1) => ~ y.valid[i]
        /\ \A j \in Inodes : j # i => /\ y.valid[j] <=> x.valid[j]
                                   /\ y.type[j] = x.type[j] /\ y.nlink[j] = x.nlink[j]
    BY <1>1, DropIs
  <1>d. y.dtype = x.dtype /\ y.dnlink = x.dnlink /\ y.ents = x.ents
    BY <1>2 DEF SameDisk
  <1>l. \A j \in Inodes : x.lk[j] \in Procs \/ x.lk[j] = Nobody
    BY <1>1, LkType
  <1>v. \A j \in Inodes : j # i \/ x.ref[i] > 1 => /\ y.valid[j] <=> x.valid[j]
                                                   /\ y.type[j] = x.type[j] /\ y.nlink[j] = x.nlink[j]
    BY <1>2 DEF SameCopy
  <1>3. RefCore(y, Upd(h, t, 0))
    <2>1. \A k \in Inodes : y.ref[k] = x.ref[k] - Hit(h[t], k) + Hit(0, k)
      BY <1>1, <1>2, FsTypes, Numbers DEF Hit
    <2>2. RefCore(x, h) /\ t \in Places /\ 0 \in Refs /\ y \in FsRec
      BY <1>1, <1>2
    <2> QED BY <2>1, <2>2, RefUpdate
  <1>4. ASSUME DotDotFree, NEW g, g = Upd(h, t, 0) PROVE Deep(y, g, M, K, V, Q)
    <2>1. Deep(x, h, M, K, V, Q)
      BY <1>4, CoreTypes
    <2>2. g[t] = 0 /\ \A v \in Places : v # t => g[v] = h[v]
      BY <1>1, <1>4, UpdPlace
    <2>3. \A q \in Procs : g[<<q, "freeing">>] = h[<<q, "freeing">>]
      <3>1. ASSUME NEW q \in Procs PROVE <<q, "freeing">> # t
        OBVIOUS
      <3> QED BY <2>2, <3>1, PlaceOf
    <2>5. \A j \in Inodes : BeingFreed(y, g, j) <=> BeingFreed(x, h, j)
      BY <1>2, <1>l, <2>3 DEF BeingFreed
    <2>6. \A q \in Procs : q # p => /\ g[<<q, "ip">>] = h[<<q, "ip">>] /\ g[<<q, "dp">>] = h[<<q, "dp">>]
                                    /\ g[<<q, "old">>] = h[<<q, "old">>]
      <3>1. ASSUME NEW q \in Procs, q # p PROVE <<q, "ip">> # t /\ <<q, "dp">> # t /\ <<q, "old">> # t
        BY <3>1
      <3> QED BY <2>2, <3>1, PlaceOf
    <2>7. \A v \in Places : g[v] # 0 => g[v] = h[v]
      BY <2>2
    <2>a. DiskOK(y, K)
      BY <1>2, <2>1, DiskSame DEF Deep
    <2>b. HoldOK(y, g)
      <3>1. HoldOK(x, h)
        BY <2>1 DEF Deep
      <3>2. \A v \in Places : g[v] # 0 /\ v[2] # "freeing" => y.dtype[g[v]] # "none"
        BY <1>d, <2>7, <3>1 DEF HoldOK
      <3>3. \A q \in Procs : g[<<q, "dp">>] # 0 => y.dtype[g[<<q, "dp">>]] = "dir"
        BY <1>d, <2>7, <3>1, PlaceOf DEF HoldOK
      <3>4. \A q \in Procs : g[<<q, "old">>] # 0 => y.dtype[g[<<q, "old">>]] # "dir"
        BY <1>d, <2>7, <3>1, PlaceOf DEF HoldOK
      <3> QED BY <3>2, <3>3, <3>4 DEF HoldOK
    <2>c. FreeOK(g)
      BY <2>1, <2>3 DEF Deep, FreeOK
    <2>d. LockOK(y, g, M)
      <3>1. LockOK(x, h, M)
        BY <2>1 DEF Deep
      <3>2. ASSUME NEW q \in Procs, NEW j \in M[q]
            PROVE  /\ y.lk[j] = q /\ y.valid[j] /\ g[<<q, "freeing">>] # j
                   /\ j \in {g[<<q, "ip">>], g[<<q, "dp">>], g[<<q, "old">>]}
        <4>1. /\ j \in Inodes /\ x.lk[j] = q /\ x.valid[j] /\ h[<<q, "freeing">>] # j
              /\ j \in {h[<<q, "ip">>], h[<<q, "dp">>], h[<<q, "old">>]}
          BY <1>1, <3>1 DEF LockOK
        <4>2. CASE q = p
          <5>1. j # i
            BY <1>4, <4>2
          <5>2. \A v \in Places : h[v] = j => g[v] = j
            BY <2>2, <5>1
          <5> QED BY <1>2, <1>v, <2>3, <4>1, <5>1, <5>2, PlaceOf
        <4>3. CASE q # p
          <5>1. j \in {g[<<q, "ip">>], g[<<q, "dp">>], g[<<q, "old">>]}
            BY <2>6, <4>1, <4>3
          <5>2. PICK v \in Places : g[v] = j
            BY <5>1, PlaceOf
          <5>3. v # t /\ h[v] = j
            BY <2>2, <4>1, <5>2, Numbers
          <5>4. j = i => x.ref[i] > 1
            BY <1>1, <5>3, RefOne
          <5> QED BY <1>2, <1>v, <2>3, <4>1, <5>1, <5>4
        <4> QED BY <4>2, <4>3
      <3>3. \A j \in Inodes : y.lk[j] # Nobody => j \in M[y.lk[j]] \/ BeingFreed(y, g, j)
        BY <1>2, <2>5, <3>1 DEF LockOK
      <3> QED BY <3>2, <3>3 DEF LockOK
    <2>e. CopyOK(y, g)
      <3>1. \A j \in Inodes : y.valid[j] => j # i \/ x.ref[i] > 1
        BY <1>2
      <3> QED BY <1>d, <1>v, <2>1, <2>5, <3>1 DEF Deep, CopyOK
    <2>f. ExtraOK(g, K)
      <3>1. ASSUME NEW q \in Procs, K[q] # 0 PROVE K[q] \in {g[<<q, "ip">>], g[<<q, "old">>]}
        <4>1. K[q] \in {h[<<q, "ip">>], h[<<q, "old">>]}
          BY <2>1, <3>1 DEF Deep, ExtraOK
        <4> QED BY <1>4, <2>6, <3>1, <4>1
      <3> QED BY <3>1 DEF ExtraOK
    <2>g. NewOK(y, g, V)
      <3>1. ASSUME NEW q \in Procs, V[q] # 0
            PROVE  /\ y.dnlink[V[q]] = 0 /\ g[<<q, "ip">>] = V[q]
                   /\ \A n \in Names : y.ents[V[q]][n] = 0
                   /\ \A v \in Places : g[v] = V[q] => v = <<q, "ip">> \/ v[2] = "freeing"
        <4>1. /\ x.dnlink[V[q]] = 0 /\ h[<<q, "ip">>] = V[q]
              /\ \A n \in Names : x.ents[V[q]][n] = 0
              /\ \A v \in Places : h[v] = V[q] => v = <<q, "ip">> \/ v[2] = "freeing"
          BY <2>1, <3>1 DEF Deep, NewOK
        <4>2. g[<<q, "ip">>] = h[<<q, "ip">>]
          <5>1. CASE q = p
            BY <1>4, <2>2, <3>1, <5>1, PlaceOf
          <5>2. CASE q # p
            BY <2>6, <5>2
          <5> QED BY <5>1, <5>2
        <4> QED BY <1>d, <2>7, <3>1, <4>1, <4>2
      <3> QED BY <3>1 DEF NewOK
    <2>h. SeenOK(y, M, Q)
      BY <1>d, <2>1 DEF Deep, SeenOK
    <2> QED BY <2>a, <2>b, <2>c, <2>d, <2>e, <2>f, <2>g, <2>h DEF Deep
  <1> QED BY <1>1, <1>3, <1>4 DEF Core

\* The disk after an inode without links is erased.
LEMMA DiskErased ==
  ASSUME NEW x \in FsRec, NEW K \in [Procs -> Refs], DiskOK(x, K), NEW i \in Inodes,
         x.dtype[i] # "none", x.dnlink[i] = 0, NEW y \in FsRec, y.panic = x.panic,
         y.dtype[i] = "none", y.ents[i] = NoEnts,
         \A j \in Inodes : j # i => /\ y.dtype[j] = x.dtype[j] /\ y.dnlink[j] = x.dnlink[j]
                                 /\ y.ents[j] = x.ents[j],
         \A j \in Inodes : y.lost[j] = x.lost[j] + Cardinality(Named(x, i, j))
  PROVE  DiskOK(y, K)
  <1>1. EntsOK(x) /\ LinkOK(x, K) /\ Acyclic(x.ents) /\ ~ x.panic
    BY DEF DiskOK
  <1>2. /\ x.lost[i] = 0 /\ i # ROOTINO
        /\ \A d \in Inodes, n \in Names : x.ents[d][n] # i
        /\ \A n \in Names : x.ents[i][n] # 0 => x.dtype[x.ents[i][n]] # "dir"
        /\ \A p \in Procs : K[p] # i
    BY <1>1, NoLinks
  <1>3. \A n \in Names : y.ents[i][n] = 0
    BY DEF NoEnts
  <1>4. \A d \in Inodes, n \in Names : x.ents[d][n] \in Refs /\ y.ents[d][n] \in {0, x.ents[d][n]}
                                       /\ (d # i => y.ents[d][n] = x.ents[d][n])
    <2>1. x.ents \in [Inodes -> DirRec]
      BY FsTypes
    <2> QED BY <1>3, <2>1 DEF DirRec, DirNames
  <1>5. EntsOK(y)
    <2>1. y.dtype[ROOTINO] = "dir"
      BY <1>1, <1>2, Numbers DEF EntsOK
    <2>2. ASSUME NEW d \in Inodes, NEW n \in Names, y.ents[d][n] # 0
          PROVE  y.dtype[d] = "dir" /\ y.dtype[y.ents[d][n]] # "none"
      <3>1. d # i /\ y.ents[d][n] = x.ents[d][n]
        BY <1>3, <1>4, <2>2
      <3>2. x.dtype[d] = "dir" /\ x.dtype[x.ents[d][n]] # "none" /\ x.ents[d][n] # i
            /\ x.ents[d][n] \in Inodes
        BY <1>1, <1>2, <1>4, <2>2, <3>1, Numbers DEF EntsOK
      <3> QED BY <3>1, <3>2
    <2> QED BY <2>1, <2>2 DEF EntsOK
  <1>6. ASSUME NEW j \in Inodes
        PROVE  /\ y.lost[j] >= 0
               /\ y.dtype[j] = "none" => y.lost[j] = 0
               /\ y.dtype[j] # "none" => y.dnlink[j] = LinksOf(y, j) + Cardinality(Pending(K, j))
    <2>1. PICK m \in Nat : m = Cardinality(Named(x, i, j))
      BY NamedFinite
    <2>2. x.lost[j] \in Int /\ x.lost[j] >= 0 /\ y.lost[j] = x.lost[j] + m
      BY <1>1, <2>1, FsTypes DEF LinkOK
    <2>3. ASSUME y.dtype[j] = "none" PROVE y.lost[j] = 0
      <3>1. x.lost[j] = 0
        BY <1>1, <1>2, <2>3 DEF LinkOK
      <3>2. \A n \in Names : x.ents[i][n] # j
        <4>1. CASE j = i
          BY <1>2, <4>1
        <4>2. CASE j # i
          BY <1>1, <2>3, <4>2, Numbers DEF EntsOK
        <4> QED BY <4>1, <4>2
      <3>3. Named(x, i, j) = {}
        BY <3>2 DEF Named
      <3>4. m = 0
        BY <2>1, <3>3, FS_EmptySet
      <3> QED BY <2>2, <3>1, <3>4
    <2>4. ASSUME y.dtype[j] # "none" PROVE y.dnlink[j] = LinksOf(y, j) + Cardinality(Pending(K, j))
      <3>1. j # i /\ x.dtype[j] # "none" /\ y.dnlink[j] = x.dnlink[j]
        BY <2>4
      <3>2. PICK a \in Nat : a = Cardinality(EntriesOf(y.ents, j))
        BY LinksFinite
      <3>3. Cardinality(EntriesOf(x.ents, j)) = a + m
        BY <1>3, <2>1, <3>2, EntriesErased
      <3>4. SubdirsOf(y.ents, y.dtype, j) = SubdirsOf(x.ents, x.dtype, j)
        <4>1. ASSUME NEW n \in Names PROVE y.ents[j][n] = x.ents[j][n]
                                           /\ (x.ents[j][n] # 0 => y.dtype[x.ents[j][n]] = x.dtype[x.ents[j][n]])
          BY <1>2, <1>4, <3>1, Numbers
        <4> QED BY <4>1 DEF SubdirsOf
      <3>5. PICK b \in Nat : b = Cardinality(SubdirsOf(x.ents, x.dtype, j))
        BY LinksFinite
      <3>6. PICK r \in {0, 1} : r = IF j = ROOTINO THEN 1 ELSE 0
        OBVIOUS
      <3>7. LinksOf(x, j) = (a + m) + b + x.lost[j] + r
        BY <3>3, <3>5, <3>6 DEF LinksOf
      <3>8. LinksOf(y, j) = a + b + y.lost[j] + r
        BY <3>2, <3>4, <3>5, <3>6 DEF LinksOf
      <3>9. LinksOf(x, j) = LinksOf(y, j)
        BY <2>2, <3>7, <3>8
      <3> QED BY <1>1, <3>1, <3>9 DEF LinkOK
    <2> QED BY <2>2, <2>3, <2>4
  <1>7. Acyclic(y.ents)
    <2>1. ASSUME NEW D \in SUBSET Inodes, \A d \in D : \E n \in Names : y.ents[d][n] \in D PROVE D = {}
      <3>1. \A d \in D : \E n \in Names : x.ents[d][n] \in D
        BY <1>4, <2>1, Numbers
      <3> QED BY <1>1, <3>1 DEF Acyclic
    <2> QED BY <2>1 DEF Acyclic
  <1> QED BY <1>1, <1>5, <1>6, <1>7 DEF DiskOK, LinkOK

\* The beginning of an iput() that frees the inode: nobody else can have it locked.
LEMMA CorePutLast ==
  ASSUME NEW x, NEW h, NEW M, NEW K, NEW V, NEW Q, Core(x, h, M, K, V, Q),
         NEW p \in Procs, NEW i \in Inodes, NEW t \in Places, h[t] = i, Last(x, i),
         h[<<p, "freeing">>] = 0,
         t \in {<<p, "ip">>, <<p, "dp">>, <<p, "old">>, <<p, "cwd">>} \/ t[2] = "file",
         DotDotFree =>
           /\ i \notin M[p]
           /\ K[p] # 0 => K[p] \in {Upd(h, t, 0)[<<p, "ip">>], Upd(h, t, 0)[<<p, "old">>]}
           /\ V[p] # 0 => t # <<p, "ip">>,
         NEW y, y = iput(x, p, i)
  PROVE  Core(y, Move(h, t, <<p, "freeing">>), M, K, V, Q)
  <1>1. /\ RefCore(x, h) /\ x \in FsRec /\ h \in [Places -> Refs] /\ 0 \in Refs /\ i \in Refs /\ i # 0
        /\ M \in [Procs -> SUBSET Inodes] /\ K \in [Procs -> Refs] /\ V \in [Procs -> Refs]
        /\ <<p, "freeing">> \in Places
    BY CoreTypes, Numbers, PlaceOf
  <1>2. /\ y \in FsRec /\ y.file = x.file /\ y.ref = x.ref /\ y.valid = x.valid /\ y.nlink = x.nlink
        /\ x.lk[i] = Nobody => y.panic = x.panic
        /\ y.lk[i] = p /\ y.dtype[i] = "none" /\ y.dnlink[i] = x.nlink[i] /\ y.ents[i] = NoEnts
        /\ \A j \in Inodes : j # i => /\ y.lk[j] = x.lk[j] /\ y.type[j] = x.type[j]
                                   /\ y.dtype[j] = x.dtype[j] /\ y.dnlink[j] = x.dnlink[j]
                                   /\ y.ents[j] = x.ents[j]
        /\ \A j \in Inodes : y.lost[j] = x.lost[j] + Cardinality(Named(x, i, j))
    BY <1>1, IputIs
  <1>l. \A j \in Inodes : x.lk[j] \in Procs \/ x.lk[j] = Nobody
    BY <1>1, LkType
  <1>o. \A u \in Places : h[u] = i => u = t
    BY <1>1, RefOne DEF Last
  <1>t. t # <<p, "freeing">> /\ t[2] # "freeing"
    OBVIOUS
  <1>3. RefCore(y, Move(h, t, <<p, "freeing">>))
    <2>1. RefCore(x, Move(h, t, <<p, "freeing">>))
      BY <1>1, <1>t, RefMove
    <2> QED BY <1>2, <2>1, RefSame
  <1>4. ASSUME DotDotFree, NEW g, g = Move(h, t, <<p, "freeing">>) PROVE Deep(y, g, M, K, V, Q)
    <2>1. Deep(x, h, M, K, V, Q)
      BY <1>4, CoreTypes
    <2>2. /\ g[t] = 0 /\ g[<<p, "freeing">>] = i
          /\ \A v \in Places : v # t /\ v # <<p, "freeing">> => g[v] = h[v]
      BY <1>1, <1>4, <1>t DEF Move, Upd
    <2>3. \A q \in Procs : q # p => g[<<q, "freeing">>] = h[<<q, "freeing">>]
      <3>1. ASSUME NEW q \in Procs, q # p PROVE <<q, "freeing">> # t /\ <<q, "freeing">> # <<p, "freeing">>
        BY <3>1
      <3> QED BY <2>2, <3>1, PlaceOf
    <2>6. \A q \in Procs : q # p => /\ g[<<q, "ip">>] = h[<<q, "ip">>] /\ g[<<q, "dp">>] = h[<<q, "dp">>]
                                    /\ g[<<q, "old">>] = h[<<q, "old">>]
      <3>1. ASSUME NEW q \in Procs, q # p
            PROVE  /\ <<q, "ip">> # t /\ <<q, "dp">> # t /\ <<q, "old">> # t /\ <<q, "ip">> # <<p, "freeing">>
                   /\ <<q, "dp">> # <<p, "freeing">> /\ <<q, "old">> # <<p, "freeing">>
        BY <3>1
      <3> QED BY <2>2, <3>1, PlaceOf
    <2>7. \A v \in Places : g[v] # 0 /\ g[v] # i => g[v] = h[v]
      BY <2>2
    <2>8. \A v \in Places : g[v] = i <=> v = <<p, "freeing">>
      BY <1>1, <1>o, <2>2
    <2>9. \A v \in Places : h[v] # 0 /\ h[v] # i => g[v] = h[v]
      BY <2>2
    <2>10. i \notin M[p]
      BY <1>4
    <2>11. x.lk[i] = Nobody
      <3>1. SUFFICES ASSUME x.lk[i] # Nobody PROVE FALSE
        OBVIOUS
      <3>2. PICK q \in Procs : q = x.lk[i]
        BY <1>l, <3>1
      <3>3. i \in M[q] \/ h[<<q, "freeing">>] = i
        BY <2>1, <3>1, <3>2 DEF Deep, LockOK, BeingFreed
      <3>4. CASE h[<<q, "freeing">>] = i
        <4>1. <<q, "freeing">> = t
          BY <1>o, <3>4, PlaceOf
        <4>2. t[2] = "freeing"
          BY <4>1
        <4> QED BY <1>t, <4>2
      <3>5. CASE i \in M[q]
        <4>1. i \in {h[<<q, "ip">>], h[<<q, "dp">>], h[<<q, "old">>]}
          BY <2>1, <3>5 DEF Deep, LockOK
        <4>2. t \in {<<q, "ip">>, <<q, "dp">>, <<q, "old">>}
          BY <1>o, <4>1, PlaceOf
        <4>3. q = p
          BY <4>2
        <4> QED BY <2>10, <3>5, <4>3
      <3> QED BY <3>3, <3>4, <3>5
    <2>12. x.dtype[i] # "none" /\ x.dnlink[i] = 0
      <3>1. ~ BeingFreed(x, h, i)
        BY <2>11 DEF BeingFreed
      <3> QED BY <2>1, <3>1 DEF Deep, CopyOK, Last
    <2>13. \A q \in Procs : K[q] # i
      <3>1. LinkOK(x, K)
        BY <2>1 DEF Deep, DiskOK
      <3> QED BY <1>1, <2>12, <3>1, NoLinks
    <2>14. \A q \in Procs : i \notin M[q]
      <3>1. ASSUME NEW q \in Procs, i \in M[q] PROVE FALSE
        <4>1. x.lk[i] = q
          BY <2>1, <3>1 DEF Deep, LockOK
        <4> QED BY <2>11, <4>1, FsAssumption
      <3> QED BY <3>1
    <2>5. /\ BeingFreed(y, g, i)
          /\ \A j \in Inodes : j # i => (BeingFreed(y, g, j) <=> BeingFreed(x, h, j))
      <3>1. BeingFreed(y, g, i)
        BY <1>2, <2>2, FsAssumption DEF BeingFreed
      <3>2. ASSUME NEW j \in Inodes, j # i PROVE BeingFreed(y, g, j) <=> BeingFreed(x, h, j)
        <4>1. y.lk[j] = x.lk[j]
          BY <1>2, <3>2
        <4>2. CASE x.lk[j] = p
          BY <2>2, <3>2, <4>1, <4>2, Numbers DEF BeingFreed
        <4>3. CASE x.lk[j] # p
          BY <1>l, <2>3, <4>1, <4>3 DEF BeingFreed
        <4> QED BY <4>2, <4>3
      <3> QED BY <3>1, <3>2
    <2>a. DiskOK(y, K)
      <3>1. DiskOK(x, K) /\ y.panic = x.panic
        BY <1>2, <2>1, <2>11 DEF Deep
      <3> QED BY <1>1, <1>2, <2>12, <3>1, DiskErased
    <2>b. HoldOK(y, g)
      <3>1. HoldOK(x, h)
        BY <2>1 DEF Deep
      <3>2. ASSUME NEW v \in Places, g[v] # 0, v[2] # "freeing"
            PROVE  g[v] \in Inodes /\ g[v] = h[v] /\ y.dtype[g[v]] = x.dtype[h[v]]
        <4>1. v # <<p, "freeing">>
          BY <3>2
        <4>2. g[v] = h[v] /\ h[v] # i
          BY <2>7, <2>8, <3>2, <4>1
        <4>3. h[v] \in Inodes
          BY <1>1, <3>2, <4>2, Numbers
        <4> QED BY <1>2, <4>2, <4>3
      <3>3. \A v \in Places : g[v] # 0 /\ v[2] # "freeing" => y.dtype[g[v]] # "none"
        BY <3>1, <3>2 DEF HoldOK
      <3>4. \A q \in Procs : g[<<q, "dp">>] # 0 => y.dtype[g[<<q, "dp">>]] = "dir"
        <4>1. \A q \in Procs : <<q, "dp">> \in Places /\ <<q, "dp">>[2] # "freeing"
          BY PlaceOf
        <4> QED BY <3>1, <3>2, <4>1 DEF HoldOK
      <3>5. \A q \in Procs : g[<<q, "old">>] # 0 => y.dtype[g[<<q, "old">>]] # "dir"
        <4>1. \A q \in Procs : <<q, "old">> \in Places /\ <<q, "old">>[2] # "freeing"
          BY PlaceOf
        <4> QED BY <3>1, <3>2, <4>1 DEF HoldOK
      <3> QED BY <3>3, <3>4, <3>5 DEF HoldOK
    <2>c. FreeOK(g)
      <3>1. ASSUME NEW q \in Procs, NEW r \in Procs, q # r, g[<<q, "freeing">>] = g[<<r, "freeing">>]
            PROVE  g[<<q, "freeing">>] = 0
        <4>1. g[<<q, "freeing">>] # i
          <5>1. SUFFICES ASSUME g[<<q, "freeing">>] = i PROVE FALSE
            OBVIOUS
          <5>2. <<q, "freeing">> = <<p, "freeing">> /\ <<r, "freeing">> = <<p, "freeing">>
            BY <2>8, <3>1, <5>1, PlaceOf
          <5> QED BY <3>1, <5>2
        <4>2. q # p /\ r # p
          BY <2>2, <3>1, <4>1
        <4> QED BY <2>1, <2>3, <3>1, <4>2 DEF Deep, FreeOK
      <3> QED BY <3>1 DEF FreeOK
    <2>d. LockOK(y, g, M)
      <3>1. LockOK(x, h, M)
        BY <2>1 DEF Deep
      <3>2. ASSUME NEW q \in Procs, NEW j \in M[q]
            PROVE  /\ y.lk[j] = q /\ y.valid[j] /\ g[<<q, "freeing">>] # j
                   /\ j \in {g[<<q, "ip">>], g[<<q, "dp">>], g[<<q, "old">>]}
        <4>1. /\ j \in Inodes /\ x.lk[j] = q /\ x.valid[j] /\ h[<<q, "freeing">>] # j
              /\ j \in {h[<<q, "ip">>], h[<<q, "dp">>], h[<<q, "old">>]}
          BY <1>1, <3>1 DEF LockOK
        <4>2. j # i
          BY <2>14
        <4>3. g[<<q, "freeing">>] # j
          BY <2>2, <2>3, <4>1, <4>2
        <4>4. j \in {g[<<q, "ip">>], g[<<q, "dp">>], g[<<q, "old">>]}
          <5>1. <<q, "ip">> \in Places /\ <<q, "dp">> \in Places /\ <<q, "old">> \in Places /\ j # 0
            BY <4>1, PlaceOf, Numbers
          <5> QED BY <2>9, <4>1, <4>2, <5>1
        <4> QED BY <1>2, <4>1, <4>2, <4>3, <4>4
      <3>3. \A j \in Inodes : y.lk[j] # Nobody => j \in M[y.lk[j]] \/ BeingFreed(y, g, j)
        BY <1>2, <2>5, <3>1 DEF LockOK
      <3> QED BY <3>2, <3>3 DEF LockOK
    <2>e. CopyOK(y, g)
      BY <1>2, <2>1, <2>5 DEF Deep, CopyOK
    <2>f. ExtraOK(g, K)
      <3>1. ASSUME NEW q \in Procs, K[q] # 0 PROVE K[q] \in {g[<<q, "ip">>], g[<<q, "old">>]}
        <4>1. K[q] \in {h[<<q, "ip">>], h[<<q, "old">>]} /\ K[q] # i
          BY <2>1, <2>13, <3>1 DEF Deep, ExtraOK
        <4> QED BY <2>9, <3>1, <4>1, PlaceOf
      <3> QED BY <3>1 DEF ExtraOK
    <2>g. NewOK(y, g, V)
      <3>1. ASSUME NEW q \in Procs, V[q] # 0
            PROVE  /\ y.dnlink[V[q]] = 0 /\ g[<<q, "ip">>] = V[q]
                   /\ \A n \in Names : y.ents[V[q]][n] = 0
                   /\ \A v \in Places : g[v] = V[q] => v = <<q, "ip">> \/ v[2] = "freeing"
        <4>1. /\ x.dnlink[V[q]] = 0 /\ h[<<q, "ip">>] = V[q]
              /\ \A n \in Names : x.ents[V[q]][n] = 0
              /\ \A v \in Places : h[v] = V[q] => v = <<q, "ip">> \/ v[2] = "freeing"
          BY <2>1, <3>1 DEF Deep, NewOK
        <4>2. t # <<q, "ip">>
          <5>1. CASE q = p
            BY <1>4, <3>1, <5>1
          <5>2. CASE q # p
            BY <5>2
          <5> QED BY <5>1, <5>2
        <4>3. V[q] # i
          BY <1>o, <4>1, <4>2, PlaceOf
        <4>4. V[q] \in Inodes
          BY <1>1, <3>1, Numbers
        <4>5. g[<<q, "ip">>] = V[q]
          BY <2>9, <3>1, <4>1, <4>3, PlaceOf
        <4> QED BY <1>2, <2>7, <3>1, <4>1, <4>3, <4>4, <4>5
      <3> QED BY <3>1 DEF NewOK
    <2>h. SeenOK(y, M, Q)
      <3>1. SeenOK(x, M, Q)
        BY <2>1 DEF Deep
      <3>2. ASSUME NEW s \in Q PROVE s[2] \in M[s[1]] /\ y.ents[s[2]][s[3]] = s[4]
        <4>1. s[1] \in Procs /\ s[2] \in Inodes /\ s[2] \in M[s[1]] /\ x.ents[s[2]][s[3]] = s[4]
          BY <3>1 DEF SeenOK
        <4>2. s[2] # i
          BY <2>14, <4>1
        <4> QED BY <1>2, <4>1, <4>2
      <3> QED BY <3>1, <3>2 DEF SeenOK
    <2> QED BY <2>a, <2>b, <2>c, <2>d, <2>e, <2>f, <2>g, <2>h DEF Deep
  <1> QED BY <1>1, <1>3, <1>4 DEF Core

\* iput(), in either case.
LEMMA CorePut ==
  ASSUME NEW x, NEW h, NEW M, NEW K, NEW V, NEW Q, Core(x, h, M, K, V, Q),
         NEW p \in Procs, NEW i \in Inodes, NEW t \in Places, h[t] = i, h[<<p, "freeing">>] = 0,
         t \in {<<p, "ip">>, <<p, "dp">>, <<p, "old">>, <<p, "cwd">>} \/ t[2] = "file",
         DotDotFree =>
           /\ i \notin M[p]
           /\ K[p] # 0 => K[p] \in {Upd(h, t, 0)[<<p, "ip">>], Upd(h, t, 0)[<<p, "old">>]}
           /\ V[p] # 0 => t # <<p, "ip">>,
         NEW y, y = iput(x, p, i)
  PROVE  Core(y, PutRef(x, h, t, p), M, K, V, Q)
  <1>1. CASE Last(x, i)
    BY <1>1, CorePutLast DEF PutRef
  <1>2. CASE ~ Last(x, i)
    <2>1. y = Drop(x, i) /\ PutRef(x, h, t, p) = Upd(h, t, 0)
      BY <1>2 DEF iput, PutRef
    <2> QED BY <2>1, CorePutDrop
  <1> QED BY <1>1, <1>2

\* iput() unlocks the inode it has freed.
LEMMA CoreFreed ==
  ASSUME NEW x, NEW h, NEW M, NEW K, NEW V, NEW Q, Core(x, h, M, K, V, Q),
         NEW p \in Procs, NEW i \in Inodes, h[<<p, "freeing">>] = i, x.lk[i] = p,
         NEW y, y = Freed(x, i)
  PROVE  Core(y, h, M, K, V, Q)
  <1>1. /\ RefCore(x, h) /\ x \in FsRec /\ h \in [Places -> Refs]
        /\ M \in [Procs -> SUBSET Inodes] /\ K \in [Procs -> Refs] /\ V \in [Procs -> Refs]
    BY CoreTypes
  <1>2. /\ y \in FsRec /\ SameDisk(x, y) /\ y.panic = x.panic /\ y.file = x.file /\ y.ref = x.ref
        /\ y.lk[i] = Nobody /\ ~ y.valid[i] /\ y.type = x.type /\ y.nlink = x.nlink
        /\ \A j \in Inodes : j # i => y.lk[j] = x.lk[j] /\ (y.valid[j] <=> x.valid[j])
    BY <1>1, FreedIs
  <1>d. y.dtype = x.dtype /\ y.dnlink = x.dnlink /\ y.ents = x.ents
    BY <1>2 DEF SameDisk
  <1>l. \A j \in Inodes : x.lk[j] \in Procs \/ x.lk[j] = Nobody
    BY <1>1, LkType
  <1>3. RefCore(y, h)
    BY <1>1, <1>2, RefSame
  <1>4. ASSUME DotDotFree PROVE Deep(y, h, M, K, V, Q)
    <2>1. Deep(x, h, M, K, V, Q)
      BY <1>4, CoreTypes
    <2>5. \A j \in Inodes : j # i => (BeingFreed(y, h, j) <=> BeingFreed(x, h, j))
      BY <1>2, <1>l DEF BeingFreed
    <2>a. DiskOK(y, K)
      BY <1>2, <2>1, DiskSame DEF Deep
    <2>b. HoldOK(y, h) /\ FreeOK(h) /\ ExtraOK(h, K)
      BY <1>d, <2>1 DEF Deep, HoldOK
    <2>d. LockOK(y, h, M)
      <3>1. LockOK(x, h, M)
        BY <2>1 DEF Deep
      <3>2. ASSUME NEW q \in Procs, NEW j \in M[q]
            PROVE  /\ y.lk[j] = q /\ y.valid[j] /\ h[<<q, "freeing">>] # j
                   /\ j \in {h[<<q, "ip">>], h[<<q, "dp">>], h[<<q, "old">>]}
        <4>1. /\ j \in Inodes /\ x.lk[j] = q /\ x.valid[j] /\ h[<<q, "freeing">>] # j
              /\ j \in {h[<<q, "ip">>], h[<<q, "dp">>], h[<<q, "old">>]}
          BY <1>1, <3>1 DEF LockOK
        <4>2. j # i
          BY <4>1
        <4> QED BY <1>2, <4>1, <4>2
      <3>3. \A j \in Inodes : y.lk[j] # Nobody => j \in M[y.lk[j]] \/ BeingFreed(y, h, j)
        BY <1>2, <2>5, <3>1 DEF LockOK
      <3> QED BY <3>2, <3>3 DEF LockOK
    <2>e. CopyOK(y, h)
      BY <1>d, <1>2, <2>1, <2>5 DEF Deep, CopyOK
    <2>g. NewOK(y, h, V)
      BY <1>d, <2>1 DEF Deep, NewOK
    <2>h. SeenOK(y, M, Q)
      BY <1>d, <2>1 DEF Deep, SeenOK
    <2> QED BY <2>a, <2>b, <2>d, <2>e, <2>g, <2>h DEF Deep
  <1> QED BY <1>1, <1>3, <1>4 DEF Core

\* iput() drops the reference to the inode it has freed.
LEMMA CoreDrop ==
  ASSUME NEW x, NEW h, NEW M, NEW K, NEW V, NEW Q, Core(x, h, M, K, V, Q),
         NEW p \in Procs, NEW i \in Inodes, h[<<p, "freeing">>] = i, x.lk[i] # p,
         NEW y, y = Drop(x, i)
  PROVE  Core(y, Upd(h, <<p, "freeing">>, 0), M, K, V, Q)
  <1>1. /\ RefCore(x, h) /\ x \in FsRec /\ h \in [Places -> Refs] /\ 0 \in Refs
        /\ M \in [Procs -> SUBSET Inodes] /\ K \in [Procs -> Refs] /\ V \in [Procs -> Refs]
        /\ <<p, "freeing">> \in Places
    BY CoreTypes, Numbers, PlaceOf
  <1>2. /\ y \in FsRec /\ SameDisk(x, y) /\ y.panic = x.panic /\ y.lk = x.lk /\ y.file = x.file
        /\ y.ref[i] = x.ref[i] - 1 /\ (\A j \in Inodes : j # i => y.ref[j] = x.ref[j])
        /\ x.ref[i] > 1 => SameCopy(x, y)
        /\ ~ (x.ref[i] > 1) => ~ y.valid[i]
        /\ \A j \in Inodes : j # i => /\ y.valid[j] <=> x.valid[j]
                                   /\ y.type[j] = x.type[j] /\ y.nlink[j] = x.nlink[j]
    BY <1>1, DropIs
  <1>d. y.dtype = x.dtype /\ y.dnlink = x.dnlink /\ y.ents = x.ents
    BY <1>2 DEF SameDisk
  <1>l. \A j \in Inodes : x.lk[j] \in Procs \/ x.lk[j] = Nobody
    BY <1>1, LkType
  <1>v. \A j \in Inodes : j # i \/ x.ref[i] > 1 => /\ y.valid[j] <=> x.valid[j]
                                                   /\ y.type[j] = x.type[j] /\ y.nlink[j] = x.nlink[j]
    BY <1>2 DEF SameCopy
  <1>3. RefCore(y, Upd(h, <<p, "freeing">>, 0))
    <2>1. \A k \in Inodes : y.ref[k] = x.ref[k] - Hit(h[<<p, "freeing">>], k) + Hit(0, k)
      BY <1>1, <1>2, FsTypes, Numbers DEF Hit
    <2>2. RefCore(x, h) /\ 0 \in Refs /\ y \in FsRec
      BY <1>1, <1>2
    <2> QED BY <1>1, <2>1, <2>2, RefUpdate
  <1>4. ASSUME DotDotFree, NEW g, g = Upd(h, <<p, "freeing">>, 0) PROVE Deep(y, g, M, K, V, Q)
    <2>1. Deep(x, h, M, K, V, Q)
      BY <1>4, CoreTypes
    <2>2. g[<<p, "freeing">>] = 0 /\ \A v \in Places : v # <<p, "freeing">> => g[v] = h[v]
      BY <1>1, <1>4 DEF Upd
    <2>3. \A q \in Procs : q # p => g[<<q, "freeing">>] = h[<<q, "freeing">>]
      <3>1. ASSUME NEW q \in Procs, q # p PROVE <<q, "freeing">> # <<p, "freeing">>
        BY <3>1
      <3> QED BY <2>2, <3>1, PlaceOf
    <2>6. \A q \in Procs : /\ g[<<q, "ip">>] = h[<<q, "ip">>] /\ g[<<q, "dp">>] = h[<<q, "dp">>]
                           /\ g[<<q, "old">>] = h[<<q, "old">>]
      <3>1. ASSUME NEW q \in Procs
            PROVE  /\ <<q, "ip">> # <<p, "freeing">> /\ <<q, "dp">> # <<p, "freeing">>
                   /\ <<q, "old">> # <<p, "freeing">>
        OBVIOUS
      <3> QED BY <2>2, <3>1, PlaceOf
    <2>7. \A v \in Places : g[v] # 0 => g[v] = h[v]
      BY <2>2
    <2>5. ~ BeingFreed(x, h, i) /\ \A j \in Inodes : BeingFreed(y, g, j) <=> BeingFreed(x, h, j)
      <3>1. ~ BeingFreed(x, h, i)
        <4>1. SUFFICES ASSUME BeingFreed(x, h, i) PROVE FALSE
          OBVIOUS
        <4>2. PICK q \in Procs : q = x.lk[i] /\ h[<<q, "freeing">>] = i
          BY <1>l, <4>1 DEF BeingFreed
        <4> QED BY <2>1, <4>2, Numbers DEF Deep, FreeOK
      <3>2. ASSUME NEW j \in Inodes PROVE BeingFreed(y, g, j) <=> BeingFreed(x, h, j)
        <4>1. CASE x.lk[j] = p
          <5>1. ~ BeingFreed(y, g, j)
            BY <1>2, <2>2, <4>1, Numbers DEF BeingFreed
          <5>2. ~ BeingFreed(x, h, j)
            BY <4>1 DEF BeingFreed
          <5> QED BY <5>1, <5>2
        <4>2. CASE x.lk[j] # p
          BY <1>2, <1>l, <2>3, <4>2 DEF BeingFreed
        <4> QED BY <4>1, <4>2
      <3> QED BY <3>1, <3>2
    <2>a. DiskOK(y, K)
      BY <1>2, <2>1, DiskSame DEF Deep
    <2>b. HoldOK(y, g)
      <3>1. HoldOK(x, h)
        BY <2>1 DEF Deep
      <3>2. \A v \in Places : g[v] # 0 /\ v[2] # "freeing" => y.dtype[g[v]] # "none"
        BY <1>d, <2>7, <3>1 DEF HoldOK
      <3> QED BY <1>d, <2>6, <3>1, <3>2 DEF HoldOK
    <2>c. FreeOK(g)
      BY <2>1, <2>2, <2>3 DEF Deep, FreeOK
    <2>d. LockOK(y, g, M)
      <3>1. LockOK(x, h, M)
        BY <2>1 DEF Deep
      <3>2. ASSUME NEW q \in Procs, NEW j \in M[q]
            PROVE  /\ y.lk[j] = q /\ y.valid[j] /\ g[<<q, "freeing">>] # j
                   /\ j \in {g[<<q, "ip">>], g[<<q, "dp">>], g[<<q, "old">>]}
        <4>1. /\ j \in Inodes /\ x.lk[j] = q /\ x.valid[j] /\ h[<<q, "freeing">>] # j
              /\ j \in {h[<<q, "ip">>], h[<<q, "dp">>], h[<<q, "old">>]}
          BY <1>1, <3>1 DEF LockOK
        <4>2. j \in {g[<<q, "ip">>], g[<<q, "dp">>], g[<<q, "old">>]}
          BY <2>6, <4>1
        <4>3. PICK v \in Places : h[v] = j /\ v # <<p, "freeing">>
          BY <4>1, PlaceOf
        <4>4. j = i => x.ref[i] > 1
          BY <1>1, <4>3, RefOne
        <4>5. g[<<q, "freeing">>] # j
          BY <2>2, <2>3, <4>1, Numbers
        <4> QED BY <1>2, <1>v, <4>1, <4>2, <4>4, <4>5
      <3>3. \A j \in Inodes : y.lk[j] # Nobody => j \in M[y.lk[j]] \/ BeingFreed(y, g, j)
        BY <1>2, <2>5, <3>1 DEF LockOK
      <3> QED BY <3>2, <3>3 DEF LockOK
    <2>e. CopyOK(y, g)
      <3>1. \A j \in Inodes : y.valid[j] => j # i \/ x.ref[i] > 1
        BY <1>2
      <3> QED BY <1>d, <1>v, <2>1, <2>5, <3>1 DEF Deep, CopyOK
    <2>f. ExtraOK(g, K)
      BY <2>1, <2>6 DEF Deep, ExtraOK
    <2>g. NewOK(y, g, V)
      <3>1. ASSUME NEW q \in Procs, V[q] # 0
            PROVE  /\ y.dnlink[V[q]] = 0 /\ g[<<q, "ip">>] = V[q]
                   /\ \A n \in Names : y.ents[V[q]][n] = 0
                   /\ \A v \in Places : g[v] = V[q] => v = <<q, "ip">> \/ v[2] = "freeing"
        <4>1. /\ x.dnlink[V[q]] = 0 /\ h[<<q, "ip">>] = V[q]
              /\ \A n \in Names : x.ents[V[q]][n] = 0
              /\ \A v \in Places : h[v] = V[q] => v = <<q, "ip">> \/ v[2] = "freeing"
          BY <2>1, <3>1 DEF Deep, NewOK
        <4> QED BY <1>d, <2>6, <2>7, <3>1, <4>1
      <3> QED BY <3>1 DEF NewOK
    <2>h. SeenOK(y, M, Q)
      BY <1>d, <2>1 DEF Deep, SeenOK
    <2> QED BY <2>a, <2>b, <2>c, <2>d, <2>e, <2>f, <2>g, <2>h DEF Deep
  <1> QED BY <1>1, <1>3, <1>4 DEF Core

-----------------------------------------------------------------------------
(* Links are made and removed.                                             *)

\* The type of an entry.
LEMMA EntsType == \A x \in FsRec : \A d \in Inodes, n \in Names : x.ents[d][n] \in Refs
  <1>1. ASSUME NEW x \in FsRec, NEW d \in Inodes, NEW n \in Names PROVE x.ents[d][n] \in Refs
    <2>1. x.ents \in [Inodes -> DirRec]
      BY FsTypes
    <2> QED BY <2>1 DEF DirRec, DirNames
  <1> QED BY <1>1

\* The entry n of d is changed, and no other.
OneEntry(x, y, d, n) ==
  \A k \in Inodes, m \in Names : k # d \/ m # n => y.ents[k][m] = x.ents[k][m]
IsDir(x, j) == IF j # 0 /\ x.dtype[j] = "dir" THEN 1 ELSE 0

\* The entries that name an inode when one entry changes, ...
LEMMA EntryCount ==
  ASSUME NEW x \in FsRec, NEW y \in FsRec, NEW d \in Inodes, NEW n \in Names, NEW i \in Inodes,
         OneEntry(x, y, d, n)
  PROVE  Cardinality(EntriesOf(y.ents, i))
           = Cardinality(EntriesOf(x.ents, i)) - Hit(x.ents[d][n], i) + Hit(y.ents[d][n], i)
  <1>1. PICK S : S = Inodes \X Names
    OBVIOUS
  <1>2. IsFiniteSet(S) /\ <<d, n>> \in S
    <2>1. IsFiniteSet(Inodes)
      BY Numbers, FS_Interval DEF Inodes
    <2> QED BY <1>1, <2>1, FsAssumption, FS_Product
  <1>3. PICK f : f = [e \in S |-> x.ents[e[1]][e[2]]]
    OBVIOUS
  <1>4. PICK g : g = [e \in S |-> y.ents[e[1]][e[2]]]
    OBVIOUS
  <1>5. PICK j : j = y.ents[d][n]
    OBVIOUS
  <1>6. f \in [S -> Refs] /\ j \in Refs /\ f[<<d, n>>] = x.ents[d][n]
    BY <1>1, <1>2, <1>3, <1>5, EntsType
  <1>7. g = Upd(f, <<d, n>>, j)
    <2>1. ASSUME NEW e \in S PROVE g[e] = IF e = <<d, n>> THEN j ELSE f[e]
      <3>1. PICK k \in Inodes, m \in Names : e = <<k, m>>
        BY <1>1
      <3> QED BY <1>3, <1>4, <1>5, <3>1 DEF OneEntry
    <2> QED BY <1>3, <1>4, <2>1 DEF Upd
  <1>8. Count(S, g, i) = Count(S, f, i) - Hit(f[<<d, n>>], i) + Hit(j, i)
    BY <1>2, <1>6, <1>7, CountUpdate
  <1>9. Count(S, g, i) = Cardinality(EntriesOf(y.ents, i)) /\ Count(S, f, i) = Cardinality(EntriesOf(x.ents, i))
    <2>1. {u \in S : f[u] = i} = EntriesOf(x.ents, i)
      BY <1>1, <1>3 DEF EntriesOf
    <2>2. {u \in S : g[u] = i} = EntriesOf(y.ents, i)
      BY <1>1, <1>4 DEF EntriesOf
    <2> QED BY <2>1, <2>2 DEF Count
  <1> QED BY <1>5, <1>6, <1>8, <1>9

\* ... and the subdirectories of a directory.
LEMMA SubdirCount ==
  ASSUME NEW x \in FsRec, NEW y \in FsRec, NEW d \in Inodes, NEW n \in Names, OneEntry(x, y, d, n),
         \A k \in Inodes : y.dtype[k] = x.dtype[k]
  PROVE  /\ Cardinality(SubdirsOf(y.ents, y.dtype, d)) = Cardinality(SubdirsOf(x.ents, x.dtype, d))
                                                         - IsDir(x, x.ents[d][n]) + IsDir(x, y.ents[d][n])
         /\ \A i \in Inodes : i # d => SubdirsOf(y.ents, y.dtype, i) = SubdirsOf(x.ents, x.dtype, i)
  <1>1. PICK A : A = SubdirsOf(x.ents, x.dtype, d)
    OBVIOUS
  <1>2. PICK B : B = SubdirsOf(y.ents, y.dtype, d)
    OBVIOUS
  <1>3. PICK R : R = A \ {n}
    OBVIOUS
  <1>4. \A k \in Inodes, m \in Names : x.ents[k][m] \in Refs /\ y.ents[k][m] \in Refs
    BY EntsType
  <1>t. \A j \in Refs : j # 0 => y.dtype[j] = x.dtype[j]
    BY Numbers
  <1>5. n \in A <=> IsDir(x, x.ents[d][n]) = 1
    BY <1>1 DEF SubdirsOf, IsDir
  <1>6. n \in B <=> IsDir(x, y.ents[d][n]) = 1
    BY <1>2, <1>4, <1>t DEF SubdirsOf, IsDir
  <1>7. \A m \in Names : m # n => (m \in B <=> m \in A)
    BY <1>1, <1>2, <1>4, <1>t DEF SubdirsOf, OneEntry
  <1>8. A \subseteq Names /\ B \subseteq Names
    BY <1>1, <1>2 DEF SubdirsOf
  <1>9. B = (IF n \in B THEN R \cup {n} ELSE R) /\ n \notin R
    BY <1>3, <1>7, <1>8
  <1>10. IsFiniteSet(A) /\ Cardinality(A) \in Nat
    BY <1>1, LinksFinite
  <1>11. IsFiniteSet(R) /\ Cardinality(R) = IF n \in A THEN Cardinality(A) - 1 ELSE Cardinality(A)
    BY <1>3, <1>10, FS_RemoveElement
  <1>12. Cardinality(R \cup {n}) = Cardinality(R) + 1
    BY <1>9, <1>11, FS_AddElement
  <1>13. IsDir(x, x.ents[d][n]) \in {0, 1} /\ IsDir(x, y.ents[d][n]) \in {0, 1}
    BY DEF IsDir
  <1>14. Cardinality(B) = Cardinality(A) - IsDir(x, x.ents[d][n]) + IsDir(x, y.ents[d][n])
    <2>1. Cardinality(B) = IF n \in B THEN Cardinality(R) + 1 ELSE Cardinality(R)
      BY <1>9, <1>12
    <2> QED BY <1>5, <1>6, <1>10, <1>11, <1>13, <2>1
  <1>15. ASSUME NEW i \in Inodes, i # d PROVE SubdirsOf(y.ents, y.dtype, i) = SubdirsOf(x.ents, x.dtype, i)
    BY <1>4, <1>t, <1>15 DEF SubdirsOf, OneEntry
  <1> QED BY <1>1, <1>2, <1>14, <1>15

\* The calls that have counted a link too many, when one of them changes.
LEMMA PendingCount ==
  ASSUME NEW K \in [Procs -> Refs], NEW p \in Procs, NEW k \in Refs, NEW i
  PROVE  Cardinality(Pending(Upd(K, p, k), i)) = Cardinality(Pending(K, i)) - Hit(K[p], i) + Hit(k, i)
  <1>1. Count(Procs, Upd(K, p, k), i) = Count(Procs, K, i) - Hit(K[p], i) + Hit(k, i)
    BY FsAssumption, CountUpdate
  <1> QED BY <1>1 DEF Count, Pending

\* Links are counted again after an entry has changed, and what p is about to do.
LEMMA LinkChange ==
  ASSUME NEW x \in FsRec, NEW y \in FsRec, NEW K \in [Procs -> Refs], LinkOK(x, K),
         NEW p \in Procs, NEW k \in Refs, NEW d \in Inodes, NEW n \in Names, OneEntry(x, y, d, n),
         \A i \in Inodes : y.dtype[i] = x.dtype[i], y.lost = x.lost,
         \A i \in Inodes : y.dnlink[i] = x.dnlink[i] - Hit(x.ents[d][n], i) + Hit(y.ents[d][n], i)
            + (IF i = d THEN IsDir(x, y.ents[d][n]) - IsDir(x, x.ents[d][n]) ELSE 0)
            - Hit(K[p], i) + Hit(k, i)
  PROVE  LinkOK(y, Upd(K, p, k))
  <1>1. ASSUME NEW i \in Inodes
        PROVE  /\ y.lost[i] >= 0
               /\ y.dtype[i] = "none" => y.lost[i] = 0
               /\ y.dtype[i] # "none" => y.dnlink[i] = LinksOf(y, i) + Cardinality(Pending(Upd(K, p, k), i))
    <2>1. y.lost[i] >= 0 /\ (y.dtype[i] = "none" => y.lost[i] = 0)
      BY DEF LinkOK
    <2>2. ASSUME y.dtype[i] # "none"
          PROVE  y.dnlink[i] = LinksOf(y, i) + Cardinality(Pending(Upd(K, p, k), i))
      <3>1. PICK a \in Nat : a = Cardinality(EntriesOf(x.ents, i))
        BY LinksFinite
      <3>2. PICK b \in Nat : b = Cardinality(SubdirsOf(x.ents, x.dtype, i))
        BY LinksFinite
      <3>3. PICK e \in Nat : e = Cardinality(Pending(K, i))
        BY LinksFinite
      <3>4. PICK u \in {0, 1} : u = Hit(x.ents[d][n], i)
        BY DEF Hit
      <3>5. PICK v \in {0, 1} : v = Hit(y.ents[d][n], i)
        BY DEF Hit
      <3>6. PICK s \in {-1, 0, 1} : s = IF i = d THEN IsDir(x, y.ents[d][n]) - IsDir(x, x.ents[d][n]) ELSE 0
        BY DEF IsDir
      <3>7. PICK w \in {0, 1} : w = Hit(K[p], i)
        BY DEF Hit
      <3>8. PICK z \in {0, 1} : z = Hit(k, i)
        BY DEF Hit
      <3>9. PICK r \in {0, 1} : r = IF i = ROOTINO THEN 1 ELSE 0
        OBVIOUS
      <3>10. x.lost[i] \in Int /\ x.dnlink[i] \in Int
        BY FsTypes
      <3>11. Cardinality(EntriesOf(y.ents, i)) = a - u + v
        <4>1. Cardinality(EntriesOf(y.ents, i))
                = Cardinality(EntriesOf(x.ents, i)) - Hit(x.ents[d][n], i) + Hit(y.ents[d][n], i)
          BY EntryCount
        <4> QED BY <3>1, <3>4, <3>5, <4>1
      <3>12. Cardinality(SubdirsOf(y.ents, y.dtype, i)) = b + s
        <4>1. CASE i = d
          BY <3>2, <3>6, <4>1, SubdirCount, SMTT(30) DEF IsDir
        <4>2. CASE i # d
          BY <3>2, <3>6, <4>2, SubdirCount
        <4> QED BY <4>1, <4>2
      <3>13. Cardinality(Pending(Upd(K, p, k), i)) = e - w + z
        BY <3>3, <3>7, <3>8, PendingCount
      <3>14. LinksOf(y, i) = (a - u + v) + (b + s) + x.lost[i] + r
        BY <3>9, <3>11, <3>12 DEF LinksOf
      <3>15. x.dnlink[i] = (a + b + x.lost[i] + r) + e
        <4>1. x.dnlink[i] = LinksOf(x, i) + Cardinality(Pending(K, i))
          BY <2>2 DEF LinkOK
        <4>2. LinksOf(x, i) = a + b + x.lost[i] + r
          BY <3>1, <3>2, <3>9 DEF LinksOf
        <4> QED BY <3>3, <4>1, <4>2
      <3>16. y.dnlink[i] = x.dnlink[i] - u + v + s - w + z
        BY <3>4, <3>5, <3>6, <3>7, <3>8
      <3> QED BY <3>10, <3>13, <3>14, <3>15, <3>16
    <2> QED BY <2>1, <2>2
  <1> QED BY <1>1 DEF LinkOK

\* The same, when no entry has changed.
SameEnts(x, y) == \A k \in Inodes, m \in Names : y.ents[k][m] = x.ents[k][m]
\* Links stay counted when a count and what is pending change alike, the entries staying.
LEMMA LinkChange0 ==
  ASSUME NEW x \in FsRec, NEW y \in FsRec, NEW K \in [Procs -> Refs], LinkOK(x, K),
         NEW p \in Procs, NEW k \in Refs, SameEnts(x, y),
         \A i \in Inodes : y.dtype[i] = x.dtype[i], y.lost = x.lost,
         \A i \in Inodes : y.dnlink[i] = x.dnlink[i] - Hit(K[p], i) + Hit(k, i)
  PROVE  LinkOK(y, Upd(K, p, k))
  <1>1. ASSUME NEW i \in Inodes
        PROVE  /\ y.lost[i] >= 0
               /\ y.dtype[i] = "none" => y.lost[i] = 0
               /\ y.dtype[i] # "none" => y.dnlink[i] = LinksOf(y, i) + Cardinality(Pending(Upd(K, p, k), i))
    <2>1. y.lost[i] >= 0 /\ (y.dtype[i] = "none" => y.lost[i] = 0)
      BY DEF LinkOK
    <2>2. ASSUME y.dtype[i] # "none"
          PROVE  y.dnlink[i] = LinksOf(y, i) + Cardinality(Pending(Upd(K, p, k), i))
      <3>1. PICK a \in Nat : a = Cardinality(EntriesOf(x.ents, i))
        BY LinksFinite
      <3>2. PICK b \in Nat : b = Cardinality(SubdirsOf(x.ents, x.dtype, i))
        BY LinksFinite
      <3>3. PICK e \in Nat : e = Cardinality(Pending(K, i))
        BY LinksFinite
      <3>7. PICK w \in {0, 1} : w = Hit(K[p], i)
        BY DEF Hit
      <3>8. PICK z \in {0, 1} : z = Hit(k, i)
        BY DEF Hit
      <3>9. PICK r \in {0, 1} : r = IF i = ROOTINO THEN 1 ELSE 0
        OBVIOUS
      <3>10. x.lost[i] \in Int /\ x.dnlink[i] \in Int
        BY FsTypes
      <3>12. SubdirsOf(y.ents, y.dtype, i) = SubdirsOf(x.ents, x.dtype, i)
        <4>1. \A m \in Names : x.ents[i][m] # 0 => y.dtype[x.ents[i][m]] = x.dtype[x.ents[i][m]]
          BY EntsType, Numbers
        <4> QED BY <4>1 DEF SubdirsOf, SameEnts
      <3>11. EntriesOf(y.ents, i) = EntriesOf(x.ents, i)
        BY DEF EntriesOf, SameEnts
      <3>13. Cardinality(Pending(Upd(K, p, k), i)) = e - w + z
        BY <3>3, <3>7, <3>8, PendingCount
      <3>14. LinksOf(y, i) = a + b + x.lost[i] + r
        BY <3>1, <3>2, <3>9, <3>11, <3>12 DEF LinksOf
      <3>15. x.dnlink[i] = (a + b + x.lost[i] + r) + e
        <4>1. x.dnlink[i] = LinksOf(x, i) + Cardinality(Pending(K, i))
          BY <2>2 DEF LinkOK
        <4>2. LinksOf(x, i) = a + b + x.lost[i] + r
          BY <3>1, <3>2, <3>9 DEF LinksOf
        <4> QED BY <3>3, <4>1, <4>2
      <3>16. y.dnlink[i] = x.dnlink[i] - w + z
        BY <3>7, <3>8
      <3> QED BY <3>10, <3>13, <3>14, <3>15, <3>16
    <2> QED BY <2>1, <2>2
  <1> QED BY <1>1 DEF LinkOK

\* What p has locked is as on disk.
LEMMA LockedCopy ==
  ASSUME NEW x, NEW h, NEW M, NEW K, NEW V, NEW Q, Core(x, h, M, K, V, Q), DotDotFree,
         NEW p \in Procs, NEW i \in M[p]
  PROVE  /\ i \in Inodes /\ x.dtype[i] # "none" /\ x.type[i] = x.dtype[i] /\ x.nlink[i] = x.dnlink[i]
         /\ \A q \in Procs : q # p => V[q] # i /\ i \notin M[q]
  <1>1. Deep(x, h, M, K, V, Q) /\ M \in [Procs -> SUBSET Inodes] /\ V \in [Procs -> Refs] /\ h \in [Places -> Refs]
    BY CoreTypes
  <1>2. /\ i \in Inodes /\ x.lk[i] = p /\ x.valid[i] /\ h[<<p, "freeing">>] # i
        /\ i \in {h[<<p, "ip">>], h[<<p, "dp">>], h[<<p, "old">>]}
    BY <1>1 DEF Deep, LockOK
  <1>3. x.dtype[i] # "none" /\ x.type[i] = x.dtype[i] /\ x.nlink[i] = x.dnlink[i]
    BY <1>1, <1>2 DEF Deep, CopyOK, BeingFreed
  <1>4. PICK u \in {<<p, "ip">>, <<p, "dp">>, <<p, "old">>} : h[u] = i /\ u \in Places
    BY <1>2, PlaceOf
  <1>5. ASSUME NEW q \in Procs, q # p PROVE V[q] # i
    <2>1. u # <<q, "ip">> /\ u[2] # "freeing"
      BY <1>5
    <2>2. V[q] # 0 => \A v \in Places : h[v] = V[q] => v = <<q, "ip">> \/ v[2] = "freeing"
      BY <1>1 DEF Deep, NewOK
    <2> QED BY <1>2, <1>4, <2>1, <2>2, Numbers
  <1>6. ASSUME NEW q \in Procs, q # p, i \in M[q] PROVE FALSE
    BY <1>1, <1>2, <1>6 DEF Deep, LockOK
  <1> QED BY <1>2, <1>3, <1>5, <1>6

\* p changes links and entries of the inodes it has locked.
DiskStep(x, y, h, M, p, k, L) ==
  /\ DiskOK(y, L) /\ k \in {0, h[<<p, "ip">>], h[<<p, "old">>]}
  /\ \A i \in Inodes : y.dtype[i] = x.dtype[i]
  /\ \A i \in Inodes : i \notin M[p] => /\ y.dnlink[i] = x.dnlink[i] /\ y.nlink[i] = x.nlink[i]
                                        /\ \A n \in Names : y.ents[i][n] = x.ents[i][n]
  /\ \A i \in M[p] : y.nlink[i] = y.dnlink[i]
\* What a change of the disk by a process that has the inodes locked must respect.
LEMMA CoreDisk ==
  ASSUME NEW x, NEW h, NEW M, NEW K, NEW V, NEW Q, Core(x, h, M, K, V, Q),
         NEW p \in Procs, Quiet(Q, p), NEW k \in Refs,
         NEW y \in FsRec, y.lk = x.lk, y.ref = x.ref, y.valid = x.valid, y.type = x.type,
         DotDotFree => DiskStep(x, y, h, M, p, k, Upd(K, p, k))
  PROVE  Core(y, h, M, Upd(K, p, k), Upd(V, p, 0), Q)
  <1>1. /\ RefCore(x, h) /\ x \in FsRec /\ h \in [Places -> Refs] /\ 0 \in Refs
        /\ M \in [Procs -> SUBSET Inodes] /\ K \in [Procs -> Refs] /\ V \in [Procs -> Refs]
    BY CoreTypes, Numbers
  <1>2. Upd(K, p, k) \in [Procs -> Refs] /\ Upd(V, p, 0) \in [Procs -> Refs]
    BY <1>1 DEF Upd
  <1>3. RefCore(y, h)
    BY <1>1, RefSame
  <1>4. ASSUME DotDotFree, NEW L, L = Upd(K, p, k), NEW W, W = Upd(V, p, 0) PROVE Deep(y, h, M, L, W, Q)
    <2>1. Deep(x, h, M, K, V, Q)
      BY <1>4, CoreTypes
    <2>2. L[p] = k /\ W[p] = 0 /\ \A q \in Procs : q # p => L[q] = K[q] /\ W[q] = V[q]
      BY <1>1, <1>4 DEF Upd
    <2>3. /\ DiskOK(y, L) /\ k \in {0, h[<<p, "ip">>], h[<<p, "old">>]}
          /\ \A i \in Inodes : y.dtype[i] = x.dtype[i]
          /\ \A i \in Inodes : i \notin M[p] => /\ y.dnlink[i] = x.dnlink[i] /\ y.nlink[i] = x.nlink[i]
                                                /\ \A n \in Names : y.ents[i][n] = x.ents[i][n]
          /\ \A i \in M[p] : y.nlink[i] = y.dnlink[i]
      BY <1>4 DEF DiskStep
    <2>a. DiskOK(y, L)
      BY <2>3
    <2>b. HoldOK(y, h) /\ FreeOK(h)
      <3>1. HoldOK(x, h) /\ FreeOK(h)
        BY <2>1 DEF Deep
      <3>2. \A t \in Places : h[t] # 0 => y.dtype[h[t]] = x.dtype[h[t]]
        BY <1>1, <2>3, Numbers
      <3>3. \A q \in Procs : <<q, "dp">> \in Places /\ <<q, "old">> \in Places
        BY PlaceOf
      <3>4. \A t \in Places : h[t] # 0 /\ t[2] # "freeing" => y.dtype[h[t]] # "none"
        BY <3>1, <3>2 DEF HoldOK
      <3>5. \A q \in Procs : h[<<q, "dp">>] # 0 => y.dtype[h[<<q, "dp">>]] = "dir"
        BY <3>1, <3>2, <3>3 DEF HoldOK
      <3>6. \A q \in Procs : h[<<q, "old">>] # 0 => y.dtype[h[<<q, "old">>]] # "dir"
        BY <3>1, <3>2, <3>3 DEF HoldOK
      <3> QED BY <3>1, <3>4, <3>5, <3>6 DEF HoldOK
    <2>d. LockOK(y, h, M)
      BY <2>1 DEF Deep, LockOK, BeingFreed
    <2>e. CopyOK(y, h)
      <3>1. ASSUME NEW i \in Inodes, y.valid[i], ~ BeingFreed(y, h, i)
            PROVE  y.dtype[i] # "none" /\ y.type[i] = y.dtype[i] /\ y.nlink[i] = y.dnlink[i]
        <4>1. x.valid[i] /\ ~ BeingFreed(x, h, i)
          BY <3>1 DEF BeingFreed
        <4>2. x.dtype[i] # "none" /\ x.type[i] = x.dtype[i] /\ x.nlink[i] = x.dnlink[i]
          BY <2>1, <4>1 DEF Deep, CopyOK
        <4> QED BY <2>3, <4>2
      <3> QED BY <3>1 DEF CopyOK
    <2>f. ExtraOK(h, L)
      BY <2>1, <2>2, <2>3 DEF Deep, ExtraOK
    <2>g. NewOK(y, h, W)
      <3>1. ASSUME NEW q \in Procs, W[q] # 0
            PROVE  /\ y.dnlink[W[q]] = 0 /\ h[<<q, "ip">>] = W[q]
                   /\ \A n \in Names : y.ents[W[q]][n] = 0
                   /\ \A v \in Places : h[v] = W[q] => v = <<q, "ip">> \/ v[2] = "freeing"
        <4>1. q # p /\ W[q] = V[q]
          BY <2>2, <3>1
        <4>2. /\ x.dnlink[V[q]] = 0 /\ h[<<q, "ip">>] = V[q]
              /\ \A n \in Names : x.ents[V[q]][n] = 0
              /\ \A v \in Places : h[v] = V[q] => v = <<q, "ip">> \/ v[2] = "freeing"
          BY <2>1, <3>1, <4>1 DEF Deep, NewOK
        <4>3. V[q] \notin M[p] /\ V[q] \in Inodes
          BY <1>1, <1>4, <3>1, <4>1, LockedCopy, Numbers
        <4> QED BY <2>3, <4>1, <4>2, <4>3
      <3> QED BY <3>1 DEF NewOK
    <2>h. SeenOK(y, M, Q)
      <3>1. SeenOK(x, M, Q)
        BY <2>1 DEF Deep
      <3>2. ASSUME NEW s \in Q PROVE s[2] \in M[s[1]] /\ y.ents[s[2]][s[3]] = s[4]
        <4>1. s[1] \in Procs /\ s[1] # p /\ s[2] \in Inodes /\ s[3] \in Names /\ s[2] \in M[s[1]] /\ x.ents[s[2]][s[3]] = s[4]
          BY <3>1 DEF SeenOK, Quiet
        <4>2. s[2] \notin M[p]
          BY <1>4, <4>1, LockedCopy
        <4> QED BY <2>3, <4>1, <4>2
      <3> QED BY <3>1, <3>2 DEF SeenOK
    <2> QED BY <2>a, <2>b, <2>d, <2>e, <2>f, <2>g, <2>h DEF Deep
  <1> QED BY <1>1, <1>2, <1>3, <1>4 DEF Core

\* The types of link counts.
LEMMA NlinkType == \A x \in FsRec : \A i \in Inodes : x.nlink[i] \in Int /\ x.dnlink[i] \in Int
  BY FsTypes

\* A link is counted before the entry is there, ...
LEMMA CoreInc ==
  ASSUME NEW x, NEW h, NEW M, NEW K, NEW V, NEW Q, Core(x, h, M, K, V, Q),
         NEW p \in Procs, Quiet(Q, p), NEW i \in Inodes,
         DotDotFree => i \in M[p] /\ K[p] = 0 /\ h[<<p, "ip">>] = i,
         NEW y, y = SetNlink(x, i, x.nlink[i] + 1)
  PROVE  Core(y, h, M, Upd(K, p, i), Upd(V, p, 0), Q)
  <1>1. x \in FsRec /\ K \in [Procs -> Refs] /\ i \in Refs /\ x.nlink[i] \in Int
    BY CoreTypes, Numbers, NlinkType
  <1>r. PICK r \in Int : r = x.nlink[i] + 1
    BY <1>1
  <1>2. /\ y \in FsRec /\ y.panic = x.panic /\ y.file = x.file /\ y.ref = x.ref /\ y.lk = x.lk
        /\ y.ents = x.ents /\ y.lost = x.lost /\ y.valid = x.valid /\ y.type = x.type
        /\ y.nlink[i] = r /\ y.dnlink[i] = r /\ y.dtype[i] = x.type[i]
        /\ \A j \in Inodes : j # i => /\ y.nlink[j] = x.nlink[j] /\ y.dnlink[j] = x.dnlink[j]
                                   /\ y.dtype[j] = x.dtype[j]
    <2>1. y \in FsRec /\ NlinkSet(x, y, i, r)
      BY <1>1, <1>r, SetNlinkIs
    <2> QED BY <2>1 DEF NlinkSet
  <1>3. ASSUME DotDotFree
        PROVE  DiskStep(x, y, h, M, p, i, Upd(K, p, i))
    <2>1. i \in M[p] /\ K[p] = 0 /\ h[<<p, "ip">>] = i
      BY <1>3
    <2>2. \A j \in M[p] : j \in Inodes /\ x.type[j] = x.dtype[j] /\ x.nlink[j] = x.dnlink[j]
      BY <1>3, LockedCopy
    <2>3. \A j \in Inodes : y.dtype[j] = x.dtype[j]
      BY <1>2, <2>1, <2>2
    <2>4. DiskOK(x, K)
      BY <1>3, CoreTypes DEF Deep
    <2>5. \A j \in Inodes : y.dnlink[j] = x.dnlink[j] - Hit(K[p], j) + Hit(i, j)
      BY <1>1, <1>2, <1>r, <2>1, <2>2, NlinkType, Numbers DEF Hit
    <2>6. LinkOK(y, Upd(K, p, i))
      BY <1>1, <1>2, <2>3, <2>4, <2>5, LinkChange0 DEF DiskOK, SameEnts
    <2>7. EntsOK(y)
      <3>1. ROOTINO \in Inodes /\ \A d \in Inodes, n \in Names : x.ents[d][n] # 0 => x.ents[d][n] \in Inodes
        BY <1>1, EntsType, Numbers
      <3> QED BY <1>2, <2>3, <2>4, <3>1, SMTT(30) DEF DiskOK, EntsOK
    <2>8. DiskOK(y, Upd(K, p, i))
      BY <1>2, <2>4, <2>6, <2>7 DEF DiskOK
    <2> QED BY <1>2, <2>1, <2>2, <2>3, <2>8, SMTT(30) DEF DiskStep
  <1> QED BY <1>1, <1>2, <1>3, CoreDisk

\* ... or uncounted when the entry is gone.
LEMMA CoreDec ==
  ASSUME NEW x, NEW h, NEW M, NEW K, NEW V, NEW Q, Core(x, h, M, K, V, Q),
         NEW p \in Procs, Quiet(Q, p), NEW i \in Inodes,
         DotDotFree => i \in M[p] /\ K[p] = i,
         NEW y, y = SetNlink(x, i, x.nlink[i] - 1)
  PROVE  Core(y, h, M, Upd(K, p, 0), Upd(V, p, 0), Q)
  <1>1. x \in FsRec /\ K \in [Procs -> Refs] /\ 0 \in Refs /\ x.nlink[i] \in Int
    BY CoreTypes, Numbers, NlinkType
  <1>r. PICK r \in Int : r = x.nlink[i] - 1
    BY <1>1
  <1>2. /\ y \in FsRec /\ y.panic = x.panic /\ y.file = x.file /\ y.ref = x.ref /\ y.lk = x.lk
        /\ y.ents = x.ents /\ y.lost = x.lost /\ y.valid = x.valid /\ y.type = x.type
        /\ y.nlink[i] = r /\ y.dnlink[i] = r /\ y.dtype[i] = x.type[i]
        /\ \A j \in Inodes : j # i => /\ y.nlink[j] = x.nlink[j] /\ y.dnlink[j] = x.dnlink[j]
                                   /\ y.dtype[j] = x.dtype[j]
    <2>1. y \in FsRec /\ NlinkSet(x, y, i, r)
      BY <1>1, <1>r, SetNlinkIs
    <2> QED BY <2>1 DEF NlinkSet
  <1>3. ASSUME DotDotFree
        PROVE  DiskStep(x, y, h, M, p, 0, Upd(K, p, 0))
    <2>1. i \in M[p] /\ K[p] = i
      BY <1>3
    <2>2. \A j \in M[p] : j \in Inodes /\ x.type[j] = x.dtype[j] /\ x.nlink[j] = x.dnlink[j]
      BY <1>3, LockedCopy
    <2>3. \A j \in Inodes : y.dtype[j] = x.dtype[j]
      BY <1>2, <2>1, <2>2
    <2>4. DiskOK(x, K)
      BY <1>3, CoreTypes DEF Deep
    <2>5. \A j \in Inodes : y.dnlink[j] = x.dnlink[j] - Hit(K[p], j) + Hit(0, j)
      BY <1>1, <1>2, <1>r, <2>1, <2>2, NlinkType, Numbers DEF Hit
    <2>6. LinkOK(y, Upd(K, p, 0))
      BY <1>1, <1>2, <2>3, <2>4, <2>5, LinkChange0 DEF DiskOK, SameEnts
    <2>7. EntsOK(y)
      <3>1. ROOTINO \in Inodes /\ \A d \in Inodes, n \in Names : x.ents[d][n] # 0 => x.ents[d][n] \in Inodes
        BY <1>1, EntsType, Numbers
      <3> QED BY <1>2, <2>3, <2>4, <3>1, SMTT(30) DEF DiskOK, EntsOK
    <2>8. DiskOK(y, Upd(K, p, 0))
      BY <1>2, <2>4, <2>6, <2>7 DEF DiskOK
    <2> QED BY <1>2, <2>1, <2>2, <2>3, <2>8 DEF DiskStep
  <1> QED BY <1>1, <1>2, <1>3, CoreDisk

\* An entry for an inode that has none itself makes no circle.
LEMMA AcyclicAdd ==
  ASSUME NEW x \in FsRec, NEW y \in FsRec, Acyclic(x.ents), NEW d \in Inodes, NEW n \in Names, OneEntry(x, y, d, n),
         y.ents[d][n] = 0 \/ (y.ents[d][n] # d /\ \A m \in Names : x.ents[y.ents[d][n]][m] = 0)
  PROVE  Acyclic(y.ents)
  <1>1. ASSUME NEW D \in SUBSET Inodes, \A k \in D : \E m \in Names : y.ents[k][m] \in D PROVE D = {}
    <2>1. y.ents[d][n] \notin D
      <3>1. CASE y.ents[d][n] = 0
        BY <3>1, Numbers
      <3>2. ASSUME y.ents[d][n] # d /\ (\A m \in Names : x.ents[y.ents[d][n]][m] = 0), y.ents[d][n] \in D
            PROVE  FALSE
        <4>1. PICK j \in D : j = y.ents[d][n] /\ j # d
          BY <3>2
        <4>2. \A m \in Names : y.ents[j][m] = 0
          BY <3>2, <4>1 DEF OneEntry
        <4> QED BY <1>1, <4>2, Numbers
      <3> QED BY <3>1, <3>2
    <2>2. \A k \in D : \E m \in Names : x.ents[k][m] \in D
      <3>1. ASSUME NEW k \in D PROVE \E m \in Names : x.ents[k][m] \in D
        <4>1. PICK m \in Names : y.ents[k][m] \in D
          BY <1>1
        <4>2. k # d \/ m # n
          BY <2>1, <4>1
        <4> QED BY <4>1, <4>2 DEF OneEntry
      <3> QED BY <3>1
    <2> QED BY <2>2 DEF Acyclic
  <1> QED BY <1>1 DEF Acyclic

\* A new entry names an allocated inode.
LEMMA EntsAdd ==
  ASSUME NEW x \in FsRec, NEW y \in FsRec, EntsOK(x), NEW d \in Inodes, NEW n \in Names, OneEntry(x, y, d, n),
         \A j \in Inodes : y.dtype[j] = x.dtype[j],
         y.ents[d][n] # 0 => x.dtype[d] = "dir" /\ x.dtype[y.ents[d][n]] # "none"
  PROVE  EntsOK(y)
  <1>1. ASSUME NEW k \in Inodes, NEW m \in Names, y.ents[k][m] # 0
        PROVE  y.dtype[k] = "dir" /\ y.dtype[y.ents[k][m]] # "none"
    <2>1. y.ents[k][m] \in Inodes
      BY <1>1, EntsType, Numbers
    <2>2. CASE k = d /\ m = n
      BY <1>1, <2>1, <2>2
    <2>3. CASE k # d \/ m # n
      <3>1. y.ents[k][m] = x.ents[k][m]
        BY <2>3 DEF OneEntry
      <3> QED BY <1>1, <2>1, <3>1 DEF EntsOK
    <2> QED BY <2>2, <2>3
  <1> QED BY <1>1, Numbers DEF EntsOK

\* link() enters the file.
LEMMA CoreEntry ==
  ASSUME NEW x, NEW h, NEW M, NEW K, NEW V, NEW Q, Core(x, h, M, K, V, Q),
         NEW p \in Procs, Quiet(Q, p), NEW d \in Inodes, NEW i \in Inodes,
         NEW n \in DirNames,
         DotDotFree => /\ d \in M[p] /\ n \in Names /\ x.ents[d][n] = 0 /\ K[p] = i
                       /\ h[<<p, "old">>] = i /\ h[<<p, "dp">>] = d,
         NEW y, y = dirlink(x, d, n, i)
  PROVE  Core(y, h, M, Upd(K, p, 0), Upd(V, p, 0), Q)
  <1>1. x \in FsRec /\ K \in [Procs -> Refs] /\ 0 \in Refs /\ i \in Refs
    BY CoreTypes, Numbers
  <1>2. /\ y \in FsRec /\ y.panic = x.panic /\ y.file = x.file /\ y.ref = x.ref /\ y.lk = x.lk
        /\ y.valid = x.valid /\ y.type = x.type /\ y.nlink = x.nlink /\ y.lost = x.lost /\ y.dtype = x.dtype /\ y.dnlink = x.dnlink
        /\ y.ents[d][n] = i /\ \A m \in DirNames : m # n => y.ents[d][m] = x.ents[d][m]
        /\ \A k \in Inodes : k # d => y.ents[k] = x.ents[k]
    <2>1. y \in FsRec /\ Entered(x, y, d, n, i)
      BY <1>1, DirlinkIs
    <2> QED BY <2>1 DEF Entered
  <1>4. ASSUME DotDotFree
        PROVE  DiskStep(x, y, h, M, p, 0, Upd(K, p, 0))
    <2>1. /\ d \in M[p] /\ n \in Names /\ x.ents[d][n] = 0 /\ K[p] = i
          /\ h[<<p, "old">>] = i /\ h[<<p, "dp">>] = d
      BY <1>4
    <2>2. \A j \in M[p] : j \in Inodes /\ x.type[j] = x.dtype[j] /\ x.nlink[j] = x.dnlink[j]
      BY <1>4, LockedCopy
    <2>3. DiskOK(x, K) /\ HoldOK(x, h)
      BY <1>4, CoreTypes DEF Deep
    <2>4. OneEntry(x, y, d, n)
      BY <1>2, <2>1 DEF OneEntry, DirNames
    <2>5. x.dtype[d] = "dir" /\ x.dtype[i] # "dir"
      BY <2>1, <2>3, Numbers DEF HoldOK
    <2>6. x.dtype[i] # "none"
      <3>1. <<p, "old">> \in Places /\ <<p, "old">>[2] # "freeing"
        BY PlaceOf
      <3> QED BY <2>1, <2>3, <3>1, Numbers DEF HoldOK
    <2>7. EntsOK(y)
      BY <1>1, <1>2, <2>1, <2>3, <2>4, <2>5, <2>6, EntsAdd DEF DiskOK
    <2>8. \A m \in Names : x.ents[i][m] = 0
      BY <2>3, <2>5 DEF DiskOK, EntsOK
    <2>9. i # d
      BY <2>5
    <2>10. Acyclic(y.ents)
      BY <1>1, <1>2, <2>1, <2>3, <2>4, <2>8, <2>9, AcyclicAdd DEF DiskOK
    <2>11. \A j \in Inodes : y.dnlink[j] = x.dnlink[j] - Hit(x.ents[d][n], j) + Hit(y.ents[d][n], j)
            + (IF j = d THEN IsDir(x, y.ents[d][n]) - IsDir(x, x.ents[d][n]) ELSE 0)
            - Hit(K[p], j) + Hit(0, j)
      <3>1. IsDir(x, i) = 0 /\ IsDir(x, 0) = 0
        BY <2>5 DEF IsDir
      <3>2. \A j \in Inodes : Hit(0, j) = 0 /\ Hit(i, j) \in {0, 1} /\ x.dnlink[j] \in Int
        BY <1>1, Numbers, NlinkType DEF Hit
      <3>3. x.ents[d][n] = 0 /\ y.ents[d][n] = i /\ K[p] = i
        BY <1>2, <2>1
      <3> QED BY <1>2, <3>1, <3>2, <3>3
    <2>12. LinkOK(x, K) /\ n \in Names /\ y \in FsRec
           /\ (\A j \in Inodes : y.dtype[j] = x.dtype[j]) /\ y.lost = x.lost
      BY <1>2, <2>1, <2>3 DEF DiskOK
    <2>13. LinkOK(y, Upd(K, p, 0))
      BY <1>1, <2>4, <2>11, <2>12, LinkChange
    <2>14. DiskOK(y, Upd(K, p, 0))
      BY <1>2, <2>3, <2>7, <2>10, <2>13 DEF DiskOK
    <2> QED BY <1>2, <2>1, <2>2, <2>14 DEF DiskStep
  <1> QED BY <1>1, <1>2, <1>4, CoreDisk

\* An inode that has an entry has a link.
LEMMA HasLinks ==
  ASSUME NEW x \in FsRec, NEW K \in [Procs -> Refs], LinkOK(x, K), NEW d \in Inodes, NEW n \in Names,
         NEW i \in Inodes, x.ents[d][n] = i, x.dtype[i] # "none"
  PROVE  x.dnlink[i] >= 1
  <1>1. PICK A : A = EntriesOf(x.ents, i)
    OBVIOUS
  <1>2. IsFiniteSet(A) /\ Cardinality(A) \in Nat /\ <<d, n>> \in A
    <2>1. IsFiniteSet(A) /\ Cardinality(A) \in Nat
      BY <1>1, LinksFinite
    <2> QED BY <1>1, <2>1 DEF EntriesOf
  <1>3. Cardinality(A) # 0
    BY <1>2, FS_EmptySet
  <1>4. PICK a \in Nat : a = Cardinality(A) /\ a # 0
    BY <1>2, <1>3
  <1>5. PICK b \in Nat : b = Cardinality(SubdirsOf(x.ents, x.dtype, i))
    BY LinksFinite
  <1>6. PICK e \in Nat : e = Cardinality(Pending(K, i))
    BY LinksFinite
  <1>7. PICK r \in {0, 1} : r = IF i = ROOTINO THEN 1 ELSE 0
    OBVIOUS
  <1>8. PICK l \in Nat : l = x.lost[i]
    BY FsTypes DEF LinkOK
  <1>9. x.dnlink[i] = LinksOf(x, i) + e
    BY <1>6 DEF LinkOK
  <1>10. LinksOf(x, i) = a + b + l + r
    BY <1>1, <1>4, <1>5, <1>7, <1>8 DEF LinksOf
  <1>11. x.dnlink[i] = (a + b + l + r) + e
    BY <1>9, <1>10
  <1>12. a \in Nat /\ a # 0 /\ b \in Nat /\ l \in Nat /\ r \in Nat /\ e \in Nat
    BY <1>4, <1>5, <1>6, <1>7, <1>8
  <1>13. (a + b + l + r) + e >= 1
    BY <1>12
  <1> QED BY <1>11, <1>13

\* unlink() removes the entry.
Detach(x, d, n, i) ==
  LET y == dirlink([x EXCEPT !.panic = @ \/ x.nlink[i] < 1], d, n, 0)
  IN IF x.type[i] = "dir" THEN SetNlink(y, d, y.nlink[d] - 1) ELSE y

\* What the removal of an entry by sys_unlink() does to each part of the tables.
LEMMA DetachIs ==
  ASSUME NEW x \in FsRec, NEW d \in Inodes, NEW i \in Inodes, NEW n \in DirNames,
         NEW z, z = Detach(x, d, n, i)
  PROVE  /\ z \in FsRec /\ z.file = x.file /\ z.ref = x.ref /\ z.lk = x.lk /\ z.valid = x.valid
         /\ z.type = x.type /\ z.lost = x.lost /\ (x.nlink[i] >= 1 => z.panic = x.panic)
         /\ z.ents[d][n] = 0 /\ \A m \in DirNames : m # n => z.ents[d][m] = x.ents[d][m]
         /\ \A k \in Inodes : k # d => z.ents[k] = x.ents[k]
         /\ \A k \in Inodes : k # d => /\ z.nlink[k] = x.nlink[k] /\ z.dnlink[k] = x.dnlink[k]
                                    /\ z.dtype[k] = x.dtype[k]
         /\ x.type[i] = "dir" => /\ z.nlink[d] = x.nlink[d] - 1 /\ z.dnlink[d] = x.nlink[d] - 1
                                 /\ z.dtype[d] = x.type[d]
         /\ x.type[i] # "dir" => /\ z.nlink[d] = x.nlink[d] /\ z.dnlink[d] = x.dnlink[d]
                                 /\ z.dtype[d] = x.dtype[d]
  <1>1. PICK w : w = [x EXCEPT !.panic = @ \/ x.nlink[i] < 1]
    OBVIOUS
  <1>2. /\ w \in FsRec /\ SameDisk(x, w) /\ SameCopy(x, w) /\ w.file = x.file /\ w.ref = x.ref /\ w.lk = x.lk
        /\ (x.nlink[i] >= 1 => w.panic = x.panic)
    <2>1. x.panic \in BOOLEAN /\ x.nlink[i] \in Int
      BY FsTypes
    <2>2. CASE x.nlink[i] < 1
      <3>1. PICK b \in BOOLEAN : b = (x.panic \/ x.nlink[i] < 1)
        OBVIOUS
      <3>2. w = [x EXCEPT !.panic = b]
        BY <1>1, <3>1
      <3>3. w \in FsRec /\ SameDisk(x, w) /\ SameCopy(x, w) /\ w.file = x.file /\ w.ref = x.ref /\ w.lk = x.lk
        BY <3>1, <3>2 DEF FsRec, SameDisk, SameCopy
      <3> QED BY <2>1, <2>2, <3>3
    <2>3. CASE ~ (x.nlink[i] < 1)
      <3>1. w = [x EXCEPT !.panic = x.panic]
        BY <1>1, <2>1, <2>3
      <3> QED BY <2>3, <3>1 DEF FsRec, SameDisk, SameCopy
    <2> QED BY <2>2, <2>3
  <1>3. PICK y : y = dirlink(w, d, n, 0)
    OBVIOUS
  <1>4. y \in FsRec /\ Entered(w, y, d, n, 0)
    BY <1>2, <1>3, DirlinkIs, Numbers
  <1>5. /\ y \in FsRec /\ y.file = x.file /\ y.ref = x.ref /\ y.lk = x.lk /\ y.valid = x.valid
        /\ y.type = x.type /\ y.lost = x.lost /\ (x.nlink[i] >= 1 => y.panic = x.panic)
        /\ y.nlink = x.nlink /\ y.dnlink = x.dnlink /\ y.dtype = x.dtype
        /\ y.ents[d][n] = 0 /\ \A m \in DirNames : m # n => y.ents[d][m] = x.ents[d][m]
        /\ \A k \in Inodes : k # d => y.ents[k] = x.ents[k]
    BY <1>2, <1>4 DEF Entered, SameDisk, SameCopy
  <1>6. CASE x.type[i] # "dir"
    <2>1. z = y
      BY <1>1, <1>3, <1>6 DEF Detach
    <2> QED BY <1>5, <1>6, <2>1
  <1>7. CASE x.type[i] = "dir"
    <2>1. PICK r \in Int : r = x.nlink[d] - 1
      BY NlinkType
    <2>2. z = SetNlink(y, d, r)
      BY <1>1, <1>3, <1>5, <1>7, <2>1 DEF Detach
    <2>3. z \in FsRec /\ NlinkSet(y, z, d, r)
      BY <1>5, <2>1, <2>2, SetNlinkIs
    <2> QED BY <1>5, <1>7, <2>1, <2>3 DEF NlinkSet
  <1> QED BY <1>6, <1>7

\* sys_unlink() removes an entry, and the link of a subdirectory's ".." to its parent.
LEMMA CoreDetach ==
  ASSUME NEW x, NEW h, NEW M, NEW K, NEW V, NEW Q, Core(x, h, M, K, V, Q),
         NEW p \in Procs, Quiet(Q, p), NEW d \in Inodes, NEW i \in Inodes, NEW n \in DirNames,
         DotDotFree => /\ d \in M[p] /\ i \in M[p] /\ n \in Names /\ x.ents[d][n] = i /\ K[p] = 0
                       /\ h[<<p, "ip">>] = i,
         NEW y, y = Detach(x, d, n, i)
  PROVE  Core(y, h, M, Upd(K, p, i), Upd(V, p, 0), Q) /\ y.file = x.file
  <1>1. x \in FsRec /\ K \in [Procs -> Refs] /\ i \in Refs
    BY CoreTypes, Numbers
  <1>2. /\ y \in FsRec /\ y.file = x.file /\ y.ref = x.ref /\ y.lk = x.lk /\ y.valid = x.valid
        /\ y.type = x.type /\ y.lost = x.lost
    BY <1>1, DetachIs
  <1>3. ASSUME DotDotFree PROVE DiskStep(x, y, h, M, p, i, Upd(K, p, i))
    <2>1. /\ d \in M[p] /\ i \in M[p] /\ n \in Names /\ x.ents[d][n] = i /\ K[p] = 0
          /\ h[<<p, "ip">>] = i
      BY <1>3
    <2>2. \A j \in M[p] : j \in Inodes /\ x.dtype[j] # "none" /\ x.type[j] = x.dtype[j] /\ x.nlink[j] = x.dnlink[j]
      BY <1>3, LockedCopy
    <2>3. DiskOK(x, K)
      BY <1>3, CoreTypes DEF Deep
    <2>4. x.nlink[i] >= 1
      BY <1>1, <2>1, <2>2, <2>3, HasLinks DEF DiskOK
    <2>5. /\ y.panic = x.panic /\ y.ents[d][n] = 0
          /\ \A k \in Inodes : k # d => y.nlink[k] = x.nlink[k] /\ y.dnlink[k] = x.dnlink[k]
      BY <1>1, <2>4, DetachIs
    <2>6. OneEntry(x, y, d, n)
      <3>1. /\ \A m \in DirNames : m # n => y.ents[d][m] = x.ents[d][m]
            /\ \A k \in Inodes : k # d => y.ents[k] = x.ents[k]
        BY <1>1, DetachIs
      <3> QED BY <3>1 DEF OneEntry, DirNames
    <2>7. y.dtype[d] = x.dtype[d] /\ y.nlink[d] = y.dnlink[d] /\ y.dnlink[d] = x.dnlink[d] - IsDir(x, i)
      <3>1. CASE x.type[i] = "dir"
        <4>1. y.nlink[d] = x.nlink[d] - 1 /\ y.dnlink[d] = x.nlink[d] - 1 /\ y.dtype[d] = x.type[d]
          BY <1>1, <3>1, DetachIs
        <4>2. IsDir(x, i) = 1
          BY <2>1, <2>2, <3>1, Numbers DEF IsDir
        <4> QED BY <2>1, <2>2, <4>1, <4>2
      <3>2. CASE x.type[i] # "dir"
        <4>1. y.nlink[d] = x.nlink[d] /\ y.dnlink[d] = x.dnlink[d] /\ y.dtype[d] = x.dtype[d]
          BY <1>1, <3>2, DetachIs
        <4>2. IsDir(x, i) = 0 /\ x.dnlink[d] \in Int
          BY <1>1, <2>1, <2>2, <3>2, NlinkType DEF IsDir
        <4> QED BY <2>1, <2>2, <4>1, <4>2
      <3> QED BY <3>1, <3>2
    <2>8. \A k \in Inodes : y.dtype[k] = x.dtype[k]
      <3>1. \A k \in Inodes : k # d => y.dtype[k] = x.dtype[k]
        BY <1>1, DetachIs
      <3> QED BY <2>7, <3>1
    <2>9. EntsOK(y)
      BY <1>1, <1>2, <2>1, <2>3, <2>5, <2>6, <2>8, EntsAdd DEF DiskOK
    <2>10. Acyclic(y.ents)
      BY <1>1, <1>2, <2>1, <2>3, <2>5, <2>6, AcyclicAdd DEF DiskOK
    <2>11. \A j \in Inodes : y.dnlink[j] = x.dnlink[j] - Hit(x.ents[d][n], j) + Hit(y.ents[d][n], j)
            + (IF j = d THEN IsDir(x, y.ents[d][n]) - IsDir(x, x.ents[d][n]) ELSE 0)
            - Hit(K[p], j) + Hit(i, j)
      <3>1. IsDir(x, 0) = 0 /\ IsDir(x, i) \in {0, 1}
        BY DEF IsDir
      <3>2. \A j \in Inodes : Hit(0, j) = 0 /\ Hit(i, j) \in {0, 1} /\ x.dnlink[j] \in Int
        BY <1>1, Numbers, NlinkType DEF Hit
      <3>3. x.ents[d][n] = i /\ y.ents[d][n] = 0 /\ K[p] = 0
        BY <2>1, <2>5
      <3>4. \A j \in Inodes : y.dnlink[j] = x.dnlink[j] - (IF j = d THEN IsDir(x, i) ELSE 0)
        BY <2>5, <2>7, <3>2
      <3> QED BY <3>1, <3>2, <3>3, <3>4
    <2>12. LinkOK(x, K) /\ n \in Names /\ y \in FsRec /\ y.lost = x.lost
      BY <1>2, <2>1, <2>3 DEF DiskOK
    <2>13. LinkOK(y, Upd(K, p, i))
      BY <1>1, <2>6, <2>8, <2>11, <2>12, LinkChange
    <2>14. DiskOK(y, Upd(K, p, i))
      BY <2>3, <2>5, <2>9, <2>10, <2>13 DEF DiskOK
    <2>15. \A j \in Inodes : j \notin M[p] => \A m \in Names : y.ents[j][m] = x.ents[j][m]
      BY <2>1, <2>6 DEF OneEntry
    <2> QED BY <2>1, <2>2, <2>5, <2>7, <2>8, <2>14, <2>15 DEF DiskStep
  <1> QED BY <1>1, <1>2, <1>3, CoreDisk

\* create() gives the new inode its link, and a new directory its "..".
NewLink(x, i, d) ==
  LET w == SetNlink(x, i, 1) IN IF w.type[i] = "dir" THEN dirlink(w, i, "..", d) ELSE w

NewLinked(x, y, i) ==
  /\ y.file = x.file /\ y.ref = x.ref /\ y.lk = x.lk /\ y.valid = x.valid
  /\ y.type = x.type /\ y.lost = x.lost /\ y.panic = x.panic /\ SameEnts(x, y)
  /\ y.nlink[i] = 1 /\ y.dnlink[i] = 1 /\ y.dtype[i] = x.type[i]
  /\ \A j \in Inodes : j # i => /\ y.nlink[j] = x.nlink[j] /\ y.dnlink[j] = x.dnlink[j]
                             /\ y.dtype[j] = x.dtype[j]
\* What create() does to a new inode before its entry is there.
LEMMA NewLinkIs ==
  ASSUME NEW x \in FsRec, NEW i \in Inodes, NEW d \in Inodes, NEW y, y = NewLink(x, i, d)
  PROVE  y \in FsRec /\ NewLinked(x, y, i)
  <1>1. PICK w : w = SetNlink(x, i, 1)
    OBVIOUS
  <1>2. w \in FsRec /\ NlinkSet(x, w, i, 1)
    BY <1>1, SetNlinkIs
  <1>3. /\ w \in FsRec /\ w.file = x.file /\ w.ref = x.ref /\ w.lk = x.lk /\ w.valid = x.valid
        /\ w.type = x.type /\ w.lost = x.lost /\ w.panic = x.panic /\ w.ents = x.ents
        /\ w.nlink[i] = 1 /\ w.dnlink[i] = 1 /\ w.dtype[i] = x.type[i]
        /\ \A j \in Inodes : j # i => /\ w.nlink[j] = x.nlink[j] /\ w.dnlink[j] = x.dnlink[j]
                                   /\ w.dtype[j] = x.dtype[j]
    BY <1>2 DEF NlinkSet
  <1>4. CASE w.type[i] = "dir"
    <2>1. y = dirlink(w, i, "..", d)
      BY <1>1, <1>4 DEF NewLink
    <2>2. ".." \in DirNames /\ d \in Refs /\ ".." \notin Names
      BY FsAssumption, Numbers DEF DirNames
    <2>3. y \in FsRec /\ Entered(w, y, i, "..", d)
      BY <1>3, <2>1, <2>2, DirlinkIs
    <2>4. \A k \in Inodes, m \in Names : y.ents[k][m] = w.ents[k][m]
      BY <2>2, <2>3 DEF Entered, DirNames
    <2>5. SameEnts(x, y)
      BY <1>3, <2>4 DEF SameEnts
    <2> QED BY <1>3, <2>3, <2>5 DEF Entered, NewLinked
  <1>5. CASE w.type[i] # "dir"
    <2>1. y = w
      BY <1>1, <1>5 DEF NewLink
    <2>2. SameEnts(x, w)
      BY <1>3 DEF SameEnts
    <2> QED BY <1>3, <2>1, <2>2 DEF NewLinked
  <1> QED BY <1>4, <1>5

\* What p knows of the inode i it has allocated.
NewInode(x, h, p, i) ==
  /\ x.dnlink[i] = 0 /\ x.dtype[i] # "none" /\ x.type[i] = x.dtype[i] /\ x.nlink[i] = 0
  /\ h[<<p, "ip">>] = i /\ \A n \in Names : x.ents[i][n] = 0
  /\ h[<<p, "dp">>] # i
\* What is known of an inode that create() has allocated and locked.
LEMMA NewFacts ==
  ASSUME NEW x, NEW h, NEW M, NEW K, NEW V, NEW Q, Core(x, h, M, K, V, Q), DotDotFree,
         NEW p \in Procs, NEW i \in Inodes, V[p] = i, i \in M[p]
  PROVE  NewInode(x, h, p, i)
  <1>1. Deep(x, h, M, K, V, Q)
    BY CoreTypes
  <1>2. /\ x.dnlink[i] = 0 /\ h[<<p, "ip">>] = i /\ (\A n \in Names : x.ents[i][n] = 0)
        /\ \A t \in Places : h[t] = i => t = <<p, "ip">> \/ t[2] = "freeing"
    BY <1>1, Numbers DEF Deep, NewOK
  <1>3. x.dtype[i] # "none" /\ x.type[i] = x.dtype[i] /\ x.nlink[i] = x.dnlink[i]
    BY LockedCopy
  <1>4. <<p, "dp">> \in Places /\ <<p, "dp">> # <<p, "ip">> /\ <<p, "dp">>[2] # "freeing"
    BY PlaceOf
  <1> QED BY <1>2, <1>3, <1>4 DEF NewInode

\* The disk is full: create() gives up.
LEMMA CoreNoAttach ==
  ASSUME NEW x, NEW h, NEW M, NEW K, NEW V, NEW Q, Core(x, h, M, K, V, Q),
         NEW p \in Procs, Quiet(Q, p), NEW d \in Inodes, NEW i \in Inodes,
         DotDotFree => V[p] = i /\ i \in M[p] /\ K[p] = 0,
         NEW y, y = SetNlink(NewLink(x, i, d), i, 0)
  PROVE  Core(y, h, M, Upd(K, p, 0), Upd(V, p, 0), Q) /\ y.file = x.file
  <1>1. x \in FsRec /\ K \in [Procs -> Refs] /\ 0 \in Refs
    BY CoreTypes, Numbers
  <1>2. PICK w : w = NewLink(x, i, d)
    OBVIOUS
  <1>3. /\ w \in FsRec /\ w.file = x.file /\ w.ref = x.ref /\ w.lk = x.lk /\ w.valid = x.valid
        /\ w.type = x.type /\ w.lost = x.lost /\ w.panic = x.panic /\ SameEnts(x, w)
        /\ w.dtype[i] = x.type[i]
        /\ \A j \in Inodes : j # i => /\ w.nlink[j] = x.nlink[j] /\ w.dnlink[j] = x.dnlink[j]
                                   /\ w.dtype[j] = x.dtype[j]
    <2>1. w \in FsRec /\ NewLinked(x, w, i)
      BY <1>1, <1>2, NewLinkIs
    <2> QED BY <2>1 DEF NewLinked
  <1>4. y \in FsRec /\ NlinkSet(w, y, i, 0)
    BY <1>2, <1>3, SetNlinkIs
  <1>5. /\ y \in FsRec /\ y.file = x.file /\ y.ref = x.ref /\ y.lk = x.lk /\ y.valid = x.valid
        /\ y.type = x.type /\ y.lost = x.lost /\ y.panic = x.panic
        /\ y.nlink[i] = 0 /\ y.dnlink[i] = 0 /\ y.dtype[i] = x.type[i]
        /\ \A j \in Inodes : j # i => /\ y.nlink[j] = x.nlink[j] /\ y.dnlink[j] = x.dnlink[j]
                                   /\ y.dtype[j] = x.dtype[j]
    BY <1>3, <1>4 DEF NlinkSet
  <1>6. SameEnts(x, y)
    BY <1>3, <1>4 DEF NlinkSet, SameEnts
  <1>7. ASSUME DotDotFree PROVE DiskStep(x, y, h, M, p, 0, Upd(K, p, 0))
    <2>1. V[p] = i /\ i \in M[p] /\ K[p] = 0
      BY <1>7
    <2>2. x.dnlink[i] = 0 /\ x.type[i] = x.dtype[i]
      <3>1. NewInode(x, h, p, i)
        BY <1>7, <2>1, NewFacts
      <3> QED BY <3>1 DEF NewInode
    <2>3. \A j \in M[p] : j \in Inodes /\ x.nlink[j] = x.dnlink[j]
      BY <1>7, LockedCopy
    <2>4. \A j \in Inodes : y.dtype[j] = x.dtype[j]
      BY <1>5, <2>2
    <2>5. DiskOK(x, K)
      BY <1>7, CoreTypes DEF Deep
    <2>6. \A j \in Inodes : y.dnlink[j] = x.dnlink[j] - Hit(K[p], j) + Hit(0, j)
      BY <1>1, <1>5, <2>1, <2>2, NlinkType, Numbers DEF Hit
    <2>7. LinkOK(y, Upd(K, p, 0))
      BY <1>1, <1>5, <1>6, <2>4, <2>5, <2>6, LinkChange0 DEF DiskOK
    <2>8. EntsOK(y)
      <3>1. ROOTINO \in Inodes /\ \A k \in Inodes, n \in Names : x.ents[k][n] # 0 => x.ents[k][n] \in Inodes
        BY <1>1, EntsType, Numbers
      <3> QED BY <1>6, <2>4, <2>5, <3>1 DEF DiskOK, EntsOK, SameEnts
    <2>9. Acyclic(y.ents)
      <3>1. Acyclic(x.ents)
        BY <2>5 DEF DiskOK
      <3>2. ASSUME NEW D \in SUBSET Inodes, \A k \in D : \E n \in Names : y.ents[k][n] \in D PROVE D = {}
        <4>1. \A k \in D : \E n \in Names : x.ents[k][n] \in D
          BY <1>6, <3>2 DEF SameEnts
        <4> QED BY <3>1, <4>1 DEF Acyclic
      <3> QED BY <3>2 DEF Acyclic
    <2>10. DiskOK(y, Upd(K, p, 0))
      BY <1>5, <2>5, <2>7, <2>8, <2>9 DEF DiskOK
    <2>11. \A j \in M[p] : y.nlink[j] = y.dnlink[j]
      BY <1>5, <2>3
    <2>12. \A j \in Inodes : j \notin M[p] => /\ y.dnlink[j] = x.dnlink[j] /\ y.nlink[j] = x.nlink[j]
                                              /\ \A n \in Names : y.ents[j][n] = x.ents[j][n]
      BY <1>5, <1>6, <2>1 DEF SameEnts
    <2> QED BY <2>4, <2>10, <2>11, <2>12 DEF DiskStep
  <1> QED BY <1>1, <1>5, <1>7, CoreDisk

Attach(x, d, n, i) ==
  LET w == SetNlink(x, i, 1)
      y == IF w.type[i] = "dir" THEN dirlink(w, i, "..", d) ELSE w
  IN dirlink(IF w.type[i] = "dir" THEN SetNlink(y, d, y.nlink[d] + 1) ELSE y, d, n, i)

\* What the entry create() writes does to each part of the tables.
LEMMA AttachIs ==
  ASSUME NEW x \in FsRec, NEW d \in Inodes, NEW i \in Inodes, NEW n \in DirNames,
         NEW z, z = Attach(x, d, n, i)
  PROVE  /\ z \in FsRec /\ z.file = x.file /\ z.ref = x.ref /\ z.lk = x.lk /\ z.valid = x.valid
         /\ z.type = x.type /\ z.lost = x.lost /\ z.panic = x.panic
         /\ z.ents[d][n] = i /\ OneEntry(x, z, d, n)
         /\ d # i => z.nlink[i] = 1 /\ z.dnlink[i] = 1 /\ z.dtype[i] = x.type[i]
         /\ \A k \in Inodes : k # d /\ k # i => /\ z.nlink[k] = x.nlink[k] /\ z.dnlink[k] = x.dnlink[k]
                                            /\ z.dtype[k] = x.dtype[k]
         /\ d # i /\ x.type[i] = "dir" => /\ z.nlink[d] = x.nlink[d] + 1 /\ z.dnlink[d] = x.nlink[d] + 1
                                          /\ z.dtype[d] = x.type[d]
         /\ d # i /\ x.type[i] # "dir" => /\ z.nlink[d] = x.nlink[d] /\ z.dnlink[d] = x.dnlink[d]
                                          /\ z.dtype[d] = x.dtype[d]
  <1>1. PICK y : y = NewLink(x, i, d)
    OBVIOUS
  <1>2. /\ y \in FsRec /\ y.file = x.file /\ y.ref = x.ref /\ y.lk = x.lk /\ y.valid = x.valid
        /\ y.type = x.type /\ y.lost = x.lost /\ y.panic = x.panic /\ SameEnts(x, y)
        /\ y.nlink[i] = 1 /\ y.dnlink[i] = 1 /\ y.dtype[i] = x.type[i]
        /\ \A j \in Inodes : j # i => /\ y.nlink[j] = x.nlink[j] /\ y.dnlink[j] = x.dnlink[j]
                                   /\ y.dtype[j] = x.dtype[j]
    <2>1. y \in FsRec /\ NewLinked(x, y, i)
      BY <1>1, NewLinkIs
    <2> QED BY <2>1 DEF NewLinked
  <1>3. PICK r \in Int : r = y.nlink[d] + 1
    BY <1>2, NlinkType
  <1>4. PICK v : v = IF x.type[i] = "dir" THEN SetNlink(y, d, r) ELSE y
    OBVIOUS
  <1>5. z = dirlink(v, d, n, i)
    <2>1. SetNlink(x, i, 1).type = x.type
      BY SetNlinkIs DEF NlinkSet
    <2> QED BY <1>1, <1>3, <1>4, <2>1 DEF Attach, NewLink
  <1>6. /\ v \in FsRec /\ v.file = x.file /\ v.ref = x.ref /\ v.lk = x.lk /\ v.valid = x.valid
        /\ v.type = x.type /\ v.lost = x.lost /\ v.panic = x.panic /\ v.ents = y.ents
        /\ d # i => v.nlink[i] = 1 /\ v.dnlink[i] = 1 /\ v.dtype[i] = x.type[i]
        /\ \A k \in Inodes : k # d /\ k # i => /\ v.nlink[k] = x.nlink[k] /\ v.dnlink[k] = x.dnlink[k]
                                           /\ v.dtype[k] = x.dtype[k]
        /\ d # i /\ x.type[i] = "dir" => /\ v.nlink[d] = x.nlink[d] + 1 /\ v.dnlink[d] = x.nlink[d] + 1
                                         /\ v.dtype[d] = x.type[d]
        /\ d # i /\ x.type[i] # "dir" => /\ v.nlink[d] = x.nlink[d] /\ v.dnlink[d] = x.dnlink[d]
                                         /\ v.dtype[d] = x.dtype[d]
    <2>1. CASE x.type[i] = "dir"
      <3>1. v \in FsRec /\ NlinkSet(y, v, d, r)
        BY <1>2, <1>3, <1>4, <2>1, SetNlinkIs
      <3> QED BY <1>2, <1>3, <2>1, <3>1 DEF NlinkSet
    <2>2. CASE x.type[i] # "dir"
      <3>1. v = y
        BY <1>4, <2>2
      <3> QED BY <1>2, <2>2, <3>1
    <2> QED BY <2>1, <2>2
  <1>7. z \in FsRec /\ Entered(v, z, d, n, i)
    BY <1>5, <1>6, DirlinkIs, Numbers
  <1>8. OneEntry(x, z, d, n)
    <2>1. \A k \in Inodes, m \in Names : v.ents[k][m] = x.ents[k][m]
      BY <1>2, <1>6 DEF SameEnts
    <2>2. \A k \in Inodes, m \in Names : k # d \/ m # n => z.ents[k][m] = v.ents[k][m]
      BY <1>7 DEF Entered, DirNames
    <2> QED BY <2>1, <2>2 DEF OneEntry
  <1>9. z.ents[d][n] = i /\ z.nlink = v.nlink /\ z.dnlink = v.dnlink /\ z.dtype = v.dtype
        /\ z.file = v.file /\ z.ref = v.ref /\ z.lk = v.lk /\ z.valid = v.valid
        /\ z.type = v.type /\ z.lost = v.lost /\ z.panic = v.panic
    BY <1>7 DEF Entered
  <1> QED BY <1>6, <1>7, <1>8, <1>9

\* create() enters the new inode.
LEMMA CoreAttach ==
  ASSUME NEW x, NEW h, NEW M, NEW K, NEW V, NEW Q, Core(x, h, M, K, V, Q),
         NEW p \in Procs, Quiet(Q, p), NEW d \in Inodes, NEW i \in Inodes, NEW n \in DirNames,
         DotDotFree => /\ V[p] = i /\ d \in M[p] /\ i \in M[p] /\ n \in Names /\ x.ents[d][n] = 0
                       /\ K[p] = 0 /\ h[<<p, "dp">>] = d,
         NEW y, y = Attach(x, d, n, i)
  PROVE  Core(y, h, M, Upd(K, p, 0), Upd(V, p, 0), Q) /\ y.file = x.file
  <1>1. x \in FsRec /\ K \in [Procs -> Refs] /\ i \in Refs /\ 0 \in Refs
    BY CoreTypes, Numbers
  <1>2. /\ y \in FsRec /\ y.file = x.file /\ y.ref = x.ref /\ y.lk = x.lk /\ y.valid = x.valid
        /\ y.type = x.type /\ y.lost = x.lost /\ y.panic = x.panic
        /\ y.ents[d][n] = i /\ OneEntry(x, y, d, n)
    BY <1>1, AttachIs
  <1>3. ASSUME DotDotFree PROVE DiskStep(x, y, h, M, p, 0, Upd(K, p, 0))
    <2>1. /\ V[p] = i /\ d \in M[p] /\ i \in M[p] /\ n \in Names /\ x.ents[d][n] = 0
          /\ K[p] = 0 /\ h[<<p, "dp">>] = d
      BY <1>3
    <2>2. \A j \in M[p] : j \in Inodes /\ x.dtype[j] # "none" /\ x.type[j] = x.dtype[j] /\ x.nlink[j] = x.dnlink[j]
      BY <1>3, LockedCopy
    <2>3. DiskOK(x, K) /\ HoldOK(x, h)
      BY <1>3, CoreTypes DEF Deep
    <2>4. x.dnlink[i] = 0 /\ d # i /\ \A m \in Names : x.ents[i][m] = 0
      <3>1. NewInode(x, h, p, i)
        BY <1>3, <2>1, NewFacts
      <3> QED BY <2>1, <3>1 DEF NewInode
    <2>5. x.dtype[d] = "dir"
      BY <2>1, <2>3, Numbers DEF HoldOK
    <2>6. y.nlink[i] = 1 /\ y.dnlink[i] = 1 /\ y.dtype[i] = x.type[i]
      BY <1>1, <2>4, AttachIs
    <2>n. /\ \A k \in Inodes : k # d /\ k # i => y.nlink[k] = x.nlink[k] /\ y.dnlink[k] = x.dnlink[k]
          /\ \A k \in Inodes : k # d /\ k # i => y.dtype[k] = x.dtype[k]
      BY <1>1, AttachIs, SMTT(30)
    <2>7. y.dtype[d] = x.dtype[d] /\ y.nlink[d] = y.dnlink[d] /\ y.dnlink[d] = x.dnlink[d] + IsDir(x, i)
      <3>1. CASE x.type[i] = "dir"
        <4>1. y.nlink[d] = x.nlink[d] + 1 /\ y.dnlink[d] = x.nlink[d] + 1 /\ y.dtype[d] = x.type[d]
          BY <1>1, <2>4, <3>1, AttachIs
        <4>2. IsDir(x, i) = 1
          BY <2>1, <2>2, <3>1, Numbers DEF IsDir
        <4> QED BY <2>1, <2>2, <4>1, <4>2
      <3>2. CASE x.type[i] # "dir"
        <4>1. y.nlink[d] = x.nlink[d] /\ y.dnlink[d] = x.dnlink[d] /\ y.dtype[d] = x.dtype[d]
          BY <1>1, <2>4, <3>2, AttachIs
        <4>2. IsDir(x, i) = 0 /\ x.dnlink[d] \in Int
          BY <1>1, <2>1, <2>2, <3>2, NlinkType DEF IsDir
        <4> QED BY <2>1, <2>2, <4>1, <4>2
      <3> QED BY <3>1, <3>2
    <2>8. \A k \in Inodes : y.dtype[k] = x.dtype[k]
      BY <2>1, <2>2, <2>6, <2>7, <2>n
    <2>9. EntsOK(y)
      <3>1. y.ents[d][n] # 0 => x.dtype[d] = "dir" /\ x.dtype[y.ents[d][n]] # "none"
        BY <1>2, <2>1, <2>2, <2>5
      <3> QED BY <1>1, <1>2, <2>1, <2>3, <2>8, <3>1, EntsAdd DEF DiskOK
    <2>10. Acyclic(y.ents)
      <3>1. y.ents[d][n] # d /\ \A m \in Names : x.ents[y.ents[d][n]][m] = 0
        BY <1>2, <2>4
      <3> QED BY <1>1, <1>2, <2>1, <2>3, <3>1, AcyclicAdd DEF DiskOK
    <2>11. \A j \in Inodes : y.dnlink[j] = x.dnlink[j] - Hit(x.ents[d][n], j) + Hit(y.ents[d][n], j)
            + (IF j = d THEN IsDir(x, y.ents[d][n]) - IsDir(x, x.ents[d][n]) ELSE 0)
            - Hit(K[p], j) + Hit(0, j)
      <3>1. IsDir(x, 0) = 0 /\ IsDir(x, i) \in {0, 1}
        BY DEF IsDir
      <3>2. \A j \in Inodes : Hit(0, j) = 0 /\ Hit(i, j) = (IF j = i THEN 1 ELSE 0) /\ x.dnlink[j] \in Int
        BY <1>1, Numbers, NlinkType DEF Hit
      <3>3. x.ents[d][n] = 0 /\ y.ents[d][n] = i /\ K[p] = 0
        BY <1>2, <2>1
      <3>4. \A j \in Inodes : y.dnlink[j] = x.dnlink[j] + Hit(i, j) + (IF j = d THEN IsDir(x, i) ELSE 0)
        <4>1. ASSUME NEW j \in Inodes
              PROVE  y.dnlink[j] = x.dnlink[j] + Hit(i, j) + (IF j = d THEN IsDir(x, i) ELSE 0)
          <5>1. CASE j = i
            BY <2>4, <2>6, <3>2, <5>1
          <5>2. CASE j = d
            BY <2>4, <2>7, <3>1, <3>2, <5>2
          <5>3. CASE j # i /\ j # d
            BY <2>n, <3>2, <5>3
          <5> QED BY <5>1, <5>2, <5>3
        <4> QED BY <4>1
      <3> QED BY <3>1, <3>2, <3>3, <3>4
    <2>12. LinkOK(x, K) /\ n \in Names /\ y \in FsRec /\ y.lost = x.lost
      BY <1>2, <2>1, <2>3 DEF DiskOK
    <2>13. LinkOK(y, Upd(K, p, 0))
      BY <1>1, <1>2, <2>8, <2>11, <2>12, LinkChange
    <2>14. DiskOK(y, Upd(K, p, 0))
      BY <1>2, <2>3, <2>9, <2>10, <2>13 DEF DiskOK
    <2>15. \A j \in Inodes : j \notin M[p] => \A m \in Names : y.ents[j][m] = x.ents[j][m]
      BY <1>2, <2>1 DEF OneEntry
    <2>16. \A j \in Inodes : j \notin M[p] => y.dnlink[j] = x.dnlink[j] /\ y.nlink[j] = x.nlink[j]
      BY <2>1, <2>n
    <2>17. \A j \in M[p] : y.nlink[j] = y.dnlink[j]
      BY <2>2, <2>6, <2>7, <2>n
    <2> QED BY <2>8, <2>14, <2>15, <2>16, <2>17 DEF DiskStep
  <1> QED BY <1>1, <1>2, <1>3, CoreDisk

-----------------------------------------------------------------------------
(* An inode is allocated.                                                  *)

\* Nobody has or names an inode that is free on disk, apart from an iput() that is freeing it.
FreeInodeIs(x, h, M, K, V, i) ==
  /\ \A d \in Inodes, n \in Names : x.ents[d][n] # i
  /\ \A n \in Names : x.ents[i][n] = 0
  /\ \A t \in Places : h[t] = i => t[2] = "freeing"
  /\ \A q \in Procs : i \notin M[q]
  /\ \A q \in Procs : K[q] # i
  /\ \A q \in Procs : V[q] # i
\* Nobody refers to a free inode, no entry names it and it has no entries.
LEMMA FreeFacts ==
  ASSUME NEW x, NEW h, NEW M, NEW K, NEW V, NEW Q, Core(x, h, M, K, V, Q), DotDotFree,
         NEW i \in Inodes, x.dtype[i] = "none"
  PROVE  FreeInodeIs(x, h, M, K, V, i)
  <1>1. Deep(x, h, M, K, V, Q) /\ x \in FsRec
    BY CoreTypes
  <1>2. i # 0
    BY Numbers
  <1>3. \A d \in Inodes, n \in Names : x.ents[d][n] # i
    BY <1>1, <1>2 DEF Deep, DiskOK, EntsOK
  <1>4. \A n \in Names : x.ents[i][n] = 0
    BY <1>1 DEF Deep, DiskOK, EntsOK
  <1>5. \A t \in Places : h[t] = i => t[2] = "freeing"
    BY <1>1, <1>2 DEF Deep, HoldOK
  <1>6. \A q \in Procs : i \notin M[q]
    BY LockedCopy
  <1>7. ASSUME NEW q \in Procs PROVE h[<<q, "ip">>] # i /\ h[<<q, "old">>] # i
    <2>1. <<q, "ip">> \in Places /\ <<q, "ip">>[2] # "freeing" /\ <<q, "old">> \in Places /\ <<q, "old">>[2] # "freeing"
      BY PlaceOf
    <2> QED BY <1>5, <2>1
  <1>8. \A q \in Procs : K[q] # i
    BY <1>1, <1>2, <1>7 DEF Deep, ExtraOK
  <1>9. \A q \in Procs : V[q] # i
    BY <1>1, <1>2, <1>7 DEF Deep, NewOK
  <1> QED BY <1>3, <1>4, <1>5, <1>6, <1>8, <1>9 DEF FreeInodeIs

\* Whether there is a circle depends on the entries alone.
LEMMA AcyclicSame ==
  ASSUME NEW x, NEW y, SameEnts(x, y), Acyclic(x.ents)
  PROVE  Acyclic(y.ents)
  <1>1. ASSUME NEW D \in SUBSET Inodes, \A k \in D : \E n \in Names : y.ents[k][n] \in D PROVE D = {}
    <2>1. \A k \in D : \E n \in Names : x.ents[k][n] \in D
      BY <1>1 DEF SameEnts
    <2> QED BY <2>1 DEF Acyclic
  <1> QED BY <1>1 DEF Acyclic

\* An inode that nothing links to has no links.
LEMMA NoLinksOf ==
  ASSUME NEW x, NEW K, NEW i \in Inodes, i # ROOTINO, x.lost[i] = 0,
         \A d \in Inodes, n \in Names : x.ents[d][n] # i,
         \A n \in Names : x.ents[i][n] = 0,
         \A q \in Procs : K[q] # i
  PROVE  LinksOf(x, i) + Cardinality(Pending(K, i)) = 0
  <1>1. EntriesOf(x.ents, i) = {}
    BY DEF EntriesOf
  <1>2. SubdirsOf(x.ents, x.dtype, i) = {}
    BY DEF SubdirsOf
  <1>3. Pending(K, i) = {}
    BY DEF Pending
  <1>4. Cardinality({}) = 0
    BY FS_EmptySet
  <1>5. LinksOf(x, i) = 0
    BY <1>1, <1>2, <1>4 DEF LinksOf
  <1> QED BY <1>3, <1>4, <1>5

\* ialloc() and the iget() of the inode it has found.
LEMMA CoreAlloc ==
  ASSUME NEW x, NEW h, NEW M, NEW K, NEW V, NEW Q, Core(x, h, M, K, V, Q),
         NEW p \in Procs, NEW i \in Inodes, x.dtype[i] = "none", h[<<p, "ip">>] = 0,
         NEW type \in Types, type # "none",
         NEW y, y = ialloc(x, i, type)
  PROVE  Core(y, Upd(h, <<p, "ip">>, i), M, K, Upd(V, p, i), Q)
  <1>1. /\ RefCore(x, h) /\ x \in FsRec /\ h \in [Places -> Refs] /\ i \in Refs
        /\ M \in [Procs -> SUBSET Inodes] /\ K \in [Procs -> Refs] /\ V \in [Procs -> Refs]
    BY CoreTypes, Numbers
  <1>t. PICK t \in Places : t = <<p, "ip">>
    BY PlaceOf
  <1>y. y \in FsRec /\ Allocated(x, y, i, type)
    BY <1>1, IallocIs
  <1>2. /\ y \in FsRec /\ y.panic = x.panic /\ y.file = x.file /\ y.lk = x.lk
        /\ y.ref = [x.ref EXCEPT ![i] = @ + 1] /\ y.type = x.type /\ y.nlink = x.nlink
    BY <1>y DEF Allocated
  <1>v. /\ \A j \in Inodes : j # i \/ x.ref[i] # 0 => (y.valid[j] <=> x.valid[j])
        /\ x.ref[i] = 0 => ~ y.valid[i]
    BY <1>y DEF Allocated
  <1>d. /\ y.lost = x.lost /\ y.ents[i] = NoEnts /\ y.dtype[i] = type /\ y.dnlink[i] = 0
        /\ \A j \in Inodes : j # i => /\ y.dtype[j] = x.dtype[j] /\ y.dnlink[j] = x.dnlink[j]
                                   /\ y.ents[j] = x.ents[j]
    BY <1>y DEF Allocated
  <1>e. \A n \in Names : y.ents[i][n] = 0
    BY <1>d DEF NoEnts
  <1>l. \A j \in Inodes : x.lk[j] \in Procs \/ x.lk[j] = Nobody
    BY <1>1, LkType
  <1>3. RefCore(y, Upd(h, t, i))
    <2>1. \A k \in Inodes : y.ref[k] = x.ref[k] - Hit(h[t], k) + Hit(i, k)
      BY <1>1, <1>2, <1>t, FsTypes, Numbers DEF Hit
    <2>2. RefCore(x, h) /\ t \in Places /\ i \in Refs /\ y \in FsRec
      BY <1>1, <1>2
    <2> QED BY <2>1, <2>2, RefUpdate
  <1>4. ASSUME DotDotFree, NEW g, g = Upd(h, t, i), NEW W, W = Upd(V, p, i) PROVE Deep(y, g, M, K, W, Q)
    <2>1. Deep(x, h, M, K, V, Q)
      BY <1>4, CoreTypes
    <2>2. g \in [Places -> Refs] /\ g[t] = i /\ \A u \in Places : u # t => g[u] = h[u]
      BY <1>1, <1>4, UpdPlace
    <2>w. W[p] = i /\ \A q \in Procs : q # p => W[q] = V[q]
      BY <1>1, <1>4 DEF Upd
    <2>3. ASSUME NEW q \in Procs
          PROVE  /\ g[<<q, "freeing">>] = h[<<q, "freeing">>] /\ g[<<q, "dp">>] = h[<<q, "dp">>]
                 /\ g[<<q, "old">>] = h[<<q, "old">>]
                 /\ g[<<q, "ip">>] = h[<<q, "ip">>] \/ h[<<q, "ip">>] = 0
      <3>1. <<q, "freeing">> # t /\ <<q, "dp">> # t /\ <<q, "old">> # t
        BY <1>t
      <3> QED BY <1>t, <2>2, <3>1, PlaceOf
    <2>4. \A q \in Procs : g[<<q, "freeing">>] = h[<<q, "freeing">>]
      BY <2>3
    <2>5. \A j \in Inodes : BeingFreed(y, g, j) <=> BeingFreed(x, h, j)
      BY <1>2, <1>l, <2>4 DEF BeingFreed
    <2>6. \A q \in Procs : g[<<q, "ip">>] = h[<<q, "ip">>] \/ h[<<q, "ip">>] = 0
      BY <2>3
    <2>f. FreeInodeIs(x, h, M, K, V, i)
      BY <1>4, FreeFacts
    <2>7. /\ \A d \in Inodes, n \in Names : x.ents[d][n] # i
          /\ \A n \in Names : x.ents[i][n] = 0
          /\ \A u \in Places : h[u] = i => u[2] = "freeing"
          /\ \A q \in Procs : i \notin M[q]
          /\ \A q \in Procs : K[q] # i
          /\ \A q \in Procs : V[q] # i
      BY <2>f DEF FreeInodeIs
    <2>8. SameEnts(x, y)
      BY <1>d, <1>e, <2>7 DEF SameEnts
    <2>9. DiskOK(x, K) /\ HoldOK(x, h) /\ i # ROOTINO
      BY <2>1 DEF Deep, DiskOK, EntsOK
    <2>a. DiskOK(y, K)
      <3>1. EntsOK(y)
        <4>1. y.dtype[ROOTINO] = "dir"
          BY <1>d, <2>9, Numbers DEF DiskOK, EntsOK
        <4>2. ASSUME NEW d \in Inodes, NEW n \in Names, y.ents[d][n] # 0
              PROVE  y.dtype[d] = "dir" /\ y.dtype[y.ents[d][n]] # "none"
          <5>1. y.ents[d][n] = x.ents[d][n] /\ d # i
            BY <1>e, <2>8, <4>2 DEF SameEnts
          <5>2. x.dtype[d] = "dir" /\ x.dtype[x.ents[d][n]] # "none"
            BY <2>9, <4>2, <5>1 DEF DiskOK, EntsOK
          <5>3. x.ents[d][n] \in Inodes
            BY <1>1, <4>2, <5>1, EntsType, Numbers
          <5> QED BY <1>d, <2>7, <5>1, <5>2, <5>3
        <4> QED BY <4>1, <4>2 DEF EntsOK
      <3>2. LinkOK(y, K)
        <4>1. LinkOK(x, K)
          BY <2>9 DEF DiskOK
        <4>2. ASSUME NEW j \in Inodes
              PROVE  /\ y.lost[j] >= 0
                     /\ y.dtype[j] = "none" => y.lost[j] = 0
                     /\ y.dtype[j] # "none" => y.dnlink[j] = LinksOf(y, j) + Cardinality(Pending(K, j))
          <5>1. CASE j = i
            <6>1. x.lost[i] = 0 /\ y.lost[i] = 0
              BY <1>d, <4>1 DEF LinkOK
            <6>2. /\ \A d \in Inodes, n \in Names : y.ents[d][n] # i
                  /\ \A n \in Names : y.ents[i][n] = 0
              BY <1>e, <2>7, <2>8 DEF SameEnts
            <6>3. LinksOf(y, i) + Cardinality(Pending(K, i)) = 0
              BY <2>7, <2>9, <6>1, <6>2, NoLinksOf
            <6> QED BY <1>d, <5>1, <6>1, <6>3
          <5>2. CASE j # i
            <6>1. EntriesOf(y.ents, j) = EntriesOf(x.ents, j)
              BY <2>8 DEF EntriesOf, SameEnts
            <6>2. SubdirsOf(y.ents, y.dtype, j) = SubdirsOf(x.ents, x.dtype, j)
              <7>1. \A n \in Names : x.ents[j][n] # 0 => y.dtype[x.ents[j][n]] = x.dtype[x.ents[j][n]]
                BY <1>1, <1>d, <2>7, EntsType, Numbers
              <7> QED BY <2>8, <7>1 DEF SubdirsOf, SameEnts
            <6>3. LinksOf(y, j) = LinksOf(x, j)
              BY <1>d, <6>1, <6>2 DEF LinksOf
            <6> QED BY <1>d, <4>1, <5>2, <6>3 DEF LinkOK
          <5> QED BY <5>1, <5>2
        <4> QED BY <4>2 DEF LinkOK
      <3>3. Acyclic(y.ents)
        BY <2>8, <2>9, AcyclicSame DEF DiskOK
      <3> QED BY <1>2, <2>9, <3>1, <3>2, <3>3 DEF DiskOK
    <2>b. HoldOK(y, g)
      <3>1. \A u \in Places : g[u] # 0 /\ u[2] # "freeing" => y.dtype[g[u]] # "none"
        <4>1. ASSUME NEW u \in Places, g[u] # 0, u[2] # "freeing", u # t PROVE y.dtype[g[u]] # "none"
          <5>1. h[u] # 0 /\ g[u] = h[u] /\ h[u] # i /\ h[u] \in Inodes
            BY <1>1, <2>2, <2>7, <4>1, Numbers
          <5> QED BY <1>d, <2>9, <4>1, <5>1 DEF HoldOK
        <4> QED BY <1>d, <2>2, <4>1
      <3>2. ASSUME NEW q \in Procs
            PROVE  /\ h[<<q, "dp">>] # i /\ h[<<q, "old">>] # i /\ h[<<q, "dp">>] \in Refs /\ h[<<q, "old">>] \in Refs
                   /\ g[<<q, "dp">>] = h[<<q, "dp">>] /\ g[<<q, "old">>] = h[<<q, "old">>]
        <4>1. <<q, "dp">> \in Places /\ <<q, "dp">>[2] # "freeing" /\ <<q, "old">> \in Places /\ <<q, "old">>[2] # "freeing"
          BY PlaceOf
        <4> QED BY <1>1, <2>3, <2>7, <4>1
      <3>3. \A q \in Procs : g[<<q, "dp">>] # 0 => y.dtype[g[<<q, "dp">>]] = "dir"
        <4>1. ASSUME NEW q \in Procs, g[<<q, "dp">>] # 0 PROVE y.dtype[g[<<q, "dp">>]] = "dir"
          <5>1. PICK j \in Inodes : j = h[<<q, "dp">>] /\ j = g[<<q, "dp">>] /\ j # i
            BY <3>2, <4>1, Numbers
          <5>2. x.dtype[j] = "dir"
            BY <2>9, <4>1, <5>1 DEF HoldOK
          <5> QED BY <1>d, <5>1, <5>2
        <4> QED BY <4>1
      <3>4. \A q \in Procs : g[<<q, "old">>] # 0 => y.dtype[g[<<q, "old">>]] # "dir"
        <4>1. ASSUME NEW q \in Procs, g[<<q, "old">>] # 0 PROVE y.dtype[g[<<q, "old">>]] # "dir"
          <5>1. PICK j \in Inodes : j = h[<<q, "old">>] /\ j = g[<<q, "old">>] /\ j # i
            BY <3>2, <4>1, Numbers
          <5>2. x.dtype[j] # "dir"
            BY <2>9, <4>1, <5>1 DEF HoldOK
          <5> QED BY <1>d, <5>1, <5>2
        <4> QED BY <4>1
      <3> QED BY <3>1, <3>3, <3>4 DEF HoldOK
    <2>c. FreeOK(g)
      BY <2>1, <2>4 DEF Deep, FreeOK
    <2>d. LockOK(y, g, M)
      <3>1. LockOK(x, h, M)
        BY <2>1 DEF Deep
      <3>2. ASSUME NEW q \in Procs, NEW j \in M[q]
            PROVE  /\ y.lk[j] = q /\ y.valid[j] /\ g[<<q, "freeing">>] # j
                   /\ j \in {g[<<q, "ip">>], g[<<q, "dp">>], g[<<q, "old">>]}
        <4>1. /\ j \in Inodes /\ x.lk[j] = q /\ x.valid[j] /\ h[<<q, "freeing">>] # j
              /\ j \in {h[<<q, "ip">>], h[<<q, "dp">>], h[<<q, "old">>]}
          BY <1>1, <3>1 DEF LockOK
        <4>2. j # i /\ j # 0
          BY <2>7, <4>1, Numbers
        <4> QED BY <1>2, <1>v, <2>3, <4>1, <4>2
      <3>3. \A j \in Inodes : y.lk[j] # Nobody => j \in M[y.lk[j]] \/ BeingFreed(y, g, j)
        BY <1>2, <2>5, <3>1 DEF LockOK
      <3> QED BY <3>2, <3>3 DEF LockOK
    <2>e. CopyOK(y, g)
      <3>1. ASSUME NEW j \in Inodes, y.valid[j], ~ BeingFreed(y, g, j)
            PROVE  y.dtype[j] # "none" /\ y.type[j] = y.dtype[j] /\ y.nlink[j] = y.dnlink[j]
        <4>1. x.valid[j] /\ ~ BeingFreed(x, h, j)
          BY <1>v, <2>5, <3>1
        <4>2. x.dtype[j] # "none" /\ x.type[j] = x.dtype[j] /\ x.nlink[j] = x.dnlink[j]
          BY <2>1, <4>1 DEF Deep, CopyOK
        <4> QED BY <1>2, <1>d, <4>2
      <3> QED BY <3>1 DEF CopyOK
    <2>g. ExtraOK(g, K)
      BY <2>1, <2>3 DEF Deep, ExtraOK
    <2>h. NewOK(y, g, W)
      <3>1. ASSUME NEW q \in Procs, W[q] # 0
            PROVE  /\ y.dnlink[W[q]] = 0 /\ g[<<q, "ip">>] = W[q]
                   /\ \A n \in Names : y.ents[W[q]][n] = 0
                   /\ \A v \in Places : g[v] = W[q] => v = <<q, "ip">> \/ v[2] = "freeing"
        <4>1. CASE q = p
          <5>1. W[q] = i /\ g[<<q, "ip">>] = i
            BY <1>t, <2>2, <2>w, <4>1
          <5>2. \A v \in Places : g[v] = i => v = t \/ v[2] = "freeing"
            BY <2>2, <2>7
          <5> QED BY <1>d, <1>e, <1>t, <4>1, <5>1, <5>2
        <4>2. CASE q # p
          <5>1. W[q] = V[q] /\ V[q] # 0 /\ V[q] # i /\ V[q] \in Inodes
            BY <1>1, <2>7, <2>w, <3>1, <4>2, Numbers
          <5>2. /\ x.dnlink[V[q]] = 0 /\ h[<<q, "ip">>] = V[q]
                /\ \A n \in Names : x.ents[V[q]][n] = 0
                /\ \A v \in Places : h[v] = V[q] => v = <<q, "ip">> \/ v[2] = "freeing"
            BY <2>1, <5>1 DEF Deep, NewOK
          <5>3. \A v \in Places : g[v] = V[q] => v = <<q, "ip">> \/ v[2] = "freeing"
            BY <2>2, <5>1, <5>2
          <5>4. g[<<q, "ip">>] = V[q]
            BY <2>6, <5>1, <5>2
          <5> QED BY <1>d, <5>1, <5>2, <5>3, <5>4
        <4> QED BY <4>1, <4>2
      <3> QED BY <3>1 DEF NewOK
    <2>i. SeenOK(y, M, Q)
      <3>1. SeenOK(x, M, Q)
        BY <2>1 DEF Deep
      <3>2. \A s \in Q : s[2] \in Inodes /\ s[3] \in Names
        BY <3>1 DEF SeenOK
      <3> QED BY <2>8, <3>1, <3>2 DEF SeenOK, SameEnts
    <2> QED BY <2>a, <2>b, <2>c, <2>d, <2>e, <2>g, <2>h, <2>i DEF Deep
  <1>5. Upd(V, p, i) \in [Procs -> Refs]
    BY <1>1 DEF Upd
  <1> QED BY <1>1, <1>3, <1>4, <1>5, <1>t DEF Core

-----------------------------------------------------------------------------
(* The middle of a step of p.  Others have what they had when it began; of *)
(* p, r is what it refers to, m what it has locked, and k and v are its    *)
(* elements of K and V.                                                    *)

Own(p) == [k \in Kinds |-> RefAt(<<p, k>>, fs, c, cwd)]
HeldBy(p, F, r) == [t \in Places |-> IF t[2] = "file" THEN F[t[1]].ip
                                     ELSE IF t[1] = p THEN r[t[2]] ELSE RefAt(t, fs, c, cwd)]
Mid(p, x, r, m, k, v) ==
  /\ r \in [Kinds -> Refs]
  /\ Core(x, HeldBy(p, x.file, r), Upd(Locked, p, m), Upd(Extra, p, k), Upd(New, p, v), Other(Seen, p))

\* What a process holds in the middle of a step.
LEMMA HeldByAt ==
  ASSUME NEW p \in Procs, NEW F, NEW r, NEW k \in Kinds
  PROVE  <<p, k>> \in Places /\ HeldBy(p, F, r)[<<p, k>>] = r[k]
  BY DEF HeldBy, Places, Kinds

\* A change of it.
LEMMA HeldByUpd ==
  ASSUME NEW p \in Procs, NEW F, NEW r \in [Kinds -> Refs], NEW k \in Kinds, NEW j \in Refs
  PROVE  Upd(HeldBy(p, F, r), <<p, k>>, j) = HeldBy(p, F, Upd(r, k, j)) /\ Upd(r, k, j) \in [Kinds -> Refs]
  <1>1. k # "file"
    BY DEF Kinds
  <1>2. \A u \in Places : u[2] = "file" => u # <<p, k>>
    BY <1>1
  <1>3. ASSUME NEW u \in Places
        PROVE  (IF u = <<p, k>> THEN j ELSE HeldBy(p, F, r)[u]) = HeldBy(p, F, Upd(r, k, j))[u]
    <2>1. CASE u[2] = "file"
      BY <1>2, <2>1 DEF HeldBy
    <2>2. CASE u[2] # "file" /\ u[1] # p
      BY <2>2 DEF HeldBy
    <2>3. CASE u[2] # "file" /\ u[1] = p
      <3>1. PICK e \in Kinds : u = <<p, e>>
        BY <2>3 DEF Places
      <3>2. HeldBy(p, F, r)[u] = r[e] /\ HeldBy(p, F, Upd(r, k, j))[u] = Upd(r, k, j)[e]
        BY <2>3, <3>1, HeldByAt
      <3>3. Upd(r, k, j)[e] = IF e = k THEN j ELSE r[e]
        BY DEF Upd
      <3> QED BY <3>1, <3>2, <3>3
    <2> QED BY <2>1, <2>2, <2>3
  <1>4. Upd(HeldBy(p, F, r), <<p, k>>, j) = [u \in Places |-> IF u = <<p, k>> THEN j ELSE HeldBy(p, F, r)[u]]
    BY DEF Upd, HeldBy
  <1>5. HeldBy(p, F, Upd(r, k, j)) = [u \in Places |-> HeldBy(p, F, Upd(r, k, j))[u]]
    BY DEF HeldBy
  <1>6. Upd(r, k, j) \in [Kinds -> Refs]
    BY DEF Upd
  <1> QED BY <1>3, <1>4, <1>5, <1>6

\* The locks, links and new inodes of a process when it changes them, ...
LEMMA GhostAt ==
  ASSUME NEW p \in Procs, NEW m
  PROVE  Upd(Locked, p, m)[p] = m /\ Upd(Extra, p, m)[p] = m /\ Upd(New, p, m)[p] = m
  BY DEF Upd, Locked, Extra, New
\* ... and changes them again.
LEMMA GhostUpd ==
  ASSUME NEW p \in Procs, NEW m, NEW n
  PROVE  /\ Upd(Upd(Locked, p, m), p, n) = Upd(Locked, p, n)
         /\ Upd(Upd(Extra, p, m), p, n) = Upd(Extra, p, n)
         /\ Upd(Upd(New, p, m), p, n) = Upd(New, p, n)
  BY DEF Upd, Locked, Extra, New

\* The types in the middle of a step.
LEMMA MidTypes ==
  ASSUME NEW p \in Procs, NEW x, NEW r, NEW m, NEW k, NEW v, Mid(p, x, r, m, k, v)
  PROVE  /\ x \in FsRec /\ r \in [Kinds -> Refs] /\ HeldBy(p, x.file, r) \in [Places -> Refs]
         /\ m \in SUBSET Inodes /\ k \in Refs /\ v \in Refs
  <1>1. /\ x \in FsRec /\ HeldBy(p, x.file, r) \in [Places -> Refs] /\ Upd(Locked, p, m) \in [Procs -> SUBSET Inodes]
        /\ Upd(Extra, p, k) \in [Procs -> Refs] /\ Upd(New, p, v) \in [Procs -> Refs]
    BY CoreTypes DEF Mid
  <1> QED BY <1>1, GhostAt DEF Mid

\* A reference is made, by an operation that does not touch the file table.
LEMMA MidGet ==
  ASSUME NEW p \in Procs, NEW x, NEW r, NEW m, NEW k, NEW v, Mid(p, x, r, m, k, v),
         NEW i \in Inodes, NEW e \in {"ip", "tmp"}, r[e] = 0,
         DotDotFree => x.dtype[i] # "none" /\ \A q \in Procs : Upd(New, p, v)[q] # i,
         NEW y, y \in {iget(x, i), idup(x, i)}
  PROVE  Mid(p, y, Upd(r, e, i), m, k, v) /\ y.file = x.file
  <1>1. PICK h : h = HeldBy(p, x.file, r)
    OBVIOUS
  <1>2. Core(x, h, Upd(Locked, p, m), Upd(Extra, p, k), Upd(New, p, v), Other(Seen, p)) /\ r \in [Kinds -> Refs]
    BY <1>1 DEF Mid
  <1>3. e \in Kinds /\ i \in Refs
    BY Numbers DEF Kinds
  <1>4. PICK t \in Places : t = <<p, e>>
    BY <1>3, HeldByAt
  <1>5. h[t] = 0 /\ t[2] \in {"cwd", "ip", "tmp"}
    BY <1>1, <1>3, <1>4, HeldByAt
  <1>6. Core(y, Upd(h, t, i), Upd(Locked, p, m), Upd(Extra, p, k), Upd(New, p, v), Other(Seen, p))
    BY <1>2, <1>5, CoreGet
  <1>7. y.file = x.file
    <2>1. x \in FsRec
      BY MidTypes
    <2> QED BY <2>1 DEF iget, idup, FsRec
  <1>8. Upd(h, t, i) = HeldBy(p, y.file, Upd(r, e, i)) /\ Upd(r, e, i) \in [Kinds -> Refs]
    BY <1>1, <1>2, <1>3, <1>4, <1>7, HeldByUpd
  <1> QED BY <1>6, <1>7, <1>8 DEF Mid

\* A reference moves from one variable of the call to another.
LEMMA MidMove ==
  ASSUME NEW p \in Procs, NEW x, NEW r, NEW m, NEW k, NEW v, Mid(p, x, r, m, k, v),
         NEW e \in {"ip", "tmp"}, NEW f \in {"dp", "old", "ip", "cwd"}, e # f, r[e] # 0, r[f] = 0,
         DotDotFree =>
           /\ f = "dp" => x.dtype[r[e]] = "dir"
           /\ f = "old" => x.dtype[r[e]] # "dir"
           /\ e = "ip" => r[e] \notin m /\ v = 0 /\ (k \in {0, r["old"]} \/ f = "old")
  PROVE  Mid(p, x, Upd(Upd(r, e, 0), f, r[e]), m, k, v)
  <1>1. PICK h : h = HeldBy(p, x.file, r)
    OBVIOUS
  <1>2. Core(x, h, Upd(Locked, p, m), Upd(Extra, p, k), Upd(New, p, v), Other(Seen, p)) /\ r \in [Kinds -> Refs]
    BY <1>1 DEF Mid
  <1>3. e \in Kinds /\ f \in Kinds /\ "old" \in Kinds /\ 0 \in Refs /\ r[e] \in Refs
    BY <1>2, Numbers DEF Kinds
  <1>4. PICK t \in Places : t = <<p, e>>
    BY <1>3, HeldByAt
  <1>5. PICK u \in Places : u = <<p, f>>
    BY <1>3, HeldByAt
  <1>a. \A a \in Kinds : h[<<p, a>>] = r[a]
    BY <1>1, HeldByAt
  <1>6. h[t] = r[e] /\ h[u] = 0 /\ h[<<p, "old">>] = r["old"]
    BY <1>3, <1>4, <1>5, <1>a
  <1>7. /\ t # u /\ t \in {<<p, "ip">>, <<p, "tmp">>} /\ u[2] \in {"dp", "old", "ip", "cwd", "file"}
        /\ (u[2] = "dp" => f = "dp") /\ (u[2] = "old" => f = "old") /\ (t = <<p, "ip">> => e = "ip")
        /\ (f = "old" => u = <<p, "old">>)
    BY <1>4, <1>5
  <1>8. DotDotFree =>
           /\ u[2] = "dp" => x.dtype[h[t]] = "dir"
           /\ u[2] = "old" => x.dtype[h[t]] # "dir"
           /\ t = <<p, "ip">> => /\ h[t] \notin Upd(Locked, p, m)[p] /\ Upd(New, p, v)[p] = 0
                                 /\ Upd(Extra, p, k)[p] \in {0, h[<<p, "old">>]} \/ u = <<p, "old">>
    BY <1>6, <1>7, GhostAt
  <1>9. Core(x, Move(h, t, u), Upd(Locked, p, m), Upd(Extra, p, k), Upd(New, p, v), Other(Seen, p))
    BY <1>2, <1>6, <1>7, <1>8, CoreMove
  <1>10. /\ Upd(h, t, 0) = HeldBy(p, x.file, Upd(r, e, 0)) /\ Upd(r, e, 0) \in [Kinds -> Refs]
    BY <1>1, <1>2, <1>3, <1>4, HeldByUpd
  <1>11. PICK s : s = Upd(r, e, 0)
    OBVIOUS
  <1>12. /\ Upd(HeldBy(p, x.file, s), u, r[e]) = HeldBy(p, x.file, Upd(s, f, r[e]))
         /\ Upd(s, f, r[e]) \in [Kinds -> Refs]
    BY <1>3, <1>5, <1>10, <1>11, HeldByUpd
  <1> QED BY <1>6, <1>9, <1>10, <1>11, <1>12 DEF Mid, Move

\* ilock() in the middle of a step.
LEMMA MidLock ==
  ASSUME NEW p \in Procs, NEW x, NEW r, NEW m, NEW k, NEW v, Mid(p, x, r, m, k, v),
         NEW i \in Inodes, x.lk[i] = Nobody, r["freeing"] = 0, i \in {r["ip"], r["dp"], r["old"]},
         NEW y, y = ilock(x, p, i)
  PROVE  Mid(p, y, r, m \cup {i}, k, v) /\ y.file = x.file
  <1>1. PICK h : h = HeldBy(p, x.file, r)
    OBVIOUS
  <1>2. Core(x, h, Upd(Locked, p, m), Upd(Extra, p, k), Upd(New, p, v), Other(Seen, p)) /\ r \in [Kinds -> Refs]
    BY <1>1 DEF Mid
  <1>3. h[<<p, "freeing">>] = 0 /\ i \in {h[<<p, "ip">>], h[<<p, "dp">>], h[<<p, "old">>]}
    <2>1. \A a \in Kinds : h[<<p, a>>] = r[a]
      BY <1>1, HeldByAt
    <2> QED BY <2>1 DEF Kinds
  <1>4. Core(y, h, Upd(Upd(Locked, p, m), p, Upd(Locked, p, m)[p] \cup {i}), Upd(Extra, p, k), Upd(New, p, v), Other(Seen, p))
    BY <1>2, <1>3, CoreLock
  <1>5. Upd(Upd(Locked, p, m), p, Upd(Locked, p, m)[p] \cup {i}) = Upd(Locked, p, m \cup {i})
    <2>1. PICK n : n = m \cup {i}
      OBVIOUS
    <2>2. Upd(Locked, p, m)[p] = m /\ Upd(Upd(Locked, p, m), p, n) = Upd(Locked, p, n)
      BY GhostAt, GhostUpd
    <2> QED BY <2>1, <2>2
  <1>6. y.file = x.file
    BY MidTypes, IlockIs
  <1> QED BY <1>1, <1>2, <1>4, <1>5, <1>6 DEF Mid

\* iunlock() in the middle of a step.
LEMMA MidUnlock ==
  ASSUME NEW p \in Procs, NEW x, NEW r, NEW m, NEW k, NEW v, Mid(p, x, r, m, k, v),
         NEW i \in Inodes, DotDotFree => i \in m,
         NEW y, y = iunlock(x, i)
  PROVE  Mid(p, y, r, m \ {i}, k, v) /\ y.file = x.file
  <1>1. PICK h : h = HeldBy(p, x.file, r)
    OBVIOUS
  <1>2. Core(x, h, Upd(Locked, p, m), Upd(Extra, p, k), Upd(New, p, v), Other(Seen, p)) /\ r \in [Kinds -> Refs]
    BY <1>1 DEF Mid
  <1>3. DotDotFree => i \in Upd(Locked, p, m)[p]
    BY GhostAt
  <1>4. Core(y, h, Upd(Upd(Locked, p, m), p, Upd(Locked, p, m)[p] \ {i}), Upd(Extra, p, k), Upd(New, p, v), Other(Seen, p))
    BY <1>2, <1>3, CoreUnlock, OtherQuiet
  <1>5. Upd(Upd(Locked, p, m), p, Upd(Locked, p, m)[p] \ {i}) = Upd(Locked, p, m \ {i})
    <2>1. PICK n : n = m \ {i}
      OBVIOUS
    <2>2. Upd(Locked, p, m)[p] = m /\ Upd(Upd(Locked, p, m), p, n) = Upd(Locked, p, n)
      BY GhostAt, GhostUpd
    <2> QED BY <2>1, <2>2
  <1>6. y.file = x.file
    BY MidTypes, IunlockIs
  <1> QED BY <1>1, <1>2, <1>4, <1>5, <1>6 DEF Mid

\* What is left after an iput() of r[f].
Apart(r) == \A e \in Kinds : e # "freeing" /\ r[e] = r["freeing"] => r[e] = 0
PutOwn(x, r, f) == Upd(Upd(r, f, 0), "freeing", ToFree(x, r[f]))
LEMMA MidPut ==
  ASSUME NEW p \in Procs, NEW x, NEW r, NEW m, NEW k, NEW v, Mid(p, x, r, m, k, v),
         NEW f \in {"ip", "dp", "old", "cwd"}, NEW i \in Inodes, r[f] = i, r["freeing"] = 0,
         DotDotFree => i \notin m /\ (k # 0 => k \in {Upd(r, f, 0)["ip"], Upd(r, f, 0)["old"]})
                       /\ (v # 0 => f # "ip"),
         NEW y, y = iput(x, p, i)
  PROVE  Mid(p, y, PutOwn(x, r, f), m, k, v) /\ Apart(PutOwn(x, r, f)) /\ y.file = x.file
  <1>1. PICK h : h = HeldBy(p, x.file, r)
    OBVIOUS
  <1>2. /\ Core(x, h, Upd(Locked, p, m), Upd(Extra, p, k), Upd(New, p, v), Other(Seen, p)) /\ r \in [Kinds -> Refs]
        /\ x \in FsRec
    BY <1>1, MidTypes DEF Mid
  <1>3. /\ f \in Kinds /\ "ip" \in Kinds /\ "old" \in Kinds /\ "freeing" \in Kinds /\ 0 \in Refs /\ i \in Refs
        /\ f # "freeing" /\ i # 0
    BY Numbers DEF Kinds
  <1>4. PICK t \in Places : t = <<p, f>>
    BY <1>3, HeldByAt
  <1>a. \A e \in Kinds : h[<<p, e>>] = r[e] /\ <<p, e>> \in Places
    BY <1>1, HeldByAt
  <1>5. h[t] = i /\ h[<<p, "freeing">>] = 0 /\ \A e \in Kinds : h[<<p, e>>] = r[e] /\ <<p, e>> \in Places
    BY <1>3, <1>4, <1>a
  <1>6. t \in {<<p, "ip">>, <<p, "dp">>, <<p, "old">>, <<p, "cwd">>} /\ (t = <<p, "ip">> => f = "ip")
    BY <1>4
  <1>7. PICK s \in [Kinds -> Refs] : s = Upd(r, f, 0)
    BY <1>2, <1>3 DEF Upd
  <1>8. Upd(h, t, 0) = HeldBy(p, x.file, s)
    BY <1>1, <1>2, <1>3, <1>4, <1>7, HeldByUpd
  <1>9. Upd(h, t, 0)[<<p, "ip">>] = s["ip"] /\ Upd(h, t, 0)[<<p, "old">>] = s["old"]
    <2>1. \A e \in Kinds : Upd(h, t, 0)[<<p, e>>] = s[e]
      BY <1>8, HeldByAt
    <2> QED BY <1>3, <2>1
  <1>10. DotDotFree =>
           /\ i \notin Upd(Locked, p, m)[p]
           /\ Upd(Extra, p, k)[p] # 0 => Upd(Extra, p, k)[p] \in {Upd(h, t, 0)[<<p, "ip">>], Upd(h, t, 0)[<<p, "old">>]}
           /\ Upd(New, p, v)[p] # 0 => t # <<p, "ip">>
    BY <1>6, <1>7, <1>9, GhostAt
  <1>11. Core(y, PutRef(x, h, t, p), Upd(Locked, p, m), Upd(Extra, p, k), Upd(New, p, v), Other(Seen, p))
    BY <1>2, <1>5, <1>6, <1>10, CorePut
  <1>12. PICK j \in Refs : j = ToFree(x, i)
    BY <1>3 DEF ToFree
  <1>13. /\ PutRef(x, h, t, p) = HeldBy(p, x.file, Upd(s, "freeing", j))
         /\ Upd(s, "freeing", j) \in [Kinds -> Refs]
    <2>1. /\ Upd(HeldBy(p, x.file, s), <<p, "freeing">>, j) = HeldBy(p, x.file, Upd(s, "freeing", j))
          /\ Upd(s, "freeing", j) \in [Kinds -> Refs]
      BY <1>3, <1>7, <1>12, HeldByUpd
    <2>2. CASE Last(x, i)
      BY <1>5, <1>8, <1>12, <2>1, <2>2 DEF PutRef, Move, ToFree
    <2>3. CASE ~ Last(x, i)
      <3>1. j = 0
        BY <1>12, <2>3 DEF ToFree
      <3>2. s["freeing"] = 0
        BY <1>2, <1>3, <1>7 DEF Upd
      <3>3. Upd(s, "freeing", 0) = s
        BY <1>7, <3>2 DEF Upd
      <3> QED BY <1>5, <1>7, <1>8, <2>3, <3>1, <3>3 DEF PutRef
    <2> QED BY <2>2, <2>3
  <1>14. y.file = x.file
    <2>1. CASE Last(x, i)
      BY <1>2, <2>1, IputIs
    <2>2. CASE ~ Last(x, i)
      BY <1>2, <2>2, DropIs DEF iput
    <2> QED BY <2>1, <2>2
  <1>15. PutOwn(x, r, f) = Upd(s, "freeing", j)
    BY <1>7, <1>12 DEF PutOwn
  <1>16. PICK g : g = Upd(s, "freeing", j)
    OBVIOUS
  <1>17. Apart(g)
    <2>1. g["freeing"] = j /\ \A e \in Kinds : e # "freeing" => g[e] = s[e]
      BY <1>3, <1>7, <1>16 DEF Upd
    <2>2. s[f] = 0 /\ \A e \in Kinds : e # f => s[e] = r[e]
      BY <1>2, <1>3, <1>7 DEF Upd
    <2>3. ASSUME NEW e \in Kinds, e # "freeing", g[e] = j, j # 0 PROVE FALSE
      <3>1. Last(x, i) /\ j = i
        BY <1>12, <2>3 DEF ToFree
      <3>2. e # f /\ r[e] = i
        BY <1>3, <2>1, <2>2, <2>3, <3>1
      <3>3. RefCore(x, h) /\ x.ref[i] = 1
        BY <1>2, <3>1, CoreTypes DEF Last
      <3>4. PICK u \in Places : u = <<p, e>> /\ h[u] = i
        BY <1>5, <3>2
      <3>5. u # t
        BY <1>4, <3>2, <3>4
      <3>6. \A w \in Places : h[w] = i => w = t
        BY <1>5, <3>3, RefOne
      <3> QED BY <3>4, <3>5, <3>6
    <2> QED BY <2>1, <2>3 DEF Apart
  <1> QED BY <1>11, <1>13, <1>14, <1>15, <1>16, <1>17 DEF Mid

\* A link more, in the middle of a step.
LEMMA MidInc ==
  ASSUME NEW p \in Procs, NEW x, NEW r, NEW m, NEW k, NEW v, Mid(p, x, r, m, k, v),
         NEW i \in Inodes, DotDotFree => i \in m /\ k = 0 /\ r["ip"] = i,
         NEW y, y = SetNlink(x, i, x.nlink[i] + 1)
  PROVE  Mid(p, y, r, m, i, 0) /\ y.file = x.file
  <1>1. PICK h : h = HeldBy(p, x.file, r)
    OBVIOUS
  <1>2. /\ Core(x, h, Upd(Locked, p, m), Upd(Extra, p, k), Upd(New, p, v), Other(Seen, p)) /\ r \in [Kinds -> Refs]
        /\ x \in FsRec
    BY <1>1, MidTypes DEF Mid
  <1>3. h[<<p, "ip">>] = r["ip"]
    BY <1>1, HeldByAt, ZenonT(30) DEF Kinds
  <1>4. DotDotFree => i \in Upd(Locked, p, m)[p] /\ Upd(Extra, p, k)[p] = 0 /\ h[<<p, "ip">>] = i
    BY <1>3, GhostAt
  <1>5. Core(y, h, Upd(Locked, p, m), Upd(Upd(Extra, p, k), p, i), Upd(Upd(New, p, v), p, 0), Other(Seen, p))
    BY <1>2, <1>4, CoreInc, OtherQuiet
  <1>6. y.file = x.file
    <2>1. PICK n \in Int : n = x.nlink[i] + 1
      BY <1>2, NlinkType
    <2>2. NlinkSet(x, y, i, n)
      BY <1>2, <2>1, SetNlinkIs
    <2> QED BY <2>2 DEF NlinkSet
  <1>7. Upd(Upd(Extra, p, k), p, i) = Upd(Extra, p, i) /\ Upd(Upd(New, p, v), p, 0) = Upd(New, p, 0)
    BY GhostUpd
  <1> QED BY <1>1, <1>2, <1>5, <1>6, <1>7 DEF Mid

\* A link less, in the middle of a step.
LEMMA MidDec ==
  ASSUME NEW p \in Procs, NEW x, NEW r, NEW m, NEW k, NEW v, Mid(p, x, r, m, k, v),
         NEW i \in Inodes, DotDotFree => i \in m /\ k = i,
         NEW y, y = SetNlink(x, i, x.nlink[i] - 1)
  PROVE  Mid(p, y, r, m, 0, 0) /\ y.file = x.file
  <1>1. PICK h : h = HeldBy(p, x.file, r)
    OBVIOUS
  <1>2. /\ Core(x, h, Upd(Locked, p, m), Upd(Extra, p, k), Upd(New, p, v), Other(Seen, p)) /\ r \in [Kinds -> Refs]
        /\ x \in FsRec
    BY <1>1, MidTypes DEF Mid
  <1>4. DotDotFree => i \in Upd(Locked, p, m)[p] /\ Upd(Extra, p, k)[p] = i
    BY GhostAt
  <1>5. Core(y, h, Upd(Locked, p, m), Upd(Upd(Extra, p, k), p, 0), Upd(Upd(New, p, v), p, 0), Other(Seen, p))
    BY <1>2, <1>4, CoreDec, OtherQuiet
  <1>6. y.file = x.file
    <2>1. PICK n \in Int : n = x.nlink[i] - 1
      BY <1>2, NlinkType
    <2>2. NlinkSet(x, y, i, n)
      BY <1>2, <2>1, SetNlinkIs
    <2> QED BY <2>2 DEF NlinkSet
  <1>7. Upd(Upd(Extra, p, k), p, 0) = Upd(Extra, p, 0) /\ Upd(Upd(New, p, v), p, 0) = Upd(New, p, 0)
    BY GhostUpd
  <1> QED BY <1>1, <1>2, <1>5, <1>6, <1>7 DEF Mid

\* The entry that sys_link() writes for the link it has counted.
LEMMA MidEntry ==
  ASSUME NEW p \in Procs, NEW x, NEW r, NEW m, NEW k, NEW v, Mid(p, x, r, m, k, v),
         NEW d \in Inodes, NEW i \in Inodes, NEW n \in DirNames,
         DotDotFree => /\ d \in m /\ n \in Names /\ x.ents[d][n] = 0 /\ k = i
                       /\ r["old"] = i /\ r["dp"] = d,
         NEW y, y = dirlink(x, d, n, i)
  PROVE  Mid(p, y, r, m, 0, 0) /\ y.file = x.file
  <1>1. PICK h : h = HeldBy(p, x.file, r)
    OBVIOUS
  <1>2. /\ Core(x, h, Upd(Locked, p, m), Upd(Extra, p, k), Upd(New, p, v), Other(Seen, p)) /\ r \in [Kinds -> Refs]
        /\ x \in FsRec
    BY <1>1, MidTypes DEF Mid
  <1>3. h[<<p, "old">>] = r["old"] /\ h[<<p, "dp">>] = r["dp"]
    <2>1. \A a \in Kinds : h[<<p, a>>] = r[a]
      BY <1>1, HeldByAt
    <2> QED BY <2>1 DEF Kinds
  <1>4. DotDotFree => /\ d \in Upd(Locked, p, m)[p] /\ n \in Names /\ x.ents[d][n] = 0 /\ Upd(Extra, p, k)[p] = i
                      /\ h[<<p, "old">>] = i /\ h[<<p, "dp">>] = d
    BY <1>3, GhostAt
  <1>5. Core(y, h, Upd(Locked, p, m), Upd(Upd(Extra, p, k), p, 0), Upd(Upd(New, p, v), p, 0), Other(Seen, p))
    BY <1>2, <1>4, CoreEntry, OtherQuiet
  <1>6. y.file = x.file
    <2>1. Entered(x, y, d, n, i)
      BY <1>2, DirlinkIs, Numbers
    <2> QED BY <2>1 DEF Entered
  <1>7. Upd(Upd(Extra, p, k), p, 0) = Upd(Extra, p, 0) /\ Upd(Upd(New, p, v), p, 0) = Upd(New, p, 0)
    BY GhostUpd
  <1> QED BY <1>1, <1>2, <1>5, <1>6, <1>7 DEF Mid

\* The removal of an entry in the middle of a step.
LEMMA MidDetach ==
  ASSUME NEW p \in Procs, NEW x, NEW r, NEW m, NEW k, NEW v, Mid(p, x, r, m, k, v),
         NEW d \in Inodes, NEW i \in Inodes, NEW n \in DirNames,
         DotDotFree => /\ d \in m /\ i \in m /\ n \in Names /\ x.ents[d][n] = i /\ k = 0 /\ r["ip"] = i,
         NEW y, y = Detach(x, d, n, i)
  PROVE  Mid(p, y, r, m, i, 0) /\ y.file = x.file
  <1>1. PICK h : h = HeldBy(p, x.file, r)
    OBVIOUS
  <1>2. /\ Core(x, h, Upd(Locked, p, m), Upd(Extra, p, k), Upd(New, p, v), Other(Seen, p)) /\ r \in [Kinds -> Refs]
        /\ x \in FsRec
    BY <1>1, MidTypes DEF Mid
  <1>3. h[<<p, "ip">>] = r["ip"]
    BY <1>1, HeldByAt, ZenonT(30) DEF Kinds
  <1>4. DotDotFree => /\ d \in Upd(Locked, p, m)[p] /\ i \in Upd(Locked, p, m)[p] /\ n \in Names
                      /\ x.ents[d][n] = i /\ Upd(Extra, p, k)[p] = 0 /\ h[<<p, "ip">>] = i
    BY <1>3, GhostAt
  <1>5. Core(y, h, Upd(Locked, p, m), Upd(Upd(Extra, p, k), p, i), Upd(Upd(New, p, v), p, 0), Other(Seen, p))
        /\ y.file = x.file
    BY <1>2, <1>4, CoreDetach, OtherQuiet
  <1>7. Upd(Upd(Extra, p, k), p, i) = Upd(Extra, p, i) /\ Upd(Upd(New, p, v), p, 0) = Upd(New, p, 0)
    BY GhostUpd
  <1> QED BY <1>1, <1>2, <1>5, <1>7 DEF Mid

\* The entry that create() writes for a new inode.
LEMMA MidAttach ==
  ASSUME NEW p \in Procs, NEW x, NEW r, NEW m, NEW k, NEW v, Mid(p, x, r, m, k, v),
         NEW d \in Inodes, NEW i \in Inodes, NEW n \in DirNames,
         DotDotFree => /\ v = i /\ d \in m /\ i \in m /\ n \in Names /\ x.ents[d][n] = 0 /\ k = 0 /\ r["dp"] = d,
         NEW y, y = Attach(x, d, n, i)
  PROVE  Mid(p, y, r, m, 0, 0) /\ y.file = x.file
  <1>1. PICK h : h = HeldBy(p, x.file, r)
    OBVIOUS
  <1>2. /\ Core(x, h, Upd(Locked, p, m), Upd(Extra, p, k), Upd(New, p, v), Other(Seen, p)) /\ r \in [Kinds -> Refs]
        /\ x \in FsRec
    BY <1>1, MidTypes DEF Mid
  <1>3. h[<<p, "dp">>] = r["dp"]
    BY <1>1, HeldByAt, ZenonT(30) DEF Kinds
  <1>4. DotDotFree => /\ Upd(New, p, v)[p] = i /\ d \in Upd(Locked, p, m)[p] /\ i \in Upd(Locked, p, m)[p] /\ n \in Names
                      /\ x.ents[d][n] = 0 /\ Upd(Extra, p, k)[p] = 0 /\ h[<<p, "dp">>] = d
    BY <1>3, GhostAt
  <1>5. Core(y, h, Upd(Locked, p, m), Upd(Upd(Extra, p, k), p, 0), Upd(Upd(New, p, v), p, 0), Other(Seen, p))
        /\ y.file = x.file
    BY <1>2, <1>4, CoreAttach, OtherQuiet
  <1>7. Upd(Upd(Extra, p, k), p, 0) = Upd(Extra, p, 0) /\ Upd(Upd(New, p, v), p, 0) = Upd(New, p, 0)
    BY GhostUpd
  <1> QED BY <1>1, <1>2, <1>5, <1>7 DEF Mid

\* create() fails after it has counted the link: the count goes back to 0.
LEMMA MidNoAttach ==
  ASSUME NEW p \in Procs, NEW x, NEW r, NEW m, NEW k, NEW v, Mid(p, x, r, m, k, v),
         NEW d \in Inodes, NEW i \in Inodes,
         DotDotFree => v = i /\ i \in m /\ k = 0,
         NEW y, y = SetNlink(NewLink(x, i, d), i, 0)
  PROVE  Mid(p, y, r, m, 0, 0) /\ y.file = x.file
  <1>1. PICK h : h = HeldBy(p, x.file, r)
    OBVIOUS
  <1>2. /\ Core(x, h, Upd(Locked, p, m), Upd(Extra, p, k), Upd(New, p, v), Other(Seen, p)) /\ r \in [Kinds -> Refs]
        /\ x \in FsRec
    BY <1>1, MidTypes DEF Mid
  <1>4. DotDotFree => Upd(New, p, v)[p] = i /\ i \in Upd(Locked, p, m)[p] /\ Upd(Extra, p, k)[p] = 0
    BY GhostAt
  <1>5. Core(y, h, Upd(Locked, p, m), Upd(Upd(Extra, p, k), p, 0), Upd(Upd(New, p, v), p, 0), Other(Seen, p))
        /\ y.file = x.file
    BY <1>2, <1>4, CoreNoAttach, OtherQuiet
  <1>7. Upd(Upd(Extra, p, k), p, 0) = Upd(Extra, p, 0) /\ Upd(Upd(New, p, v), p, 0) = Upd(New, p, 0)
    BY GhostUpd
  <1> QED BY <1>1, <1>2, <1>5, <1>7 DEF Mid

\* ialloc() in the middle of a step.
LEMMA MidAlloc ==
  ASSUME NEW p \in Procs, NEW x, NEW r, NEW m, NEW k, NEW v, Mid(p, x, r, m, k, v),
         NEW i \in Inodes, x.dtype[i] = "none", r["ip"] = 0, NEW type \in Types, type # "none",
         NEW y, y = ialloc(x, i, type)
  PROVE  Mid(p, y, Upd(r, "ip", i), m, k, i) /\ y.file = x.file
  <1>1. PICK h : h = HeldBy(p, x.file, r)
    OBVIOUS
  <1>2. /\ Core(x, h, Upd(Locked, p, m), Upd(Extra, p, k), Upd(New, p, v), Other(Seen, p)) /\ r \in [Kinds -> Refs]
        /\ x \in FsRec
    BY <1>1, MidTypes DEF Mid
  <1>3. h[<<p, "ip">>] = 0 /\ "ip" \in Kinds /\ i \in Refs
    BY <1>1, HeldByAt, Numbers, ZenonT(30) DEF Kinds
  <1>5. Core(y, Upd(h, <<p, "ip">>, i), Upd(Locked, p, m), Upd(Extra, p, k), Upd(Upd(New, p, v), p, i), Other(Seen, p))
    BY <1>2, <1>3, CoreAlloc
  <1>6. y.file = x.file
    <2>1. Allocated(x, y, i, type)
      BY <1>2, IallocIs
    <2> QED BY <2>1 DEF Allocated
  <1>7. Upd(Upd(New, p, v), p, i) = Upd(New, p, i)
    BY GhostUpd
  <1>8. Upd(h, <<p, "ip">>, i) = HeldBy(p, x.file, Upd(r, "ip", i)) /\ Upd(r, "ip", i) \in [Kinds -> Refs]
    BY <1>1, <1>2, <1>3, HeldByUpd
  <1> QED BY <1>5, <1>6, <1>7, <1>8 DEF Mid

\* What p has locked is as on disk.
LEMMA MidCopy ==
  ASSUME NEW p \in Procs, NEW x, NEW r, NEW m, NEW k, NEW v, Mid(p, x, r, m, k, v), DotDotFree, NEW i \in m
  PROVE  i \in Inodes /\ x.dtype[i] # "none" /\ x.type[i] = x.dtype[i] /\ x.nlink[i] = x.dnlink[i]
  <1>1. PICK M : M = Upd(Locked, p, m)
    OBVIOUS
  <1>2. i \in M[p]
    BY <1>1, GhostAt
  <1>3. PICK h : h = HeldBy(p, x.file, r)
    OBVIOUS
  <1>4. Core(x, h, M, Upd(Extra, p, k), Upd(New, p, v), Other(Seen, p))
    BY <1>1, <1>3 DEF Mid
  <1> QED BY <1>2, <1>4, LockedCopy

\* An inode that somebody may find is allocated, and no longer new.
Known(p, x, v, i) == x.dtype[i] # "none" /\ \A q \in Procs : Upd(New, p, v)[q] # i
\* A new inode is not the root and no entry names it.
LEMMA NewUnlinked ==
  ASSUME NEW x, NEW h, NEW M, NEW K, NEW V, NEW Q, Core(x, h, M, K, V, Q), DotDotFree,
         NEW q \in Procs, V[q] # 0
  PROVE  /\ V[q] # ROOTINO /\ \A d \in Inodes, n \in Names : x.ents[d][n] # V[q]
  <1>1. /\ Deep(x, h, M, K, V, Q) /\ x \in FsRec /\ K \in [Procs -> Refs] /\ V \in [Procs -> Refs]
    BY CoreTypes
  <1>2. PICK i \in Inodes : i = V[q]
    BY <1>1, Numbers
  <1>3. x.dnlink[i] = 0 /\ h[<<q, "ip">>] = i
    BY <1>1, <1>2 DEF Deep, NewOK
  <1>4. <<q, "ip">> \in Places /\ <<q, "ip">>[2] # "freeing"
    BY PlaceOf
  <1>5. x.dtype[i] # "none"
    BY <1>1, <1>2, <1>3, <1>4 DEF Deep, HoldOK
  <1>6. LinkOK(x, K)
    BY <1>1 DEF Deep, DiskOK
  <1> QED BY <1>1, <1>2, <1>3, <1>5, <1>6, NoLinks

\* The root may be referred to, ...
LEMMA KnownRoot ==
  ASSUME NEW p \in Procs, NEW x, NEW r, NEW m, NEW k, NEW v, Mid(p, x, r, m, k, v), DotDotFree
  PROVE  Known(p, x, v, ROOTINO)
  <1>1. PICK V : V = Upd(New, p, v)
    OBVIOUS
  <1>2. PICK h : h = HeldBy(p, x.file, r)
    OBVIOUS
  <1>3. Core(x, h, Upd(Locked, p, m), Upd(Extra, p, k), V, Other(Seen, p))
    BY <1>1, <1>2 DEF Mid
  <1>4. \A q \in Procs : V[q] # ROOTINO
    BY <1>3, NewUnlinked, Numbers
  <1>5. x.dtype[ROOTINO] # "none"
    BY <1>3, CoreTypes DEF Deep, DiskOK, EntsOK
  <1> QED BY <1>1, <1>4, <1>5 DEF Known

\* ... what an entry names may be, ...
LEMMA KnownEntry ==
  ASSUME NEW p \in Procs, NEW x, NEW r, NEW m, NEW k, NEW v, Mid(p, x, r, m, k, v), DotDotFree,
         NEW d \in Inodes, NEW n \in Names, x.ents[d][n] # 0
  PROVE  Known(p, x, v, x.ents[d][n])
  <1>1. PICK V : V = Upd(New, p, v)
    OBVIOUS
  <1>2. PICK h : h = HeldBy(p, x.file, r)
    OBVIOUS
  <1>3. Core(x, h, Upd(Locked, p, m), Upd(Extra, p, k), V, Other(Seen, p))
    BY <1>1, <1>2 DEF Mid
  <1>4. \A q \in Procs : V[q] # x.ents[d][n]
    BY <1>3, NewUnlinked, Numbers
  <1>5. x.dtype[x.ents[d][n]] # "none"
    BY <1>3, CoreTypes DEF Deep, DiskOK, EntsOK
  <1> QED BY <1>1, <1>4, <1>5 DEF Known

\* ... and so may what the process refers to already.
LEMMA KnownHeld ==
  ASSUME NEW p \in Procs, NEW x, NEW r, NEW m, NEW k, NEW v, Mid(p, x, r, m, k, v), DotDotFree,
         v = 0, NEW e \in Kinds, e # "freeing", r[e] # 0
  PROVE  Known(p, x, v, r[e])
  <1>1. PICK V : V = Upd(New, p, v)
    OBVIOUS
  <1>2. PICK h : h = HeldBy(p, x.file, r)
    OBVIOUS
  <1>3. Core(x, h, Upd(Locked, p, m), Upd(Extra, p, k), V, Other(Seen, p))
    BY <1>1, <1>2 DEF Mid
  <1>4. PICK t \in Places : t = <<p, e>> /\ h[t] = r[e] /\ t[2] # "freeing"
    <2>1. <<p, e>> \in Places /\ h[<<p, e>>] = r[e]
      BY <1>2, HeldByAt
    <2>2. <<p, e>>[2] # "freeing"
      OBVIOUS
    <2> QED BY <2>1, <2>2
  <1>5. Deep(x, h, Upd(Locked, p, m), Upd(Extra, p, k), V, Other(Seen, p))
    BY <1>3, CoreTypes
  <1>6. x.dtype[r[e]] # "none"
    BY <1>4, <1>5 DEF Deep, HoldOK
  <1>7. ASSUME NEW q \in Procs, V[q] = r[e] PROVE FALSE
    <2>1. \A u \in Places : h[u] = V[q] => u = <<q, "ip">> \/ u[2] = "freeing"
      BY <1>5, <1>7 DEF Deep, NewOK
    <2>2. t = <<q, "ip">>
      BY <1>4, <1>7, <2>1
    <2>3. q = p
      BY <1>4, <2>2
    <2>4. V[p] = 0
      BY <1>1, GhostAt
    <2> QED BY <1>7, <2>3, <2>4
  <1> QED BY <1>1, <1>6, <1>7 DEF Known

-----------------------------------------------------------------------------
(* The beginning and the end of a step.                                    *)

\* The invariant, apart from the files.
IRest == /\ TypeOK /\ \A p \in Procs : Shape(pc[p], c[p], cwd[p])
         /\ Core(fs, Held(fs, c, cwd), Locked, Extra, New, Seen)

\* The types of a call's variables.
LEMMA CallTypes ==
  ASSUME NEW d \in CallRec
  PROVE  /\ d.ip \in Refs /\ d.dp \in Refs /\ d.old \in Refs /\ d.freeing \in Refs
         /\ d.call \in {"none"} \cup DOMAIN Paths /\ d.rest \in Seq(Elems) /\ d.parent \in BOOLEAN
         /\ d.name \in Elems \cup {""} /\ d.new \in PathRec
  BY DEF CallRec

\* What a process refers to.
LEMMA OwnIs ==
  ASSUME NEW p
  PROVE  /\ Own(p)["cwd"] = cwd[p] /\ Own(p)["ip"] = c[p].ip /\ Own(p)["dp"] = c[p].dp
         /\ Own(p)["old"] = c[p].old /\ Own(p)["freeing"] = c[p].freeing /\ Own(p)["tmp"] = 0
  BY DEF Own, Kinds, RefAt

\* A step starts from the invariant.
LEMMA MidStart ==
  ASSUME IInv, NEW p \in Procs
  PROVE  Mid(p, fs, Own(p), LockedAt(pc[p], c[p]), ExtraAt(pc[p], c[p]), NewAt(pc[p], c[p]))
  <1>1. Core(fs, Held(fs, c, cwd), Locked, Extra, New, Other(Seen, p)) /\ c[p] \in CallRec /\ cwd[p] \in Refs
    BY CoreUnsee DEF IInv, TypeOK
  <1>2. Upd(Locked, p, LockedAt(pc[p], c[p])) = Locked
    BY DEF Locked, Upd
  <1>3. Upd(Extra, p, ExtraAt(pc[p], c[p])) = Extra
    BY DEF Extra, Upd
  <1>4. Upd(New, p, NewAt(pc[p], c[p])) = New
    BY DEF New, Upd
  <1>5. HeldBy(p, fs.file, Own(p)) = Held(fs, c, cwd)
    <2>1. ASSUME NEW t \in Places PROVE HeldBy(p, fs.file, Own(p))[t] = RefAt(t, fs, c, cwd)
      <3>1. CASE t[2] = "file"
        BY <3>1 DEF HeldBy, RefAt
      <3>2. CASE t[2] # "file" /\ t[1] # p
        BY <3>2 DEF HeldBy
      <3>3. CASE t[2] # "file" /\ t[1] = p
        <4>1. PICK e \in Kinds : t = <<p, e>>
          BY <3>3 DEF Places
        <4>2. HeldBy(p, fs.file, Own(p))[t] = Own(p)[e]
          BY <4>1, HeldByAt
        <4> QED BY <4>1, <4>2 DEF Own
      <3> QED BY <3>1, <3>2, <3>3
    <2> QED BY <2>1 DEF HeldBy, Held
  <1>6. Own(p) \in [Kinds -> Refs]
    <2>1. ASSUME NEW e \in Kinds PROVE Own(p)[e] \in Refs
      <3>1. c[p].ip \in Refs /\ c[p].dp \in Refs /\ c[p].old \in Refs /\ c[p].freeing \in Refs
        BY <1>1, CallTypes
      <3>2. Own(p)[e] \in {cwd[p], c[p].ip, c[p].dp, c[p].old, c[p].freeing, 0}
        BY OwnIs DEF Kinds
      <3> QED BY <1>1, <3>1, <3>2, Numbers
    <2> QED BY <2>1 DEF Own
  <1> QED BY <1>1, <1>2, <1>3, <1>4, <1>5, <1>6 DEF Mid

\* r is what a call with the locals d and the working directory w refers to.
Matches(r, d, w) == /\ r["ip"] = d.ip /\ r["dp"] = d.dp /\ r["old"] = d.old
                    /\ r["freeing"] = d.freeing /\ r["cwd"] = w /\ r["tmp"] = 0
\* What the call has seen is so.
SawAt(p, x, l, d) == \A s \in SeenAt(p, l, d) :
  s[1] = p /\ s[2] \in LockedAt(l, d) /\ s[3] \in Names /\ s[4] \in Refs /\ x.ents[s[2]][s[3]] = s[4]

\* A step ends with the invariant when the variables say what the process then holds.
LEMMA MidEnd ==
  ASSUME IInv, NEW p \in Procs, NEW l \in Pcs, NEW d \in CallRec, NEW w \in Refs, Shape(l, d, w),
         NEW x, NEW r, Matches(r, d, w), Mid(p, x, r, LockedAt(l, d), ExtraAt(l, d), NewAt(l, d)),
         DotDotFree => SawAt(p, x, l, d),
         fs' = x, pc' = [pc EXCEPT ![p] = l], c' = [c EXCEPT ![p] = d], cwd' = [cwd EXCEPT ![p] = w]
  PROVE  IRest'
  <1>1. pc \in [Procs -> Pcs] /\ c \in [Procs -> CallRec] /\ cwd \in [Procs -> Refs]
    BY DEF IInv, TypeOK
  <1>2. TypeOK'
    BY <1>1 DEF TypeOK
  <1>3. /\ pc'[p] = l /\ c'[p] = d /\ cwd'[p] = w
        /\ \A q \in Procs : q # p => pc'[q] = pc[q] /\ c'[q] = c[q] /\ cwd'[q] = cwd[q]
    BY <1>1
  <1>4. \A q \in Procs : Shape(pc'[q], c'[q], cwd'[q])
    BY <1>3 DEF IInv
  <1>5. Locked' = Upd(Locked, p, LockedAt(l, d))
    <2>1. \A q \in Procs : LockedAt(pc'[q], c'[q]) = IF q = p THEN LockedAt(l, d) ELSE LockedAt(pc[q], c[q])
      BY <1>3
    <2> QED BY <2>1 DEF Locked, Upd
  <1>6. Extra' = Upd(Extra, p, ExtraAt(l, d))
    <2>1. \A q \in Procs : ExtraAt(pc'[q], c'[q]) = IF q = p THEN ExtraAt(l, d) ELSE ExtraAt(pc[q], c[q])
      BY <1>3
    <2> QED BY <2>1 DEF Extra, Upd
  <1>7. New' = Upd(New, p, NewAt(l, d))
    <2>1. \A q \in Procs : NewAt(pc'[q], c'[q]) = IF q = p THEN NewAt(l, d) ELSE NewAt(pc[q], c[q])
      BY <1>3
    <2> QED BY <2>1 DEF New, Upd
  <1>8. Held(fs', c', cwd') = HeldBy(p, x.file, r)
    <2>1. ASSUME NEW t \in Places PROVE HeldBy(p, x.file, r)[t] = RefAt(t, fs', c', cwd')
      <3>1. CASE t[2] = "file"
        BY <3>1 DEF HeldBy, RefAt
      <3>2. CASE t[2] # "file" /\ t[1] # p
        <4>1. PICK q \in Procs, e \in Kinds : t = <<q, e>>
          BY <3>2 DEF Places
        <4>2. RefAt(t, fs', c', cwd') = RefAt(t, fs, c, cwd)
          BY <1>3, <3>2, <4>1 DEF RefAt
        <4> QED BY <3>2, <4>2 DEF HeldBy
      <3>3. CASE t[2] # "file" /\ t[1] = p
        <4>1. PICK e \in Kinds : t = <<p, e>>
          BY <3>3 DEF Places
        <4>2. HeldBy(p, x.file, r)[t] = r[e]
          BY <4>1, HeldByAt
        <4>3. RefAt(t, fs', c', cwd') = r[e]
          BY <1>3, <4>1 DEF RefAt, Kinds, Matches
        <4> QED BY <4>2, <4>3
      <3> QED BY <3>1, <3>2, <3>3
    <2> QED BY <2>1 DEF HeldBy, Held
  <1>9. Core(x, HeldBy(p, x.file, r), Locked', Extra', New', Other(Seen, p))
    BY <1>5, <1>6, <1>7 DEF Mid
  <1>10. DotDotFree => Seen' = Other(Seen, p) \cup SeenAt(p, l, d)
    <2>1. ASSUME NEW q \in Procs, q # p PROVE SeenAt(q, pc'[q], c'[q]) = SeenAt(q, pc[q], c[q])
      BY <1>3, <2>1
    <2>2. SeenAt(p, pc'[p], c'[p]) = SeenAt(p, l, d)
      BY <1>3
    <2>3. \A q \in Procs : \A s \in SeenAt(q, pc[q], c[q]) : s[1] = q
      BY DEF SeenAt
    <2>4. Seen' = UNION {SeenAt(q, pc'[q], c'[q]) : q \in Procs}
      BY DEF Seen
    <2>5. \A s : s \in Seen' <=> \E q \in Procs : s \in SeenAt(q, pc'[q], c'[q])
      BY <2>4
    <2>6. \A s : s \in Seen <=> \E q \in Procs : s \in SeenAt(q, pc[q], c[q])
      BY DEF Seen
    <2>7. \A s : s \in Other(Seen, p) <=> \E q \in Procs : q # p /\ s \in SeenAt(q, pc[q], c[q])
      BY <2>3, <2>6 DEF Other
    <2>8. \A s : s \in Seen' <=> s \in Other(Seen, p) \/ s \in SeenAt(p, l, d)
      BY <2>1, <2>2, <2>5, <2>7
    <2> QED BY <2>8
  <1>11. Core(x, HeldBy(p, x.file, r), Locked', Extra', New', Seen')
    <2>1. ASSUME DotDotFree PROVE SeenOK(x, Locked', Seen')
      <3>1. SeenOK(x, Locked', Other(Seen, p))
        BY <1>9, <2>1 DEF Core, Deep
      <3>2. Locked'[p] = LockedAt(l, d) /\ Locked' \in [Procs -> SUBSET Inodes]
        BY <1>5, <1>9, GhostAt, CoreTypes
      <3>3. ASSUME NEW s \in SeenAt(p, l, d)
            PROVE  s \in Procs \X Inodes \X Names \X Refs /\ s[2] \in Locked'[s[1]] /\ x.ents[s[2]][s[3]] = s[4]
        <4>1. s[1] = p /\ s[2] \in LockedAt(l, d) /\ s[3] \in Names /\ s[4] \in Refs /\ x.ents[s[2]][s[3]] = s[4]
          BY <2>1 DEF SawAt
        <4>2. s = <<s[1], s[2], s[3], s[4]>>
          BY DEF SeenAt
        <4> QED BY <3>2, <4>1, <4>2
      <3> QED BY <1>10, <2>1, <3>1, <3>3 DEF SeenOK
    <2> QED BY <1>9, <2>1 DEF Core, Deep
  <1>12. Core(fs', Held(fs', c', cwd'), Locked', Extra', New', Seen')
    BY <1>8, <1>11
  <1> QED BY <1>2, <1>4, <1>12 DEF IRest

\* The same, after an iput().
LEMMA PutEnd ==
  ASSUME IInv, NEW p \in Procs, NEW l \in Pcs, l \notin {"new", "unlink2"}, NEW d \in CallRec, d.freeing = 0,
         NEW w \in Refs, Shape(l, d, w), NEW x, NEW s, NEW j, s["freeing"] = j,
         s["ip"] = d.ip, s["dp"] = d.dp, s["old"] = d.old, s["cwd"] = w, s["tmp"] = 0, Apart(s),
         Mid(p, x, s, LockedAt(l, d), ExtraAt(l, d), NewAt(l, d)),
         fs' = x, Goto(p, l), c' = [c EXCEPT ![p] = [d EXCEPT !.freeing = j]], cwd' = [cwd EXCEPT ![p] = w]
  PROVE  IRest'
  <1>1. PICK e : e = [d EXCEPT !.freeing = j]
    OBVIOUS
  <1>2. s \in [Kinds -> Refs]
    BY DEF Mid
  <1>3. j \in Refs
    BY <1>2 DEF Kinds
  <1>4. /\ e \in CallRec /\ e.ip = d.ip /\ e.dp = d.dp /\ e.old = d.old /\ e.freeing = j
        /\ e.call = d.call /\ e.parent = d.parent /\ e.name = d.name
    BY <1>1, <1>3 DEF CallRec
  <1>5. LockedAt(l, e) = LockedAt(l, d) /\ ExtraAt(l, e) = ExtraAt(l, d) /\ NewAt(l, e) = NewAt(l, d)
    BY <1>4 DEF LockedAt, ExtraAt, NewAt
  <1>6. Matches(s, e, w)
    BY <1>4 DEF Matches
  <1>7. j # 0 => j \notin {d.ip, d.dp, d.old, w}
    BY <1>2 DEF Apart, Kinds
  <1>8. Shape(l, e, w)
    BY <1>4, <1>7 DEF Shape
  <1>9. SawAt(p, x, l, e)
    BY DEF SawAt, SeenAt
  <1>10. pc' = [pc EXCEPT ![p] = l] /\ c' = [c EXCEPT ![p] = e]
    BY <1>1 DEF Goto
  <1>11. Mid(p, x, s, LockedAt(l, e), ExtraAt(l, e), NewAt(l, e))
    BY <1>5
  <1> QED BY <1>4, <1>6, <1>8, <1>9, <1>10, <1>11, MidEnd

\* Files and descriptors stay right when neither changes.
LEMMA FilesSame ==
  ASSUME IInv, fs'.file = fs.file, ofile' = ofile, \A q \in Procs : cwd'[q] = 0 => cwd[q] = 0
  PROVE  FilesOK'
  BY DEF IInv, FilesOK

\* A step whose last operation is an iput(), which may have to wait for the disk.
LEMMA PutStep ==
  ASSUME IInv, NEW p \in Procs, NEW x, NEW r, NEW m, NEW k, NEW v, Mid(p, x, r, m, k, v), x.file = fs.file,
         NEW f \in {"ip", "dp", "old", "cwd"}, NEW i \in Inodes, r[f] = i, r["freeing"] = 0,
         NEW l \in Pcs, l \notin {"new", "unlink2"}, NEW d \in CallRec, d.freeing = 0, NEW w \in Refs, Shape(l, d, w),
         Matches(Upd(r, f, 0), d, w), m = LockedAt(l, d), k = ExtraAt(l, d), v = NewAt(l, d),
         DotDotFree => i \notin m,
         Put(p, x, i, l, d), cwd' = [cwd EXCEPT ![p] = w]
  PROVE  IRest' /\ fs'.file = fs.file
  <1>1. v = 0
    BY DEF NewAt
  <1>2. k # 0 => k \in {Upd(r, f, 0)["ip"], Upd(r, f, 0)["old"]}
    BY DEF ExtraAt, Matches
  <1>3. PICK y : y = iput(x, p, i)
    OBVIOUS
  <1>4. PICK s : s = PutOwn(x, r, f)
    OBVIOUS
  <1>5. Mid(p, y, s, m, k, v) /\ Apart(s) /\ y.file = x.file
    BY <1>1, <1>2, <1>3, <1>4, MidPut
  <1>6. PICK j : j = ToFree(x, i)
    OBVIOUS
  <1>7. fs' = y /\ Goto(p, l) /\ c' = [c EXCEPT ![p] = [d EXCEPT !.freeing = j]]
    BY <1>3, <1>6 DEF Put
  <1>8. PICK g \in [Kinds -> Refs] : g = Upd(r, f, 0)
    <2>1. r \in [Kinds -> Refs]
      BY MidTypes
    <2> QED BY <2>1, Numbers DEF Upd
  <1>9. s = Upd(g, "freeing", j)
    BY <1>4, <1>6, <1>8 DEF PutOwn
  <1>10. /\ s["freeing"] = j /\ s["ip"] = g["ip"] /\ s["dp"] = g["dp"] /\ s["old"] = g["old"]
         /\ s["cwd"] = g["cwd"] /\ s["tmp"] = g["tmp"]
    BY <1>8, <1>9 DEF Upd, Kinds
  <1>11. s["ip"] = d.ip /\ s["dp"] = d.dp /\ s["old"] = d.old /\ s["cwd"] = w /\ s["tmp"] = 0
    BY <1>8, <1>10 DEF Matches
  <1>12. Mid(p, y, s, LockedAt(l, d), ExtraAt(l, d), NewAt(l, d)) /\ Apart(s) /\ s["freeing"] = j
    BY <1>5, <1>10
  <1>13. IRest'
    BY <1>7, <1>11, <1>12, PutEnd
  <1> QED BY <1>5, <1>7, <1>13

\* The working directory stays.
LEMMA SameCwd ==
  ASSUME IInv, NEW p \in Procs, cwd' = cwd
  PROVE  cwd' = [cwd EXCEPT ![p] = cwd[p]] /\ cwd[p] \in Refs
  BY DEF IInv, TypeOK

\* A call goes on, or ends, after an iput().
LEMMA PutCall ==
  ASSUME IInv, NEW p \in Procs, NEW x, NEW r, NEW m, NEW k, NEW v, Mid(p, x, r, m, k, v), x.file = fs.file,
         NEW f \in {"ip", "dp", "old", "cwd"}, NEW i \in Inodes, r[f] = i, r["freeing"] = 0,
         NEW l \in Pcs, l \notin {"new", "unlink2"}, NEW d \in CallRec, d.freeing = 0, Shape(l, d, cwd[p]),
         Matches(Upd(r, f, 0), d, cwd[p]), m = LockedAt(l, d), k = ExtraAt(l, d), v = NewAt(l, d),
         DotDotFree => i \notin m,
         Put(p, x, i, l, d), UNCHANGED <<cwd, ofile>>
  PROVE  IInv'
  <1>1. PICK w \in Refs : w = cwd[p] /\ cwd' = [cwd EXCEPT ![p] = w]
    BY SameCwd
  <1>2. Shape(l, d, w) /\ Matches(Upd(r, f, 0), d, w)
    BY <1>1
  <1>3. IRest' /\ fs'.file = fs.file
    BY <1>1, <1>2, PutStep
  <1>4. FilesOK'
    BY <1>3, FilesSame
  <1> QED BY <1>3, <1>4 DEF IInv, IRest

\* A call goes on without one.
LEMMA GoCall ==
  ASSUME IInv, NEW p \in Procs, NEW x, NEW r, NEW m, NEW k, NEW v, Mid(p, x, r, m, k, v), x.file = fs.file,
         NEW l \in Pcs, NEW d \in CallRec, Shape(l, d, cwd[p]), Matches(r, d, cwd[p]),
         m = LockedAt(l, d), k = ExtraAt(l, d), v = NewAt(l, d), DotDotFree => SawAt(p, x, l, d),
         Go(p, x, l, d), UNCHANGED <<cwd, ofile>>
  PROVE  IInv'
  <1>1. PICK w \in Refs : w = cwd[p] /\ cwd' = [cwd EXCEPT ![p] = w]
    BY SameCwd
  <1>2. fs' = x /\ pc' = [pc EXCEPT ![p] = l] /\ c' = [c EXCEPT ![p] = d]
    BY DEF Go, Goto
  <1>3. IRest'
    BY <1>1, <1>2, MidEnd
  <1>4. FilesOK'
    BY <1>2, FilesSame
  <1> QED BY <1>3, <1>4 DEF IInv, IRest

\* Between two calls a process holds nothing.
LEMMA IdleIs ==
  /\ Idle \in CallRec /\ Idle.ip = 0 /\ Idle.dp = 0 /\ Idle.old = 0 /\ Idle.freeing = 0
  /\ LockedAt("user", Idle) = {} /\ ExtraAt("user", Idle) = 0 /\ NewAt("user", Idle) = 0
  /\ LockedAt("exit", Idle) = {} /\ ExtraAt("exit", Idle) = 0 /\ NewAt("exit", Idle) = 0
  /\ \A w : Shape("user", Idle, w) /\ (w # 0 => Shape("exit", Idle, w))
  /\ "user" \in Pcs /\ "exit" \in Pcs
  <1>1. Root \in PathRec
    BY DEF Root, PathRec
  <1>2. Idle \in CallRec
    BY <1>1, Numbers DEF Idle, CallRec
  <1> QED BY <1>2 DEF Idle, LockedAt, ExtraAt, NewAt, Shape, Pcs, HasIp, HasDp

\* A call ends with an iunlockput().
LEMMA QuitCall ==
  ASSUME IInv, NEW p \in Procs, NEW x, NEW r, NEW m, Mid(p, x, r, m, 0, 0), x.file = fs.file,
         NEW f \in {"ip", "dp", "old"}, NEW i \in Inodes, r[f] = i, i \in m, m \ {i} = {},
         Matches(Upd(r, f, 0), Idle, cwd[p]), Quit(p, x, i)
  PROVE  IInv'
  <1>1. PICK y : y = iunlock(x, i)
    OBVIOUS
  <1>2. Mid(p, y, r, {}, 0, 0) /\ y.file = x.file
    <2>1. Mid(p, y, r, m \ {i}, 0, 0) /\ y.file = x.file
      BY <1>1, MidUnlock
    <2> QED BY <2>1
  <1>3. Put(p, y, i, "user", Idle) /\ UNCHANGED <<cwd, ofile>>
    BY <1>1 DEF Quit
  <1>4. r["freeing"] = 0
    <2>1. r \in [Kinds -> Refs]
      BY MidTypes
    <2> QED BY <2>1, IdleIs DEF Matches, Upd, Kinds
  <1>5. Shape("user", Idle, cwd[p]) /\ y.file = fs.file
    BY <1>2, IdleIs
  <1>6. /\ "user" \in Pcs /\ "user" \notin {"new", "unlink2"} /\ Idle \in CallRec /\ Idle.freeing = 0
        /\ {} = LockedAt("user", Idle) /\ 0 = ExtraAt("user", Idle) /\ 0 = NewAt("user", Idle)
        /\ f \in {"ip", "dp", "old", "cwd"} /\ i \notin {}
    BY IdleIs
  <1>7. PICK l : l = "user"
    OBVIOUS
  <1>8. PICK d : d = Idle
    OBVIOUS
  <1>9. PICK n : n = {}
    OBVIOUS
  <1>10. PICK k : k = 0
    OBVIOUS
  <1>11. /\ l \in Pcs /\ l \notin {"new", "unlink2"} /\ d \in CallRec /\ d.freeing = 0
         /\ n = LockedAt(l, d) /\ k = ExtraAt(l, d) /\ k = NewAt(l, d) /\ i \notin n
         /\ f \in {"ip", "dp", "old", "cwd"} /\ Shape(l, d, cwd[p]) /\ Put(p, y, i, l, d)
         /\ UNCHANGED <<cwd, ofile>> /\ Mid(p, y, r, n, k, k) /\ y.file = fs.file
         /\ Matches(Upd(r, f, 0), d, cwd[p]) /\ r[f] = i /\ r["freeing"] = 0
    BY <1>2, <1>3, <1>4, <1>5, <1>6, <1>7, <1>8, <1>9, <1>10
  <1> QED BY <1>11, PutCall

\* Where p is when its step begins.
LEMMA Here ==
  ASSUME IInv, NEW p \in Procs
  PROVE  /\ c[p] \in CallRec /\ pc[p] \in Pcs /\ cwd[p] \in Refs /\ Shape(pc[p], c[p], cwd[p]) /\ fs \in FsRec
         /\ c[p].ip \in Refs /\ c[p].dp \in Refs /\ c[p].old \in Refs /\ c[p].freeing \in Refs
         /\ Own(p) \in [Kinds -> Refs]
  <1>1. c[p] \in CallRec /\ pc[p] \in Pcs /\ cwd[p] \in Refs /\ Shape(pc[p], c[p], cwd[p]) /\ fs \in FsRec
    BY CoreTypes DEF IInv, TypeOK
  <1> QED BY <1>1, CallTypes, MidStart, MidTypes

\* A call that gives up its only reference holds nothing.
LEMMA OwnDrop ==
  ASSUME IInv, NEW p \in Procs, NEW f \in {"ip", "dp", "old"}, c[p].freeing = 0,
         f # "ip" => c[p].ip = 0, f # "dp" => c[p].dp = 0, f # "old" => c[p].old = 0
  PROVE  Matches(Upd(Own(p), f, 0), Idle, cwd[p])
  <1>1. Own(p) \in [Kinds -> Refs]
    BY Here
  <1> QED BY <1>1, OwnIs, IdleIs DEF Matches, Upd, Kinds

-----------------------------------------------------------------------------
(* System calls.                                                           *)

\* put_parent() keeps the invariant.
LEMMA PutParentStep ==
  ASSUME IInv, NEW p \in Procs, put_parent(p)
  PROVE  IInv'
  <1>1. pc[p] = "put_parent" /\ c[p].freeing = 0 /\ Quit(p, fs, c[p].dp)
    BY DEF put_parent, At
  <1>2. Mid(p, fs, Own(p), {c[p].dp}, 0, 0)
    BY <1>1, MidStart DEF LockedAt, ExtraAt, NewAt
  <1>3. c[p].ip = 0 /\ c[p].old = 0 /\ c[p].dp # 0 /\ c[p].dp \in Refs
    BY <1>1, Here DEF Shape, HasIp, HasDp
  <1>4. Matches(Upd(Own(p), "dp", 0), Idle, cwd[p])
    BY <1>1, <1>3, OwnDrop
  <1>5. PICK i \in Inodes : i = c[p].dp
    BY <1>3, Numbers
  <1> QED BY <1>1, <1>2, <1>4, <1>5, OwnIs, QuitCall

\* made() keeps the invariant.
LEMMA MadeStep ==
  ASSUME IInv, NEW p \in Procs, made(p)
  PROVE  IInv'
  <1>1. pc[p] = "made" /\ c[p].freeing = 0 /\ Quit(p, fs, c[p].ip)
    BY DEF made, At
  <1>2. Mid(p, fs, Own(p), {c[p].ip}, 0, 0)
    BY <1>1, MidStart DEF LockedAt, ExtraAt, NewAt
  <1>3. c[p].dp = 0 /\ c[p].old = 0 /\ c[p].ip # 0 /\ c[p].ip \in Refs
    BY <1>1, Here DEF Shape, HasIp, HasDp
  <1>4. Matches(Upd(Own(p), "ip", 0), Idle, cwd[p])
    BY <1>1, <1>3, OwnDrop
  <1>5. PICK i \in Inodes : i = c[p].ip
    BY <1>3, Numbers
  <1> QED BY <1>1, <1>2, <1>4, <1>5, OwnIs, QuitCall

\* What a process refers to is in its variables.
LEMMA OwnMatches ==
  ASSUME NEW p
  PROVE  Matches(Own(p), c[p], cwd[p])
  BY OwnIs DEF Matches

\* Only create() and sys_unlink() go on with what they have looked up.
LEMMA SawNone ==
  ASSUME NEW p, NEW x, NEW l, NEW d, l \notin {"new", "unlink2"}
  PROVE  SawAt(p, x, l, d)
  BY DEF SawAt, SeenAt

\* What a process holds matters only without "..".
LEMMA MidGhost ==
  ASSUME NEW p \in Procs, NEW x, NEW r, NEW m, NEW k, NEW v, Mid(p, x, r, m, k, v),
         NEW n \in SUBSET Inodes, NEW a \in Refs, NEW b \in Refs,
         DotDotFree => n = m /\ a = k /\ b = v
  PROVE  Mid(p, x, r, n, a, b)
  <1>1. CASE DotDotFree
    BY <1>1
  <1>2. CASE ~ DotDotFree
    <2>1. /\ RefCore(x, HeldBy(p, x.file, r)) /\ Upd(Locked, p, m) \in [Procs -> SUBSET Inodes]
          /\ Upd(Extra, p, k) \in [Procs -> Refs] /\ Upd(New, p, v) \in [Procs -> Refs]
      BY DEF Mid, Core
    <2>2. Upd(Locked, p, n) \in [Procs -> SUBSET Inodes]
      <3>1. Upd(Upd(Locked, p, m), p, n) \in [Procs -> SUBSET Inodes]
        BY <2>1 DEF Upd
      <3> QED BY <3>1, GhostUpd
    <2>3. Upd(Extra, p, a) \in [Procs -> Refs]
      <3>1. Upd(Upd(Extra, p, k), p, a) \in [Procs -> Refs]
        BY <2>1 DEF Upd
      <3> QED BY <3>1, GhostUpd
    <2>4. Upd(New, p, b) \in [Procs -> Refs]
      <3>1. Upd(Upd(New, p, v), p, b) \in [Procs -> Refs]
        BY <2>1 DEF Upd
      <3> QED BY <3>1, GhostUpd
    <2> QED BY <1>2, <2>1, <2>2, <2>3, <2>4 DEF Mid, Core
  <1> QED BY <1>1, <1>2

\* What a directory is searched for.
LEMMA ElemsIs == /\ \A n \in Elems : n # "." => n \in DirNames
                 /\ DotDotFree => \A n \in Elems : n # "." => n \in Names
                 /\ \A n \in Elems : n # ".." => n \in Names \cup {"."}
  BY DEF Elems, DirNames

\* What dirlookup() returns.
LEMMA LookupType ==
  ASSUME NEW x \in FsRec, NEW d \in Inodes, NEW n \in Elems
  PROVE  dirlookup(x, d, n) \in Refs
  <1>1. CASE n = "."
    BY <1>1, Numbers DEF dirlookup
  <1>2. CASE n # "."
    <2>1. x.ents \in [Inodes -> DirRec]
      BY FsTypes
    <2>2. x.ents[d] \in [DirNames -> Refs] /\ n \in DirNames
      BY <1>2, <2>1, ElemsIs DEF DirRec
    <2> QED BY <1>2, <2>2 DEF dirlookup
  <1> QED BY <1>1, <1>2

\* Without "..", dirlookup() finds what may be referred to.
LEMMA KnownLookup ==
  ASSUME NEW p \in Procs, NEW x, NEW r, NEW m, NEW k, NEW v, Mid(p, x, r, m, k, v), DotDotFree,
         v = 0, NEW e \in Kinds, e # "freeing", NEW d \in Inodes, r[e] = d, NEW n \in Elems,
         NEW i \in Inodes, i = dirlookup(x, d, n)
  PROVE  Known(p, x, v, i)
  <1>1. i # 0 /\ d # 0
    BY Numbers
  <1>2. CASE n = "."
    BY <1>1, <1>2, KnownHeld DEF dirlookup
  <1>3. CASE n # "."
    <2>1. n \in Names /\ i = x.ents[d][n]
      BY <1>3, ElemsIs DEF dirlookup
    <2> QED BY <1>1, <2>1, KnownEntry
  <1> QED BY <1>2, <1>3

\* open_found() keeps the invariant.
LEMMA OpenFoundStep ==
  ASSUME IInv, NEW p \in Procs, open_found(p)
  PROVE  IInv'
  <1>1. /\ pc[p] = "found" /\ c[p].freeing = 0 /\ Free(c[p].ip)
    BY DEF open_found, Called, At
  <1>2. Mid(p, fs, Own(p), {}, 0, 0)
    BY <1>1, MidStart DEF LockedAt, ExtraAt, NewAt
  <1>3. c[p].dp = 0 /\ c[p].old = 0 /\ c[p].ip # 0 /\ c[p].ip \in Refs /\ c[p] \in CallRec
        /\ Shape("found", c[p], cwd[p])
    BY <1>1, Here DEF Shape, HasIp, HasDp
  <1>4. PICK i \in Inodes : i = c[p].ip
    BY <1>3, Numbers
  <1>5. PICK x : x = ilock(fs, p, i)
    OBVIOUS
  <1>6. Own(p)["freeing"] = 0 /\ Own(p)["ip"] = i /\ fs.lk[i] = Nobody
    BY <1>1, <1>4, OwnIs DEF Free
  <1>7. Mid(p, x, Own(p), {} \cup {i}, 0, 0) /\ x.file = fs.file
    BY <1>2, <1>5, <1>6, MidLock
  <1>8. {} \cup {i} = {i}
    OBVIOUS
  <1>9. CASE Quit(p, x, i)
    <2>1. Matches(Upd(Own(p), "ip", 0), Idle, cwd[p])
      BY <1>1, <1>3, OwnDrop
    <2> QED BY <1>6, <1>7, <1>8, <1>9, <2>1, QuitCall
  <1>10. CASE Go(p, x, "opened", c[p]) /\ UNCHANGED <<cwd, ofile>>
    <2>1. LockedAt("opened", c[p]) = {i} /\ ExtraAt("opened", c[p]) = 0 /\ NewAt("opened", c[p]) = 0
      BY <1>4 DEF LockedAt, ExtraAt, NewAt
    <2>2. Shape("opened", c[p], cwd[p]) /\ "opened" \in Pcs
      BY <1>3 DEF Shape, HasIp, HasDp, Pcs
    <2>3. SawAt(p, x, "opened", c[p])
      BY SawNone
    <2> QED BY <1>3, <1>7, <1>8, <1>10, <2>1, <2>2, <2>3, OwnMatches, GoCall
  <1> QED BY <1>4, <1>5, <1>9, <1>10 DEF open_found

\* exists() keeps the invariant.
LEMMA ExistsStep ==
  ASSUME IInv, NEW p \in Procs, exists(p)
  PROVE  IInv'
  <1>1. /\ pc[p] = "exists" /\ c[p].freeing = 0 /\ Free(c[p].ip)
    BY DEF exists, At
  <1>2. Mid(p, fs, Own(p), {}, 0, 0)
    BY <1>1, MidStart DEF LockedAt, ExtraAt, NewAt
  <1>3. c[p].dp = 0 /\ c[p].old = 0 /\ c[p].ip # 0 /\ c[p].ip \in Refs /\ c[p] \in CallRec
        /\ Shape("exists", c[p], cwd[p])
    BY <1>1, Here DEF Shape, HasIp, HasDp
  <1>4. PICK i \in Inodes : i = c[p].ip
    BY <1>3, Numbers
  <1>5. PICK x : x = ilock(fs, p, i)
    OBVIOUS
  <1>6. Own(p)["freeing"] = 0 /\ Own(p)["ip"] = i /\ fs.lk[i] = Nobody
    BY <1>1, <1>4, OwnIs DEF Free
  <1>7. Mid(p, x, Own(p), {} \cup {i}, 0, 0) /\ x.file = fs.file
    BY <1>2, <1>5, <1>6, MidLock
  <1>8. {} \cup {i} = {i}
    OBVIOUS
  <1>9. CASE Quit(p, x, i)
    <2>1. Matches(Upd(Own(p), "ip", 0), Idle, cwd[p])
      BY <1>1, <1>3, OwnDrop
    <2> QED BY <1>6, <1>7, <1>8, <1>9, <2>1, QuitCall
  <1>10. CASE Go(p, x, "opened", c[p]) /\ UNCHANGED <<cwd, ofile>>
    <2>1. LockedAt("opened", c[p]) = {i} /\ ExtraAt("opened", c[p]) = 0 /\ NewAt("opened", c[p]) = 0
      BY <1>4 DEF LockedAt, ExtraAt, NewAt
    <2>2. Shape("opened", c[p], cwd[p]) /\ "opened" \in Pcs
      BY <1>3 DEF Shape, HasIp, HasDp, Pcs
    <2>3. SawAt(p, x, "opened", c[p])
      BY SawNone
    <2> QED BY <1>3, <1>7, <1>8, <1>10, <2>1, <2>2, <2>3, OwnMatches, GoCall
  <1> QED BY <1>4, <1>5, <1>9, <1>10 DEF exists, Created

\* unlink3() keeps the invariant.
LEMMA Unlink3Step ==
  ASSUME IInv, NEW p \in Procs, unlink3(p)
  PROVE  IInv'
  <1>1. pc[p] = "unlink3" /\ c[p].freeing = 0
    BY DEF unlink3, At
  <1>3. c[p].dp = 0 /\ c[p].old = 0 /\ c[p].ip # 0 /\ c[p].ip \in Refs
    BY <1>1, Here DEF Shape, HasIp, HasDp
  <1>4. PICK i \in Inodes : i = c[p].ip
    BY <1>3, Numbers
  <1>2. Mid(p, fs, Own(p), {i}, i, 0)
    BY <1>1, <1>4, MidStart DEF LockedAt, ExtraAt, NewAt
  <1>5. PICK x : x = SetNlink(fs, i, fs.nlink[i] - 1)
    OBVIOUS
  <1>6. Mid(p, x, Own(p), {i}, 0, 0) /\ x.file = fs.file
    BY <1>2, <1>5, MidDec
  <1>7. Matches(Upd(Own(p), "ip", 0), Idle, cwd[p])
    BY <1>1, <1>3, OwnDrop
  <1>8. Own(p)["ip"] = i /\ Quit(p, x, i)
    BY <1>4, <1>5, OwnIs DEF unlink3
  <1> QED BY <1>6, <1>7, <1>8, QuitCall

\* link_bad() keeps the invariant.
LEMMA LinkBadStep ==
  ASSUME IInv, NEW p \in Procs, link_bad(p)
  PROVE  IInv'
  <1>1. pc[p] = "link_bad" /\ c[p].freeing = 0 /\ Free(c[p].old)
    BY DEF link_bad, At
  <1>3. c[p].dp = 0 /\ c[p].ip = 0 /\ c[p].old # 0 /\ c[p].old \in Refs
    BY <1>1, Here DEF Shape, HasIp, HasDp
  <1>4. PICK i \in Inodes : i = c[p].old
    BY <1>3, Numbers
  <1>2. Mid(p, fs, Own(p), {}, i, 0)
    BY <1>1, <1>4, MidStart DEF LockedAt, ExtraAt, NewAt
  <1>5. PICK x : x = ilock(fs, p, i)
    OBVIOUS
  <1>6. Own(p)["freeing"] = 0 /\ Own(p)["old"] = i /\ fs.lk[i] = Nobody
    BY <1>1, <1>4, OwnIs DEF Free
  <1>7. Mid(p, x, Own(p), {} \cup {i}, i, 0) /\ x.file = fs.file
    BY <1>2, <1>5, <1>6, MidLock
  <1>8. {} \cup {i} = {i}
    OBVIOUS
  <1>9. PICK y : y = SetNlink(x, i, x.nlink[i] - 1)
    OBVIOUS
  <1>10. Mid(p, y, Own(p), {i}, 0, 0) /\ y.file = fs.file
    BY <1>7, <1>8, <1>9, MidDec
  <1>11. Matches(Upd(Own(p), "old", 0), Idle, cwd[p])
    BY <1>1, <1>3, OwnDrop
  <1>12. Quit(p, y, i)
    BY <1>4, <1>5, <1>9 DEF link_bad
  <1> QED BY <1>6, <1>10, <1>11, <1>12, QuitCall

\* link_put() keeps the invariant.
LEMMA LinkPutStep ==
  ASSUME IInv, NEW p \in Procs, link_put(p)
  PROVE  IInv'
  <1>1. pc[p] = "link_put" /\ c[p].freeing = 0
    BY DEF link_put, At
  <1>2. Mid(p, fs, Own(p), {}, 0, 0)
    BY <1>1, MidStart DEF LockedAt, ExtraAt, NewAt
  <1>3. c[p].dp = 0 /\ c[p].ip = 0 /\ c[p].old # 0 /\ c[p].old \in Refs
    BY <1>1, Here DEF Shape, HasIp, HasDp
  <1>4. PICK i \in Inodes : i = c[p].old
    BY <1>3, Numbers
  <1>5. Put(p, fs, i, "user", Idle) /\ UNCHANGED <<cwd, ofile>>
    BY <1>4 DEF link_put
  <1>6. Own(p)["freeing"] = 0 /\ Own(p)["old"] = i
    BY <1>1, <1>4, OwnIs
  <1>7. Matches(Upd(Own(p), "old", 0), Idle, cwd[p])
    BY <1>1, <1>3, OwnDrop
  <1>8. /\ "user" \in Pcs /\ "user" \notin {"new", "unlink2"} /\ Idle \in CallRec /\ Idle.freeing = 0
        /\ {} = LockedAt("user", Idle) /\ 0 = ExtraAt("user", Idle) /\ 0 = NewAt("user", Idle)
        /\ Shape("user", Idle, cwd[p]) /\ i \notin {}
    BY IdleIs
  <1> QED BY <1>2, <1>5, <1>6, <1>7, <1>8, PutCall

\* A call that has the directory of a path, and locks it.
LEMMA AtParent ==
  ASSUME IInv, NEW p \in Procs, pc[p] = "parent", c[p].freeing = 0, Free(c[p].dp),
         NEW x, x = ilock(fs, p, c[p].dp)
  PROVE  /\ c[p] \in CallRec /\ c[p].dp \in Inodes /\ c[p].ip = 0 /\ c[p].old \in Refs
         /\ c[p].name \in Elems /\ (c[p].call = "link" <=> c[p].old # 0) /\ cwd[p] # 0
         /\ Mid(p, x, Own(p), {c[p].dp}, c[p].old, 0) /\ x.file = fs.file /\ x \in FsRec
         /\ dirlookup(x, c[p].dp, c[p].name) \in Refs
  <1>1. /\ c[p] \in CallRec /\ c[p].dp \in Refs /\ c[p].dp # 0 /\ c[p].ip = 0 /\ c[p].old \in Refs
        /\ c[p].name \in Elems /\ (c[p].call = "link" <=> c[p].old # 0) /\ cwd[p] # 0
    BY Here DEF Shape, HasIp, HasDp
  <1>2. PICK d \in Inodes : d = c[p].dp
    BY <1>1, Numbers
  <1>3. Mid(p, fs, Own(p), {}, c[p].old, 0)
    BY MidStart DEF LockedAt, ExtraAt, NewAt
  <1>4. Own(p)["freeing"] = 0 /\ Own(p)["dp"] = d /\ fs.lk[d] = Nobody /\ x = ilock(fs, p, d)
    BY <1>2, OwnIs DEF Free
  <1>5. Mid(p, x, Own(p), {} \cup {d}, c[p].old, 0) /\ x.file = fs.file
    BY <1>3, <1>4, MidLock
  <1>6. {} \cup {d} = {d}
    OBVIOUS
  <1>7. x \in FsRec
    BY <1>5, MidTypes
  <1>8. dirlookup(x, d, c[p].name) \in Refs
    BY <1>1, <1>2, <1>7, LookupType
  <1> QED BY <1>1, <1>2, <1>5, <1>6, <1>7, <1>8

\* ialloc() finds a free inode.
LEMMA FreeInodeFacts ==
  ASSUME NEW x, FreeInode(x) # 0
  PROVE  FreeInode(x) \in Inodes /\ x.dtype[FreeInode(x)] = "none"
  <1>1. PICK T : T = {i \in Inodes : x.dtype[i] = "none"}
    OBVIOUS
  <1>2. T # {} /\ FreeInode(x) = Min(T)
    BY <1>1 DEF FreeInode
  <1>3. T \in SUBSET Nat
    BY <1>1 DEF Inodes
  <1>4. Min(T) \in T
    BY <1>2, <1>3, MinIs
  <1> QED BY <1>1, <1>2, <1>4

\* The directory is given back, and the call goes on.
LEMMA LeaveParent ==
  ASSUME IInv, NEW p \in Procs, NEW x, NEW r, NEW d \in Inodes, NEW k, Mid(p, x, r, {d}, k, 0), x.file = fs.file,
         r["dp"] = d, r["freeing"] = 0,
         NEW l \in Pcs, l \notin {"new", "unlink2"}, NEW e \in CallRec, e.freeing = 0, Shape(l, e, cwd[p]),
         Matches(Upd(r, "dp", 0), e, cwd[p]), LockedAt(l, e) = {}, k = ExtraAt(l, e), NewAt(l, e) = 0,
         Put(p, iunlock(x, d), d, l, e), UNCHANGED <<cwd, ofile>>
  PROVE  IInv'
  <1>1. PICK y : y = iunlock(x, d)
    OBVIOUS
  <1>2. PICK m : m = {d}
    OBVIOUS
  <1>3. Mid(p, y, r, m \ {d}, k, 0) /\ y.file = x.file
    BY <1>1, <1>2, MidUnlock
  <1>4. PICK n : n = m \ {d}
    OBVIOUS
  <1>5. n = {}
    BY <1>2, <1>4
  <1>6. PICK v : v = 0
    OBVIOUS
  <1>7. PICK f \in {"ip", "dp", "old", "cwd"} : f = "dp"
    OBVIOUS
  <1>8. /\ Mid(p, y, r, n, k, v) /\ y.file = fs.file /\ r[f] = d /\ d \notin n
        /\ Matches(Upd(r, f, 0), e, cwd[p]) /\ n = LockedAt(l, e) /\ k = ExtraAt(l, e) /\ v = NewAt(l, e)
        /\ Put(p, y, d, l, e)
    BY <1>1, <1>3, <1>4, <1>5, <1>6, <1>7
  <1> QED BY <1>8, PutCall

\* create() keeps the invariant.
LEMMA CreateStep ==
  ASSUME IInv, NEW p \in Procs, create(p)
  PROVE  IInv'
  <1>1. pc[p] = "parent" /\ c[p].freeing = 0 /\ c[p].call \in {"create", "mkdir", "mknod"} /\ Free(c[p].dp)
    BY DEF create, Called, At
  <1>2. PICK x : x = ilock(fs, p, c[p].dp)
    OBVIOUS
  <1>3. /\ c[p] \in CallRec /\ c[p].dp \in Inodes /\ c[p].ip = 0 /\ c[p].old = 0
        /\ c[p].name \in Elems /\ cwd[p] # 0 /\ Mid(p, x, Own(p), {c[p].dp}, 0, 0)
        /\ x.file = fs.file /\ x \in FsRec /\ dirlookup(x, c[p].dp, c[p].name) \in Refs
    BY <1>1, <1>2, AtParent
  <1>4. PICK d \in Inodes : d = c[p].dp
    BY <1>3
  <1>5. PICK i \in Refs : i = dirlookup(x, d, c[p].name)
    BY <1>3, <1>4
  <1>6. PICK new : new = FreeInode(x)
    OBVIOUS
  <1>7. /\ Own(p) \in [Kinds -> Refs] /\ Own(p)["ip"] = 0 /\ Own(p)["dp"] = d /\ Own(p)["old"] = 0
        /\ Own(p)["freeing"] = 0 /\ Own(p)["cwd"] = cwd[p] /\ Own(p)["tmp"] = 0
    BY <1>1, <1>3, <1>4, OwnIs, Here
  <1>8. Mid(p, x, Own(p), {d}, 0, 0)
    BY <1>3, <1>4
  <1>9. CASE i = 0 /\ new = 0
    <2>1. Matches(Upd(Own(p), "dp", 0), Idle, cwd[p])
      BY <1>1, <1>3, OwnDrop
    <2>2. Quit(p, x, d)
      BY <1>2, <1>4, <1>5, <1>6, <1>9 DEF create
    <2> QED BY <1>3, <1>7, <1>8, <2>1, <2>2, QuitCall
  <1>10. CASE i # 0
    <2>1. PICK e : e = [c[p] EXCEPT !.ip = i, !.dp = 0]
      OBVIOUS
    <2>2. Put(p, iunlock(iget(x, i), d), d, "exists", e) /\ UNCHANGED <<cwd, ofile>>
      BY <1>2, <1>4, <1>5, <1>6, <1>10, <2>1 DEF create
    <2>3. i \in Inodes
      BY <1>10, Numbers
    <2>4. DotDotFree => Known(p, x, 0, i)
      <3>1. "dp" \in Kinds
        BY DEF Kinds
      <3> QED BY <1>3, <1>5, <1>7, <1>8, <2>3, <3>1, KnownLookup
    <2>5. PICK y : y = iget(x, i)
      OBVIOUS
    <2>6. PICK r : r = Upd(Own(p), "ip", i)
      OBVIOUS
    <2>7. Mid(p, y, r, {d}, 0, 0) /\ y.file = x.file
      BY <1>7, <1>8, <2>3, <2>4, <2>5, <2>6, MidGet DEF Known
    <2>8. /\ r["dp"] = d /\ r["freeing"] = 0 /\ r["ip"] = i /\ r["old"] = 0 /\ r["cwd"] = cwd[p] /\ r["tmp"] = 0
          /\ r \in [Kinds -> Refs]
      BY <1>7, <2>6 DEF Upd, Kinds
    <2>9. /\ e \in CallRec /\ e.ip = i /\ e.dp = 0 /\ e.old = 0 /\ e.freeing = 0
      BY <1>1, <1>3, <2>1, Numbers DEF CallRec
    <2>10. Matches(Upd(r, "dp", 0), e, cwd[p])
      BY <2>8, <2>9 DEF Matches, Upd, Kinds
    <2>11. Shape("exists", e, cwd[p]) /\ "exists" \in Pcs
      BY <1>3, <1>10, <2>9 DEF Shape, HasIp, HasDp, Pcs
    <2>12. LockedAt("exists", e) = {} /\ 0 = ExtraAt("exists", e) /\ NewAt("exists", e) = 0
      BY DEF LockedAt, ExtraAt, NewAt
    <2>13. Put(p, iunlock(y, d), d, "exists", e) /\ y.file = fs.file
      BY <1>3, <2>2, <2>5, <2>7
    <2> QED BY <2>2, <2>7, <2>8, <2>9, <2>10, <2>11, <2>12, <2>13, LeaveParent
  <1>11. CASE i = 0 /\ new # 0
    <2>1. PICK e : e = [c[p] EXCEPT !.ip = new]
      OBVIOUS
    <2>2. PICK type \in Types : /\ type # "none" /\ Go(p, ialloc(x, new, type), "new", e)
                                /\ UNCHANGED <<cwd, ofile>>
      <3>1. PICK type : type = CASE c[p].call = "mkdir" -> "dir" [] c[p].call = "mknod" -> "dev" [] OTHER -> "file"
        OBVIOUS
      <3>2. type \in Types /\ type # "none"
        BY <3>1 DEF Types
      <3>3. Go(p, ialloc(x, new, type), "new", e) /\ UNCHANGED <<cwd, ofile>>
        BY <1>2, <1>4, <1>5, <1>6, <1>11, <2>1, <3>1 DEF create
      <3> QED BY <3>2, <3>3
    <2>3. new \in Inodes /\ x.dtype[new] = "none" /\ new \in Refs
      BY <1>6, <1>11, FreeInodeFacts, Numbers
    <2>4. PICK y : y = ialloc(x, new, type)
      OBVIOUS
    <2>5. PICK r : r = Upd(Own(p), "ip", new)
      OBVIOUS
    <2>6. Mid(p, y, r, {d}, 0, new) /\ y.file = x.file
      BY <1>7, <1>8, <2>2, <2>3, <2>4, <2>5, MidAlloc
    <2>7. /\ e \in CallRec /\ e.ip = new /\ e.dp = d /\ e.old = 0 /\ e.freeing = 0 /\ e.name = c[p].name
      BY <1>1, <1>3, <1>4, <2>1, <2>3 DEF CallRec
    <2>8. Matches(r, e, cwd[p])
      BY <1>7, <2>3, <2>5, <2>7 DEF Matches, Upd, Kinds
    <2>9. e.name \in Elems \ {"."}
      BY <1>3, <1>5, <1>11, <2>7, Numbers DEF dirlookup
    <2>10. Shape("new", e, cwd[p]) /\ "new" \in Pcs
      BY <1>3, <1>4, <1>11, <2>7, <2>9, Numbers DEF Shape, HasIp, HasDp, Pcs
    <2>11. LockedAt("new", e) = {d} /\ 0 = ExtraAt("new", e) /\ NewAt("new", e) = new
      BY <2>7 DEF LockedAt, ExtraAt, NewAt
    <2>12. ASSUME DotDotFree PROVE SawAt(p, y, "new", e)
      <3>1. e.name \in Names
        BY <2>9, <2>12, ElemsIs
      <3>2. d # new
        BY <1>8, <2>3, <2>12, MidCopy
      <3>3. y.ents[d][e.name] = 0
        <4>1. Allocated(x, y, new, type)
          BY <1>3, <2>2, <2>3, <2>4, IallocIs
        <4>2. y.ents[d] = x.ents[d]
          BY <1>3, <2>3, <3>2, <4>1, FsTypes DEF Allocated
        <4> QED BY <1>5, <1>11, <2>7, <2>9, <4>2 DEF dirlookup
      <3>4. SeenAt(p, "new", e) = {<<p, d, e.name, 0>>}
        BY <2>7 DEF SeenAt
      <3> QED BY <2>11, <3>1, <3>3, <3>4, Numbers DEF SawAt
    <2>13. Go(p, y, "new", e) /\ y.file = fs.file
      BY <1>3, <2>2, <2>4, <2>6
    <2> QED BY <2>2, <2>6, <2>7, <2>8, <2>10, <2>11, <2>12, <2>13, GoCall
  <1> QED BY <1>9, <1>10, <1>11

\* What a call saw in the directory it has locked is still so.
LEMMA SawEntry ==
  ASSUME IInv, DotDotFree, NEW p \in Procs, NEW s \in SeenAt(p, pc[p], c[p])
  PROVE  s[3] \in Names /\ fs.ents[s[2]][s[3]] = s[4]
  <1>1. s \in Seen
    BY DEF Seen
  <1>2. SeenOK(fs, Locked, Seen)
    BY DEF IInv, Core, Deep
  <1> QED BY <1>1, <1>2 DEF SeenOK

\* A new inode is not the directory it is made in.
LEMMA NewApart ==
  ASSUME NEW p \in Procs, NEW x, NEW r, NEW m, NEW k, NEW v \in Inodes, Mid(p, x, r, m, k, v), DotDotFree, v \in m
  PROVE  r["dp"] # v
  <1>1. PICK h : h = HeldBy(p, x.file, r)
    OBVIOUS
  <1>2. PICK M : M = Upd(Locked, p, m)
    OBVIOUS
  <1>3. PICK V : V = Upd(New, p, v)
    OBVIOUS
  <1>4. Core(x, h, M, Upd(Extra, p, k), V, Other(Seen, p)) /\ r \in [Kinds -> Refs]
    BY <1>1, <1>2, <1>3 DEF Mid
  <1>5. M[p] = m /\ V[p] = v
    BY <1>2, <1>3, GhostAt
  <1>6. NewInode(x, h, p, v)
    BY <1>4, <1>5, NewFacts
  <1>7. h[<<p, "dp">>] = r["dp"]
    BY <1>1, HeldByAt, ZenonT(30) DEF Kinds
  <1> QED BY <1>6, <1>7 DEF NewInode

\* No entry of a directory is the directory itself.
LEMMA NotItself ==
  ASSUME IInv, DotDotFree, NEW d \in Inodes, NEW n \in Names
  PROVE  fs.ents[d][n] # d
  <1>1. Acyclic(fs.ents)
    BY DEF IInv, Core, Deep, DiskOK
  <1>2. {d} \in SUBSET Inodes /\ {d} # {}
    OBVIOUS
  <1> QED BY <1>1, <1>2 DEF Acyclic

\* One of the two inodes that a call has locked is given back, and put.
LEMMA LeaveOne ==
  ASSUME IInv, NEW p \in Procs, NEW x, NEW r, NEW i \in Inodes, NEW j \in Inodes, NEW k,
         Mid(p, x, r, {j} \cup {i}, k, 0) \/ Mid(p, x, r, {i} \cup {j}, k, 0),
         DotDotFree => i # j, x.file = fs.file,
         NEW f \in {"ip", "dp", "old", "cwd"}, r[f] = i, r["freeing"] = 0,
         NEW l \in Pcs, l \notin {"new", "unlink2"}, NEW e \in CallRec, e.freeing = 0, Shape(l, e, cwd[p]),
         Matches(Upd(r, f, 0), e, cwd[p]), LockedAt(l, e) = {j}, k = ExtraAt(l, e), NewAt(l, e) = 0,
         Put(p, iunlock(x, i), i, l, e), UNCHANGED <<cwd, ofile>>
  PROVE  IInv'
  <1>1. PICK y : y = iunlock(x, i)
    OBVIOUS
  <1>2. PICK m : m = {i, j}
    OBVIOUS
  <1>3. {j} \cup {i} = m /\ {i} \cup {j} = m /\ i \in m
    BY <1>2
  <1>4. Mid(p, x, r, m, k, 0)
    BY <1>3
  <1>5. Mid(p, y, r, m \ {i}, k, 0) /\ y.file = x.file
    BY <1>1, <1>3, <1>4, MidUnlock
  <1>6. PICK n \in SUBSET Inodes : n = {j}
    OBVIOUS
  <1>7. DotDotFree => n = m \ {i}
    BY <1>2, <1>6
  <1>8. k \in Refs /\ 0 \in Refs
    BY <1>4, MidTypes, Numbers
  <1>9. Mid(p, y, r, n, k, 0)
    BY <1>5, <1>7, <1>8, MidGhost
  <1>10. PICK v : v = 0
    OBVIOUS
  <1>11. /\ Mid(p, y, r, n, k, v) /\ y.file = fs.file /\ (DotDotFree => i \notin n)
         /\ n = LockedAt(l, e) /\ k = ExtraAt(l, e) /\ v = NewAt(l, e) /\ Put(p, y, i, l, e)
    BY <1>1, <1>5, <1>6, <1>9, <1>10
  <1> QED BY <1>11, PutCall

\* create_new() keeps the invariant.
LEMMA CreateNewStep ==
  ASSUME IInv, NEW p \in Procs, create_new(p)
  PROVE  IInv'
  <1>1. pc[p] = "new" /\ c[p].freeing = 0 /\ Free(c[p].ip) /\ UNCHANGED <<cwd, ofile>>
    BY DEF create_new, At
  <1>2. /\ c[p] \in CallRec /\ c[p].ip # 0 /\ c[p].ip \in Refs /\ c[p].dp # 0 /\ c[p].dp \in Refs /\ c[p].old = 0
        /\ c[p].name \in Elems /\ c[p].name # "." /\ cwd[p] # 0
    BY <1>1, Here DEF Shape, HasIp, HasDp
  <1>3. PICK i \in Inodes : i = c[p].ip
    BY <1>2, Numbers
  <1>4. PICK d \in Inodes : d = c[p].dp
    BY <1>2, Numbers
  <1>5. Mid(p, fs, Own(p), {d}, 0, i)
    BY <1>1, <1>3, <1>4, MidStart DEF LockedAt, ExtraAt, NewAt
  <1>6. /\ Own(p) \in [Kinds -> Refs] /\ Own(p)["ip"] = i /\ Own(p)["dp"] = d /\ Own(p)["old"] = 0
        /\ Own(p)["freeing"] = 0 /\ Own(p)["cwd"] = cwd[p] /\ Own(p)["tmp"] = 0
    BY <1>1, <1>2, <1>3, <1>4, OwnIs, Here
  <1>7. PICK x : x = ilock(fs, p, i)
    OBVIOUS
  <1>8. Mid(p, x, Own(p), {d} \cup {i}, 0, i) /\ x.file = fs.file
    BY <1>1, <1>3, <1>5, <1>6, <1>7, MidLock DEF Free
  <1>9. PICK m : m = {d} \cup {i}
    OBVIOUS
  <1>10. Mid(p, x, Own(p), m, 0, i) /\ i \in m /\ d \in m
    BY <1>8, <1>9
  <1>11. DotDotFree => i # d
    BY <1>6, <1>10, NewApart
  <1>12. PICK n \in DirNames : n = c[p].name
    BY <1>2, ElemsIs
  <1>13. ASSUME DotDotFree PROVE n \in Names /\ x.ents[d][n] = 0
    <2>1. <<p, d, n, 0>> \in SeenAt(p, pc[p], c[p])
      BY <1>1, <1>4, <1>12 DEF SeenAt
    <2>2. n \in Names /\ fs.ents[d][n] = 0
      BY <1>13, <2>1, SawEntry
    <2>3. fs \in FsRec
      BY Here
    <2>4. SameDisk(fs, x)
      BY <1>7, <2>3, IlockIs
    <2> QED BY <2>2, <2>4 DEF SameDisk
  <1>14. CASE Put(p, iunlock(SetNlink(NewLink(x, i, d), i, 0), i), i, "put_parent", [c[p] EXCEPT !.ip = 0])
    <2>1. PICK y : y = SetNlink(NewLink(x, i, d), i, 0)
      OBVIOUS
    <2>2. Mid(p, y, Own(p), m, 0, 0) /\ y.file = x.file
      BY <1>10, <2>1, MidNoAttach
    <2>3. PICK e : e = [c[p] EXCEPT !.ip = 0]
      OBVIOUS
    <2>4. e \in CallRec /\ e.ip = 0 /\ e.dp = d /\ e.old = 0 /\ e.freeing = 0
      BY <1>1, <1>2, <1>4, <2>3, Numbers DEF CallRec
    <2>5. Matches(Upd(Own(p), "ip", 0), e, cwd[p])
      BY <1>6, <2>4 DEF Matches, Upd, Kinds
    <2>6. Shape("put_parent", e, cwd[p]) /\ "put_parent" \in Pcs
      BY <1>2, <1>4, <2>4, Numbers DEF Shape, HasIp, HasDp, Pcs
    <2>7. LockedAt("put_parent", e) = {d} /\ 0 = ExtraAt("put_parent", e) /\ NewAt("put_parent", e) = 0
      BY <2>4 DEF LockedAt, ExtraAt, NewAt
    <2>8. Put(p, iunlock(y, i), i, "put_parent", e) /\ Mid(p, y, Own(p), {d} \cup {i}, 0, 0) /\ y.file = fs.file
      BY <1>8, <1>9, <1>14, <2>1, <2>2, <2>3
    <2> QED BY <1>1, <1>6, <1>11, <2>4, <2>5, <2>6, <2>7, <2>8, LeaveOne
  <1>15. CASE Put(p, iunlock(Attach(x, d, n, i), d), d, Created(p), [c[p] EXCEPT !.dp = 0])
    <2>1. PICK y : y = Attach(x, d, n, i)
      OBVIOUS
    <2>2. Mid(p, y, Own(p), m, 0, 0) /\ y.file = x.file
      BY <1>6, <1>10, <1>13, <2>1, MidAttach
    <2>3. PICK e : e = [c[p] EXCEPT !.dp = 0]
      OBVIOUS
    <2>4. e \in CallRec /\ e.ip = i /\ e.dp = 0 /\ e.old = 0 /\ e.freeing = 0
      BY <1>1, <1>2, <1>3, <2>3, Numbers DEF CallRec
    <2>5. Matches(Upd(Own(p), "dp", 0), e, cwd[p])
      BY <1>6, <2>4 DEF Matches, Upd, Kinds
    <2>6. PICK l \in {"opened", "made"} : l = Created(p)
      BY DEF Created
    <2>7. Shape(l, e, cwd[p]) /\ l \in Pcs /\ l \notin {"new", "unlink2"}
      BY <1>2, <1>3, <2>4, <2>6, Numbers DEF Shape, HasIp, HasDp, Pcs
    <2>8. LockedAt(l, e) = {i} /\ 0 = ExtraAt(l, e) /\ NewAt(l, e) = 0
      BY <2>4 DEF LockedAt, ExtraAt, NewAt
    <2>9. Put(p, iunlock(y, d), d, l, e) /\ Mid(p, y, Own(p), {d} \cup {i}, 0, 0) /\ y.file = fs.file
      BY <1>8, <1>9, <1>15, <2>1, <2>2, <2>3, <2>6
    <2> QED BY <1>1, <1>6, <1>11, <2>4, <2>5, <2>7, <2>8, <2>9, LeaveOne
  <1>16. \/ Put(p, iunlock(SetNlink(NewLink(x, i, d), i, 0), i), i, "put_parent", [c[p] EXCEPT !.ip = 0])
         \/ Put(p, iunlock(Attach(x, d, n, i), d), d, Created(p), [c[p] EXCEPT !.dp = 0])
    BY <1>3, <1>4, <1>7, <1>12 DEF create_new, NewLink, Attach
  <1> QED BY <1>14, <1>15, <1>16

\* unlink() keeps the invariant.
LEMMA UnlinkStep ==
  ASSUME IInv, NEW p \in Procs, unlink(p)
  PROVE  IInv'
  <1>1. pc[p] = "parent" /\ c[p].freeing = 0 /\ c[p].call = "unlink" /\ Free(c[p].dp)
    BY DEF unlink, Called, At
  <1>2. PICK x : x = ilock(fs, p, c[p].dp)
    OBVIOUS
  <1>3. /\ c[p] \in CallRec /\ c[p].dp \in Inodes /\ c[p].ip = 0 /\ c[p].old = 0
        /\ c[p].name \in Elems /\ cwd[p] # 0 /\ Mid(p, x, Own(p), {c[p].dp}, 0, 0)
        /\ x.file = fs.file /\ x \in FsRec /\ dirlookup(x, c[p].dp, c[p].name) \in Refs
    BY <1>1, <1>2, AtParent
  <1>4. PICK d \in Inodes : d = c[p].dp
    BY <1>3
  <1>5. PICK i \in Refs : i = dirlookup(x, d, c[p].name)
    BY <1>3, <1>4
  <1>7. /\ Own(p) \in [Kinds -> Refs] /\ Own(p)["ip"] = 0 /\ Own(p)["dp"] = d /\ Own(p)["old"] = 0
        /\ Own(p)["freeing"] = 0 /\ Own(p)["cwd"] = cwd[p] /\ Own(p)["tmp"] = 0
    BY <1>1, <1>3, <1>4, OwnIs, Here
  <1>8. Mid(p, x, Own(p), {d}, 0, 0)
    BY <1>3, <1>4
  <1>9. CASE Quit(p, x, d)
    <2>1. Matches(Upd(Own(p), "dp", 0), Idle, cwd[p])
      BY <1>1, <1>3, OwnDrop
    <2> QED BY <1>3, <1>7, <1>8, <1>9, <2>1, QuitCall
  <1>10. CASE c[p].name # "." /\ i # 0 /\ ~ Quit(p, x, d)
    <2>1. PICK e : e = [c[p] EXCEPT !.ip = i]
      OBVIOUS
    <2>2. Go(p, iget(x, i), "unlink2", e) /\ UNCHANGED <<cwd, ofile>>
      BY <1>2, <1>4, <1>5, <1>10, <2>1 DEF unlink
    <2>3. i \in Inodes
      BY <1>10, Numbers
    <2>4. DotDotFree => Known(p, x, 0, i)
      <3>1. "dp" \in Kinds
        BY DEF Kinds
      <3> QED BY <1>3, <1>5, <1>7, <1>8, <2>3, <3>1, KnownLookup
    <2>5. PICK y : y = iget(x, i)
      OBVIOUS
    <2>6. PICK r : r = Upd(Own(p), "ip", i)
      OBVIOUS
    <2>7. Mid(p, y, r, {d}, 0, 0) /\ y.file = x.file
      BY <1>7, <1>8, <2>3, <2>4, <2>5, <2>6, MidGet DEF Known
    <2>9. /\ e \in CallRec /\ e.ip = i /\ e.dp = d /\ e.old = 0 /\ e.freeing = 0 /\ e.name = c[p].name
      BY <1>1, <1>3, <1>4, <2>1, Numbers DEF CallRec
    <2>10. Matches(r, e, cwd[p])
      BY <1>7, <2>6, <2>9 DEF Matches, Upd, Kinds
    <2>11. Shape("unlink2", e, cwd[p]) /\ "unlink2" \in Pcs
      BY <1>3, <1>4, <1>10, <2>9, Numbers DEF Shape, HasIp, HasDp, Pcs
    <2>12. LockedAt("unlink2", e) = {d} /\ 0 = ExtraAt("unlink2", e) /\ NewAt("unlink2", e) = 0
      BY <2>9 DEF LockedAt, ExtraAt, NewAt
    <2>13. ASSUME DotDotFree PROVE SawAt(p, y, "unlink2", e)
      <3>1. e.name \in Names
        BY <1>3, <1>10, <2>9, <2>13, ElemsIs
      <3>2. SameDisk(x, y)
        BY <1>3, <2>3, <2>5, IgetIs
      <3>3. y.ents[d][e.name] = i
        BY <1>5, <1>10, <2>9, <3>2 DEF dirlookup, SameDisk
      <3>4. SeenAt(p, "unlink2", e) = {<<p, d, e.name, i>>}
        BY <2>9 DEF SeenAt
      <3> QED BY <2>12, <3>1, <3>3, <3>4 DEF SawAt
    <2>14. Go(p, y, "unlink2", e) /\ y.file = fs.file
      BY <1>3, <2>2, <2>5, <2>7
    <2> QED BY <2>2, <2>7, <2>9, <2>10, <2>11, <2>12, <2>13, <2>14, GoCall
  <1>11. Quit(p, x, d) \/ (c[p].name # "." /\ i # 0)
    BY <1>2, <1>4, <1>5 DEF unlink
  <1> QED BY <1>9, <1>10, <1>11

\* unlink2() keeps the invariant.
LEMMA Unlink2Step ==
  ASSUME IInv, NEW p \in Procs, unlink2(p)
  PROVE  IInv'
  <1>1. pc[p] = "unlink2" /\ c[p].freeing = 0 /\ Free(c[p].ip) /\ UNCHANGED <<cwd, ofile>>
    BY DEF unlink2, At
  <1>2. /\ c[p] \in CallRec /\ c[p].ip # 0 /\ c[p].ip \in Refs /\ c[p].dp # 0 /\ c[p].dp \in Refs /\ c[p].old = 0
        /\ c[p].name \in Elems /\ c[p].name # "." /\ cwd[p] # 0
    BY <1>1, Here DEF Shape, HasIp, HasDp
  <1>3. PICK i \in Inodes : i = c[p].ip
    BY <1>2, Numbers
  <1>4. PICK d \in Inodes : d = c[p].dp
    BY <1>2, Numbers
  <1>5. Mid(p, fs, Own(p), {d}, 0, 0)
    BY <1>1, <1>3, <1>4, MidStart DEF LockedAt, ExtraAt, NewAt
  <1>6. /\ Own(p) \in [Kinds -> Refs] /\ Own(p)["ip"] = i /\ Own(p)["dp"] = d /\ Own(p)["old"] = 0
        /\ Own(p)["freeing"] = 0 /\ Own(p)["cwd"] = cwd[p] /\ Own(p)["tmp"] = 0
    BY <1>1, <1>2, <1>3, <1>4, OwnIs, Here
  <1>7. PICK x : x = ilock(fs, p, i)
    OBVIOUS
  <1>8. Mid(p, x, Own(p), {d} \cup {i}, 0, 0) /\ x.file = fs.file
    BY <1>1, <1>3, <1>5, <1>6, <1>7, MidLock DEF Free
  <1>9. PICK m : m = {d} \cup {i}
    OBVIOUS
  <1>10. Mid(p, x, Own(p), m, 0, 0) /\ i \in m /\ d \in m
    BY <1>8, <1>9
  <1>12. PICK n \in DirNames : n = c[p].name
    BY <1>2, ElemsIs
  <1>13. ASSUME DotDotFree PROVE n \in Names /\ x.ents[d][n] = i /\ i # d
    <2>1. <<p, d, n, i>> \in SeenAt(p, pc[p], c[p])
      BY <1>1, <1>3, <1>4, <1>12 DEF SeenAt
    <2>2. n \in Names /\ fs.ents[d][n] = i
      BY <1>13, <2>1, SawEntry
    <2>3. fs \in FsRec
      BY Here
    <2>4. SameDisk(fs, x)
      BY <1>7, <2>3, IlockIs
    <2> QED BY <1>13, <2>2, <2>4, NotItself DEF SameDisk
  <1>14. CASE Put(p, iunlock(x, i), i, "put_parent", [c[p] EXCEPT !.ip = 0])
    <2>3. PICK e : e = [c[p] EXCEPT !.ip = 0]
      OBVIOUS
    <2>4. e \in CallRec /\ e.ip = 0 /\ e.dp = d /\ e.old = 0 /\ e.freeing = 0
      BY <1>1, <1>2, <1>4, <2>3, Numbers DEF CallRec
    <2>5. Matches(Upd(Own(p), "ip", 0), e, cwd[p])
      BY <1>6, <2>4 DEF Matches, Upd, Kinds
    <2>6. Shape("put_parent", e, cwd[p]) /\ "put_parent" \in Pcs
      BY <1>2, <1>4, <2>4, Numbers DEF Shape, HasIp, HasDp, Pcs
    <2>7. LockedAt("put_parent", e) = {d} /\ 0 = ExtraAt("put_parent", e) /\ NewAt("put_parent", e) = 0
      BY <2>4 DEF LockedAt, ExtraAt, NewAt
    <2>8. Put(p, iunlock(x, i), i, "put_parent", e)
      BY <1>14, <2>3
    <2> QED BY <1>1, <1>6, <1>8, <1>13, <2>4, <2>5, <2>6, <2>7, <2>8, LeaveOne
  <1>15. CASE Put(p, iunlock(Detach(x, d, n, i), d), d, "unlink3", [c[p] EXCEPT !.dp = 0])
    <2>1. PICK y : y = Detach(x, d, n, i)
      OBVIOUS
    <2>2. Mid(p, y, Own(p), m, i, 0) /\ y.file = x.file
      BY <1>6, <1>10, <1>13, <2>1, MidDetach
    <2>3. PICK e : e = [c[p] EXCEPT !.dp = 0]
      OBVIOUS
    <2>4. e \in CallRec /\ e.ip = i /\ e.dp = 0 /\ e.old = 0 /\ e.freeing = 0
      BY <1>1, <1>2, <1>3, <2>3, Numbers DEF CallRec
    <2>5. Matches(Upd(Own(p), "dp", 0), e, cwd[p])
      BY <1>6, <2>4 DEF Matches, Upd, Kinds
    <2>7. Shape("unlink3", e, cwd[p]) /\ "unlink3" \in Pcs
      BY <1>2, <1>3, <2>4, Numbers DEF Shape, HasIp, HasDp, Pcs
    <2>8. LockedAt("unlink3", e) = {i} /\ i = ExtraAt("unlink3", e) /\ NewAt("unlink3", e) = 0
      BY <2>4 DEF LockedAt, ExtraAt, NewAt
    <2>9. Put(p, iunlock(y, d), d, "unlink3", e) /\ Mid(p, y, Own(p), {d} \cup {i}, i, 0) /\ y.file = fs.file
      BY <1>8, <1>9, <1>15, <2>1, <2>2, <2>3
    <2> QED BY <1>1, <1>6, <1>13, <2>4, <2>5, <2>7, <2>8, <2>9, LeaveOne
  <1>16. \/ Put(p, iunlock(x, i), i, "put_parent", [c[p] EXCEPT !.ip = 0])
         \/ Put(p, iunlock(Detach(x, d, n, i), d), d, "unlink3", [c[p] EXCEPT !.dp = 0])
    BY <1>3, <1>4, <1>7, <1>12 DEF unlink2, Detach
  <1> QED BY <1>14, <1>15, <1>16

-----------------------------------------------------------------------------
(* Path names and links.                                                   *)

\* namex() begins.
LEMMA StartIs ==
  ASSUME NEW p \in Procs, NEW x, NEW r, NEW m, NEW k, Mid(p, x, r, m, k, 0), NEW path, path.abs \in BOOLEAN,
         r["ip"] = 0, r["cwd"] = cwd[p], cwd[p] # 0
  PROVE  /\ From(p, path) \in Inodes
         /\ Mid(p, Start(x, p, path), Upd(r, "ip", From(p, path)), m, k, 0) /\ Start(x, p, path).file = x.file
  <1>1. r \in [Kinds -> Refs] /\ "cwd" \in Kinds /\ "ip" \in {"ip", "tmp"}
    BY MidTypes DEF Kinds
  <1>2. CASE path.abs
    <2>1. From(p, path) = ROOTINO /\ Start(x, p, path) = iget(x, ROOTINO) /\ ROOTINO \in Inodes
      BY <1>2, Numbers DEF From, Start
    <2>2. DotDotFree => Known(p, x, 0, ROOTINO)
      BY KnownRoot
    <2>3. PICK y : y = iget(x, ROOTINO)
      OBVIOUS
    <2>4. Mid(p, y, Upd(r, "ip", ROOTINO), m, k, 0) /\ y.file = x.file
      BY <1>1, <2>1, <2>2, <2>3, MidGet DEF Known
    <2> QED BY <2>1, <2>3, <2>4
  <1>3. CASE ~ path.abs
    <2>1. PICK j \in Inodes : j = cwd[p]
      BY <1>1, Numbers
    <2>2. From(p, path) = j /\ Start(x, p, path) = idup(x, j)
      BY <1>3, <2>1 DEF From, Start
    <2>3. DotDotFree => Known(p, x, 0, j)
      BY <1>1, <2>1, KnownHeld
    <2>4. PICK y : y = idup(x, j)
      OBVIOUS
    <2>5. Mid(p, y, Upd(r, "ip", j), m, k, 0) /\ y.file = x.file
      BY <1>1, <2>1, <2>3, <2>4, MidGet DEF Known
    <2> QED BY <2>2, <2>4, <2>5
  <1> QED BY <1>2, <1>3

\* call() keeps the invariant.
LEMMA CallStep ==
  ASSUME IInv, NEW p \in Procs, NEW what \in DOMAIN Paths, NEW path \in Paths[what], NEW new \in PathRec,
         call(p, what, path, new)
  PROVE  IInv'
  <1>1. /\ pc[p] = "user" /\ c[p].freeing = 0 /\ cwd[p] # 0 /\ UNCHANGED <<cwd, ofile>>
    BY DEF call, At
  <1>2. path \in PathRec
    <2>1. path \in [abs : BOOLEAN, els : Seq(Names \cup {".", ".."})]
      BY FsAssumption
    <2>2. path.els \in Seq(Elems)
      BY <2>1 DEF Elems, DotDotFree
    <2> QED BY <2>1, <2>2 DEF PathRec
  <1>3. path.abs \in BOOLEAN /\ path.els \in Seq(Elems)
    BY <1>2 DEF PathRec
  <1>4. Mid(p, fs, Own(p), {}, 0, 0)
    BY <1>1, MidStart DEF LockedAt, ExtraAt, NewAt
  <1>5. c[p].ip = 0 /\ c[p].dp = 0 /\ c[p].old = 0
    BY <1>1, Here DEF Shape, HasIp, HasDp
  <1>6. /\ Own(p) \in [Kinds -> Refs] /\ Own(p)["ip"] = 0 /\ Own(p)["dp"] = 0 /\ Own(p)["old"] = 0
        /\ Own(p)["freeing"] = 0 /\ Own(p)["cwd"] = cwd[p] /\ Own(p)["tmp"] = 0
    BY <1>1, <1>5, OwnIs, Here
  <1>7. PICK j \in Inodes : j = From(p, path)
    BY <1>1, <1>3, <1>4, <1>6, StartIs
  <1>8. PICK x : x = Start(fs, p, path)
    OBVIOUS
  <1>9. PICK r : r = Upd(Own(p), "ip", j)
    OBVIOUS
  <1>10. Mid(p, x, r, {}, 0, 0) /\ x.file = fs.file
    BY <1>1, <1>3, <1>4, <1>6, <1>7, <1>8, <1>9, StartIs
  <1>11. PICK b \in BOOLEAN : b = (what \in {"create", "mkdir", "mknod", "unlink"})
    <2>1. PICK S : S = {"create", "mkdir", "mknod", "unlink"}
      OBVIOUS
    <2>2. (what \in S) = TRUE \/ (what \in S) = FALSE
      OBVIOUS
    <2>3. (what \in S) \in BOOLEAN
      BY <2>2
    <2> QED BY <2>1, <2>3
  <1>12. PICK d : d = [Idle EXCEPT !.call = what, !.ip = j, !.rest = path.els, !.new = new, !.parent = b]
    OBVIOUS
  <1>13. /\ d \in CallRec /\ d.ip = j /\ d.dp = 0 /\ d.old = 0 /\ d.freeing = 0 /\ d.call = what /\ d.parent = b
    <2>1. j \in Refs
      BY Numbers
    <2> QED BY <1>3, <1>12, <2>1, IdleIs DEF CallRec
  <1>14. Go(p, x, "namex", d)
    BY <1>7, <1>8, <1>11, <1>12 DEF call
  <1>15. Matches(r, d, cwd[p])
    BY <1>6, <1>9, <1>13 DEF Matches, Upd, Kinds
  <1>16. Shape("namex", d, cwd[p]) /\ "namex" \in Pcs
    <2>1. ~ (d.call = "link" /\ d.parent)
      BY <1>11, <1>13
    <2> QED BY <1>1, <1>13, <2>1, Numbers DEF Shape, HasIp, HasDp, Pcs
  <1>17. {} = LockedAt("namex", d) /\ 0 = ExtraAt("namex", d) /\ 0 = NewAt("namex", d)
    BY <1>13 DEF LockedAt, ExtraAt, NewAt
  <1>18. SawAt(p, x, "namex", d)
    BY SawNone
  <1> QED BY <1>1, <1>10, <1>13, <1>14, <1>15, <1>16, <1>17, <1>18, GoCall

\* link_found() keeps the invariant.
LEMMA LinkFoundStep ==
  ASSUME IInv, NEW p \in Procs, link_found(p)
  PROVE  IInv'
  <1>1. /\ pc[p] = "found" /\ c[p].freeing = 0 /\ c[p].call = "link" /\ Free(c[p].ip)
    BY DEF link_found, Called, At
  <1>2. Mid(p, fs, Own(p), {}, 0, 0)
    BY <1>1, MidStart DEF LockedAt, ExtraAt, NewAt
  <1>3. c[p].dp = 0 /\ c[p].old = 0 /\ c[p].ip # 0 /\ c[p].ip \in Refs /\ c[p] \in CallRec /\ cwd[p] # 0
        /\ fs \in FsRec
    BY <1>1, Here DEF Shape, HasIp, HasDp
  <1>4. PICK i \in Inodes : i = c[p].ip
    BY <1>3, Numbers
  <1>5. PICK x : x = ilock(fs, p, i)
    OBVIOUS
  <1>6. /\ Own(p) \in [Kinds -> Refs] /\ Own(p)["ip"] = i /\ Own(p)["dp"] = 0 /\ Own(p)["old"] = 0
        /\ Own(p)["freeing"] = 0 /\ Own(p)["cwd"] = cwd[p] /\ Own(p)["tmp"] = 0 /\ fs.lk[i] = Nobody
    BY <1>1, <1>3, <1>4, OwnIs, Here DEF Free
  <1>7. Mid(p, x, Own(p), {} \cup {i}, 0, 0) /\ x.file = fs.file
    BY <1>2, <1>5, <1>6, MidLock
  <1>8. {} \cup {i} = {i}
    OBVIOUS
  <1>9. CASE Quit(p, x, i)
    <2>1. Matches(Upd(Own(p), "ip", 0), Idle, cwd[p])
      BY <1>1, <1>3, OwnDrop
    <2> QED BY <1>6, <1>7, <1>8, <1>9, <2>1, QuitCall
  <1>10. CASE x.type[i] # "dir"
    <2>1. PICK y : y = SetNlink(x, i, x.nlink[i] + 1)
      OBVIOUS
    <2>2. PICK m : m = {i}
      OBVIOUS
    <2>3. Mid(p, y, Own(p), m, i, 0) /\ y.file = x.file
      <3>1. Mid(p, x, Own(p), m, 0, 0) /\ i \in m
        BY <1>7, <1>8, <2>2
      <3> QED BY <1>6, <2>1, <3>1, MidInc
    <2>4. PICK z : z = iunlock(y, i)
      OBVIOUS
    <2>5. Mid(p, z, Own(p), m \ {i}, i, 0) /\ z.file = y.file
      BY <2>2, <2>3, <2>4, MidUnlock
    <2>6. m \ {i} = {}
      BY <2>2
    <2>7. Mid(p, z, Own(p), {}, i, 0) /\ z.file = fs.file
      BY <1>7, <2>3, <2>5, <2>6
    <2>8. ASSUME DotDotFree PROVE z.dtype[i] # "dir"
      <3>1. y.dtype[i] = y.type[i]
        BY <2>2, <2>3, <2>8, MidCopy
      <3>2. x \in FsRec /\ y \in FsRec
        BY <1>7, <2>3, MidTypes
      <3>3. y.type = x.type
        BY <2>1, <3>2 DEF SetNlink, iupdate, FsRec
      <3>4. z.dtype = y.dtype
        BY <2>4, <3>2 DEF iunlock, FsRec
      <3> QED BY <1>10, <3>1, <3>3, <3>4
    <2>9. PICK s : s = Upd(Upd(Own(p), "ip", 0), "old", i)
      OBVIOUS
    <2>10. Mid(p, z, s, {}, i, 0)
      <3>1. "ip" \in {"ip", "tmp"} /\ "old" \in {"dp", "old", "ip", "cwd"} /\ i # 0 /\ i \notin {}
        BY <1>3, <1>4
      <3> QED BY <1>6, <2>7, <2>8, <2>9, <3>1, MidMove
    <2>11. /\ s \in [Kinds -> Refs] /\ s["ip"] = 0 /\ s["old"] = i /\ s["dp"] = 0 /\ s["freeing"] = 0
           /\ s["cwd"] = cwd[p] /\ s["tmp"] = 0
      BY <1>6, <2>9, <2>10, MidTypes DEF Upd, Kinds
    <2>12. PICK new \in PathRec : new = c[p].new
      BY <1>3, CallTypes
    <2>13. new.abs \in BOOLEAN /\ new.els \in Seq(Elems)
      BY <2>12 DEF PathRec
    <2>14. PICK j \in Inodes : j = From(p, new)
      BY <1>3, <2>10, <2>11, <2>13, StartIs
    <2>15. PICK u : u = Start(z, p, new)
      OBVIOUS
    <2>16. PICK r : r = Upd(s, "ip", j)
      OBVIOUS
    <2>17. Mid(p, u, r, {}, i, 0) /\ u.file = fs.file
      BY <1>3, <2>7, <2>10, <2>11, <2>13, <2>14, <2>15, <2>16, StartIs
    <2>18. PICK d : d = [c[p] EXCEPT !.old = i, !.ip = j, !.rest = new.els, !.parent = TRUE]
      OBVIOUS
    <2>19. /\ d \in CallRec /\ d.ip = j /\ d.dp = 0 /\ d.old = i /\ d.freeing = 0 /\ d.call = "link" /\ d.parent = TRUE
      <3>1. j \in Refs /\ i \in Refs
        BY Numbers
      <3> QED BY <1>1, <1>3, <2>13, <2>18, <3>1 DEF CallRec
    <2>20. Go(p, u, "namex", d) /\ UNCHANGED <<cwd, ofile>>
      BY <1>4, <1>5, <1>10, <2>1, <2>4, <2>12, <2>14, <2>15, <2>18 DEF link_found
    <2>21. Matches(r, d, cwd[p])
      BY <2>11, <2>16, <2>19 DEF Matches, Upd, Kinds
    <2>22. Shape("namex", d, cwd[p]) /\ "namex" \in Pcs
      BY <1>3, <2>19, Numbers DEF Shape, HasIp, HasDp, Pcs
    <2>23. {} = LockedAt("namex", d) /\ i = ExtraAt("namex", d) /\ 0 = NewAt("namex", d)
      BY <2>19 DEF LockedAt, ExtraAt, NewAt
    <2>24. SawAt(p, u, "namex", d)
      BY SawNone
    <2> QED BY <2>17, <2>19, <2>20, <2>21, <2>22, <2>23, <2>24, GoCall
  <1> QED BY <1>4, <1>5, <1>9, <1>10 DEF link_found

\* link_parent() keeps the invariant.
LEMMA LinkParentStep ==
  ASSUME IInv, NEW p \in Procs, link_parent(p)
  PROVE  IInv'
  <1>1. pc[p] = "parent" /\ c[p].freeing = 0 /\ c[p].call = "link" /\ Free(c[p].dp) /\ UNCHANGED <<cwd, ofile>>
    BY DEF link_parent, Called, At
  <1>2. PICK x : x = ilock(fs, p, c[p].dp)
    OBVIOUS
  <1>3. /\ c[p] \in CallRec /\ c[p].dp \in Inodes /\ c[p].ip = 0 /\ c[p].old # 0 /\ c[p].old \in Refs
        /\ c[p].name \in Elems /\ cwd[p] # 0 /\ Mid(p, x, Own(p), {c[p].dp}, c[p].old, 0)
        /\ x.file = fs.file /\ x \in FsRec
    BY <1>1, <1>2, AtParent
  <1>4. PICK d \in Inodes : d = c[p].dp
    BY <1>3
  <1>5. PICK i \in Inodes : i = c[p].old
    BY <1>3, Numbers
  <1>6. PICK e : e = [c[p] EXCEPT !.dp = 0]
    OBVIOUS
  <1>7. /\ Own(p) \in [Kinds -> Refs] /\ Own(p)["ip"] = 0 /\ Own(p)["dp"] = d /\ Own(p)["old"] = i
        /\ Own(p)["freeing"] = 0 /\ Own(p)["cwd"] = cwd[p] /\ Own(p)["tmp"] = 0
    BY <1>1, <1>3, <1>4, <1>5, OwnIs, Here
  <1>8. Mid(p, x, Own(p), {d}, i, 0)
    BY <1>3, <1>4, <1>5
  <1>9. e \in CallRec /\ e.ip = 0 /\ e.dp = 0 /\ e.old = i /\ e.freeing = 0
    BY <1>1, <1>3, <1>5, <1>6, Numbers DEF CallRec
  <1>10. Matches(Upd(Own(p), "dp", 0), e, cwd[p])
    BY <1>7, <1>9 DEF Matches, Upd, Kinds
  <1>11. CASE Put(p, iunlock(x, d), d, "link_bad", e)
    <2>1. Shape("link_bad", e, cwd[p]) /\ "link_bad" \in Pcs
      BY <1>3, <1>5, <1>9, Numbers DEF Shape, HasIp, HasDp, Pcs
    <2>2. LockedAt("link_bad", e) = {} /\ i = ExtraAt("link_bad", e) /\ NewAt("link_bad", e) = 0
      BY <1>9 DEF LockedAt, ExtraAt, NewAt
    <2> QED BY <1>1, <1>3, <1>7, <1>8, <1>9, <1>10, <1>11, <2>1, <2>2, LeaveParent
  <1>12. CASE dirlookup(x, d, c[p].name) = 0 /\ Put(p, iunlock(dirlink(x, d, c[p].name, i), d), d, "link_put", e)
    <2>1. c[p].name # "." /\ x.ents[d][c[p].name] = 0
      BY <1>12, Numbers DEF dirlookup
    <2>2. PICK n \in DirNames : n = c[p].name
      BY <1>3, <2>1, ElemsIs
    <2>3. DotDotFree => n \in Names
      BY <1>3, <2>1, <2>2, ElemsIs
    <2>4. PICK y : y = dirlink(x, d, n, i)
      OBVIOUS
    <2>5. Mid(p, y, Own(p), {d}, 0, 0) /\ y.file = x.file
      <3>1. PICK m : m = {d}
        OBVIOUS
      <3>2. Mid(p, x, Own(p), m, i, 0) /\ d \in m
        BY <1>8, <3>1
      <3>3. Mid(p, y, Own(p), m, 0, 0) /\ y.file = x.file
        BY <1>7, <2>1, <2>2, <2>3, <2>4, <3>2, MidEntry
      <3> QED BY <3>1, <3>3
    <2>6. Shape("link_put", e, cwd[p]) /\ "link_put" \in Pcs
      BY <1>3, <1>5, <1>9, Numbers DEF Shape, HasIp, HasDp, Pcs
    <2>7. LockedAt("link_put", e) = {} /\ 0 = ExtraAt("link_put", e) /\ NewAt("link_put", e) = 0
      BY DEF LockedAt, ExtraAt, NewAt
    <2>8. Put(p, iunlock(y, d), d, "link_put", e) /\ y.file = fs.file
      BY <1>3, <1>12, <2>2, <2>4, <2>5
    <2> QED BY <1>1, <1>7, <1>9, <1>10, <2>5, <2>6, <2>7, <2>8, LeaveParent
  <1> QED BY <1>2, <1>4, <1>5, <1>6, <1>11, <1>12 DEF link_parent

\* iunlock() of the only inode a process has locked.
LEMMA MidUnlockOnly ==
  ASSUME NEW p \in Procs, NEW x, NEW r, NEW k, NEW v, NEW i \in Inodes, Mid(p, x, r, {i}, k, v),
         NEW y, y = iunlock(x, i)
  PROVE  Mid(p, y, r, {}, k, v) /\ y.file = x.file
  <1>1. PICK m : m = {i}
    OBVIOUS
  <1>2. Mid(p, x, r, m, k, v) /\ i \in m
    BY <1>1
  <1>3. Mid(p, y, r, m \ {i}, k, v) /\ y.file = x.file
    BY <1>2, MidUnlock
  <1>4. m \ {i} = {}
    BY <1>1
  <1> QED BY <1>3, <1>4

\* The reference in the middle of a step becomes that of the inode just put.
LEMMA ApartMove ==
  ASSUME NEW s \in [Kinds -> Refs], Apart(s), NEW e \in Kinds, NEW f \in Kinds, e # f,
         e # "freeing", f # "freeing"
  PROVE  Apart(Upd(Upd(s, e, 0), f, s[e]))
  <1>1. PICK t : t = Upd(Upd(s, e, 0), f, s[e])
    OBVIOUS
  <1>2. "freeing" \in Kinds /\ s[e] \in Refs /\ 0 \in Refs
    BY Numbers DEF Kinds
  <1>3. /\ t["freeing"] = s["freeing"] /\ t[e] = 0 /\ t[f] = s[e]
        /\ \A a \in Kinds : a # e /\ a # f => t[a] = s[a]
    BY <1>1, <1>2 DEF Upd
  <1>4. Apart(t)
    BY <1>3 DEF Apart
  <1> QED BY <1>1, <1>4

\* chdir() keeps the invariant.
LEMMA ChdirStep ==
  ASSUME IInv, NEW p \in Procs, chdir(p)
  PROVE  IInv'
  <1>1. /\ pc[p] = "found" /\ c[p].freeing = 0 /\ Free(c[p].ip)
    BY DEF chdir, Called, At
  <1>2. Mid(p, fs, Own(p), {}, 0, 0)
    BY <1>1, MidStart DEF LockedAt, ExtraAt, NewAt
  <1>3. c[p].dp = 0 /\ c[p].old = 0 /\ c[p].ip # 0 /\ c[p].ip \in Refs /\ c[p] \in CallRec /\ cwd[p] # 0 /\ cwd[p] \in Refs
    BY <1>1, Here DEF Shape, HasIp, HasDp
  <1>4. PICK i \in Inodes : i = c[p].ip
    BY <1>3, Numbers
  <1>w. PICK w \in Inodes : w = cwd[p]
    BY <1>3, Numbers
  <1>5. PICK x : x = ilock(fs, p, i)
    OBVIOUS
  <1>6. /\ Own(p) \in [Kinds -> Refs] /\ Own(p)["ip"] = i /\ Own(p)["dp"] = 0 /\ Own(p)["old"] = 0
        /\ Own(p)["freeing"] = 0 /\ Own(p)["cwd"] = w /\ Own(p)["tmp"] = 0 /\ fs.lk[i] = Nobody
    BY <1>1, <1>3, <1>4, <1>w, OwnIs, Here DEF Free
  <1>7. Mid(p, x, Own(p), {} \cup {i}, 0, 0) /\ x.file = fs.file
    BY <1>2, <1>5, <1>6, MidLock
  <1>8. {} \cup {i} = {i}
    OBVIOUS
  <1>9. CASE Quit(p, x, i)
    <2>1. Matches(Upd(Own(p), "ip", 0), Idle, cwd[p])
      BY <1>1, <1>3, OwnDrop
    <2> QED BY <1>6, <1>7, <1>8, <1>9, <2>1, QuitCall
  <1>10. CASE x.type[i] = "dir"
    <2>1. PICK y : y = iunlock(x, i)
      OBVIOUS
    <2>2. PICK m : m = {i}
      OBVIOUS
    <2>3. Mid(p, y, Own(p), m \ {i}, 0, 0) /\ y.file = x.file
      <3>1. Mid(p, x, Own(p), m, 0, 0) /\ i \in m
        BY <1>7, <1>8, <2>2
      <3> QED BY <2>1, <3>1, MidUnlock
    <2>4. m \ {i} = {}
      BY <2>2
    <2>5. Mid(p, y, Own(p), {}, 0, 0)
      BY <2>3, <2>4
    <2>6. PICK z : z = iput(y, p, w)
      OBVIOUS
    <2>7. PICK s : s = PutOwn(y, Own(p), "cwd")
      OBVIOUS
    <2>8. Mid(p, z, s, {}, 0, 0) /\ Apart(s) /\ z.file = y.file
      <3>1. "cwd" \in {"ip", "dp", "old", "cwd"} /\ w \notin {}
        OBVIOUS
      <3> QED BY <1>6, <2>5, <2>6, <2>7, <3>1, MidPut
    <2>9. PICK j \in Refs : j = ToFree(y, w)
      BY Numbers DEF ToFree
    <2>10. /\ s \in [Kinds -> Refs] /\ s["ip"] = i /\ s["dp"] = 0 /\ s["old"] = 0 /\ s["freeing"] = j
           /\ s["cwd"] = 0 /\ s["tmp"] = 0
      BY <1>6, <2>7, <2>8, <2>9, MidTypes DEF PutOwn, Upd, Kinds
    <2>11. PICK r : r = Upd(Upd(s, "ip", 0), "cwd", i)
      OBVIOUS
    <2>12. Mid(p, z, r, {}, 0, 0)
      <3>1. "ip" \in {"ip", "tmp"} /\ "cwd" \in {"dp", "old", "ip", "cwd"} /\ i # 0 /\ i \notin {}
        BY <1>3, <1>4
      <3> QED BY <2>8, <2>10, <2>11, <3>1, MidMove
    <2>13. Apart(r)
      <3>1. "ip" \in Kinds /\ "cwd" \in Kinds
        BY DEF Kinds
      <3> QED BY <2>8, <2>10, <2>11, <3>1, ApartMove
    <2>14. r["ip"] = 0 /\ r["dp"] = 0 /\ r["old"] = 0 /\ r["freeing"] = j /\ r["cwd"] = i /\ r["tmp"] = 0
      BY <2>10, <2>11 DEF Upd, Kinds
    <2>15. /\ Put(p, y, w, "user", Idle) /\ cwd' = [cwd EXCEPT ![p] = i] /\ ofile' = ofile
      BY <1>4, <1>5, <1>w, <1>10, <2>1 DEF chdir
    <2>16. fs' = z /\ Goto(p, "user") /\ c' = [c EXCEPT ![p] = [Idle EXCEPT !.freeing = j]]
      BY <2>6, <2>9, <2>15 DEF Put
    <2>17. /\ "user" \in Pcs /\ "user" \notin {"new", "unlink2"} /\ Idle \in CallRec /\ Idle.freeing = 0
           /\ Mid(p, z, r, LockedAt("user", Idle), ExtraAt("user", Idle), NewAt("user", Idle))
           /\ Shape("user", Idle, i) /\ r["ip"] = Idle.ip /\ r["dp"] = Idle.dp /\ r["old"] = Idle.old /\ i \in Refs
      BY <2>12, <2>14, IdleIs, Numbers
    <2>18. IRest'
      BY <2>13, <2>14, <2>15, <2>16, <2>17, PutEnd
    <2>19. FilesOK'
      <3>1. \A q \in Procs : cwd'[q] = 0 => cwd[q] = 0
        BY <1>3, <1>4, <2>15 DEF IInv, TypeOK
      <3>2. fs'.file = fs.file
        BY <1>7, <2>3, <2>8, <2>16
      <3> QED BY <2>15, <3>1, <3>2, FilesSame
    <2> QED BY <2>18, <2>19 DEF IInv, IRest
  <1> QED BY <1>4, <1>5, <1>9, <1>10 DEF chdir

\* namex() returns 0.
LEMMA NamexFail ==
  ASSUME IInv, NEW p \in Procs, pc[p] = "namex", c[p].freeing = 0, NEW i \in Inodes, i = c[p].ip, NEW x,
         Mid(p, x, Own(p), {}, c[p].old, 0), x.file = fs.file, Put(p, x, i, Failed(p), NoPath(p)),
         UNCHANGED <<cwd, ofile>>
  PROVE  IInv'
  <1>1. c[p] \in CallRec /\ c[p].dp = 0 /\ cwd[p] # 0
    BY Here DEF Shape, HasIp, HasDp
  <1>2. /\ Own(p) \in [Kinds -> Refs] /\ Own(p)["ip"] = i /\ Own(p)["dp"] = 0 /\ Own(p)["old"] = c[p].old
        /\ Own(p)["freeing"] = 0 /\ Own(p)["cwd"] = cwd[p] /\ Own(p)["tmp"] = 0
    BY <1>1, OwnIs, Here
  <1>3. PICK l : l = Failed(p)
    OBVIOUS
  <1>4. PICK d : d = NoPath(p)
    OBVIOUS
  <1>5. /\ l \in Pcs /\ l \notin {"new", "unlink2"} /\ d \in CallRec /\ d.freeing = 0 /\ d.ip = 0 /\ d.dp = 0
        /\ d.old = c[p].old /\ Shape(l, d, cwd[p]) /\ {} = LockedAt(l, d) /\ c[p].old = ExtraAt(l, d)
        /\ 0 = NewAt(l, d)
    <2>1. CASE c[p].old # 0
      <3>1. l = "link_bad" /\ d = [c[p] EXCEPT !.ip = 0, !.dp = 0]
        BY <1>3, <1>4, <2>1 DEF Failed, NoPath
      <3>2. d \in CallRec /\ d.freeing = 0 /\ d.ip = 0 /\ d.dp = 0 /\ d.old = c[p].old
        BY <1>1, <3>1, Numbers DEF CallRec
      <3> QED BY <1>1, <2>1, <3>1, <3>2 DEF Shape, HasIp, HasDp, Pcs, LockedAt, ExtraAt, NewAt
    <2>2. CASE c[p].old = 0
      <3>1. l = "user" /\ d = Idle
        BY <1>3, <1>4, <2>2 DEF Failed, NoPath
      <3> QED BY <2>2, <3>1, IdleIs
    <2> QED BY <2>1, <2>2
  <1>6. Matches(Upd(Own(p), "ip", 0), d, cwd[p])
    BY <1>2, <1>5 DEF Matches, Upd, Kinds
  <1>7. Put(p, x, i, l, d) /\ "ip" \in {"ip", "dp", "old", "cwd"} /\ i \notin {}
    BY <1>3, <1>4
  <1> QED BY <1>2, <1>5, <1>6, <1>7, PutCall

\* The next directory of a path is found, and the one before is given back and put.
NextOwn(p, z, j) == Upd(Upd(PutOwn(z, Upd(Own(p), "tmp", j), "ip"), "tmp", 0), "ip", j)
Stepped(p, x, u, t, j, k, g) ==
  /\ Mid(p, u, t, {}, k, 0) /\ Apart(t) /\ u.file = x.file
  /\ t["ip"] = j /\ t["dp"] = 0 /\ t["old"] = k /\ t["freeing"] = g /\ t["cwd"] = cwd[p] /\ t["tmp"] = 0
\* namex() takes a reference to the next inode before it gives up the one it is at.
LEMMA NamexGet ==
  ASSUME IInv, NEW p \in Procs, c[p].freeing = 0, c[p].dp = 0, NEW i \in Inodes, i = c[p].ip, NEW x,
         NEW k \in Refs, k = c[p].old, Mid(p, x, Own(p), {i}, k, 0),
         NEW n \in Elems, NEW j \in Inodes, j = dirlookup(x, i, n),
         NEW z, z = iunlock(iget(x, j), i), NEW u, u = iput(z, p, i), NEW t, t = NextOwn(p, z, j),
         NEW g, g = ToFree(z, i)
  PROVE  Stepped(p, x, u, t, j, k, g)
  <1>2. /\ Own(p) \in [Kinds -> Refs] /\ Own(p)["ip"] = i /\ Own(p)["dp"] = 0 /\ Own(p)["old"] = k
        /\ Own(p)["freeing"] = 0 /\ Own(p)["cwd"] = cwd[p] /\ Own(p)["tmp"] = 0
    BY OwnIs, Here
  <1>5. DotDotFree => Known(p, x, 0, j)
    <2>1. "ip" \in Kinds
      BY DEF Kinds
    <2> QED BY <1>2, <2>1, KnownLookup
  <1>6. PICK y : y = iget(x, j)
    OBVIOUS
  <1>7. PICK r : r = Upd(Own(p), "tmp", j)
    OBVIOUS
  <1>9. Mid(p, y, r, {i}, k, 0) /\ y.file = x.file
    <2>1. "tmp" \in {"ip", "tmp"}
      OBVIOUS
    <2> QED BY <1>2, <1>5, <1>6, <1>7, <2>1, MidGet DEF Known
  <1>10. /\ r \in [Kinds -> Refs] /\ r["ip"] = i /\ r["dp"] = 0 /\ r["old"] = k /\ r["freeing"] = 0
         /\ r["cwd"] = cwd[p] /\ r["tmp"] = j
    BY <1>2, <1>7, <1>9, MidTypes DEF Upd, Kinds
  <1>14. Mid(p, z, r, {}, k, 0) /\ z.file = y.file
    BY <1>6, <1>9, MidUnlockOnly
  <1>16. PICK s : s = PutOwn(z, r, "ip")
    OBVIOUS
  <1>17. Mid(p, u, s, {}, k, 0) /\ Apart(s) /\ u.file = z.file
    <2>1. "ip" \in {"ip", "dp", "old", "cwd"} /\ i \notin {}
      OBVIOUS
    <2>2. Upd(r, "ip", 0)["old"] = k
      BY <1>10 DEF Upd, Kinds
    <2> QED BY <1>10, <1>14, <1>16, <2>1, <2>2, MidPut
  <1>18. g \in Refs
    BY Numbers DEF ToFree
  <1>19. /\ s \in [Kinds -> Refs] /\ s["ip"] = 0 /\ s["dp"] = 0 /\ s["old"] = k /\ s["freeing"] = g
         /\ s["cwd"] = cwd[p] /\ s["tmp"] = j
    BY <1>10, <1>16, <1>17, <1>18, MidTypes DEF PutOwn, Upd, Kinds
  <1>20. t = Upd(Upd(s, "tmp", 0), "ip", j)
    BY <1>7, <1>16 DEF NextOwn
  <1>21. Mid(p, u, t, {}, k, 0)
    <2>1. "tmp" \in {"ip", "tmp"} /\ "ip" \in {"dp", "old", "ip", "cwd"} /\ j # 0 /\ "tmp" # "ip"
      BY Numbers
    <2> QED BY <1>17, <1>19, <1>20, <2>1, MidMove
  <1>22. Apart(t)
    <2>1. "ip" \in Kinds /\ "tmp" \in Kinds
      BY DEF Kinds
    <2> QED BY <1>17, <1>19, <1>20, <2>1, ApartMove
  <1>23. t["ip"] = j /\ t["dp"] = 0 /\ t["old"] = k /\ t["freeing"] = g /\ t["cwd"] = cwd[p] /\ t["tmp"] = 0
    BY <1>19, <1>20 DEF Upd, Kinds
  <1> QED BY <1>9, <1>14, <1>17, <1>21, <1>22, <1>23 DEF Stepped

\* One path element is looked up.
LEMMA NamexNext ==
  ASSUME IInv, NEW p \in Procs, pc[p] = "namex", c[p].freeing = 0, NEW i \in Inodes, i = c[p].ip, NEW x,
         Mid(p, x, Own(p), {i}, c[p].old, 0), x.file = fs.file, c[p].rest # <<>>,
         NEW j \in Inodes, j = dirlookup(x, i, Head(c[p].rest)),
         Put(p, iunlock(iget(x, j), i), i, "namex", [c[p] EXCEPT !.ip = j, !.rest = Tail(@)]),
         UNCHANGED <<cwd, ofile>>
  PROVE  IInv'
  <1>1. /\ c[p] \in CallRec /\ c[p].dp = 0 /\ cwd[p] # 0 /\ c[p].old \in Refs /\ c[p].rest \in Seq(Elems)
        /\ (c[p].old # 0 <=> c[p].call = "link" /\ c[p].parent) /\ cwd[p] \in Refs
    BY Here, CallTypes DEF Shape, HasIp, HasDp
  <1>3. Head(c[p].rest) \in Elems /\ Tail(c[p].rest) \in Seq(Elems)
    BY <1>1
  <1>4. PICK k \in Refs : k = c[p].old
    BY <1>1
  <1>5. PICK n \in Elems : n = Head(c[p].rest)
    BY <1>3
  <1>6. PICK z : z = iunlock(iget(x, j), i)
    OBVIOUS
  <1>7. PICK u : u = iput(z, p, i)
    OBVIOUS
  <1>8. PICK t : t = NextOwn(p, z, j)
    OBVIOUS
  <1>9. PICK g : g = ToFree(z, i)
    OBVIOUS
  <1>10. Mid(p, x, Own(p), {i}, k, 0) /\ j = dirlookup(x, i, n)
    BY <1>4, <1>5
  <1>11. /\ Mid(p, u, t, {}, k, 0) /\ Apart(t) /\ u.file = x.file
         /\ t["ip"] = j /\ t["dp"] = 0 /\ t["old"] = k /\ t["freeing"] = g
         /\ t["cwd"] = cwd[p] /\ t["tmp"] = 0
    <2>1. Stepped(p, x, u, t, j, k, g)
      BY <1>1, <1>4, <1>6, <1>7, <1>8, <1>9, <1>10, NamexGet
    <2> QED BY <2>1 DEF Stepped
  <1>24. PICK d : d = [c[p] EXCEPT !.ip = j, !.rest = Tail(@)]
    OBVIOUS
  <1>25. /\ d \in CallRec /\ d.ip = j /\ d.dp = 0 /\ d.old = k /\ d.freeing = 0
         /\ d.call = c[p].call /\ d.parent = c[p].parent
    <2>1. j \in Refs
      BY Numbers
    <2>2. d = [c[p] EXCEPT !.ip = j, !.rest = Tail(c[p].rest)]
      BY <1>1, <1>24 DEF CallRec
    <2> QED BY <1>1, <1>3, <1>4, <2>1, <2>2 DEF CallRec
  <1>26. Shape("namex", d, cwd[p]) /\ "namex" \in Pcs
    BY <1>1, <1>4, <1>25, Numbers DEF Shape, HasIp, HasDp, Pcs
  <1>27. LockedAt("namex", d) = {} /\ ExtraAt("namex", d) = k /\ NewAt("namex", d) = 0
    BY <1>25 DEF LockedAt, ExtraAt, NewAt
  <1>28. fs' = u /\ Goto(p, "namex") /\ c' = [c EXCEPT ![p] = [d EXCEPT !.freeing = g]]
    BY <1>6, <1>7, <1>9, <1>24 DEF Put
  <1>29. PICK w \in Refs : w = cwd[p] /\ cwd' = [cwd EXCEPT ![p] = w]
    BY SameCwd
  <1>30. /\ Mid(p, u, t, LockedAt("namex", d), ExtraAt("namex", d), NewAt("namex", d)) /\ Shape("namex", d, w)
         /\ t["ip"] = d.ip /\ t["dp"] = d.dp /\ t["old"] = d.old /\ t["cwd"] = w /\ t["freeing"] = g
         /\ "namex" \notin {"new", "unlink2"}
    BY <1>11, <1>25, <1>26, <1>27, <1>29
  <1>31. IRest'
    BY <1>11, <1>25, <1>26, <1>28, <1>29, <1>30, PutEnd
  <1>32. fs'.file = fs.file
    BY <1>11, <1>28
  <1>33. FilesOK'
    BY <1>32, FilesSame
  <1> QED BY <1>31, <1>33 DEF IInv, IRest

\* namex() keeps the invariant.
LEMMA NamexStep ==
  ASSUME IInv, NEW p \in Procs, namex(p)
  PROVE  IInv'
  <1>1. pc[p] = "namex" /\ c[p].freeing = 0 /\ UNCHANGED <<cwd, ofile>>
    BY DEF namex, At
  <1>2. /\ c[p] \in CallRec /\ c[p].dp = 0 /\ cwd[p] # 0 /\ c[p].old \in Refs /\ c[p].rest \in Seq(Elems)
        /\ (c[p].old # 0 <=> c[p].call = "link" /\ c[p].parent) /\ c[p].ip \in Refs /\ c[p].ip # 0
    BY <1>1, Here, CallTypes DEF Shape, HasIp, HasDp
  <1>3. PICK i \in Inodes : i = c[p].ip
    BY <1>2, Numbers
  <1>4. Mid(p, fs, Own(p), {}, c[p].old, 0)
    BY <1>1, MidStart DEF LockedAt, ExtraAt, NewAt
  <1>5. /\ Own(p) \in [Kinds -> Refs] /\ Own(p)["ip"] = i /\ Own(p)["dp"] = 0 /\ Own(p)["old"] = c[p].old
        /\ Own(p)["freeing"] = 0 /\ Own(p)["cwd"] = cwd[p] /\ Own(p)["tmp"] = 0
    BY <1>1, <1>2, <1>3, OwnIs, Here
  <1>6. CASE c[p].rest = <<>> /\ c[p].parent
    <2>1. Put(p, fs, i, Failed(p), NoPath(p))
      BY <1>3, <1>6 DEF namex
    <2> QED BY <1>1, <1>3, <1>4, <2>1, NamexFail
  <1>7. CASE c[p].rest = <<>> /\ ~ c[p].parent
    <2>1. Go(p, fs, "found", c[p])
      BY <1>7 DEF namex
    <2>2. c[p].old = 0
      BY <1>2, <1>7
    <2>3. Shape("found", c[p], cwd[p]) /\ "found" \in Pcs
      BY <1>1, <1>2, <2>2 DEF Shape, HasIp, HasDp, Pcs
    <2>4. {} = LockedAt("found", c[p]) /\ 0 = ExtraAt("found", c[p]) /\ 0 = NewAt("found", c[p])
      BY DEF LockedAt, ExtraAt, NewAt
    <2>5. SawAt(p, fs, "found", c[p]) /\ Mid(p, fs, Own(p), {}, 0, 0)
      BY <1>4, <2>2, SawNone
    <2> QED BY <1>1, <1>2, <2>1, <2>3, <2>4, <2>5, OwnMatches, GoCall
  <1>8. CASE c[p].rest # <<>>
    <2>1. PICK x : x = ilock(fs, p, i)
      OBVIOUS
    <2>2. fs.lk[i] = Nobody
      BY <1>3, <1>8 DEF namex, Free
    <2>3. Mid(p, x, Own(p), {} \cup {i}, c[p].old, 0) /\ x.file = fs.file
      BY <1>4, <1>5, <2>1, <2>2, MidLock
    <2>4. PICK m : m = {i}
      OBVIOUS
    <2>5. Mid(p, x, Own(p), m, c[p].old, 0) /\ Mid(p, x, Own(p), {i}, c[p].old, 0) /\ i \in m
      <3>1. {} \cup {i} = m
        BY <2>4
      <3> QED BY <2>3, <2>4, <3>1
    <2>6. PICK y : y = iunlock(x, i)
      OBVIOUS
    <2>7. Mid(p, y, Own(p), m \ {i}, c[p].old, 0) /\ y.file = x.file
      BY <2>5, <2>6, MidUnlock
    <2>8. Mid(p, y, Own(p), {}, c[p].old, 0) /\ y.file = fs.file
      <3>1. m \ {i} = {}
        BY <2>4
      <3> QED BY <2>3, <2>7, <3>1
    <2>9. Head(c[p].rest) \in Elems
      BY <1>2, <1>8
    <2>10. CASE Put(p, y, i, Failed(p), NoPath(p))
      BY <1>1, <1>3, <2>8, <2>10, NamexFail
    <2>11. CASE x.type[i] = "dir" /\ c[p].parent /\ Len(c[p].rest) = 1
      <3>1. PICK d : d = [c[p] EXCEPT !.dp = i, !.ip = 0, !.name = Head(c[p].rest)]
        OBVIOUS
      <3>2. Go(p, y, "parent", d)
        BY <1>3, <1>8, <2>1, <2>6, <2>11, <3>1 DEF namex
      <3>3. ASSUME DotDotFree PROVE y.dtype[i] = "dir"
        <4>1. x.dtype[i] = "dir"
          BY <2>5, <2>11, <3>3, MidCopy
        <4>2. x \in FsRec
          BY <2>5, MidTypes
        <4> QED BY <2>6, <4>1, <4>2, IunlockIs DEF SameDisk
      <3>4. PICK r : r = Upd(Upd(Own(p), "ip", 0), "dp", i)
        OBVIOUS
      <3>5. Mid(p, y, r, {}, c[p].old, 0)
        <4>1. "ip" \in {"ip", "tmp"} /\ "dp" \in {"dp", "old", "ip", "cwd"} /\ i # 0 /\ i \notin {}
          BY Numbers
        <4> QED BY <1>5, <2>8, <3>3, <3>4, <4>1, MidMove
      <3>6. /\ d \in CallRec /\ d.ip = 0 /\ d.dp = i /\ d.old = c[p].old /\ d.freeing = 0
            /\ d.call = c[p].call /\ d.name \in Elems
        <4>1. i \in Refs /\ 0 \in Refs
          BY Numbers
        <4> QED BY <1>1, <1>2, <2>9, <3>1, <4>1 DEF CallRec
      <3>7. Matches(r, d, cwd[p])
        <4>1. 0 \in Refs /\ i \in Refs
          BY Numbers
        <4> QED BY <1>5, <3>4, <3>6, <4>1 DEF Matches, Upd, Kinds
      <3>8. Shape("parent", d, cwd[p]) /\ "parent" \in Pcs
        BY <1>2, <2>11, <3>6, Numbers DEF Shape, HasIp, HasDp, Pcs
      <3>9. {} = LockedAt("parent", d) /\ c[p].old = ExtraAt("parent", d) /\ 0 = NewAt("parent", d)
        BY <3>6 DEF LockedAt, ExtraAt, NewAt
      <3>10. SawAt(p, y, "parent", d)
        BY SawNone
      <3> QED BY <1>1, <2>8, <3>2, <3>5, <3>6, <3>7, <3>8, <3>9, <3>10, GoCall
    <2>12. CASE x.type[i] = "dir" /\ ~ (c[p].parent /\ Len(c[p].rest) = 1) /\ dirlookup(x, i, Head(c[p].rest)) # 0
      <3>1. x \in FsRec
        BY <2>5, MidTypes
      <3>2. PICK j \in Inodes : j = dirlookup(x, i, Head(c[p].rest))
        BY <2>9, <2>12, <3>1, LookupType, Numbers
      <3>3. Put(p, iunlock(iget(x, j), i), i, "namex", [c[p] EXCEPT !.ip = j, !.rest = Tail(@)])
        BY <1>3, <1>8, <2>1, <2>12, <3>2 DEF namex
      <3> QED BY <1>1, <1>3, <1>8, <2>3, <2>5, <3>2, <3>3, NamexNext
    <2>13. \/ x.type[i] = "dir" /\ c[p].parent /\ Len(c[p].rest) = 1
           \/ x.type[i] = "dir" /\ ~ (c[p].parent /\ Len(c[p].rest) = 1) /\ dirlookup(x, i, Head(c[p].rest)) # 0
           \/ Put(p, y, i, Failed(p), NoPath(p))
      BY <1>3, <1>8, <2>1, <2>6 DEF namex
    <2> QED BY <2>10, <2>11, <2>12, <2>13
  <1> QED BY <1>6, <1>7, <1>8

-----------------------------------------------------------------------------
(* The end of an iput().                                                   *)

\* iput_end() keeps the invariant.
LEMMA IputEndStep ==
  ASSUME IInv, NEW p \in Procs, iput_end(p)
  PROVE  IInv'
  <1>1. c[p].freeing # 0 /\ UNCHANGED <<pc, cwd, ofile>>
    BY DEF iput_end
  <1>2. /\ c[p] \in CallRec /\ pc[p] \in Pcs /\ cwd[p] \in Refs /\ c[p].freeing \in Refs
        /\ Shape(pc[p], c[p], cwd[p]) /\ fs \in FsRec /\ Own(p) \in [Kinds -> Refs]
    BY Here
  <1>3. PICK i \in Inodes : i = c[p].freeing
    BY <1>1, <1>2, Numbers
  <1>4. PICK h : h = Held(fs, c, cwd)
    OBVIOUS
  <1>5. Core(fs, h, Locked, Extra, New, Seen)
    BY <1>4 DEF IInv
  <1>6. h[<<p, "freeing">>] = i
    BY <1>3, <1>4, PlaceOf DEF Held, RefAt
  <1>7. pc \in [Procs -> Pcs] /\ c \in [Procs -> CallRec] /\ cwd \in [Procs -> Refs]
    BY DEF IInv, TypeOK
  <1>8. CASE fs.lk[i] = p
    <2>1. fs' = Freed(fs, i) /\ c' = c
      BY <1>3, <1>8 DEF iput_end
    <2>2. PICK y : y = Freed(fs, i)
      OBVIOUS
    <2>3. Core(y, h, Locked, Extra, New, Seen)
      BY <1>5, <1>6, <1>8, <2>2, CoreFreed
    <2>4. y.file = fs.file
      BY <1>2, <2>2 DEF Freed, iunlock, FsRec
    <2>5. Held(y, c, cwd) = h
      BY <1>4, <2>4 DEF Held, RefAt
    <2>6. Core(fs', Held(fs', c', cwd'), Locked', Extra', New', Seen')
      BY <1>1, <2>1, <2>2, <2>3, <2>5 DEF Locked, Extra, New, Seen
    <2>7. FilesOK'
      BY <1>1, <2>1, <2>2, <2>4, FilesSame
    <2>8. TypeOK' /\ \A q \in Procs : Shape(pc'[q], c'[q], cwd'[q])
      BY <1>1, <2>1 DEF IInv, TypeOK
    <2> QED BY <2>6, <2>7, <2>8 DEF IInv
  <1>9. CASE fs.lk[i] # p
    <2>1. fs' = Drop(fs, i) /\ c' = [c EXCEPT ![p].freeing = 0]
      BY <1>3, <1>9 DEF iput_end
    <2>2. PICK y : y = Drop(fs, i)
      OBVIOUS
    <2>3. Core(y, Upd(h, <<p, "freeing">>, 0), Locked, Extra, New, Seen)
      BY <1>5, <1>6, <1>9, <2>2, CoreDrop
    <2>4. y.file = fs.file
      <3>1. CASE fs.ref[i] > 1
        BY <1>2, <2>2, <3>1 DEF Drop, FsRec
      <3>2. CASE ~ (fs.ref[i] > 1)
        BY <1>2, <2>2, <3>2 DEF Drop, FsRec
      <3> QED BY <3>1, <3>2
    <2>5. PICK d : d = [c[p] EXCEPT !.freeing = 0]
      OBVIOUS
    <2>6. /\ d \in CallRec /\ d.ip = c[p].ip /\ d.dp = c[p].dp /\ d.old = c[p].old /\ d.freeing = 0
          /\ d.call = c[p].call /\ d.parent = c[p].parent /\ d.name = c[p].name
      BY <1>2, <2>5, Numbers DEF CallRec
    <2>7. c' = [c EXCEPT ![p] = d]
      BY <1>7, <2>1, <2>5
    <2>8. c' \in [Procs -> CallRec] /\ c'[p] = d /\ \A q \in Procs : q # p => c'[q] = c[q]
      BY <1>7, <2>6, <2>7
    <2>9. TypeOK' /\ \A q \in Procs : Shape(pc'[q], c'[q], cwd'[q])
      <3>1. Shape(pc[p], d, cwd[p])
        BY <1>2, <2>6 DEF Shape
      <3>2. ASSUME NEW q \in Procs PROVE Shape(pc'[q], c'[q], cwd'[q])
        BY <1>1, <2>8, <3>1 DEF IInv
      <3> QED BY <1>1, <1>7, <2>8, <3>2 DEF TypeOK
    <2>10. Locked' = Locked /\ Extra' = Extra /\ New' = New /\ Seen' = Seen
      <3>1. /\ LockedAt(pc[p], d) = LockedAt(pc[p], c[p]) /\ ExtraAt(pc[p], d) = ExtraAt(pc[p], c[p])
            /\ NewAt(pc[p], d) = NewAt(pc[p], c[p]) /\ SeenAt(p, pc[p], d) = SeenAt(p, pc[p], c[p])
        BY <2>6 DEF LockedAt, ExtraAt, NewAt, SeenAt
      <3>2. ASSUME NEW q \in Procs
            PROVE  /\ LockedAt(pc'[q], c'[q]) = LockedAt(pc[q], c[q]) /\ ExtraAt(pc'[q], c'[q]) = ExtraAt(pc[q], c[q])
                   /\ NewAt(pc'[q], c'[q]) = NewAt(pc[q], c[q]) /\ SeenAt(q, pc'[q], c'[q]) = SeenAt(q, pc[q], c[q])
        BY <1>1, <2>8, <3>1
      <3>3. Locked' = Locked
        BY <3>2 DEF Locked
      <3>4. Extra' = Extra
        BY <3>2 DEF Extra
      <3>5. New' = New
        BY <3>2 DEF New
      <3>6. Seen' = Seen
        BY <3>2 DEF Seen
      <3> QED BY <3>3, <3>4, <3>5, <3>6
    <2>11. Held(y, c', cwd) = Upd(h, <<p, "freeing">>, 0)
      <3>1. ASSUME NEW t \in Places
            PROVE  RefAt(t, y, c', cwd) = IF t = <<p, "freeing">> THEN 0 ELSE RefAt(t, fs, c, cwd)
        <4>1. CASE t[2] = "file"
          BY <2>4, <4>1 DEF RefAt
        <4>2. CASE t[2] # "file"
          <5>1. PICK q \in Procs, e \in Kinds : t = <<q, e>>
            BY <4>2 DEF Places
          <5>2. CASE q # p
            BY <2>8, <4>2, <5>1, <5>2 DEF RefAt
          <5>3. CASE q = p
            BY <2>6, <2>8, <4>2, <5>1, <5>3 DEF RefAt, Kinds
          <5> QED BY <5>2, <5>3
        <4> QED BY <4>1, <4>2
      <3>2. Upd(h, <<p, "freeing">>, 0) = [t \in Places |-> IF t = <<p, "freeing">> THEN 0 ELSE h[t]]
        BY <1>4 DEF Upd, Held
      <3>3. \A t \in Places : h[t] = RefAt(t, fs, c, cwd)
        BY <1>4 DEF Held
      <3> QED BY <3>1, <3>2, <3>3 DEF Held
    <2>12. Core(fs', Held(fs', c', cwd'), Locked', Extra', New', Seen')
      BY <1>1, <2>1, <2>2, <2>3, <2>10, <2>11
    <2>13. FilesOK'
      BY <1>1, <2>1, <2>2, <2>4, FilesSame
    <2> QED BY <2>9, <2>12, <2>13 DEF IInv
  <1> QED BY <1>8, <1>9

-----------------------------------------------------------------------------
(* Open files.                                                             *)

Open(O, f) == Cardinality({s \in Procs \X Fds : O[s[1]][s[2]] = f})
Descs == [Procs -> [Fds -> 0..NFILE]]

\* There are finitely many descriptors.
LEMMA DescFinite == IsFiniteSet(Procs \X Fds) /\ IsFiniteSet(Fds)
  <1>1. IsFiniteSet(Fds)
    BY Numbers, FS_Interval DEF Fds
  <1> QED BY <1>1, FsAssumption, FS_Product

\* A descriptor is changed.
DescSet(O, p, d, v) == [O EXCEPT ![p][d] = v]
\* The descriptors of a file when one descriptor changes.
LEMMA DescCount ==
  ASSUME NEW O \in Descs, NEW p \in Procs, NEW d \in Fds, NEW v \in 0..NFILE,
         NEW P, P = DescSet(O, p, d, v), NEW f
  PROVE  P \in Descs /\ Open(O, f) \in Nat /\ Open(P, f) = Open(O, f) - Hit(O[p][d], f) + Hit(v, f)
  <1>1. /\ P \in Descs /\ P[p][d] = v
        /\ \A q \in Procs, e \in Fds : q # p \/ e # d => P[q][e] = O[q][e]
    BY DEF Descs, DescSet
  <1>2. PICK S : S = Procs \X Fds
    OBVIOUS
  <1>3. PICK F \in [S -> 0..NFILE] : F = [s \in S |-> O[s[1]][s[2]]]
    BY <1>2, ZenonT(30) DEF Descs
  <1>4. <<p, d>> \in S /\ F[<<p, d>>] = O[p][d]
    BY <1>2, <1>3
  <1>5. \A s \in S : Upd(F, <<p, d>>, v)[s] = P[s[1]][s[2]]
    <2>1. ASSUME NEW s \in S PROVE Upd(F, <<p, d>>, v)[s] = P[s[1]][s[2]]
      <3>1. s[1] \in Procs /\ s[2] \in Fds /\ s = <<s[1], s[2]>>
        BY <1>2
      <3>2. CASE s = <<p, d>>
        BY <1>1, <1>3, <3>2 DEF Upd
      <3>3. CASE s # <<p, d>>
        BY <1>1, <1>3, <3>1, <3>3 DEF Upd
      <3> QED BY <3>2, <3>3
    <2> QED BY <2>1
  <1>6. Count(S, F, f) = Open(O, f)
    BY <1>2, <1>3 DEF Count, Open
  <1>7. Count(S, Upd(F, <<p, d>>, v), f) = Open(P, f)
    <2>1. {s \in S : Upd(F, <<p, d>>, v)[s] = f} = {s \in S : P[s[1]][s[2]] = f}
      BY <1>5
    <2> QED BY <1>2, <2>1 DEF Count, Open
  <1>8. IsFiniteSet(S)
    BY <1>2, DescFinite
  <1>9. Count(S, F, f) \in Nat /\ Count(S, Upd(F, <<p, d>>, v), f) = Count(S, F, f) - Hit(F[<<p, d>>], f) + Hit(v, f)
    <2>1. PICK s \in S : s = <<p, d>>
      BY <1>4
    <2>t. PICK T : T = 0..NFILE
      OBVIOUS
    <2>3. F \in [S -> T] /\ v \in T /\ s \in S /\ IsFiniteSet(S)
      BY <1>8, <2>t
    <2>2. Count(S, F, f) \in Nat /\ Count(S, Upd(F, s, v), f) = Count(S, F, f) - Hit(F[s], f) + Hit(v, f)
      BY <2>3, CountUpdate
    <2> QED BY <2>1, <2>2
  <1> QED BY <1>1, <1>4, <1>6, <1>7, <1>9

\* What the invariant says of files.
LEMMA FilesAre ==
  ASSUME IInv
  PROVE  /\ ofile \in Descs /\ fs \in FsRec /\ fs.file \in [Files -> FileRec]
         /\ \A f \in Files : /\ fs.file[f].ref \in Int /\ fs.file[f].ip \in Refs
                             /\ fs.file[f].ref = Open(ofile, f) /\ (fs.file[f].ref = 0 => fs.file[f].ip = 0)
         /\ \A p \in Procs : cwd[p] = 0 => \A d \in Fds : ofile[p][d] = 0
  <1>1. fs \in FsRec
    BY CoreTypes DEF IInv
  <1>2. fs.file \in [Files -> FileRec]
    BY <1>1, FsTypes
  <1> QED BY <1>1, <1>2 DEF IInv, FilesOK, Open, Descs, FileRec

\* The first of a set of free places is one of them.
LEMMA FirstFreeIs ==
  ASSUME NEW S \in SUBSET Nat, FirstFree(S) # 0
  PROVE  FirstFree(S) \in S
  BY MinIs DEF FirstFree

\* fdalloc() finds a free descriptor.
LEMMA FdallocIs ==
  ASSUME NEW p, fdalloc(p) # 0
  PROVE  fdalloc(p) \in Fds /\ ofile[p][fdalloc(p)] = 0
  <1>1. PICK S : S = {d \in Fds : ofile[p][d] = 0}
    OBVIOUS
  <1>2. S \in SUBSET Nat /\ fdalloc(p) = FirstFree(S)
    BY <1>1 DEF Fds, fdalloc
  <1>3. FirstFree(S) \in S
    BY <1>2, FirstFreeIs
  <1> QED BY <1>1, <1>2, <1>3

\* filealloc() finds a free file.
LEMMA FileallocIs ==
  ASSUME filealloc # 0
  PROVE  filealloc \in Files /\ fs.file[filealloc].ref = 0
  <1>1. PICK S : S = {f \in Files : fs.file[f].ref = 0}
    OBVIOUS
  <1>2. S \in SUBSET Nat /\ filealloc = FirstFree(S)
    BY <1>1 DEF Files, filealloc
  <1>3. FirstFree(S) \in S
    BY <1>2, FirstFreeIs
  <1> QED BY <1>1, <1>2, <1>3

\* The files agree with the descriptors after a step.
LEMMA FilesEnd ==
  ASSUME ofile' \in Descs,
         \A f \in Files : fs'.file[f].ref = Open(ofile', f) /\ (fs'.file[f].ref = 0 => fs'.file[f].ip = 0),
         \A p \in Procs : cwd'[p] = 0 => \A d \in Fds : ofile'[p][d] = 0
  PROVE  FilesOK'
  BY DEF FilesOK, Open, Descs

\* The file table is changed, but not the inodes it refers to.
FileChanged(x, y, F) ==
  /\ y \in FsRec /\ SameDisk(x, y) /\ SameCopy(x, y) /\ y.panic = x.panic /\ y.lk = x.lk
  /\ y.ref = x.ref /\ y.file = F
\* A change of the file table alone, ...
LEMMA FileChange ==
  ASSUME NEW x \in FsRec, NEW F \in [Files -> FileRec], NEW y, y = [x EXCEPT !.file = F]
  PROVE  FileChanged(x, y, F)
  BY DEF FsRec, SameDisk, SameCopy, FileChanged

\* ... which leaves the inodes of the files.
LEMMA MidFile ==
  ASSUME NEW p \in Procs, NEW x, NEW r, NEW m, NEW k, NEW v, Mid(p, x, r, m, k, v),
         NEW F \in [Files -> FileRec], \A f \in Files : F[f].ip = x.file[f].ip,
         NEW y, y = [x EXCEPT !.file = F]
  PROVE  Mid(p, y, r, m, k, v) /\ y.file = F
  <1>1. PICK h : h = HeldBy(p, x.file, r)
    OBVIOUS
  <1>2. /\ Core(x, h, Upd(Locked, p, m), Upd(Extra, p, k), Upd(New, p, v), Other(Seen, p)) /\ r \in [Kinds -> Refs]
        /\ x \in FsRec
    BY <1>1, MidTypes DEF Mid
  <1>3. /\ y \in FsRec /\ SameDisk(x, y) /\ SameCopy(x, y) /\ y.panic = x.panic /\ y.lk = x.lk
        /\ y.ref = x.ref /\ y.file = F
    <2>1. FileChanged(x, y, F)
      BY <1>2, FileChange
    <2> QED BY <2>1 DEF FileChanged
  <1>4. Core(y, h, Upd(Locked, p, m), Upd(Extra, p, k), Upd(New, p, v), Other(Seen, p))
    BY <1>2, <1>3, CoreFile
  <1>5. HeldBy(p, y.file, r) = h
    <2>1. \A t \in Places : t[2] = "file" => t[1] \in Files
      BY DEF Places, Kinds
    <2>2. \A t \in Places : HeldBy(p, y.file, r)[t] = h[t]
      BY <1>1, <1>3, <2>1 DEF HeldBy
    <2> QED BY <1>1, <2>2 DEF HeldBy
  <1> QED BY <1>2, <1>3, <1>4, <1>5 DEF Mid

\* A file is opened: it takes over the reference of the call.
LEMMA MidOpen ==
  ASSUME NEW p \in Procs, NEW x, NEW r, NEW m, NEW k, NEW v, Mid(p, x, r, m, k, v),
         NEW f \in Files, x.file[f].ip = 0, NEW i \in Inodes, r["ip"] = i,
         DotDotFree => i \notin m /\ v = 0 /\ k = 0,
         NEW F \in [Files -> FileRec], F[f].ip = i, \A g \in Files : g # f => F[g].ip = x.file[g].ip,
         NEW y, FileChanged(x, y, F)
  PROVE  Mid(p, y, Upd(r, "ip", 0), m, k, v)
  <1>1. PICK h : h = HeldBy(p, x.file, r)
    OBVIOUS
  <1>2. /\ Core(x, h, Upd(Locked, p, m), Upd(Extra, p, k), Upd(New, p, v), Other(Seen, p)) /\ r \in [Kinds -> Refs]
        /\ x \in FsRec
    BY <1>1, MidTypes DEF Mid
  <1>3. PICK t \in Places : t = <<p, "ip">>
    BY PlaceOf
  <1>4. PICK u \in Places : u = <<f, "file">>
    BY DEF Places
  <1>5. h[t] = i /\ h[u] = 0 /\ t # u /\ h[t] # 0
    <2>0. "ip" \in Kinds
      BY DEF Kinds
    <2>1. h[t] = i
      BY <1>1, <1>3, <2>0, HeldByAt
    <2>2. h[u] = 0
      BY <1>1, <1>4 DEF HeldBy
    <2> QED BY <2>1, <2>2, Numbers
  <1>8. /\ y \in FsRec /\ SameDisk(x, y) /\ SameCopy(x, y) /\ y.panic = x.panic /\ y.lk = x.lk
        /\ y.ref = x.ref /\ y.file = F
    BY DEF FileChanged
  <1>9. DotDotFree => /\ h[t] \notin Upd(Locked, p, m)[p] /\ Upd(New, p, v)[p] = 0 /\ Upd(Extra, p, k)[p] = 0
    BY <1>5, GhostAt
  <1>10. t \in {<<p, "ip">>, <<p, "tmp">>} /\ u[2] = "file" /\ u[2] \in {"dp", "old", "ip", "cwd", "file"}
    BY <1>3, <1>4
  <1>11. Core(x, Move(h, t, u), Upd(Locked, p, m), Upd(Extra, p, k), Upd(New, p, v), Other(Seen, p))
    BY <1>2, <1>5, <1>9, <1>10, CoreMove
  <1>12. Core(y, Move(h, t, u), Upd(Locked, p, m), Upd(Extra, p, k), Upd(New, p, v), Other(Seen, p))
    BY <1>8, <1>11, CoreFile
  <1>13. PICK s : s = Upd(r, "ip", 0)
    OBVIOUS
  <1>14. Upd(h, t, 0) = HeldBy(p, x.file, s) /\ s \in [Kinds -> Refs]
    <2>1. "ip" \in Kinds /\ 0 \in Refs
      BY Numbers DEF Kinds
    <2>2. Upd(HeldBy(p, x.file, r), <<p, "ip">>, 0) = HeldBy(p, x.file, Upd(r, "ip", 0)) /\ Upd(r, "ip", 0) \in [Kinds -> Refs]
      BY <1>2, <2>1, HeldByUpd
    <2> QED BY <1>1, <1>3, <1>13, <2>2
  <1>15. HeldBy(p, F, s) = Upd(HeldBy(p, x.file, s), u, i)
    <2>1. ASSUME NEW a \in Places
          PROVE  HeldBy(p, F, s)[a] = IF a = u THEN i ELSE HeldBy(p, x.file, s)[a]
      <3>1. CASE a[2] = "file"
        <4>1. PICK g \in Files : a = <<g, "file">>
          BY <3>1 DEF Places, Kinds
        <4>2. F[g].ip = IF g = f THEN i ELSE x.file[g].ip
          OBVIOUS
        <4>3. a = u <=> g = f
          BY <1>4, <4>1
        <4> QED BY <4>1, <4>2, <4>3 DEF HeldBy
      <3>2. CASE a[2] # "file"
        BY <1>4, <3>2 DEF HeldBy
      <3> QED BY <3>1, <3>2
    <2>2. Upd(HeldBy(p, x.file, s), u, i) = [a \in Places |-> IF a = u THEN i ELSE HeldBy(p, x.file, s)[a]]
      BY DEF Upd, HeldBy
    <2>3. HeldBy(p, F, s) = [a \in Places |-> HeldBy(p, F, s)[a]]
      BY DEF HeldBy
    <2> QED BY <2>1, <2>2, <2>3
  <1>16. Move(h, t, u) = HeldBy(p, y.file, s)
    BY <1>5, <1>8, <1>14, <1>15 DEF Move
  <1> QED BY <1>8, <1>12, <1>13, <1>14, <1>16 DEF Mid

\* A file is closed for the last time, and its reference put.
LEMMA MidClose ==
  ASSUME NEW p \in Procs, NEW x, NEW r, NEW m, NEW k, NEW v, Mid(p, x, r, m, k, v),
         NEW f \in Files, NEW i \in Inodes, x.file[f].ip = i, r["freeing"] = 0,
         DotDotFree => i \notin m /\ v = 0 /\ k = 0,
         NEW F \in [Files -> FileRec], F[f].ip = 0, \A g \in Files : g # f => F[g].ip = x.file[g].ip,
         NEW y, FileChanged(x, y, F), NEW z, z = iput(y, p, i), NEW s, s = Upd(r, "freeing", ToFree(y, i))
  PROVE  Mid(p, z, s, m, k, v) /\ Apart(s) /\ z.file = F
  <1>1. PICK h : h = HeldBy(p, x.file, r)
    OBVIOUS
  <1>2. /\ Core(x, h, Upd(Locked, p, m), Upd(Extra, p, k), Upd(New, p, v), Other(Seen, p)) /\ r \in [Kinds -> Refs]
        /\ x \in FsRec
    BY <1>1, MidTypes DEF Mid
  <1>3. PICK t \in Places : t = <<f, "file">>
    BY DEF Places
  <1>4. \A e \in Kinds : <<p, e>> \in Places /\ h[<<p, e>>] = r[e]
    BY <1>1, HeldByAt
  <1>5. h[t] = i /\ h[<<p, "freeing">>] = 0 /\ t[2] = "file" /\ t # <<p, "ip">> /\ t # <<p, "freeing">>
    <2>1. h[t] = i
      BY <1>1, <1>3 DEF HeldBy
    <2>2. h[<<p, "freeing">>] = 0
      BY <1>4 DEF Kinds
    <2>3. t # <<p, "ip">> /\ t # <<p, "freeing">> /\ t[2] = "file"
      BY <1>3
    <2> QED BY <2>1, <2>2, <2>3
  <1>8. /\ y \in FsRec /\ SameDisk(x, y) /\ SameCopy(x, y) /\ y.panic = x.panic /\ y.lk = x.lk
        /\ y.ref = x.ref /\ y.file = F
    BY DEF FileChanged
  <1>9. Core(y, h, Upd(Locked, p, m), Upd(Extra, p, k), Upd(New, p, v), Other(Seen, p))
    BY <1>2, <1>8, CoreFile
  <1>10. DotDotFree => i \notin Upd(Locked, p, m)[p] /\ Upd(Extra, p, k)[p] = 0 /\ Upd(New, p, v)[p] = 0
    BY GhostAt
  <1>11. Core(z, PutRef(y, h, t, p), Upd(Locked, p, m), Upd(Extra, p, k), Upd(New, p, v), Other(Seen, p))
    BY <1>5, <1>9, <1>10, CorePut
  <1>12. PICK j \in Refs : j = ToFree(y, i)
    BY Numbers DEF ToFree
  <1>13. s \in [Kinds -> Refs] /\ s["freeing"] = j /\ \A e \in Kinds : e # "freeing" => s[e] = r[e]
    BY <1>2, <1>12 DEF Upd, Kinds
  <1>14. HeldBy(p, F, r) = Upd(h, t, 0)
    <2>1. ASSUME NEW a \in Places
          PROVE  HeldBy(p, F, r)[a] = IF a = t THEN 0 ELSE HeldBy(p, x.file, r)[a]
      <3>1. CASE a[2] = "file"
        <4>1. PICK g \in Files : a = <<g, "file">>
          BY <3>1 DEF Places, Kinds
        <4>2. F[g].ip = IF g = f THEN 0 ELSE x.file[g].ip
          OBVIOUS
        <4>3. a = t <=> g = f
          BY <1>3, <4>1
        <4> QED BY <4>1, <4>2, <4>3 DEF HeldBy
      <3>2. CASE a[2] # "file"
        BY <1>3, <3>2 DEF HeldBy
      <3> QED BY <3>1, <3>2
    <2>2. Upd(h, t, 0) = [a \in Places |-> IF a = t THEN 0 ELSE HeldBy(p, x.file, r)[a]]
      BY <1>1 DEF Upd, HeldBy
    <2>3. HeldBy(p, F, r) = [a \in Places |-> HeldBy(p, F, r)[a]]
      BY DEF HeldBy
    <2> QED BY <2>1, <2>2, <2>3
  <1>15. "freeing" \in Kinds /\ 0 \in Refs
    BY Numbers DEF Kinds
  <1>16. Upd(HeldBy(p, F, r), <<p, "freeing">>, j) = HeldBy(p, F, s)
    BY <1>2, <1>12, <1>15, HeldByUpd
  <1>17. PutRef(y, h, t, p) = HeldBy(p, F, s)
    <2>1. CASE Last(y, i)
      <3>1. j = i
        BY <1>12, <2>1 DEF ToFree
      <3>2. PutRef(y, h, t, p) = Upd(Upd(h, t, 0), <<p, "freeing">>, i)
        BY <1>5, <2>1 DEF PutRef, Move
      <3> QED BY <1>14, <1>16, <3>1, <3>2
    <2>2. CASE ~ Last(y, i)
      <3>1. j = 0 /\ s = r
        <4>1. j = 0
          BY <1>12, <2>2 DEF ToFree
        <4> QED BY <1>2, <1>12, <4>1 DEF Upd, Kinds
      <3>2. PutRef(y, h, t, p) = Upd(h, t, 0)
        BY <1>5, <2>2 DEF PutRef
      <3> QED BY <1>14, <3>1, <3>2
    <2> QED BY <2>1, <2>2
  <1>18. Apart(s)
    <2>1. ASSUME NEW e \in Kinds, e # "freeing", s[e] = j, j # 0 PROVE FALSE
      <3>1. Last(y, i) /\ j = i
        BY <1>12, <2>1 DEF ToFree
      <3>2. RefCore(y, h) /\ y.ref[i] = 1
        BY <1>9, <3>1, CoreTypes DEF Last
      <3>3. PICK u \in Places : u = <<p, e>> /\ h[u] = i
        BY <1>4, <1>13, <2>1, <3>1
      <3>4. e # "file"
        BY DEF Kinds
      <3>5. u # t
        BY <1>3, <3>3, <3>4
      <3>6. \A w \in Places : h[w] = i => w = t
        <4>1. h[t] = i /\ RefCore(y, h) /\ y.ref[i] = 1
          BY <1>5, <3>2
        <4> QED BY <4>1, RefOne
      <3> QED BY <3>3, <3>5, <3>6
    <2> QED BY <1>13, <2>1 DEF Apart
  <1>19. z.file = F
    <2>1. CASE Last(y, i)
      BY <1>8, <2>1, IputIs
    <2>2. CASE ~ Last(y, i)
      BY <1>8, <2>2, DropIs DEF iput
    <2> QED BY <2>1, <2>2
  <1> QED BY <1>8, <1>11, <1>13, <1>17, <1>18, <1>19 DEF Mid

\* A process that is in no system call.
LEMMA AtUser ==
  ASSUME IInv, NEW p \in Procs, pc[p] \in {"user", "exit"}, c[p].freeing = 0
  PROVE  Mid(p, fs, Own(p), {}, 0, 0) /\ Matches(Own(p), Idle, cwd[p]) /\ Own(p) \in [Kinds -> Refs]
  <1>1. Mid(p, fs, Own(p), {}, 0, 0)
    BY MidStart DEF LockedAt, ExtraAt, NewAt
  <1>2. c[p].ip = 0 /\ c[p].dp = 0 /\ c[p].old = 0
    BY Here DEF Shape, HasIp, HasDp
  <1> QED BY <1>1, <1>2, OwnIs, IdleIs, Here DEF Matches

\* A descriptor changes from a to b.
DescMoved(g, a, b) == Open(ofile, g) \in Nat /\ Open(ofile', g) = Open(ofile, g) - Hit(a, g) + Hit(b, g)
LEMMA DescStep ==
  ASSUME IInv, NEW p \in Procs, NEW d \in Fds, NEW v \in 0..NFILE, ofile' = [ofile EXCEPT ![p][d] = v]
  PROVE  ofile' \in Descs /\ \A g : DescMoved(g, ofile[p][d], v)
  <1>1. PICK O \in Descs : O = ofile
    BY FilesAre
  <1>2. PICK P : P = DescSet(O, p, d, v)
    OBVIOUS
  <1>3. P = ofile'
    BY <1>1, <1>2 DEF DescSet
  <1>4. P \in Descs /\ \A g : Open(O, g) \in Nat /\ Open(P, g) = Open(O, g) - Hit(O[p][d], g) + Hit(v, g)
    <2>1. ASSUME NEW g
          PROVE  P \in Descs /\ Open(O, g) \in Nat /\ Open(P, g) = Open(O, g) - Hit(O[p][d], g) + Hit(v, g)
      BY <1>2, DescCount
    <2> QED BY <2>1
  <1> QED BY <1>1, <1>3, <1>4 DEF DescMoved

\* fileclose() keeps the invariant.
LEMMA FilecloseStep ==
  ASSUME IInv, NEW p \in Procs, pc[p] \in {"user", "exit"}, c[p].freeing = 0, cwd[p] # 0,
         NEW d \in Fds, NEW l \in {"user", "exit"}, fileclose(p, d, l)
  PROVE  IInv'
  <1>1. Mid(p, fs, Own(p), {}, 0, 0) /\ Matches(Own(p), Idle, cwd[p]) /\ Own(p) \in [Kinds -> Refs]
    BY AtUser
  <1>2. /\ ofile \in Descs /\ fs \in FsRec /\ fs.file \in [Files -> FileRec]
        /\ \A f \in Files : /\ fs.file[f].ref \in Int /\ fs.file[f].ip \in Refs
                            /\ fs.file[f].ref = Open(ofile, f) /\ (fs.file[f].ref = 0 => fs.file[f].ip = 0)
        /\ \A q \in Procs : cwd[q] = 0 => \A e \in Fds : ofile[q][e] = 0
    BY FilesAre
  <1>3. ofile[p][d] # 0 /\ ofile' = [ofile EXCEPT ![p][d] = 0] /\ cwd' = cwd
    BY DEF fileclose
  <1>4. PICK f \in Files : f = ofile[p][d]
    BY <1>2, <1>3 DEF Descs, Files
  <1>a. PICK a \in FileRec : a = fs.file[f]
    BY <1>2
  <1>b. PICK b : b = IF a.ref = 1 THEN NoFile ELSE [a EXCEPT !.ref = @ - 1]
    OBVIOUS
  <1>c. b \in FileRec /\ b.ref = a.ref - 1 /\ (a.ref = 1 => b = NoFile) /\ (a.ref # 1 => b.ip = a.ip) /\ a.ref \in Int
    <2>1. NoFile \in FileRec /\ NoFile.ref = 0 /\ NoFile.ip = 0 /\ a.ref \in Int
      BY Numbers DEF NoFile, FileRec
    <2>2. CASE a.ref = 1
      BY <1>b, <2>1, <2>2
    <2>3. CASE a.ref # 1
      BY <1>b, <2>1, <2>3 DEF FileRec
    <2> QED BY <2>2, <2>3
  <1>5. PICK F : F = [fs.file EXCEPT ![f] = b]
    OBVIOUS
  <1>6. PICK y : y = [fs EXCEPT !.file = F]
    OBVIOUS
  <1>7. /\ F \in [Files -> FileRec] /\ F[f].ref = fs.file[f].ref - 1
        /\ \A g \in Files : g # f => F[g] = fs.file[g]
        /\ fs.file[f].ref = 1 => F[f] = NoFile
        /\ fs.file[f].ref # 1 => F[f].ip = fs.file[f].ip
    BY <1>2, <1>5, <1>a, <1>c
  <1>8. y = [fs EXCEPT !.file[f] = Closed(@)]
    <2>1. b = Closed(fs.file[f])
      BY <1>a, <1>b DEF Closed
    <2> QED BY <1>2, <1>5, <1>6, <2>1 DEF FsRec
  <1>9. \E w \in Refs : w = cwd[p] /\ cwd' = [cwd EXCEPT ![p] = w]
    BY <1>3, SameCwd
  <1>10. l \in Pcs /\ l \notin {"new", "unlink2"} /\ Shape(l, Idle, cwd[p])
        /\ LockedAt(l, Idle) = {} /\ ExtraAt(l, Idle) = 0 /\ NewAt(l, Idle) = 0
    BY IdleIs
  <1>11. IRest' /\ fs'.file = F
    <2>1. CASE fs.file[f].ref = 1 /\ fs.file[f].ip # 0
      <3>1. PICK i \in Inodes : i = fs.file[f].ip
        BY <1>2, <2>1, Numbers
      <3>2. Put(p, y, i, l, Idle)
        BY <1>4, <1>8, <2>1, <3>1 DEF fileclose
      <3>4. PICK z : z = iput(y, p, i)
        OBVIOUS
      <3>5. PICK s : s = Upd(Own(p), "freeing", ToFree(y, i))
        OBVIOUS
      <3>6. Mid(p, z, s, {}, 0, 0) /\ Apart(s) /\ z.file = F
        <4>1. Own(p)["freeing"] = 0 /\ i \notin {}
          BY OwnIs
        <4>2. FileChanged(fs, y, F)
          BY <1>2, <1>6, <1>7, FileChange
        <4>3. F[f].ip = 0 /\ \A g \in Files : g # f => F[g].ip = fs.file[g].ip
          BY <1>7, <2>1 DEF NoFile
        <4> QED BY <1>1, <1>7, <3>1, <3>4, <3>5, <4>1, <4>2, <4>3, MidClose
      <3>7. PICK j \in Refs : j = ToFree(y, i)
        BY Numbers DEF ToFree
      <3>8. /\ s["freeing"] = j /\ s["ip"] = Idle.ip /\ s["dp"] = Idle.dp /\ s["old"] = Idle.old
            /\ s["cwd"] = cwd[p] /\ s["tmp"] = 0
        BY <1>1, <3>5, <3>7 DEF Matches, Upd, Kinds
      <3>9. fs' = z /\ Goto(p, l) /\ c' = [c EXCEPT ![p] = [Idle EXCEPT !.freeing = j]]
        BY <3>2, <3>4, <3>7 DEF Put
      <3>10. PICK w \in Refs : w = cwd[p] /\ cwd' = [cwd EXCEPT ![p] = w]
        BY <1>9
      <3>11. /\ Mid(p, z, s, LockedAt(l, Idle), ExtraAt(l, Idle), NewAt(l, Idle)) /\ Shape(l, Idle, w)
             /\ s["cwd"] = w /\ Idle \in CallRec /\ Idle.freeing = 0
        BY <1>10, <3>6, <3>8, <3>10, IdleIs
      <3>12. IRest'
        BY <1>10, <3>6, <3>8, <3>9, <3>10, <3>11, PutEnd
      <3> QED BY <3>6, <3>9, <3>12
    <2>2. CASE ~ (fs.file[f].ref = 1 /\ fs.file[f].ip # 0)
      <3>1. Go(p, y, l, Idle)
        BY <1>4, <1>8, <2>2 DEF fileclose
      <3>2. \A g \in Files : F[g].ip = fs.file[g].ip
        <4>1. F[f].ip = fs.file[f].ip
          BY <1>7, <2>2 DEF NoFile
        <4> QED BY <1>7, <4>1
      <3>3. Mid(p, y, Own(p), {}, 0, 0) /\ y.file = F
        BY <1>1, <1>6, <1>7, <3>2, MidFile
      <3>4. fs' = y /\ pc' = [pc EXCEPT ![p] = l] /\ c' = [c EXCEPT ![p] = Idle]
        BY <3>1 DEF Go, Goto
      <3>5. PICK w \in Refs : w = cwd[p] /\ cwd' = [cwd EXCEPT ![p] = w]
        BY <1>9
      <3>6. /\ Mid(p, y, Own(p), LockedAt(l, Idle), ExtraAt(l, Idle), NewAt(l, Idle)) /\ Shape(l, Idle, w)
            /\ Matches(Own(p), Idle, w) /\ Idle \in CallRec /\ SawAt(p, y, l, Idle)
        BY <1>1, <1>10, <3>3, <3>5, IdleIs, SawNone
      <3>7. IRest'
        BY <1>10, <3>4, <3>5, <3>6, MidEnd
      <3> QED BY <3>3, <3>4, <3>7
    <2> QED BY <2>1, <2>2
  <1>12. FilesOK'
    <2>1. 0 \in 0..NFILE
      BY Numbers
    <2>2. ofile' \in Descs /\ \A g : Open(ofile, g) \in Nat /\ Open(ofile', g) = Open(ofile, g) - Hit(f, g) + Hit(0, g)
      <3>1. ofile' \in Descs /\ \A g : DescMoved(g, ofile[p][d], 0)
        BY <1>3, <2>1, DescStep
      <3> QED BY <1>4, <3>1 DEF DescMoved
    <2>3. ASSUME NEW g \in Files
          PROVE  fs'.file[g].ref = Open(ofile', g) /\ (fs'.file[g].ref = 0 => fs'.file[g].ip = 0)
      <3>1. g # 0
        BY Numbers
      <3>2. Open(ofile', g) = Open(ofile, g) - Hit(f, g) /\ Open(ofile, g) \in Nat
        BY <2>2, <3>1 DEF Hit
      <3>3. CASE g = f
        BY <1>2, <1>7, <1>11, <3>2, <3>3 DEF Hit, NoFile
      <3>4. CASE g # f
        BY <1>2, <1>7, <1>11, <3>2, <3>4 DEF Hit
      <3> QED BY <3>3, <3>4
    <2>4. \A q \in Procs : cwd'[q] = 0 => \A e \in Fds : ofile'[q][e] = 0
      BY <1>2, <1>3 DEF Descs
    <2> QED BY <2>2, <2>3, <2>4, FilesEnd
  <1> QED BY <1>11, <1>12 DEF IInv, IRest

\* close() keeps the invariant.
LEMMA CloseStep ==
  ASSUME IInv, NEW p \in Procs, NEW d \in Fds, close(p, d)
  PROVE  IInv'
  BY FilecloseStep DEF close, Ready, At

\* exit() keeps the invariant.
LEMMA ExitStep ==
  ASSUME IInv, NEW p \in Procs, exit(p)
  PROVE  IInv'
  <1>1. pc[p] \in {"user", "exit"} /\ c[p].freeing = 0 /\ cwd[p] # 0
    <2>1. pc[p] \in {"user", "exit"} /\ c[p].freeing = 0 /\ (pc[p] = "user" => cwd[p] # 0)
      BY DEF exit, Ready, At
    <2> QED BY <2>1, Here DEF Shape
  <1>2. PICK S : S = {d \in Fds : ofile[p][d] # 0}
    OBVIOUS
  <1>3. CASE S # {}
    <2>1. S \in SUBSET Nat
      BY <1>2 DEF Fds
    <2>2. PICK d \in Fds : d = Min(S)
      BY <1>2, <1>3, <2>1, MinIs
    <2>3. fileclose(p, d, "exit")
      BY <1>2, <1>3, <2>2 DEF exit
    <2> QED BY <1>1, <2>3, FilecloseStep
  <1>4. CASE S = {}
    <2>1. Put(p, fs, cwd[p], "user", Idle) /\ cwd' = [cwd EXCEPT ![p] = 0] /\ ofile' = ofile
      BY <1>2, <1>4 DEF exit
    <2>2. PICK i \in Inodes : i = cwd[p]
      BY <1>1, Here, Numbers
    <2>3. Mid(p, fs, Own(p), {}, 0, 0) /\ Matches(Own(p), Idle, i) /\ Own(p) \in [Kinds -> Refs]
      BY <1>1, <2>2, AtUser
    <2>4. Own(p)["cwd"] = i /\ Own(p)["freeing"] = 0 /\ Matches(Upd(Own(p), "cwd", 0), Idle, 0)
      BY <2>3, IdleIs, Numbers DEF Matches, Upd, Kinds
    <2>5. PICK w \in Refs : w = 0
      BY Numbers
    <2>6. /\ "user" \in Pcs /\ "user" \notin {"new", "unlink2"} /\ Idle \in CallRec /\ Idle.freeing = 0
          /\ Shape("user", Idle, w) /\ {} = LockedAt("user", Idle) /\ 0 = ExtraAt("user", Idle)
          /\ 0 = NewAt("user", Idle) /\ "cwd" \in {"ip", "dp", "old", "cwd"} /\ i \notin {}
          /\ Put(p, fs, i, "user", Idle) /\ cwd' = [cwd EXCEPT ![p] = w] /\ Matches(Upd(Own(p), "cwd", 0), Idle, w)
      BY <2>1, <2>2, <2>4, <2>5, IdleIs
    <2>7. IRest' /\ fs'.file = fs.file
      BY <2>3, <2>4, <2>6, PutStep
    <2>8. FilesOK'
      <3>1. cwd \in [Procs -> Refs]
        BY DEF IInv, TypeOK
      <3>2. \A q \in Procs : cwd'[q] = 0 => \A e \in Fds : ofile'[q][e] = 0
        <4>1. \A q \in Procs : q # p => cwd'[q] = cwd[q]
          BY <2>1, <3>1
        <4>2. \A e \in Fds : ofile[p][e] = 0
          BY <1>2, <1>4
        <4> QED BY <2>1, <4>1, <4>2, FilesAre
      <3>3. FilesOK
        BY DEF IInv
      <3> QED BY <2>1, <2>7, <3>2, <3>3 DEF FilesOK
    <2> QED BY <2>7, <2>8 DEF IInv, IRest
  <1> QED BY <1>3, <1>4

\* opened() keeps the invariant.
LEMMA OpenedStep ==
  ASSUME IInv, NEW p \in Procs, opened(p)
  PROVE  IInv'
  <1>1. pc[p] = "opened" /\ c[p].freeing = 0
    BY DEF opened, At
  <1>2. Mid(p, fs, Own(p), {c[p].ip}, 0, 0)
    BY <1>1, MidStart DEF LockedAt, ExtraAt, NewAt
  <1>3. c[p].dp = 0 /\ c[p].old = 0 /\ c[p].ip # 0 /\ c[p].ip \in Refs /\ cwd[p] # 0
    BY <1>1, Here DEF Shape, HasIp, HasDp
  <1>4. Matches(Upd(Own(p), "ip", 0), Idle, cwd[p])
    BY <1>1, <1>3, OwnDrop
  <1>5. PICK i \in Inodes : i = c[p].ip
    BY <1>3, Numbers
  <1>6. CASE Quit(p, fs, i)
    BY <1>2, <1>4, <1>5, <1>6, OwnIs, QuitCall
  <1>7. CASE ~ Quit(p, fs, i)
    <2>1. filealloc # 0 /\ fdalloc(p) # 0
      BY <1>5, <1>7 DEF opened
    <2>2. PICK f \in Files : f = filealloc /\ fs.file[f].ref = 0
      BY <2>1, FileallocIs
    <2>3. PICK d \in Fds : d = fdalloc(p) /\ ofile[p][d] = 0
      BY <2>1, FdallocIs
    <2>4. PICK x : x = iunlock(fs, i)
      OBVIOUS
    <2>5. PICK a : a = [ref |-> 1, ip |-> i]
      OBVIOUS
    <2>9. /\ ofile \in Descs /\ fs \in FsRec /\ fs.file \in [Files -> FileRec]
          /\ \A g \in Files : /\ fs.file[g].ref \in Int /\ fs.file[g].ip \in Refs
                              /\ fs.file[g].ref = Open(ofile, g) /\ (fs.file[g].ref = 0 => fs.file[g].ip = 0)
          /\ \A q \in Procs : cwd[q] = 0 => \A e \in Fds : ofile[q][e] = 0
      BY FilesAre
    <2>8. Mid(p, x, Own(p), {}, 0, 0) /\ x.file = fs.file
      BY <1>2, <1>5, <2>4, MidUnlockOnly
    <2>e. PICK F : F = [fs.file EXCEPT ![f] = a]
      OBVIOUS
    <2>f. /\ F \in [Files -> FileRec] /\ F[f].ip = i /\ F[f].ref = 1
          /\ \A g \in Files : g # f => F[g] = fs.file[g]
      <3>1. a \in FileRec /\ a.ip = i /\ a.ref = 1
        BY <2>5, Numbers DEF FileRec
      <3> QED BY <2>9, <2>e, <3>1
    <2>6. PICK y : y = [x EXCEPT !.file = F]
      OBVIOUS
    <2>7. /\ Go(p, y, "user", Idle) /\ ofile' = [ofile EXCEPT ![p][d] = f] /\ cwd' = cwd
      <3>1. y = [iunlock(fs, i) EXCEPT !.file[f] = [ref |-> 1, ip |-> i]]
        BY <2>4, <2>5, <2>6, <2>8, <2>e
      <3> QED BY <1>5, <1>7, <2>2, <2>3, <3>1 DEF opened
    <2>10. Mid(p, y, Upd(Own(p), "ip", 0), {}, 0, 0) /\ y.file = F
      <3>1. Own(p)["ip"] = i /\ i \notin {} /\ x.file[f].ip = 0
        BY <1>5, <2>2, <2>8, <2>9, OwnIs
      <3>2. FileChanged(x, y, F)
        <4>1. x \in FsRec
          BY <2>4, <2>9, IunlockIs
        <4> QED BY <2>6, <2>f, <4>1, FileChange
      <3>3. \A g \in Files : g # f => F[g].ip = x.file[g].ip
        BY <2>8, <2>f
      <3>4. Mid(p, y, Upd(Own(p), "ip", 0), {}, 0, 0)
        BY <2>8, <2>f, <3>1, <3>2, <3>3, MidOpen
      <3> QED BY <3>2, <3>4 DEF FileChanged
    <2>11. PICK r : r = Upd(Own(p), "ip", 0)
      OBVIOUS
    <2>12. PICK w \in Refs : w = cwd[p] /\ cwd' = [cwd EXCEPT ![p] = w]
      BY <2>7, SameCwd
    <2>13. /\ Mid(p, y, r, LockedAt("user", Idle), ExtraAt("user", Idle), NewAt("user", Idle))
           /\ Matches(r, Idle, w) /\ Shape("user", Idle, w) /\ "user" \in Pcs /\ Idle \in CallRec
           /\ SawAt(p, y, "user", Idle)
      BY <1>4, <2>10, <2>11, <2>12, IdleIs, SawNone
    <2>14. fs' = y /\ pc' = [pc EXCEPT ![p] = "user"] /\ c' = [c EXCEPT ![p] = Idle]
      BY <2>7 DEF Go, Goto
    <2>15. IRest'
      BY <2>12, <2>13, <2>14, MidEnd
    <2>16. FilesOK'
      <3>1. f \in 0..NFILE /\ f # 0
        BY Numbers DEF Files
      <3>2. ofile' \in Descs /\ \A g : DescMoved(g, ofile[p][d], f)
        BY <2>7, <3>1, DescStep
      <3>3. ASSUME NEW g \in Files
            PROVE  fs'.file[g].ref = Open(ofile', g) /\ (fs'.file[g].ref = 0 => fs'.file[g].ip = 0)
        <4>1. Open(ofile', g) = Open(ofile, g) + Hit(f, g) /\ Open(ofile, g) \in Nat
          <5>1. g # 0 /\ DescMoved(g, 0, f)
            BY <2>3, <3>2, Numbers
          <5> QED BY <5>1 DEF DescMoved, Hit
        <4>2. CASE g = f
          BY <2>2, <2>9, <2>10, <2>14, <2>f, <4>1, <4>2 DEF Hit
        <4>3. CASE g # f
          BY <2>9, <2>10, <2>14, <2>f, <4>1, <4>3 DEF Hit
        <4> QED BY <4>2, <4>3
      <3>4. \A q \in Procs : cwd'[q] = 0 => \A e \in Fds : ofile'[q][e] = 0
        BY <1>3, <2>7, <2>9 DEF Descs
      <3> QED BY <3>2, <3>3, <3>4, FilesEnd
    <2> QED BY <2>15, <2>16 DEF IInv, IRest
  <1> QED BY <1>6, <1>7

\* A step that changes no process's control point.
LEMMA StayStep ==
  ASSUME IInv, NEW y, Core(y, Held(fs, c, cwd), Locked, Extra, New, Seen),
         \A f \in Files : y.file[f].ip = fs.file[f].ip, fs' = y, UNCHANGED <<pc, c, cwd>>
  PROVE  IRest'
  <1>1. Held(y, c, cwd) = Held(fs, c, cwd)
    <2>1. ASSUME NEW t \in Places PROVE RefAt(t, y, c, cwd) = RefAt(t, fs, c, cwd)
      <3>1. t[2] = "file" => t[1] \in Files
        BY DEF Places, Kinds
      <3> QED BY <3>1 DEF RefAt
    <2> QED BY <2>1 DEF Held
  <1>2. Core(fs', Held(fs', c', cwd'), Locked', Extra', New', Seen')
    BY <1>1 DEF Locked, Extra, New, Seen
  <1>3. TypeOK' /\ \A q \in Procs : Shape(pc'[q], c'[q], cwd'[q])
    BY DEF IInv, TypeOK
  <1> QED BY <1>2, <1>3 DEF IRest

\* filestat() keeps the invariant.
LEMMA FilestatStep ==
  ASSUME IInv, NEW p \in Procs, NEW d \in Fds, filestat(p, d)
  PROVE  IInv'
  <1>1. PICK f : f = ofile[p][d]
    OBVIOUS
  <1>2. PICK i : i = fs.file[f].ip
    OBVIOUS
  <1>3. f # 0 /\ i # 0 /\ Free(i) /\ fs' = iunlock(ilock(fs, p, i), i) /\ UNCHANGED <<pc, c, cwd, ofile>>
    BY <1>1, <1>2 DEF filestat, argfd
  <1>4. f \in Files
    BY <1>1, <1>3, FilesAre DEF Descs, Files
  <1>5. i \in Inodes /\ fs \in FsRec
    BY <1>2, <1>3, <1>4, FilesAre, Numbers
  <1>6. PICK h : h = Held(fs, c, cwd)
    OBVIOUS
  <1>7. Core(fs, h, Locked, Extra, New, Seen)
    BY <1>6 DEF IInv
  <1>8. PICK t \in Places : t = <<f, "file">>
    BY <1>4 DEF Places
  <1>9. h[t] = i /\ t[2] # "freeing" /\ fs.lk[i] = Nobody
    BY <1>2, <1>3, <1>6, <1>8 DEF Held, RefAt, Free
  <1>10. PICK y : y = iunlock(ilock(fs, p, i), i)
    OBVIOUS
  <1>11. Core(y, h, Locked, Extra, New, Seen)
    BY <1>5, <1>7, <1>9, <1>10, CoreTouch
  <1>12. y.file = fs.file
    <2>1. PICK x : x = ilock(fs, p, i)
      OBVIOUS
    <2>2. x \in FsRec /\ x.file = fs.file
      BY <1>5, <2>1, IlockIs
    <2> QED BY <1>5, <1>10, <2>1, <2>2, IunlockIs
  <1>13. IRest'
    BY <1>3, <1>6, <1>10, <1>11, <1>12, StayStep
  <1>14. FilesOK'
    BY <1>3, <1>10, <1>12, FilesSame
  <1> QED BY <1>13, <1>14 DEF IInv, IRest

\* The file table is changed, and nothing else in the kernel.
LEMMA TableStep ==
  ASSUME IInv, NEW F \in [Files -> FileRec], \A f \in Files : F[f].ip = fs.file[f].ip,
         fs' = [fs EXCEPT !.file = F], UNCHANGED <<pc, c, cwd>>
  PROVE  IRest' /\ fs'.file = F
  <1>1. PICK y : y = [fs EXCEPT !.file = F]
    OBVIOUS
  <1>2. FileChanged(fs, y, F)
    BY <1>1, FilesAre, FileChange
  <1>3. PICK h : h = Held(fs, c, cwd)
    OBVIOUS
  <1>4. Core(fs, h, Locked, Extra, New, Seen)
    BY <1>3 DEF IInv
  <1>5. /\ y \in FsRec /\ SameDisk(fs, y) /\ SameCopy(fs, y) /\ y.panic = fs.panic /\ y.lk = fs.lk
        /\ y.ref = fs.ref /\ y.file = F
    BY <1>2 DEF FileChanged
  <1>6. Core(y, h, Locked, Extra, New, Seen)
    BY <1>4, <1>5, CoreFile
  <1> QED BY <1>1, <1>3, <1>5, <1>6, StayStep

\* dup() keeps the invariant.
LEMMA DupStep ==
  ASSUME IInv, NEW p \in Procs, NEW d \in Fds, dup(p, d)
  PROVE  IInv'
  <1>1. PICK f : f = ofile[p][d]
    OBVIOUS
  <1>2. f # 0 /\ fdalloc(p) # 0 /\ cwd[p] # 0 /\ fs' = filedup(fs, f) /\ UNCHANGED <<pc, c, cwd>>
    BY <1>1 DEF dup, argfd, Ready
  <1>3. f \in Files
    BY <1>1, <1>2, FilesAre DEF Descs, Files
  <1>4. PICK e \in Fds : e = fdalloc(p) /\ ofile[p][e] = 0
    BY <1>2, FdallocIs
  <1>5. ofile' = [ofile EXCEPT ![p][e] = f]
    BY <1>1, <1>4 DEF dup
  <1>6. /\ ofile \in Descs /\ fs \in FsRec /\ fs.file \in [Files -> FileRec]
        /\ \A g \in Files : /\ fs.file[g].ref \in Int /\ fs.file[g].ip \in Refs
                            /\ fs.file[g].ref = Open(ofile, g) /\ (fs.file[g].ref = 0 => fs.file[g].ip = 0)
        /\ \A q \in Procs : cwd[q] = 0 => \A a \in Fds : ofile[q][a] = 0
    BY FilesAre
  <1>7. PICK F : F = [fs.file EXCEPT ![f].ref = @ + 1]
    OBVIOUS
  <1>8. /\ F \in [Files -> FileRec] /\ F[f].ref = fs.file[f].ref + 1 /\ F[f].ip = fs.file[f].ip
        /\ \A g \in Files : g # f => F[g] = fs.file[g]
    BY <1>3, <1>6, <1>7 DEF FileRec
  <1>9. fs' = [fs EXCEPT !.file = F]
    BY <1>2, <1>6, <1>7 DEF filedup, FsRec
  <1>10. \A g \in Files : F[g].ip = fs.file[g].ip
    BY <1>8
  <1>11. IRest' /\ fs'.file = F
    BY <1>2, <1>8, <1>9, <1>10, TableStep
  <1>12. FilesOK'
    <2>1. f \in 0..NFILE
      BY <1>3 DEF Files
    <2>2. ofile' \in Descs /\ \A g : DescMoved(g, ofile[p][e], f)
      BY <1>5, <2>1, DescStep
    <2>3. ASSUME NEW g \in Files
          PROVE  fs'.file[g].ref = Open(ofile', g) /\ (fs'.file[g].ref = 0 => fs'.file[g].ip = 0)
      <3>1. Open(ofile', g) = Open(ofile, g) + Hit(f, g) /\ Open(ofile, g) \in Nat
        <4>1. g # 0 /\ DescMoved(g, 0, f)
          BY <1>4, <2>2, Numbers
        <4> QED BY <4>1 DEF DescMoved, Hit
      <3>2. CASE g = f
        BY <1>6, <1>8, <1>11, <3>1, <3>2 DEF Hit
      <3>3. CASE g # f
        BY <1>6, <1>8, <1>11, <3>1, <3>3 DEF Hit
      <3> QED BY <3>2, <3>3
    <2>4. \A q \in Procs : cwd'[q] = 0 => \A a \in Fds : ofile'[q][a] = 0
      BY <1>2, <1>5, <1>6 DEF Descs
    <2> QED BY <2>2, <2>3, <2>4, FilesEnd
  <1> QED BY <1>11, <1>12 DEF IInv, IRest

\* The first place after another one.
LEMMA NextFreeIs ==
  ASSUME NEW S \in SUBSET Nat, NEW a \in Nat, NEW b, b = FirstFree({s \in S : s > a}), b # 0
  PROVE  b \in S /\ b > a
  <1>1. PICK R : R = {s \in S : s > a}
    OBVIOUS
  <1>2. R \in SUBSET Nat /\ b = FirstFree(R)
    BY <1>1
  <1>3. b \in R
    BY <1>2, FirstFreeIs
  <1> QED BY <1>1, <1>3

\* A descriptor of file f is opened.
Opened(O, P, f) == \A k \in Files : Open(O, k) \in Nat /\ Open(P, k) = Open(O, k) + Hit(f, k)
LEMMA DescOpen ==
  ASSUME NEW O \in Descs, NEW p \in Procs, NEW d \in Fds, O[p][d] = 0, NEW f \in Files,
         NEW P, P = DescSet(O, p, d, f)
  PROVE  P \in Descs /\ Opened(O, P, f) /\ \A e \in Fds : e # d => P[p][e] = O[p][e]
  <1>1. f \in 0..NFILE
    BY DEF Files
  <1>2. ASSUME NEW k
        PROVE  P \in Descs /\ Open(O, k) \in Nat /\ Open(P, k) = Open(O, k) - Hit(0, k) + Hit(f, k)
    BY <1>1, DescCount
  <1>3. ASSUME NEW k \in Files
        PROVE  Open(O, k) \in Nat /\ Open(P, k) = Open(O, k) + Hit(f, k)
    <2>1. Hit(0, k) = 0 /\ Hit(f, k) \in Nat
      BY Numbers DEF Hit
    <2> QED BY <1>2, <2>1
  <1>4. \A e \in Fds : e # d => P[p][e] = O[p][e]
    BY DEF DescSet, Descs
  <1> QED BY <1>2, <1>3, <1>4 DEF Opened

\* sys_pipe() keeps the invariant.
LEMMA PipeStep ==
  ASSUME IInv, NEW p \in Procs, sys_pipe(p)
  PROVE  IInv'
  <1>1. /\ ofile \in Descs /\ fs \in FsRec /\ fs.file \in [Files -> FileRec]
        /\ \A g \in Files : /\ fs.file[g].ref \in Int /\ fs.file[g].ip \in Refs
                            /\ fs.file[g].ref = Open(ofile, g) /\ (fs.file[g].ref = 0 => fs.file[g].ip = 0)
        /\ \A q \in Procs : cwd[q] = 0 => \A a \in Fds : ofile[q][a] = 0
    BY FilesAre
  <1>2. filealloc # 0 /\ fdalloc(p) # 0 /\ cwd[p] # 0 /\ UNCHANGED <<pc, c, cwd>>
    BY DEF sys_pipe, Ready
  <1>3. PICK f \in Files : f = filealloc /\ fs.file[f].ref = 0
    BY <1>2, FileallocIs
  <1>4. PICK d \in Fds : d = fdalloc(p) /\ ofile[p][d] = 0
    BY <1>2, FdallocIs
  <1>5. PICK g \in Files : /\ g # f /\ fs.file[g].ref = 0
                           /\ g = FirstFree({h \in Files : h > f /\ fs.file[h].ref = 0})
    <2>1. PICK S : S = {h \in Files : fs.file[h].ref = 0}
      OBVIOUS
    <2>2. PICK g : g = FirstFree({h \in Files : h > f /\ fs.file[h].ref = 0})
      OBVIOUS
    <2>3. g # 0
      BY <1>3, <2>2 DEF sys_pipe
    <2>4. S \in SUBSET Nat /\ f \in Nat /\ g = FirstFree({s \in S : s > f})
      <3>1. {s \in S : s > f} = {h \in Files : h > f /\ fs.file[h].ref = 0}
        BY <2>1
      <3>2. S \in SUBSET Nat /\ f \in Nat
        BY <2>1 DEF Files
      <3> QED BY <2>2, <3>1, <3>2
    <2>5. g \in S /\ g > f
      BY <2>3, <2>4, NextFreeIs
    <2>6. g \in Files /\ g # f /\ fs.file[g].ref = 0
      BY <2>1, <2>4, <2>5
    <2> QED BY <2>2, <2>6
  <1>6. PICK e \in Fds : /\ e # d /\ ofile[p][e] = 0
                         /\ e = FirstFree({h \in Fds : h > d /\ ofile[p][h] = 0})
    <2>1. PICK S : S = {h \in Fds : ofile[p][h] = 0}
      OBVIOUS
    <2>2. PICK e : e = FirstFree({h \in Fds : h > d /\ ofile[p][h] = 0})
      OBVIOUS
    <2>3. e # 0
      BY <1>4, <2>2 DEF sys_pipe
    <2>4. S \in SUBSET Nat /\ d \in Nat /\ e = FirstFree({s \in S : s > d})
      <3>1. {s \in S : s > d} = {h \in Fds : h > d /\ ofile[p][h] = 0}
        BY <2>1
      <3> QED BY <2>1, <2>2, <3>1 DEF Fds
    <2>5. e \in S /\ e > d
      BY <2>3, <2>4, NextFreeIs
    <2>6. e \in Fds /\ e # d /\ ofile[p][e] = 0
      BY <2>1, <2>4, <2>5
    <2> QED BY <2>2, <2>6
  <1>7. PICK a : a = [ref |-> 1, ip |-> 0]
    OBVIOUS
  <1>8. a \in FileRec /\ a.ref = 1 /\ a.ip = 0
    BY <1>7, Numbers DEF FileRec
  <1>9. PICK F : F = [fs.file EXCEPT ![f] = a, ![g] = a]
    OBVIOUS
  <1>10. /\ F \in [Files -> FileRec] /\ F[f] = a /\ F[g] = a
         /\ \A k \in Files : k # f /\ k # g => F[k] = fs.file[k]
    BY <1>1, <1>8, <1>9
  <1>11. /\ fs' = [fs EXCEPT !.file[f] = a, !.file[g] = a]
         /\ ofile' = [ofile EXCEPT ![p][d] = f, ![p][e] = g]
    BY <1>3, <1>4, <1>5, <1>6, <1>7 DEF sys_pipe
  <1>12. fs' = [fs EXCEPT !.file = F]
    BY <1>1, <1>9, <1>11 DEF FsRec
  <1>13. \A k \in Files : F[k].ip = fs.file[k].ip
    BY <1>1, <1>3, <1>5, <1>8, <1>10
  <1>14. IRest' /\ fs'.file = F
    BY <1>2, <1>10, <1>12, <1>13, TableStep
  <1>15. FilesOK'
    <2>1. ofile' \in Descs /\ \A k \in Files : Open(ofile, k) \in Nat /\ Open(ofile', k) = Open(ofile, k) + Hit(f, k) + Hit(g, k)
      <3>1. PICK O \in Descs : O = ofile
        BY <1>1
      <3>2. PICK P : P = ofile'
        OBVIOUS
      <3>3. PICK N : N = DescSet(O, p, d, f)
        OBVIOUS
      <3>4. P = DescSet(N, p, e, g)
        BY <1>11, <3>1, <3>2, <3>3 DEF DescSet
      <3>5. O[p][d] = 0
        BY <1>4, <3>1
      <3>6. N \in Descs /\ Opened(O, N, f) /\ N[p][e] = 0
        <4>1. N \in Descs /\ Opened(O, N, f) /\ \A b \in Fds : b # d => N[p][b] = O[p][b]
          BY <3>3, <3>5, DescOpen
        <4> QED BY <1>6, <3>1, <4>1
      <3>7. P \in Descs /\ Opened(N, P, g)
        BY <3>4, <3>6, DescOpen
      <3>8. \A k \in Files : Hit(f, k) \in Nat /\ Hit(g, k) \in Nat
        BY DEF Hit
      <3> QED BY <3>1, <3>2, <3>6, <3>7, <3>8 DEF Opened
    <2>2. ASSUME NEW k \in Files
          PROVE  fs'.file[k].ref = Open(ofile', k) /\ (fs'.file[k].ref = 0 => fs'.file[k].ip = 0)
      <3>1. Open(ofile, k) \in Nat /\ Open(ofile', k) = Open(ofile, k) + Hit(f, k) + Hit(g, k)
        BY <2>1
      <3>2. CASE k \in {f, g}
        <4>1. Open(ofile, k) = 0
          BY <1>1, <1>3, <1>5, <3>2
        <4>2. Hit(f, k) + Hit(g, k) = 1
          BY <1>5, <3>2 DEF Hit
        <4>3. Open(ofile', k) = 1
          BY <3>1, <4>1, <4>2 DEF Hit
        <4> QED BY <1>8, <1>10, <1>14, <3>2, <4>3
      <3>3. CASE k \notin {f, g}
        BY <1>1, <1>10, <1>14, <3>1, <3>3 DEF Hit
      <3> QED BY <3>2, <3>3
    <2>3. \A q \in Procs : cwd'[q] = 0 => \A b \in Fds : ofile'[q][b] = 0
      BY <1>1, <1>2, <1>11 DEF Descs
    <2> QED BY <2>1, <2>2, <2>3, FilesEnd
  <1> QED BY <1>14, <1>15 DEF IInv, IRest

-----------------------------------------------------------------------------
(* fork()                                                                  *)

\* The descriptors of p that refer to file k.
DescsOf(O, p, k) == {d \in Fds : O[p][d] = k}
\* The descriptors of a file when a process gets a copy of another's.
LEMMA ForkCount ==
  ASSUME NEW O \in Descs, NEW p \in Procs, NEW q \in Procs, p # q, \A d \in Fds : O[q][d] = 0,
         NEW P, P = [O EXCEPT ![q] = O[p]], NEW k \in Files
  PROVE  /\ P \in Descs /\ Cardinality(DescsOf(O, p, k)) \in Nat /\ Open(O, k) \in Nat
         /\ Open(P, k) = Open(O, k) + Cardinality(DescsOf(O, p, k))
  <1>1. P \in Descs /\ P[q] = O[p] /\ \A r \in Procs : r # q => P[r] = O[r]
    BY DEF Descs
  <1>2. PICK D : D = DescsOf(O, p, k)
    OBVIOUS
  <1>3. IsFiniteSet(D) /\ Cardinality(D) \in Nat
    <2>1. D \in SUBSET Fds
      BY <1>2 DEF DescsOf
    <2> QED BY <2>1, DescFinite, FS_Subset, FS_CardinalityType
  <1>4. PICK A : A = {s \in Procs \X Fds : O[s[1]][s[2]] = k}
    OBVIOUS
  <1>5. PICK B : B = {q} \X D
    OBVIOUS
  <1>6. IsFiniteSet(A) /\ Cardinality(A) \in Nat
    <2>1. A \in SUBSET (Procs \X Fds)
      BY <1>4
    <2> QED BY <2>1, DescFinite, FS_Subset, FS_CardinalityType
  <1>7. IsFiniteSet(B) /\ Cardinality(B) = Cardinality(D)
    <2>1. IsFiniteSet({q}) /\ Cardinality({q}) = 1
      BY FS_Singleton
    <2>2. IsFiniteSet(B) /\ Cardinality(B) = Cardinality({q}) * Cardinality(D)
      BY <1>3, <1>5, <2>1, FS_Product
    <2> QED BY <1>3, <2>1, <2>2
  <1>8. A \cap B = {}
    <2>1. k # 0
      BY Numbers
    <2>2. ASSUME NEW s \in A \cap B PROVE FALSE
      <3>1. s[1] = q /\ s[2] \in Fds
        BY <1>4, <1>5, <2>2
      <3>2. O[s[1]][s[2]] = k
        BY <1>4, <2>2
      <3> QED BY <2>1, <3>1, <3>2
    <2> QED BY <2>2
  <1>9. {s \in Procs \X Fds : P[s[1]][s[2]] = k} = A \cup B
    <2>1. k # 0
      BY Numbers
    <2>2. ASSUME NEW s \in Procs \X Fds PROVE P[s[1]][s[2]] = k <=> s \in A \/ s \in B
      <3>1. s[1] \in Procs /\ s[2] \in Fds /\ s = <<s[1], s[2]>>
        OBVIOUS
      <3>2. s \in B <=> s[1] = q /\ O[p][s[2]] = k
        BY <1>2, <1>5, <3>1 DEF DescsOf
      <3>3. s \in A <=> O[s[1]][s[2]] = k
        BY <1>4
      <3>4. CASE s[1] = q
        BY <1>1, <2>1, <3>1, <3>2, <3>3, <3>4
      <3>5. CASE s[1] # q
        BY <1>1, <3>1, <3>2, <3>3, <3>5
      <3> QED BY <3>4, <3>5
    <2>3. A \subseteq Procs \X Fds /\ B \subseteq Procs \X Fds
      BY <1>2, <1>4, <1>5 DEF DescsOf
    <2> QED BY <2>2, <2>3
  <1>10. Cardinality(A \cup B) = Cardinality(A) + Cardinality(D)
    <2>1. Cardinality(A \cup B) = Cardinality(A) + Cardinality(B) - Cardinality(A \cap B)
      BY <1>6, <1>7, FS_Union
    <2>2. Cardinality(A \cap B) = 0
      BY <1>8, FS_EmptySet
    <2> QED BY <1>3, <1>6, <1>7, <2>1, <2>2
  <1> QED BY <1>1, <1>2, <1>3, <1>4, <1>6, <1>9, <1>10 DEF Open

\* Of what a process refers to between calls, nothing is new.
LEMMA KnownCwd ==
  ASSUME IInv, NEW p \in Procs, NEW i \in Inodes, cwd[p] = i, DotDotFree
  PROVE  fs.dtype[i] # "none" /\ \A q \in Procs : New[q] # i
  <1>1. PICK h : h = Held(fs, c, cwd)
    OBVIOUS
  <1>2. Deep(fs, h, Locked, Extra, New, Seen)
    BY <1>1, CoreTypes DEF IInv
  <1>3. PICK t \in Places : t = <<p, "cwd">>
    BY PlaceOf
  <1>4. h[t] = i /\ i # 0 /\ t[2] # "freeing"
    BY <1>1, <1>3, Numbers DEF Held, RefAt
  <1>5. fs.dtype[i] # "none"
    BY <1>2, <1>4 DEF Deep, HoldOK
  <1>6. ASSUME NEW q \in Procs, New[q] = i PROVE FALSE
    <2>1. \A u \in Places : h[u] = New[q] => u = <<q, "ip">> \/ u[2] = "freeing"
      BY <1>2, <1>4, <1>6 DEF Deep, NewOK
    <2>2. t # <<q, "ip">>
      BY <1>3
    <2> QED BY <1>4, <1>6, <2>1, <2>2
  <1> QED BY <1>5, <1>6

\* fork() keeps the invariant.
LEMMA ForkStep ==
  ASSUME IInv, NEW p \in Procs, NEW q \in Procs, fork(p, q)
  PROVE  IInv'
  <1>1. /\ ofile \in Descs /\ fs \in FsRec /\ fs.file \in [Files -> FileRec]
        /\ \A g \in Files : /\ fs.file[g].ref \in Int /\ fs.file[g].ip \in Refs
                            /\ fs.file[g].ref = Open(ofile, g) /\ (fs.file[g].ref = 0 => fs.file[g].ip = 0)
        /\ \A r \in Procs : cwd[r] = 0 => \A a \in Fds : ofile[r][a] = 0
    BY FilesAre
  <1>2. /\ cwd[p] # 0 /\ cwd[q] = 0 /\ pc[q] = "user" /\ c[q].freeing = 0
        /\ cwd' = [cwd EXCEPT ![q] = cwd[p]] /\ ofile' = [ofile EXCEPT ![q] = ofile[p]] /\ UNCHANGED <<pc, c>>
    BY DEF fork, Ready, At
  <1>3. /\ pc \in [Procs -> Pcs] /\ c \in [Procs -> CallRec] /\ cwd \in [Procs -> Refs]
    BY DEF IInv, TypeOK
  <1>4. PICK i \in Inodes : i = cwd[p]
    BY <1>2, <1>3, Numbers
  <1>5. p # q
    BY <1>2
  <1>6. ASSUME NEW k \in Files
        PROVE  /\ ofile' \in Descs /\ Cardinality(DescsOf(ofile, p, k)) \in Nat /\ Open(ofile, k) \in Nat
               /\ Open(ofile', k) = Open(ofile, k) + Cardinality(DescsOf(ofile, p, k))
    <2>1. \A d \in Fds : ofile[q][d] = 0
      BY <1>1, <1>2
    <2> QED BY <1>1, <1>2, <1>5, <2>1, ForkCount, ZenonT(30)
  <1>7. PICK F : F = Shared(fs.file, ofile[p])
    OBVIOUS
  <1>8. ASSUME NEW k \in Files
        PROVE  /\ F[k] \in FileRec /\ F[k].ip = fs.file[k].ip
               /\ F[k].ref = fs.file[k].ref + Cardinality(DescsOf(ofile, p, k))
    <2>1. PICK a \in FileRec : a = fs.file[k]
      BY <1>1
    <2>2. PICK n \in Nat : n = Cardinality(DescsOf(ofile, p, k))
      BY <1>6
    <2>3. F[k] = [a EXCEPT !.ref = @ + n]
      BY <1>7, <2>1, <2>2 DEF DescsOf, Shared
    <2>4. a.ref + n \in Int
      BY DEF FileRec
    <2> QED BY <2>1, <2>2, <2>3, <2>4 DEF FileRec
  <1>9. F \in [Files -> FileRec]
    BY <1>7, <1>8 DEF Shared
  <1>10. PICK x : x = [fs EXCEPT !.file = F]
    OBVIOUS
  <1>11. FileChanged(fs, x, F)
    BY <1>1, <1>9, <1>10, FileChange
  <1>12. fs' = idup(x, i)
    <2>1. fs' = idup([fs EXCEPT !.file = F], cwd[p])
      BY <1>7 DEF fork
    <2> QED BY <1>4, <1>10, <2>1
  <1>13. PICK h : h = Held(fs, c, cwd)
    OBVIOUS
  <1>14. Core(x, h, Locked, Extra, New, Seen)
    <2>1. Core(fs, h, Locked, Extra, New, Seen)
      BY <1>13 DEF IInv
    <2>2. /\ x \in FsRec /\ SameDisk(fs, x) /\ SameCopy(fs, x) /\ x.panic = fs.panic /\ x.lk = fs.lk
          /\ x.ref = fs.ref
      BY <1>11 DEF FileChanged
    <2> QED BY <2>1, <2>2, CoreFile
  <1>15. PICK t \in Places : t = <<q, "cwd">>
    BY PlaceOf
  <1>16. h[t] = 0 /\ t[2] \in {"cwd", "ip", "tmp"}
    BY <1>2, <1>13, <1>15 DEF Held, RefAt
  <1>17. DotDotFree => x.dtype[i] # "none" /\ \A r \in Procs : New[r] # i
    BY <1>4, <1>11, KnownCwd DEF FileChanged, SameDisk
  <1>18. PICK y : y = idup(x, i)
    OBVIOUS
  <1>19. Core(y, Upd(h, t, i), Locked, Extra, New, Seen)
    <2>1. y \in {iget(x, i), idup(x, i)}
      BY <1>18
    <2> QED BY <1>14, <1>16, <1>17, <2>1, CoreGet
  <1>20. y.file = F
    <2>1. x \in FsRec /\ x.file = F /\ y \in {iget(x, i), idup(x, i)}
      BY <1>11, <1>18 DEF FileChanged
    <2>2. y.file = x.file
      BY <1>18, <2>1 DEF idup, FsRec
    <2> QED BY <2>1, <2>2
  <1>21. Held(y, c, cwd') = Upd(h, t, i)
    <2>1. ASSUME NEW u \in Places PROVE RefAt(u, y, c, cwd') = IF u = t THEN i ELSE RefAt(u, fs, c, cwd)
      <3>1. CASE u[2] = "file"
        <4>1. u[1] \in Files /\ u # t
          BY <1>15, <3>1 DEF Places, Kinds
        <4>2. y.file[u[1]].ip = fs.file[u[1]].ip
          BY <1>8, <1>20, <4>1
        <4> QED BY <3>1, <4>1, <4>2 DEF RefAt
      <3>2. CASE u[2] = "cwd"
        <4>1. u[1] \in Procs /\ (u = t <=> u[1] = q)
          BY <1>15, <3>2 DEF Places, Kinds
        <4>2. cwd'[u[1]] = IF u = t THEN i ELSE cwd[u[1]]
          BY <1>2, <1>3, <1>4, <4>1
        <4> QED BY <3>2, <4>2 DEF RefAt
      <3>3. CASE u[2] # "file" /\ u[2] # "cwd"
        <4>1. u # t
          BY <1>15, <3>3
        <4> QED BY <3>3, <4>1 DEF RefAt
      <3> QED BY <3>1, <3>2, <3>3
    <2>2. Upd(h, t, i) = [u \in Places |-> IF u = t THEN i ELSE RefAt(u, fs, c, cwd)]
      BY <1>13 DEF Upd, Held
    <2> QED BY <2>1, <2>2 DEF Held
  <1>22. Core(fs', Held(fs', c', cwd'), Locked', Extra', New', Seen')
    <2>1. Locked' = Locked /\ Extra' = Extra /\ New' = New /\ Seen' = Seen
      BY <1>2 DEF Locked, Extra, New, Seen
    <2>2. fs' = y /\ Held(fs', c', cwd') = Upd(h, t, i)
      BY <1>2, <1>12, <1>18, <1>21
    <2> QED BY <1>19, <2>1, <2>2
  <1>23. TypeOK' /\ \A r \in Procs : Shape(pc'[r], c'[r], cwd'[r])
    <2>1. TypeOK'
      BY <1>2, <1>3 DEF TypeOK
    <2>2. ASSUME NEW r \in Procs PROVE Shape(pc'[r], c'[r], cwd'[r])
      <3>1. Shape(pc[r], c[r], cwd[r])
        BY DEF IInv
      <3>2. CASE r = q
        <4>1. pc'[r] = pc[r] /\ c'[r] = c[r] /\ pc[r] = "user" /\ c[r].freeing = 0
          BY <1>2, <3>2
        <4> QED BY <3>1, <4>1 DEF Shape
      <3>3. CASE r # q
        <4>1. pc'[r] = pc[r] /\ c'[r] = c[r] /\ cwd'[r] = cwd[r]
          BY <1>2, <1>3, <3>3
        <4> QED BY <3>1, <4>1
      <3> QED BY <3>2, <3>3
    <2> QED BY <2>1, <2>2
  <1>24. FilesOK'
    <2>0. ofile' \in Descs
      BY <1>6, Numbers DEF Files
    <2>1. ASSUME NEW k \in Files
          PROVE  fs'.file[k].ref = Open(ofile', k) /\ (fs'.file[k].ref = 0 => fs'.file[k].ip = 0)
      <3>1. fs'.file[k] = F[k]
        BY <1>12, <1>18, <1>20
      <3> QED BY <1>1, <1>6, <1>8, <3>1
    <2>2. \A r \in Procs : cwd'[r] = 0 => \A a \in Fds : ofile'[r][a] = 0
      <3>1. ASSUME NEW r \in Procs, cwd'[r] = 0 PROVE \A a \in Fds : ofile'[r][a] = 0
        <4>1. r # q
          BY <1>2, <1>3, <3>1
        <4>2. cwd'[r] = cwd[r] /\ ofile'[r] = ofile[r]
          BY <1>1, <1>2, <1>3, <4>1 DEF Descs
        <4> QED BY <1>1, <3>1, <4>2
      <3> QED BY <3>1
    <2> QED BY <2>0, <2>1, <2>2, FilesEnd
  <1> QED BY <1>22, <1>23, <1>24 DEF IInv

-----------------------------------------------------------------------------
(* The system starts.                                                      *)

None == [p \in Procs |-> 0]
Unlocked == [p \in Procs |-> {}]
IdleCalls == [p \in Procs |-> Idle]
InitCwd == [p \in Procs |-> IF p = initproc THEN ROOTINO ELSE 0]
NoDescs == [p \in Procs |-> [d \in Fds |-> 0]]

\* The tables y of a kernel that has just started.
Booted(y) ==
  /\ y \in FsRec /\ y.ref = [i \in Inodes |-> IF i = ROOTINO THEN 1 ELSE 0]
  /\ y.valid = [i \in Inodes |-> FALSE] /\ y.lk = [i \in Inodes |-> Nobody]
  /\ y.file = [f \in Files |-> NoFile]

\* After boot the only reference is init's working directory, ...
LEMMA BootHeld ==
  ASSUME NEW y, Booted(y), NEW h, h = Held(y, IdleCalls, InitCwd)
  PROVE  \A t \in Places : h[t] = IF t = <<initproc, "cwd">> THEN ROOTINO ELSE 0
  <1>1. ASSUME NEW t \in Places
        PROVE  RefAt(t, y, IdleCalls, InitCwd) = IF t = <<initproc, "cwd">> THEN ROOTINO ELSE 0
    <2>1. CASE t[2] = "file"
      <3>1. t[1] \in Files /\ t # <<initproc, "cwd">>
        BY <2>1 DEF Places, Kinds
      <3>2. y.file[t[1]].ip = 0
        BY <3>1 DEF Booted, NoFile
      <3> QED BY <2>1, <3>1, <3>2 DEF RefAt
    <2>2. CASE t[2] = "cwd"
      <3>1. t[1] \in Procs /\ (t = <<initproc, "cwd">> <=> t[1] = initproc)
        BY <2>2 DEF Places, Kinds
      <3> QED BY <2>2, <3>1 DEF RefAt, InitCwd
    <2>3. CASE t[2] # "file" /\ t[2] # "cwd"
      <3>1. t[1] \in Procs /\ t # <<initproc, "cwd">>
        BY <2>3 DEF Places, Kinds
      <3>2. IdleCalls[t[1]] = Idle
        BY <3>1 DEF IdleCalls
      <3> QED BY <2>3, <3>1, <3>2, IdleIs DEF RefAt
    <2> QED BY <2>1, <2>2, <2>3
  <1> QED BY <1>1 DEF Held

\* ... so that counts and locks are right, ...
LEMMA BootCore ==
  ASSUME NEW y, Booted(y), DotDotFree => DiskOK(y, None)
  PROVE  Core(y, Held(y, IdleCalls, InitCwd), Unlocked, None, None, {})
  <1>1. PICK h : h = Held(y, IdleCalls, InitCwd)
    OBVIOUS
  <1>2. \A t \in Places : h[t] = IF t = <<initproc, "cwd">> THEN ROOTINO ELSE 0
    BY <1>1, BootHeld
  <1>3. PICK s \in Places : s = <<initproc, "cwd">>
    BY FsAssumption, PlaceOf
  <1>4. h \in [Places -> Refs]
    <2>1. \A t \in Places : h[t] \in Refs
      BY <1>2, Numbers
    <2> QED BY <1>1, <2>1 DEF Held
  <1>5. ASSUME NEW j \in Inodes PROVE y.ref[j] = Cardinality(To(h, j))
    <2>1. CASE j = ROOTINO
      <3>1. To(h, j) = {s}
        BY <1>2, <1>3, <2>1, Numbers DEF To
      <3>2. Cardinality({s}) = 1
        BY FS_Singleton
      <3>3. y.ref[j] = 1
        BY <2>1 DEF Booted
      <3> QED BY <3>1, <3>2, <3>3
    <2>2. CASE j # ROOTINO
      <3>1. To(h, j) = {}
        BY <1>2, <2>2, Numbers DEF To
      <3>2. Cardinality({}) = 0
        BY FS_EmptySet
      <3>3. y.ref[j] = 0
        BY <2>2 DEF Booted
      <3> QED BY <3>1, <3>2, <3>3
    <2> QED BY <2>1, <2>2
  <1>6. RefCore(y, h)
    BY <1>4, <1>5 DEF RefCore, Booted
  <1>7. Unlocked \in [Procs -> SUBSET Inodes] /\ None \in [Procs -> Refs]
    BY Numbers DEF Unlocked, None
  <1>8. ASSUME DotDotFree PROVE Deep(y, h, Unlocked, None, None, {})
    <2>1. DiskOK(y, None)
      BY <1>8
    <2>2. \A p \in Procs : h[<<p, "dp">>] = 0 /\ h[<<p, "old">>] = 0 /\ h[<<p, "freeing">>] = 0
      BY <1>2, PlaceOf
    <2>3. HoldOK(y, h)
      <3>1. y.dtype[ROOTINO] = "dir"
        BY <2>1 DEF DiskOK, EntsOK
      <3>2. \A t \in Places : h[t] # 0 => y.dtype[h[t]] # "none"
        BY <1>2, <3>1
      <3> QED BY <2>2, <3>2 DEF HoldOK
    <2>4. FreeOK(h)
      BY <2>2 DEF FreeOK
    <2>5. LockOK(y, h, Unlocked)
      BY DEF LockOK, Unlocked, Booted
    <2>6. CopyOK(y, h)
      BY DEF CopyOK, Booted
    <2>7. ExtraOK(h, None) /\ NewOK(y, h, None) /\ SeenOK(y, Unlocked, {})
      BY DEF ExtraOK, NewOK, SeenOK, None
    <2> QED BY <2>1, <2>3, <2>4, <2>5, <2>6, <2>7 DEF Deep
  <1> QED BY <1>1, <1>6, <1>7, <1>8 DEF Core

\* ... no file is open ...
LEMMA BootFiles ==
  ASSUME NEW y, Booted(y)
  PROVE  /\ NoDescs \in Descs
         /\ \A f \in Files : y.file[f].ref = Open(NoDescs, f) /\ (y.file[f].ref = 0 => y.file[f].ip = 0)
         /\ \A p \in Procs, d \in Fds : NoDescs[p][d] = 0
  <1>1. NoDescs \in Descs /\ \A p \in Procs, d \in Fds : NoDescs[p][d] = 0
    BY Numbers DEF NoDescs, Descs
  <1>2. ASSUME NEW f \in Files PROVE y.file[f].ref = Open(NoDescs, f) /\ (y.file[f].ref = 0 => y.file[f].ip = 0)
    <2>1. {s \in Procs \X Fds : NoDescs[s[1]][s[2]] = f} = {}
      BY <1>1, Numbers
    <2>2. Cardinality({}) = 0
      BY FS_EmptySet
    <2>3. Open(NoDescs, f) = 0
      BY <2>1, <2>2 DEF Open
    <2> QED BY <2>3 DEF Booted, NoFile
  <1> QED BY <1>1, <1>2

\* What the parts of the invariant are when nobody is in a call.
AllIdle(P, C, W) ==
  /\ P \in [Procs -> Pcs] /\ C \in [Procs -> CallRec] /\ W \in [Procs -> Refs]
  /\ \A p \in Procs : Shape(P[p], C[p], W[p])
  /\ [p \in Procs |-> LockedAt(P[p], C[p])] = Unlocked
  /\ [p \in Procs |-> ExtraAt(P[p], C[p])] = None
  /\ [p \in Procs |-> NewAt(P[p], C[p])] = None
  /\ UNION {SeenAt(p, P[p], C[p]) : p \in Procs} = {}
\* ... and no call is in progress.
LEMMA IdleGhosts ==
  ASSUME NEW P, P = [p \in Procs |-> "user"]
  PROVE  AllIdle(P, IdleCalls, InitCwd)
  <1>1. \A p \in Procs : P[p] = "user" /\ IdleCalls[p] = Idle
    BY DEF IdleCalls
  <1>2. P \in [Procs -> Pcs] /\ IdleCalls \in [Procs -> CallRec] /\ InitCwd \in [Procs -> Refs]
    BY IdleIs, Numbers DEF IdleCalls, InitCwd
  <1>3. \A p \in Procs : Shape(P[p], IdleCalls[p], InitCwd[p])
    BY <1>1, IdleIs
  <1>4. [p \in Procs |-> LockedAt(P[p], IdleCalls[p])] = Unlocked
    BY <1>1, IdleIs DEF Unlocked
  <1>5. [p \in Procs |-> ExtraAt(P[p], IdleCalls[p])] = None
    BY <1>1, IdleIs DEF None
  <1>6. [p \in Procs |-> NewAt(P[p], IdleCalls[p])] = None
    BY <1>1, IdleIs DEF None
  <1>7. \A p \in Procs : SeenAt(p, P[p], IdleCalls[p]) = {}
    BY <1>1 DEF SeenAt
  <1>8. UNION {SeenAt(p, P[p], IdleCalls[p]) : p \in Procs} = {}
    BY <1>7
  <1> QED BY <1>2, <1>3, <1>4, <1>5, <1>6, <1>8 DEF AllIdle

\* The disk mkfs makes, booted.
LEMMA MkfsBooted == Booted(Boot(Mkfs)) /\ SameDisk(Mkfs, Boot(Mkfs)) /\ Boot(Mkfs).panic = FALSE
  <1>1. PICK y : y = Boot(Mkfs)
    OBVIOUS
  <1>2. /\ y.dtype = Mkfs.dtype /\ y.dnlink = Mkfs.dnlink /\ y.ents = Mkfs.ents /\ y.lost = Mkfs.lost
        /\ y.ref = [i \in Inodes |-> IF i = ROOTINO THEN 1 ELSE 0]
        /\ y.valid = [i \in Inodes |-> FALSE] /\ y.lk = [i \in Inodes |-> Nobody]
        /\ y.type = [i \in Inodes |-> "none"] /\ y.nlink = [i \in Inodes |-> 0]
        /\ y.file = [f \in Files |-> NoFile] /\ y.panic = FALSE
        /\ y = [dtype |-> y.dtype, dnlink |-> y.dnlink, ents |-> y.ents, lost |-> y.lost, ref |-> y.ref,
                valid |-> y.valid, type |-> y.type, nlink |-> y.nlink, lk |-> y.lk, file |-> y.file,
                panic |-> y.panic]
    BY <1>1 DEF Boot, Mkfs
  <1>3. /\ y.dtype \in [Inodes -> Types] /\ y.dnlink \in [Inodes -> Int] /\ y.lost \in [Inodes -> Int]
        /\ y.ref \in [Inodes -> Int] /\ y.valid \in [Inodes -> BOOLEAN] /\ y.type \in [Inodes -> Types]
        /\ y.nlink \in [Inodes -> Int] /\ y.lk \in [Inodes -> Procs \cup {Nobody}] /\ y.panic \in BOOLEAN
    <2>1. y.dtype = [i \in Inodes |-> IF i = ROOTINO THEN "dir" ELSE "none"]
          /\ y.dnlink = [i \in Inodes |-> IF i = ROOTINO THEN 1 ELSE 0] /\ y.lost = [i \in Inodes |-> 0]
      BY <1>2 DEF Mkfs
    <2>2. y.dtype \in [Inodes -> Types] /\ y.type \in [Inodes -> Types]
      BY <1>2, <2>1 DEF Types
    <2>3. y.dnlink \in [Inodes -> Int] /\ y.lost \in [Inodes -> Int] /\ y.ref \in [Inodes -> Int]
          /\ y.nlink \in [Inodes -> Int]
      BY <1>2, <2>1
    <2>4. y.valid \in [Inodes -> BOOLEAN] /\ y.panic \in BOOLEAN
      BY <1>2
    <2>5. y.lk \in [Inodes -> Procs \cup {Nobody}]
      BY <1>2
    <2> QED BY <2>2, <2>3, <2>4, <2>5
  <1>4. y.ents \in [Inodes -> DirRec]
    <2>1. NoEnts \in DirRec /\ [NoEnts EXCEPT ![".."] = ROOTINO] \in DirRec
      BY NoEntsType, Numbers DEF DirRec
    <2> QED BY <1>2, <2>1 DEF Mkfs
  <1>5. y.file \in [Files -> FileRec]
    <2>1. NoFile \in FileRec
      BY Numbers DEF NoFile, FileRec
    <2> QED BY <1>2, <2>1
  <1>6. y \in FsRec
    BY <1>2, <1>3, <1>4, <1>5 DEF FsRec
  <1> QED BY <1>1, <1>2, <1>6 DEF Booted, SameDisk

\* The disk that mkfs makes.
LEMMA MkfsDisk ==
  ASSUME NEW y, SameDisk(Mkfs, y), y.panic = FALSE
  PROVE  DiskOK(y, None)
  <1>1. /\ \A i \in Inodes : y.dtype[i] = (IF i = ROOTINO THEN "dir" ELSE "none")
        /\ \A i \in Inodes : y.dnlink[i] = (IF i = ROOTINO THEN 1 ELSE 0)
        /\ \A i \in Inodes : y.lost[i] = 0
    BY DEF SameDisk, Mkfs
  <1>2. \A d \in Inodes, n \in Names : y.ents[d][n] = 0
    <2>1. \A n \in Names : NoEnts[n] = 0 /\ [NoEnts EXCEPT ![".."] = ROOTINO][n] = 0
      BY FsAssumption DEF NoEnts
    <2> QED BY <2>1 DEF SameDisk, Mkfs
  <1>3. EntsOK(y)
    BY <1>1, <1>2, Numbers DEF EntsOK
  <1>4. Acyclic(y.ents)
    <2>1. ASSUME NEW D \in SUBSET Inodes, \A d \in D : \E n \in Names : y.ents[d][n] \in D PROVE D = {}
      BY <1>2, <2>1, Numbers
    <2> QED BY <2>1 DEF Acyclic
  <1>5. ASSUME NEW i \in Inodes PROVE LinksOf(y, i) + Cardinality(Pending(None, i)) = IF i = ROOTINO THEN 1 ELSE 0
    <2>1. i # 0
      BY Numbers
    <2>2. EntriesOf(y.ents, i) = {}
      BY <1>2, <2>1 DEF EntriesOf
    <2>3. SubdirsOf(y.ents, y.dtype, i) = {}
      BY <1>2 DEF SubdirsOf
    <2>4. Pending(None, i) = {}
      BY <2>1 DEF Pending, None
    <2>5. Cardinality({}) = 0 /\ y.lost[i] = 0
      BY <1>1, FS_EmptySet
    <2>6. LinksOf(y, i) = IF i = ROOTINO THEN 1 ELSE 0
      BY <2>2, <2>3, <2>5 DEF LinksOf
    <2> QED BY <2>4, <2>5, <2>6
  <1>6. LinkOK(y, None)
    BY <1>1, <1>5 DEF LinkOK
  <1> QED BY <1>3, <1>4, <1>6 DEF DiskOK

\* The invariant holds at first.
LEMMA InitInv == Init => IInv
  <1> SUFFICES ASSUME Init PROVE IInv
    OBVIOUS
  <1>1. Booted(fs) /\ (DotDotFree => DiskOK(fs, None))
    BY MkfsBooted, MkfsDisk DEF Init
  <1>2. pc = [p \in Procs |-> "user"] /\ c = IdleCalls /\ cwd = InitCwd /\ ofile = NoDescs
    BY DEF Init, Rebooted, IdleCalls, InitCwd, NoDescs
  <1>3. Core(fs, Held(fs, c, cwd), Unlocked, None, None, {})
    BY <1>1, <1>2, BootCore
  <1>4. /\ pc \in [Procs -> Pcs] /\ c \in [Procs -> CallRec] /\ cwd \in [Procs -> Refs]
        /\ \A p \in Procs : Shape(pc[p], c[p], cwd[p])
        /\ Locked = Unlocked /\ Extra = None /\ New = None /\ Seen = {}
    <2>1. AllIdle(pc, c, cwd)
      BY <1>2, IdleGhosts
    <2> QED BY <2>1 DEF AllIdle, Locked, Extra, New, Seen
  <1>5. FilesOK
    BY <1>1, <1>2, BootFiles DEF FilesOK, Open, Descs
  <1> QED BY <1>3, <1>4, <1>5 DEF IInv, TypeOK

\* A crash keeps the disk and nothing else; no call was in progress.
LEMMA CrashStep ==
  ASSUME IInv, crash
  PROVE  IInv'
  <1>1. PICK y : y = Boot(fs)
    OBVIOUS
  <1>2. fs \in FsRec
    BY FilesAre
  <1>3. Booted(y) /\ SameDisk(fs, y) /\ y.panic = fs.panic
    <2>1. NoFile \in FileRec /\ "none" \in Types
      BY Numbers DEF NoFile, FileRec, Types
    <2>2. PICK R : R = [i \in Inodes |-> IF i = ROOTINO THEN 1 ELSE 0]
      OBVIOUS
    <2>3. PICK A : A = [i \in Inodes |-> FALSE]
      OBVIOUS
    <2>4. PICK T : T = [i \in Inodes |-> "none"]
      OBVIOUS
    <2>5. PICK N : N = [i \in Inodes |-> 0]
      OBVIOUS
    <2>6. PICK L : L = [i \in Inodes |-> Nobody]
      OBVIOUS
    <2>7. PICK F : F = [f \in Files |-> NoFile]
      OBVIOUS
    <2>8. y = [fs EXCEPT !.ref = R, !.valid = A, !.type = T, !.nlink = N, !.lk = L, !.file = F]
      BY <1>1, <2>2, <2>3, <2>4, <2>5, <2>6, <2>7 DEF Boot
    <2>9. /\ R \in [Inodes -> Int] /\ T \in [Inodes -> Types] /\ N \in [Inodes -> Int]
          /\ L \in [Inodes -> Procs \cup {Nobody}] /\ F \in [Files -> FileRec]
      BY <2>1, <2>2, <2>4, <2>5, <2>6, <2>7
    <2>10. A \in [Inodes -> BOOLEAN]
      BY <2>3
    <2>11. /\ y \in FsRec /\ SameDisk(fs, y) /\ y.panic = fs.panic
           /\ y.ref = R /\ y.valid = A /\ y.lk = L /\ y.file = F
      BY <1>2, <2>8, <2>9, <2>10 DEF FsRec, SameDisk
    <2> QED BY <2>2, <2>3, <2>6, <2>7, <2>11 DEF Booted
  <1>4. ASSUME DotDotFree PROVE DiskOK(y, None)
    <2>1. DiskOK(fs, Extra)
      BY <1>4, CoreTypes DEF IInv, Deep
    <2>2. Extra = None
      BY DEF crash, Extra, ExtraAt, None
    <2> QED BY <1>3, <2>1, <2>2, DiskSame
  <1>5. fs' = y /\ pc' = [p \in Procs |-> "user"] /\ c' = IdleCalls /\ cwd' = InitCwd /\ ofile' = NoDescs
    BY <1>1 DEF crash, IdleCalls, InitCwd, NoDescs
  <1>6. Core(y, Held(y, IdleCalls, InitCwd), Unlocked, None, None, {})
    BY <1>3, <1>4, BootCore
  <1>7. /\ pc' \in [Procs -> Pcs] /\ c' \in [Procs -> CallRec] /\ cwd' \in [Procs -> Refs]
        /\ \A p \in Procs : Shape(pc'[p], c'[p], cwd'[p])
        /\ Locked' = Unlocked /\ Extra' = None /\ New' = None /\ Seen' = {}
    <2>1. PICK P : P = [p \in Procs |-> "user"]
      OBVIOUS
    <2>2. AllIdle(P, IdleCalls, InitCwd)
      BY <2>1, IdleGhosts
    <2>3. pc' = P /\ c' = IdleCalls /\ cwd' = InitCwd
      BY <1>5, <2>1
    <2>4. Locked' = Unlocked /\ Extra' = None
      BY <2>2, <2>3 DEF Locked, Extra, AllIdle
    <2>5. New' = None /\ Seen' = {}
      BY <2>2, <2>3 DEF New, Seen, AllIdle
    <2> QED BY <2>2, <2>3, <2>4, <2>5 DEF AllIdle
  <1>8. FilesOK'
    BY <1>3, <1>5, BootFiles, FilesEnd
  <1> QED BY <1>5, <1>6, <1>7, <1>8 DEF IInv, TypeOK

-----------------------------------------------------------------------------
(* The invariant is inductive.                                             *)

\* The types of paths.
LEMMA PathType ==
  ASSUME NEW w \in DOMAIN Paths, NEW path \in Paths[w]
  PROVE  path \in PathRec
  <1>1. path \in [abs : BOOLEAN, els : Seq(Names \cup {".", ".."})]
    BY FsAssumption
  <1>2. path.els \in Seq(Elems)
    BY <1>1 DEF Elems, DotDotFree
  <1> QED BY <1>1, <1>2 DEF PathRec

\* Nothing changes.
LEMMA StutterStep ==
  ASSUME IInv, UNCHANGED vars
  PROVE  IInv'
  <1>1. fs' = fs /\ pc' = pc /\ c' = c /\ cwd' = cwd /\ ofile' = ofile
    BY DEF vars
  <1>2. TypeOK' /\ FilesOK' /\ \A p \in Procs : Shape(pc'[p], c'[p], cwd'[p])
    BY <1>1 DEF IInv, TypeOK, FilesOK
  <1>3. Locked' = Locked /\ Extra' = Extra /\ New' = New /\ Seen' = Seen
    BY <1>1 DEF Locked, Extra, New, Seen
  <1>4. Core(fs', Held(fs', c', cwd'), Locked', Extra', New', Seen')
    BY <1>1, <1>3 DEF IInv
  <1> QED BY <1>2, <1>4 DEF IInv

\* Every step keeps the invariant.
LEMMA NextInv == IInv /\ [Next]_vars => IInv'
  <1> SUFFICES ASSUME IInv, [Next]_vars PROVE IInv'
    OBVIOUS
  <1>0. Root \in PathRec
    BY DEF Root, PathRec
  <1>1. ASSUME NEW p \in Procs, NEW what \in {"open", "openw", "create", "mkdir", "mknod", "unlink", "chdir"},
               NEW path \in Paths[what], call(p, what, path, Root)
        PROVE  IInv'
    <2>1. what \in DOMAIN Paths
      BY FsAssumption
    <2> QED BY <1>0, <1>1, <2>1, CallStep
  <1>2. ASSUME NEW p \in Procs, NEW path \in Paths["link"], NEW new \in Paths["new"],
               call(p, "link", path, new)
        PROVE  IInv'
    <2>1. "link" \in DOMAIN Paths /\ "new" \in DOMAIN Paths
      BY FsAssumption
    <2>2. new \in PathRec
      BY <2>1, PathType
    <2> QED BY <1>2, <2>1, <2>2, CallStep
  <1>3. ASSUME NEW p \in Procs, iput_end(p) \/ namex(p) \/ put_parent(p) \/ open_found(p)
        PROVE  IInv'
    BY <1>3, IputEndStep, NamexStep, PutParentStep, OpenFoundStep
  <1>4. ASSUME NEW p \in Procs, create(p) \/ exists(p) \/ create_new(p) \/ made(p) \/ opened(p)
        PROVE  IInv'
    BY <1>4, CreateStep, ExistsStep, CreateNewStep, MadeStep, OpenedStep
  <1>5. ASSUME NEW p \in Procs, unlink(p) \/ unlink2(p) \/ unlink3(p)
        PROVE  IInv'
    BY <1>5, UnlinkStep, Unlink2Step, Unlink3Step
  <1>6. ASSUME NEW p \in Procs, link_found(p) \/ link_parent(p) \/ link_put(p) \/ link_bad(p)
        PROVE  IInv'
    BY <1>6, LinkFoundStep, LinkParentStep, LinkPutStep, LinkBadStep
  <1>7. ASSUME NEW p \in Procs, chdir(p) \/ sys_pipe(p) \/ exit(p)
        PROVE  IInv'
    BY <1>7, ChdirStep, PipeStep, ExitStep
  <1>8. ASSUME NEW p \in Procs, NEW d \in Fds, close(p, d) \/ dup(p, d) \/ filestat(p, d)
        PROVE  IInv'
    BY <1>8, CloseStep, DupStep, FilestatStep
  <1>9. ASSUME NEW p \in Procs, NEW q \in Procs, fork(p, q)
        PROVE  IInv'
    BY <1>9, ForkStep
  <1>10. ASSUME crash PROVE IInv'
    BY <1>10, CrashStep
  <1>11. ASSUME UNCHANGED vars PROVE IInv'
    BY <1>11, StutterStep
  <1> QED BY <1>1, <1>2, <1>3, <1>4, <1>5, <1>6, <1>7, <1>8, <1>9, <1>10, <1>11 DEF Next

\* Every call of fs.c, file.c and sysfile.c, taken in the steps between which
\* other processes run, keeps the accounts of IInv: of the references, links
\* and locks that each process has in its hands at each of its places.
THEOREM Invariant == Spec => []IInv
  <1>1. Init => IInv
    BY InitInv
  <1>2. IInv /\ [Next]_vars => IInv'
    BY NextInv
  <1> QED BY <1>1, <1>2, PTL DEF Spec

-----------------------------------------------------------------------------
(* References are counted.                                                 *)

\* The places of another kind add to the others.
LEMMA AddKind ==
  ASSUME NEW U, IsFiniteSet(U), NEW S, IsFiniteSet(S), NEW e, \A t \in U : t[2] # e
  PROVE  /\ IsFiniteSet(U \cup (S \X {e})) /\ Cardinality(S) \in Nat /\ Cardinality(U) \in Nat
         /\ Cardinality(U \cup (S \X {e})) = Cardinality(U) + Cardinality(S)
  <1>1. PICK T : T = S \X {e}
    OBVIOUS
  <1>2. IsFiniteSet({e}) /\ Cardinality({e}) = 1
    BY FS_Singleton
  <1>3. IsFiniteSet(T) /\ Cardinality(T) = Cardinality(S) * Cardinality({e})
    BY <1>1, <1>2, FS_Product
  <1>4. Cardinality(S) \in Nat /\ Cardinality(U) \in Nat
    BY FS_CardinalityType
  <1>5. U \cap T = {}
    BY <1>1
  <1>6. Cardinality(U \cap T) = 0
    BY <1>5, FS_EmptySet
  <1>7. IsFiniteSet(U \cup T) /\ Cardinality(U \cup T) = Cardinality(U) + Cardinality(T) - Cardinality(U \cap T)
    BY <1>3, FS_Union
  <1>8. Cardinality(T) = Cardinality(S)
    BY <1>2, <1>3, <1>4
  <1> QED BY <1>1, <1>4, <1>6, <1>7, <1>8

\* The references to an inode, kind by kind.
LEMMA RefSum ==
  ASSUME NEW x, NEW C, NEW W, NEW i \in Inodes
  PROVE  Cardinality(To(Held(x, C, W), i)) =
           Cardinality({p \in Procs : W[p] = i}) + Cardinality({f \in Files : x.file[f].ip = i})
           + Cardinality({p \in Procs : C[p].ip = i}) + Cardinality({p \in Procs : C[p].dp = i})
           + Cardinality({p \in Procs : C[p].old = i}) + Cardinality({p \in Procs : C[p].freeing = i})
  <1>1. PICK A : A = {p \in Procs : W[p] = i}
    OBVIOUS
  <1>2. PICK B : B = {f \in Files : x.file[f].ip = i}
    OBVIOUS
  <1>3. PICK D : D = {p \in Procs : C[p].ip = i}
    OBVIOUS
  <1>4. PICK E : E = {p \in Procs : C[p].dp = i}
    OBVIOUS
  <1>5. PICK F : F = {p \in Procs : C[p].old = i}
    OBVIOUS
  <1>6. PICK G : G = {p \in Procs : C[p].freeing = i}
    OBVIOUS
  <1>7. /\ IsFiniteSet(A) /\ IsFiniteSet(B) /\ IsFiniteSet(D) /\ IsFiniteSet(E) /\ IsFiniteSet(F)
        /\ IsFiniteSet(G)
    <2>1. IsFiniteSet(Procs) /\ IsFiniteSet(Files)
      BY FsAssumption, Numbers, FS_Interval DEF Files
    <2>2. A \in SUBSET Procs /\ D \in SUBSET Procs /\ E \in SUBSET Procs /\ F \in SUBSET Procs
          /\ G \in SUBSET Procs /\ B \in SUBSET Files
      BY <1>1, <1>2, <1>3, <1>4, <1>5, <1>6
    <2> QED BY <2>1, <2>2, FS_Subset
  <1>u. PICK U : U = {}
    OBVIOUS
  <1>8. IsFiniteSet(U) /\ Cardinality(U) = 0 /\ \A t \in U : t[2] # "cwd"
    BY <1>u, FS_EmptySet
  <1>9. PICK U1 : U1 = U \cup (A \X {"cwd"})
    OBVIOUS
  <1>10. IsFiniteSet(U1) /\ Cardinality(U1) = Cardinality(A) /\ Cardinality(A) \in Nat
    <2>1. IsFiniteSet(U1) /\ Cardinality(U1) = Cardinality(U) + Cardinality(A) /\ Cardinality(A) \in Nat
      BY <1>7, <1>8, <1>9, AddKind
    <2> QED BY <1>8, <2>1
  <1>11. PICK U2 : U2 = U1 \cup (B \X {"file"})
    OBVIOUS
  <1>12. IsFiniteSet(U2) /\ Cardinality(U2) = Cardinality(U1) + Cardinality(B) /\ Cardinality(B) \in Nat
    <2>1. \A t \in U1 : t[2] # "file"
      BY <1>9, <1>u
    <2> QED BY <1>7, <1>10, <1>11, <2>1, AddKind
  <1>13. PICK U3 : U3 = U2 \cup (D \X {"ip"})
    OBVIOUS
  <1>14. IsFiniteSet(U3) /\ Cardinality(U3) = Cardinality(U2) + Cardinality(D) /\ Cardinality(D) \in Nat
    <2>1. \A t \in U2 : t[2] # "ip"
      BY <1>9, <1>11, <1>u
    <2> QED BY <1>7, <1>12, <1>13, <2>1, AddKind
  <1>15. PICK U4 : U4 = U3 \cup (E \X {"dp"})
    OBVIOUS
  <1>16. IsFiniteSet(U4) /\ Cardinality(U4) = Cardinality(U3) + Cardinality(E) /\ Cardinality(E) \in Nat
    <2>1. \A t \in U3 : t[2] # "dp"
      BY <1>9, <1>11, <1>13, <1>u
    <2> QED BY <1>7, <1>14, <1>15, <2>1, AddKind
  <1>17. PICK U5 : U5 = U4 \cup (F \X {"old"})
    OBVIOUS
  <1>18. IsFiniteSet(U5) /\ Cardinality(U5) = Cardinality(U4) + Cardinality(F) /\ Cardinality(F) \in Nat
    <2>1. \A t \in U4 : t[2] # "old"
      BY <1>9, <1>11, <1>13, <1>15, <1>u
    <2> QED BY <1>7, <1>16, <1>17, <2>1, AddKind
  <1>19. PICK U6 : U6 = U5 \cup (G \X {"freeing"})
    OBVIOUS
  <1>20. IsFiniteSet(U6) /\ Cardinality(U6) = Cardinality(U5) + Cardinality(G) /\ Cardinality(G) \in Nat
    <2>1. \A t \in U5 : t[2] # "freeing"
      BY <1>9, <1>11, <1>13, <1>15, <1>17, <1>u
    <2> QED BY <1>7, <1>18, <1>19, <2>1, AddKind
  <1>21. To(Held(x, C, W), i) = U6
    <2>0. i # 0
      BY Numbers
    <2>1. ASSUME NEW t PROVE t \in To(Held(x, C, W), i) <=> t \in U6
      <3>1. t \in To(Held(x, C, W), i) <=> t \in Places /\ RefAt(t, x, C, W) = i
        BY DEF To, Held
      <3>2. t \in U6 <=> \/ t \in A \X {"cwd"} \/ t \in B \X {"file"} \/ t \in D \X {"ip"}
                         \/ t \in E \X {"dp"} \/ t \in F \X {"old"} \/ t \in G \X {"freeing"}
        BY <1>u, <1>9, <1>11, <1>13, <1>15, <1>17, <1>19
      <3>3. ASSUME t \in U6 PROVE t \in Places /\ RefAt(t, x, C, W) = i
        <4>1. CASE t \in A \X {"cwd"}
          BY <1>1, <4>1 DEF Places, Kinds, RefAt
        <4>2. CASE t \in B \X {"file"}
          BY <1>2, <4>2 DEF Places, Kinds, RefAt
        <4>3. CASE t \in D \X {"ip"}
          BY <1>3, <4>3 DEF Places, Kinds, RefAt
        <4>4. CASE t \in E \X {"dp"}
          BY <1>4, <4>4 DEF Places, Kinds, RefAt
        <4>5. CASE t \in F \X {"old"}
          BY <1>5, <4>5 DEF Places, Kinds, RefAt
        <4>6. CASE t \in G \X {"freeing"}
          BY <1>6, <4>6 DEF Places, Kinds, RefAt
        <4> QED BY <3>2, <3>3, <4>1, <4>2, <4>3, <4>4, <4>5, <4>6
      <3>4. ASSUME t \in Places, RefAt(t, x, C, W) = i PROVE t \in U6
        <4>1. CASE t \in Files \X {"file"}
          <5>1. PICK f \in Files : t = <<f, "file">>
            BY <4>1
          <5>2. x.file[f].ip = i
            BY <3>4, <5>1 DEF RefAt
          <5> QED BY <1>2, <3>2, <5>1, <5>2
        <4>2. CASE t \in Procs \X Kinds
          <5>1. PICK p \in Procs, e \in Kinds : t = <<p, e>>
            BY <4>2
          <5>2. CASE e = "cwd"
            BY <1>1, <3>2, <3>4, <5>1, <5>2 DEF RefAt
          <5>3. CASE e = "ip"
            BY <1>3, <3>2, <3>4, <5>1, <5>3 DEF RefAt
          <5>4. CASE e = "dp"
            BY <1>4, <3>2, <3>4, <5>1, <5>4 DEF RefAt
          <5>5. CASE e = "old"
            BY <1>5, <3>2, <3>4, <5>1, <5>5 DEF RefAt
          <5>6. CASE e = "freeing"
            BY <1>6, <3>2, <3>4, <5>1, <5>6 DEF RefAt
          <5>7. CASE e = "tmp"
            BY <2>0, <3>4, <5>1, <5>7 DEF RefAt
          <5> QED BY <5>2, <5>3, <5>4, <5>5, <5>6, <5>7 DEF Kinds
        <4> QED BY <3>4, <4>1, <4>2 DEF Places
      <3> QED BY <3>1, <3>3, <3>4
    <2> QED BY <2>1
  <1>22. Cardinality(U6) = Cardinality(A) + Cardinality(B) + Cardinality(D) + Cardinality(E)
                           + Cardinality(F) + Cardinality(G)
    BY <1>10, <1>12, <1>14, <1>16, <1>18, <1>20
  <1> QED BY <1>1, <1>2, <1>3, <1>4, <1>5, <1>6, <1>21, <1>22

\* The count of references is what RefInv says it is.
LEMMA RefInvIs == IInv => RefInv
  <1> SUFFICES ASSUME IInv PROVE RefInv
    OBVIOUS
  <1>1. ASSUME NEW i \in Inodes
        PROVE  fs.ref[i] =
           Cardinality({p \in Procs : cwd[p] = i}) + Cardinality({f \in Files : fs.file[f].ip = i})
           + Cardinality({p \in Procs : c[p].ip = i}) + Cardinality({p \in Procs : c[p].dp = i})
           + Cardinality({p \in Procs : c[p].old = i}) + Cardinality({p \in Procs : c[p].freeing = i})
    <2>1. RefCore(fs, Held(fs, c, cwd))
      BY CoreTypes DEF IInv
    <2>2. fs.ref[i] = Cardinality(To(Held(fs, c, cwd), i))
      BY <2>1 DEF RefCore
    <2> QED BY <2>2, RefSum
  <1>2. \A f \in Files : fs.file[f].ref = Cardinality({s \in Procs \X Fds : ofile[s[1]][s[2]] = f})
    BY DEF IInv, FilesOK
  <1> QED BY <1>1, <1>2 DEF RefInv, Holders

\* An entry of the inode table has as many references (iget, idup, iput) as
\* there are open files, current directories and local pointers to it, and a
\* file as many (filedup, fileclose, fork) as descriptors: iput and fileclose
\* never release what somebody still uses.
THEOREM RefCounts == Spec => []RefInv
  <1>1. IInv => RefInv
    BY RefInvIs
  <1> QED BY <1>1, Invariant, PTL

-----------------------------------------------------------------------------
(* Links, locks and panics, as long as no path has ".." in it.             *)

\* What the invariant says without "..".
LEMMA DeepIs ==
  ASSUME IInv, DotDotFree
  PROVE  Deep(fs, Held(fs, c, cwd), Locked, Extra, New, Seen) /\ fs \in FsRec
  BY CoreTypes DEF IInv

\* The count of links is at least what LinkInv says it is, and exact with no call in progress.
LEMMA LinkInvIs == IInv /\ DotDotFree => LinkInv
  <1> SUFFICES ASSUME IInv, DotDotFree PROVE LinkInv
    OBVIOUS
  <1>1. fs \in FsRec /\ EntsOK(fs) /\ LinkOK(fs, Extra)
    BY DeepIs DEF Deep, DiskOK
  <1>2. ASSUME NEW i \in Inodes, Entries(i) # {} PROVE fs.dtype[i] # "none"
    <2>1. PICK e \in Inodes \X Names : fs.ents[e[1]][e[2]] = i
      BY <1>2 DEF Entries
    <2>2. e[1] \in Inodes /\ e[2] \in Names /\ i # 0
      BY Numbers
    <2> QED BY <1>1, <2>1, <2>2 DEF EntsOK
  <1>3. ASSUME NEW i \in Inodes, fs.dtype[i] # "none"
        PROVE  /\ Links(i) \in Int /\ Cardinality(Pending(Extra, i)) \in Nat
               /\ fs.dnlink[i] = Links(i) + Cardinality(Pending(Extra, i))
    <2>1. fs.lost[i] \in Int
      BY <1>1, FsTypes
    <2>2. /\ Cardinality(EntriesOf(fs.ents, i)) \in Nat
          /\ Cardinality(SubdirsOf(fs.ents, fs.dtype, i)) \in Nat
          /\ Cardinality(Pending(Extra, i)) \in Nat
      BY LinksFinite
    <2>3. LinksOf(fs, i) = Links(i)
      BY DEF LinksOf, Links, Entries, Subdirs, EntriesOf, SubdirsOf
    <2>4. LinksOf(fs, i) \in Int
      BY <2>1, <2>2 DEF LinksOf
    <2> QED BY <1>1, <1>3, <2>2, <2>3, <2>4 DEF LinkOK
  <1>4. ASSUME \A p \in Procs : pc[p] \in {"user", "exit"}, NEW i \in Inodes
        PROVE  Cardinality(Pending(Extra, i)) = 0
    <2>1. \A p \in Procs : Extra[p] = 0
      BY <1>4 DEF Extra, ExtraAt
    <2>2. Pending(Extra, i) = {}
      BY <2>1, Numbers DEF Pending
    <2> QED BY <2>2, FS_EmptySet
  <1>5. ASSUME NEW i \in Inodes, fs.dtype[i] # "none" PROVE fs.dnlink[i] >= Links(i)
    BY <1>3, <1>5
  <1>6. ASSUME \A p \in Procs : pc[p] \in {"user", "exit"}, NEW i \in Inodes, fs.dtype[i] # "none"
        PROVE  fs.dnlink[i] = Links(i)
    <2>1. Cardinality(Pending(Extra, i)) = 0
      BY <1>4, <1>6
    <2> QED BY <1>3, <1>6, <2>1
  <1> QED BY <1>2, <1>5, <1>6 DEF LinkInv

\* No panic.
LEMMA NoPanicIs == IInv /\ DotDotFree => NoPanic
  BY DeepIs DEF Deep, DiskOK, NoPanic

\* Who waits for a lock, and holds one that somebody waits for, waits for an inode entered, or
\* about to be entered, in the directory that it holds.
LEMMA HolderAt ==
  ASSUME IInv, DotDotFree, NEW w \in Inodes, NEW q \in Procs, fs.lk[w] = q, Wanted(q) # 0
  PROVE  /\ pc[q] \in {"new", "unlink2"} /\ w = c[q].dp /\ Wanted(q) = c[q].ip
         /\ w \in Locked[q]
  <1>1. PICK h : h = Held(fs, c, cwd)
    OBVIOUS
  <1>2. LockOK(fs, h, Locked)
    BY <1>1, DeepIs DEF Deep
  <1>3. q # Nobody
    BY FsAssumption
  <1>4. c[q].freeing = 0
    BY DEF Wanted
  <1>5. h[<<q, "freeing">>] = 0
    BY <1>1, <1>4, PlaceOf DEF Held, RefAt
  <1>6. w \in Locked[q]
    <2>1. w # 0
      BY Numbers
    <2>2. ~ BeingFreed(fs, h, w)
      BY <1>5, <2>1 DEF BeingFreed
    <2> QED BY <1>2, <1>3, <2>2 DEF LockOK
  <1>7. Locked[q] = LockedAt(pc[q], c[q])
    BY DEF Locked
  <1>8. pc[q] \in {"namex", "found", "exists", "new", "unlink2", "parent", "link_bad"}
    BY <1>4 DEF Wanted
  <1>9. pc[q] \in {"new", "unlink2"} /\ w = c[q].dp
    BY <1>6, <1>7, <1>8 DEF LockedAt
  <1>10. Wanted(q) = c[q].ip
    BY <1>4, <1>9 DEF Wanted
  <1> QED BY <1>6, <1>9, <1>10

\* Whoever holds a lock another process waits for, and waits himself, has a directory locked and waits
\* for an inode in it, or for one he has just made: a circle of these would be one of directories.
LEMMA NoDeadlockIs == IInv /\ DotDotFree => NoDeadlock
  <1> SUFFICES ASSUME IInv, DotDotFree, NEW S \in SUBSET Procs, S # {},
                      \A p \in S : Wanted(p) # 0 /\ fs.lk[Wanted(p)] \in S
               PROVE  FALSE
    BY DEF NoDeadlock
  <1>1. PICK h : h = Held(fs, c, cwd)
    OBVIOUS
  <1>2. NewOK(fs, h, New) /\ SeenOK(fs, Locked, Seen) /\ Acyclic(fs.ents)
    BY <1>1, DeepIs DEF Deep, DiskOK
  <1>3. ASSUME NEW p \in S PROVE Wanted(p) \in Inodes
    <2>1. Wanted(p) \in {0, c[p].ip, c[p].dp, c[p].old}
      BY DEF Wanted
    <2>2. c[p].ip \in Refs /\ c[p].dp \in Refs /\ c[p].old \in Refs
      BY Here
    <2> QED BY <2>1, <2>2, Numbers
  <1>4. PICK D : D = {Wanted(p) : p \in S}
    OBVIOUS
  <1>5. D \in SUBSET Inodes /\ D # {}
    BY <1>3, <1>4
  <1>6. ASSUME NEW d \in D PROVE \E n \in Names : fs.ents[d][n] \in D
    <2>1. PICK p \in S : d = Wanted(p)
      BY <1>4, <1>6
    <2>2. PICK q \in S : q = fs.lk[d]
      BY <2>1
    <2>3. q \in Procs /\ d \in Inodes /\ Wanted(q) # 0 /\ Wanted(q) \in D
      BY <1>4, <1>5, <2>2
    <2>4. pc[q] \in {"new", "unlink2"} /\ d = c[q].dp /\ Wanted(q) = c[q].ip /\ d \in Locked[q]
      BY <2>2, <2>3, HolderAt
    <2>5. CASE pc[q] = "unlink2"
      <3>1. <<q, d, c[q].name, c[q].ip>> \in SeenAt(q, pc[q], c[q])
        BY <2>4, <2>5 DEF SeenAt
      <3>2. PICK s : s = <<q, d, c[q].name, c[q].ip>>
        OBVIOUS
      <3>3. s \in Seen
        BY <2>3, <3>1, <3>2 DEF Seen
      <3>4. s \in Procs \X Inodes \X Names \X Refs /\ fs.ents[s[2]][s[3]] = s[4]
        BY <1>2, <3>3 DEF SeenOK
      <3>5. c[q].name \in Names /\ fs.ents[d][c[q].name] = c[q].ip
        BY <3>2, <3>4
      <3> QED BY <2>3, <2>4, <3>5
    <2>6. CASE pc[q] = "new"
      <3>1. PICK v \in Inodes : v = Wanted(q) /\ v = New[q]
        BY <1>5, <2>3, <2>4, <2>6 DEF New, NewAt
      <3>2. PICK r \in S : r = fs.lk[v]
        BY <3>1
      <3>3. r \in Procs /\ Wanted(r) # 0
        BY <3>2
      <3>4. v = c[r].dp
        BY <3>1, <3>2, <3>3, HolderAt
      <3>5. PICK t \in Places : t = <<r, "dp">>
        BY <3>3, PlaceOf
      <3>6. h[t] = v
        BY <1>1, <3>4, <3>5 DEF Held, RefAt
      <3>7. v # 0
        BY Numbers
      <3>8. \A u \in Places : h[u] = v => u = <<q, "ip">> \/ u[2] = "freeing"
        <4>1. New[q] # 0
          BY <3>1, <3>7
        <4>2. \A u \in Places : h[u] = New[q] => u = <<q, "ip">> \/ u[2] = "freeing"
          BY <1>2, <2>3, <4>1 DEF NewOK
        <4> QED BY <3>1, <4>2
      <3>9. t # <<q, "ip">> /\ t[2] # "freeing"
        BY <3>5
      <3> QED BY <3>6, <3>8, <3>9
    <2> QED BY <2>4, <2>5, <2>6
  <1> QED BY <1>2, <1>5, <1>6 DEF Acyclic

\* As long as no path has ".." in it, a directory entry names an allocated
\* inode, the inode's link count is never below the number of entries that
\* name it, and the two are equal when no call is in progress, at a crash for
\* example: what create, sys_link and sys_unlink do to entries and to counts in
\* several steps adds up, whatever runs in between.
THEOREM LinksCounted == ASSUME DotDotFree PROVE Spec => []LinkInv
  <1>1. IInv => LinkInv
    BY LinkInvIs
  <1> QED BY <1>1, Invariant, PTL

\* As long as no path has ".." in it, ilock() finds no inode without a type,
\* sys_unlink() none without a link, and iput() nobody holding the lock of the
\* inode it is about to free.
THEOREM NeverPanics == ASSUME DotDotFree PROVE Spec => []NoPanic
  <1>1. IInv => NoPanic
    BY NoPanicIs
  <1> QED BY <1>1, Invariant, PTL

\* As long as no path has ".." in it, the processes asleep in ilock are never
\* all waiting for each other: create and sys_unlink lock a directory before an
\* inode in it, and nobody locks the other way round.
THEOREM DeadlockFree == ASSUME DotDotFree PROVE Spec => []NoDeadlock
  <1>1. IInv => NoDeadlock
    BY NoDeadlockIs
  <1> QED BY <1>1, Invariant, PTL
=============================================================================
