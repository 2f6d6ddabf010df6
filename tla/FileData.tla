------------------------------ MODULE FileData ------------------------------
(***************************************************************************)
(* The content of files: block allocation (balloc, bfree), the direct and  *)
(* indirect addresses of an inode (bmap, itrunc), readi and writei of      *)
(* kernel/fs.c, and fileread and filewrite of kernel/file.c, which cut a   *)
(* write into transactions.                                                *)
(*                                                                         *)
(* A step is one iteration of the loop of writei(), or what a call does    *)
(* before or after that loop; the inode's sleep-lock is held throughout.   *)
(* The at most two balloc() calls of one iteration are one step: a call of *)
(* another process between them could only change which block is taken.    *)
(* The entries of a block are addresses, in an indirect block, or bytes;   *)
(* a zeroed block can be read as both.  The byte a program writes at offset*)
(* o of inode i is Byte(i, o), so that a byte that is misplaced or belongs *)
(* to another file can be told.                                            *)
(***************************************************************************)
EXTENDS Integers, FiniteSets, FiniteSetsExt

CONSTANTS Procs,
          Inodes,
          OPENS,       \* how often each inode is open: its struct files
          NBLOCKS,     \* data blocks of the disk, all covered by one bitmap block
          BSIZE,       \* entries of a block
          NDIRECT, MAXOPBLOCKS,
          UINT,        \* the arithmetic of uint is modulo this
          ReadSizes, WriteSizes, \* arguments n of read() and write(), as uint
          Nobody

NINDIRECT == BSIZE
MAXFILE == NDIRECT + NINDIRECT
Blocks == 1..NBLOCKS
Files == Inodes \X (1..OPENS)

ASSUME FileDataAssumption ==
  /\ BSIZE \in Nat \ {0} /\ NDIRECT \in Nat \ {0} /\ NBLOCKS \in Nat /\ OPENS \in Nat
  /\ MAXOPBLOCKS \in Nat /\ MAXOPBLOCKS >= 6
  /\ UINT \in Nat /\ UINT > 2 * MAXFILE * BSIZE
  /\ ReadSizes \cup WriteSizes \subseteq 0..(UINT - 1) /\ Nobody \notin Procs \cup Inodes

VARIABLES
  bitmap, data,    \* the disk, as seen through the buffer cache
  daddrs, dsize,   \* addresses and size of each inode on disk
  addrs, size,     \* and in the inode table
  ilk,             \* holder of each inode's sleep-lock
  off,             \* f->off of each struct file
  pc, call,        \* per process: control point, and the locals of its call
  wrote            \* per process: blocks its transaction logs, the inode's included

disk == <<bitmap, data, daddrs, dsize>>
vars == <<disk, addrs, size, ilk, off, pc, call, wrote>>

Addr(b) == <<Nobody, b>>
Byte(i, o) == <<i, o>>
Zeroed == [k \in 0..(BSIZE - 1) |-> Addr(0)]
NoAddrs == [k \in 0..NDIRECT |-> 0]
Idle == [f |-> <<Nobody, 0>>, n |-> 0, n1 |-> 0, at |-> 0, tot |-> 0]
Bitmap == 0                 \* the bitmap block, as a block that is logged
InodeBlock == NBLOCKS + 1   \* the block that holds the inodes

Init ==
  /\ bitmap = [b \in Blocks |-> 0] /\ data = [b \in Blocks |-> Zeroed]
  /\ daddrs = [i \in Inodes |-> NoAddrs] /\ dsize = [i \in Inodes |-> 0]
  /\ addrs = daddrs /\ size = dsize
  /\ ilk = [i \in Inodes |-> Nobody] /\ off = [f \in Files |-> 0]
  /\ pc = [p \in Procs |-> "user"] /\ call = [p \in Procs |-> Idle]
  /\ wrote = [p \in Procs |-> {}]

-----------------------------------------------------------------------------
(* Block allocation.  A record t stands for what a chain of calls has made *)
(* of the disk and of one inode so far: t.ret is the last result, t.log    *)
(* the blocks given to log_write().                                        *)

\* balloc(): the first free block, marked and zeroed; 0 when the disk is full.
balloc(t) ==
  IF \A b \in Blocks : t.bitmap[b] = 1 THEN [t EXCEPT !.ret = 0]
  ELSE LET b == Min({c \in Blocks : t.bitmap[c] = 0})
       IN [t EXCEPT !.bitmap[b] = 1, !.data[b] = Zeroed,
                    !.log = @ \cup {Bitmap, b}, !.ret = b]

\* addrs[k], allocated if necessary.
Address(t, k) ==
  IF t.addrs[k] # 0 THEN [t EXCEPT !.ret = t.addrs[k]]
  ELSE LET u == balloc(t) IN [u EXCEPT !.addrs[k] = u.ret]

\* Entry k of the indirect block b, allocated if necessary.
Indirect(t, b, k) ==
  IF t.data[b][k] # Addr(0) THEN [t EXCEPT !.ret = t.data[b][k][2]]
  ELSE LET u == balloc(t)
       IN IF u.ret = 0 THEN u
          ELSE [u EXCEPT !.data[b][k] = Addr(u.ret), !.log = @ \cup {b}]

\* Fault: the indirect part starts one block too early.
BmapEarly(t, bn) ==
  IF bn < NDIRECT THEN Address(t, bn)
  ELSE LET u == Address(t, NDIRECT)
       IN IF u.ret = 0 THEN u ELSE Indirect(u, u.ret, IF bn = NDIRECT THEN 0 ELSE bn - NDIRECT - 1)
\* bmap(): the block that holds block bn of the file, 0 when there is none and
\* none can be had.
bmap(t, bn) ==
  IF bn < NDIRECT THEN Address(t, bn)
  ELSE LET u == Address(t, NDIRECT)
       IN IF u.ret = 0 THEN u ELSE Indirect(u, u.ret, bn - NDIRECT)

\* Blocks bfree() marks free again, for the direct addresses and for the
\* indirect ones with the indirect block itself.
DirectBlocks(i) == {addrs[i][k] : k \in 0..(NDIRECT - 1)} \ {0}
IndirectBlocks(i) ==
  LET b == addrs[i][NDIRECT]
  IN IF b = 0 THEN {} ELSE ({b} \cup {data[b][k][2] : k \in 0..(NINDIRECT - 1)}) \ {0}
bfree(S) == bitmap' = [b \in Blocks |-> IF b \in S THEN 0 ELSE bitmap[b]]

\* iupdate(): the inode's fields go to disk.
iupdate(i, a, n) == daddrs' = [daddrs EXCEPT ![i] = a] /\ dsize' = [dsize EXCEPT ![i] = n]

-----------------------------------------------------------------------------
(* write()                                                                 *)

inode(p) == call[p].f[1]
At(p, l) == pc[p] = l
Goto(p, l) == pc' = [pc EXCEPT ![p] = l]

\* An argument of type int: the upper half of the range is negative.
Signed(n) == IF n < UINT \div 2 THEN n ELSE n - UINT

\* The call's n is what is left to write.
filewrite(p, f, n) ==
  /\ At(p, "user") /\ Goto(p, "chunk")
  /\ call' = [call EXCEPT ![p] = [Idle EXCEPT !.f = f, !.n = Signed(n)]]
  /\ UNCHANGED <<disk, addrs, size, ilk, off, wrote>>

\* Fault: no bound on what one transaction writes.
WholeWrite == MAXFILE * BSIZE
\* filewrite()'s max.
MaxWrite == ((MAXOPBLOCKS - 1 - 1 - 2) \div 2) * BSIZE

\* writei()'s checks.
Writable(i, o, n) == ~(o > size[i] \/ (o + n) % UINT < o) /\ o + n <= MAXFILE * BSIZE

\* The head of filewrite()'s loop.  The call ends when everything is written, or when
\* the checks of writei() fail, with the locks released again; otherwise a transaction
\* has begun and the inode is locked.
chunk(p) ==
  LET n1 == Min({call[p].n, MaxWrite})
      i == inode(p)
      f == call[p].f
  IN /\ At(p, "chunk")
     /\ \/ /\ call[p].n <= 0 \/ (ilk[i] = Nobody /\ ~Writable(i, off[f], n1))
           /\ Goto(p, "user") /\ call' = [call EXCEPT ![p] = Idle]
           /\ UNCHANGED <<ilk, wrote>>
        \/ /\ call[p].n > 0 /\ ilk[i] = Nobody /\ Writable(i, off[f], n1)
           /\ ilk' = [ilk EXCEPT ![i] = p] /\ wrote' = [wrote EXCEPT ![p] = {InodeBlock}]
           /\ call' = [call EXCEPT ![p].n1 = n1, ![p].at = off[f], ![p].tot = 0]
           /\ Goto(p, "writei")
     /\ UNCHANGED <<disk, addrs, size, off>>

\* either_copyin(): the program's m bytes for offset at of inode i, into block b.
Copied(d, b, i, at, m) ==
  [d EXCEPT ![b] = [k \in 0..(BSIZE - 1) |->
                      IF at % BSIZE <= k /\ k < (at % BSIZE) + m
                        THEN Byte(i, (at - (at % BSIZE)) + k) ELSE d[b][k]]]

\* One iteration: bmap(), and the copy into that block, unless the disk is full
\* or the user's memory cannot be read: then some of the bytes may have been copied, in a
\* buffer that is not logged.
writei(p) ==
  LET i == inode(p)
      at == call[p].at
      t == bmap([bitmap |-> bitmap, addrs |-> addrs[i], data |-> data,
                 log |-> {}, ret |-> 0], at \div BSIZE)
      m == Min({call[p].n1 - call[p].tot, BSIZE - (at % BSIZE)})
  IN /\ At(p, "writei") /\ call[p].tot < call[p].n1
     /\ bitmap' = t.bitmap /\ addrs' = [addrs EXCEPT ![i] = t.addrs]
     /\ \/ /\ t.ret # 0
           /\ data' = Copied(t.data, t.ret, i, at, m)
           /\ wrote' = [wrote EXCEPT ![p] = @ \cup t.log \cup {t.ret}]
           /\ call' = [call EXCEPT ![p].at = @ + m, ![p].tot = @ + m]
           /\ UNCHANGED pc
        \/ /\ IF t.ret = 0 THEN data' = t.data
              ELSE \E k \in 0..(m - 1) : data' = Copied(t.data, t.ret, i, at, k)
           /\ wrote' = [wrote EXCEPT ![p] = @ \cup t.log]
           /\ Goto(p, "update") /\ UNCHANGED call
     /\ UNCHANGED <<daddrs, dsize, size, ilk, off>>

\* Fault: the inode is written back only if the file has grown.
UpdateIfGrown(i, n) == IF n > size[i] THEN iupdate(i, addrs[i], n) ELSE UNCHANGED <<daddrs, dsize>>
\* The inode goes to disk even if the size is the same: bmap() may have added blocks.
UpdateAlways(i, n) == iupdate(i, addrs[i], n)

\* The end of writei(), f->off, iunlock() and end_op().
writei_end(p) ==
  LET i == inode(p)
      c == call[p]
  IN /\ At(p, "update") \/ (At(p, "writei") /\ c.tot = c.n1)
     /\ size' = [size EXCEPT ![i] = Max({@, c.at})]
     /\ UpdateAlways(i, Max({size[i], c.at}))
     /\ off' = [off EXCEPT ![c.f] = @ + c.tot]
     /\ ilk' = [ilk EXCEPT ![i] = Nobody]
     /\ wrote' = [wrote EXCEPT ![p] = {}]
     /\ IF c.tot = c.n1
          THEN Goto(p, "chunk") /\ call' = [call EXCEPT ![p] = [Idle EXCEPT !.f = c.f, !.n = c.n - c.tot]]
          ELSE Goto(p, "user") /\ call' = [call EXCEPT ![p] = Idle]
     /\ UNCHANGED <<bitmap, data, addrs>>

-----------------------------------------------------------------------------
(* read(), and the truncation of open(O_TRUNC) and of the last iput().     *)

\* readi(): how many bytes there are to read.
ReadCount(i, o, n) ==
  IF o > size[i] \/ (o + n) % UINT < o THEN 0
  ELSE IF (o + n) % UINT > size[i] THEN size[i] - o ELSE n

\* fileread(): the whole call is under the inode's lock.  If copyout() fails the
\* offset stays.
fileread(p, f, n) ==
  /\ At(p, "user") /\ ilk[f[1]] = Nobody
  /\ off' = [off EXCEPT ![f] = @ + ReadCount(f[1], off[f], n)]
  /\ UNCHANGED <<disk, addrs, size, ilk, pc, call, wrote>>

\* itrunc(): the direct blocks,
itrunc(p, i) ==
  /\ At(p, "user") /\ ilk[i] = Nobody
  /\ ilk' = [ilk EXCEPT ![i] = p] /\ wrote' = [wrote EXCEPT ![p] = {Bitmap, InodeBlock}]
  /\ bfree(DirectBlocks(i))
  /\ addrs' = [addrs EXCEPT ![i] = [NoAddrs EXCEPT ![NDIRECT] = addrs[i][NDIRECT]]]
  /\ Goto(p, "itrunc") /\ call' = [call EXCEPT ![p].f = <<i, 1>>]
  /\ UNCHANGED <<data, daddrs, dsize, size, off>>

\* then the indirect ones, and the inode.
itrunc_end(p) ==
  LET i == inode(p)
  IN /\ At(p, "itrunc")
     /\ bfree(IndirectBlocks(i))
     /\ addrs' = [addrs EXCEPT ![i] = NoAddrs] /\ size' = [size EXCEPT ![i] = 0]
     /\ iupdate(i, NoAddrs, 0)
     /\ ilk' = [ilk EXCEPT ![i] = Nobody]
     /\ Goto(p, "user") /\ call' = [call EXCEPT ![p] = Idle]
     /\ wrote' = [wrote EXCEPT ![p] = {}] /\ UNCHANGED <<data, off>>

\* A new open() of the inode in the place of an old struct file.
open(p, f) ==
  /\ At(p, "user") /\ ilk[f[1]] = Nobody /\ \A q \in Procs : call[q].f # f
  /\ off' = [off EXCEPT ![f] = 0]
  /\ UNCHANGED <<disk, addrs, size, ilk, pc, call, wrote>>

Next == \E p \in Procs :
          \/ chunk(p) \/ writei(p) \/ writei_end(p) \/ itrunc_end(p)
          \/ \E i \in Inodes : itrunc(p, i)
          \/ \E f \in Files : open(p, f)
          \/ \E f \in Files, n \in WriteSizes : filewrite(p, f, n)
          \/ \E f \in Files, n \in ReadSizes : fileread(p, f, n)

Spec == Init /\ [][Next]_vars

-----------------------------------------------------------------------------
(* Properties.                                                             *)

\* Entries of the indirect block of inode i.
Entries(i) == IF addrs[i][NDIRECT] = 0 THEN Zeroed ELSE data[addrs[i][NDIRECT]]
\* How many places name block b: addresses of inodes, and entries of indirect blocks.
Named(b) == Cardinality({s \in Inodes \X (0..NDIRECT) : addrs[s[1]][s[2]] = b})
            + Cardinality({s \in Inodes \X (0..(NINDIRECT - 1)) : Entries(s[1])[s[2]] = Addr(b)})

\* Allocation is exact, also after a write that ran out of disk or of user memory and
\* between the two halves of a truncation: a block is marked in the bitmap if exactly one
\* inode names it in exactly one place, and free if none does (so that bfree() never
\* frees a free block); an inode nobody has locked is on disk as it is in memory.
BlockInv ==
  /\ \A b \in Blocks : bitmap[b] = Named(b)
  /\ \A i \in Inodes : ilk[i] = Nobody => daddrs[i] = addrs[i] /\ dsize[i] = size[i]

\* The block that bmap() finds for block bn of inode i, 0 if it would allocate one.
Mapped(i, bn) == IF bn < NDIRECT THEN addrs[i][bn] ELSE Entries(i)[bn - NDIRECT][2]

\* Every byte below a file's size is the last one written there, however writes of
\* several processes, of shared offsets, truncations and failures were interleaved; and
\* no such byte lies in a hole, so that readi(), which runs outside any transaction,
\* never makes bmap() allocate.
ContentInv ==
  \A i \in Inodes : ilk[i] = Nobody =>
    \A o \in 0..(size[i] - 1) :
      Mapped(i, o \div BSIZE) # 0 /\ data[Mapped(i, o \div BSIZE)][o % BSIZE] = Byte(i, o)

\* One transaction of filewrite() logs no more blocks than begin_op() has reserved for
\* it, whatever the alignment of the write and however many blocks it allocates.
OpFits == \A p \in Procs : Cardinality(wrote[p]) <= MAXOPBLOCKS
=============================================================================
