------------------------------ MODULE BufCache ------------------------------
(***************************************************************************)
(* The buffer cache of kernel/bio.c with the sleep-locks of sleeplock.c.   *)
(* bcache.lock guards the list, the block numbers and the reference        *)
(* counts, a buffer's sleep-lock its contents; a step is a critical        *)
(* section of one of the two, or a disk transfer.  A process that holds    *)
(* two buffers at once counts as two users.                                *)
(***************************************************************************)
EXTENDS Integers, FiniteSets

CONSTANTS Users,     \* accesses, each from bread() to brelse()
          Bufs,      \* bcache.buf[NBUF]
          head,      \* bcache.head
          Blocks,    \* block numbers of the one device
          Vals,      \* contents of a block
          NoBlock,   \* block number of a buffer that was never used (device 0)
          Nobody,    \* holder of a sleep-lock that is not locked
          binitOrder \* the order in which binit() walks the buffers

NBUF == Cardinality(Bufs)

ASSUME BufAssumption ==
  /\ IsFiniteSet(Users) /\ IsFiniteSet(Bufs) /\ Bufs # {} /\ Blocks # {} /\ Vals # {}
  /\ head \notin Bufs /\ NoBlock \notin Blocks /\ Nobody \notin Users
  /\ binitOrder \in [1..NBUF -> Bufs] /\ Bufs = {binitOrder[i] : i \in 1..NBUF}

VARIABLES
  next, prev,             \* the list, most recently used first
  blockno, valid, refcnt, data,
  holder,                 \* the sleep-lock of each buffer: its user, or Nobody
  disk,
  pinned,                 \* buffers the log has pinned
  panicked,               \* "no", or the message
  pc, blk, b              \* per user: control point, block asked for, buffer

list  == <<next, prev>>
meta  == <<blockno, refcnt, list, pinned>>
vars  == <<meta, valid, data, holder, disk, panicked, pc, blk, b>>

Goto(u, l) == pc' = [pc EXCEPT ![u] = l]
Running == panicked = "no"

\* binit() puts each buffer in front of the list.
Init ==
  LET at(i) == IF i \in 1..NBUF THEN binitOrder[i] ELSE head
      pos(x) == CHOOSE i \in 1..NBUF : binitOrder[i] = x
  IN /\ next = [x \in Bufs \cup {head} |-> IF x = head THEN at(NBUF) ELSE at(pos(x) - 1)]
     /\ prev = [x \in Bufs \cup {head} |-> IF x = head THEN at(1) ELSE at(pos(x) + 1)]
     /\ blockno = [x \in Bufs |-> NoBlock] /\ valid = [x \in Bufs |-> 0]
     /\ refcnt = [x \in Bufs |-> 0] /\ pinned = {}
     /\ disk \in [Blocks -> Vals]
     /\ data = [x \in Bufs |-> CHOOSE v \in Vals : TRUE]
     /\ holder = [x \in Bufs |-> Nobody] /\ panicked = "no"
     /\ pc = [u \in Users |-> "idle"]
     /\ blk = [u \in Users |-> NoBlock] /\ b = [u \in Users |-> head]

-----------------------------------------------------------------------------
(* bget(): a critical section of bcache.lock, then the sleep-lock.         *)

\* The k-th buffer from the back of the list.
Back[k \in 0..(NBUF + 1)] == IF k = 0 THEN head ELSE prev[Back[k - 1]]

Cached(n) == {x \in Bufs : blockno[x] = n}
\* Fault: a buffer that is not locked is taken for unused.
Unlocked == {x \in Bufs : holder[x] = Nobody}
Unused == {x \in Bufs : refcnt[x] = 0}
\* The unused buffer nearest to the back.
LeastRecent == Back[CHOOSE k \in 1..NBUF :
                      Back[k] \in Unused /\ \A j \in 1..(k - 1) : Back[j] \notin Unused]

Reference(u, n, x, count) ==
  /\ refcnt' = [refcnt EXCEPT ![x] = count]
  /\ b' = [b EXCEPT ![u] = x] /\ blk' = [blk EXCEPT ![u] = n]
  /\ Goto(u, "lock") /\ UNCHANGED panicked

bget(u, n) ==
  /\ pc[u] = "idle"
  /\ \/ /\ \E x \in Cached(n) : Reference(u, n, x, refcnt[x] + 1)
        /\ UNCHANGED <<blockno, valid>>
     \/ /\ Cached(n) = {} /\ Unused # {}
        /\ Reference(u, n, LeastRecent, 1)
        /\ blockno' = [blockno EXCEPT ![LeastRecent] = n]
        /\ valid' = [valid EXCEPT ![LeastRecent] = 0]
     \/ /\ Cached(n) = {} /\ Unused = {}
        /\ panicked' = "bget_no_buffers"
        /\ UNCHANGED <<blockno, valid, refcnt, b, blk, pc>>
  /\ UNCHANGED <<list, pinned, data, holder, disk>>

LockFree(u) == holder[b[u]] = Nobody

acquiresleep(u) ==
  /\ pc[u] \in {"lock", "woken"}
  /\ \/ /\ LockFree(u)
        /\ holder' = [holder EXCEPT ![b[u]] = u] /\ Goto(u, "locked")
     \/ ~LockFree(u) /\ Goto(u, "asleep") /\ UNCHANGED holder
  /\ UNCHANGED <<meta, valid, data, disk, panicked, blk, b>>

\* Fault: the disk is read again although the buffer is valid.
BreadAgain(u) ==
  /\ pc[u] = "locked"
  /\ data' = [data EXCEPT ![b[u]] = disk[blk[u]]]
  /\ valid' = [valid EXCEPT ![b[u]] = 1]
  /\ Goto(u, "held")
  /\ UNCHANGED <<meta, holder, disk, panicked, blk, b>>
\* The rest of bread().
bread(u) ==
  /\ pc[u] = "locked"
  /\ data' = IF valid[b[u]] = 0 THEN [data EXCEPT ![b[u]] = disk[blk[u]]] ELSE data
  /\ valid' = [valid EXCEPT ![b[u]] = 1]
  /\ Goto(u, "held")
  /\ UNCHANGED <<meta, holder, disk, panicked, blk, b>>

-----------------------------------------------------------------------------
(* What users do with a buffer: read it, or change it and then write it    *)
(* (log.c's own blocks) or have log_write() pin it; install_trans() writes *)
(* a pinned buffer and unpins it.                                          *)

Modify(u, v) == /\ pc[u] = "held"
                /\ data' = [data EXCEPT ![b[u]] = v] /\ Goto(u, "dirty")
                /\ UNCHANGED <<meta, valid, holder, disk, panicked, blk, b>>

\* holdingsleep(): both callers panic when it is false.
Holding(u, what, A) == IF holder[b[u]] = u THEN A /\ UNCHANGED panicked
                       ELSE panicked' = what /\ UNCHANGED <<holder, disk, pc>>

bwrite(u) == /\ \/ pc[u] = "held" /\ b[u] \in pinned
                \/ pc[u] = "dirty" /\ b[u] \notin pinned
             /\ Holding(u, "bwrite",
                        /\ disk' = [disk EXCEPT ![blockno[b[u]]] = data[b[u]]]
                        /\ Goto(u, "written") /\ UNCHANGED holder)
             /\ UNCHANGED <<meta, valid, data, blk, b>>

bpin(u) == /\ pc[u] = "dirty"
           /\ refcnt' = [refcnt EXCEPT ![b[u]] = IF b[u] \in pinned THEN @ ELSE @ + 1]
           /\ pinned' = pinned \cup {b[u]} /\ Goto(u, "held")
           /\ UNCHANGED <<blockno, list, valid, data, holder, disk, panicked, blk, b>>

bunpin(u) == /\ pc[u] = "written" /\ b[u] \in pinned
             /\ refcnt' = [refcnt EXCEPT ![b[u]] = @ - 1]
             /\ pinned' = pinned \ {b[u]} /\ Goto(u, "held")
             /\ UNCHANGED <<blockno, list, valid, data, holder, disk, panicked, blk, b>>

-----------------------------------------------------------------------------
(* brelse(): releasesleep(), then a critical section of bcache.lock.       *)

\* Fault: releasesleep() forgets to wake the processes waiting for the lock.
WokenNone(x) == pc
Woken(x) == [q \in Users |-> IF pc[q] = "asleep" /\ b[q] = x THEN "woken" ELSE pc[q]]

releasesleep(u) ==
  /\ pc[u] \in {"held", "written"} /\ (pc[u] = "written" => b[u] \notin pinned)
  /\ Holding(u, "brelse",
             /\ holder' = [holder EXCEPT ![b[u]] = Nobody]
             /\ pc' = [Woken(b[u]) EXCEPT ![u] = "unref"] /\ UNCHANGED disk)
  /\ UNCHANGED <<meta, valid, data, blk, b>>

\* Fault: the buffer goes to the wrong end.
MoveToBack(x) ==
  LET n1 == [next EXCEPT ![prev[x]] = next[x]]
      p1 == [prev EXCEPT ![next[x]] = prev[x]]
  IN /\ next' = [[n1 EXCEPT ![x] = head] EXCEPT ![p1[head]] = x]
     /\ prev' = [p1 EXCEPT ![x] = p1[head], ![head] = x]
\* x out of the list, and in again behind head.
MoveToFront(x) ==
  LET n1 == [next EXCEPT ![prev[x]] = next[x]]
      p1 == [prev EXCEPT ![next[x]] = prev[x]]
  IN /\ next' = [n1 EXCEPT ![x] = n1[head], ![head] = x]
     /\ prev' = [[p1 EXCEPT ![x] = head] EXCEPT ![n1[head]] = x]

brelse(u) ==
  /\ pc[u] = "unref"
  /\ refcnt' = [refcnt EXCEPT ![b[u]] = @ - 1]
  /\ IF refcnt[b[u]] = 1 THEN MoveToFront(b[u]) ELSE UNCHANGED list
  /\ Goto(u, "idle")
  /\ b' = [b EXCEPT ![u] = head] /\ blk' = [blk EXCEPT ![u] = NoBlock]
  /\ UNCHANGED <<blockno, pinned, valid, data, holder, disk, panicked>>

Next == Running /\ \E u \in Users :
          \/ acquiresleep(u) \/ bread(u) \/ bwrite(u) \/ bpin(u) \/ bunpin(u)
          \/ releasesleep(u) \/ brelse(u)
          \/ \E n \in Blocks : bget(u, n)
          \/ \E v \in Vals : Modify(u, v)

Spec == Init /\ [][Next]_vars

-----------------------------------------------------------------------------
(* Properties.                                                             *)

InUse == {"held", "dirty", "written"}
Referencing == InUse \cup {"lock", "woken", "asleep", "locked", "unref"}

TypeOK ==
  /\ next \in [Bufs \cup {head} -> Bufs \cup {head}]
  /\ prev \in [Bufs \cup {head} -> Bufs \cup {head}]
  /\ blockno \in [Bufs -> Blocks \cup {NoBlock}] /\ valid \in [Bufs -> {0, 1}]
  /\ refcnt \in [Bufs -> Nat] /\ data \in [Bufs -> Vals] /\ pinned \subseteq Bufs
  /\ holder \in [Bufs -> Users \cup {Nobody}] /\ disk \in [Blocks -> Vals]
  /\ panicked \in {"no", "bget_no_buffers", "bwrite", "brelse"}
  /\ pc \in [Users -> Referencing \cup {"idle"}]
  /\ blk \in [Users -> Blocks \cup {NoBlock}] /\ b \in [Users -> Bufs \cup {head}]

\* A block is in one buffer at most: two would have two locks and two contents.
OneBuffer ==
  \A x, y \in Bufs : blockno[x] = blockno[y] /\ blockno[x] # NoBlock => x = y

\* A buffer that somebody waits for or uses is not recycled: it still has the
\* block he asked for, its count covers him, and the lock is his while he uses it.
RefInv ==
  /\ \A u \in Users : pc[u] \in Referencing => /\ b[u] \in Bufs /\ blk[u] \in Blocks
                                               /\ blockno[b[u]] = blk[u]
  /\ \A x \in Bufs : refcnt[x] = Cardinality({u \in Users : pc[u] \in Referencing /\ b[u] = x})
                                 + (IF x \in pinned THEN 1 ELSE 0)
  /\ \A u \in Users, x \in Bufs :
       holder[x] = u <=> pc[u] \in InUse \cup {"locked"} /\ b[u] = x

\* What is in the cache: a clean buffer that is not pinned agrees with the disk.
CleanInv ==
  \A x \in Bufs : valid[x] = 1 /\ x \notin pinned /\ data[x] # disk[blockno[x]] =>
    \E u \in Users : b[u] = x /\ pc[u] = "dirty"

\* The callers hold the locks that bwrite() and brelse() insist on.
LocksHeld == panicked \notin {"bwrite", "brelse"}

\* The list is a ring through all the buffers, and prev is the way back.
Ring == /\ {Back[k] : k \in 1..NBUF} = Bufs /\ Back[NBUF + 1] = head
        /\ \A x \in Bufs \cup {head} : next[prev[x]] = x

\* The buffer cache between any two critical sections of bcache.lock and of the
\* sleep-locks.
CacheInv == TypeOK /\ OneBuffer /\ RefInv /\ CleanInv /\ LocksHeld /\ Ring
            /\ \A x \in Bufs : /\ valid[x] = 1 => blockno[x] # NoBlock
                               /\ x \in pinned => valid[x] = 1
            /\ \A u \in Users : pc[u] \in InUse => valid[b[u]] = 1

\* Nobody sleeps for a sleep-lock that nobody holds.
NoLostWakeup == \A u \in Users : pc[u] = "asleep" => holder[b[u]] # Nobody

\* The order of use: releasing the last reference moves the buffer to the front
\* and leaves the order of the others as it is.
Order == [k \in 1..NBUF |-> Back[NBUF + 1 - k]]
Moved(x) == LET i == CHOOSE k \in 1..NBUF : Order[k] = x
            IN [k \in 1..NBUF |-> IF k = 1 THEN x ELSE IF k <= i THEN Order[k - 1] ELSE Order[k]]
LruOrder == [][Order' = Order \/ \E x \in Bufs : refcnt'[x] = 0 /\ Order' = Moved(x)]_vars

\* The cache refines a store in which every block has one content and one user
\* at a time: recycling a buffer and reading the block again changes nothing.
Content == [n \in Blocks |->
              IF \E x \in Bufs : blockno[x] = n /\ valid[x] = 1
                THEN data[CHOOSE x \in Bufs : blockno[x] = n] ELSE disk[n]]
User == [n \in Blocks |->
           IF \E u \in Users : pc[u] \in InUse /\ blk[u] = n
             THEN CHOOSE u \in Users : pc[u] \in InUse /\ blk[u] = n ELSE Nobody]
Store == INSTANCE BlockStore WITH content <- Content, user <- User
OneContent == Store!SSpec
=============================================================================
