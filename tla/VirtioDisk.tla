----------------------------- MODULE VirtioDisk -----------------------------
(***************************************************************************)
(* The driver of kernel/virtio_disk.c, its interrupt handler, and the      *)
(* device: descriptors, the avail ring and the used ring are memory that   *)
(* driver and device write without a common lock.                          *)
(*                                                                         *)
(* Driver and handler run under vdisk_lock, which sleep() gives up, and a  *)
(* step of theirs ends wherever the device could see what has been written *)
(* so far.  The device takes chains off the avail ring in order, works on  *)
(* several at a time, finishes them in any order, and raises an interrupt  *)
(* when it has advanced used->idx.  A block has one buffer (module         *)
(* BufCache) and a caller holds that buffer's sleep-lock.                  *)
(***************************************************************************)
EXTENDS Integers, FiniteSets

CONSTANTS Procs,     \* callers of virtio_disk_rw()
          Blocks,    \* block numbers, and their buffers
          Vals,      \* contents of a block
          NUM,       \* virtio.h: descriptors, and entries of each ring
          IDX,       \* 2^16: range of avail->idx, used->idx and used_idx
          NoBlock,   \* a null struct buf pointer
          Nobody,    \* holder of a free vdisk_lock
          Handler    \* virtio_disk_intr() as holder of vdisk_lock

ASSUME VirtioAssumption ==
  /\ NUM \in Nat /\ NUM >= 3 /\ IDX \in Nat \ {0} /\ IDX % NUM = 0
  /\ NoBlock \notin Blocks /\ Nobody \notin Procs \cup {Handler} /\ Handler \notin Procs
  /\ Vals # {}

Desc == 0..(NUM - 1)

VARIABLES
  free,               \* disk.free[]
  desc,               \* disk.desc[]: what addr points at, F_NEXT in flags, next
  ops,                \* disk.ops[]: type and sector
  info,               \* disk.info[]: b and status
  avail, avail_idx,   \* disk.avail->ring[], ->idx
  used, used_ridx,    \* disk.used->ring[], ->idx, written by the device
  used_idx,           \* disk.used_idx
  bdisk, data,        \* b->disk and b->data of each buffer
  lock,               \* vdisk_lock
  panicked,
  pc, b, write, idx,  \* per caller: control point, arguments, chain
  hpc,                \* control point of the handler
  content,            \* device: the disk itself
  notified, seen,     \* device: QUEUE_NOTIFY, and how far it has read the avail ring
  busy, finished,     \* device: chains being worked on, chains to go on the used ring
  intr                \* device: an interrupt is pending

driver == <<free, desc, ops, info, avail, avail_idx, used_idx, bdisk, panicked>>
caller == <<pc, b, write, idx>>
device == <<content, notified, seen, busy, finished, used, used_ridx>>
vars == <<driver, data, lock, caller, hpc, device, intr>>

None == [kind |-> "none", of |-> 0, more |-> 0, next |-> 0]

\* virtio_disk_init() has run: zeroed rings, and every descriptor free.
Init ==
  /\ free = [i \in Desc |-> 1] /\ desc = [i \in Desc |-> None]
  /\ ops = [i \in Desc |-> [type |-> 0, sector |-> NoBlock]]
  /\ info = [i \in Desc |-> [b |-> NoBlock, status |-> 0]]
  /\ avail = [i \in Desc |-> 0] /\ avail_idx = 0
  /\ used = [i \in Desc |-> 0] /\ used_ridx = 0 /\ used_idx = 0
  /\ bdisk = [x \in Blocks |-> 0] /\ data \in [Blocks -> Vals]
  /\ lock = Nobody /\ panicked = "no" /\ hpc = "off"
  /\ pc = [p \in Procs |-> "idle"] /\ b = [p \in Procs |-> NoBlock]
  /\ write = [p \in Procs |-> 0] /\ idx = [p \in Procs |-> <<0, 0, 0>>]
  /\ content \in [Blocks -> Vals] /\ notified = 0 /\ seen = 0
  /\ busy = {} /\ finished = {} /\ intr = 0

\* The locals of a call are gone when it returns.
Return(p) == /\ b' = [b EXCEPT ![p] = NoBlock] /\ write' = [write EXCEPT ![p] = 0]
             /\ idx' = [idx EXCEPT ![p] = <<0, 0, 0>>]
Goto(p, l) == pc' = [pc EXCEPT ![p] = l]
\* wakeup(): every caller asleep at l spins for the lock again.
Wake(f, l, to, S) == [p \in Procs |-> IF f[p] = l /\ p \in S THEN to ELSE f[p]]

-----------------------------------------------------------------------------
(* virtio_disk_rw().                                                       *)

\* bread() or bwrite(); before a write the caller has filled the buffer.
virtio_disk_rw(p, x, w) ==
  /\ pc[p] = "idle" /\ \A q \in Procs : b[q] # x
  /\ b' = [b EXCEPT ![p] = x] /\ write' = [write EXCEPT ![p] = w] /\ Goto(p, "enter")
  /\ \/ w = 0 /\ UNCHANGED data
     \/ w = 1 /\ \E v \in Vals : data' = [data EXCEPT ![x] = v]
  /\ UNCHANGED <<driver, lock, idx, hpc, device, intr>>

\* alloc_desc() takes the lowest free descriptor.
Lowest(S) == CHOOSE i \in S : \A j \in S : i <= j
Free == {i \in Desc : free[i] = 1}
ThreeFree == Cardinality(Free) >= 3

\* acquire(), alloc3_desc(), and what the caller does with the descriptors up to the
\* entry in the avail ring.  Too few free ones: those taken are given back, each with
\* a wakeup(&disk.free[0]), and the caller sleeps on that channel.
alloc3_desc(p) ==
  /\ pc[p] = "enter" /\ lock = Nobody
  /\ IF ThreeFree
       THEN LET i0 == Lowest(Free)
                i1 == Lowest(Free \ {i0})
                i2 == Lowest(Free \ {i0, i1})
            IN /\ free' = [free EXCEPT ![i0] = 0, ![i1] = 0, ![i2] = 0]
               /\ idx' = [idx EXCEPT ![p] = <<i0, i1, i2>>]
               /\ ops' = [ops EXCEPT ![i0] = [type |-> write[p], sector |-> b[p]]]
               /\ desc' = [desc EXCEPT
                    ![i0] = [kind |-> "op", of |-> i0, more |-> 1, next |-> i1],
                    ![i1] = [kind |-> "data", of |-> b[p], more |-> 1, next |-> i2],
                    ![i2] = [kind |-> "status", of |-> i0, more |-> 0, next |-> 0]]
               /\ info' = [info EXCEPT ![i0] = [b |-> b[p], status |-> 255]]
               /\ bdisk' = [bdisk EXCEPT ![b[p]] = 1]
               /\ avail' = [avail EXCEPT ![avail_idx % NUM] = i0]
               /\ Goto(p, "publish") /\ lock' = p
       ELSE /\ pc' = [Wake(pc, "sleepfree", "enter", IF Free = {} THEN {} ELSE Procs)
                        EXCEPT ![p] = "sleepfree"]
            /\ UNCHANGED <<lock, free, idx, ops, desc, info, bdisk, avail>>
  /\ UNCHANGED <<avail_idx, used_idx, panicked, data, b, write, hpc, device, intr>>

\* avail->idx += 1: from here on the device may see the chain.
publish(p) ==
  /\ pc[p] = "publish"
  /\ avail_idx' = (avail_idx + 1) % IDX /\ Goto(p, "notify")
  /\ UNCHANGED <<free, desc, ops, info, avail, used_idx, bdisk, panicked, data, lock, b,
                 write, idx, hpc, device, intr>>

notify(p) ==
  /\ pc[p] = "notify"
  /\ notified' = 1 /\ Goto(p, "wait")
  /\ UNCHANGED <<driver, data, lock, b, write, idx, hpc, content, seen, busy, finished, used,
                 used_ridx, intr>>

\* Fault: the caller trusts the wakeup and does not look at b->disk.
NeverOnDisk(p) == FALSE
\* while(b->disk == 1) sleep(b, &disk.vdisk_lock).
StillOnDisk(p) == bdisk[b[p]] = 1

\* The descriptors that free_chain() visits from i on.
Chain(i) == LET j == desc[i].next
                k == desc[j].next
            IN IF desc[i].more = 0 THEN {i}
               ELSE IF desc[j].more = 0 THEN {i, j} ELSE {i, j, k}

\* Fault: only the head of the chain is freed.
FreedHead(p) == {idx[p][1]}
Freed(p) == Chain(idx[p][1])

\* free_desc()'s wakeup(&disk.free[0]).
WakeFree(f) == Wake(f, "sleepfree", "enter", Procs)

\* free_chain(), with free_desc()'s panic, and the return.
free_chain(p) ==
  /\ info' = [info EXCEPT ![idx[p][1]].b = NoBlock]
  /\ IF \A i \in Freed(p) : free[i] = 0
       THEN /\ free' = [i \in Desc |-> IF i \in Freed(p) THEN 1 ELSE free[i]]
            /\ desc' = [i \in Desc |-> IF i \in Freed(p) THEN None ELSE desc[i]]
            /\ pc' = [WakeFree(pc) EXCEPT ![p] = "idle"]
            /\ Return(p) /\ UNCHANGED panicked
       ELSE panicked' = "free_desc" /\ UNCHANGED <<free, desc, caller>>

\* The test, with the lock kept from notify or taken again at the end of sleep().
wait(p) ==
  /\ pc[p] = "wait" \/ (pc[p] = "woken" /\ lock = Nobody)
  /\ lock' = Nobody
  /\ \/ /\ StillOnDisk(p) /\ Goto(p, "sleepbuf")
        /\ UNCHANGED <<free, desc, info, panicked, b, write, idx>>
     \/ ~StillOnDisk(p) /\ free_chain(p)
  /\ UNCHANGED <<ops, avail, avail_idx, used_idx, bdisk, data, hpc, device, intr>>

-----------------------------------------------------------------------------
(* virtio_disk_intr(), one instance at a time (plic_claim/plic_complete).  *)

\* The acknowledgement comes before the first look at used->idx.
virtio_disk_intr ==
  /\ hpc = "off" /\ intr = 1 /\ lock = Nobody
  /\ lock' = Handler /\ hpc' = "loop" /\ intr' = 0
  /\ UNCHANGED <<driver, data, caller, device>>

\* One entry of the used ring: the buffer's caller is woken.
complete == LET id == used[used_idx % NUM]
                x  == info[id].b
            IN
  /\ hpc = "loop" /\ used_idx # used_ridx
  /\ IF info[id].status = 0
       THEN /\ bdisk' = [bdisk EXCEPT ![x] = 0]
            /\ pc' = Wake(pc, "sleepbuf", "woken", {p \in Procs : b[p] = x})
            /\ used_idx' = (used_idx + 1) % IDX /\ UNCHANGED panicked
       ELSE panicked' = "status" /\ UNCHANGED <<bdisk, pc, used_idx>>
  /\ UNCHANGED <<free, desc, ops, info, avail, avail_idx, data, lock, b, write, idx, hpc,
                 device, intr>>

\* Fault: the handler takes one entry per interrupt.
OneEntry == /\ hpc = "loop"
            /\ hpc' = "off" /\ lock' = Nobody
            /\ UNCHANGED <<driver, data, caller, device, intr>>
intr_end == /\ hpc = "loop" /\ used_idx = used_ridx
            /\ hpc' = "off" /\ lock' = Nobody
            /\ UNCHANGED <<driver, data, caller, device, intr>>

-----------------------------------------------------------------------------
(* The device (qemu), as far as the driver relies on it.                   *)

\* After a notification the device goes through the avail ring to its end.
DevFetch ==
  /\ notified = 1
  /\ IF seen # avail_idx
       THEN /\ busy' = busy \cup {avail[seen % NUM]} /\ seen' = (seen + 1) % IDX
            /\ UNCHANGED notified
       ELSE notified' = 0 /\ UNCHANGED <<busy, seen>>
  /\ UNCHANGED <<driver, data, lock, caller, hpc, content, finished, used, used_ridx,
                 intr>>

\* Header, data and status descriptors are followed from the head of the chain.
DevTransfer(h) ==
  /\ h \in busy
  /\ LET op == ops[desc[h].of]
         x == desc[desc[h].next].of
         s == desc[desc[desc[h].next].next].of
     IN /\ IF op.type = 1
             THEN content' = [content EXCEPT ![op.sector] = data[x]] /\ UNCHANGED data
             ELSE data' = [data EXCEPT ![x] = content[op.sector]] /\ UNCHANGED content
        /\ info' = [info EXCEPT ![s].status = 0]
  /\ busy' = busy \ {h} /\ finished' = finished \cup {h}
  /\ UNCHANGED <<free, desc, ops, avail, avail_idx, used_idx, bdisk, panicked, lock, caller,
                 hpc, notified, seen, used, used_ridx, intr>>

\* An entry for the used ring, and the interrupt.
DevPublish(h) ==
  /\ h \in finished /\ finished' = finished \ {h}
  /\ used' = [used EXCEPT ![used_ridx % NUM] = h] /\ used_ridx' = (used_ridx + 1) % IDX
  /\ intr' = 1
  /\ UNCHANGED <<driver, data, lock, caller, hpc, content, notified, seen, busy>>

-----------------------------------------------------------------------------
Running == panicked = "no"
Driver(p) == alloc3_desc(p) \/ publish(p) \/ notify(p) \/ wait(p)
Interrupt == virtio_disk_intr \/ complete \/ intr_end
Device == DevFetch \/ \E h \in Desc : DevTransfer(h) \/ DevPublish(h)

Next == /\ Running
        /\ \/ Device \/ Interrupt
           \/ \E p \in Procs : Driver(p) \/ \E x \in Blocks, w \in {0, 1} : virtio_disk_rw(p, x, w)

Spec == Init /\ [][Next]_vars

-----------------------------------------------------------------------------
(* Properties.                                                             *)

\* A caller whose chain is in the rings or on its way into or out of them.
HasChain == {p \in Procs : pc[p] \in {"publish", "notify", "wait", "sleepbuf", "woken"}}
ChainOf(p) == {idx[p][1], idx[p][2], idx[p][3]}
\* The entries of a ring between two of its indexes.
Entries(ring, from, to) == {ring[(from + k) % NUM] : k \in 0..(((to - from) % IDX) - 1)}
Unseen == Entries(avail, seen, avail_idx)
Unhandled == Entries(used, used_idx, used_ridx)

TypeOK ==
  /\ free \in [Desc -> {0, 1}] /\ avail \in [Desc -> Desc] /\ used \in [Desc -> Desc]
  /\ avail_idx \in 0..(IDX - 1) /\ used_ridx \in 0..(IDX - 1) /\ used_idx \in 0..(IDX - 1)
  /\ seen \in 0..(IDX - 1) /\ busy \subseteq Desc /\ finished \subseteq Desc
  /\ content \in [Blocks -> Vals] /\ data \in [Blocks -> Vals] /\ bdisk \in [Blocks -> {0, 1}]
  /\ b \in [Procs -> Blocks \cup {NoBlock}] /\ lock \in Procs \cup {Nobody, Handler}

\* A descriptor is free or belongs to the chain of one call; the chain of a call is
\* the three descriptors it took, and names its buffer, until the call gives them
\* back; so free_desc() never finds one free, and the handler no failed request.
ChainInv ==
  /\ TypeOK /\ Running
  /\ \A i \in Desc : free[i] = 0 <=> \E p \in HasChain : i \in ChainOf(p)
  /\ \A p \in HasChain : Cardinality(ChainOf(p)) = 3 /\ Chain(idx[p][1]) = ChainOf(p)
                         /\ info[idx[p][1]].b = b[p] /\ ops[idx[p][1]].sector = b[p]
                         /\ desc[idx[p][2]].of = b[p]
  /\ \A p, q \in HasChain : p # q => ChainOf(p) \cap ChainOf(q) = {}

\* A request on the disk is in one place: not yet seen by the device, in work,
\* finished, or on the used ring; whoever has to move it on has been told; and
\* nobody sleeps for a completion, or for a chain of descriptors, that is there.
InOnePlace(h) ==
  Cardinality({k \in 1..4 : h \in <<Unseen, busy, finished, Unhandled>>[k]}) = 1
NoLostCompletion ==
  /\ \A p \in HasChain : pc[p] # "publish" /\ bdisk[b[p]] = 1 => InOnePlace(idx[p][1])
  /\ Unseen # {} => notified = 1 \/ \E p \in Procs : pc[p] = "notify"
  /\ Unhandled # {} => hpc # "off" \/ intr = 1
  /\ \A p \in Procs : pc[p] = "sleepbuf" => bdisk[b[p]] = 1
  /\ (\E p \in Procs : pc[p] = "sleepfree") => ~ThreeFree

\* The driver refines the synchronous disk: whatever is in flight, and in whatever
\* order the device finishes, a call moves its own block once, before it returns.
Moved(p) == IF p \in HasChain /\ info[idx[p][1]].status = 0 THEN 1 ELSE 0
SD == INSTANCE SyncDisk WITH call <-
        [p \in Procs |-> IF pc[p] = "idle" THEN [b |-> NoBlock, write |-> 0, done |-> 0]
                         ELSE [b |-> b[p], write |-> write[p], done |-> Moved(p)]]
MovesOnce == SD!SSpec
=============================================================================
