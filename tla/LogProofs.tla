----------------------------- MODULE LogProofs ------------------------------
(***************************************************************************)
(* Proofs about Log for every number of processes, blocks and operations,  *)
(* every log size, and any number of crashes.                              *)
(***************************************************************************)
EXTENDS Log, FiniteSetTheorems, TLAPS

\* Processes move between the boot phase and the running phase together.
LEMMA Phase ==
  ASSUME LogInv, NEW p \in Procs
  PROVE  /\ pc[p] \in BootPc => p = InitProc /\ Booting
         /\ pc[p] \notin BootPc \cup {"down"} => ~Booting
  BY LogAssumption DEF LogInv, TypeOK, BootInv, ControlInv, Booting, BootPc

\* The count of active operations.
LEMMA ActiveFinite ==
  IsFiniteSet(Active) /\ Cardinality(Active) \in Nat
  <1>1. Active \subseteq Procs
    BY DEF Active
  <1> QED
    BY <1>1, LogAssumption, FS_Subset, FS_CardinalityType

\* A block whose only good copy is not in the cache is not torn on disk.
LEMMA HomeVals ==
  ASSUME LogInv, ~Booting, NEW b \in Blocks, ~Pending(b)
  PROVE  home[b] \in Vals
  <1>1. CASE b \notin Range(logHead)
    BY <1>1 DEF LogInv, TypeOK, TornInv
  <1>2. CASE b \in Range(logHead)
    <2>1. PICK i \in 1..Len(logHead) : logHead[i] = b
      BY <1>2 DEF Range
    <2>2. logHead = lh
      BY <2>1 DEF LogInv, CacheInv, CommitInv
    <2>3. PICK q \in Procs : Installing(q) /\ ~(i >= tail[q])
      BY <2>1, <2>2 DEF Pending
    <2>4. i \in 1..Len(lh) /\ i < tail[q]
      BY <2>1, <2>2, <2>3 DEF LogInv, TypeOK
    <2>5. logData[i] = home[lh[i]]
      BY <2>3, <2>4 DEF LogInv, CacheInv, CommitInv
    <2> QED
      BY <2>1, <2>2, <2>5 DEF LogInv, TornInv
  <1> QED
    BY <1>1, <1>2

\* A committing process is alone, and no operation is active.
LEMMA Solo ==
  ASSUME LogInv, NEW p \in Procs, Committer(p)
  PROVE  /\ ~Booting /\ committing = 1 /\ Active = {}
         /\ \A q \in Procs : Committer(q) => q = p
         /\ \A q \in Procs : Installing(q) => q = p
  <1>1. ~Booting
    BY Phase DEF Committer, CommitPc, BootPc
  <1>2. \A q \in Procs : Installing(q) => Committer(q)
    BY DEF Installing, Committer, CommitPc
  <1> QED
    BY <1>1, <1>2 DEF LogInv, ControlInv

\* While an operation is active nobody commits and the log on disk is empty.
LEMMA NoCommit ==
  ASSUME LogInv, NEW p \in Procs, pc[p] \in OpPc
  PROVE  /\ ~Booting /\ committing = 0 /\ p \in Active /\ logHead = <<>>
         /\ \A q \in Procs : ~Committer(q) /\ ~Installing(q)
         /\ \A b \in Blocks : Pending(b) <=> b \in Range(lh)
  <1>1. ~Booting
    BY Phase DEF OpPc, BootPc
  <1>2. p \in Active
    BY DEF Active
  <1>3. committing = 0 /\ \A q \in Procs : ~Committer(q)
    BY <1>1, <1>2 DEF LogInv, TypeOK, ControlInv
  <1>4. \A q \in Procs : ~Installing(q)
    BY <1>3 DEF Installing, Committer, CommitPc
  <1>5. logHead = <<>>
    BY <1>1, <1>4 DEF LogInv, CommitInv
  <1>6. \A b \in Blocks : Pending(b) <=> b \in Range(lh)
    <2>1. DOMAIN lh = 1..Len(lh)
      BY DEF LogInv, TypeOK
    <2>2. \A b \in Blocks : Pending(b) <=> \E i \in 1..Len(lh) : lh[i] = b
      BY <1>4 DEF Pending
    <2> QED
      BY <2>1, <2>2 DEF Range
  <1> QED
    BY <1>1, <1>2, <1>3, <1>4, <1>5, <1>6

\* The state mkfs and a first boot leave satisfies the invariant.
LEMMA InitLogInv == Init => LogInv
  <1> SUFFICES ASSUME Init PROVE LogInv
    OBVIOUS
  <1> USE LogAssumption DEF Init
  <1>0. (CHOOSE v \in Vals : TRUE) \in Vals
    OBVIOUS
  <1>1. TypeOK
    <2>1. logData \in [1..LOGSIZE -> Vals \cup {Torn}]
      BY <1>0
    <2>2. tail \in [Procs -> 1..(LOGSIZE + 1)]
      OBVIOUS
    <2>3. /\ home \in [Blocks -> Vals \cup {Torn}]
          /\ logHead \in Seq(Blocks) /\ lh \in Seq(Blocks)
          /\ Len(logHead) <= LOGSIZE /\ Len(lh) <= LOGSIZE
      OBVIOUS
    <2>4. /\ buf \in [Blocks -> Vals \cup {Torn, NotCached}]
          /\ pins \in [Blocks -> Nat]
          /\ holder \in [Blocks -> Procs \cup {Nobody}]
      OBVIOUS
    <2>5. pc \in [Procs -> BootPc \cup OpPc \cup CommitPc \cup OtherPc]
      BY DEF BootPc, OtherPc
    <2>6. wrote \in [Procs -> SUBSET Blocks]
      OBVIOUS
    <2>7. /\ outstanding \in Nat /\ committing \in {0, 1} /\ panicked = "no"
          /\ ops \in 0..MaxOps /\ crashes \in 0..MaxCrashes
      OBVIOUS
    <2> QED
      BY <2>1, <2>2, <2>3, <2>4, <2>5, <2>6, <2>7 DEF TypeOK
  <1>2. IsInjective(lh) /\ IsInjective(logHead)
    BY DEF IsInjective
  <1>3. Booting
    BY DEF Booting, BootPc
  <1>4. BootInv
    BY DEF BootInv, Running, BootPc
  <1>5. TornInv
    BY DEF TornInv, Range
  <1> QED
    BY <1>1, <1>2, <1>3, <1>4, <1>5 DEF LogInv, ControlInv, CacheInv, CommitInv

\* read_head() starts recovery with the log the header names.
LEMMA ReadHeadInv ==
  ASSUME LogInv, Running, NEW p \in Procs, read_head(p)
  PROVE  LogInv'
  <1> USE LogAssumption DEF read_head, Goto, disk, mem
  <1>0. p = InitProc /\ Booting /\ Booting'
    BY Phase DEF Booting, BootPc, LogInv, TypeOK
  <1>1. TypeOK'
    BY DEF LogInv, TypeOK, BootPc
  <1>2. IsInjective(lh)' /\ IsInjective(logHead)'
    BY DEF LogInv, IsInjective
  <1>3. BootInv'
    BY <1>0, <1>1 DEF LogInv, TypeOK, BootInv, Running, BootPc
  <1>4. TornInv'
    BY DEF LogInv, TornInv, Range
  <1> QED
    BY <1>0, <1>1, <1>2, <1>3, <1>4 DEF LogInv, ControlInv, CacheInv, CommitInv

\* install_trans(1) copies one block, or has copied them all.
LEMMA RecoverInstallInv ==
  ASSUME LogInv, Running, NEW p \in Procs,
         install_trans(p, "recover_install", "recover_erase")
  PROVE  LogInv'
  <1> USE LogAssumption DEF install_trans, InstallBlock, Goto, log
  <1>0. p = InitProc /\ Booting /\ Booting'
    BY Phase DEF Booting, BootPc, LogInv, TypeOK
  <1>1. CASE tail[p] <= Len(lh)
    <2> DEFINE b == lh[tail[p]]
    <2>0. /\ tail[p] \in 1..Len(lh) /\ b \in Blocks /\ logData[tail[p]] \in Vals
          /\ lh = logHead
      BY <1>0, <1>1 DEF LogInv, TypeOK, TornInv, BootInv
    <2>1. /\ home' = [home EXCEPT ![b] = logData[tail[p]]]
          /\ buf' = [buf EXCEPT ![b] = logData[tail[p]]]
          /\ tail' = [tail EXCEPT ![p] = tail[p] + 1]
          /\ UNCHANGED <<pc, pins, logData, logHead, holder, outstanding, committing,
                         lh, panicked, wrote, ops, crashes>>
      BY <1>1
    <2> HIDE DEF install_trans, b
    <2>2. TypeOK'
      BY <2>0, <2>1 DEF LogInv, TypeOK
    <2>3. IsInjective(lh)' /\ IsInjective(logHead)'
      BY <2>1 DEF LogInv, IsInjective
    <2>4. BootInv'
      <3>1. \A i \in 1..Len(lh)' : i < tail[InitProc]' => home'[lh'[i]] = logData'[i]
        BY <1>0, <2>0, <2>1 DEF LogInv, TypeOK, BootInv, BootPc, IsInjective, b
      <3>2. \A c \in Blocks : buf'[c] # NotCached => buf'[c] = home'[c] /\ buf'[c] \in Vals
        BY <1>0, <2>0, <2>1 DEF LogInv, TypeOK, BootInv
      <3> QED
        BY <1>0, <2>0, <2>1, <3>1, <3>2 DEF LogInv, TypeOK, BootInv, Running, install_trans
    <2>5. TornInv'
      <3>1. b \in Range(logHead)
        BY <2>0 DEF Range, b
      <3> QED
        BY <2>0, <2>1, <3>1 DEF LogInv, TypeOK, TornInv, Range
    <2> QED
      BY <1>0, <2>2, <2>3, <2>4, <2>5 DEF LogInv, ControlInv, CacheInv, CommitInv
  <1>2. CASE ~(tail[p] <= Len(lh))
    <2>1. TypeOK'
      BY <1>2 DEF LogInv, TypeOK, BootPc
    <2>2. IsInjective(lh)' /\ IsInjective(logHead)'
      BY DEF LogInv, IsInjective
    <2>3. BootInv'
      BY <1>0, <1>2, <2>1 DEF LogInv, TypeOK, BootInv, Running, BootPc
    <2>4. TornInv'
      BY <1>2 DEF LogInv, TypeOK, TornInv, Range
    <2> QED
      BY <1>0, <2>1, <2>2, <2>3, <2>4 DEF LogInv, ControlInv, CacheInv, CommitInv
  <1> QED
    BY <1>1, <1>2

\* Recovery erases the header only when every block is home.
LEMMA RecoverEraseInv ==
  ASSUME LogInv, Running, NEW p \in Procs, recover_erase(p)
  PROVE  LogInv'
  <1> USE LogAssumption DEF recover_erase, mem
  <1>0. p = InitProc /\ Booting /\ ~Booting'
    BY Phase DEF Booting, BootPc, LogInv, TypeOK
  <1>1. TypeOK'
    BY DEF LogInv, TypeOK, OtherPc
  <1>2. IsInjective(lh)' /\ IsInjective(logHead)'
    BY DEF LogInv, IsInjective
  <1>3. ControlInv'
    <2>1. Active' = {}
      BY DEF Active, OpPc
    <2> QED
      BY <1>0, <2>1, FS_EmptySet DEF LogInv, TypeOK, BootInv, ControlInv, BootPc, Committer, CommitPc
  <1>4. CacheInv' /\ CommitInv'
    BY <1>0 DEF LogInv, TypeOK, BootInv, CacheInv, CommitInv, BootPc, Pending, Dirty, Installing
  <1>5. TornInv'
    <2>1. lh = logHead /\ tail[InitProc] > Len(lh)
      BY <1>0 DEF LogInv, BootInv
    <2>2. \A i \in 1..Len(logHead) : home[logHead[i]] = logData[i]
      BY <1>0, <2>1 DEF LogInv, TypeOK, BootInv
    <2>3. \A i \in 1..Len(logHead) : home[logHead[i]] \in Vals
      BY <2>2 DEF LogInv, TornInv
    <2>4. \A b \in Blocks : home[b] \in Vals
      BY <2>3 DEF LogInv, TypeOK, TornInv, Range
    <2> QED
      BY <2>4 DEF TornInv
  <1> QED
    BY <1>0, <1>1, <1>2, <1>3, <1>4, <1>5 DEF LogInv, BootInv

\* Steps that leave the disk, the log and the commit in progress alone.
LEMMA CommitFrame ==
  ASSUME LogInv, ~Booting, ~Booting',
         UNCHANGED <<home, logData, logHead, lh, tail>>,
         \A q \in Procs : Committer(q)' => pc'[q] = pc[q] \/ pc'[q] = "commit",
         \A q \in Procs : Installing(q) => pc'[q] = pc[q],
         \A i \in 1..Len(lh) : buf[lh[i]] # NotCached => buf'[lh[i]] = buf[lh[i]]
  PROVE  /\ \A b \in Blocks : Pending(b)' <=> Pending(b)
         /\ CommitInv' /\ TornInv' /\ IsInjective(lh)' /\ IsInjective(logHead)'
  <1>1. \A q \in Procs : Installing(q)' <=> Installing(q)
    BY DEF Installing, Committer, CommitPc
  <1>2. \A b \in Blocks : Pending(b)' <=> Pending(b)
    BY <1>1 DEF Pending
  <1>3. CommitInv'
    <2>1. \A q \in Procs : pc'[q] = "finish" => lh' = <<>>
      BY DEF LogInv, CommitInv, Committer, CommitPc
    <2>2. logHead' = IF \E q \in Procs : Installing(q)' THEN lh' ELSE <<>>
      BY <1>1 DEF LogInv, CommitInv
    <2>3. ASSUME NEW q \in Procs, NEW i \in 1..Len(lh)
          PROVE  /\ pc'[q] = "write_log" /\ i < tail'[q] => logData'[i] = buf'[lh'[i]]
                 /\ pc'[q] = "commit_head" => logData'[i] = buf'[lh'[i]]
                 /\ Installing(q)' /\ i >= tail'[q] => logData'[i] = buf'[lh'[i]]
                 /\ Installing(q)' /\ i < tail'[q] => logData'[i] = home'[lh'[i]]
                 /\ pc'[q] = "erase" => i < tail'[q]
      <3>1. CASE Committer(q)' /\ pc'[q] = pc[q]
        <4>1. /\ pc[q] \in {"write_log", "commit_head"} => Pending(lh[i])
              /\ Installing(q) /\ i >= tail[q] => Pending(lh[i])
          <5>1. \A r \in Procs : Installing(r) => r = q
            BY <3>1, Solo DEF Committer
          <5> QED
            BY <5>1 DEF Pending, Installing
        <4>2. lh[i] \in Blocks
          BY DEF LogInv, TypeOK
        <4>3. Pending(lh[i]) => buf'[lh[i]] = buf[lh[i]]
          BY <4>2 DEF LogInv, CacheInv
        <4> QED
          BY <3>1, <4>1, <4>3, <1>1 DEF LogInv, CommitInv, Installing
      <3>2. CASE ~(Committer(q)' /\ pc'[q] = pc[q])
        BY <3>2 DEF Committer, CommitPc, Installing
      <3> QED
        BY <3>1, <3>2
    <2> QED
      BY <2>1, <2>2, <2>3 DEF CommitInv
  <1>4. TornInv' /\ IsInjective(lh)' /\ IsInjective(logHead)'
    BY DEF LogInv, TornInv, IsInjective, Range
  <1> QED
    BY <1>2, <1>3, <1>4

\* Steps of a process that is neither booting nor committing, before or after.
LEMMA ControlFrame ==
  ASSUME LogInv, ~Booting, Active' = Active, UNCHANGED <<outstanding, committing>>,
         \A q \in Procs : (Committer(q)' <=> Committer(q)) /\ pc'[q] \notin BootPc \cup {"down"},
         \A b \in Blocks : holder'[b] \in Procs => pc'[holder'[b]] \in BufPc,
         \A b, c \in Blocks : holder'[b] \in Procs /\ holder'[b] = holder'[c] => b = c
  PROVE  ControlInv'
  BY DEF LogInv, ControlInv

UpPc == OpPc \cup {"idle", "begin", "asleep", "reading"}

\* Process p moves from one such control point to another, and stays inside or
\* outside its operation.
LEMMA OpStep ==
  ASSUME LogInv, NEW p \in Procs, NEW l \in UpPc,
         pc[p] \in UpPc, pc[p] \in OpPc <=> l \in OpPc,
         pc' = [pc EXCEPT ![p] = l], UNCHANGED <<outstanding, committing>>,
         \A b \in Blocks : holder'[b] \in Procs => pc'[holder'[b]] \in BufPc,
         \A b, c \in Blocks : holder'[b] \in Procs /\ holder'[b] = holder'[c] => b = c
  PROVE  /\ ~Booting /\ ~Booting' /\ ControlInv' /\ Active' = Active
         /\ \A q \in Procs : Committer(q)' => pc'[q] = pc[q]
         /\ \A q \in Procs : Installing(q) => pc'[q] = pc[q]
         /\ pc' \in [Procs -> BootPc \cup OpPc \cup CommitPc \cup OtherPc]
  <1>0. pc \in [Procs -> BootPc \cup OpPc \cup CommitPc \cup OtherPc]
    BY DEF LogInv, TypeOK
  <1>1. ~Booting /\ ~Booting'
    BY <1>0, Phase, LogAssumption DEF Booting, BootPc, UpPc, OpPc
  <1>2. /\ \A q \in Procs : Committer(q)' => pc'[q] = pc[q]
        /\ \A q \in Procs : Installing(q) => pc'[q] = pc[q]
        /\ \A q \in Procs : Committer(q)' <=> Committer(q)
    BY <1>0 DEF Committer, CommitPc, Installing, UpPc, OpPc
  <1>3. Active' = Active
    BY <1>0 DEF Active
  <1>4. \A q \in Procs : pc'[q] \notin BootPc \cup {"down"}
    BY <1>0, <1>1 DEF LogInv, ControlInv, BootPc, UpPc, OpPc
  <1>5. ControlInv'
    BY <1>1, <1>2, <1>3, <1>4, ControlFrame
  <1>6. pc' \in [Procs -> BootPc \cup OpPc \cup CommitPc \cup OtherPc]
    BY <1>0 DEF UpPc, OpPc, OtherPc
  <1> QED
    BY <1>1, <1>2, <1>3, <1>5, <1>6

\* A system call on its way to begin_op() touches no block.
LEMMA FsCallInv ==
  ASSUME LogInv, Running, NEW p \in Procs, FsCall(p)
  PROVE  LogInv'
  <1> USE LogAssumption DEF disk, mem, log
  <1>1. /\ pc[p] = "idle" /\ pc' = [pc EXCEPT ![p] = "begin"]
        /\ wrote' = [wrote EXCEPT ![p] = {}] /\ ops' \in 0..MaxOps
        /\ UNCHANGED <<home, logData, logHead, buf, pins, holder, outstanding,
                       committing, lh, panicked, tail, crashes>>
    BY DEF FsCall, Goto, LogInv, TypeOK
  <1>2. ~Booting
    BY <1>1, Phase DEF BootPc
  <1>3. /\ \A c \in Blocks : holder'[c] \in Procs => pc'[holder'[c]] \in BufPc
        /\ \A c, d \in Blocks : holder'[c] \in Procs /\ holder'[c] = holder'[d] => c = d
    BY <1>1, <1>2 DEF LogInv, TypeOK, ControlInv, BufPc
  <1>4. /\ ~Booting' /\ ControlInv' /\ Active' = Active
        /\ \A q \in Procs : Committer(q)' => pc'[q] = pc[q]
        /\ \A q \in Procs : Installing(q) => pc'[q] = pc[q]
        /\ pc' \in [Procs -> BootPc \cup OpPc \cup CommitPc \cup OtherPc]
    BY <1>1, <1>3, OpStep DEF UpPc, OpPc
  <1>5. /\ \A c \in Blocks : Pending(c)' <=> Pending(c)
        /\ CommitInv' /\ TornInv' /\ IsInjective(lh)' /\ IsInjective(logHead)'
    BY <1>1, <1>2, <1>4, CommitFrame
  <1>6. TypeOK'
    BY <1>1, <1>4 DEF LogInv, TypeOK
  <1>7. CacheInv'
    BY <1>1, <1>2, <1>4, <1>5 DEF LogInv, TypeOK, CacheInv, Dirty
  <1> QED
    BY <1>4, <1>5, <1>6, <1>7 DEF LogInv, BootInv

\* bread() locks a buffer nobody holds and fills it from the disk.
LEMMA BreadInv ==
  ASSUME LogInv, Running, NEW p \in Procs, NEW b \in Blocks, bread(p, b)
  PROVE  LogInv'
  <1> USE LogAssumption DEF disk, mem, log
  <1>1. /\ holder[b] = Nobody /\ holder' = [holder EXCEPT ![b] = p]
        /\ \/ pc[p] = "op" /\ pc' = [pc EXCEPT ![p] = "held"]
           \/ pc[p] = "idle" /\ pc' = [pc EXCEPT ![p] = "reading"]
        /\ ops' \in 0..MaxOps
        /\ UNCHANGED <<home, logData, logHead, pins, outstanding, committing, lh,
                       panicked, tail, wrote, crashes>>
    BY DEF bread, Goto, LogInv, TypeOK
  <1>2. ~Booting
    BY <1>1, Phase DEF BootPc
  <1>3. /\ \A c \in Blocks : holder'[c] \in Procs => pc'[holder'[c]] \in BufPc
        /\ \A c, d \in Blocks : holder'[c] \in Procs /\ holder'[c] = holder'[d] => c = d
    <2>1. \A c \in Blocks : holder'[c] = IF c = b THEN p ELSE holder[c]
      BY <1>1 DEF LogInv, TypeOK
    <2>2. pc[p] \notin BufPc /\ pc'[p] \in BufPc /\ \A q \in Procs : q # p => pc'[q] = pc[q]
      BY <1>1 DEF LogInv, TypeOK, BufPc
    <2>3. /\ \A c \in Blocks : holder[c] \in Procs => pc[holder[c]] \in BufPc
          /\ \A c, d \in Blocks : holder[c] \in Procs /\ holder[c] = holder[d] => c = d
      BY <1>2 DEF LogInv, ControlInv
    <2>4. \A c \in Blocks : holder[c] # p
      BY <2>2, <2>3
    <2> QED
      BY <2>1, <2>2, <2>3, <2>4
  <1>4. /\ ~Booting' /\ ControlInv' /\ Active' = Active
        /\ \A q \in Procs : Committer(q)' => pc'[q] = pc[q]
        /\ \A q \in Procs : Installing(q) => pc'[q] = pc[q]
        /\ pc' \in [Procs -> BootPc \cup OpPc \cup CommitPc \cup OtherPc]
    BY <1>1, <1>3, OpStep DEF UpPc, OpPc
  <1>a. /\ buf \in [Blocks -> Vals \cup {NotCached}] /\ buf' \in [Blocks -> Vals \cup {NotCached}]
        /\ \A c \in Blocks : buf'[c] = IF c = b /\ buf[b] = NotCached THEN home[b] ELSE buf[c]
    <2>1. buf[b] = NotCached => home[b] \in Vals
      BY <1>2, HomeVals DEF LogInv, CacheInv
    <2> QED
      BY <1>2, <2>1 DEF LogInv, TypeOK, CacheInv, bread
  <1>5. /\ \A c \in Blocks : Pending(c)' <=> Pending(c)
        /\ CommitInv' /\ TornInv' /\ IsInjective(lh)' /\ IsInjective(logHead)'
    <2>1. \A i \in 1..Len(lh) : buf[lh[i]] # NotCached => buf'[lh[i]] = buf[lh[i]]
      BY <1>a DEF LogInv, TypeOK
    <2> QED
      BY <1>1, <1>2, <1>4, <2>1, CommitFrame
  <1>6. TypeOK'
    <2>1. buf' \in [Blocks -> Vals \cup {Torn, NotCached}]
      BY <1>a
    <2>2. holder' \in [Blocks -> Procs \cup {Nobody}]
      BY <1>1 DEF LogInv, TypeOK
    <2> QED
      BY <1>1, <1>4, <2>1, <2>2 DEF LogInv, TypeOK
  <1>7. CacheInv'
    <2>1. \A c \in Blocks : Dirty(c)' <=> Dirty(c)
      BY <1>1 DEF LogInv, TypeOK, Dirty
    <2> QED
      BY <1>1, <1>2, <1>4, <1>5, <1>a, <2>1 DEF LogInv, TypeOK, CacheInv
  <1> QED
    BY <1>4, <1>5, <1>6, <1>7 DEF LogInv, BootInv

\* The holder of a buffer changes its data: the buffer is dirty, not yet logged.
LEMMA ModifyInv ==
  ASSUME LogInv, Running, NEW p \in Procs, NEW b \in Blocks, NEW v \in Vals, Modify(p, b, v)
  PROVE  LogInv'
  <1> USE LogAssumption DEF disk, mem, log
  <1>1. /\ holder[b] = p /\ pc[p] = "held" /\ pc' = [pc EXCEPT ![p] = "dirty"]
        /\ buf' = [buf EXCEPT ![b] = v] /\ wrote' = [wrote EXCEPT ![p] = wrote[p] \cup {b}]
        /\ UNCHANGED <<home, logData, logHead, pins, holder, outstanding, committing, lh,
                       panicked, tail, ops, crashes>>
    BY DEF Modify, Goto
  <1>2. /\ ~Booting /\ \A q \in Procs : ~Committer(q) /\ ~Installing(q)
    BY <1>1, NoCommit DEF OpPc
  <1>3. /\ \A c \in Blocks : holder'[c] \in Procs => pc'[holder'[c]] \in BufPc
        /\ \A c, d \in Blocks : holder'[c] \in Procs /\ holder'[c] = holder'[d] => c = d
    BY <1>1, <1>2 DEF LogInv, TypeOK, ControlInv, BufPc
  <1>4. /\ ~Booting' /\ ControlInv' /\ Active' = Active
        /\ \A q \in Procs : Committer(q)' => pc'[q] = pc[q]
        /\ pc' \in [Procs -> BootPc \cup OpPc \cup CommitPc \cup OtherPc]
    BY <1>1, <1>3, OpStep DEF UpPc, OpPc
  <1>5. /\ \A q \in Procs : ~Committer(q)' /\ ~Installing(q)'
        /\ \A c \in Blocks : Pending(c)' <=> Pending(c)
    <2>1. \A q \in Procs : ~Committer(q)'
      BY <1>2, <1>4 DEF Committer
    <2>2. \A q \in Procs : ~Installing(q)'
      BY <2>1 DEF Committer, Installing, CommitPc
    <2> QED
      BY <1>1, <1>2, <2>1, <2>2 DEF Pending
  <1>6. TypeOK'
    BY <1>1, <1>4 DEF LogInv, TypeOK
  <1>7. CacheInv'
    <2>1. \A c \in Blocks : Dirty(c)' <=> Dirty(c) \/ c = b
      BY <1>1, <1>2 DEF LogInv, TypeOK, Dirty, ControlInv
    <2> QED
      BY <1>1, <1>2, <1>4, <1>5, <2>1 DEF LogInv, TypeOK, CacheInv
  <1>8. CommitInv'
    BY <1>1, <1>2, <1>5 DEF LogInv, CommitInv, Committer, CommitPc
  <1>9. TornInv' /\ IsInjective(lh)' /\ IsInjective(logHead)'
    BY <1>1 DEF LogInv, TornInv, IsInjective, Range
  <1> QED
    BY <1>4, <1>5, <1>6, <1>7, <1>8, <1>9 DEF LogInv, BootInv

\* brelse() gives back a buffer that is clean or logged.
LEMMA BrelseInv ==
  ASSUME LogInv, Running, NEW p \in Procs, NEW b \in Blocks, brelse(p, b)
  PROVE  LogInv'
  <1> USE LogAssumption DEF disk, mem, log
  <1>1. /\ holder[b] = p /\ holder' = [holder EXCEPT ![b] = Nobody]
        /\ \/ pc[p] \in {"held", "logged"} /\ pc' = [pc EXCEPT ![p] = "op"]
           \/ pc[p] = "reading" /\ pc' = [pc EXCEPT ![p] = "idle"]
        /\ UNCHANGED <<home, logData, logHead, buf, pins, outstanding, committing, lh,
                       panicked, tail, wrote, ops, crashes>>
    BY DEF brelse, Goto
  <1>2. ~Booting
    BY <1>1, Phase DEF BootPc
  <1>3. /\ \A c \in Blocks : holder'[c] \in Procs => pc'[holder'[c]] \in BufPc
        /\ \A c, d \in Blocks : holder'[c] \in Procs /\ holder'[c] = holder'[d] => c = d
    BY <1>1, <1>2 DEF LogInv, TypeOK, ControlInv, BufPc
  <1>4. /\ ~Booting' /\ ControlInv' /\ Active' = Active
        /\ \A q \in Procs : Committer(q)' => pc'[q] = pc[q]
        /\ \A q \in Procs : Installing(q) => pc'[q] = pc[q]
        /\ pc' \in [Procs -> BootPc \cup OpPc \cup CommitPc \cup OtherPc]
    BY <1>1, <1>3, OpStep DEF UpPc, OpPc
  <1>5. /\ \A c \in Blocks : Pending(c)' <=> Pending(c)
        /\ CommitInv' /\ TornInv' /\ IsInjective(lh)' /\ IsInjective(logHead)'
    BY <1>1, <1>2, <1>4, CommitFrame
  <1>6. TypeOK'
    BY <1>1, <1>4 DEF LogInv, TypeOK
  <1>7. CacheInv'
    <2>1. \A c \in Blocks : Dirty(c)' <=> Dirty(c)
      BY <1>1 DEF LogInv, TypeOK, Dirty
    <2> QED
      BY <1>1, <1>2, <1>4, <1>5, <2>1 DEF LogInv, TypeOK, CacheInv
  <1> QED
    BY <1>4, <1>5, <1>6, <1>7 DEF LogInv, BootInv

\* log_write() records and pins the dirty block, once.
LEMMA LogWriteInv ==
  ASSUME LogInv, Running, NEW p \in Procs, NEW b \in Blocks, log_write(p, b)
  PROVE  LogInv'
  <1> USE LogAssumption DEF disk, mem, log
  <1>1. /\ holder[b] = p /\ pc[p] = "dirty"
        /\ UNCHANGED <<home, logData, logHead, buf, holder, outstanding, committing,
                       tail, wrote, ops, crashes>>
    BY DEF log_write
  <1>2. /\ ~Booting /\ logHead = <<>> /\ \A q \in Procs : ~Committer(q) /\ ~Installing(q)
        /\ \A c \in Blocks : Pending(c) <=> c \in Range(lh)
    BY <1>1, NoCommit DEF OpPc
  <1>3. CASE LogFull \/ outstanding < 1
    <2>1. /\ UNCHANGED <<lh, pins, pc>>
          /\ panicked' \in {"too_big_a_transaction", "log_write_outside_of_trans"}
      BY <1>3 DEF log_write
    <2>2. ~Booting' /\ Active' = Active /\ \A q \in Procs : Committer(q)' <=> Committer(q)
      BY <1>2, <2>1 DEF Booting, Active, Committer
    <2>3. ControlInv'
      BY <1>1, <1>2, <2>1, <2>2 DEF LogInv, ControlInv
    <2>4. TypeOK'
      BY <1>1, <2>1 DEF LogInv, TypeOK
    <2>5. CommitInv' /\ CacheInv'
      BY <1>1, <1>2, <2>1 DEF LogInv, CommitInv, CacheInv, Pending, Dirty, Installing
    <2>6. TornInv' /\ IsInjective(lh)' /\ IsInjective(logHead)'
      BY <1>1, <2>1 DEF LogInv, TornInv, IsInjective, Range
    <2> QED
      BY <2>2, <2>3, <2>4, <2>5, <2>6 DEF LogInv, BootInv
  <1>4. CASE ~(LogFull \/ outstanding < 1)
    <2>1. /\ pc' = [pc EXCEPT ![p] = "logged"] /\ UNCHANGED panicked
          /\ \/ b \in Range(lh) /\ UNCHANGED <<lh, pins>>
             \/ b \notin Range(lh) /\ lh' = Append(lh, b) /\ pins' = [pins EXCEPT ![b] = pins[b] + 1]
      BY <1>4 DEF log_write, Goto, bpin
    <2>2. /\ \A c \in Blocks : holder'[c] \in Procs => pc'[holder'[c]] \in BufPc
          /\ \A c, d \in Blocks : holder'[c] \in Procs /\ holder'[c] = holder'[d] => c = d
      BY <1>1, <1>2, <2>1 DEF LogInv, TypeOK, ControlInv, BufPc
    <2>3. /\ ~Booting' /\ ControlInv' /\ Active' = Active
          /\ \A q \in Procs : Committer(q)' => pc'[q] = pc[q]
          /\ pc' \in [Procs -> BootPc \cup OpPc \cup CommitPc \cup OtherPc]
      BY <1>1, <2>1, <2>2, OpStep DEF UpPc, OpPc
    <2>4. \A q \in Procs : ~Committer(q)' /\ ~Installing(q)'
      BY <1>2, <2>3 DEF Committer, Installing, CommitPc
    <2>5. /\ lh' \in Seq(Blocks) /\ Len(lh') <= LOGSIZE /\ IsInjective(lh')
          /\ DOMAIN lh' = 1..Len(lh')
          /\ \A c \in Blocks : c \in Range(lh') <=> c \in Range(lh) \/ c = b
      <3>1. CASE b \in Range(lh)
        BY <2>1, <3>1 DEF LogInv, TypeOK
      <3>2. CASE b \notin Range(lh)
        <4>1. lh' = Append(lh, b) /\ lh \in Seq(Blocks) /\ Len(lh) < LOGSIZE
          BY <1>4, <2>1, <3>2 DEF LogFull, LogInv, TypeOK
        <4>2. /\ Len(lh') = Len(lh) + 1 /\ lh'[Len(lh) + 1] = b /\ DOMAIN lh' = 1..Len(lh')
              /\ \A i \in 1..Len(lh) : lh'[i] = lh[i]
              /\ DOMAIN lh = 1..Len(lh) /\ Len(lh) \in Nat
          BY <4>1
        <4>3. \A i \in 1..Len(lh) : lh[i] # b
          BY <3>2, <4>2 DEF Range
        <4>4. IsInjective(lh')
          BY <4>2, <4>3 DEF LogInv, IsInjective
        <4>5. \A c \in Blocks : c \in Range(lh') <=> c \in Range(lh) \/ c = b
          BY <4>2 DEF Range
        <4> QED
          BY <4>1, <4>2, <4>4, <4>5
      <3> QED
        BY <3>1, <3>2
    <2>6. \A c \in Blocks : Pending(c)' <=> c \in Range(lh')
      BY <2>4, <2>5 DEF Pending, Range
    <2>a. /\ pins' \in [Blocks -> Nat]
          /\ \A c \in Blocks : pins'[c] = IF c = b /\ b \notin Range(lh) THEN pins[c] + 1 ELSE pins[c]
      <3>1. pins \in [Blocks -> Nat]
        BY DEF LogInv, TypeOK
      <3>2. CASE b \in Range(lh)
        BY <2>1, <3>1, <3>2
      <3>3. CASE b \notin Range(lh)
        <4>1. pins' = [pins EXCEPT ![b] = pins[b] + 1] /\ pins[b] + 1 \in Nat
          BY <2>1, <3>1, <3>3
        <4> QED
          BY <3>1, <3>3, <4>1
      <3> QED
        BY <3>2, <3>3
    <2>7. TypeOK'
      BY <1>1, <2>1, <2>3, <2>5, <2>a DEF LogInv, TypeOK
    <2>8. CacheInv'
      <3>1. \A c \in Blocks : Dirty(c)' <=> Dirty(c) /\ c # b
        BY <1>1, <1>2, <2>1 DEF LogInv, TypeOK, Dirty, ControlInv
      <3>2. Dirty(b)
        BY <1>1 DEF Dirty
      <3> QED
        BY <1>1, <1>2, <2>3, <2>5, <2>6, <2>a, <3>1, <3>2 DEF LogInv, CacheInv
    <2>9. CommitInv'
      BY <1>1, <1>2, <2>4 DEF LogInv, CommitInv, Committer, CommitPc
    <2>10. TornInv' /\ IsInjective(logHead)'
      BY <1>1 DEF LogInv, TornInv, IsInjective, Range
    <2> QED
      BY <2>3, <2>5, <2>7, <2>8, <2>9, <2>10 DEF LogInv, BootInv
  <1> QED
    BY <1>3, <1>4

\* A recycled buffer is one that agrees with the disk.
LEMMA EvictInv ==
  ASSUME LogInv, Running, NEW b \in Blocks, Evict(b)
  PROVE  LogInv'
  <1> USE LogAssumption DEF disk, mem, log, loc
  <1>1. /\ pins[b] = 0 /\ holder[b] = Nobody /\ buf' = [buf EXCEPT ![b] = NotCached]
        /\ UNCHANGED <<home, logData, logHead, pins, holder, outstanding, committing, lh,
                       panicked, pc, tail, wrote, ops, crashes>>
    BY DEF Evict
  <1>2. /\ (Booting' <=> Booting) /\ Active' = Active
        /\ \A q \in Procs : (Committer(q)' <=> Committer(q)) /\ (Installing(q)' <=> Installing(q))
        /\ \A c \in Blocks : (Pending(c)' <=> Pending(c)) /\ (Dirty(c)' <=> Dirty(c))
    BY <1>1 DEF Booting, Active, Committer, Installing, Pending, Dirty
  <1>3. TypeOK'
    BY <1>1 DEF LogInv, TypeOK
  <1>4. TornInv' /\ IsInjective(lh)' /\ IsInjective(logHead)'
    BY <1>1 DEF LogInv, TornInv, IsInjective, Range
  <1>5. BootInv'
    BY <1>1, <1>2 DEF LogInv, TypeOK, BootInv, Running
  <1>6. ControlInv'
    BY <1>1, <1>2 DEF LogInv, ControlInv
  <1>7. CacheInv'
    <2>1. ~Dirty(b)
      BY <1>1 DEF Dirty
    <2> QED
      BY <1>1, <1>2, <2>1 DEF LogInv, TypeOK, CacheInv
  <1>8. CommitInv'
    <2> SUFFICES ASSUME ~Booting PROVE CommitInv'
      BY <1>2 DEF CommitInv
    <2>1. ~Pending(b)
      BY <1>1 DEF LogInv, CacheInv
    <2>2. ASSUME NEW q \in Procs, NEW i \in 1..Len(lh), Committer(q), Installing(q) => i >= tail[q]
          PROVE  buf'[lh[i]] = buf[lh[i]]
      <3>1. Pending(lh[i])
        BY <2>2, Solo DEF Pending
      <3>2. lh[i] \in Blocks /\ lh[i] # b
        BY <2>1, <3>1 DEF LogInv, TypeOK
      <3> QED
        BY <1>1, <3>2 DEF LogInv, TypeOK
    <2>3. ASSUME NEW q \in Procs, NEW i \in 1..Len(lh)
          PROVE  /\ pc[q] = "write_log" /\ i < tail[q] => logData[i] = buf'[lh[i]]
                 /\ pc[q] = "commit_head" => logData[i] = buf'[lh[i]]
                 /\ Installing(q) /\ i >= tail[q] => logData[i] = buf'[lh[i]]
      BY <2>2 DEF LogInv, CommitInv, Installing, Committer, CommitPc
    <2> QED
      BY <1>1, <1>2, <2>3 DEF LogInv, CommitInv
  <1> QED
    BY <1>3, <1>4, <1>5, <1>6, <1>7, <1>8 DEF LogInv

\* begin_op() lets an operation in only while nobody commits.
LEMMA BeginOpInv ==
  ASSUME LogInv, Running, NEW p \in Procs, begin_op(p)
  PROVE  LogInv'
  <1> USE LogAssumption DEF disk, mem, log
  <1>1. /\ pc[p] = "begin"
        /\ \/ committing = 0 /\ outstanding' = outstanding + 1 /\ pc' = [pc EXCEPT ![p] = "op"]
           \/ outstanding' = outstanding /\ pc' = [pc EXCEPT ![p] = "asleep"]
        /\ UNCHANGED <<home, logData, logHead, buf, pins, holder, committing, lh,
                       panicked, tail, wrote, ops, crashes>>
    BY DEF begin_op, Goto
  <1>2. ~Booting
    BY <1>1, Phase DEF BootPc
  <1>3. /\ \A c \in Blocks : holder'[c] \in Procs => pc'[holder'[c]] \in BufPc
        /\ \A c, d \in Blocks : holder'[c] \in Procs /\ holder'[c] = holder'[d] => c = d
    BY <1>1, <1>2 DEF LogInv, TypeOK, ControlInv, BufPc
  <1>4. /\ ~Booting'
        /\ \A q \in Procs : Committer(q)' => pc'[q] = pc[q]
        /\ \A q \in Procs : Installing(q) => pc'[q] = pc[q]
        /\ \A q \in Procs : Committer(q)' <=> Committer(q)
        /\ \A q \in Procs : pc'[q] \notin BootPc \cup {"down"}
    BY <1>1, <1>2 DEF LogInv, TypeOK, Booting, BootPc, Committer, CommitPc, Installing, ControlInv
  <1>5. /\ \A c \in Blocks : Pending(c)' <=> Pending(c)
        /\ CommitInv' /\ TornInv' /\ IsInjective(lh)' /\ IsInjective(logHead)'
    BY <1>1, <1>2, <1>4, CommitFrame
  <1>6. TypeOK'
    <2>1. outstanding' \in Nat
      BY <1>1 DEF LogInv, TypeOK
    <2>2. pc' \in [Procs -> BootPc \cup OpPc \cup CommitPc \cup OtherPc]
      BY <1>1 DEF LogInv, TypeOK, OpPc, OtherPc
    <2> QED
      BY <1>1, <2>1, <2>2 DEF LogInv, TypeOK
  <1>7. CacheInv'
    BY <1>1, <1>2, <1>4, <1>5 DEF LogInv, TypeOK, CacheInv, Dirty
  <1>8. ControlInv'
    <2>1. CASE outstanding' = outstanding /\ pc' = [pc EXCEPT ![p] = "asleep"]
      <3>1. Active' = Active
        BY <1>1, <2>1 DEF Active, OpPc, LogInv, TypeOK
      <3> QED
        BY <1>1, <1>2, <1>3, <1>4, <2>1, <3>1, ControlFrame
    <2>2. CASE committing = 0 /\ outstanding' = outstanding + 1 /\ pc' = [pc EXCEPT ![p] = "op"]
      <3>1. Active' = Active \cup {p} /\ p \notin Active
        BY <1>1, <2>2 DEF Active, OpPc, LogInv, TypeOK
      <3>2. Cardinality(Active') = Cardinality(Active) + 1
        BY <3>1, ActiveFinite, FS_AddElement
      <3> QED
        BY <1>1, <1>2, <1>3, <1>4, <2>2, <3>2 DEF LogInv, ControlInv
    <2> QED
      BY <1>1, <2>1, <2>2
  <1> QED
    BY <1>4, <1>5, <1>6, <1>7, <1>8 DEF LogInv, BootInv

\* The last end_op() leaves no active operation behind when it starts to commit.
LEMMA EndOpInv ==
  ASSUME LogInv, Running, NEW p \in Procs, end_op(p)
  PROVE  LogInv' /\ UNCHANGED panicked
  <1> USE LogAssumption DEF disk, mem, log
  <1>1. /\ pc[p] = "op" /\ outstanding' = outstanding - 1
        /\ UNCHANGED <<home, logData, logHead, buf, pins, holder, lh, tail, wrote, ops, crashes>>
    BY DEF end_op
  <1>2. /\ ~Booting /\ committing = 0 /\ p \in Active
        /\ \A q \in Procs : ~Committer(q) /\ ~Installing(q)
    BY <1>1, NoCommit DEF OpPc
  <1>3. /\ \/ outstanding = 1 /\ committing' = 1 /\ pc' = [pc EXCEPT ![p] = "commit"]
           \/ outstanding # 1 /\ committing' = 0 /\ pc' = Woken([pc EXCEPT ![p] = "idle"])
        /\ panicked' = panicked
    BY <1>2 DEF end_op, Goto, LastOut
  <1>4. /\ Active' = Active \ {p}
        /\ outstanding = Cardinality(Active) /\ outstanding' = Cardinality(Active')
        /\ outstanding' \in Nat /\ (outstanding = 1 => Active' = {})
    <2>1. Active' = Active \ {p}
      BY <1>1, <1>3 DEF Active, OpPc, Woken, LogInv, TypeOK
    <2>2. outstanding = Cardinality(Active)
      BY <1>2 DEF LogInv, ControlInv
    <2>3. Cardinality(Active') = Cardinality(Active) - 1 /\ IsFiniteSet(Active')
      BY <1>2, <2>1, ActiveFinite, FS_RemoveElement
    <2>4. Cardinality(Active') \in Nat /\ (Cardinality(Active') = 0 => Active' = {})
      BY <2>3, FS_CardinalityType, FS_EmptySet
    <2> QED
      BY <1>1, <2>1, <2>2, <2>3, <2>4, ActiveFinite
  <1>5. /\ ~Booting'
        /\ \A q \in Procs : Committer(q)' => q = p /\ pc'[q] = "commit"
        /\ (committing' = 1 <=> \E q \in Procs : Committer(q)')
        /\ \A q \in Procs : pc'[q] \notin BootPc \cup {"down"}
        /\ \A q \in Procs : pc[q] \in BufPc => pc'[q] = pc[q]
        /\ \A q \in Procs : pc'[q] = "dirty" => pc[q] = "dirty"
    <2>1. ASSUME NEW q \in Procs
          PROVE  \/ pc'[q] = pc[q] /\ q # p
                 \/ q = p /\ pc'[q] = "commit" /\ committing' = 1
                 \/ q = p /\ pc'[q] = "idle" /\ committing' = 0
                 \/ q # p /\ pc[q] = "asleep" /\ pc'[q] = "begin"
      BY <1>1, <1>3 DEF LogInv, TypeOK, Woken
    <2>2. pc[p] \notin BufPc
      BY <1>1 DEF BufPc
    <2>3. \A q \in Procs : pc'[q] \notin BootPc \cup {"down"}
      BY <1>2, <2>1 DEF LogInv, BootPc, ControlInv
    <2>4. /\ \A q \in Procs : Committer(q)' => q = p /\ pc'[q] = "commit"
          /\ (committing' = 1 <=> \E q \in Procs : Committer(q)')
      BY <1>2, <1>3, <2>1 DEF Committer, CommitPc
    <2>5. /\ \A q \in Procs : pc[q] \in BufPc => pc'[q] = pc[q]
          /\ \A q \in Procs : pc'[q] = "dirty" => pc[q] = "dirty"
      BY <2>1, <2>2 DEF BufPc
    <2> QED
      BY <2>3, <2>4, <2>5 DEF Booting
  <1>6. /\ \A c \in Blocks : Pending(c)' <=> Pending(c)
        /\ CommitInv' /\ TornInv' /\ IsInjective(lh)' /\ IsInjective(logHead)'
    BY <1>1, <1>2, <1>5, CommitFrame
  <1>7. TypeOK'
    BY <1>1, <1>3, <1>4 DEF LogInv, TypeOK, CommitPc, OtherPc, Woken
  <1>8. \A c \in Blocks : Dirty(c)' <=> Dirty(c)
    BY <1>1, <1>5 DEF Dirty, BufPc
  <1>9. CacheInv'
    BY <1>1, <1>2, <1>5, <1>6, <1>8 DEF LogInv, CacheInv
  <1>10. ControlInv'
    BY <1>1, <1>2, <1>3, <1>4, <1>5 DEF LogInv, ControlInv
  <1> QED
    BY <1>3, <1>5, <1>6, <1>7, <1>9, <1>10 DEF LogInv, BootInv

\* A step of the committing process from one point of commit() to another.
LEMMA CommitStep ==
  ASSUME LogInv, NEW p \in Procs, Committer(p), NEW l \in CommitPc,
         pc' = [pc EXCEPT ![p] = l], UNCHANGED <<holder, outstanding, committing>>
  PROVE  /\ ~Booting /\ ~Booting' /\ ControlInv' /\ Active = {} /\ Active' = {}
         /\ \A q \in Procs : Committer(q) => q = p
         /\ \A q \in Procs : Committer(q)' => q = p
         /\ \A q \in Procs : Installing(q) => q = p
         /\ \A q \in Procs : Installing(q)' => q = p
         /\ \A b \in Blocks : ~Dirty(b) /\ ~Dirty(b)'
         /\ pc[p] \in CommitPc /\ pc'[p] = l
         /\ pc' \in [Procs -> BootPc \cup OpPc \cup CommitPc \cup OtherPc]
  <1>0. pc \in [Procs -> BootPc \cup OpPc \cup CommitPc \cup OtherPc] /\ pc[p] \in CommitPc
    BY DEF LogInv, TypeOK, Committer
  <1>1. /\ ~Booting /\ committing = 1 /\ Active = {}
        /\ \A q \in Procs : Committer(q) => q = p
        /\ \A q \in Procs : Installing(q) => q = p
    BY Solo
  <1>2. /\ ~Booting' /\ Active' = Active
        /\ \A q \in Procs : Committer(q)' <=> Committer(q)
        /\ \A q \in Procs : Installing(q)' => Committer(q)'
        /\ \A q \in Procs : pc'[q] \notin BootPc \cup {"down"}
    <2>1. ~Booting' /\ \A q \in Procs : pc'[q] \notin BootPc \cup {"down"}
      BY <1>0, <1>1, LogAssumption DEF LogInv, ControlInv, Booting, BootPc, CommitPc
    <2>2. Active' = Active
      BY <1>0 DEF Active, OpPc, CommitPc
    <2>3. \A q \in Procs : (Committer(q)' <=> Committer(q)) /\ (Installing(q)' => Committer(q)')
      BY <1>0 DEF Committer, Installing, CommitPc
    <2> QED
      BY <2>1, <2>2, <2>3
  <1>3. /\ \A c \in Blocks : holder'[c] \in Procs => pc'[holder'[c]] \in BufPc
        /\ \A c, d \in Blocks : holder'[c] \in Procs /\ holder'[c] = holder'[d] => c = d
    BY <1>0, <1>1 DEF LogInv, ControlInv, BufPc, CommitPc
  <1>4. ControlInv'
    BY <1>1, <1>2, <1>3, ControlFrame
  <1>5. \A b \in Blocks : ~Dirty(b) /\ ~Dirty(b)'
    BY <1>0, <1>1, <1>2 DEF Dirty, Active, OpPc
  <1>6. pc' \in [Procs -> BootPc \cup OpPc \cup CommitPc \cup OtherPc]
    BY <1>0
  <1> QED
    BY <1>0, <1>1, <1>2, <1>4, <1>5, <1>6

\* commit() does nothing when nothing was logged.
LEMMA CommitOrSkipInv ==
  ASSUME LogInv, Running, NEW p \in Procs, CommitOrSkip(p)
  PROVE  LogInv'
  <1> USE LogAssumption DEF disk, mem, log
  <1>1. /\ pc[p] = "commit" /\ tail' = [tail EXCEPT ![p] = 1]
        /\ \/ Len(lh) > 0 /\ pc' = [pc EXCEPT ![p] = "write_log"]
           \/ ~(Len(lh) > 0) /\ pc' = [pc EXCEPT ![p] = "finish"]
        /\ UNCHANGED <<home, logData, logHead, buf, pins, holder, outstanding, committing,
                       lh, panicked, wrote, ops, crashes>>
    BY DEF CommitOrSkip, Goto
  <1>2. /\ ~Booting /\ ~Booting' /\ ControlInv'
        /\ \A q \in Procs : Committer(q)' => q = p
        /\ \A q \in Procs : Installing(q) => q = p
        /\ \A q \in Procs : Installing(q)' => q = p
        /\ \A b \in Blocks : ~Dirty(b) /\ ~Dirty(b)'
        /\ pc' \in [Procs -> BootPc \cup OpPc \cup CommitPc \cup OtherPc]
        /\ pc'[p] \in {"write_log", "finish"} /\ (pc'[p] = "finish" => ~(Len(lh) > 0))
    BY <1>1, CommitStep DEF CommitPc, Committer
  <1>3. /\ \A q \in Procs : ~Installing(q) /\ ~Installing(q)'
        /\ \A b \in Blocks : Pending(b)' <=> Pending(b)
    BY <1>1, <1>2 DEF Installing, Pending
  <1>4. TypeOK'
    BY <1>1, <1>2 DEF LogInv, TypeOK
  <1>5. TornInv' /\ IsInjective(lh)' /\ IsInjective(logHead)'
    BY <1>1 DEF LogInv, TornInv, IsInjective, Range
  <1>6. CacheInv'
    BY <1>1, <1>2, <1>3 DEF LogInv, CacheInv
  <1>7. CommitInv'
    <2>1. pc'[p] = "finish" => lh = <<>>
      BY <1>2 DEF LogInv, TypeOK
    <2>2. tail'[p] = 1
      BY <1>1 DEF LogInv, TypeOK
    <2> QED
      BY <1>1, <1>2, <1>3, <2>1, <2>2 DEF LogInv, CommitInv, Committer, CommitPc
  <1> QED
    BY <1>2, <1>4, <1>5, <1>6, <1>7 DEF LogInv, BootInv

\* write_log() copies one cached block to the log.
LEMMA WriteLogInv ==
  ASSUME LogInv, Running, NEW p \in Procs, write_log(p)
  PROVE  LogInv' /\ UNCHANGED buf
  <1> USE LogAssumption DEF disk, mem, log
  <1>0. pc[p] = "write_log" /\ Committer(p)
    BY DEF write_log, Committer, CommitPc
  <1>1. CASE tail[p] <= Len(lh)
    <2> DEFINE t == tail[p]
               b == lh[t]
    <2>1. /\ logData' = [logData EXCEPT ![t] = IF buf[b] = NotCached THEN home[b] ELSE buf[b]]
          /\ buf' = [buf EXCEPT ![b] = IF buf[b] = NotCached THEN home[b] ELSE buf[b]]
          /\ tail' = [tail EXCEPT ![p] = t + 1]
          /\ UNCHANGED <<pc, home, logHead, pins, holder, outstanding, committing,
                         lh, panicked, wrote, ops, crashes>>
      BY <1>1 DEF write_log
    <2>2. /\ ~Booting /\ \A q \in Procs : Committer(q) => q = p
          /\ \A q \in Procs : Installing(q) => q = p
      BY <1>0, Solo
    <2>3. /\ \A q \in Procs : ~Installing(q)
          /\ logHead = <<>>
      BY <1>0, <2>2 DEF Installing, LogInv, CommitInv
    <2>4. t \in 1..Len(lh) /\ b \in Blocks /\ Pending(b) /\ t \in 1..LOGSIZE
      BY <1>1, <2>3 DEF LogInv, TypeOK, Pending
    <2>5. buf[b] \in Vals
      BY <2>2, <2>4 DEF LogInv, CacheInv
    <2>6. buf' = buf /\ logData' = [logData EXCEPT ![t] = buf[b]]
      BY <2>1, <2>4, <2>5 DEF LogInv, TypeOK
    <2> HIDE DEF t, b
    <2>7. TypeOK'
      BY <2>1, <2>4, <2>5, <2>6 DEF LogInv, TypeOK, t
    <2>8. TornInv' /\ IsInjective(lh)' /\ IsInjective(logHead)'
      BY <2>1, <2>3 DEF LogInv, TornInv, IsInjective, Range
    <2>9. /\ ~Booting' /\ \A q \in Procs : (Committer(q)' <=> Committer(q)) /\ ~Installing(q)'
          /\ Active' = Active /\ \A c \in Blocks : (Pending(c)' <=> Pending(c)) /\ (Dirty(c)' <=> Dirty(c))
      BY <2>1, <2>2, <2>3 DEF Booting, Committer, Installing, Active, Pending, Dirty
    <2>10. ControlInv' /\ CacheInv'
      BY <2>1, <2>2, <2>6, <2>9 DEF LogInv, ControlInv, CacheInv
    <2>11. CommitInv'
      <3>1. \A i \in 1..Len(lh) : i < t + 1 => logData'[i] = buf[lh[i]]
        <4> SUFFICES ASSUME NEW i \in 1..Len(lh), i < t + 1
                     PROVE  logData'[i] = buf[lh[i]]
          OBVIOUS
        <4>1. i \in 1..LOGSIZE /\ (i = t \/ i < t)
          BY <2>4 DEF LogInv, TypeOK
        <4>2. CASE i = t
          BY <2>4, <2>6, <4>2 DEF LogInv, TypeOK, b
        <4>3. CASE i < t
          <5>1. logData[i] = buf[lh[i]]
            BY <1>0, <2>2, <4>3 DEF LogInv, CommitInv, t
          <5> QED
            BY <2>4, <2>6, <4>1, <4>3, <5>1 DEF LogInv, TypeOK
        <4> QED
          BY <4>1, <4>2, <4>3
      <3>2. tail'[p] = t + 1
        BY <2>1 DEF LogInv, TypeOK
      <3> QED
        BY <1>0, <2>1, <2>2, <2>3, <2>6, <2>9, <3>1, <3>2 DEF CommitInv, Committer, CommitPc
    <2> QED
      BY <2>6, <2>7, <2>8, <2>9, <2>10, <2>11 DEF LogInv, BootInv
  <1>2. CASE ~(tail[p] <= Len(lh))
    <2>1. /\ pc' = [pc EXCEPT ![p] = "commit_head"]
          /\ UNCHANGED <<home, logData, logHead, buf, pins, holder, outstanding, committing,
                         lh, panicked, tail, wrote, ops, crashes>>
      BY <1>2 DEF write_log, Goto
    <2>2. /\ ~Booting /\ ~Booting' /\ ControlInv'
          /\ \A q \in Procs : Committer(q)' => q = p
          /\ \A q \in Procs : Installing(q) => q = p
          /\ \A q \in Procs : Installing(q)' => q = p
          /\ \A b \in Blocks : ~Dirty(b) /\ ~Dirty(b)'
          /\ pc' \in [Procs -> BootPc \cup OpPc \cup CommitPc \cup OtherPc]
          /\ pc'[p] = "commit_head"
      BY <1>0, <2>1, CommitStep DEF CommitPc
    <2>3. /\ \A q \in Procs : ~Installing(q) /\ ~Installing(q)'
          /\ \A b \in Blocks : Pending(b)' <=> Pending(b)
      BY <1>0, <2>1, <2>2 DEF Installing, Pending
    <2>4. TypeOK'
      BY <2>1, <2>2 DEF LogInv, TypeOK
    <2>5. TornInv' /\ IsInjective(lh)' /\ IsInjective(logHead)'
      BY <2>1 DEF LogInv, TornInv, IsInjective, Range
    <2>6. CacheInv'
      BY <2>1, <2>2, <2>3 DEF LogInv, CacheInv
    <2>7. CommitInv'
      <3>1. \A i \in 1..Len(lh) : i < tail[p]
        BY <1>2 DEF LogInv, TypeOK
      <3> QED
        BY <1>0, <2>1, <2>2, <2>3, <3>1 DEF LogInv, CommitInv, Committer, CommitPc
    <2> QED
      BY <2>1, <2>2, <2>4, <2>5, <2>6, <2>7 DEF LogInv, BootInv
  <1> QED
    BY <1>1, <1>2

\* write_head() commits a log whose data blocks are all written.
LEMMA WriteHeadInv ==
  ASSUME LogInv, Running, NEW p \in Procs, write_head(p)
  PROVE  LogInv'
  <1> USE LogAssumption DEF disk, mem, log
  <1>1. /\ pc[p] = "commit_head" /\ logHead' = lh /\ tail' = [tail EXCEPT ![p] = 1]
        /\ pc' = [pc EXCEPT ![p] = "install"] /\ Committer(p)
        /\ UNCHANGED <<home, logData, buf, pins, holder, outstanding, committing,
                       lh, panicked, wrote, ops, crashes>>
    BY DEF write_head, Goto, Committer, CommitPc
  <1>2. /\ ~Booting /\ ~Booting' /\ ControlInv'
        /\ \A q \in Procs : Committer(q)' => q = p
        /\ \A q \in Procs : Installing(q) => q = p
        /\ \A q \in Procs : Installing(q)' => q = p
        /\ \A b \in Blocks : ~Dirty(b) /\ ~Dirty(b)'
        /\ pc' \in [Procs -> BootPc \cup OpPc \cup CommitPc \cup OtherPc]
        /\ pc'[p] = "install"
    BY <1>1, CommitStep DEF CommitPc
  <1>3. /\ \A q \in Procs : ~Installing(q) /\ Installing(p)' /\ tail'[p] = 1
        /\ \A b \in Blocks : Pending(b)' <=> Pending(b)
        /\ \A i \in 1..Len(lh) : Pending(lh[i])
    <2>1. \A q \in Procs : ~Installing(q)
      BY <1>1, <1>2 DEF Installing
    <2>2. Installing(p)' /\ tail'[p] = 1
      BY <1>1, <1>2 DEF Installing, LogInv, TypeOK
    <2>3. \A i \in 1..Len(lh) : \A q \in Procs : Installing(q)' => i >= tail'[q]
      BY <1>2, <2>2
    <2> QED
      BY <1>1, <2>1, <2>2, <2>3 DEF Pending
  <1>4. TypeOK'
    BY <1>1, <1>2 DEF LogInv, TypeOK
  <1>5. TornInv' /\ IsInjective(lh)' /\ IsInjective(logHead)'
    <2>1. logHead = <<>> /\ \A b \in Blocks : home[b] \in Vals
      BY <1>2, <1>3 DEF LogInv, TypeOK, CommitInv, TornInv, Range
    <2>2. \A i \in 1..Len(lh) : logData[i] \in Vals
      <3> TAKE i \in 1..Len(lh)
      <3>1. lh[i] \in Blocks /\ Pending(lh[i])
        BY <1>3 DEF LogInv, TypeOK
      <3>2. buf[lh[i]] \in Vals
        BY <1>2, <3>1 DEF LogInv, CacheInv
      <3>3. logData[i] = buf[lh[i]]
        BY <1>1, <1>2 DEF LogInv, CommitInv
      <3> QED
        BY <3>2, <3>3
    <2> QED
      BY <1>1, <2>1, <2>2 DEF LogInv, TornInv, IsInjective, Range
  <1>6. CacheInv'
    BY <1>1, <1>2, <1>3 DEF LogInv, CacheInv
  <1>7. CommitInv'
    BY <1>1, <1>2, <1>3 DEF LogInv, CommitInv, Committer, CommitPc
  <1> QED
    BY <1>2, <1>4, <1>5, <1>6, <1>7 DEF LogInv, BootInv

\* install_trans(0) takes one block home and unpins it.
LEMMA InstallInv ==
  ASSUME LogInv, Running, NEW p \in Procs, install_trans(p, "install", "erase")
  PROVE  LogInv'
  <1> USE LogAssumption DEF disk, mem, log
  <1>0. pc[p] = "install" /\ Committer(p) /\ Installing(p)
    BY DEF install_trans, Committer, CommitPc, Installing
  <1>1. CASE tail[p] <= Len(lh)
    <2> DEFINE t == tail[p]
               b == lh[t]
    <2>1. /\ home' = [home EXCEPT ![b] = logData[t]]
          /\ buf' = [buf EXCEPT ![b] = logData[t]]
          /\ pins' = [pins EXCEPT ![b] = pins[b] - 1]
          /\ tail' = [tail EXCEPT ![p] = t + 1] /\ holder[b] = Nobody
          /\ UNCHANGED <<pc, logData, logHead, holder, outstanding, committing,
                         lh, panicked, wrote, ops, crashes>>
      BY <1>1 DEF install_trans, InstallBlock
    <2>2. /\ ~Booting /\ \A q \in Procs : Committer(q) => q = p
          /\ \A q \in Procs : Installing(q) => q = p
      BY <1>0, Solo
    <2>3. /\ t \in 1..Len(lh) /\ b \in Blocks /\ t \in 1..LOGSIZE /\ logHead = lh
          /\ DOMAIN lh = 1..Len(lh)
      BY <1>0, <1>1, <2>2 DEF LogInv, TypeOK, CommitInv
    <2>4. logData[t] \in Vals /\ b \in Range(logHead)
      BY <2>3 DEF LogInv, TornInv, Range
    <2>5. /\ ~Booting' /\ Active' = Active
          /\ \A q \in Procs : (Committer(q)' <=> Committer(q)) /\ (Installing(q)' <=> Installing(q))
          /\ \A c \in Blocks : Dirty(c)' <=> Dirty(c)
          /\ ~Dirty(b) /\ tail'[p] = t + 1
      BY <2>1, <2>2 DEF Booting, Committer, Installing, Active, Dirty, LogInv, TypeOK
    <2>6. \A i \in 1..Len(lh) : lh[i] = b => i = t
      BY <2>3 DEF LogInv, IsInjective
    <2>7. \A c \in Blocks : Pending(c)' <=> Pending(c) /\ c # b
      <3>1. \A c \in Blocks : Pending(c) <=> \E i \in 1..Len(lh) : lh[i] = c /\ i >= t
        BY <1>0, <2>2 DEF Pending
      <3>2. \A c \in Blocks : Pending(c)' <=> \E i \in 1..Len(lh) : lh[i] = c /\ i >= t + 1
        BY <1>0, <2>1, <2>2, <2>5 DEF Pending
      <3>3. \A i \in 1..Len(lh) : i >= t + 1 <=> i >= t /\ i # t
        BY <2>3
      <3> QED
        BY <2>6, <3>1, <3>2, <3>3
    <2>8. Pending(b)
      BY <1>0, <2>2, <2>3 DEF Pending
    <2> HIDE DEF t, b
    <2>9. pins[b] = 1
      BY <2>2, <2>3, <2>8 DEF LogInv, CacheInv
    <2>10. /\ home' \in [Blocks -> Vals \cup {Torn}] /\ buf' \in [Blocks -> Vals \cup {Torn, NotCached}]
           /\ pins' \in [Blocks -> Nat] /\ tail' \in [Procs -> 1..(LOGSIZE + 1)]
      BY <2>1, <2>3, <2>4, <2>9 DEF LogInv, TypeOK
    <2>11. TypeOK'
      BY <2>1, <2>10 DEF LogInv, TypeOK
    <2>12. TornInv' /\ IsInjective(lh)' /\ IsInjective(logHead)'
      <3>1. \A c \in Blocks : c \notin Range(logHead) => home'[c] = home[c]
        BY <2>1, <2>4 DEF LogInv, TypeOK
      <3> QED
        BY <2>1, <3>1 DEF LogInv, TypeOK, TornInv, IsInjective, Range
    <2>13. ControlInv'
      BY <2>1, <2>2, <2>5 DEF LogInv, ControlInv
    <2>14. CacheInv'
      <3> SUFFICES ASSUME NEW c \in Blocks
                   PROVE  /\ buf'[c] \in Vals \cup {NotCached}
                          /\ pins'[c] = IF Pending(c)' THEN 1 ELSE 0
                          /\ Pending(c)' \/ Dirty(c)' => buf'[c] # NotCached
                          /\ ~Pending(c)' /\ ~Dirty(c)' /\ buf'[c] # NotCached => buf'[c] = home'[c]
        BY DEF CacheInv
      <3>1. CASE c = b
        BY <2>1, <2>3, <2>4, <2>5, <2>7, <2>9, <3>1 DEF LogInv, TypeOK
      <3>2. CASE c # b
        <4>1. buf'[c] = buf[c] /\ home'[c] = home[c] /\ pins'[c] = pins[c]
          BY <2>1, <3>2 DEF LogInv, TypeOK
        <4> QED
          BY <2>2, <2>5, <2>7, <3>2, <4>1 DEF LogInv, CacheInv
      <3> QED
        BY <3>1, <3>2
    <2>15. CommitInv'
      <3>1. ASSUME NEW i \in 1..Len(lh)
            PROVE  /\ i >= t + 1 => logData[i] = buf'[lh[i]]
                   /\ i < t + 1 => logData[i] = home'[lh[i]]
        <4>1. lh[i] \in Blocks
          BY DEF LogInv, TypeOK
        <4>2. CASE i = t
          BY <2>1, <2>3, <4>2 DEF LogInv, TypeOK, b
        <4>3. CASE i # t
          <5>1. buf'[lh[i]] = buf[lh[i]] /\ home'[lh[i]] = home[lh[i]]
            BY <2>1, <2>6, <4>1, <4>3 DEF LogInv, TypeOK
          <5>2. /\ i >= t => logData[i] = buf[lh[i]]
                /\ i < t => logData[i] = home[lh[i]]
            BY <1>0, <2>2 DEF LogInv, CommitInv, t
          <5> QED
            BY <2>3, <4>3, <5>1, <5>2
        <4> QED
          BY <4>2, <4>3
      <3> QED
        BY <1>0, <2>1, <2>2, <2>3, <2>5, <3>1 DEF CommitInv, Committer, CommitPc
    <2> QED
      BY <2>5, <2>11, <2>12, <2>13, <2>14, <2>15 DEF LogInv, BootInv
  <1>2. CASE ~(tail[p] <= Len(lh))
    <2>1. /\ pc' = [pc EXCEPT ![p] = "erase"]
          /\ UNCHANGED <<home, logData, logHead, buf, pins, holder, outstanding, committing,
                         lh, panicked, tail, wrote, ops, crashes>>
      BY <1>2 DEF install_trans, Goto
    <2>2. /\ ~Booting /\ ~Booting' /\ ControlInv'
          /\ \A q \in Procs : Committer(q)' => q = p
          /\ \A q \in Procs : Installing(q) => q = p
          /\ \A q \in Procs : Installing(q)' => q = p
          /\ \A b \in Blocks : ~Dirty(b) /\ ~Dirty(b)'
          /\ pc' \in [Procs -> BootPc \cup OpPc \cup CommitPc \cup OtherPc]
          /\ pc'[p] = "erase"
      BY <1>0, <2>1, CommitStep DEF CommitPc
    <2>3. /\ \A q \in Procs : Installing(q)' <=> Installing(q)
          /\ \A b \in Blocks : Pending(b)' <=> Pending(b)
      <3>1. \A q \in Procs : Installing(q)' <=> Installing(q)
        BY <1>0, <2>2 DEF Installing
      <3> QED
        BY <2>1, <3>1 DEF Pending
    <2>4. TypeOK'
      BY <2>1, <2>2 DEF LogInv, TypeOK
    <2>5. TornInv' /\ IsInjective(lh)' /\ IsInjective(logHead)'
      BY <2>1 DEF LogInv, TornInv, IsInjective, Range
    <2>6. CacheInv'
      BY <2>1, <2>2, <2>3 DEF LogInv, CacheInv
    <2>7. CommitInv'
      <3>1. \A i \in 1..Len(lh) : i < tail[p]
        BY <1>2 DEF LogInv, TypeOK
      <3> QED
        BY <1>0, <2>1, <2>2, <2>3, <3>1 DEF LogInv, CommitInv, Committer, CommitPc
    <2> QED
      BY <2>2, <2>4, <2>5, <2>6, <2>7 DEF LogInv, BootInv
  <1> QED
    BY <1>1, <1>2

\* The log is erased when every block is home.
LEMMA EraseInv ==
  ASSUME LogInv, Running, NEW p \in Procs, erase(p)
  PROVE  LogInv'
  <1> USE LogAssumption DEF disk, mem, log
  <1>1. /\ pc[p] = "erase" /\ logHead' = <<>> /\ lh' = <<>>
        /\ pc' = [pc EXCEPT ![p] = "finish"] /\ Committer(p) /\ Installing(p)
        /\ UNCHANGED <<home, logData, buf, pins, holder, outstanding, committing,
                       panicked, tail, wrote, ops, crashes>>
    BY DEF erase, Goto, Committer, CommitPc, Installing
  <1>2. /\ ~Booting /\ ~Booting' /\ ControlInv'
        /\ \A q \in Procs : Committer(q)' => q = p
        /\ \A q \in Procs : Installing(q) => q = p
        /\ \A q \in Procs : Installing(q)' => q = p
        /\ \A b \in Blocks : ~Dirty(b) /\ ~Dirty(b)'
        /\ pc' \in [Procs -> BootPc \cup OpPc \cup CommitPc \cup OtherPc]
        /\ pc'[p] = "finish"
    BY <1>1, CommitStep DEF CommitPc
  <1>3. /\ \A q \in Procs : ~Installing(q)'
        /\ \A b \in Blocks : ~Pending(b) /\ ~Pending(b)'
    <2>1. \A q \in Procs : ~Installing(q)'
      BY <1>2 DEF Installing
    <2>2. \A i \in 1..Len(lh) : ~(i >= tail[p])
      BY <1>1, <1>2 DEF LogInv, TypeOK, CommitInv
    <2> QED
      BY <1>1, <2>1, <2>2 DEF Pending
  <1>4. TypeOK'
    BY <1>1, <1>2 DEF LogInv, TypeOK
  <1>5. TornInv' /\ IsInjective(lh)' /\ IsInjective(logHead)'
    <2>1. \A b \in Blocks : home[b] \in Vals
      BY <1>2, <1>3, HomeVals
    <2> QED
      BY <1>1, <2>1 DEF TornInv, IsInjective
  <1>6. CacheInv'
    BY <1>1, <1>2, <1>3 DEF LogInv, CacheInv
  <1>7. CommitInv'
    BY <1>1, <1>2, <1>3 DEF CommitInv
  <1> QED
    BY <1>2, <1>4, <1>5, <1>6, <1>7 DEF LogInv, BootInv

\* The committing end_op() reopens the log.
LEMMA FinishInv ==
  ASSUME LogInv, Running, NEW p \in Procs, finish(p)
  PROVE  LogInv'
  <1> USE LogAssumption DEF disk, mem, log
  <1>1. /\ pc[p] = "finish" /\ committing' = 0 /\ Committer(p)
        /\ pc' = Woken([pc EXCEPT ![p] = "idle"])
        /\ UNCHANGED <<home, logData, logHead, buf, pins, holder, outstanding, lh,
                       panicked, tail, wrote, ops, crashes>>
    BY DEF finish, Committer, CommitPc
  <1>2. /\ ~Booting /\ Active = {} /\ \A q \in Procs : Committer(q) => q = p
        /\ \A q \in Procs : Installing(q) => q = p
    BY <1>1, Solo
  <1>3. ASSUME NEW q \in Procs
        PROVE  \/ pc'[q] = pc[q] /\ q # p
               \/ q = p /\ pc'[q] = "idle"
               \/ q # p /\ pc[q] = "asleep" /\ pc'[q] = "begin"
    BY <1>1 DEF LogInv, TypeOK, Woken
  <1>4. /\ ~Booting'
        /\ \A q \in Procs : pc'[q] \notin BootPc \cup {"down"}
        /\ \A q \in Procs : pc[q] \in BufPc => pc'[q] = pc[q]
        /\ \A q \in Procs : pc'[q] = "dirty" => pc[q] = "dirty"
    <2>1. \A q \in Procs : pc'[q] \notin BootPc \cup {"down"}
      BY <1>2, <1>3 DEF LogInv, BootPc, ControlInv
    <2> QED
      BY <1>1, <1>3, <2>1 DEF Booting, BufPc
  <1>5. /\ \A q \in Procs : ~Committer(q)' /\ ~Installing(q)' /\ ~Installing(q)
        /\ Active' = Active
    <2>1. \A q \in Procs : ~Committer(q)'
      BY <1>2, <1>3 DEF Committer, CommitPc
    <2>2. \A q \in Procs : ~Installing(q)' /\ ~Installing(q)
      BY <1>1, <1>2, <2>1 DEF Installing, Committer, CommitPc
    <2>3. Active' = Active
      BY <1>1, <1>3 DEF Active, OpPc
    <2> QED
      BY <2>1, <2>2, <2>3
  <1>6. /\ \A c \in Blocks : Pending(c)' <=> Pending(c)
        /\ CommitInv' /\ TornInv' /\ IsInjective(lh)' /\ IsInjective(logHead)'
    BY <1>1, <1>2, <1>4, <1>5, CommitFrame
  <1>7. TypeOK'
    BY <1>1 DEF LogInv, TypeOK, OtherPc, Woken
  <1>8. \A c \in Blocks : Dirty(c)' <=> Dirty(c)
    BY <1>1, <1>4 DEF Dirty, BufPc
  <1>9. CacheInv'
    BY <1>1, <1>2, <1>4, <1>6, <1>8 DEF LogInv, CacheInv
  <1>10. ControlInv'
    <2>1. /\ \A c \in Blocks : holder'[c] \in Procs => pc'[holder'[c]] \in BufPc
          /\ \A c, d \in Blocks : holder'[c] \in Procs /\ holder'[c] = holder'[d] => c = d
      BY <1>1, <1>2, <1>4 DEF LogInv, ControlInv
    <2>2. outstanding' = Cardinality(Active')
      BY <1>1, <1>2, <1>5 DEF LogInv, ControlInv
    <2>3. committing' # 1
      BY <1>1
    <2> QED
      BY <1>4, <1>5, <2>1, <2>2, <2>3 DEF ControlInv
  <1> QED
    BY <1>4, <1>6, <1>7, <1>9, <1>10 DEF LogInv, BootInv

\* A crash tears at most one block, and never the copy that counts.
LEMMA TornWriteDurable ==
  ASSUME LogInv, TornWrite
  PROVE  /\ logHead' = logHead
         /\ home' \in [Blocks -> Vals \cup {Torn}]
         /\ logData' \in [1..LOGSIZE -> Vals \cup {Torn}]
         /\ \A b \in Blocks : b \notin Range(logHead) => home'[b] = home[b]
         /\ \A i \in 1..Len(logHead) : logData'[i] = logData[i]
  <1> USE DEF disk
  <1>1. CASE UNCHANGED disk
    BY <1>1 DEF LogInv, TypeOK
  <1>2. ASSUME NEW p \in Procs, tail[p] <= Len(lh), pc[p] = "write_log",
               logData' = [logData EXCEPT ![tail[p]] = Torn], UNCHANGED <<home, logHead>>
        PROVE  /\ logHead = <<>> /\ logData' \in [1..LOGSIZE -> Vals \cup {Torn}]
    <2>1. \A q \in Procs : ~Installing(q)
      BY <1>2, Solo DEF Committer, CommitPc, Installing
    <2>2. ~Booting
      BY <1>2, Phase DEF BootPc
    <2> QED
      BY <1>2, <2>1, <2>2 DEF LogInv, TypeOK, CommitInv
  <1>3. ASSUME NEW p \in Procs, tail[p] <= Len(lh), pc[p] \in {"install", "recover_install"},
               home' = [home EXCEPT ![lh[tail[p]]] = Torn], UNCHANGED <<logData, logHead>>
        PROVE  /\ home' \in [Blocks -> Vals \cup {Torn}]
               /\ \A b \in Blocks : b \notin Range(logHead) => home'[b] = home[b]
    <2>1. lh = logHead
      <3>1. CASE pc[p] = "install"
        <4>1. ~Booting /\ Installing(p)
          BY <3>1, Phase DEF BootPc, Installing
        <4> QED
          BY <4>1 DEF LogInv, CommitInv
      <3>2. CASE pc[p] = "recover_install"
        <4>1. Booting /\ p = InitProc
          BY <3>2, Phase DEF BootPc
        <4> QED
          BY <3>2, <4>1 DEF LogInv, BootInv
      <3> QED
        BY <1>3, <3>1, <3>2
    <2>2. tail[p] \in 1..Len(lh) /\ lh[tail[p]] \in Blocks /\ DOMAIN lh = 1..Len(lh)
      BY <1>3 DEF LogInv, TypeOK
    <2>3. lh[tail[p]] \in Range(logHead)
      BY <2>1, <2>2 DEF Range
    <2> QED
      BY <1>3, <2>2, <2>3 DEF LogInv, TypeOK
  <1> QED
    <2>1. CASE \E p \in Procs : /\ tail[p] <= Len(lh) /\ pc[p] = "write_log"
                                /\ logData' = [logData EXCEPT ![tail[p]] = Torn]
                                /\ UNCHANGED <<home, logHead>>
      <3>1. logHead = <<>> /\ logData' \in [1..LOGSIZE -> Vals \cup {Torn}]
        BY <1>2, <2>1
      <3> QED
        BY <2>1, <3>1 DEF LogInv, TypeOK
    <2>2. CASE \E p \in Procs : /\ tail[p] <= Len(lh) /\ pc[p] \in {"install", "recover_install"}
                                /\ home' = [home EXCEPT ![lh[tail[p]]] = Torn]
                                /\ UNCHANGED <<logData, logHead>>
      <3>1. /\ home' \in [Blocks -> Vals \cup {Torn}]
            /\ \A b \in Blocks : b \notin Range(logHead) => home'[b] = home[b]
        BY <1>3, <2>2
      <3> QED
        BY <2>2, <3>1 DEF LogInv, TypeOK
    <2> QED
      BY <1>1, <2>1, <2>2 DEF TornWrite

\* A crash, also in the middle of a block write, leaves a disk recovery can start from.
LEMMA CrashInv ==
  ASSUME LogInv, Crash
  PROVE  LogInv'
  <1> USE LogAssumption
  <1>1. /\ buf' = [b \in Blocks |-> NotCached]
        /\ pins' = [b \in Blocks |-> 0]
        /\ holder' = [b \in Blocks |-> Nobody]
        /\ outstanding' = 0 /\ committing' = 0 /\ lh' = <<>> /\ panicked' = "no"
        /\ pc' = [p \in Procs |-> IF p = InitProc THEN "read_head" ELSE "down"]
        /\ tail' = [p \in Procs |-> 1]
        /\ wrote' = [p \in Procs |-> {}]
        /\ crashes' \in 0..MaxCrashes /\ ops' = ops
    BY DEF Crash, Reset, LogInv, TypeOK
  <1>2. /\ logHead' = logHead
        /\ home' \in [Blocks -> Vals \cup {Torn}]
        /\ logData' \in [1..LOGSIZE -> Vals \cup {Torn}]
        /\ \A b \in Blocks : b \notin Range(logHead) => home'[b] = home[b]
        /\ \A i \in 1..Len(logHead) : logData'[i] = logData[i]
    BY TornWriteDurable DEF Crash
  <1>3. Booting'
    BY <1>1 DEF Booting, BootPc
  <1>4. TypeOK'
    <2>1. /\ buf' \in [Blocks -> Vals \cup {Torn, NotCached}]
          /\ pins' \in [Blocks -> Nat]
          /\ holder' \in [Blocks -> Procs \cup {Nobody}]
          /\ tail' \in [Procs -> 1..(LOGSIZE + 1)]
          /\ wrote' \in [Procs -> SUBSET Blocks]
      BY <1>1
    <2>2. pc' \in [Procs -> BootPc \cup OpPc \cup CommitPc \cup OtherPc]
      BY <1>1 DEF BootPc, OtherPc
    <2>3. /\ lh' \in Seq(Blocks) /\ Len(lh') <= LOGSIZE
      BY <1>1
    <2> QED
      BY <1>1, <1>2, <2>1, <2>2, <2>3 DEF LogInv, TypeOK
  <1>5. BootInv'
    BY <1>1 DEF BootInv, Running, BootPc
  <1>6. TornInv' /\ IsInjective(lh)' /\ IsInjective(logHead)'
    <2>1. IsInjective(lh') /\ IsInjective(logHead')
      BY <1>1, <1>2 DEF LogInv, IsInjective
    <2>2. /\ \A b \in Blocks : b \notin Range(logHead') => home'[b] \in Vals
          /\ \A i \in 1..Len(logHead') : logData'[i] \in Vals
      BY <1>2 DEF LogInv, TornInv
    <2> QED
      BY <2>1, <2>2 DEF TornInv
  <1> QED
    BY <1>3, <1>4, <1>5, <1>6 DEF LogInv, ControlInv, CacheInv, CommitInv

\* Every step of the log, of its users and of a crash preserves LogInv.
LEMMA NextLogInv == LogInv /\ [Next]_vars => LogInv'
  <1> SUFFICES ASSUME LogInv, [Next]_vars PROVE LogInv'
    OBVIOUS
  <1>1. CASE UNCHANGED vars
    BY <1>1 DEF vars, disk, mem, log, loc, LogInv, TypeOK, BootInv, ControlInv, CacheInv, CommitInv,
                TornInv, Booting, Running, Active, Committer, Installing, Pending, Dirty
  <1>2. ASSUME NEW p \in Procs, Step(p) PROVE LogInv'
    <2>1. Running
      BY <1>2 DEF Step
    <2>2. CASE recover_from_log(p)
      BY <2>1, <2>2, ReadHeadInv, RecoverInstallInv, RecoverEraseInv DEF recover_from_log
    <2>3. CASE begin_op(p)
      BY <2>1, <2>3, BeginOpInv
    <2>4. CASE end_op(p)
      BY <2>1, <2>4, EndOpInv
    <2>5. CASE commit(p)
      BY <2>1, <2>5, CommitOrSkipInv, WriteLogInv, WriteHeadInv, InstallInv, EraseInv, FinishInv
         DEF commit
    <2>6. CASE \E b \in Blocks : log_write(p, b) \/ brelse(p, b)
      BY <2>1, <2>6, LogWriteInv, BrelseInv
    <2> QED
      BY <1>2, <2>2, <2>3, <2>4, <2>5, <2>6 DEF Step
  <1>3. ASSUME NEW p \in Procs, Running, FsCall(p) PROVE LogInv'
    BY <1>3, FsCallInv
  <1>4. ASSUME NEW p \in Procs, NEW b \in Blocks, Running, bread(p, b) PROVE LogInv'
    BY <1>4, BreadInv
  <1>5. ASSUME NEW p \in Procs, NEW b \in Blocks, NEW v \in Vals, Running, Modify(p, b, v)
        PROVE  LogInv'
    BY <1>5, ModifyInv
  <1>6. ASSUME NEW b \in Blocks, Running, Evict(b) PROVE LogInv'
    BY <1>6, EvictInv
  <1> QED
    BY <1>1, <1>2, <1>3, <1>4, <1>5, <1>6, CrashInv DEF Next

\* LogInv holds in every state: in particular no torn or stale copy of a block
\* is ever the one that recovery or bread() uses.
THEOREM LogSafety == Spec => []LogInv
  <1>1. Init => LogInv
    BY InitLogInv
  <1>2. LogInv /\ [Next]_vars => LogInv'
    BY NextLogInv
  <1> QED
    BY <1>1, <1>2, PTL DEF Spec

-----------------------------------------------------------------------------
(* The log implements the atomic disk.                                     *)

Cached(b) == IF buf[b] = NotCached THEN home[b] ELSE buf[b]

\* The content recovery gives a logged block is that of its one log block.
LEMMA DurableLogged ==
  ASSUME LogInv, NEW b \in Blocks
  PROVE  /\ \A i \in 1..Len(logHead) : logHead[i] = b => Durable[b] = logData[i]
         /\ b \notin Range(logHead) => Durable[b] = home[b]
  <1>1. DOMAIN logHead = 1..Len(logHead)
    BY DEF LogInv, TypeOK
  <1>2. ASSUME NEW i \in 1..Len(logHead), logHead[i] = b
        PROVE  Durable[b] = logData[i]
    <2> DEFINE j == CHOOSE k \in 1..Len(logHead) : logHead[k] = b
    <2>1. j \in 1..Len(logHead) /\ logHead[j] = b
      BY <1>2
    <2>2. j = i
      BY <1>1, <1>2, <2>1 DEF LogInv, IsInjective
    <2>3. b \in Range(logHead)
      BY <1>1, <1>2 DEF Range
    <2> QED
      BY <2>2, <2>3 DEF Durable
  <1> QED
    BY <1>2 DEF Durable

\* Steps that leave the committed copies alone do not change what is durable.
LEMMA DurableFrame ==
  ASSUME LogInv, logHead' = logHead,
         \A b \in Blocks : b \notin Range(logHead) => home'[b] = home[b],
         \A i \in 1..Len(logHead) : logData'[i] = logData[i]
  PROVE  Durable' = Durable
  <1>1. DOMAIN logHead = 1..Len(logHead)
    BY DEF LogInv, TypeOK
  <1>2. ASSUME NEW b \in Blocks, b \in Range(logHead)
        PROVE  (CHOOSE i \in 1..Len(logHead) : logHead[i] = b) \in 1..Len(logHead)
    BY <1>1, <1>2 DEF Range
  <1>3. ASSUME NEW b \in Blocks PROVE Durable'[b] = Durable[b]
    <2>1. CASE b \in Range(logHead)
      <3> DEFINE j == CHOOSE i \in 1..Len(logHead) : logHead[i] = b
      <3>1. Durable[b] = logData[j] /\ Durable'[b] = logData'[j]
        BY <2>1 DEF Durable
      <3> QED
        BY <1>2, <2>1, <3>1
    <2>2. CASE b \notin Range(logHead)
      BY <2>2 DEF Durable
    <2> QED
      BY <2>1, <2>2
  <1>4. /\ Durable = [b \in Blocks |-> Durable[b]]
        /\ Durable' = [b \in Blocks |-> Durable'[b]]
    BY DEF Durable
  <1> QED
    BY <1>3, <1>4

\* Outside recovery Current is what bread() returns; during it, what is durable.
LEMMA CurrentIs ==
  /\ Booting => Current = Durable
  /\ ~Booting => Current = [b \in Blocks |-> Cached(b)]
  <1>1. Booting => Current = Durable
    BY DEF Current, Durable
  <1> QED
    BY <1>1 DEF Current, Cached

\* Steps that leave the disk and the cached copies alone leave Current alone.
LEMMA CurrentFrame ==
  ASSUME ~Booting, ~Booting', \A b \in Blocks : Cached(b)' = Cached(b)
  PROVE  Current' = Current
  BY DEF Current, Cached

\* Initial states map to initial states of AtomicDisk.
LEMMA InitRefines == Init => AD!AInit
  <1> SUFFICES ASSUME Init PROVE AD!AInit
    OBVIOUS
  <1>1. Booting /\ Active = {}
    BY LogAssumption DEF Init, Booting, BootPc, Active, OpPc
  <1>2. Durable = home
    BY DEF Init, Durable, Range
  <1> QED
    BY <1>1, <1>2, CurrentIs DEF AD!AInit, Init

\* Each step of the log maps to a step of AtomicDisk or to a stutter.
LEMMA RecoverRefines ==
  ASSUME LogInv, LogInv', NEW p \in Procs, recover_from_log(p)
  PROVE  UNCHANGED AD!avars
  <1> USE DEF disk, mem, log
  <1>0. Booting /\ p = InitProc /\ pc[p] \in BootPc
    BY Phase DEF recover_from_log, read_head, install_trans, recover_erase, BootPc
  <1>1. Active = {}
    BY <1>0 DEF LogInv, BootInv, Active, OpPc, BootPc
  <1>2. CASE read_head(p) \/ install_trans(p, "recover_install", "recover_erase")
    <2>1. Booting' /\ logHead' = logHead /\ logData' = logData
      BY <1>0, <1>2 DEF LogInv, TypeOK, Booting, BootPc, read_head, install_trans, Goto
    <2>2. Active' = {}
      BY <2>1 DEF LogInv, BootInv, Active, OpPc, BootPc, Booting
    <2>3. \A b \in Blocks : b \notin Range(logHead) => home'[b] = home[b]
      <3>1. CASE read_head(p)
        BY <3>1 DEF read_head
      <3>2. CASE install_trans(p, "recover_install", "recover_erase") /\ ~(tail[p] <= Len(lh))
        BY <3>2 DEF install_trans
      <3>3. CASE install_trans(p, "recover_install", "recover_erase") /\ tail[p] <= Len(lh)
        <4>1. lh = logHead
          BY <1>0, <3>3 DEF LogInv, BootInv, install_trans
        <4>2. tail[p] \in 1..Len(lh) /\ DOMAIN lh = 1..Len(lh)
          BY <3>3 DEF LogInv, TypeOK
        <4>3. lh[tail[p]] \in Range(logHead)
          BY <4>1, <4>2 DEF Range
        <4>4. home' = [home EXCEPT ![lh[tail[p]]] = logData[tail[p]]]
          BY <3>3 DEF install_trans, InstallBlock
        <4> QED
          BY <4>3, <4>4 DEF LogInv, TypeOK
      <3> QED
        BY <1>2, <3>1, <3>2, <3>3
    <2>4. Durable' = Durable
      BY <2>1, <2>3, DurableFrame
    <2>5. Current = Durable /\ Current' = Durable'
      BY <1>0, <2>1, CurrentIs DEF Current, Durable
    <2> QED
      BY <1>1, <2>2, <2>4, <2>5 DEF AD!avars
  <1>3. CASE recover_erase(p)
    <2>1. /\ ~Booting' /\ Active' = {} /\ logHead' = <<>>
          /\ UNCHANGED <<home, buf>>
      BY <1>3, LogAssumption DEF recover_erase, Booting, BootPc, Active, OpPc
    <2>2. \A b \in Blocks : Durable[b] = home[b]
      <3> TAKE b \in Blocks
      <3>1. CASE b \in Range(logHead)
        <4>1. PICK i \in 1..Len(logHead) : logHead[i] = b
          BY <3>1 DEF Range, LogInv, TypeOK
        <4>2. lh = logHead /\ tail[InitProc] > Len(lh)
          BY <1>0, <1>3 DEF LogInv, BootInv, recover_erase
        <4>3. \A k \in 1..Len(lh) : k < tail[InitProc]
          BY <4>2, LogAssumption DEF LogInv, TypeOK
        <4>4. home[logHead[i]] = logData[i]
          BY <1>0, <4>1, <4>2, <4>3 DEF LogInv, BootInv
        <4> QED
          BY <4>1, <4>4, DurableLogged
      <3>2. CASE b \notin Range(logHead)
        BY <3>2, DurableLogged
      <3> QED
        BY <3>1, <3>2
    <2>3. \A b \in Blocks : Durable'[b] = home[b]
      BY <2>1 DEF Durable, Range
    <2>4. \A b \in Blocks : Cached(b)' = home[b]
      BY <1>0, <2>1 DEF LogInv, TypeOK, BootInv, Cached
    <2>5. Durable' = Durable /\ Current' = Current
      BY <1>0, <2>1, <2>2, <2>3, <2>4 DEF Current, Durable, Cached
    <2> QED
      BY <1>1, <2>1, <2>5 DEF AD!avars
  <1> QED
    BY <1>2, <1>3 DEF recover_from_log

\* Steps that touch neither the disk nor the data in the cache.
LEMMA ControlRefines ==
  ASSUME LogInv, NEW p \in Procs, Running,
         \/ FsCall(p) \/ begin_op(p) \/ end_op(p) \/ CommitOrSkip(p) \/ finish(p)
         \/ \E b \in Blocks : log_write(p, b) \/ brelse(p, b)
  PROVE  [AD!ANext]_(AD!avars)
  <1> USE DEF disk, mem, log
  <1>1. UNCHANGED <<home, logData, logHead, buf>>
    BY DEF FsCall, begin_op, end_op, CommitOrSkip, finish, log_write, brelse
  <1>2. pc \in [Procs -> BootPc \cup OpPc \cup CommitPc \cup OtherPc]
    BY DEF LogInv, TypeOK
  <1>3. pc[p] \notin BootPc \cup {"down"}
    BY DEF FsCall, begin_op, end_op, CommitOrSkip, finish, log_write, brelse, BootPc
  <1>4. ~Booting
    BY <1>3, Phase
  <1>5. Durable' = Durable
    BY <1>1, DurableFrame
  <1>6. (~Booting' => Current' = Current)
    BY <1>1, <1>4, CurrentFrame DEF Cached
  <1>7. CASE begin_op(p)
    <2>1. ~Booting'
      BY <1>2, <1>4, <1>7, LogAssumption DEF begin_op, Goto, Booting, BootPc
    <2>2. pc[p] = "begin" /\ (Active' = Active \/ Active' = Active \cup {p})
      BY <1>2, <1>7 DEF begin_op, Goto, Active, OpPc
    <2>3. p \notin Active
      BY <2>2 DEF Active, OpPc
    <2> QED
      BY <1>5, <1>6, <2>1, <2>2, <2>3 DEF AD!ANext, AD!Begin, AD!avars
  <1>8. CASE end_op(p)
    <2>1. pc[p] = "op" /\ committing = 0 /\ p \in Active
      BY <1>8, NoCommit DEF end_op, OpPc
    <2>2. pc' \in {[pc EXCEPT ![p] = "commit"], Woken([pc EXCEPT ![p] = "idle"])}
      BY <1>8, <2>1 DEF end_op, Goto
    <2>3. ~Booting'
      BY <1>2, <1>4, <2>2, LogAssumption DEF Woken, Booting, BootPc
    <2>4. Active' = Active \ {p}
      BY <1>2, <2>1, <2>2 DEF Active, OpPc, Woken
    <2> QED
      BY <1>5, <1>6, <2>1, <2>3, <2>4 DEF AD!ANext, AD!End
  <1>9. CASE finish(p)
    <2>1. pc[p] = "finish" /\ pc' = Woken([pc EXCEPT ![p] = "idle"])
      BY <1>9 DEF finish
    <2>2. ~Booting'
      BY <1>2, <1>4, <2>1, LogAssumption DEF Woken, Booting, BootPc
    <2>3. Active' = Active
      BY <1>2, <2>1 DEF Active, OpPc, Woken
    <2> QED
      BY <1>5, <1>6, <2>2, <2>3 DEF AD!avars
  <1>10. CASE \/ FsCall(p) \/ CommitOrSkip(p)
              \/ \E b \in Blocks : log_write(p, b) \/ brelse(p, b)
    <2>1. \/ pc' = pc
          \/ \E l \in {"begin", "write_log", "finish", "logged", "op", "idle"} :
                 pc' = [pc EXCEPT ![p] = l] /\ (l \in OpPc <=> pc[p] \in OpPc)
      BY <1>10 DEF FsCall, CommitOrSkip, log_write, brelse, Goto, OpPc
    <2>2. ~Booting'
      BY <1>2, <1>4, <2>1, LogAssumption DEF Booting, BootPc
    <2>3. Active' = Active
      BY <1>2, <2>1 DEF Active
    <2> QED
      BY <1>5, <1>6, <2>2, <2>3 DEF AD!avars
  <1> QED
    BY <1>7, <1>8, <1>9, <1>10

\* Reading, changing and evicting cached blocks.
LEMMA CacheRefines ==
  ASSUME LogInv, NEW b \in Blocks, Running,
         \/ \E p \in Procs : bread(p, b)
         \/ \E p \in Procs, v \in Vals : Modify(p, b, v)
         \/ Evict(b)
  PROVE  [AD!ANext]_(AD!avars)
  <1> USE DEF disk, mem, log, loc
  <1>0. /\ pc \in [Procs -> BootPc \cup OpPc \cup CommitPc \cup OtherPc]
        /\ buf \in [Blocks -> Vals \cup {Torn, NotCached}]
    BY DEF LogInv, TypeOK
  <1>1. UNCHANGED <<home, logData, logHead>>
    BY DEF bread, Modify, Evict
  <1>2. Durable' = Durable
    BY <1>1, DurableFrame
  <1>3. ASSUME NEW p \in Procs, bread(p, b) PROVE UNCHANGED AD!avars
    <2>1. ~Booting
      BY <1>3, Phase DEF bread, BootPc
    <2>2. ~Booting' /\ Active' = Active
      BY <1>0, <1>3, <2>1, LogAssumption DEF bread, Goto, Booting, BootPc, Active, OpPc
    <2>3. \A c \in Blocks : Cached(c)' = Cached(c)
      BY <1>0, <1>1, <1>3 DEF bread, Cached
    <2> QED
      BY <1>2, <2>1, <2>2, <2>3, CurrentFrame DEF AD!avars
  <1>4. ASSUME NEW p \in Procs, NEW v \in Vals, Modify(p, b, v) PROVE AD!Update(p, b, v)
    <2>1. ~Booting /\ p \in Active
      BY <1>4, NoCommit DEF Modify, OpPc
    <2>2. ~Booting' /\ Active' = Active
      BY <1>0, <1>4, <2>1, LogAssumption DEF Modify, Goto, Booting, BootPc, Active, OpPc
    <2>3. Current' = [Current EXCEPT ![b] = v]
      <3>1. v # NotCached /\ buf' = [buf EXCEPT ![b] = v]
        BY <1>4, LogAssumption DEF Modify
      <3>2. \A c \in Blocks : Cached(c)' = IF c = b THEN v ELSE Cached(c)
        BY <1>0, <1>1, <3>1 DEF Cached
      <3>3. /\ Current = [c \in Blocks |-> Cached(c)]
            /\ Current' = [c \in Blocks |-> Cached(c)']
        BY <2>1, <2>2 DEF Current, Cached
      <3> QED
        BY <3>2, <3>3
    <2> QED
      BY <1>2, <2>1, <2>2, <2>3 DEF AD!Update
  <1>5. CASE Evict(b)
    <2>1. /\ pins[b] = 0 /\ holder[b] = Nobody /\ buf' = [buf EXCEPT ![b] = NotCached]
          /\ UNCHANGED <<home, pc>>
      BY <1>5 DEF Evict
    <2>2. (Booting' <=> Booting) /\ Active' = Active
      BY <2>1 DEF Booting, Active
    <2>3. CASE Booting
      BY <1>2, <2>2, <2>3, CurrentIs DEF Current, Durable, AD!avars
    <2>4. CASE ~Booting
      <3>1. ~Pending(b) /\ ~Dirty(b)
        BY <2>1, <2>4, LogAssumption DEF LogInv, CacheInv, Dirty
      <3>2. \A c \in Blocks : Cached(c)' = Cached(c)
        BY <1>0, <2>1, <2>4, <3>1 DEF LogInv, CacheInv, Cached
      <3> QED
        BY <1>2, <2>2, <2>4, <3>2, CurrentFrame DEF AD!avars
    <2> QED
      BY <2>3, <2>4
  <1> QED
    BY <1>3, <1>4, <1>5 DEF AD!ANext

\* The steps of commit() that write to the disk.
LEMMA CommitRefines ==
  ASSUME LogInv, NEW p \in Procs, Running,
         \/ write_log(p) \/ write_head(p) \/ install_trans(p, "install", "erase") \/ erase(p)
  PROVE  [AD!ANext]_(AD!avars)
  <1> USE DEF disk, mem, log
  <1>0. /\ pc \in [Procs -> BootPc \cup OpPc \cup CommitPc \cup OtherPc]
        /\ buf \in [Blocks -> Vals \cup {Torn, NotCached}]
        /\ DOMAIN lh = 1..Len(lh) /\ DOMAIN logHead = 1..Len(logHead)
    BY DEF LogInv, TypeOK
  <1>1. pc[p] \in CommitPc /\ Committer(p)
    BY DEF write_log, write_head, install_trans, erase, CommitPc, Committer
  <1>2. /\ ~Booting /\ Active = {}
        /\ \A q \in Procs : Installing(q) => q = p
        /\ \A b \in Blocks : ~Dirty(b)
    BY <1>1, Solo DEF Active, Dirty, OpPc
  <1>3. ~Booting' /\ Active' = {}
    <2>1. \/ pc' = pc
          \/ \E l \in {"commit_head", "install", "erase", "finish"} : pc' = [pc EXCEPT ![p] = l]
      BY DEF write_log, write_head, install_trans, erase, Goto
    <2> QED
      BY <1>0, <1>1, <1>2, <2>1, LogAssumption DEF Active, OpPc, Booting, BootPc
  <1>4. CASE write_log(p)
    <2>1. UNCHANGED <<home, logHead, buf>>
      BY <1>4, WriteLogInv DEF write_log
    <2>2. logHead = <<>>
      BY <1>2, <1>4 DEF LogInv, CommitInv, Installing, write_log
    <2>3. Durable' = Durable
      BY <2>1, <2>2, DurableFrame
    <2>4. Current' = Current
      BY <1>2, <1>3, <2>1, CurrentFrame DEF Cached
    <2> QED
      BY <1>2, <1>3, <2>3, <2>4 DEF AD!avars
  <1>5. CASE write_head(p)
    <2>1. pc[p] = "commit_head" /\ logHead' = lh /\ UNCHANGED <<home, logData, buf>>
      BY <1>5 DEF write_head
    <2>2. Current' = Current
      BY <1>2, <1>3, <2>1, CurrentFrame DEF Cached
    <2>3. LogInv'
      BY <1>5, WriteHeadInv
    <2>4. \A b \in Blocks : Durable'[b] = Cached(b)
      <3> TAKE b \in Blocks
      <3>1. CASE b \in Range(lh)
        <4>1. PICK i \in 1..Len(lh) : lh[i] = b
          BY <1>0, <3>1 DEF Range
        <4>2. Pending(b)
          BY <1>2, <2>1, <4>1 DEF Pending, Installing
        <4>3. Cached(b) = buf[b]
          BY <1>2, <4>2 DEF LogInv, CacheInv, Cached
        <4>4. logData[i] = buf[b]
          BY <1>2, <2>1, <4>1 DEF LogInv, CommitInv
        <4>5. Durable'[b] = logData[i]
          <5>1. \A k \in 1..Len(logHead') : logHead'[k] = b => Durable'[b] = logData'[k]
            <6> DEFINE j == CHOOSE k \in 1..Len(lh) : lh[k] = b
            <6>1. j \in 1..Len(lh) /\ lh[j] = b
              BY <4>1
            <6>2. \A k \in 1..Len(lh) : lh[k] = b => k = j
              BY <1>0, <6>1 DEF LogInv, IsInjective
            <6>3. Durable'[b] = logData[j]
              BY <2>1, <3>1 DEF Durable
            <6> QED
              BY <2>1, <6>2, <6>3
          <5> QED
            BY <2>1, <4>1, <5>1
        <4> QED
          BY <4>3, <4>4, <4>5
      <3>2. CASE b \notin Range(lh)
        <4>1. ~Pending(b)
          BY <1>0, <3>2 DEF Pending, Range
        <4>2. Cached(b) = home[b]
          BY <1>2, <4>1 DEF LogInv, CacheInv, Cached
        <4> QED
          BY <2>1, <3>2, <4>2 DEF Durable
      <3> QED
        BY <3>1, <3>2
    <2>5. Durable' = Current
      <3>1. Durable' = [b \in Blocks |-> Durable'[b]] /\ Current = [b \in Blocks |-> Cached(b)]
        BY <1>2 DEF Durable, Current, Cached
      <3> QED
        BY <2>4, <3>1
    <2> QED
      BY <1>2, <1>3, <2>2, <2>5 DEF AD!ANext, AD!Commit
  <1>6. CASE install_trans(p, "install", "erase")
    <2>0. pc[p] = "install" /\ Installing(p) /\ lh = logHead /\ UNCHANGED <<logData, logHead>>
      BY <1>2, <1>6 DEF install_trans, Installing, LogInv, CommitInv
    <2>1. CASE ~(tail[p] <= Len(lh))
      <3>1. UNCHANGED <<home, buf>>
        BY <1>6, <2>1 DEF install_trans
      <3> QED
        BY <1>2, <1>3, <2>0, <3>1, DurableFrame, CurrentFrame DEF Cached, AD!avars
    <2>2. CASE tail[p] <= Len(lh)
      <3> DEFINE b == lh[tail[p]]
      <3>1. /\ home' = [home EXCEPT ![b] = logData[tail[p]]]
            /\ buf' = [buf EXCEPT ![b] = logData[tail[p]]]
        BY <1>6, <2>2 DEF install_trans, InstallBlock
      <3>2. tail[p] \in 1..Len(lh) /\ b \in Blocks
        BY <2>2 DEF LogInv, TypeOK
      <3>3. b \in Range(logHead)
        BY <1>0, <2>0, <3>2 DEF Range
      <3>4. Pending(b) /\ logData[tail[p]] = buf[b]
        BY <1>2, <2>0, <3>2 DEF Pending, LogInv, CommitInv
      <3>5. buf[b] # NotCached
        BY <1>2, <3>2, <3>4 DEF LogInv, CacheInv
      <3>6. buf' = buf /\ \A c \in Blocks : c # b => home'[c] = home[c]
        BY <1>0, <3>1, <3>2, <3>4 DEF LogInv, TypeOK
      <3>7. Durable' = Durable
        BY <2>0, <3>3, <3>6, DurableFrame
      <3>8. \A c \in Blocks : Cached(c)' = Cached(c)
        BY <3>5, <3>6 DEF Cached
      <3> QED
        BY <1>2, <1>3, <3>7, <3>8, CurrentFrame DEF AD!avars
    <2> QED
      BY <2>1, <2>2
  <1>7. CASE erase(p)
    <2>1. pc[p] = "erase" /\ Installing(p) /\ logHead' = <<>> /\ UNCHANGED <<home, buf>>
      BY <1>7 DEF erase, Installing
    <2>2. Current' = Current
      BY <1>2, <1>3, <2>1, CurrentFrame DEF Cached
    <2>3. \A b \in Blocks : Durable[b] = home[b]
      <3> TAKE b \in Blocks
      <3>1. CASE b \in Range(logHead)
        <4>1. PICK i \in 1..Len(logHead) : logHead[i] = b
          BY <1>0, <3>1 DEF Range
        <4>2. lh = logHead
          BY <1>2, <2>1 DEF LogInv, CommitInv
        <4>3. logData[i] = home[lh[i]]
          BY <1>2, <2>1, <4>1, <4>2 DEF LogInv, CommitInv
        <4> QED
          BY <4>1, <4>2, <4>3, DurableLogged
      <3>2. CASE b \notin Range(logHead)
        BY <3>2, DurableLogged
      <3> QED
        BY <3>1, <3>2
    <2>4. \A b \in Blocks : Durable'[b] = home[b]
      BY <2>1 DEF Durable, Range
    <2>5. Durable' = Durable
      <3>1. Durable' = [b \in Blocks |-> Durable'[b]] /\ Durable = [b \in Blocks |-> Durable[b]]
        BY DEF Durable
      <3> QED
        BY <2>3, <2>4, <3>1
    <2> QED
      BY <1>2, <1>3, <2>2, <2>5 DEF AD!avars
  <1> QED
    BY <1>4, <1>5, <1>6, <1>7

\* A crash maps to Lose: what was not committed is gone, nothing else is.
LEMMA CrashRefines ==
  ASSUME LogInv, Crash
  PROVE  AD!Lose
  <1>1. Booting' /\ Active' = {}
    BY LogAssumption DEF Crash, Reset, Booting, BootPc, Active, OpPc
  <1>2. Durable' = Durable
    BY TornWriteDurable, DurableFrame DEF Crash
  <1>3. Current' = Durable'
    BY <1>1 DEF Current, Durable
  <1> QED
    BY <1>1, <1>2, <1>3 DEF AD!Lose

\* Every step of log.c, of its callers and of a crash is a step of AtomicDisk
\* or leaves it unchanged: after a crash the disk holds all the operations of
\* the committed groups, and nothing of the others.
THEOREM LogRefinesAtomicDisk == Spec => AtomicAcrossCrashes
  <1>1. Init => AD!AInit
    BY InitRefines
  <1>2. LogInv /\ LogInv' /\ [Next]_vars => [AD!ANext]_(AD!avars)
    <2> SUFFICES ASSUME LogInv, LogInv', [Next]_vars PROVE [AD!ANext]_(AD!avars)
      OBVIOUS
    <2>1. CASE UNCHANGED vars
      BY <2>1 DEF vars, disk, mem, log, loc, Durable, Current, Active, Booting, AD!avars
    <2>2. ASSUME NEW p \in Procs, Step(p) PROVE [AD!ANext]_(AD!avars)
      <3>1. CASE recover_from_log(p)
        BY <3>1, RecoverRefines
      <3>2. CASE begin_op(p) \/ end_op(p) \/ \E b \in Blocks : log_write(p, b) \/ brelse(p, b)
        BY <2>2, <3>2, ControlRefines DEF Step
      <3>3. CASE commit(p)
        BY <2>2, <3>3, ControlRefines, CommitRefines DEF Step, commit
      <3> QED
        BY <2>2, <3>1, <3>2, <3>3 DEF Step
    <2>3. ASSUME NEW p \in Procs, Running, FsCall(p) PROVE [AD!ANext]_(AD!avars)
      BY <2>3, ControlRefines
    <2>4. ASSUME NEW b \in Blocks, Running,
                 \/ \E p \in Procs : bread(p, b)
                 \/ \E p \in Procs, v \in Vals : Modify(p, b, v)
                 \/ Evict(b)
          PROVE  [AD!ANext]_(AD!avars)
      BY <2>4, CacheRefines
    <2>5. CASE Crash
      BY <2>5, CrashRefines DEF AD!ANext
    <2> QED
      BY <2>1, <2>2, <2>3, <2>4, <2>5 DEF Next
  <1> QED
    BY <1>1, <1>2, LogSafety, PTL DEF Spec, AtomicAcrossCrashes, AD!ASpec

-----------------------------------------------------------------------------
(* What the callers of the log rely on.                                    *)

\* The end_op() that commits returns only when everything written is on disk.
THEOREM CommitIsDurable == Spec => []DurableAtReturn
  <1>1. LogInv => DurableAtReturn
    <2> SUFFICES ASSUME LogInv, NEW p \in Procs, pc[p] = "finish"
                 PROVE  Durable = Current
      BY DEF DurableAtReturn
    <2>1. /\ ~Booting /\ Active = {}
          /\ \A q \in Procs : ~Installing(q)
          /\ \A b \in Blocks : ~Dirty(b)
      BY Solo DEF Committer, CommitPc, Active, Dirty, OpPc, Installing
    <2>2. lh = <<>> /\ logHead = <<>>
      BY <2>1 DEF LogInv, CommitInv
    <2>3. \A b \in Blocks : Cached(b) = home[b]
      BY <2>1, <2>2 DEF LogInv, CacheInv, Cached, Pending
    <2>4. \A b \in Blocks : Durable[b] = home[b]
      BY <2>2 DEF Durable, Range
    <2>5. Durable = [b \in Blocks |-> Durable[b]] /\ Current = [b \in Blocks |-> Cached(b)]
      BY <2>1 DEF Durable, Current, Cached
    <2> QED
      BY <2>3, <2>4, <2>5
  <1> QED
    BY <1>1, LogSafety, PTL

WakeInv == QuietLogEmpty /\ SleeperHasWaker

\* While an operation is active log.outstanding is positive.
LEMMA ActiveCounted ==
  ASSUME LogInv, NEW p \in Procs, pc[p] \in OpPc
  PROVE  outstanding > 0
  <1>1. ~Booting /\ p \in Active
    BY NoCommit
  <1>2. Cardinality(Active) # 0
    BY <1>1, ActiveFinite, FS_EmptySet
  <1> QED
    BY <1>1, <1>2, ActiveFinite DEF LogInv, ControlInv

\* The log is empty whenever nothing is outstanding, so there is room then.
LEMMA WakeSafety == Spec => []WakeInv
  <1>1. Init => WakeInv
    BY DEF Init, WakeInv, QuietLogEmpty, SleeperHasWaker
  <1>2. LogInv /\ LogInv' /\ WakeInv /\ [Next]_vars => WakeInv'
    <2> SUFFICES ASSUME LogInv, LogInv', WakeInv, [Next]_vars PROVE WakeInv'
      OBVIOUS
    <2> USE LogAssumption DEF disk, mem, log, loc
    <2>0. /\ pc \in [Procs -> BootPc \cup OpPc \cup CommitPc \cup OtherPc]
          /\ outstanding \in Nat /\ committing \in {0, 1}
      BY DEF LogInv, TypeOK
    \* Steps that leave the log's control state alone and put nobody to sleep.
    <2>1. ASSUME UNCHANGED <<outstanding, committing>>, Booting' <=> Booting,
                 lh' = lh \/ outstanding > 0 \/ committing = 1,
                 \A q \in Procs : pc'[q] = "asleep" => pc[q] = "asleep",
                 Running' => Running
          PROVE  WakeInv'
      BY <2>1 DEF WakeInv, QuietLogEmpty, SleeperHasWaker
    <2>2. CASE UNCHANGED vars
      BY <2>1, <2>2 DEF vars, Booting, Running
    <2>3. ASSUME NEW p \in Procs, Running, read_head(p) \/ install_trans(p, "recover_install", "recover_erase")
          PROVE  WakeInv'
      <3>1. Booting' /\ p = InitProc
        BY <2>0, <2>3, Phase DEF read_head, install_trans, Goto, Booting, BootPc
      <3>2. \A q \in Procs : pc'[q] # "asleep"
        BY <3>1 DEF LogInv, BootInv, Booting, BootPc
      <3> QED
        BY <3>1, <3>2 DEF WakeInv, QuietLogEmpty, SleeperHasWaker
    <2>4. ASSUME NEW p \in Procs, recover_erase(p) PROVE WakeInv'
      BY <2>4 DEF recover_erase, WakeInv, QuietLogEmpty, SleeperHasWaker
    <2>5. ASSUME NEW p \in Procs, Running, begin_op(p) PROVE WakeInv'
      <3>1. ~Booting
        BY <2>5, Phase DEF begin_op, BootPc
      <3>2. ~Booting' /\ lh' = lh /\ committing' = committing /\ pc[p] = "begin"
        BY <2>0, <2>5, <3>1 DEF begin_op, Goto, Booting, BootPc
      <3>3. CASE committing = 0 /\ LogHasRoom
        BY <2>0, <2>5, <3>2, <3>3 DEF begin_op, Goto, WakeInv, QuietLogEmpty, SleeperHasWaker
      <3>4. CASE ~(committing = 0 /\ LogHasRoom)
        <4>1. committing = 1 \/ outstanding > 0
          <5>1. ASSUME committing = 0, outstanding = 0 PROVE LogHasRoom
            <6>1. lh = <<>>
              BY <3>1, <5>1 DEF WakeInv, QuietLogEmpty
            <6>2. Len(lh) = 0
              BY <6>1
            <6> QED
              BY <5>1, <6>2 DEF LogHasRoom
          <5> QED
            BY <2>0, <3>4, <5>1
        <4>2. outstanding' = outstanding
          BY <2>5, <3>4 DEF begin_op
        <4> QED
          BY <2>0, <3>2, <4>1, <4>2 DEF WakeInv, QuietLogEmpty, SleeperHasWaker
      <3> QED
        BY <3>3, <3>4
    <2>6. ASSUME NEW p \in Procs, Running, end_op(p) PROVE WakeInv'
      <3>1. pc[p] = "op" /\ ~Booting /\ committing = 0 /\ outstanding > 0
        BY <2>6, NoCommit, ActiveCounted DEF end_op, OpPc
      <3>2. CASE outstanding = 1
        BY <2>6, <3>1, <3>2 DEF end_op, LastOut, WakeInv, QuietLogEmpty, SleeperHasWaker
      <3>3. CASE outstanding # 1
        <4>1. outstanding' > 0
          BY <2>0, <2>6, <3>1, <3>3 DEF end_op
        <4> QED
          BY <4>1 DEF WakeInv, QuietLogEmpty, SleeperHasWaker
      <3> QED
        BY <3>2, <3>3
    <2>7. ASSUME NEW p \in Procs, Running,
                 \/ CommitOrSkip(p) \/ write_log(p) \/ write_head(p)
                 \/ install_trans(p, "install", "erase") \/ erase(p)
          PROVE  WakeInv'
      <3>1. committing = 1 /\ UNCHANGED committing
        BY <2>7, Solo DEF CommitOrSkip, write_log, write_head, install_trans, erase, Committer, CommitPc
      <3> QED
        BY <3>1 DEF WakeInv, QuietLogEmpty, SleeperHasWaker
    <2>8. ASSUME NEW p \in Procs, finish(p) PROVE WakeInv'
      <3>1. ~Booting
        BY <2>8, Phase DEF finish, BootPc
      <3>2. lh' = <<>>
        BY <2>8, <3>1 DEF finish, LogInv, CommitInv
      <3>3. \A q \in Procs : pc'[q] # "asleep"
        BY <2>0, <2>8 DEF finish, Woken
      <3> QED
        BY <3>2, <3>3 DEF WakeInv, QuietLogEmpty, SleeperHasWaker
    <2>9. ASSUME NEW p \in Procs, NEW b \in Blocks, Running,
                 \/ log_write(p, b) \/ brelse(p, b) \/ bread(p, b)
                 \/ \E v \in Vals : Modify(p, b, v)
          PROVE  WakeInv'
      <3>1. pc[p] \in UpPc /\ UNCHANGED <<outstanding, committing>>
        BY <2>9 DEF log_write, brelse, bread, FsCall, Modify, UpPc, OpPc
      <3>2. \/ pc' = pc
            \/ \E l \in {"logged", "op", "idle", "held", "reading", "begin", "dirty"} :
                  pc' = [pc EXCEPT ![p] = l]
        BY <2>9 DEF log_write, brelse, bread, FsCall, Modify, Goto
      <3>3. ~Booting
        BY <3>1, Phase DEF UpPc, OpPc, BootPc
      <3>4. ~Booting' /\ \A q \in Procs : pc'[q] = "asleep" => pc[q] = "asleep"
        BY <2>0, <3>2, <3>3 DEF Booting, BootPc
      <3>5. lh' = lh \/ outstanding > 0
        <4>1. CASE log_write(p, b)
          BY <4>1, ActiveCounted DEF log_write, OpPc
        <4>2. CASE ~log_write(p, b)
          BY <2>9, <4>2 DEF brelse, bread, FsCall, Modify
        <4> QED
          BY <4>1, <4>2
      <3> QED
        BY <2>1, <2>9, <3>1, <3>3, <3>4, <3>5
    <2>10. ASSUME NEW b \in Blocks, Evict(b) PROVE WakeInv'
      BY <2>1, <2>10 DEF Evict, Booting, Running
    <2>11. CASE Crash
      BY <2>11 DEF Crash, Reset, WakeInv, QuietLogEmpty, SleeperHasWaker
    <2>12. ASSUME NEW p \in Procs, Running, FsCall(p) PROVE WakeInv'
      <3>1. /\ pc[p] = "idle" /\ pc' = [pc EXCEPT ![p] = "begin"]
            /\ UNCHANGED <<outstanding, committing, lh, panicked>>
        BY <2>12 DEF FsCall, Goto
      <3>2. (Booting' <=> Booting) /\ \A q \in Procs : pc'[q] = "asleep" => pc[q] = "asleep"
        BY <2>0, <3>1 DEF Booting, BootPc
      <3> QED
        BY <2>1, <3>1, <3>2 DEF Running
    <2>13. ASSUME NEW p \in Procs, Step(p) PROVE WakeInv'
      <3>1. Running
        BY <2>13 DEF Step
      <3> QED
        BY <2>3, <2>4, <2>5, <2>6, <2>7, <2>8, <2>9, <2>13, <3>1 DEF Step, recover_from_log, commit
    <2> QED
      BY <2>2, <2>9, <2>10, <2>11, <2>12, <2>13 DEF Next
  <1> QED
    BY <1>1, <1>2, LogSafety, PTL DEF Spec

\* A process never sleeps in begin_op() without another one that will wake it.
THEOREM NoForgottenSleeper == Spec => []SleeperHasWaker
  <1>1. WakeInv => SleeperHasWaker
    BY DEF WakeInv
  <1> QED
    BY <1>1, WakeSafety, PTL

-----------------------------------------------------------------------------
(* The space begin_op() reserves is enough: no panic() of log.c is reached.*)
(*                                                                         *)
(* Len(lh) + (outstanding + 1) * MAXOPBLOCKS <= LOGSIZE, which begin_op()  *)
(* tests, says nothing later on, when operations have logged blocks and    *)
(* ended.  What is preserved is that the blocks in the log, and those the  *)
(* active operations may still add, fit together.                          *)

\* Blocks of the log that operation p has used up.
Used(p) == Cardinality(wrote[p] \cap Range(lh))
\* One element for each block that an active operation may still add to the log.
Left == {s \in Active \X (1..OPBLOCKS) : s[2] > Used(s[1])}

Budget == \A p \in Procs : IsFiniteSet(wrote[p]) /\ Cardinality(wrote[p]) <= OPBLOCKS
DirtyWrote ==
  \A p \in Procs, b \in Blocks : pc[p] = "dirty" /\ holder[b] = p => b \in wrote[p]
Room == outstanding > 0 => Len(lh) + Cardinality(Left) <= LOGSIZE - 2
SpaceInv == NoPanic /\ Budget /\ DirtyWrote /\ Room

-----------------------------------------------------------------------------
(* Facts about the reserved space.                                         *)

\* Left is finite, and holds no more than OPBLOCKS for each active operation.
LEMMA LeftFinite ==
  /\ IsFiniteSet(Left) /\ Cardinality(Left) \in Nat
  /\ Cardinality(Left) <= Cardinality(Active) * OPBLOCKS
  <1>1. IsFiniteSet(1..OPBLOCKS) /\ Cardinality(1..OPBLOCKS) = OPBLOCKS
    BY FS_Interval, LogAssumption
  <1>2. /\ IsFiniteSet(Active \X (1..OPBLOCKS))
        /\ Cardinality(Active \X (1..OPBLOCKS)) = Cardinality(Active) * OPBLOCKS
    BY <1>1, ActiveFinite, FS_Product
  <1>3. Left \in SUBSET (Active \X (1..OPBLOCKS))
    BY DEF Left
  <1> QED
    BY <1>2, <1>3, FS_Subset, FS_CardinalityType

\* A block of a finite set of blocks is counted by Used.
LEMMA UsedMonotone ==
  ASSUME NEW S, NEW T, IsFiniteSet(T), S \subseteq T
  PROVE  Cardinality(S) <= Cardinality(T) /\ Cardinality(S) \in Nat /\ Cardinality(T) \in Nat
  BY FS_Subset, FS_CardinalityType

\* The space left does not grow while operations only end and write.
LEMMA LeftShrinks ==
  ASSUME Budget', Active' \subseteq Active, Range(lh) \subseteq Range(lh)',
         \A p \in Active' : wrote[p] \subseteq wrote'[p]
  PROVE  Left' \subseteq Left /\ Cardinality(Left') <= Cardinality(Left)
  <1>1. ASSUME NEW s \in Left' PROVE s \in Left
    <2>1. s \in Active' \X (1..OPBLOCKS) /\ s[2] > Used(s[1])'
      BY <1>1 DEF Left
    <2>2. PICK p \in Active', k \in 1..OPBLOCKS : s = <<p, k>>
      BY <2>1
    <2>3. p \in Procs
      BY <2>2 DEF Active
    <2>4. IsFiniteSet(wrote'[p])
      BY <2>3 DEF Budget
    <2>5. IsFiniteSet(wrote'[p] \cap Range(lh)')
      BY <2>4, FS_Subset
    <2>6. wrote[p] \cap Range(lh) \subseteq wrote'[p] \cap Range(lh)'
      BY <2>2
    <2>7. Used(p) <= Used(p)' /\ Used(p) \in Nat /\ Used(p)' \in Nat
      BY <2>5, <2>6, UsedMonotone DEF Used
    <2>8. k > Used(p)'
      BY <2>1, <2>2
    <2>9. k > Used(p) /\ p \in Active
      BY <2>2, <2>7, <2>8
    <2> QED
      BY <2>2, <2>9 DEF Left
  <1> QED
    BY <1>1, LeftFinite, FS_Subset

\* Steps that admit no operation and add nothing to the log keep the room.
LEMMA RoomFrame ==
  ASSUME SpaceInv, Budget', Active' \subseteq Active, lh' = lh, outstanding' <= outstanding,
         lh \in Seq(Blocks), outstanding \in Nat, outstanding' \in Nat,
         \A p \in Active' : wrote[p] \subseteq wrote'[p]
  PROVE  Room'
  <1>1. Left' \subseteq Left /\ Cardinality(Left') <= Cardinality(Left)
    BY LeftShrinks
  <1>2. Cardinality(Left) \in Nat /\ Cardinality(Left') \in Nat
    BY <1>1, LeftFinite, FS_Subset, FS_CardinalityType
  <1>3. Len(lh) \in Nat
    OBVIOUS
  <1> QED
    BY <1>1, <1>2, <1>3, LogAssumption DEF SpaceInv, Room

\* An operation stays one block below its reservation, and the log on disk is as
\* large as LOGSIZE: the header takes one block, and log_write() tests for a full
\* log before absorption.
Fits == OPBLOCKS < MAXOPBLOCKS /\ LOGSIZE <= NLOG /\ OPBLOCKS + 2 <= LOGSIZE

-----------------------------------------------------------------------------
(* The steps.                                                              *)

\* begin_op() lets an operation in only where its blocks fit, too.
LEMMA BeginOpRoom ==
  ASSUME Fits, LogInv, LogInv', QuietLogEmpty, SpaceInv, Budget',
         NEW p \in Procs, begin_op(p)
  PROVE  Room'
  <1> USE LogAssumption DEF disk, mem, log, loc
  <1>0. /\ pc \in [Procs -> BootPc \cup OpPc \cup CommitPc \cup OtherPc]
        /\ lh \in Seq(Blocks) /\ outstanding \in Nat /\ lh' = lh /\ wrote' = wrote
        /\ pc[p] = "begin" /\ outstanding' \in Nat
    BY DEF LogInv, TypeOK, begin_op
  <1>1. ~Booting
    BY <1>0, Phase DEF BootPc
  <1>2. CASE committing = 0 /\ LogHasRoom
    <2>1. outstanding' = outstanding + 1 /\ pc' = [pc EXCEPT ![p] = "op"]
      BY <1>2 DEF begin_op, Goto
    <2>2. ~Booting'
      BY <1>0, <1>1, <2>1 DEF Booting, BootPc
    <2>3. outstanding' = Cardinality(Active')
      BY <2>2 DEF LogInv, ControlInv
    <2>4. Cardinality(Left') \in Nat /\ Cardinality(Left') <= Cardinality(Active') * OPBLOCKS
      <3>1. /\ Active' \subseteq Procs /\ Left' \subseteq Active' \X (1..OPBLOCKS)
        BY DEF Active, Left
      <3>2. IsFiniteSet(Active')
        BY <3>1, FS_Subset
      <3>3. IsFiniteSet(1..OPBLOCKS) /\ Cardinality(1..OPBLOCKS) = OPBLOCKS
        BY FS_Interval
      <3>4. /\ IsFiniteSet(Active' \X (1..OPBLOCKS))
            /\ Cardinality(Active' \X (1..OPBLOCKS)) = Cardinality(Active') * OPBLOCKS
        BY <3>2, <3>3, FS_Product
      <3> QED
        BY <3>1, <3>4, FS_Subset, FS_CardinalityType
    <2>5. Len(lh) + (outstanding + 1) * MAXOPBLOCKS <= LOGSIZE /\ Len(lh) \in Nat
      BY <1>0, <1>2 DEF LogHasRoom
    <2>6. Cardinality(Left') <= (outstanding + 1) * OPBLOCKS
      BY <2>1, <2>3, <2>4
    <2>7. CASE outstanding = 0
      <3>1. Len(lh) = 0
        BY <1>1, <1>2, <2>7 DEF QuietLogEmpty
      <3> QED
        BY <1>0, <2>4, <2>6, <2>7, <3>1 DEF Room, Fits
    <2>8. CASE outstanding > 0
      <3> DEFINE k == outstanding + 1
      <3>1. k \in Nat /\ k >= 2
        BY <1>0, <2>8
      <3>2. k * OPBLOCKS + k <= k * MAXOPBLOCKS
        <4> HIDE DEF k
        <4> DEFINE d == MAXOPBLOCKS - OPBLOCKS - 1
        <4>1. d \in Nat /\ MAXOPBLOCKS = OPBLOCKS + 1 + d
          BY DEF Fits
        <4> HIDE DEF d
        <4>3. k * MAXOPBLOCKS = k * OPBLOCKS + k + k * d
          BY <3>1, <4>1
        <4>4. k * d \in Nat /\ k * OPBLOCKS \in Nat
          BY <3>1, <4>1
        <4> QED
          BY <3>1, <4>3, <4>4
      <3>3. k * OPBLOCKS \in Nat /\ k * MAXOPBLOCKS \in Nat
        BY <3>1
      <3>4. Len(lh) + Cardinality(Left') + 2 <= LOGSIZE
        BY <2>4, <2>5, <2>6, <3>1, <3>2, <3>3
      <3> QED
        BY <1>0, <2>4, <2>5, <3>4 DEF Room
    <2> QED
      BY <1>0, <2>7, <2>8
  <1>3. CASE ~(committing = 0 /\ LogHasRoom)
    <2>1. outstanding' = outstanding /\ pc' = [pc EXCEPT ![p] = "asleep"]
      BY <1>3 DEF begin_op, Goto
    <2>2. Active' \subseteq Active
      BY <1>0, <2>1 DEF Active, OpPc
    <2> QED
      BY <1>0, <2>1, <2>2, RoomFrame
  <1> QED
    BY <1>2, <1>3

\* A block added to the log was reserved by the operation that adds it; the log is
\* never full when log_write() looks.
LEMMA LogWriteRoom ==
  ASSUME Fits, LogInv, LogInv', SpaceInv, Budget',
         NEW p \in Procs, NEW b \in Blocks, log_write(p, b)
  PROVE  NoPanic' /\ Room'
  <1> USE LogAssumption DEF disk, mem, log, loc
  <1>0. /\ pc \in [Procs -> BootPc \cup OpPc \cup CommitPc \cup OtherPc]
        /\ lh \in Seq(Blocks) /\ outstanding \in Nat /\ Len(lh) \in Nat
        /\ pc[p] = "dirty" /\ holder[b] = p /\ outstanding' = outstanding /\ wrote' = wrote
    BY DEF LogInv, TypeOK, log_write
  <1>1. outstanding > 0 /\ p \in Active
    BY <1>0, ActiveCounted, NoCommit DEF OpPc
  <1>2. Len(lh) + Cardinality(Left) <= LOGSIZE - 2 /\ Cardinality(Left) \in Nat
    BY <1>1, LeftFinite DEF SpaceInv, Room
  <1>3. ~LogFull /\ ~(outstanding < 1)
    BY <1>0, <1>1, <1>2 DEF LogFull, Fits
  <1>4. NoPanic' /\ pc' = [pc EXCEPT ![p] = "logged"]
    BY <1>3 DEF log_write, Goto, SpaceInv, NoPanic, Running
  <1>5. Active' = Active
    BY <1>0, <1>4 DEF Active, OpPc
  <1>6. CASE b \in Range(lh)
    <2>1. lh' = lh
      BY <1>3, <1>6 DEF log_write
    <2> QED
      BY <1>0, <1>4, <1>5, <2>1, RoomFrame
  <1>7. CASE b \notin Range(lh)
    <2>1. lh' = Append(lh, b)
      BY <1>3, <1>7 DEF log_write
    <2>2. Len(lh') = Len(lh) + 1 /\ DOMAIN lh' = 1..(Len(lh) + 1) /\ DOMAIN lh = 1..Len(lh)
      BY <1>0, <2>1
    <2>3. \A i \in 1..Len(lh) : lh'[i] = lh[i]
      BY <1>0, <2>1
    <2>4. lh'[Len(lh) + 1] = b
      BY <1>0, <2>1
    <2>5. Range(lh)' = Range(lh) \cup {b}
      <3>1. Range(lh) \subseteq Range(lh)'
        BY <1>0, <2>2, <2>3 DEF Range
      <3>2. b \in Range(lh)'
        BY <1>0, <2>2, <2>4 DEF Range
      <3>3. ASSUME NEW x \in Range(lh)' PROVE x \in Range(lh) \cup {b}
        <4>1. PICK i \in 1..(Len(lh) + 1) : lh'[i] = x
          BY <2>2 DEF Range
        <4>2. i = Len(lh) + 1 \/ i \in 1..Len(lh)
          BY <1>0
        <4> QED
          BY <2>2, <2>3, <2>4, <4>1, <4>2 DEF Range
      <3> QED
        BY <3>1, <3>2, <3>3
    <2>6. Left' \subseteq Left /\ Cardinality(Left') <= Cardinality(Left)
      BY <1>0, <1>5, <2>5, LeftShrinks
    <2>7. b \in wrote[p] /\ IsFiniteSet(wrote[p]) /\ Cardinality(wrote[p]) <= OPBLOCKS
      BY <1>0 DEF SpaceInv, DirtyWrote, Budget
    <2> DEFINE U == wrote[p] \cap Range(lh)
               k == Cardinality(U) + 1
    <2>8. /\ IsFiniteSet(U) /\ Cardinality(U) \in Nat
          /\ Cardinality(U \cup {b}) = Cardinality(U) + 1 /\ IsFiniteSet(U \cup {b})
      BY <1>7, <2>7, FS_Subset, FS_AddElement, FS_CardinalityType
    <2>9. k <= OPBLOCKS
      <3>1. U \cup {b} \subseteq wrote[p]
        BY <2>7
      <3>2. Cardinality(U \cup {b}) <= Cardinality(wrote[p]) /\ Cardinality(wrote[p]) \in Nat
        BY <2>7, <3>1, FS_Subset, FS_CardinalityType
      <3> QED
        BY <2>7, <2>8, <3>2
    <2>10. <<p, k>> \in Left
      BY <1>1, <2>8, <2>9 DEF Left, Used
    <2>11. <<p, k>> \notin Left'
      <3>1. wrote'[p] \cap Range(lh)' = U \cup {b}
        BY <1>0, <2>5, <2>7
      <3>2. Used(p)' = k
        BY <2>8, <3>1 DEF Used
      <3>3. ~(k > Used(p)')
        BY <2>8, <3>2
      <3> QED
        BY <3>3 DEF Left
    <2>12. Cardinality(Left') <= Cardinality(Left) - 1 /\ Cardinality(Left') \in Nat
      <3>1. Left' \subseteq Left \ {<<p, k>>}
        BY <2>6, <2>11
      <3>2. IsFiniteSet(Left \ {<<p, k>>}) /\ Cardinality(Left \ {<<p, k>>}) = Cardinality(Left) - 1
        BY <2>10, LeftFinite, FS_RemoveElement
      <3>3. /\ Cardinality(Left') <= Cardinality(Left \ {<<p, k>>})
            /\ Cardinality(Left') \in Nat
        BY <3>1, <3>2, UsedMonotone
      <3> QED
        BY <3>2, <3>3
    <2>13. Len(lh') + Cardinality(Left') <= LOGSIZE - 2
      BY <1>0, <1>2, <2>2, <2>12
    <2> QED
      BY <1>4, <2>13 DEF Room
  <1> QED
    BY <1>6, <1>7

\* Budget and DirtyWrote, which only the callers' own steps concern.
LEMMA BudgetStep ==
  ASSUME LogInv, SpaceInv, [Next]_vars
  PROVE  Budget' /\ DirtyWrote'
  <1> USE LogAssumption DEF disk, mem, log, loc
  <1>0. /\ pc \in [Procs -> BootPc \cup OpPc \cup CommitPc \cup OtherPc]
        /\ wrote \in [Procs -> SUBSET Blocks] /\ holder \in [Blocks -> Procs \cup {Nobody}]
    BY DEF LogInv, TypeOK
  <1>1. ASSUME wrote' = wrote,
               \A p \in Procs, b \in Blocks :
                  pc'[p] = "dirty" /\ holder'[b] = p => pc[p] = "dirty" /\ holder[b] = p
        PROVE  Budget' /\ DirtyWrote'
    BY <1>1 DEF SpaceInv, Budget, DirtyWrote
  <1>2. CASE UNCHANGED vars
    BY <1>1, <1>2 DEF vars
  <1>3. ASSUME NEW p \in Procs, Step(p) PROVE Budget' /\ DirtyWrote'
    <2>1. wrote' = wrote
      BY <1>3 DEF Step, recover_from_log, read_head, install_trans, recover_erase, begin_op, end_op,
         commit, CommitOrSkip, write_log, write_head, erase, finish, log_write, brelse
    <2>2. ASSUME NEW q \in Procs, pc'[q] = "dirty" PROVE pc[q] = "dirty"
      <3>1. CASE recover_from_log(p) \/ commit(p)
        BY <1>0, <2>2, <3>1 DEF recover_from_log, read_head, install_trans, recover_erase, commit,
           CommitOrSkip, write_log, write_head, erase, finish, Goto, Woken
      <3>2. CASE begin_op(p) \/ end_op(p)
        BY <1>0, <2>2, <3>2 DEF begin_op, end_op, Goto, Woken
      <3>3. CASE \E b \in Blocks : log_write(p, b) \/ brelse(p, b)
        BY <1>0, <2>2, <3>3 DEF log_write, brelse, Goto
      <3> QED
        BY <1>3, <3>1, <3>2, <3>3 DEF Step
    <2>3. \A b \in Blocks, q \in Procs : holder'[b] = q => holder[b] = q
      <3>1. holder' = holder \/ \E b \in Blocks : holder' = [holder EXCEPT ![b] = Nobody]
        BY <1>3 DEF Step, recover_from_log, read_head, install_trans, recover_erase, begin_op, end_op,
           commit, CommitOrSkip, write_log, write_head, erase, finish, log_write, brelse
      <3> QED
        BY <1>0, <3>1
    <2> QED
      BY <1>1, <2>1, <2>2, <2>3
  <1>4. ASSUME NEW p \in Procs, FsCall(p) PROVE Budget' /\ DirtyWrote'
    <2>1. /\ wrote' = [wrote EXCEPT ![p] = {}] /\ pc' = [pc EXCEPT ![p] = "begin"]
          /\ holder' = holder
      BY <1>4 DEF FsCall, Goto
    <2>2. Budget'
      BY <1>0, <2>1, FS_EmptySet DEF SpaceInv, Budget
    <2>3. DirtyWrote'
      BY <1>0, <2>1 DEF SpaceInv, DirtyWrote
    <2> QED
      BY <2>2, <2>3
  <1>5. ASSUME NEW p \in Procs, NEW b \in Blocks, bread(p, b) PROVE Budget' /\ DirtyWrote'
    <2>1. /\ wrote' = wrote /\ holder' = [holder EXCEPT ![b] = p]
          /\ pc' = [pc EXCEPT ![p] = "held"] \/ pc' = [pc EXCEPT ![p] = "reading"]
      BY <1>5 DEF bread, Goto
    <2> QED
      BY <1>0, <1>1, <2>1
  <1>6. ASSUME NEW p \in Procs, NEW b \in Blocks, NEW v \in Vals, Modify(p, b, v)
        PROVE  Budget' /\ DirtyWrote'
    <2>1. /\ wrote' = [wrote EXCEPT ![p] = @ \cup {b}] /\ holder' = holder
          /\ pc[p] = "held" /\ pc' = [pc EXCEPT ![p] = "dirty"]
          /\ holder[b] = p /\ Cardinality(wrote[p] \cup {b}) <= OPBLOCKS
      BY <1>6 DEF Modify, Goto
    <2>2. IsFiniteSet(wrote[p] \cup {b})
      BY FS_AddElement DEF SpaceInv, Budget
    <2>3. Budget'
      BY <1>0, <2>1, <2>2 DEF SpaceInv, Budget
    <2>4. ~Booting
      BY <2>1, Phase DEF BootPc
    <2>5. \A c \in Blocks : holder[c] = p => c = b
      BY <2>1, <2>4 DEF LogInv, ControlInv
    <2>6. DirtyWrote'
      BY <1>0, <2>1, <2>5 DEF SpaceInv, DirtyWrote
    <2> QED
      BY <2>3, <2>6
  <1>7. ASSUME NEW b \in Blocks, Evict(b) PROVE Budget' /\ DirtyWrote'
    BY <1>1, <1>7 DEF Evict
  <1>8. CASE Crash
    <2>1. wrote' = [p \in Procs |-> {}] /\ \A p \in Procs : pc'[p] # "dirty"
      BY <1>8 DEF Crash, Reset
    <2> QED
      BY <2>1, FS_EmptySet DEF Budget, DirtyWrote
  <1> QED
    BY <1>2, <1>3, <1>4, <1>5, <1>6, <1>7, <1>8 DEF Next

\* The steps that are left: they admit nobody and add nothing to the log.
LEMMA OtherRoom ==
  ASSUME LogInv, LogInv', SpaceInv, Budget', Running, NEW p \in Procs,
         \/ FsCall(p) \/ end_op(p)
         \/ \E b \in Blocks : \/ bread(p, b) \/ brelse(p, b)
                              \/ \E v \in Vals : Modify(p, b, v)
  PROVE  NoPanic' /\ Room'
  <1> USE LogAssumption DEF disk, mem, log, loc
  <1>0. /\ pc \in [Procs -> BootPc \cup OpPc \cup CommitPc \cup OtherPc]
        /\ lh \in Seq(Blocks) /\ outstanding \in Nat /\ outstanding' \in Nat
        /\ wrote \in [Procs -> SUBSET Blocks]
    BY DEF LogInv, TypeOK
  <1>1. lh' = lh /\ outstanding' <= outstanding
    <2>1. lh' = lh /\ outstanding' \in {outstanding, outstanding - 1}
      BY DEF FsCall, end_op, bread, brelse, Modify
    <2> QED
      BY <1>0, <2>1
  <1>2. NoPanic'
    <2>1. CASE end_op(p)
      <3>1. committing = 0
        BY <2>1, NoCommit DEF end_op, OpPc
      <3> QED
        BY <2>1, <3>1 DEF end_op, NoPanic, Running
    <2>2. CASE ~end_op(p)
      BY <2>2 DEF FsCall, bread, brelse, Modify, NoPanic, Running
    <2> QED
      BY <2>1, <2>2
  <1>3. Active' \subseteq Active
    <2>1. CASE end_op(p)
      BY <1>0, <2>1 DEF end_op, Goto, Woken, Active, OpPc
    <2>2. CASE ~end_op(p)
      BY <1>0, <2>2 DEF FsCall, bread, brelse, Modify, Goto, Active, OpPc
    <2> QED
      BY <2>1, <2>2
  <1>4. \A q \in Active' : wrote[q] \subseteq wrote'[q]
    <2>1. CASE FsCall(p)
      <3>1. p \notin Active'
        BY <1>0, <2>1 DEF FsCall, Goto, Active, OpPc
      <3> QED
        BY <1>0, <2>1, <3>1 DEF FsCall, Active
    <2>2. CASE \E b \in Blocks, v \in Vals : Modify(p, b, v)
      <3>1. PICK b \in Blocks : wrote' = [wrote EXCEPT ![p] = @ \cup {b}]
        BY <2>2 DEF Modify
      <3> QED
        BY <1>0, <3>1 DEF Active
    <2>3. CASE end_op(p) \/ \E b \in Blocks : bread(p, b) \/ brelse(p, b)
      <3>1. wrote' = wrote
        BY <2>3 DEF end_op, bread, brelse
      <3> QED
        BY <3>1
    <2> QED
      BY <2>1, <2>2, <2>3
  <1> QED
    BY <1>0, <1>1, <1>2, <1>3, <1>4, RoomFrame

-----------------------------------------------------------------------------
\* Whatever operations run at the same time, end and are followed by others, as long
\* as each keeps one block below MAXOPBLOCKS: log_write() never finds the log full
\* ("too big a transaction") and is never outside a transaction, and end_op() never
\* meets a commit.
THEOREM ReservationSuffices ==
  ASSUME Fits PROVE Spec => []NoPanic
  <1>1. Init => SpaceInv
    <2> SUFFICES ASSUME Init PROVE SpaceInv
      OBVIOUS
    <2>1. NoPanic /\ Room
      BY DEF Init, NoPanic, Running, Room
    <2>2. Budget /\ DirtyWrote
      BY FS_EmptySet, LogAssumption DEF Init, Budget, DirtyWrote
    <2> QED
      BY <2>1, <2>2 DEF SpaceInv
  <1>2. LogInv /\ LogInv' /\ WakeInv /\ SpaceInv /\ [Next]_vars => SpaceInv'
    <2> SUFFICES ASSUME LogInv, LogInv', WakeInv, SpaceInv, [Next]_vars PROVE SpaceInv'
      OBVIOUS
    <2> USE DEF disk, mem, log, loc
    <2>0. Budget' /\ DirtyWrote'
      BY BudgetStep
    <2>1. /\ pc \in [Procs -> BootPc \cup OpPc \cup CommitPc \cup OtherPc]
          /\ lh \in Seq(Blocks) /\ outstanding \in Nat /\ outstanding' \in Nat
      BY DEF LogInv, TypeOK
    <2>2. CASE UNCHANGED vars
      <3>1. Active' = Active /\ NoPanic'
        BY <2>2 DEF vars, Active, SpaceInv, NoPanic, Running
      <3>2. Room'
        BY <2>0, <2>1, <2>2, <3>1, RoomFrame DEF vars
      <3> QED
        BY <2>0, <3>1, <3>2 DEF SpaceInv
    <2>3. ASSUME NEW p \in Procs, recover_from_log(p) PROVE SpaceInv'
      <3>1. panicked' = panicked /\ outstanding' = outstanding
        BY <2>3 DEF recover_from_log, read_head, install_trans, recover_erase
      <3>2. outstanding = 0
        BY <2>3, Phase DEF recover_from_log, read_head, install_trans, recover_erase, BootPc,
           LogInv, BootInv
      <3> QED
        BY <2>0, <3>1, <3>2 DEF SpaceInv, NoPanic, Running, Room
    <2>4. ASSUME NEW p \in Procs, commit(p) PROVE SpaceInv'
      <3>1. panicked' = panicked /\ outstanding' = outstanding
        BY <2>4 DEF commit, CommitOrSkip, write_log, write_head, install_trans, erase, finish
      <3>2. Active = {} /\ ~Booting
        BY <2>4, Solo DEF commit, CommitOrSkip, write_log, write_head, install_trans, erase, finish,
           Committer, CommitPc
      <3>3. outstanding = 0
        BY <3>2, FS_EmptySet DEF LogInv, ControlInv
      <3> QED
        BY <2>0, <3>1, <3>3 DEF SpaceInv, NoPanic, Running, Room
    <2>5. ASSUME NEW p \in Procs, begin_op(p) PROVE SpaceInv'
      <3>1. Room'
        BY <2>0, <2>5, BeginOpRoom DEF WakeInv
      <3>2. NoPanic'
        BY <2>5 DEF begin_op, SpaceInv, NoPanic, Running
      <3> QED
        BY <2>0, <3>1, <3>2 DEF SpaceInv
    <2>6. ASSUME NEW p \in Procs, NEW b \in Blocks, log_write(p, b) PROVE SpaceInv'
      BY <2>0, <2>6, LogWriteRoom DEF SpaceInv
    <2>7. ASSUME NEW p \in Procs, Running,
                 \/ FsCall(p) \/ end_op(p)
                 \/ \E b \in Blocks : \/ bread(p, b) \/ brelse(p, b)
                                      \/ \E v \in Vals : Modify(p, b, v)
          PROVE  SpaceInv'
      BY <2>0, <2>7, OtherRoom DEF SpaceInv
    <2>8. ASSUME NEW b \in Blocks, Evict(b) PROVE SpaceInv'
      <3>1. Active' = Active /\ NoPanic' /\ UNCHANGED <<lh, outstanding, wrote>>
        BY <2>8 DEF Evict, Active, SpaceInv, NoPanic, Running
      <3>2. Room'
        BY <2>0, <2>1, <3>1, RoomFrame
      <3> QED
        BY <2>0, <3>1, <3>2 DEF SpaceInv
    <2>9. CASE Crash
      BY <2>0, <2>9 DEF Crash, Reset, SpaceInv, NoPanic, Running, Room
    <2>10. ASSUME NEW p \in Procs, Step(p) PROVE SpaceInv'
      BY <2>3, <2>4, <2>5, <2>6, <2>7, <2>10 DEF Step
    <2> QED
      BY <2>2, <2>7, <2>8, <2>9, <2>10 DEF Next
  <1>3. SpaceInv => NoPanic
    BY DEF SpaceInv
  <1> QED
    BY <1>1, <1>2, <1>3, LogSafety, WakeSafety, PTL DEF Spec
=============================================================================
