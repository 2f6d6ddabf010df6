---------------------------- MODULE ConsoleProofs ----------------------------
(***************************************************************************)
(* Proofs about module Console, for any number of harts and processes and  *)
(* any sizes of the two rings: IntrInv, InputInv, OutputInv, NoLostWakeup. *)
(*                                                                         *)
(* None of the four is inductive.  The depth of a hart follows from the    *)
(* points its handler and its process are at (AtLocks, PcLocks): that      *)
(* gives the owners of the locks, and that a process off its hart has none *)
(* and will go on with the flag it had.  The rings are described entry by  *)
(* entry; the input ring with counters that do not wrap in the place of r, *)
(* w and e.  And "locked by who will look at it" becomes a process inside  *)
(* uartstart(), which no interrupt takes off its hart.                     *)
(***************************************************************************)
EXTENDS Console, FiniteSetTheorems, SequenceTheorems, WellFoundedInduction, TLAPS

-----------------------------------------------------------------------------
(* Facts about numbers.                                                    *)

\* Quotient and remainder are unique.
LEMMA ModUnique ==
  ASSUME NEW W \in Nat, W > 0, NEW a \in Int, NEW q \in Int, NEW r \in 0..(W - 1),
         a = q * W + r
  PROVE  a % W = r
  OBVIOUS

\* Every number has a quotient and a remainder.
LEMMA Quot ==
  ASSUME NEW W \in Nat, W > 0, NEW a \in Int, NEW r \in Int, r = a % W
  PROVE  r \in 0..(W - 1) /\ \E q \in Int : a = q * W + r
  OBVIOUS

\* Multiplication distributes; stated so that the provers need not find it.
LEMMA MultAdd ==
  ASSUME NEW a \in Int, NEW b \in Int, NEW P \in Int
  PROVE  (a + b) * P = a * P + b * P
  OBVIOUS

LEMMA MultSub ==
  ASSUME NEW a \in Int, NEW b \in Int, NEW P \in Int
  PROVE  (a - b) * P = a * P - b * P
  OBVIOUS

\* ... and less than P always does.
LEMMA ModDiffer ==
  ASSUME NEW P \in Nat, P > 0, NEW x \in Int, NEW d \in 1..(P - 1)
  PROVE  x % P # (x + d) % P
  <1> SUFFICES ASSUME x % P = (x + d) % P PROVE FALSE
    OBVIOUS
  <1>1. PICK r \in Int : r = x % P
    OBVIOUS
  <1>2. PICK q1 \in Int : x = q1 * P + r
    BY <1>1, Quot
  <1>3. PICK q2 \in Int : x + d = q2 * P + r
    <2>1. PICK y \in Int : y = x + d
      OBVIOUS
    <2>2. r = y % P
      BY <1>1, <2>1
    <2>3. \E q2 \in Int : y = q2 * P + r
      BY <2>2, Quot
    <2>4. QED BY <2>1, <2>3
  <1>4. PICK q \in Int : q = q2 - q1
    OBVIOUS
  <1>5. q * P = q2 * P - q1 * P
    BY <1>4, MultSub
  <1>6. d = q * P
    <2>1. q1 * P \in Int /\ q2 * P \in Int
      OBVIOUS
    <2>2. QED BY <2>1, <1>2, <1>3, <1>5
  <1>7. CASE q <= 0
    BY <1>6, <1>7
  <1>8. CASE q >= 1
    BY <1>6, <1>8
  <1>9. QED BY <1>7, <1>8

\* Counters kept modulo P are shifted, and subtracted, as those they stand for, ...
LEMMA ModShift ==
  ASSUME NEW P \in Nat, P > 0, NEW x \in Int, NEW d \in Int
  PROVE  ((x % P) + d) % P = (x + d) % P
  <1>1. PICK r \in Int : r = x % P
    OBVIOUS
  <1>2. PICK q \in Int : x = q * P + r
    BY <1>1, Quot
  <1>3. PICK y \in Int : y = r + d
    OBVIOUS
  <1>4. PICK t \in Int : t = y % P
    OBVIOUS
  <1>5. t \in 0..(P - 1)
    BY <1>4, Quot
  <1>6. PICK c \in Int : y = c * P + t
    BY <1>4, Quot
  <1>7. PICK z \in Int : z = x + d
    OBVIOUS
  <1>8. PICK b \in Int : b = q + c
    OBVIOUS
  <1>9. b * P = q * P + c * P
    BY <1>8, MultAdd
  <1>10. z = b * P + t
    <2>1. q * P \in Int /\ c * P \in Int /\ b * P \in Int
      OBVIOUS
    <2>2. QED BY <2>1, <1>2, <1>3, <1>6, <1>7, <1>9
  <1>11. z % P = t
    BY <1>5, <1>10, ModUnique
  <1>12. QED BY <1>1, <1>3, <1>4, <1>7, <1>11

LEMMA ModDiff ==
  ASSUME NEW P \in Nat, P > 0, NEW x \in Int, NEW y \in Int, x - y \in 0..(P - 1)
  PROVE  ((x % P) - (y % P)) % P = x - y
  <1>1. PICK r \in Int : r = x % P
    OBVIOUS
  <1>2. PICK s \in Int : s = y % P
    OBVIOUS
  <1>3. PICK q \in Int : x = q * P + r
    BY <1>1, Quot
  <1>4. PICK c \in Int : y = c * P + s
    BY <1>2, Quot
  <1>5. PICK b \in Int : b = c - q
    OBVIOUS
  <1>6. b * P = c * P - q * P
    BY <1>5, MultSub
  <1>7. PICK z \in Int : z = r - s
    OBVIOUS
  <1>8. z = b * P + (x - y)
    <2>1. q * P \in Int /\ c * P \in Int /\ b * P \in Int
      OBVIOUS
    <2>2. QED BY <2>1, <1>3, <1>4, <1>6, <1>7
  <1>9. PICK d \in 0..(P - 1) : d = x - y
    OBVIOUS
  <1>10. z % P = d
    BY <1>8, <1>9, ModUnique
  <1>11. QED BY <1>1, <1>2, <1>7, <1>9, <1>10

\* ... and index the same slot when P divides W.
LEMMA ModMod ==
  ASSUME NEW P \in Nat, P > 0, NEW W \in Nat, W > 0, W % P = 0, NEW x \in Int
  PROVE  (x % W) % P = x % P
  <1>1. PICK a \in Int : W = a * P + 0
    BY Quot
  <1>2. PICK r \in Int : r = x % W
    OBVIOUS
  <1>3. PICK q \in Int : x = q * W + r
    BY <1>2, Quot
  <1>4. PICK t \in Int : t = r % P
    OBVIOUS
  <1>5. t \in 0..(P - 1)
    BY <1>4, Quot
  <1>6. PICK c \in Int : r = c * P + t
    BY <1>4, Quot
  <1>7. PICK m \in Int : m = q * a
    OBVIOUS
  <1>8. PICK b \in Int : b = m + c
    OBVIOUS
  <1>9. b * P = m * P + c * P
    BY <1>8, MultAdd
  <1>10. q * W = m * P
    <2>1. W = a * P
      BY <1>1
    <2>2. q * (a * P) = (q * a) * P
      OBVIOUS
    <2>3. QED BY <1>7, <2>1, <2>2
  <1>11. x = b * P + t
    <2>1. q * W \in Int /\ m * P \in Int /\ c * P \in Int /\ b * P \in Int
      OBVIOUS
    <2>2. QED BY <2>1, <1>3, <1>6, <1>9, <1>10
  <1>12. x % P = t
    BY <1>5, <1>11, ModUnique
  <1>13. QED BY <1>2, <1>4, <1>12

\* Numbers in range are their own remainders.
LEMMA ModSmall ==
  ASSUME NEW P \in Nat, P > 0, NEW x \in 0..(P - 1)
  PROVE  x % P = x
  OBVIOUS

\* A set of natural numbers has a least one.
LEMMA NatMin ==
  ASSUME NEW T \in SUBSET Nat, T # {}
  PROVE  \E x \in T : \A y \in T : x <= y
  <1>1. PICK R : R = OpToRel(<, Nat)
    OBVIOUS
  <1>2. IsWellFoundedOn(R, Nat)
    BY <1>1, NatLessThanWellFounded
  <1>3. PICK x \in T : \A y \in T : ~ (<<y, x>> \in R)
    BY <1>2, WFMin
  <1>4. \A y \in T : ~ (y < x)
    BY <1>1, <1>3 DEF OpToRel
  <1>5. \A y \in T : x <= y
    BY <1>4
  <1>6. QED BY <1>5

-----------------------------------------------------------------------------
(* The inductive invariant.                                                *)

Ats == {"none", "uartintr", "consoleintr", "printf", "uartstart", "clockintr", "iret"}
Pcs == {"user", "read_loop", "read", "uartputc", "uartstart", "write", "printf", "sys_sleep", "nap"}
Chans == {"none", "cons.r", "uart_tx_r", "ticks"}
\* The characters, with the two that the code itself stores named for the provers.
Characters == STRING \cup {"", "nl"}
CpuRec == [intr : BOOLEAN, noff : Nat, intena : BOOLEAN, want : Locks \cup {"none"},
           proc : Procs \cup {None}, at : Ats, c : Characters]
ProcRec == [state : {"RUNNABLE", "RUNNING", "SLEEPING", "ZOMBIE"}, chan : Chans, pc : Pcs,
            killed : BOOLEAN, intena : BOOLEAN, trapped : BOOLEAN, n : Nat, got : Nat]
Control == cpu \in [Harts -> CpuRec] /\ proc \in [Procs -> ProcRec] /\ lk \in [Locks -> Harts \cup {None}]

\* The locks that a handler, and a process, hold or go for at each point.
AtLocks(a) == CASE a = "uartstart" -> {"uart_tx"} [] a = "consoleintr" -> {"cons"}
                [] a = "printf" -> {"cons", "pr"} [] a = "clockintr" -> {"tickslock"} [] OTHER -> {}
PcLocks(l) == CASE l = "read_loop" -> {"cons"} [] l \in {"uartputc", "uartstart"} -> {"uart_tx"}
                [] l = "printf" -> {"pr"} [] l = "sys_sleep" -> {"tickslock"} [] OTHER -> {}
\* The point that hart x's process is at, with the processes P.
PcOn(x, P) == IF x.proc = None THEN "user" ELSE P[x.proc].pc
Needs(x, P) == AtLocks(x.at) \cup PcLocks(PcOn(x, P))

\* A hart: depth, flag and saved flag follow from where it is.
HartOK(x, P) ==
  /\ x.noff = IF x.at = "printf" THEN 2 ELSE IF Needs(x, P) = {} THEN 0 ELSE 1
  /\ x.intr <=> x.noff = 0 /\ x.at = "none"
  /\ x.intena <=> x.noff # 0 /\ x.at = "none"
  /\ x.want \in Needs(x, P) \cup {"none"} /\ (x.at = "printf" => x.want # "cons")
  /\ x.at # "none" => PcLocks(PcOn(x, P)) = {}
  /\ x.proc # None => P[x.proc].state = "RUNNING"
\* A process: off the hart it has no lock, and its flag is the one it will go on with.
ProcOK(q) ==
  /\ q.state # "RUNNING" => PcLocks(q.pc) = {} /\ (q.intena <=> ~ q.trapped)
  /\ q.state = "RUNNING" => q.intena /\ ~ q.trapped
  /\ q.chan # "none" <=> q.state = "SLEEPING"

HartsInv == \A h \in Harts : HartOK(cpu[h], proc)
ProcsInv == \A p \in Procs : ProcOK(proc[p])
OwnersInv == \A l \in Locks, h \in Harts : lk[l] = h <=> l \in Needs(cpu[h], proc) /\ cpu[h].want # l
ApartInv == \A g, h \in Harts : g # h /\ cpu[g].proc = cpu[h].proc => cpu[h].proc = None
ControlInv == Control /\ HartsInv /\ ProcsInv /\ OwnersInv /\ ApartInv /\ ~ panic

\* The input ring, entry by entry: the counters R, W and E that r, w and e stand for do not wrap.
ConsRec == [buf : [0..(INPUT_BUF_SIZE - 1) -> Characters], r : Int, w : Int, e : Int,
            line : Seq(Characters), typed : Seq(Characters)]
RingAt(c, R, W, E) ==
  /\ c.r = R % UINT /\ c.w = W % UINT /\ c.e = E % UINT
  /\ R <= W /\ W <= E /\ E <= R + INPUT_BUF_SIZE
  /\ Len(c.typed) = W - R /\ \A j \in 1..(W - R) : c.typed[j] = c.buf[(R + j - 1) % INPUT_BUF_SIZE]
  /\ Len(c.line) = E - W /\ \A j \in 1..(E - W) : c.line[j] = c.buf[(W + j - 1) % INPUT_BUF_SIZE]
  /\ E = R + INPUT_BUF_SIZE => R # W
RingInv == cons \in ConsRec /\ \E R, W, E \in Int : RingAt(cons, R, W, E)

\* The output ring, entry by entry.
TxRec == [buf : [0..(UART_TX_BUF_SIZE - 1) -> Nat], r : Nat, w : Nat]
UartRec == [keys : Seq(Characters), rx : Seq(Characters), thr : Int, empty : BOOLEAN, sent : Nat]
TxInv ==
  /\ tx \in TxRec /\ uart \in UartRec
  /\ tx.r <= tx.w /\ tx.w <= tx.r + UART_TX_BUF_SIZE
  /\ uart.thr > 0 => uart.thr = tx.r /\ uart.sent + 1 = tx.r
  /\ ~ (uart.thr > 0) => uart.sent = tx.r
  /\ \A k \in tx.r..(tx.w - 1) : tx.buf[k % UART_TX_BUF_SIZE] = k + 1

\* Who will look at the output ring when there is something in it and the UART is idle.
Sending(h) == cpu[h].want = "none" /\ PcOn(cpu[h], proc) = "uartstart"
Sender == plic # None \/ \E h \in Harts : Sending(h)
PendingInv == tx.r # tx.w => ~ Idle \/ uart.empty \/ Sender

\* Who sleeps has to.
ReadersWait == \A p \in Procs : proc[p].chan = "cons.r" => cons.r = cons.w
WritersWait == \A p \in Procs : proc[p].chan = "uart_tx_r" => tx.w = tx.r + UART_TX_BUF_SIZE
WaitInv == TxInv /\ ReadersWait /\ WritersWait /\ PendingInv

IInv == ControlInv /\ WaitInv /\ RingInv

-----------------------------------------------------------------------------
(* spinlock.c, field by field.                                             *)

\* y is the hart x but for its flag, its depth and the flag saved.
Rest(x, y) == y.want = x.want /\ y.proc = x.proc /\ y.at = x.at /\ y.c = x.c

LEMMA PushOff ==
  ASSUME NEW x \in CpuRec, NEW y, y = push_off(x)
  PROVE  /\ y \in CpuRec /\ Rest(x, y)
         /\ y.intr = FALSE /\ y.noff = x.noff + 1 /\ y.intena = IF x.noff = 0 THEN x.intr ELSE x.intena
<1>1. PICK i : i = IF x.noff = 0 THEN x.intr ELSE x.intena
  OBVIOUS
<1>2. i \in BOOLEAN
  BY <1>1 DEF CpuRec
<1>3. y = [x EXCEPT !.intr = FALSE, !.intena = i, !.noff = x.noff + 1]
  BY <1>1 DEF push_off
<1>6. x.noff + 1 \in Nat
  BY DEF CpuRec
<1>4. y \in CpuRec
  BY <1>2, <1>3, <1>6 DEF CpuRec
<1>5. Rest(x, y) /\ y.intr = FALSE /\ y.noff = x.noff + 1 /\ y.intena = i
  BY <1>3 DEF CpuRec, Rest
<1> QED BY <1>1, <1>4, <1>5

LEMMA PopOff ==
  ASSUME NEW x \in CpuRec, x.noff > 0, NEW y, y = pop_off(x)
  PROVE  /\ y \in CpuRec /\ Rest(x, y) /\ y.noff = x.noff - 1
         /\ y.intr = IF x.noff > 1 THEN x.intr ELSE x.intr \/ x.intena
         /\ y.intena = IF x.noff > 1 THEN x.intena ELSE FALSE
<1>1. CASE x.noff > 1
  BY <1>1 DEF pop_off, CpuRec, Rest
<1>2. CASE ~ (x.noff > 1)
  <2>1. PICK i : i = (x.intr \/ x.intena)
    OBVIOUS
  <2>2. PICK n : n = x.noff - 1
    OBVIOUS
  <2>3. i \in BOOLEAN /\ n \in Nat
    BY <2>1, <2>2 DEF CpuRec
  <2>4. y = [x EXCEPT !.noff = n, !.intr = i, !.intena = FALSE]
    BY <1>2, <2>1, <2>2 DEF pop_off
  <2>5. y \in CpuRec
    BY <2>3, <2>4 DEF CpuRec
  <2>6. Rest(x, y) /\ y.noff = n /\ y.intr = i /\ y.intena = FALSE
    BY <2>4 DEF CpuRec, Rest
  <2> QED BY <1>2, <2>1, <2>2, <2>5, <2>6
<1> QED BY <1>1, <1>2

LEMMA Scheduled ==
  ASSUME NEW x \in CpuRec, NEW y, y = ToScheduler(x)
  PROVE  /\ y \in CpuRec /\ y.intr = TRUE /\ y.noff = 0 /\ y.intena = FALSE /\ y.want = x.want
         /\ y.proc = None /\ y.at = "none" /\ y.c = x.c
  BY DEF ToScheduler, CpuRec, Ats

\* The same at the depths that occur.
LEMMA PushOffAt ==
  ASSUME NEW x \in CpuRec, NEW y, y = push_off(x)
  PROVE  /\ y \in CpuRec /\ y.want = x.want /\ y.proc = x.proc /\ y.at = x.at /\ y.c = x.c /\ ~ y.intr
         /\ x.noff = 0 => y.noff = 1 /\ (y.intena <=> x.intr)
         /\ x.noff = 1 => y.noff = 2 /\ (y.intena <=> x.intena)
<1>1. /\ y \in CpuRec /\ Rest(x, y)
      /\ y.intr = FALSE /\ y.noff = x.noff + 1 /\ y.intena = IF x.noff = 0 THEN x.intr ELSE x.intena
  BY PushOff
<1>2. (x.noff = 0 => y.noff = 1) /\ (x.noff = 1 => y.noff = 2 /\ x.noff # 0)
  BY <1>1 DEF CpuRec
<1> QED BY <1>1, <1>2 DEF Rest

LEMMA AcquireAt ==
  ASSUME NEW x \in CpuRec, NEW l \in Locks, NEW y, y = acquire(x, l)
  PROVE  /\ y \in CpuRec /\ y.want = l /\ y.proc = x.proc /\ y.at = x.at /\ y.c = x.c /\ ~ y.intr
         /\ x.noff = 0 => y.noff = 1 /\ (y.intena <=> x.intr)
         /\ x.noff = 1 => y.noff = 2 /\ (y.intena <=> x.intena)
<1>1. PICK z : z = push_off(x)
  OBVIOUS
<1>2. y = [z EXCEPT !.want = l]
  BY <1>1 DEF acquire
<1>3. /\ z \in CpuRec /\ z.want = x.want /\ z.proc = x.proc /\ z.at = x.at /\ z.c = x.c /\ ~ z.intr
      /\ x.noff = 0 => z.noff = 1 /\ (z.intena <=> x.intr)
      /\ x.noff = 1 => z.noff = 2 /\ (z.intena <=> x.intena)
  BY <1>1, PushOffAt
<1> QED BY <1>2, <1>3 DEF CpuRec

LEMMA PopOffAt ==
  ASSUME NEW x \in CpuRec, x.noff \in {1, 2}, NEW y, y = pop_off(x)
  PROVE  /\ y \in CpuRec /\ y.want = x.want /\ y.proc = x.proc /\ y.at = x.at /\ y.c = x.c
         /\ x.noff = 1 => y.noff = 0 /\ (y.intr <=> x.intr \/ x.intena) /\ ~ y.intena
         /\ x.noff = 2 => y.noff = 1 /\ (y.intr <=> x.intr) /\ (y.intena <=> x.intena)
<1>1. x.noff > 0
  OBVIOUS
<1>2. /\ y \in CpuRec /\ Rest(x, y) /\ y.noff = x.noff - 1
      /\ y.intr = IF x.noff > 1 THEN x.intr ELSE x.intr \/ x.intena
      /\ y.intena = IF x.noff > 1 THEN x.intena ELSE FALSE
  BY <1>1, PopOff
<1>3. (x.noff = 1 => y.noff = 0 /\ ~ (x.noff > 1)) /\ (x.noff = 2 => y.noff = 1 /\ x.noff > 1)
  BY <1>2 DEF CpuRec
<1> QED BY <1>2, <1>3 DEF Rest

-----------------------------------------------------------------------------
(* One hart's step.                                                        *)

\* Hart h goes on as x, with the processes P.
Goes(h, x) == cpu' = [cpu EXCEPT ![h] = x]
\* The processes on other harts go on as they were.
OthersStay(h) ==
  \A p \in Procs : proc[p].state = "RUNNING" /\ p # cpu[h].proc
                     => proc'[p].state = "RUNNING" /\ proc'[p].pc = proc[p].pc
\* The locks that h takes are free, and those it gives up are free afterwards.
LocksOf(h, x) ==
  \A l \in Locks :
    /\ lk'[l] = h <=> l \in Needs(x, proc') /\ x.want # l
    /\ lk'[l] = h => lk[l] \in {h, None}
    /\ lk'[l] # h => lk'[l] = IF lk[l] = h THEN None ELSE lk[l]
\* Its process is the one it had, none, or one that no hart runs.
NoTheft(h, x) == x.proc # None /\ x.proc # cpu[h].proc => proc[x.proc].state # "RUNNING"

\* No other hart takes part, and the invariant holds afterwards.
Local(h) == OthersStay(h) /\ \A g \in Harts : g # h => cpu'[g] = cpu[g]
Steps(h) == ControlInv' /\ Local(h)

LEMMA HartStep ==
  ASSUME ControlInv, NEW h \in Harts, NEW x \in CpuRec, Goes(h, x), Control', HartOK(x, proc'),
         ProcsInv', OthersStay(h), LocksOf(h, x), NoTheft(h, x), ~ panic'
  PROVE  Steps(h)
<1> USE DEF ControlInv
<1>1. cpu'[h] = x /\ \A g \in Harts : g # h => cpu'[g] = cpu[g]
  BY DEF Goes, Control
<1>2. ASSUME NEW g \in Harts, g # h
      PROVE  /\ cpu[g].proc \in Procs \cup {None}
             /\ cpu[g].proc # None => /\ proc'[cpu[g].proc].state = "RUNNING"
                                      /\ proc'[cpu[g].proc].pc = proc[cpu[g].proc].pc
                                      /\ cpu[g].proc # x.proc
  <2>1. cpu[g].proc \in Procs \cup {None}
    BY DEF Control, CpuRec
  <2>2. ASSUME cpu[g].proc # None
        PROVE  cpu[g].proc # cpu[h].proc /\ proc[cpu[g].proc].state = "RUNNING"
    BY <1>2, <2>2 DEF ApartInv, HartsInv, HartOK
  <2> QED BY <2>1, <2>2 DEF OthersStay, NoTheft
<1>3. \A g \in Harts : g # h => PcOn(cpu[g], proc') = PcOn(cpu[g], proc)
  BY <1>2 DEF PcOn
<1>4. \A g \in Harts : g # h => Needs(cpu[g], proc') = Needs(cpu[g], proc)
  BY <1>3 DEF Needs
<1>5. HartsInv'
  <2> SUFFICES ASSUME NEW g \in Harts PROVE HartOK(cpu'[g], proc')
    BY DEF HartsInv
  <2>1. CASE g = h
    BY <1>1, <2>1
  <2>2. CASE g # h
    <3>1. HartOK(cpu[g], proc)
      BY DEF HartsInv
    <3>2. HartOK(cpu[g], proc')
      BY <1>2, <1>3, <1>4, <2>2, <3>1 DEF HartOK
    <3> QED BY <1>1, <2>2, <3>2
  <2> QED BY <2>1, <2>2
<1>6. OwnersInv'
  <2> SUFFICES ASSUME NEW l \in Locks, NEW g \in Harts
               PROVE  lk'[l] = g <=> l \in Needs(cpu'[g], proc') /\ cpu'[g].want # l
    BY DEF OwnersInv
  <2>1. CASE g = h
    BY <1>1, <2>1 DEF LocksOf
  <2>2. CASE g # h
    <3>1. lk[l] = g <=> l \in Needs(cpu[g], proc') /\ cpu[g].want # l
      BY <1>4, <2>2 DEF OwnersInv
    <3>2. g # None
      BY ConsoleAssumption
    <3>3. lk'[l] = g <=> lk[l] = g
      BY <2>2, <3>2 DEF LocksOf
    <3> QED BY <1>1, <2>2, <3>1, <3>3
  <2> QED BY <2>1, <2>2
<1>7. ApartInv'
  <2> SUFFICES ASSUME NEW f \in Harts, NEW g \in Harts, f # g, cpu'[f].proc = cpu'[g].proc
               PROVE  cpu'[g].proc = None
    BY DEF ApartInv
  <2>1. CASE f = h \/ g = h
    BY <1>1, <1>2, <2>1
  <2>2. CASE f # h /\ g # h
    BY <1>1, <2>2 DEF ApartInv
  <2> QED BY <2>1, <2>2
<1> QED BY <1>1, <1>5, <1>6, <1>7 DEF Steps, Local

\* A step of nobody.
LEMMA IdleStep == ASSUME ControlInv, UNCHANGED <<cpu, proc, lk, panic>> PROVE ControlInv'
  BY DEF ControlInv, Control, HartsInv, ProcsInv, OwnersInv, ApartInv

-----------------------------------------------------------------------------
(* Steps of a process.                                                     *)

LEMMA Points ==
  /\ \A a \in Ats : AtLocks(a) \subseteq Locks
  /\ \A l \in Pcs : PcLocks(l) \subseteq Locks
  /\ "none" \notin Locks
  BY DEF AtLocks, PcLocks, Locks, Ats, Pcs

\* A hart that executes a process's code has that process's locks, and its depth.
LEMMA Executing ==
  ASSUME ControlInv, NEW h \in Harts, NEW p \in Procs, NEW l, Executes(h, p, l)
  PROVE  /\ cpu[h] \in CpuRec /\ proc[p] \in ProcRec /\ proc[p].pc = l /\ proc[p].state = "RUNNING"
         /\ cpu[h].proc = p /\ p # None /\ cpu[h].at = "none" /\ cpu[h].want = "none"
         /\ Needs(cpu[h], proc) = PcLocks(l)
         /\ cpu[h].noff = IF PcLocks(l) = {} THEN 0 ELSE 1
         /\ cpu[h].intr <=> PcLocks(l) = {}
         /\ cpu[h].intena <=> PcLocks(l) # {}
         /\ \A k \in Locks : lk[k] = h <=> k \in PcLocks(l)
<1>1. cpu[h] \in CpuRec /\ proc[p] \in ProcRec
  BY DEF ControlInv, Control
<1>2. p # None
  BY ConsoleAssumption
<1>3. proc[p].pc = l /\ cpu[h].proc = p /\ cpu[h].at = "none" /\ cpu[h].want = "none"
  BY DEF Executes
<1>4. AtLocks("none") = {}
  BY DEF AtLocks
<1>5. Needs(cpu[h], proc) = PcLocks(l)
  BY <1>2, <1>3, <1>4 DEF Needs, PcOn
<1>6. HartOK(cpu[h], proc)
  BY DEF ControlInv, HartsInv
<1>7. proc[p].state = "RUNNING"
  BY <1>2, <1>3, <1>6 DEF HartOK
<1>8. cpu[h].noff = IF PcLocks(l) = {} THEN 0 ELSE 1
  BY <1>3, <1>5, <1>6 DEF HartOK
<1>9. cpu[h].intr <=> PcLocks(l) = {}
  BY <1>3, <1>6, <1>8 DEF HartOK
<1>10. cpu[h].intena <=> PcLocks(l) # {}
  BY <1>3, <1>6, <1>8 DEF HartOK
<1>11. \A k \in Locks : lk[k] = h <=> k \in PcLocks(l)
  BY <1>3, <1>5, Points DEF ControlInv, OwnersInv
<1> QED BY <1>1, <1>2, <1>3, <1>5, <1>7, <1>8, <1>9, <1>10, <1>11

\* What becomes of the processes: p goes on as q, the others stay.
Becomes(p, q) == proc' = [proc EXCEPT ![p] = q]
LEMMA BecomesStep ==
  ASSUME ControlInv, NEW h \in Harts, NEW p \in Procs, NEW q \in ProcRec, Becomes(p, q), ProcOK(q),
         cpu[h].proc = p \/ proc[p].state # "RUNNING"
  PROVE  /\ proc' \in [Procs -> ProcRec] /\ proc'[p] = q /\ ProcsInv' /\ OthersStay(h)
         /\ \A r \in Procs : r # p => proc'[r] = proc[r]
<1>1. proc' \in [Procs -> ProcRec] /\ proc'[p] = q /\ \A r \in Procs : r # p => proc'[r] = proc[r]
  BY DEF ControlInv, Control, Becomes
<1>2. ProcsInv'
  BY <1>1 DEF ControlInv, ProcsInv
<1>3. OthersStay(h)
  BY <1>1 DEF OthersStay
<1> QED BY <1>1, <1>2, <1>3

LEMMA ControlPrime ==
  ASSUME ControlInv, NEW h \in Harts, NEW x \in CpuRec, Goes(h, x),
         proc' \in [Procs -> ProcRec], lk' \in [Locks -> Harts \cup {None}]
  PROVE  Control'
  BY DEF ControlInv, Control, Goes

\* p goes for lock l.
LEMMA AcquireStep ==
  ASSUME ControlInv, NEW h \in Harts, NEW p \in Procs, NEW a \in Pcs, Executes(h, p, a), PcLocks(a) = {},
         NEW l \in Locks, NEW d \in Pcs, PcLocks(d) = {l}, NEW q \in ProcRec,
         q.state = proc[p].state, q.chan = proc[p].chan, q.intena = proc[p].intena,
         q.trapped = proc[p].trapped, AcquireIn(h, p, l, d, q)
  PROVE  Steps(h)
<1>1. /\ cpu[h] \in CpuRec /\ proc[p] \in ProcRec /\ proc[p].state = "RUNNING"
      /\ cpu[h].proc = p /\ p # None /\ cpu[h].at = "none" /\ cpu[h].want = "none"
      /\ cpu[h].noff = 0 /\ cpu[h].intr /\ ~ cpu[h].intena /\ \A k \in Locks : lk[k] # h
  BY Executing
<1>2. PICK x : x = acquire(cpu[h], l)
  OBVIOUS
<1>3. /\ x \in CpuRec /\ x.want = l /\ x.proc = p /\ x.at = "none"
      /\ ~ x.intr /\ x.noff = 1 /\ x.intena
  BY <1>1, <1>2, AcquireAt
<1>4. PICK r : r = [q EXCEPT !.pc = d]
  OBVIOUS
<1>5. /\ r \in ProcRec /\ r.pc = d /\ r.state = proc[p].state /\ r.chan = proc[p].chan
      /\ r.intena = proc[p].intena /\ r.trapped = proc[p].trapped
  BY <1>4 DEF ProcRec
<1>6. ProcOK(r)
  <2>1. ProcOK(proc[p])
    BY DEF ControlInv, ProcsInv
  <2> QED BY <1>1, <1>5, <2>1 DEF ProcOK
<1>7. Goes(h, x) /\ Becomes(p, r) /\ lk' = lk /\ ~ panic'
  BY <1>1, <1>2, <1>4 DEF AcquireIn, Goes, Becomes, ControlInv
<1>8. /\ proc' \in [Procs -> ProcRec] /\ proc'[p] = r /\ ProcsInv' /\ OthersStay(h)
  BY <1>1, <1>5, <1>6, <1>7, BecomesStep
<1>9. PcOn(x, proc') = d /\ Needs(x, proc') = {l}
  BY <1>1, <1>3, <1>5, <1>8 DEF PcOn, Needs, AtLocks
<1>10. HartOK(x, proc')
  BY <1>1, <1>3, <1>5, <1>8, <1>9 DEF HartOK
<1>11. LocksOf(h, x)
  BY <1>1, <1>3, <1>7, <1>9 DEF LocksOf
<1>12. NoTheft(h, x)
  BY <1>1, <1>3 DEF NoTheft
<1>13. Control'
  BY <1>3, <1>7, <1>8, ControlPrime DEF ControlInv, Control
<1> QED BY <1>3, <1>7, <1>8, <1>10, <1>11, <1>12, <1>13, HartStep

\* Locks given up are free.
LEMMA ReleasedIs ==
  ASSUME ControlInv, NEW l \in Locks
  PROVE  /\ Released(l) \in [Locks -> Harts \cup {None}]
         /\ \A k \in Locks : Released(l)[k] = IF k = l THEN None ELSE lk[k]
  BY DEF ControlInv, Control, Released

\* p releases l and returns.
LEMMA ReturnStep ==
  ASSUME ControlInv, NEW h \in Harts, NEW p \in Procs, NEW a \in Pcs, Executes(h, p, a),
         NEW l \in Locks, PcLocks(a) = {l}, ReturnFrom(h, p, l), panic' = panic
  PROVE  Steps(h)
<1>1. /\ cpu[h] \in CpuRec /\ proc[p] \in ProcRec /\ proc[p].state = "RUNNING"
      /\ cpu[h].proc = p /\ p # None /\ cpu[h].at = "none" /\ cpu[h].want = "none"
      /\ cpu[h].noff = 1 /\ ~ cpu[h].intr /\ cpu[h].intena /\ \A k \in Locks : lk[k] = h <=> k = l
  BY Executing
<1>2. PICK x : x = pop_off(cpu[h])
  OBVIOUS
<1>3. /\ x \in CpuRec /\ x.want = "none" /\ x.proc = p /\ x.at = "none"
      /\ x.intr /\ x.noff = 0 /\ ~ x.intena
  BY <1>1, <1>2, PopOffAt
<1>4. PICK r : r = [proc[p] EXCEPT !.pc = "user", !.n = 0, !.got = 0]
  OBVIOUS
<1>5. /\ r \in ProcRec /\ r.pc = "user" /\ r.state = proc[p].state /\ r.chan = proc[p].chan
      /\ r.intena = proc[p].intena /\ r.trapped = proc[p].trapped
  BY <1>1, <1>4 DEF ProcRec, Pcs
<1>6. ProcOK(r)
  <2>1. ProcOK(proc[p])
    BY DEF ControlInv, ProcsInv
  <2> QED BY <1>1, <1>5, <2>1 DEF ProcOK
<1>7. Goes(h, x) /\ Becomes(p, r) /\ lk' = Released(l) /\ ~ panic'
  BY <1>2, <1>4 DEF ReturnFrom, Goes, Becomes, ControlInv
<1>8. /\ proc' \in [Procs -> ProcRec] /\ proc'[p] = r /\ ProcsInv' /\ OthersStay(h)
  BY <1>1, <1>5, <1>6, <1>7, BecomesStep
<1>9. Needs(x, proc') = {}
  BY <1>1, <1>3, <1>5, <1>8 DEF PcOn, Needs, AtLocks, PcLocks
<1>10. HartOK(x, proc')
  BY <1>1, <1>3, <1>5, <1>8, <1>9 DEF HartOK
<1>11. LocksOf(h, x)
  <2>1. None # h
    BY ConsoleAssumption
  <2> QED BY <1>1, <1>3, <1>7, <1>9, <2>1, ReleasedIs DEF LocksOf
<1>12. NoTheft(h, x)
  BY <1>1, <1>3 DEF NoTheft
<1>13. Control'
  BY <1>3, <1>7, <1>8, ControlPrime, ReleasedIs
<1> QED BY <1>3, <1>7, <1>8, <1>10, <1>11, <1>12, <1>13, HartStep

\* p sleeps: the check of sched() does not fail.
LEMMA SleepStep ==
  ASSUME ControlInv, NEW h \in Harts, NEW p \in Procs, NEW a \in Pcs, Executes(h, p, a),
         NEW l \in Locks, PcLocks(a) = {l}, NEW d \in Pcs, PcLocks(d) = {},
         NEW ch \in Chans, ch # "none", sleep(h, p, ch, l, d)
  PROVE  Steps(h)
<1>1. /\ cpu[h] \in CpuRec /\ proc[p] \in ProcRec /\ proc[p].state = "RUNNING"
      /\ cpu[h].proc = p /\ p # None /\ cpu[h].at = "none" /\ cpu[h].want = "none"
      /\ cpu[h].noff = 1 /\ ~ cpu[h].intr /\ cpu[h].intena /\ \A k \in Locks : lk[k] = h <=> k = l
  BY Executing
<1>2. PICK y : y = push_off(cpu[h])
  OBVIOUS
<1>3. /\ y \in CpuRec /\ y.want = "none" /\ y.proc = p /\ y.at = "none"
      /\ ~ y.intr /\ y.noff = 2 /\ y.intena
  BY <1>1, <1>2, PushOffAt
<1>4. PICK z : z = pop_off(y)
  OBVIOUS
<1>5. /\ z \in CpuRec /\ z.want = "none" /\ ~ z.intr /\ z.noff = 1 /\ z.intena
  BY <1>3, <1>4, PopOffAt
<1>6. PICK x : x = ToScheduler(z)
  OBVIOUS
<1>7. /\ x \in CpuRec /\ x.intr = TRUE /\ x.noff = 0 /\ x.intena = FALSE /\ x.want = "none"
      /\ x.proc = None /\ x.at = "none"
  BY <1>5, <1>6, Scheduled
<1>8. PICK r : r = [proc[p] EXCEPT !.state = "SLEEPING", !.chan = ch, !.pc = d, !.intena = z.intena]
  OBVIOUS
<1>9. /\ r \in ProcRec /\ r.pc = d /\ r.state = "SLEEPING" /\ r.chan = ch
      /\ r.intena /\ r.trapped = proc[p].trapped
  <2>1. z.intena \in BOOLEAN
    BY <1>5 DEF CpuRec
  <2> QED BY <1>1, <1>5, <1>8, <2>1 DEF ProcRec
<1>10. ProcOK(r)
  <2>1. ProcOK(proc[p])
    BY DEF ControlInv, ProcsInv
  <2> QED BY <1>1, <1>9, <2>1 DEF ProcOK
<1>11. Goes(h, x) /\ Becomes(p, r) /\ lk' = Released(l)
  BY <1>2, <1>4, <1>6, <1>8 DEF sleep, Goes, Becomes
<1>12. ~ panic'
  BY <1>2, <1>4, <1>5 DEF sleep, ControlInv
<1>13. /\ proc' \in [Procs -> ProcRec] /\ proc'[p] = r /\ ProcsInv' /\ OthersStay(h)
  BY <1>1, <1>9, <1>10, <1>11, BecomesStep
<1>14. Needs(x, proc') = {}
  BY <1>7 DEF PcOn, Needs, AtLocks, PcLocks
<1>15. HartOK(x, proc')
  BY <1>7, <1>14 DEF HartOK
<1>16. LocksOf(h, x)
  <2>1. None # h
    BY ConsoleAssumption
  <2> QED BY <1>1, <1>11, <1>14, <2>1, ReleasedIs DEF LocksOf
<1>17. NoTheft(h, x)
  BY <1>7 DEF NoTheft
<1>18. Control'
  BY <1>7, <1>11, <1>13, ControlPrime, ReleasedIs
<1> QED BY <1>7, <1>11, <1>12, <1>13, <1>15, <1>16, <1>17, <1>18, HartStep

-----------------------------------------------------------------------------
(* The rest of the processes' steps, and those of the harts.               *)

\* The processes P in the place of proc: those that run go on where they are.
Quiet(P) ==
  /\ P \in [Procs -> ProcRec] /\ \A p \in Procs : ProcOK(P[p])
  /\ \A p \in Procs : proc[p].state = "RUNNING" => P[p].state = "RUNNING" /\ P[p].pc = proc[p].pc

LEMMA WakeupQuiet == ASSUME ControlInv, NEW ch \in Chans, ch # "none" PROVE Quiet(Wakeup(ch))
<1>1. ASSUME NEW p \in Procs, NEW P, P = Wakeup(ch)
      PROVE  /\ P[p] \in ProcRec /\ ProcOK(P[p])
             /\ proc[p].state = "RUNNING" => P[p].state = "RUNNING" /\ P[p].pc = proc[p].pc
  <2>1. proc[p] \in ProcRec /\ ProcOK(proc[p])
    BY DEF ControlInv, Control, ProcsInv
  <2>2. CASE proc[p].chan = ch
    <3>1. P[p] = [proc[p] EXCEPT !.state = "RUNNABLE", !.chan = "none"]
      BY <1>1, <2>2 DEF Wakeup
    <3>2. PICK r : r = P[p]
      OBVIOUS
    <3>3. /\ r \in ProcRec /\ r.state = "RUNNABLE" /\ r.chan = "none" /\ r.pc = proc[p].pc
          /\ r.intena = proc[p].intena /\ r.trapped = proc[p].trapped
      BY <2>1, <3>1, <3>2 DEF ProcRec, Chans
    <3>4. proc[p].state = "SLEEPING"
      BY <2>1, <2>2 DEF ProcOK
    <3>5. ProcOK(r)
      BY <2>1, <3>3, <3>4 DEF ProcOK
    <3> QED BY <3>2, <3>3, <3>4, <3>5
  <2>3. CASE proc[p].chan # ch
    BY <1>1, <2>1, <2>3 DEF Wakeup
  <2> QED BY <2>2, <2>3
<1>2. Wakeup(ch) \in [Procs -> ProcRec]
  <2>1. \A p \in Procs : Wakeup(ch)[p] \in ProcRec
    BY <1>1
  <2>2. PICK P : P = Wakeup(ch)
    OBVIOUS
  <2>3. P = [p \in Procs |-> P[p]]
    BY <2>2 DEF Wakeup
  <2> QED BY <2>1, <2>2, <2>3
<1> QED BY <1>1, <1>2 DEF Quiet

LEMMA ProcQuiet == ASSUME ControlInv PROVE Quiet(proc)
  BY DEF ControlInv, Control, ProcsInv, Quiet

\* Only processes change, and no locks with them.
LEMMA StayStep ==
  ASSUME ControlInv, NEW h \in Harts, UNCHANGED <<cpu, lk, panic>>, proc' \in [Procs -> ProcRec], ProcsInv',
         OthersStay(h),
         cpu[h].proc # None => /\ proc'[cpu[h].proc].state = "RUNNING"
                               /\ PcLocks(proc'[cpu[h].proc].pc) = PcLocks(proc[cpu[h].proc].pc)
  PROVE  Steps(h)
<1>1. PICK x : x = cpu[h]
  OBVIOUS
<1>2. x \in CpuRec /\ cpu \in [Harts -> CpuRec] /\ lk \in [Locks -> Harts \cup {None}]
  BY <1>1 DEF ControlInv, Control
<1>3. Goes(h, x)
  BY <1>1, <1>2 DEF Goes
<1>4. PcLocks(PcOn(x, proc')) = PcLocks(PcOn(x, proc))
  BY <1>1 DEF PcOn
<1>5. Needs(x, proc') = Needs(x, proc)
  BY <1>4 DEF Needs
<1>6. HartOK(x, proc)
  BY <1>1 DEF ControlInv, HartsInv
<1>7. HartOK(x, proc')
  BY <1>1, <1>4, <1>5, <1>6 DEF HartOK
<1>8. None # h
  BY ConsoleAssumption
<1>9. LocksOf(h, x)
  BY <1>1, <1>2, <1>5, <1>8 DEF LocksOf, ControlInv, OwnersInv
<1>10. NoTheft(h, x) /\ Control' /\ ~ panic'
  BY <1>1, <1>2 DEF NoTheft, ControlInv, Control
<1> QED BY <1>2, <1>3, <1>7, <1>9, <1>10, HartStep

\* Only processes that sleep change.
LEMMA QuietStep ==
  ASSUME ControlInv, NEW h \in Harts, UNCHANGED <<cpu, lk, panic>>, Quiet(proc')
  PROVE  Steps(h)
<1>1. cpu[h] \in CpuRec /\ HartOK(cpu[h], proc)
  BY DEF ControlInv, Control, HartsInv
<1>2. cpu[h].proc # None => cpu[h].proc \in Procs /\ proc[cpu[h].proc].state = "RUNNING"
  BY <1>1 DEF HartOK, CpuRec
<1>3. OthersStay(h)
  BY DEF Quiet, OthersStay
<1>4. ProcsInv' /\ proc' \in [Procs -> ProcRec]
  BY DEF Quiet, ProcsInv
<1>5. cpu[h].proc # None => /\ proc'[cpu[h].proc].state = "RUNNING"
                            /\ PcLocks(proc'[cpu[h].proc].pc) = PcLocks(proc[cpu[h].proc].pc)
  BY <1>2 DEF Quiet
<1> QED BY <1>3, <1>4, <1>5, StayStep

\* p goes on with its call, holding the same locks.
LEMMA GoOnStep ==
  ASSUME ControlInv, NEW h \in Harts, NEW p \in Procs, NEW a \in Pcs, Executes(h, p, a), NEW q \in ProcRec,
         Becomes(p, q), PcLocks(q.pc) = PcLocks(a), q.state = proc[p].state, q.chan = proc[p].chan,
         q.intena = proc[p].intena, q.trapped = proc[p].trapped, UNCHANGED <<cpu, lk, panic>>
  PROVE  Steps(h)
<1>1. proc[p].pc = a /\ proc[p].state = "RUNNING" /\ cpu[h].proc = p /\ p # None
  BY Executing
<1>2. ProcOK(q)
  <2>1. ProcOK(proc[p])
    BY DEF ControlInv, ProcsInv
  <2> QED BY <1>1, <2>1 DEF ProcOK
<1>3. proc' \in [Procs -> ProcRec] /\ proc'[p] = q /\ ProcsInv' /\ OthersStay(h)
  BY <1>1, <1>2, BecomesStep
<1> QED BY <1>1, <1>3, StayStep

LEMMA ExitStep ==
  ASSUME ControlInv, NEW h \in Harts, NEW p \in Procs, exit(h, p)
  PROVE  Steps(h)
<1>0. Executes(h, p, "user") /\ PcLocks("user") = {}
  BY DEF exit, PcLocks
<1>1. /\ cpu[h] \in CpuRec /\ proc[p] \in ProcRec /\ proc[p].state = "RUNNING" /\ proc[p].pc = "user"
      /\ cpu[h].proc = p /\ p # None /\ cpu[h].want = "none" /\ \A k \in Locks : lk[k] # h
  BY <1>0, Executing
<1>2. PICK x : x = ToScheduler(cpu[h])
  OBVIOUS
<1>3. /\ x \in CpuRec /\ x.intr = TRUE /\ x.noff = 0 /\ x.intena = FALSE /\ x.want = "none"
      /\ x.proc = None /\ x.at = "none"
  BY <1>1, <1>2, Scheduled
<1>4. PICK r : r = [proc[p] EXCEPT !.state = "ZOMBIE"]
  OBVIOUS
<1>5. /\ r \in ProcRec /\ r.pc = "user" /\ r.state = "ZOMBIE" /\ r.chan = proc[p].chan
      /\ r.intena = proc[p].intena /\ r.trapped = proc[p].trapped
  BY <1>1, <1>4 DEF ProcRec
<1>6. ProcOK(r)
  <2>1. ProcOK(proc[p])
    BY DEF ControlInv, ProcsInv
  <2> QED BY <1>0, <1>1, <1>5, <2>1 DEF ProcOK
<1>7. Goes(h, x) /\ Becomes(p, r) /\ lk' = lk /\ ~ panic'
  BY <1>2, <1>4 DEF exit, Goes, Becomes, ControlInv
<1>8. proc' \in [Procs -> ProcRec] /\ ProcsInv' /\ OthersStay(h)
  BY <1>1, <1>5, <1>6, <1>7, BecomesStep
<1>9. Needs(x, proc') = {}
  BY <1>3 DEF PcOn, Needs, AtLocks, PcLocks
<1>10. HartOK(x, proc')
  BY <1>3, <1>9 DEF HartOK
<1>11. LocksOf(h, x) /\ NoTheft(h, x)
  BY <1>1, <1>3, <1>7, <1>9 DEF LocksOf, NoTheft
<1>12. Control'
  BY <1>3, <1>7, <1>8, ControlPrime DEF ControlInv, Control
<1> QED BY <1>3, <1>7, <1>8, <1>10, <1>11, <1>12, HartStep

LEMMA SchedulerStep ==
  ASSUME ControlInv, NEW h \in Harts, NEW p \in Procs, scheduler(h, p)
  PROVE  Steps(h)
<1>1. /\ cpu[h].proc = None /\ cpu[h].at = "none" /\ cpu[h].want = "none" /\ proc[p].state = "RUNNABLE"
      /\ cpu[h] \in CpuRec /\ proc[p] \in ProcRec /\ HartOK(cpu[h], proc) /\ ProcOK(proc[p]) /\ p # None
  BY ConsoleAssumption DEF scheduler, ControlInv, Control, HartsInv, ProcsInv
<1>2. Needs(cpu[h], proc) = {} /\ PcLocks(proc[p].pc) = {}
  BY <1>1 DEF Needs, PcOn, AtLocks, PcLocks, ProcOK
<1>3. cpu[h].noff = 0 /\ cpu[h].intr /\ ~ cpu[h].intena /\ \A k \in Locks : lk[k] # h
  <2>1. cpu[h].noff = 0
    BY <1>1, <1>2 DEF HartOK
  <2>2. cpu[h].intr /\ ~ cpu[h].intena
    BY <1>1, <2>1 DEF HartOK
  <2> QED BY <1>2, <2>1, <2>2 DEF ControlInv, OwnersInv
<1>4. PICK y : y = push_off(cpu[h])
  OBVIOUS
<1>5. y \in CpuRec /\ y.want = "none" /\ ~ y.intr /\ y.noff = 1
  BY <1>1, <1>3, <1>4, PushOffAt
<1>6. PICK a : a = IF proc[p].trapped THEN "iret" ELSE "none"
  OBVIOUS
<1>7. PICK z : z = [y EXCEPT !.intena = proc[p].intena, !.proc = p, !.at = a]
  OBVIOUS
<1>8. z \in CpuRec /\ z.want = "none" /\ ~ z.intr /\ z.noff = 1 /\ z.intena = proc[p].intena /\ z.proc = p /\ z.at = a
  BY <1>1, <1>5, <1>6, <1>7 DEF CpuRec, ProcRec, Ats
<1>9. PICK x : x = pop_off(z)
  OBVIOUS
<1>10. /\ x \in CpuRec /\ x.want = "none" /\ x.proc = p /\ x.at = a
       /\ x.noff = 0 /\ (x.intr <=> proc[p].intena) /\ ~ x.intena
  BY <1>8, <1>9, PopOffAt
<1>11. PICK r : r = [proc[p] EXCEPT !.state = "RUNNING", !.trapped = FALSE, !.intena = TRUE]
  OBVIOUS
<1>12. /\ r \in ProcRec /\ r.state = "RUNNING" /\ r.trapped = FALSE /\ r.intena = TRUE /\ r.pc = proc[p].pc
       /\ r.chan = proc[p].chan
  BY <1>1, <1>11 DEF ProcRec
<1>13. ProcOK(r)
  BY <1>1, <1>12 DEF ProcOK
<1>14. Goes(h, x)
  <2>1. x = pop_off([push_off(cpu[h]) EXCEPT !.intena = proc[p].intena, !.proc = p,
                                         !.at = IF proc[p].trapped THEN "iret" ELSE "none"])
    BY <1>4, <1>6, <1>7, <1>9
  <2> QED BY <2>1, Zenon DEF scheduler, Goes
<1>15. Becomes(p, r) /\ lk' = lk /\ ~ panic'
  BY <1>11 DEF scheduler, Becomes, ControlInv
<1>16. proc' \in [Procs -> ProcRec] /\ ProcsInv' /\ OthersStay(h) /\ proc'[p] = r
  BY <1>1, <1>12, <1>13, <1>15, BecomesStep
<1>17. PcOn(x, proc') = proc[p].pc
  BY <1>1, <1>10, <1>12, <1>16 DEF PcOn
<1>18. Needs(x, proc') = {}
  BY <1>2, <1>6, <1>10, <1>17 DEF Needs, AtLocks
<1>19. x.intr <=> x.at = "none"
  BY <1>1, <1>6, <1>10 DEF ProcOK
<1>20. HartOK(x, proc')
  <2>1. x.at # "printf"
    BY <1>6, <1>10
  <2> QED BY <1>1, <1>2, <1>10, <1>12, <1>16, <1>17, <1>18, <1>19, <2>1 DEF HartOK
<1>21. LocksOf(h, x) /\ NoTheft(h, x)
  BY <1>1, <1>3, <1>10, <1>15, <1>18 DEF LocksOf, NoTheft
<1>22. Control'
  BY <1>10, <1>14, <1>15, <1>16, ControlPrime DEF ControlInv, Control
<1> QED BY <1>10, <1>14, <1>15, <1>16, <1>20, <1>21, <1>22, HartStep

LEMMA SpinStep == ASSUME ControlInv, NEW h \in Harts, spin(h) PROVE Steps(h)
<1>1. PICK l : l = cpu[h].want
  OBVIOUS
<1>2. /\ cpu[h] \in CpuRec /\ HartOK(cpu[h], proc) /\ l # "none" /\ lk[l] = None
      /\ lk' = [lk EXCEPT ![l] = h] /\ proc' = proc /\ panic' = panic
  BY <1>1 DEF spin, ControlInv, Control, HartsInv
<1>3. l \in Locks /\ l \in Needs(cpu[h], proc)
  BY <1>1, <1>2 DEF CpuRec, HartOK
<1>4. PICK x : x = [cpu[h] EXCEPT !.want = "none"]
  OBVIOUS
<1>5. /\ x \in CpuRec /\ x.want = "none" /\ x.intr = cpu[h].intr /\ x.intena = cpu[h].intena
      /\ x.noff = cpu[h].noff /\ x.proc = cpu[h].proc /\ x.at = cpu[h].at
  BY <1>2, <1>4 DEF CpuRec
<1>6. Goes(h, x)
  BY <1>4 DEF spin, Goes
<1>7. Needs(x, proc') = Needs(cpu[h], proc) /\ PcOn(x, proc') = PcOn(cpu[h], proc)
  BY <1>2, <1>5 DEF Needs, PcOn
<1>8. HartOK(x, proc')
  BY <1>2, <1>5, <1>7 DEF HartOK
<1>9. lk \in [Locks -> Harts \cup {None}]
  BY DEF ControlInv, Control
<1>10. None # h /\ \A k \in Locks : k # "none" /\ (lk[k] = h <=> k \in Needs(cpu[h], proc) /\ cpu[h].want # k)
  BY ConsoleAssumption, Points DEF ControlInv, OwnersInv
<1>11. LocksOf(h, x)
  BY <1>1, <1>2, <1>3, <1>5, <1>7, <1>9, <1>10 DEF LocksOf
<1>12. NoTheft(h, x) /\ ProcsInv' /\ OthersStay(h) /\ ~ panic'
  BY <1>2, <1>5 DEF NoTheft, ProcsInv, OthersStay, ControlInv
<1>13. Control'
  BY <1>2, <1>3, <1>5, <1>6, <1>9, ControlPrime DEF ControlInv, Control
<1> QED BY <1>5, <1>6, <1>8, <1>11, <1>12, <1>13, HartStep

-----------------------------------------------------------------------------
(* Steps of a handler.                                                     *)

\* A hart in a handler has the handler's locks, and no others.
LEMMA Handling ==
  ASSUME ControlInv, NEW h \in Harts, NEW a \in Ats, a # "none", Handles(h, a)
  PROVE  /\ cpu[h] \in CpuRec /\ cpu[h].at = a /\ cpu[h].want = "none" /\ ~ cpu[h].intr /\ ~ cpu[h].intena
         /\ PcLocks(PcOn(cpu[h], proc)) = {}
         /\ cpu[h].noff = IF a = "printf" THEN 2 ELSE IF AtLocks(a) = {} THEN 0 ELSE 1
         /\ \A k \in Locks : lk[k] = h <=> k \in AtLocks(a)
<1>1. cpu[h] \in CpuRec /\ HartOK(cpu[h], proc) /\ cpu[h].at = a /\ cpu[h].want = "none"
  BY DEF Handles, ControlInv, Control, HartsInv
<1>2. PcLocks(PcOn(cpu[h], proc)) = {}
  BY <1>1 DEF HartOK
<1>3. Needs(cpu[h], proc) = AtLocks(a)
  BY <1>1, <1>2 DEF Needs
<1>4. ~ cpu[h].intr /\ ~ cpu[h].intena
  BY <1>1 DEF HartOK
<1>5. cpu[h].noff = IF a = "printf" THEN 2 ELSE IF AtLocks(a) = {} THEN 0 ELSE 1
  BY <1>1, <1>3 DEF HartOK
<1>6. \A k \in Locks : lk[k] = h <=> k \in AtLocks(a)
  BY <1>1, <1>3, Points DEF ControlInv, OwnersInv
<1> QED BY <1>1, <1>2, <1>4, <1>5, <1>6

\* A hart that takes an interrupt has no locks.
LEMMA Interrupting ==
  ASSUME ControlInv, NEW h \in Harts, Interruptible(h)
  PROVE  /\ cpu[h] \in CpuRec /\ cpu[h].at = "none" /\ cpu[h].want = "none" /\ cpu[h].intr /\ ~ cpu[h].intena
         /\ PcLocks(PcOn(cpu[h], proc)) = {} /\ cpu[h].noff = 0
         /\ \A k \in Locks : lk[k] # h
<1>1. cpu[h] \in CpuRec /\ HartOK(cpu[h], proc) /\ cpu[h].at = "none" /\ cpu[h].want = "none" /\ cpu[h].intr
  BY DEF Interruptible, ControlInv, Control, HartsInv
<1>2. cpu[h].noff = 0 /\ ~ cpu[h].intena
  BY <1>1 DEF HartOK
<1>3. Needs(cpu[h], proc) = {}
  BY <1>1, <1>2 DEF HartOK
<1>4. PcLocks(PcOn(cpu[h], proc)) = {}
  BY <1>3 DEF Needs
<1>5. \A k \in Locks : lk[k] # h
  BY <1>3 DEF ControlInv, OwnersInv
<1> QED BY <1>1, <1>2, <1>4, <1>5

\* The locks of hart h are those of a handler at a, but for w.
HandlerLocks(h, a, w) ==
  /\ lk' \in [Locks -> Harts \cup {None}]
  /\ \A l \in Locks :
       /\ lk'[l] = h <=> l \in AtLocks(a) /\ w # l
       /\ lk'[l] = h => lk[l] \in {h, None}
       /\ lk'[l] # h => lk'[l] = IF lk[l] = h THEN None ELSE lk[l]

LEMMA HandlerStep ==
  ASSUME ControlInv, NEW h \in Harts, NEW x \in CpuRec, Goes(h, x), Quiet(proc'), x.proc = cpu[h].proc,
         PcLocks(PcOn(cpu[h], proc)) = {},
         x.noff = IF x.at = "printf" THEN 2 ELSE IF AtLocks(x.at) = {} THEN 0 ELSE 1,
         x.intr <=> x.at = "none", ~ x.intena,
         x.want \in AtLocks(x.at) \cup {"none"}, x.at = "printf" => x.want # "cons",
         HandlerLocks(h, x.at, x.want), ~ panic'
  PROVE  Steps(h)
<1>1. HartOK(cpu[h], proc) /\ cpu[h].proc \in Procs \cup {None}
  BY DEF ControlInv, Control, HartsInv, CpuRec
<1>2. x.proc # None => /\ proc[x.proc].state = "RUNNING" /\ proc'[x.proc].state = "RUNNING"
                       /\ proc'[x.proc].pc = proc[x.proc].pc
  BY <1>1 DEF HartOK, Quiet
<1>3. PcLocks(PcOn(x, proc')) = {}
  BY <1>2 DEF PcOn
<1>4. Needs(x, proc') = AtLocks(x.at)
  BY <1>3 DEF Needs
<1>5. AtLocks("none") = {}
  BY DEF AtLocks
<1>6. x.at = "none" => x.noff = 0
  BY <1>5
<1>7. HartOK(x, proc')
  BY <1>2, <1>3, <1>4, <1>6 DEF HartOK
<1>8. LocksOf(h, x)
  BY <1>4 DEF LocksOf, HandlerLocks
<1>9. NoTheft(h, x)
  BY DEF NoTheft
<1>10. proc' \in [Procs -> ProcRec] /\ ProcsInv' /\ OthersStay(h)
  BY DEF Quiet, ProcsInv, OthersStay
<1>11. Control'
  BY <1>10, ControlPrime DEF HandlerLocks
<1> QED BY <1>7, <1>8, <1>9, <1>10, <1>11, HartStep

LEMMA DevintrStep == ASSUME ControlInv, NEW h \in Harts, devintr(h) PROVE Steps(h)
<1>1. /\ cpu[h] \in CpuRec /\ cpu[h].at = "none" /\ cpu[h].want = "none" /\ cpu[h].intr /\ ~ cpu[h].intena
      /\ PcLocks(PcOn(cpu[h], proc)) = {} /\ cpu[h].noff = 0 /\ \A k \in Locks : lk[k] # h
  BY Interrupting DEF devintr
<1>2. PICK x : x = Trapped(cpu[h], "uartintr")
  OBVIOUS
<1>3. /\ x \in CpuRec /\ x.at = "uartintr" /\ x.want = "none" /\ x.intr = FALSE /\ x.intena = cpu[h].intena
      /\ x.noff = cpu[h].noff /\ x.proc = cpu[h].proc
  BY <1>1, <1>2 DEF Trapped, CpuRec, Ats
<1>4. Goes(h, x) /\ proc' = proc /\ lk' = lk /\ ~ panic' /\ lk \in [Locks -> Harts \cup {None}]
  BY <1>2 DEF devintr, Goes, ControlInv, Control
<1>5. Quiet(proc')
  BY <1>4, ProcQuiet
<1>6. AtLocks("uartintr") = {}
  BY DEF AtLocks
<1>7. HandlerLocks(h, x.at, x.want)
  BY <1>1, <1>3, <1>4, <1>6 DEF HandlerLocks
<1> QED BY <1>1, <1>3, <1>4, <1>5, <1>6, <1>7, HandlerStep

LEMMA KerneltrapStep == ASSUME ControlInv, NEW h \in Harts, kerneltrap_end(h) PROVE Steps(h)
<1>1. /\ cpu[h] \in CpuRec /\ cpu[h].at = "iret" /\ cpu[h].want = "none" /\ ~ cpu[h].intena
      /\ PcLocks(PcOn(cpu[h], proc)) = {} /\ cpu[h].noff = 0 /\ \A k \in Locks : lk[k] # h
  <2>1. AtLocks("iret") = {} /\ "iret" \in Ats /\ Handles(h, "iret")
    BY DEF AtLocks, Ats, kerneltrap_end
  <2> QED BY <2>1, Handling
<1>2. PICK x : x = Return(cpu[h])
  OBVIOUS
<1>3. /\ x \in CpuRec /\ x.at = "none" /\ x.want = "none" /\ x.intr = TRUE /\ x.intena = cpu[h].intena
      /\ x.noff = cpu[h].noff /\ x.proc = cpu[h].proc
  BY <1>1, <1>2 DEF Return, CpuRec, Ats
<1>4. Goes(h, x) /\ proc' = proc /\ lk' = lk /\ ~ panic' /\ lk \in [Locks -> Harts \cup {None}]
  BY <1>2 DEF kerneltrap_end, Goes, ControlInv, Control
<1>5. Quiet(proc')
  BY <1>4, ProcQuiet
<1>6. AtLocks("none") = {}
  BY DEF AtLocks
<1>7. HandlerLocks(h, x.at, x.want)
  BY <1>1, <1>3, <1>4, <1>6 DEF HandlerLocks
<1> QED BY <1>1, <1>3, <1>4, <1>5, <1>6, <1>7, HandlerStep

\* The handler goes for a lock.
LEMMA HandlerAcquiresStep ==
  ASSUME ControlInv, NEW h \in Harts, NEW a \in Ats, a # "none", Handles(h, a), NEW k \in Locks, k \notin AtLocks(a),
         NEW b \in Ats, b # "none", AtLocks(b) = AtLocks(a) \cup {k}, NEW c \in Characters,
         (a = "uartintr" /\ b # "printf") \/ (a = "consoleintr" /\ b = "printf" /\ k = "pr"),
         HandlerAcquires(h, k, b, c), lk' = lk, Quiet(proc')
  PROVE  Steps(h)
<1>1. /\ cpu[h] \in CpuRec /\ cpu[h].at = a /\ cpu[h].want = "none" /\ ~ cpu[h].intr /\ ~ cpu[h].intena
      /\ PcLocks(PcOn(cpu[h], proc)) = {}
      /\ cpu[h].noff = IF a = "printf" THEN 2 ELSE IF AtLocks(a) = {} THEN 0 ELSE 1
      /\ \A l \in Locks : lk[l] = h <=> l \in AtLocks(a)
  BY Handling
<1>2. AtLocks("uartintr") = {} /\ AtLocks("consoleintr") # {}
  BY DEF AtLocks
<1>3. PICK y : y = acquire(cpu[h], k)
  OBVIOUS
<1>4. /\ y \in CpuRec /\ y.want = k /\ y.proc = cpu[h].proc /\ ~ y.intr /\ ~ y.intena
      /\ y.noff = IF b = "printf" THEN 2 ELSE 1
  <2>1. CASE a = "uartintr"
    BY <1>1, <1>2, <1>3, <2>1, AcquireAt
  <2>2. CASE a = "consoleintr"
    BY <1>1, <1>2, <1>3, <2>2, AcquireAt
  <2> QED BY <2>1, <2>2
<1>5. PICK x : x = [y EXCEPT !.at = b, !.c = c]
  OBVIOUS
<1>6. /\ x \in CpuRec /\ x.at = b /\ x.want = k /\ x.proc = cpu[h].proc /\ x.intr = y.intr
      /\ x.intena = y.intena /\ x.noff = y.noff
  BY <1>4, <1>5 DEF CpuRec
<1>7. Goes(h, x) /\ lk[k] # h /\ ~ panic' /\ lk \in [Locks -> Harts \cup {None}]
  BY <1>1, <1>3, <1>5 DEF HandlerAcquires, Goes, ControlInv, Control
<1>8. HandlerLocks(h, x.at, x.want)
  BY <1>1, <1>6, <1>7 DEF HandlerLocks
<1>9. AtLocks(b) # {} /\ (x.at = "printf" => x.want # "cons") /\ x.want \in AtLocks(x.at) \cup {"none"}
  BY <1>6
<1> QED BY <1>1, <1>4, <1>6, <1>7, <1>8, <1>9, HandlerStep

\* The handler that has one lock releases it.
LEMMA HandlerReleasesStep ==
  ASSUME ControlInv, NEW h \in Harts, NEW a \in Ats, a \notin {"none", "printf"}, Handles(h, a), NEW k \in Locks,
         AtLocks(a) = {k}, NEW b \in Ats, b # "none", AtLocks(b) = {}, NEW y, y = pop_off(cpu[h]),
         NEW c \in Characters, NEW x, x = [y EXCEPT !.at = b, !.c = c], Goes(h, x), lk' = Released(k), Quiet(proc'), ~ panic'
  PROVE  Steps(h)
<1>1. /\ cpu[h] \in CpuRec /\ ~ cpu[h].intr /\ ~ cpu[h].intena /\ cpu[h].want = "none"
      /\ PcLocks(PcOn(cpu[h], proc)) = {} /\ cpu[h].noff = 1
      /\ \A l \in Locks : lk[l] = h <=> l = k
  BY Handling
<1>2. /\ y \in CpuRec /\ y.want = "none" /\ y.proc = cpu[h].proc /\ ~ y.intr /\ ~ y.intena /\ y.noff = 0
  BY <1>1, PopOffAt
<1>3. /\ x \in CpuRec /\ x.at = b /\ x.want = "none" /\ x.proc = cpu[h].proc /\ x.intr = y.intr
      /\ x.intena = y.intena /\ x.noff = y.noff
  BY <1>2 DEF CpuRec
<1>4. b # "printf"
  BY DEF AtLocks
<1>5. h # None
  BY ConsoleAssumption
<1>6. HandlerLocks(h, x.at, x.want)
  BY <1>1, <1>3, <1>5, ReleasedIs DEF HandlerLocks
<1> QED BY <1>1, <1>2, <1>3, <1>4, <1>6, HandlerStep

\* handler_printf(): two locks are released.
LEMMA PrintfStep == ASSUME ControlInv, NEW h \in Harts, handler_printf(h) PROVE Steps(h)
<1>1. /\ cpu[h] \in CpuRec /\ ~ cpu[h].intr /\ ~ cpu[h].intena /\ cpu[h].want = "none"
      /\ PcLocks(PcOn(cpu[h], proc)) = {} /\ cpu[h].noff = 2
      /\ \A l \in Locks : lk[l] = h <=> l \in {"cons", "pr"}
  <2>1. AtLocks("printf") = {"cons", "pr"} /\ "printf" \in Ats /\ Handles(h, "printf")
    BY DEF AtLocks, Ats, handler_printf
  <2> QED BY <2>1, Handling
<1>2. PICK z : z = pop_off(cpu[h])
  OBVIOUS
<1>3. z \in CpuRec /\ z.want = "none" /\ z.proc = cpu[h].proc /\ ~ z.intr /\ ~ z.intena /\ z.noff = 1
  BY <1>1, <1>2, PopOffAt
<1>4. PICK y : y = pop_off(z)
  OBVIOUS
<1>5. y \in CpuRec /\ y.want = "none" /\ y.proc = cpu[h].proc /\ ~ y.intr /\ ~ y.intena /\ y.noff = 0
  BY <1>3, <1>4, PopOffAt
<1>6. PICK c : c = ""
  OBVIOUS
<1>7. c \in Characters
  BY <1>6 DEF Characters
<1>8. PICK x : x = [y EXCEPT !.at = "uartintr", !.c = c]
  OBVIOUS
<1>9. /\ x \in CpuRec /\ x.at = "uartintr" /\ x.want = "none" /\ x.proc = cpu[h].proc /\ x.intr = y.intr
      /\ x.intena = y.intena /\ x.noff = y.noff
  BY <1>5, <1>7, <1>8 DEF CpuRec, Ats
<1>10. Goes(h, x) /\ proc' = proc /\ ~ panic'
  BY <1>2, <1>4, <1>6, <1>8 DEF handler_printf, Goes, ControlInv
<1>11. /\ lk' \in [Locks -> Harts \cup {None}]
       /\ \A k \in Locks : lk'[k] = IF k \in {"cons", "pr"} THEN None ELSE lk[k]
  BY DEF handler_printf, Released, ControlInv, Control, Locks
<1>12. AtLocks("uartintr") = {} /\ h # None
  BY ConsoleAssumption DEF AtLocks
<1>13. HandlerLocks(h, x.at, x.want)
  BY <1>1, <1>9, <1>11, <1>12 DEF HandlerLocks
<1>14. Quiet(proc')
  BY <1>10, ProcQuiet
<1> QED BY <1>1, <1>5, <1>9, <1>10, <1>12, <1>13, <1>14, HandlerStep

\* The end of the output handler.
LEMMA UartReturnStep ==
  ASSUME ControlInv, NEW h \in Harts, Handles(h, "uartstart"), lk' = Released("uart_tx"), NEW y, y = pop_off(cpu[h]),
         NEW x, x = Return(y), Goes(h, x), proc' = proc, panic' = panic
  PROVE  Steps(h)
<1>1. /\ cpu[h] \in CpuRec /\ ~ cpu[h].intr /\ ~ cpu[h].intena /\ cpu[h].want = "none"
      /\ PcLocks(PcOn(cpu[h], proc)) = {} /\ cpu[h].noff = 1
      /\ \A l \in Locks : lk[l] = h <=> l = "uart_tx"
  <2>1. AtLocks("uartstart") = {"uart_tx"} /\ "uartstart" \in Ats
    BY DEF AtLocks, Ats
  <2> QED BY <2>1, Handling
<1>2. y \in CpuRec /\ y.want = "none" /\ y.proc = cpu[h].proc /\ ~ y.intr /\ ~ y.intena /\ y.noff = 0
  BY <1>1, PopOffAt
<1>3. /\ x \in CpuRec /\ x.at = "none" /\ x.want = "none" /\ x.proc = cpu[h].proc /\ x.intr = TRUE
      /\ x.intena = y.intena /\ x.noff = y.noff
  BY <1>2 DEF Return, CpuRec, Ats
<1>4. AtLocks("none") = {} /\ h # None /\ "uart_tx" \in Locks
  BY ConsoleAssumption DEF AtLocks, Locks
<1>5. HandlerLocks(h, x.at, x.want)
  BY <1>1, <1>3, <1>4, ReleasedIs DEF HandlerLocks
<1>6. Quiet(proc') /\ ~ panic'
  BY ProcQuiet DEF ControlInv
<1> QED BY <1>1, <1>2, <1>3, <1>4, <1>5, <1>6, HandlerStep

\* The timer: yield() inside the handler.
LEMMA YieldStep ==
  ASSUME ControlInv, NEW h \in Harts, NEW x \in CpuRec, x.at = "clockintr", x.noff = 0, ~ x.intr, ~ x.intena,
         x.want = "none", x.proc = cpu[h].proc, PcLocks(PcOn(cpu[h], proc)) = {}, NEW P, Quiet(P),
         lk' \in [Locks -> Harts \cup {None}], \A l \in Locks : lk'[l] = IF lk[l] = h THEN None ELSE lk[l],
         Yield(h, x, P), ~ panic'
  PROVE  Steps(h)
<1>1. h # None /\ x.proc \in Procs \cup {None} /\ HartOK(cpu[h], proc)
  BY ConsoleAssumption DEF CpuRec, ControlInv, HartsInv
<1>2. AtLocks("none") = {} /\ PcLocks("user") = {}
  BY DEF AtLocks, PcLocks
<1>3. CASE x.proc = None
  <2>1. PICK z : z = Return(x)
    OBVIOUS
  <2>2. /\ z \in CpuRec /\ z.at = "none" /\ z.want = "none" /\ z.intr = TRUE /\ z.intena = x.intena
        /\ z.noff = 0 /\ z.proc = x.proc
    BY <2>1 DEF Return, CpuRec, Ats
  <2>3. Goes(h, z) /\ Quiet(proc')
    BY <1>3, <2>1 DEF Yield, Goes
  <2>4. HandlerLocks(h, z.at, z.want)
    BY <1>1, <1>2, <2>2 DEF HandlerLocks
  <2> QED BY <1>2, <2>2, <2>3, <2>4, HandlerStep
<1>4. CASE x.proc # None
  <2>1. PICK p : p = x.proc
    OBVIOUS
  <2>2. /\ p \in Procs /\ p = cpu[h].proc /\ p # None /\ proc[p].state = "RUNNING" /\ P[p].state = "RUNNING"
        /\ PcLocks(P[p].pc) = {} /\ P[p] \in ProcRec /\ ProcOK(P[p]) /\ P \in [Procs -> ProcRec]
    <3>1. p \in Procs /\ p = cpu[h].proc /\ p # None
      BY <1>1, <1>4, <2>1
    <3>2. proc[p].state = "RUNNING"
      BY <1>1, <3>1 DEF HartOK
    <3> QED BY <3>1, <3>2 DEF Quiet, PcOn
  <2>3. PICK y : y = push_off(x)
    OBVIOUS
  <2>4. y \in CpuRec /\ y.want = "none" /\ ~ y.intena
    BY <2>3, PushOffAt
  <2>5. PICK z : z = ToScheduler(y)
    OBVIOUS
  <2>6. /\ z \in CpuRec /\ z.intr = TRUE /\ z.noff = 0 /\ z.intena = FALSE /\ z.want = "none"
        /\ z.proc = None /\ z.at = "none"
    BY <2>4, <2>5, Scheduled, Zenon
  <2>7. PICK r : r = [P[p] EXCEPT !.state = "RUNNABLE", !.trapped = TRUE, !.intena = y.intena]
    OBVIOUS
  <2>8. /\ r \in ProcRec /\ r.state = "RUNNABLE" /\ r.trapped = TRUE /\ r.intena = y.intena
        /\ r.pc = P[p].pc /\ r.chan = P[p].chan
    <3>1. y.intena \in BOOLEAN
      BY <2>4 DEF CpuRec
    <3> QED BY <2>2, <2>7, <3>1 DEF ProcRec
  <2>9. ProcOK(r)
    BY <2>2, <2>4, <2>8 DEF ProcOK
  <2>10. Goes(h, z) /\ proc' = [P EXCEPT ![p] = r]
    BY <1>4, <2>1, <2>3, <2>5, <2>7 DEF Yield, Goes
  <2>11. proc' \in [Procs -> ProcRec] /\ proc'[p] = r /\ \A q \in Procs : q # p => proc'[q] = P[q]
    BY <2>2, <2>8, <2>10
  <2>12. ProcsInv'
    BY <2>9, <2>11 DEF ProcsInv, Quiet
  <2>13. OthersStay(h)
    BY <2>2, <2>11 DEF OthersStay, Quiet
  <2>14. Needs(z, proc') = {}
    BY <1>2, <2>6 DEF Needs, PcOn
  <2>15. HartOK(z, proc')
    BY <2>6, <2>14 DEF HartOK
  <2>16. LocksOf(h, z) /\ NoTheft(h, z)
    BY <1>1, <2>6, <2>14 DEF LocksOf, NoTheft
  <2>17. Control'
    BY <2>6, <2>10, <2>11, ControlPrime
  <2> QED BY <2>6, <2>10, <2>12, <2>13, <2>15, <2>16, <2>17, HartStep
<1> QED BY <1>3, <1>4

LEMMA ClockStep == ASSUME ControlInv, NEW h \in Harts, clockintr(h) PROVE Steps(h)
<1>1. /\ cpu[h] \in CpuRec /\ cpu[h].at = "none" /\ cpu[h].want = "none" /\ cpu[h].intr /\ ~ cpu[h].intena
      /\ PcLocks(PcOn(cpu[h], proc)) = {} /\ cpu[h].noff = 0 /\ \A k \in Locks : lk[k] # h
  BY Interrupting DEF clockintr
<1>2. PICK y : y = Trapped(cpu[h], "clockintr")
  OBVIOUS
<1>3. /\ y \in CpuRec /\ y.at = "clockintr" /\ y.want = "none" /\ y.intr = FALSE /\ y.intena = cpu[h].intena
      /\ y.noff = cpu[h].noff /\ y.proc = cpu[h].proc
  BY <1>1, <1>2 DEF Trapped, CpuRec, Ats
<1>4. lk' = lk /\ lk \in [Locks -> Harts \cup {None}] /\ "tickslock" \in Locks /\ Quiet(proc)
  BY ProcQuiet DEF clockintr, ControlInv, Control, Locks
<1>5. CASE h = timer
  <2>1. PICK x : x = acquire(y, "tickslock")
    OBVIOUS
  <2>2. /\ x \in CpuRec /\ x.want = "tickslock" /\ x.proc = cpu[h].proc /\ x.at = "clockintr"
        /\ ~ x.intr /\ x.noff = 1 /\ ~ x.intena
    BY <1>1, <1>3, <1>4, <2>1, AcquireAt
  <2>3. Goes(h, x) /\ Quiet(proc') /\ ~ panic'
    BY <1>1, <1>2, <1>4, <1>5, <2>1 DEF clockintr, Goes, ControlInv
  <2>4. AtLocks("clockintr") = {"tickslock"}
    BY DEF AtLocks
  <2>5. HandlerLocks(h, x.at, x.want)
    BY <1>1, <1>4, <2>2, <2>4 DEF HandlerLocks
  <2>6. x.noff = IF x.at = "printf" THEN 2 ELSE IF AtLocks(x.at) = {} THEN 0 ELSE 1
    BY <2>2, <2>4
  <2> QED BY <1>1, <2>2, <2>3, <2>4, <2>5, <2>6, HandlerStep
<1>6. CASE h # timer
  <2>1. Yield(h, y, proc) /\ ~ panic'
    BY <1>2, <1>6 DEF clockintr, ControlInv
  <2> QED BY <1>1, <1>3, <1>4, <2>1, YieldStep
<1> QED BY <1>5, <1>6

LEMMA TickStep == ASSUME ControlInv, NEW h \in Harts, tick(h) PROVE Steps(h)
<1>1. /\ cpu[h] \in CpuRec /\ cpu[h].at = "clockintr" /\ cpu[h].want = "none" /\ ~ cpu[h].intr /\ ~ cpu[h].intena
      /\ PcLocks(PcOn(cpu[h], proc)) = {} /\ cpu[h].noff = 1 /\ \A k \in Locks : lk[k] = h <=> k = "tickslock"
  <2>1. AtLocks("clockintr") = {"tickslock"} /\ "clockintr" \in Ats /\ Handles(h, "clockintr")
    BY DEF AtLocks, Ats, tick
  <2> QED BY <2>1, Handling
<1>2. PICK x : x = pop_off(cpu[h])
  OBVIOUS
<1>3. /\ x \in CpuRec /\ x.want = "none" /\ x.proc = cpu[h].proc /\ x.at = "clockintr" /\ x.noff = 0
      /\ ~ x.intr /\ ~ x.intena
  BY <1>1, <1>2, PopOffAt
<1>4. Quiet(Wakeup("ticks"))
  BY WakeupQuiet DEF Chans
<1>5. lk' = Released("tickslock") /\ Yield(h, x, Wakeup("ticks")) /\ ~ panic'
  BY <1>2 DEF tick, ControlInv
<1>6. /\ lk' \in [Locks -> Harts \cup {None}]
      /\ \A l \in Locks : lk'[l] = IF lk[l] = h THEN None ELSE lk[l]
  <2>1. "tickslock" \in Locks
    BY DEF Locks
  <2> QED BY <1>1, <1>5, <2>1, ReleasedIs
<1> QED BY <1>1, <1>3, <1>4, <1>5, <1>6, YieldStep

LEMMA UartintrStep == ASSUME ControlInv, TxInv, NEW h \in Harts, uartintr(h) PROVE Steps(h)
<1>1. /\ {"uartintr", "uartstart", "consoleintr"} \subseteq Ats /\ {"uart_tx", "cons"} \subseteq Locks
      /\ AtLocks("uartintr") = {} /\ AtLocks("uartstart") = {"uart_tx"} /\ AtLocks("consoleintr") = {"cons"}
  BY DEF Ats, Locks, AtLocks
<1>2. Handles(h, "uartintr") /\ lk' = lk /\ Quiet(proc')
  BY ProcQuiet DEF uartintr
<1>3. CASE uart.rx = <<>>
  <2>1. PICK c : c = ""
    OBVIOUS
  <2>2. c \in Characters
    BY <2>1 DEF Characters
  <2>3. HandlerAcquires(h, "uart_tx", "uartstart", c)
    BY <1>3, <2>1 DEF uartintr
  <2> QED BY <1>1, <1>2, <2>2, <2>3, HandlerAcquiresStep
<1>4. CASE uart.rx # <<>>
  <2>1. PICK c : c = Head(uart.rx)
    OBVIOUS
  <2>2. c \in Characters
    <3>1. uart.rx \in Seq(Characters)
      BY DEF TxInv, UartRec
    <3> QED BY <1>4, <2>1, <3>1
  <2>3. HandlerAcquires(h, "cons", "consoleintr", c)
    BY <1>4, <2>1 DEF uartintr
  <2> QED BY <1>1, <1>2, <2>2, <2>3, HandlerAcquiresStep
<1> QED BY <1>3, <1>4

LEMMA ConsoleReleases ==
  ASSUME ControlInv, NEW h \in Harts, Handles(h, "consoleintr"), HandlerReleases(h, "cons", "uartintr"),
         Quiet(proc'), panic' = panic
  PROVE  Steps(h)
<1>1. /\ {"uartintr", "consoleintr"} \subseteq Ats /\ "cons" \in Locks
      /\ AtLocks("uartintr") = {} /\ AtLocks("consoleintr") = {"cons"}
  BY DEF Ats, Locks, AtLocks
<1>2. PICK c : c = ""
  OBVIOUS
<1>3. c \in Characters
  BY <1>2 DEF Characters
<1>4. PICK y : y = pop_off(cpu[h])
  OBVIOUS
<1>5. PICK x : x = [y EXCEPT !.at = "uartintr", !.c = c]
  OBVIOUS
<1>6. Goes(h, x) /\ lk' = Released("cons") /\ ~ panic'
  BY <1>2, <1>4, <1>5 DEF HandlerReleases, Goes, ControlInv
<1> QED BY <1>1, <1>3, <1>4, <1>5, <1>6, HandlerReleasesStep

LEMMA ConsoleintrStep == ASSUME ControlInv, NEW h \in Harts, consoleintr(h) PROVE Steps(h)
<1>1. Handles(h, "consoleintr") /\ HandlerReleases(h, "cons", "uartintr") /\ panic' = panic
  BY DEF consoleintr
<1>2. proc' = Wakeup("cons.r") \/ proc' = proc
  BY Zenon DEF consoleintr
<1>3. Quiet(proc')
  BY <1>2, WakeupQuiet, ProcQuiet DEF Chans
<1> QED BY <1>1, <1>3, ConsoleReleases

LEMMA ConsolePrintStep == ASSUME ControlInv, NEW h \in Harts, consoleintr_print(h) PROVE Steps(h)
<1>1. Handles(h, "consoleintr") /\ cpu[h] \in CpuRec
  BY DEF consoleintr_print, ControlInv, Control
<1>2. PICK k : k = cpu[h].c
  OBVIOUS
<1>3. PICK p : p = cpu[h].proc
  OBVIOUS
<1>4. k \in Characters /\ p \in Procs \cup {None}
  BY <1>1, <1>2, <1>3 DEF CpuRec
<1>5. CASE k = "^C" /\ p = None
  <2>1. HandlerReleases(h, "cons", "uartintr") /\ proc' = proc /\ panic' = panic
    BY <1>2, <1>3, <1>5 DEF consoleintr_print
  <2> QED BY <1>1, <2>1, ConsoleReleases, ProcQuiet
<1>6. CASE ~ (k = "^C" /\ p = None)
  <2>1. HandlerAcquires(h, "pr", "printf", k) /\ lk' = lk
    BY <1>2, <1>3, <1>6 DEF consoleintr_print
  <2>2. Quiet(proc')
    <3>1. CASE k # "^C"
      <4>1. proc' = proc
        BY <1>2, <1>3, <3>1 DEF consoleintr_print
      <4> QED BY <4>1, ProcQuiet
    <3>2. CASE k = "^C"
      <4>1. p \in Procs /\ proc' = [proc EXCEPT ![p].killed = TRUE]
        BY <1>2, <1>3, <1>4, <1>6, <3>2 DEF consoleintr_print, sigint_default_handler
      <4>2. proc[p] \in ProcRec /\ proc \in [Procs -> ProcRec] /\ ProcsInv
        BY <4>1 DEF ControlInv, Control
      <4>3. PICK r : r = [proc[p] EXCEPT !.killed = TRUE]
        OBVIOUS
      <4>4. /\ r \in ProcRec /\ r.state = proc[p].state /\ r.chan = proc[p].chan /\ r.pc = proc[p].pc
            /\ r.intena = proc[p].intena /\ r.trapped = proc[p].trapped
        BY <4>2, <4>3 DEF ProcRec
      <4>5. ProcOK(r)
        BY <4>1, <4>2, <4>4 DEF ProcOK, ProcsInv
      <4>6. /\ proc' \in [Procs -> ProcRec] /\ proc'[p] = r
            /\ \A q \in Procs : q # p => proc'[q] = proc[q]
        BY <4>1, <4>2, <4>3, <4>4
      <4> QED BY <4>2, <4>4, <4>5, <4>6 DEF Quiet, ProcsInv
    <3> QED BY <3>1, <3>2
  <2>3. /\ {"printf", "consoleintr"} \subseteq Ats /\ "pr" \in Locks
        /\ AtLocks("printf") = {"cons", "pr"} /\ AtLocks("consoleintr") = {"cons"}
    BY DEF Ats, Locks, AtLocks
  <2> QED BY <1>1, <1>4, <2>1, <2>2, <2>3, HandlerAcquiresStep
<1> QED BY <1>5, <1>6

LEMMA SendStep == ASSUME ControlInv, NEW h \in Harts, SendOne PROVE Steps(h)
<1>1. Quiet(proc') /\ UNCHANGED <<cpu, lk, panic>>
  BY WakeupQuiet DEF SendOne, Chans
<1> QED BY <1>1, QuietStep

LEMMA HandlerUartstartStep == ASSUME ControlInv, NEW h \in Harts, handler_uartstart(h) PROVE Steps(h)
<1>1. CASE Sends
  BY <1>1, SendStep DEF handler_uartstart
<1>2. CASE ~ Sends
  <2>1. PICK y : y = pop_off(cpu[h])
    OBVIOUS
  <2>2. PICK x : x = Return(y)
    OBVIOUS
  <2>3. Handles(h, "uartstart") /\ lk' = Released("uart_tx") /\ Goes(h, x) /\ proc' = proc /\ panic' = panic
    BY <1>2, <2>1, <2>2 DEF handler_uartstart, Goes
  <2> QED BY <2>1, <2>2, <2>3, UartReturnStep
<1> QED BY <1>1, <1>2

-----------------------------------------------------------------------------
(* The system calls, and the invariant of the harts and processes.         *)

LEMMA PcPoints ==
  /\ Pcs = {"user", "read_loop", "read", "uartputc", "uartstart", "write", "printf", "sys_sleep", "nap"}
  /\ Locks = {"cons", "uart_tx", "pr", "tickslock"}
  /\ \A a \in {"user", "read", "write", "nap"} : PcLocks(a) = {}
  /\ PcLocks("read_loop") = {"cons"} /\ PcLocks("uartputc") = {"uart_tx"} /\ PcLocks("uartstart") = {"uart_tx"}
  /\ PcLocks("printf") = {"pr"} /\ PcLocks("sys_sleep") = {"tickslock"}
  BY DEF Pcs, Locks, PcLocks

\* A call that acquires a lock, from user space or after sleep().
LEMMA CallStep ==
  ASSUME ControlInv, NEW h \in Harts, NEW p \in Procs, NEW a \in {"user", "read", "write", "nap"}, Executes(h, p, a),
         NEW l \in Locks, NEW d \in Pcs, PcLocks(d) = {l}, AcquireIn(h, p, l, d, proc[p])
  PROVE  Steps(h)
<1>1. proc[p] \in ProcRec
  BY DEF ControlInv, Control
<1> QED BY <1>1, AcquireStep, PcPoints

LEMMA ReadStep ==
  ASSUME ControlInv, NEW h \in Harts, NEW p \in Procs, NEW n \in ReadSizes, read(h, p, n)
  PROVE  Steps(h)
<1>1. proc[p] \in ProcRec /\ n \in Nat
  BY ConsoleAssumption DEF ControlInv, Control
<1>2. PICK q : q = [proc[p] EXCEPT !.n = n, !.got = 0]
  OBVIOUS
<1>3. /\ q \in ProcRec /\ q.state = proc[p].state /\ q.chan = proc[p].chan
      /\ q.intena = proc[p].intena /\ q.trapped = proc[p].trapped
  BY <1>1, <1>2 DEF ProcRec
<1>4. Executes(h, p, "user") /\ AcquireIn(h, p, "cons", "read_loop", q)
  BY <1>2 DEF read, Syscall
<1> QED BY <1>3, <1>4, AcquireStep, PcPoints

LEMMA ConsolereadStep ==
  ASSUME ControlInv, NEW h \in Harts, NEW p \in Procs, consoleread(h, p)
  PROVE  Steps(h)
<1>1. Executes(h, p, "read_loop") /\ proc[p] \in ProcRec
  BY DEF consoleread, ControlInv, Control
<1>2. CASE cons.r = cons.w /\ ~ proc[p].killed
  <2>1. sleep(h, p, "cons.r", "cons", "read")
    BY <1>2 DEF consoleread
  <2> QED BY <1>1, <2>1, SleepStep, PcPoints DEF Chans
<1>3. CASE ~ (cons.r = cons.w /\ ~ proc[p].killed)
  <2>1. panic' = panic
    BY <1>3, Zenon DEF consoleread
  <2>2. \/ ReturnFrom(h, p, "cons")
        \/ UNCHANGED <<lk, cpu>> /\ proc' = [proc EXCEPT ![p].got = @ + 1]
    BY <1>3, Zenon DEF consoleread
  <2>3. CASE ReturnFrom(h, p, "cons")
    BY <1>1, <2>1, <2>3, ReturnStep, PcPoints
  <2>4. CASE UNCHANGED <<lk, cpu>> /\ proc' = [proc EXCEPT ![p].got = @ + 1]
    <3>1. PICK q : q = [proc[p] EXCEPT !.got = @ + 1]
      OBVIOUS
    <3>2. /\ q \in ProcRec /\ q.state = proc[p].state /\ q.chan = proc[p].chan /\ q.pc = proc[p].pc
          /\ q.intena = proc[p].intena /\ q.trapped = proc[p].trapped
      BY <1>1, <3>1 DEF ProcRec
    <3>3. Becomes(p, q) /\ q.pc = "read_loop"
      BY <1>1, <2>4, <3>1, <3>2 DEF Becomes, Executes
    <3> QED BY <1>1, <2>1, <2>4, <3>2, <3>3, GoOnStep, PcPoints
  <2> QED BY <2>2, <2>3, <2>4
<1> QED BY <1>2, <1>3

LEMMA UartputcStep ==
  ASSUME ControlInv, NEW h \in Harts, NEW p \in Procs, uartputc(h, p)
  PROVE  Steps(h)
<1>1. Executes(h, p, "uartputc") /\ proc[p] \in ProcRec
  BY DEF uartputc, ControlInv, Control
<1>2. CASE Full
  <2>1. sleep(h, p, "uart_tx_r", "uart_tx", "write")
    BY <1>2 DEF uartputc
  <2> QED BY <1>1, <2>1, SleepStep, PcPoints DEF Chans
<1>3. CASE ~ Full
  <2>1. proc' = [proc EXCEPT ![p].pc = "uartstart"] /\ UNCHANGED <<cpu, lk, panic>>
    BY <1>3 DEF uartputc
  <2>2. PICK q : q = [proc[p] EXCEPT !.pc = "uartstart"]
    OBVIOUS
  <2>3. /\ q \in ProcRec /\ q.state = proc[p].state /\ q.chan = proc[p].chan /\ q.pc = "uartstart"
        /\ q.intena = proc[p].intena /\ q.trapped = proc[p].trapped
    BY <1>1, <2>2 DEF ProcRec, Pcs
  <2>4. Becomes(p, q)
    BY <2>1, <2>2 DEF Becomes
  <2> QED BY <1>1, <2>1, <2>3, <2>4, GoOnStep, PcPoints
<1> QED BY <1>2, <1>3

LEMMA UartstartStep ==
  ASSUME ControlInv, NEW h \in Harts, NEW p \in Procs, uartstart(h, p)
  PROVE  Steps(h)
<1>1. Executes(h, p, "uartstart")
  BY DEF uartstart
<1>2. CASE Sends
  BY <1>2, SendStep DEF uartstart
<1>3. CASE ~ Sends
  <2>1. ReturnFrom(h, p, "uart_tx") /\ panic' = panic
    BY <1>3 DEF uartstart
  <2> QED BY <1>1, <2>1, ReturnStep, PcPoints
<1> QED BY <1>2, <1>3

LEMMA SysSleepStep ==
  ASSUME ControlInv, NEW h \in Harts, NEW p \in Procs, sys_sleep(h, p)
  PROVE  Steps(h)
<1>1. Executes(h, p, "sys_sleep")
  BY DEF sys_sleep
<1>2. CASE ReturnFrom(h, p, "tickslock") /\ panic' = panic
  BY <1>1, <1>2, ReturnStep, PcPoints
<1>3. CASE sleep(h, p, "ticks", "tickslock", "nap")
  BY <1>1, <1>3, SleepStep, PcPoints DEF Chans
<1> QED BY <1>2, <1>3 DEF sys_sleep

LEMMA ProcessControl ==
  ASSUME ControlInv, NEW h \in Harts, NEW p \in Procs,
         \/ read_again(h, p) \/ write(h, p) \/ write_again(h, p)
         \/ print(h, p) \/ printf(h, p) \/ nap(h, p) \/ nap_again(h, p)
  PROVE  Steps(h)
<1>1. CASE read_again(h, p)
  <2>1. Executes(h, p, "read") /\ AcquireIn(h, p, "cons", "read_loop", proc[p])
    BY <1>1 DEF read_again
  <2> QED BY <2>1, CallStep, PcPoints
<1>2. CASE write(h, p)
  <2>1. Executes(h, p, "user") /\ AcquireIn(h, p, "uart_tx", "uartputc", proc[p])
    BY <1>2 DEF write, Syscall
  <2> QED BY <2>1, CallStep, PcPoints
<1>3. CASE write_again(h, p)
  <2>1. Executes(h, p, "write") /\ AcquireIn(h, p, "uart_tx", "uartputc", proc[p])
    BY <1>3 DEF write_again
  <2> QED BY <2>1, CallStep, PcPoints
<1>4. CASE print(h, p)
  <2>1. Executes(h, p, "user") /\ AcquireIn(h, p, "pr", "printf", proc[p])
    BY <1>4 DEF print, Syscall
  <2> QED BY <2>1, CallStep, PcPoints
<1>5. CASE printf(h, p)
  <2>1. Executes(h, p, "printf") /\ ReturnFrom(h, p, "pr") /\ panic' = panic
    BY <1>5 DEF printf
  <2> QED BY <2>1, ReturnStep, PcPoints
<1>6. CASE nap(h, p)
  <2>1. Executes(h, p, "user") /\ AcquireIn(h, p, "tickslock", "sys_sleep", proc[p])
    BY <1>6 DEF nap, Syscall
  <2> QED BY <2>1, CallStep, PcPoints
<1>7. CASE nap_again(h, p)
  <2>1. Executes(h, p, "nap") /\ AcquireIn(h, p, "tickslock", "sys_sleep", proc[p])
    BY <1>7 DEF nap_again
  <2> QED BY <2>1, CallStep, PcPoints
<1> QED BY <1>1, <1>2, <1>3, <1>4, <1>5, <1>6, <1>7

LEMMA InitControl == Init => ControlInv
<1> SUFFICES ASSUME Init PROVE ControlInv
  OBVIOUS
<1>1. Cpu \in CpuRec
  BY DEF Cpu, CpuRec, Ats, Characters
<1>2. Ready \in ProcRec
  BY DEF Ready, ProcRec, Chans, Pcs
<1>3. Control
  BY <1>1, <1>2 DEF Init, Control, initlock
<1>4. \A h \in Harts : /\ cpu[h].intr = TRUE /\ cpu[h].noff = 0 /\ cpu[h].intena = FALSE
                        /\ cpu[h].want = "none" /\ cpu[h].proc = None /\ cpu[h].at = "none"
  <2>1. \A h \in Harts : cpu[h] = Cpu
    BY DEF Init
  <2>2. /\ Cpu.intr = TRUE /\ Cpu.noff = 0 /\ Cpu.intena = FALSE
        /\ Cpu.want = "none" /\ Cpu.proc = None /\ Cpu.at = "none"
    BY DEF Cpu
  <2> QED BY <2>1, <2>2
<1>5. \A h \in Harts : Needs(cpu[h], proc) = {} /\ PcLocks(PcOn(cpu[h], proc)) = {}
  BY <1>4 DEF Needs, PcOn, AtLocks, PcLocks
<1>6. HartsInv
  BY <1>4, <1>5 DEF HartsInv, HartOK
<1>7. ProcsInv
  BY DEF Init, Ready, ProcsInv, ProcOK, PcLocks
<1>8. OwnersInv
  BY <1>5, ConsoleAssumption DEF Init, OwnersInv, initlock
<1>9. ApartInv
  BY <1>4 DEF ApartInv
<1> QED BY <1>3, <1>6, <1>7, <1>8, <1>9 DEF ControlInv, Init

LEMMA NextControl == ASSUME ControlInv, TxInv, [Next]_vars PROVE ControlInv'
<1>1. CASE UNCHANGED vars
  BY <1>1, IdleStep DEF vars
<1>2. CASE type \/ transmit
  BY <1>2, IdleStep DEF type, transmit
<1>3. ASSUME NEW h \in Harts,
        \/ spin(h) \/ devintr(h) \/ uartintr(h) \/ consoleintr(h) \/ consoleintr_print(h)
        \/ handler_printf(h) \/ handler_uartstart(h) \/ clockintr(h) \/ tick(h) \/ kerneltrap_end(h)
      PROVE  ControlInv'
  BY <1>3, SpinStep, DevintrStep, UartintrStep, ConsoleintrStep, ConsolePrintStep, PrintfStep,
     HandlerUartstartStep, ClockStep, TickStep, KerneltrapStep DEF Steps
<1>4. ASSUME NEW h \in Harts, NEW p \in Procs,
        \/ scheduler(h, p) \/ exit(h, p) \/ (\E n \in ReadSizes : read(h, p, n))
        \/ consoleread(h, p) \/ uartputc(h, p) \/ uartstart(h, p) \/ sys_sleep(h, p)
      PROVE  ControlInv'
  BY <1>4, SchedulerStep, ExitStep, ReadStep, ConsolereadStep, UartputcStep, UartstartStep, SysSleepStep DEF Steps
<1> QED BY <1>1, <1>2, <1>3, <1>4, ProcessControl DEF Next, Steps

-----------------------------------------------------------------------------
(* The depth counts the locks.                                             *)

LEMMA Counts ==
  /\ Cardinality({}) = 0
  /\ \A l \in Locks : Cardinality({l}) = 1
  /\ Cardinality({"cons", "pr"}) = 2
<1>1. Cardinality({}) = 0 /\ \A l : Cardinality({l}) = 1 /\ IsFiniteSet({l})
  BY FS_EmptySet, FS_Singleton
<1>2. Cardinality({"cons"} \cup {"pr"}) = 2
  <2>1. "pr" \notin {"cons"} /\ IsFiniteSet({"cons"}) /\ Cardinality({"cons"}) = 1
    BY <1>1
  <2>2. Cardinality({"cons"} \cup {"pr"}) = Cardinality({"cons"}) + 1
    BY <2>1, FS_AddElement
  <2> QED BY <2>1, <2>2
<1>3. {"cons"} \cup {"pr"} = {"cons", "pr"}
  OBVIOUS
<1> QED BY <1>1, <1>2, <1>3

LEMMA OneLock ==
  /\ \A a \in Ats : a # "printf" => AtLocks(a) = {} \/ \E l \in Locks : AtLocks(a) = {l}
  /\ \A a \in Pcs : PcLocks(a) = {} \/ \E l \in Locks : PcLocks(a) = {l}
  /\ AtLocks("printf") = {"cons", "pr"} /\ AtLocks("none") = {} /\ "none" \notin Locks
<1>1. ASSUME NEW a \in Ats, a # "printf" PROVE AtLocks(a) = {} \/ \E l \in Locks : AtLocks(a) = {l}
  <2>1. AtLocks(a) \in {{}, {"uart_tx"}, {"cons"}, {"tickslock"}}
    BY <1>1 DEF Ats, AtLocks
  <2> QED BY <2>1 DEF Locks
<1>2. ASSUME NEW a \in Pcs PROVE PcLocks(a) = {} \/ \E l \in Locks : PcLocks(a) = {l}
  <2>1. PcLocks(a) \in {{}, {"uart_tx"}, {"cons"}, {"pr"}, {"tickslock"}}
    BY <1>2 DEF Pcs, PcLocks
  <2> QED BY <2>1 DEF Locks
<1>3. AtLocks("printf") = {"cons", "pr"} /\ AtLocks("none") = {} /\ "none" \notin Locks
  BY DEF AtLocks, Locks
<1> QED BY <1>1, <1>2, <1>3

LEMMA ControlIntr == ControlInv => IntrInv
<1> SUFFICES ASSUME ControlInv PROVE IntrInv
  OBVIOUS
<1>1. ASSUME NEW h \in Harts
      PROVE  /\ cpu[h].noff = Cardinality(Held(h)) + (IF cpu[h].want = "none" THEN 0 ELSE 1)
             /\ cpu[h].intr <=> cpu[h].noff = 0 /\ cpu[h].at = "none"
  <2>1. cpu[h] \in CpuRec /\ HartOK(cpu[h], proc) /\ proc \in [Procs -> ProcRec]
    BY DEF ControlInv, Control, HartsInv
  <2>2. PICK N : N = Needs(cpu[h], proc)
    OBVIOUS
  <2>3. PICK w : w = cpu[h].want
    OBVIOUS
  <2>4. PcOn(cpu[h], proc) \in Pcs /\ cpu[h].at \in Ats
    BY <2>1 DEF PcOn, CpuRec, ProcRec, Pcs
  <2>5. N = AtLocks(cpu[h].at) \cup PcLocks(PcOn(cpu[h], proc)) /\ N \subseteq Locks
    BY <2>2, <2>4, Points DEF Needs
  <2>6. Held(h) = {l \in N : l # w}
    <3>1. \A l \in Locks : lk[l] = h <=> l \in N /\ l # w
      BY <2>2, <2>3 DEF ControlInv, OwnersInv
    <3> QED BY <2>5, <3>1 DEF Held
  <2>7. w \in N \cup {"none"}
    BY <2>1, <2>2, <2>3 DEF HartOK
  <2>8. cpu[h].noff = Cardinality(Held(h)) + (IF w = "none" THEN 0 ELSE 1)
    <3>1. CASE cpu[h].at = "printf"
      <4>1. N = {"cons", "pr"} /\ cpu[h].noff = 2 /\ w \in {"pr", "none"}
        <5>1. PcLocks(PcOn(cpu[h], proc)) = {} /\ cpu[h].noff = 2 /\ w # "cons"
          BY <2>1, <2>3, <3>1 DEF HartOK
        <5>2. N = {"cons", "pr"}
          BY <2>5, <3>1, <5>1, OneLock
        <5> QED BY <2>7, <5>1, <5>2
      <4>2. CASE w = "none"
        <5>1. Held(h) = {"cons", "pr"}
          BY <2>6, <4>1, <4>2
        <5> QED BY <4>1, <4>2, <5>1, Counts
      <4>3. CASE w = "pr"
        <5>1. Held(h) = {"cons"} /\ "cons" \in Locks
          BY <2>6, <4>1, <4>3 DEF Locks
        <5>2. Cardinality(Held(h)) = 1
          BY <5>1, Counts
        <5> QED BY <4>1, <4>3, <5>2
      <4> QED BY <4>1, <4>2, <4>3
    <3>2. CASE cpu[h].at # "printf"
      <4>1. N = {} \/ \E l \in Locks : N = {l}
        <5>1. cpu[h].at = "none" => N = PcLocks(PcOn(cpu[h], proc))
          BY <2>5, OneLock
        <5>2. cpu[h].at # "none" => N = AtLocks(cpu[h].at)
          BY <2>1, <2>5 DEF HartOK
        <5> QED BY <2>4, <3>2, <5>1, <5>2, OneLock
      <4>2. cpu[h].noff = IF N = {} THEN 0 ELSE 1
        BY <2>1, <2>2, <3>2 DEF HartOK
      <4>3. CASE N = {}
        <5>1. Held(h) = {} /\ w = "none"
          BY <2>6, <2>7, <4>3
        <5> QED BY <4>2, <4>3, <5>1, Counts
      <4>4. ASSUME NEW l \in Locks, N = {l} PROVE cpu[h].noff = Cardinality(Held(h)) + (IF w = "none" THEN 0 ELSE 1)
        <5>1. CASE w = "none"
          <6>1. Held(h) = {l}
            BY <2>6, <4>4, <5>1, OneLock
          <6> QED BY <4>2, <4>4, <5>1, <6>1, Counts
        <5>2. CASE w # "none"
          <6>1. Held(h) = {}
            BY <2>6, <2>7, <4>4, <5>2
          <6> QED BY <4>2, <4>4, <5>2, <6>1, Counts
        <5> QED BY <5>1, <5>2
      <4> QED BY <4>1, <4>3, <4>4
    <3> QED BY <3>1, <3>2
  <2>9. cpu[h].intr <=> cpu[h].noff = 0 /\ cpu[h].at = "none"
    BY <2>1 DEF HartOK
  <2> QED BY <2>3, <2>8, <2>9
<1>2. ~ panic
  BY DEF ControlInv
<1> QED BY <1>1, <1>2 DEF IntrInv

-----------------------------------------------------------------------------
(* The output ring.                                                        *)

LEMMA Sizes ==
  /\ INPUT_BUF_SIZE \in Nat /\ INPUT_BUF_SIZE > 0 /\ UART_TX_BUF_SIZE \in Nat /\ UART_TX_BUF_SIZE > 0
  /\ UINT \in Nat /\ UINT > INPUT_BUF_SIZE /\ UINT % INPUT_BUF_SIZE = 0
  BY ConsoleAssumption

\* The ring is not touched, nor is a character of write() on its way.
LEMMA TxKeep ==
  ASSUME TxInv, tx' = tx, uart' \in UartRec, uart'.sent = uart.sent,
         uart'.thr = uart.thr \/ (~ (uart.thr > 0) /\ ~ (uart'.thr > 0))
  PROVE  TxInv'
  BY DEF TxInv

LEMMA SyncKeeps == ASSUME TxInv, Idle, tx' = tx, uart' = Sync PROVE TxInv' /\ uart'.thr = -1
<1>1. uart \in UartRec /\ uart.thr = 0
  BY DEF TxInv, Idle
<1>2. PICK t \in Int : t = -1
  OBVIOUS
<1>3. uart' = [uart EXCEPT !.thr = t, !.empty = FALSE]
  BY <1>2 DEF Sync
<1>4. uart' \in UartRec /\ uart'.thr = t /\ uart'.sent = uart.sent
  BY <1>1, <1>3 DEF UartRec
<1>5. ~ (uart.thr > 0) /\ ~ (uart'.thr > 0)
  BY <1>1, <1>2, <1>4
<1> QED BY <1>2, <1>4, <1>5, TxKeep

LEMMA StoppedKeeps == ASSUME TxInv, tx' = tx, uart' = Stopped PROVE TxInv'
<1>1. uart' \in UartRec /\ uart'.sent = uart.sent /\ uart'.thr = uart.thr
  BY DEF TxInv, UartRec, Stopped
<1> QED BY <1>1, TxKeep

LEMMA TransmitKeeps == ASSUME TxInv, transmit PROVE TxInv'
<1>1. PICK n : n = IF uart.thr > 0 THEN uart.thr ELSE uart.sent
  OBVIOUS
<1>2. uart' = [uart EXCEPT !.thr = 0, !.empty = TRUE, !.sent = n] /\ tx' = tx
  BY <1>1 DEF transmit
<1>3. n = tx.r /\ n \in Nat
  BY <1>1 DEF TxInv, TxRec, UartRec
<1>4. uart \in UartRec /\ 0 \in Int
  BY DEF TxInv
<1>5. uart' \in UartRec /\ uart'.thr = 0 /\ uart'.sent = n
  BY <1>2, <1>3, <1>4 DEF UartRec
<1> QED BY <1>2, <1>3, <1>5 DEF TxInv

\* uartintr() and the keyboard: only rx and keys change.
LEMMA RxKeeps ==
  ASSUME TxInv, tx' = tx, NEW s \in Seq(Characters), NEW r \in Seq(Characters),
         uart' = [uart EXCEPT !.rx = r, !.keys = s]
  PROVE  TxInv'
<1>1. uart' \in UartRec /\ uart'.sent = uart.sent /\ uart'.thr = uart.thr
  BY DEF TxInv, UartRec
<1> QED BY <1>1, TxKeep

LEMMA SendKeeps == ASSUME TxInv, Sends, SendOne PROVE TxInv' /\ uart'.thr # 0
<1>1. PICK r : r = tx.r
  OBVIOUS
<1>2. PICK t : t = tx.buf[r % UART_TX_BUF_SIZE]
  OBVIOUS
<1>3. /\ tx \in TxRec /\ uart \in UartRec /\ r \in Nat /\ tx.w \in Nat /\ uart.thr = 0 /\ uart.sent = r
      /\ r # tx.w /\ r <= tx.w
  BY <1>1 DEF TxInv, TxRec, Sends, Idle
<1>4. t = r + 1
  BY <1>1, <1>2, <1>3 DEF TxInv
<1>5. tx' = [tx EXCEPT !.r = r + 1] /\ uart' = [uart EXCEPT !.thr = t, !.empty = FALSE]
  BY <1>1, <1>2 DEF SendOne
<1>6. tx' \in TxRec /\ tx'.r = r + 1 /\ tx'.w = tx.w /\ tx'.buf = tx.buf
  BY <1>3, <1>5 DEF TxRec
<1>7. uart' \in UartRec /\ uart'.thr = t /\ uart'.sent = uart.sent
  <2>1. t \in Int
    BY <1>3, <1>4
  <2> QED BY <1>3, <1>5, <2>1 DEF UartRec
<1>8. \A k \in tx'.r..(tx'.w - 1) : tx'.buf[k % UART_TX_BUF_SIZE] = k + 1
  BY <1>1, <1>3, <1>6 DEF TxInv
<1> QED BY <1>1, <1>3, <1>4, <1>6, <1>7, <1>8, Sizes DEF TxInv

LEMMA StoreKeeps ==
  ASSUME TxInv, ~ Full, uart' = uart, tx' = [tx EXCEPT !.buf[tx.w % UART_TX_BUF_SIZE] = tx.w + 1, !.w = @ + 1]
  PROVE  TxInv' /\ tx'.r = tx.r
<1>1. PICK w : w = tx.w
  OBVIOUS
<1>2. PICK i : i = w % UART_TX_BUF_SIZE
  OBVIOUS
<1>3. tx \in TxRec /\ w \in Nat /\ tx.r \in Nat /\ tx.r <= w /\ w < tx.r + UART_TX_BUF_SIZE
  <2>1. tx \in TxRec /\ tx.r <= tx.w /\ tx.w <= tx.r + UART_TX_BUF_SIZE /\ tx.w # tx.r + UART_TX_BUF_SIZE
    BY DEF TxInv, Full
  <2>2. tx.r \in Nat /\ tx.w \in Nat
    BY <2>1 DEF TxRec
  <2> QED BY <1>1, <2>1, <2>2, Sizes
<1>4. i \in 0..(UART_TX_BUF_SIZE - 1)
  BY <1>2, <1>3, Sizes
<1>5. PICK b : b = [tx.buf EXCEPT ![i] = w + 1]
  OBVIOUS
<1>6. tx' = [tx EXCEPT !.buf = b, !.w = w + 1]
  BY <1>1, <1>2, <1>5
<1>7. b \in [0..(UART_TX_BUF_SIZE - 1) -> Nat] /\ b[i] = w + 1
      /\ \A j \in 0..(UART_TX_BUF_SIZE - 1) : j # i => b[j] = tx.buf[j]
  <2>1. tx.buf \in [0..(UART_TX_BUF_SIZE - 1) -> Nat] /\ w + 1 \in Nat
    BY <1>3 DEF TxRec
  <2> QED BY <1>4, <1>5, <2>1
<1>8. tx' \in TxRec /\ tx'.r = tx.r /\ tx'.w = w + 1 /\ tx'.buf = b
  <2>1. w + 1 \in Nat
    BY <1>3
  <2> QED BY <1>3, <1>6, <1>7, <2>1 DEF TxRec
<1>9. ASSUME NEW k \in tx.r..w PROVE b[k % UART_TX_BUF_SIZE] = k + 1
  <2>1. CASE k = w
    BY <1>2, <1>7, <2>1
  <2>2. CASE k # w
    <3>1. k \in tx.r..(w - 1) /\ w - k \in 1..(UART_TX_BUF_SIZE - 1) /\ k \in Int
      BY <1>3, <2>2, Sizes
    <3>2. PICK j : j = k % UART_TX_BUF_SIZE
      OBVIOUS
    <3>3. j \in 0..(UART_TX_BUF_SIZE - 1)
      BY <3>1, <3>2, Sizes
    <3>4. k % UART_TX_BUF_SIZE # (k + (w - k)) % UART_TX_BUF_SIZE
      BY <3>1, Sizes, ModDiffer
    <3>5. k + (w - k) = w
      BY <1>3, <3>1
    <3>6. j # i
      BY <1>2, <3>2, <3>4, <3>5
    <3>7. tx.buf[j] = k + 1
      BY <1>1, <3>1, <3>2 DEF TxInv
    <3> QED BY <1>7, <3>2, <3>3, <3>6, <3>7
  <2> QED BY <2>1, <2>2
<1>10. \A k \in tx'.r..(tx'.w - 1) : tx'.buf[k % UART_TX_BUF_SIZE] = k + 1
  <2>1. tx'.w - 1 = w
    BY <1>3, <1>8
  <2> QED BY <1>8, <1>9, <2>1
<1>11. tx'.r <= tx'.w /\ tx'.w <= tx'.r + UART_TX_BUF_SIZE
  BY <1>3, <1>8, Sizes
<1>12. (uart.thr > 0 => uart.thr = tx.r /\ uart.sent + 1 = tx.r) /\ (~ (uart.thr > 0) => uart.sent = tx.r) /\ uart \in UartRec
  BY DEF TxInv
<1> QED BY <1>8, <1>10, <1>11, <1>12 DEF TxInv

\* The ring, the character on its way and those sent, as the property has them.
LEMMA TxOutput == TxInv => OutputInv
<1> SUFFICES ASSUME TxInv PROVE OutputInv
  OBVIOUS
<1>1. PICK r : r = tx.r
  OBVIOUS
<1>2. PICK w : w = tx.w
  OBVIOUS
<1>3. PICK n : n = uart.sent
  OBVIOUS
<1>4. r \in Nat /\ w \in Nat /\ n \in Nat /\ r <= w /\ uart.thr \in Int
  BY <1>1, <1>2, <1>3 DEF TxInv, TxRec, UartRec
<1>5. PICK s : s = [j \in 1..(w - r) |-> tx.buf[(r + j - 1) % UART_TX_BUF_SIZE]]
  OBVIOUS
<1>6. \A j \in 1..(w - r) : s[j] = r + j
  <2> SUFFICES ASSUME NEW j \in 1..(w - r) PROVE s[j] = r + j
    OBVIOUS
  <2>1. PICK k : k = r + j - 1
    OBVIOUS
  <2>2. k \in r..(w - 1) /\ k + 1 = r + j
    BY <1>4, <2>1
  <2>3. s[j] = tx.buf[k % UART_TX_BUF_SIZE]
    BY <1>5, <2>1
  <2> QED BY <1>1, <1>2, <2>2, <2>3 DEF TxInv
<1>7. s = [j \in 1..(w - r) |-> r + j]
  BY <1>5, <1>6
<1>8. s \in Seq(Nat) /\ Len(s) = w - r
  BY <1>4, <1>7
<1>9. CASE ~ (uart.thr > 0)
  <2>1. n = r
    BY <1>1, <1>3, <1>9 DEF TxInv
  <2>2. <<>> \o s = s
    BY <1>8
  <2> QED BY <1>1, <1>2, <1>3, <1>5, <1>7, <1>9, <2>1, <2>2 DEF OutputInv
<1>10. CASE uart.thr > 0
  <2>1. uart.thr = r /\ n + 1 = r
    BY <1>1, <1>3, <1>10 DEF TxInv
  <2>2. PICK f : f = <<r>>
    OBVIOUS
  <2>3. f \in Seq(Nat) /\ Len(f) = 1 /\ f[1] = r
    BY <1>4, <2>2
  <2>4. PICK g : g = f \o s
    OBVIOUS
  <2>5. /\ g \in Seq(Nat) /\ Len(g) = Len(f) + Len(s)
        /\ \A i \in 1..(Len(f) + Len(s)) : g[i] = IF i <= Len(f) THEN f[i] ELSE s[i - Len(f)]
    BY <1>8, <2>3, <2>4, ConcatProperties
  <2>6. Len(g) = w - n
    BY <1>4, <1>8, <2>1, <2>3, <2>5
  <2>7. ASSUME NEW j \in 1..(w - n) PROVE g[j] = n + j
    <3>1. j \in 1..(Len(f) + Len(s)) /\ j \in Int
      BY <2>5, <2>6, <2>7
    <3>2. g[j] = IF j <= 1 THEN f[j] ELSE s[j - 1]
      BY <2>3, <2>5, <3>1
    <3>3. CASE j = 1
      BY <2>1, <2>3, <3>2, <3>3, <1>4
    <3>4. CASE j # 1
      <4>1. j - 1 \in 1..(w - r) /\ ~ (j <= 1)
        BY <1>4, <2>1, <2>7, <3>4
      <4>2. s[j - 1] = r + (j - 1)
        BY <1>6, <4>1
      <4> QED BY <1>4, <2>1, <3>1, <3>2, <4>1, <4>2
    <3> QED BY <3>3, <3>4
  <2>8. g = [j \in 1..(w - n) |-> n + j]
    BY <2>5, <2>6, <2>7
  <2> QED BY <1>1, <1>2, <1>3, <1>5, <1>10, <2>1, <2>2, <2>4, <2>8 DEF OutputInv
<1> QED BY <1>9, <1>10

-----------------------------------------------------------------------------
(* Sleepers, and who will send what is in the output ring.                 *)

\* A process goes to sleep only where it has to.
SleepsOK ==
  \A p \in Procs : \/ proc'[p].chan \in {proc[p].chan, "none", "ticks"}
                   \/ proc'[p].chan = "cons.r" /\ cons.r = cons.w
                   \/ proc'[p].chan = "uart_tx_r" /\ Full

\* A process that sends stays where it is when another hart does something.
LEMMA SenderStays ==
  ASSUME ControlInv, NEW h \in Harts, Local(h), ~ Sending(h), plic' = plic \/ plic' # None, Sender
  PROVE  Sender'
<1>1. CASE plic # None
  BY <1>1 DEF Sender
<1>2. CASE plic = None
  <2>1. PICK g \in Harts : Sending(g)
    BY <1>2 DEF Sender
  <2>2. g # h /\ cpu'[g] = cpu[g] /\ cpu[g] \in CpuRec /\ HartOK(cpu[g], proc)
    BY <2>1 DEF Local, ControlInv, Control, HartsInv
  <2>3. PICK q : q = cpu[g].proc
    OBVIOUS
  <2>4. q # None /\ proc[q].pc = "uartstart" /\ cpu[g].want = "none"
    BY <2>1, <2>3 DEF Sending, PcOn
  <2>5. q \in Procs /\ proc[q].state = "RUNNING"
    BY <2>2, <2>3, <2>4 DEF CpuRec, HartOK
  <2>6. q # cpu[h].proc
    BY <2>2, <2>3, <2>4 DEF ControlInv, ApartInv
  <2>7. proc'[q].pc = "uartstart"
    BY <2>4, <2>5, <2>6 DEF Local, OthersStay
  <2>8. Sending(g)'
    BY <2>2, <2>3, <2>4, <2>7 DEF Sending, PcOn
  <2> QED BY <2>8 DEF Sender
<1> QED BY <1>1, <1>2

LEMMA WaitKeep ==
  ASSUME ControlInv, WaitInv, NEW h \in Harts, Local(h), ~ Sending(h), plic' = plic \/ plic' # None,
         tx' = tx, TxInv', ~ Idle \/ uart.empty => ~ Idle' \/ uart'.empty,
         cons'.r = cons.r, cons'.w = cons.w, SleepsOK
  PROVE  WaitInv'
<1>1. ReadersWait'
  BY DEF ReadersWait, SleepsOK, WaitInv
<1>2. WritersWait'
  BY DEF WritersWait, SleepsOK, WaitInv, Full
<1>3. Sender => Sender'
  BY SenderStays
<1>4. PendingInv'
  BY <1>3 DEF PendingInv, WaitInv
<1> QED BY <1>1, <1>2, <1>4 DEF WaitInv

\* The same when nothing but the harts and processes changes.
LEMMA WaitSame ==
  ASSUME ControlInv, WaitInv, NEW h \in Harts, Steps(h), ~ Sending(h), UNCHANGED <<cons, tx, uart, plic>>, SleepsOK
  PROVE  WaitInv'
<1>1. TxInv'
  BY DEF WaitInv, TxInv
<1>2. Local(h)
  BY DEF Steps
<1>3. ~ Idle \/ uart.empty => ~ Idle' \/ uart'.empty
  BY DEF Idle
<1> QED BY <1>1, <1>2, <1>3, WaitKeep

\* Who is not in uartstart() does not send.
LEMMA NotSending ==
  ASSUME ControlInv, NEW h \in Harts
  PROVE  /\ \A a \in Ats \ {"none"} : Handles(h, a) => ~ Sending(h)
         /\ Interruptible(h) => ~ Sending(h)
         /\ \A p \in Procs, a \in Pcs \ {"uartstart"} : Executes(h, p, a) => ~ Sending(h)
<1>1. PcLocks("uartstart") # {}
  BY DEF PcLocks
<1>2. ASSUME NEW a \in Ats \ {"none"}, Handles(h, a) PROVE ~ Sending(h)
  <2>1. PcLocks(PcOn(cpu[h], proc)) = {}
    BY <1>2, Handling
  <2> QED BY <1>1, <2>1 DEF Sending
<1>3. ASSUME Interruptible(h) PROVE ~ Sending(h)
  <2>1. PcLocks(PcOn(cpu[h], proc)) = {}
    BY <1>3, Interrupting
  <2> QED BY <1>1, <2>1 DEF Sending
<1>4. ASSUME NEW p \in Procs, NEW a \in Pcs \ {"uartstart"}, Executes(h, p, a) PROVE ~ Sending(h)
  <2>1. cpu[h].proc = p /\ proc[p].pc = a /\ p # None
    BY <1>4, ConsoleAssumption DEF Executes
  <2> QED BY <2>1 DEF Sending, PcOn
<1> QED BY <1>2, <1>3, <1>4

\* Channels.
LEMMA BecomesChans ==
  ASSUME ControlInv, NEW p \in Procs, NEW q, q.chan = proc[p].chan, Becomes(p, q)
  PROVE  SleepsOK
<1>1. \A r \in Procs : proc'[r].chan = proc[r].chan
  BY DEF ControlInv, Control, Becomes
<1> QED BY <1>1 DEF SleepsOK

LEMMA AcquireChans ==
  ASSUME ControlInv, NEW h, NEW p \in Procs, NEW l, NEW d, NEW q \in ProcRec, q.chan = proc[p].chan,
         AcquireIn(h, p, l, d, q)
  PROVE  SleepsOK
<1>1. PICK r : r = [q EXCEPT !.pc = d]
  OBVIOUS
<1>2. r.chan = proc[p].chan /\ Becomes(p, r)
  BY <1>1 DEF ProcRec, AcquireIn, Becomes
<1> QED BY <1>2, BecomesChans

LEMMA ReturnChans ==
  ASSUME ControlInv, NEW h, NEW p \in Procs, NEW l, ReturnFrom(h, p, l)
  PROVE  SleepsOK
<1>1. PICK r : r = [proc[p] EXCEPT !.pc = "user", !.n = 0, !.got = 0]
  OBVIOUS
<1>2. proc[p] \in ProcRec
  BY DEF ControlInv, Control
<1>3. r.chan = proc[p].chan /\ Becomes(p, r)
  BY <1>1, <1>2 DEF ProcRec, ReturnFrom, Becomes
<1> QED BY <1>3, BecomesChans

LEMMA SleepChans ==
  ASSUME ControlInv, NEW h, NEW p \in Procs, NEW ch, NEW l, NEW d, sleep(h, p, ch, l, d),
         \/ ch = "ticks" \/ (ch = "cons.r" /\ cons.r = cons.w) \/ (ch = "uart_tx_r" /\ Full)
  PROVE  SleepsOK
<1>1. proc \in [Procs -> ProcRec]
  BY DEF ControlInv, Control
<1>2. PICK i : i = pop_off(push_off(cpu[h])).intena
  OBVIOUS
<1>3. PICK r : r = [proc[p] EXCEPT !.state = "SLEEPING", !.chan = ch, !.pc = d, !.intena = i]
  OBVIOUS
<1>4. proc' = [proc EXCEPT ![p] = r]
  BY <1>2, <1>3 DEF sleep
<1>5. r.chan = ch
  BY <1>1, <1>3 DEF ProcRec
<1>6. proc'[p].chan = ch /\ \A q \in Procs : q # p => proc'[q] = proc[q]
  BY <1>1, <1>4, <1>5
<1> QED BY <1>6 DEF SleepsOK

LEMMA WakeupChans ==
  ASSUME ControlInv, NEW ch \in Chans, ch # "none"
  PROVE  \A p \in Procs : Wakeup(ch)[p].chan \in {proc[p].chan, "none"} /\ Wakeup(ch)[p].chan # ch
<1> SUFFICES ASSUME NEW p \in Procs
             PROVE  Wakeup(ch)[p].chan \in {proc[p].chan, "none"} /\ Wakeup(ch)[p].chan # ch
  OBVIOUS
<1>1. proc[p] \in ProcRec
  BY DEF ControlInv, Control
<1>2. CASE proc[p].chan = ch
  <2>1. Wakeup(ch)[p] = [proc[p] EXCEPT !.state = "RUNNABLE", !.chan = "none"]
    BY <1>2 DEF Wakeup
  <2> QED BY <1>1, <2>1 DEF ProcRec
<1>3. CASE proc[p].chan # ch
  BY <1>3 DEF Wakeup
<1> QED BY <1>2, <1>3

LEMMA YieldChans ==
  ASSUME ControlInv, NEW h, NEW x, x.proc \in Procs \cup {None}, NEW P \in [Procs -> ProcRec],
         \A p \in Procs : P[p].chan \in {proc[p].chan, "none"}, Yield(h, x, P)
  PROVE  SleepsOK
<1>1. CASE x.proc = None
  <2>1. proc' = P
    BY <1>1 DEF Yield
  <2> QED BY <2>1 DEF SleepsOK
<1>2. CASE x.proc # None
  <2>1. PICK p : p = x.proc
    OBVIOUS
  <2>2. PICK i : i = push_off(x).intena
    OBVIOUS
  <2>3. PICK r : r = [P[p] EXCEPT !.state = "RUNNABLE", !.trapped = TRUE, !.intena = i]
    OBVIOUS
  <2>4. p \in Procs /\ proc' = [P EXCEPT ![p] = r]
    BY <1>2, <2>1, <2>2, <2>3 DEF Yield
  <2>5. r.chan = P[p].chan
    BY <2>3, <2>4 DEF ProcRec
  <2>6. \A q \in Procs : proc'[q].chan = P[q].chan
    BY <2>4, <2>5
  <2> QED BY <2>6 DEF SleepsOK
<1> QED BY <1>1, <1>2

\* Steps that touch neither ring nor the UART.
LEMMA HartWaits ==
  ASSUME ControlInv, WaitInv, NEW h \in Harts,
         spin(h) \/ consoleintr_print(h) \/ clockintr(h) \/ tick(h) \/ kerneltrap_end(h)
  PROVE  WaitInv'
<1>0. {"consoleintr", "clockintr", "iret"} \subseteq Ats \ {"none"} /\ {"ticks", "cons.r"} \subseteq Chans \ {"none"}
  BY DEF Ats, Chans
<1>1. proc' = proc => SleepsOK
  BY DEF SleepsOK
<1>2. cpu[h] \in CpuRec /\ proc \in [Procs -> ProcRec]
  BY DEF ControlInv, Control
<1>3. CASE spin(h)
  <2>1. ~ Sending(h) /\ UNCHANGED <<cons, tx, uart, plic>> /\ proc' = proc
    BY <1>3 DEF spin, Sending
  <2> QED BY <1>1, <1>3, <2>1, SpinStep, WaitSame
<1>4. CASE kerneltrap_end(h)
  <2>1. Handles(h, "iret") /\ UNCHANGED <<cons, tx, uart, plic>> /\ proc' = proc
    BY <1>4 DEF kerneltrap_end
  <2>2. ~ Sending(h)
    BY <1>0, <2>1, NotSending
  <2> QED BY <1>1, <1>4, <2>1, <2>2, KerneltrapStep, WaitSame
<1>5. CASE consoleintr_print(h)
  <2>1. Handles(h, "consoleintr") /\ UNCHANGED <<cons, tx, uart, plic>>
    BY <1>5 DEF consoleintr_print
  <2>2. ~ Sending(h)
    BY <1>0, <2>1, NotSending
  <2>3. SleepsOK
    <3>1. PICK p : p = cpu[h].proc
      OBVIOUS
    <3>2. proc' = proc \/ (p \in Procs /\ proc' = [proc EXCEPT ![p].killed = TRUE])
      BY <1>2, <1>5, <3>1 DEF consoleintr_print, sigint_default_handler, CpuRec
    <3>3. ASSUME p \in Procs, proc' = [proc EXCEPT ![p].killed = TRUE] PROVE SleepsOK
      <4>1. PICK r : r = [proc[p] EXCEPT !.killed = TRUE]
        OBVIOUS
      <4>2. r.chan = proc[p].chan /\ Becomes(p, r)
        BY <1>2, <3>3, <4>1 DEF ProcRec, Becomes
      <4> QED BY <3>3, <4>2, BecomesChans
    <3> QED BY <1>1, <3>2, <3>3
  <2> QED BY <1>5, <2>1, <2>2, <2>3, ConsolePrintStep, WaitSame
<1>6. CASE clockintr(h)
  <2>1. Interruptible(h) /\ UNCHANGED <<cons, tx, uart, plic>>
    BY <1>6 DEF clockintr
  <2>2. ~ Sending(h)
    BY <2>1, NotSending
  <2>3. SleepsOK
    <3>1. CASE h = timer
      BY <1>1, <1>6, <3>1 DEF clockintr
    <3>2. CASE h # timer
      <4>1. PICK x : x = Trapped(cpu[h], "clockintr")
        OBVIOUS
      <4>2. x.proc \in Procs \cup {None}
        BY <1>2, <4>1 DEF Trapped, CpuRec
      <4>3. Yield(h, x, proc)
        BY <1>6, <3>2, <4>1 DEF clockintr
      <4> QED BY <1>2, <4>2, <4>3, YieldChans
    <3> QED BY <3>1, <3>2
  <2> QED BY <1>6, <2>1, <2>2, <2>3, ClockStep, WaitSame
<1>7. CASE tick(h)
  <2>1. Handles(h, "clockintr") /\ UNCHANGED <<cons, tx, uart, plic>>
    BY <1>7 DEF tick
  <2>2. ~ Sending(h)
    BY <1>0, <2>1, NotSending
  <2>3. SleepsOK
    <3>1. PICK x : x = pop_off(cpu[h])
      OBVIOUS
    <3>2. cpu[h].noff \in {1, 2}
      <4>1. AtLocks("clockintr") # {} /\ "clockintr" \in Ats
        BY DEF AtLocks, Ats
      <4> QED BY <2>1, <4>1, Handling
    <3>3. x.proc \in Procs \cup {None}
      <4>1. x \in CpuRec
        BY <1>2, <3>1, <3>2, PopOffAt
      <4> QED BY <4>1 DEF CpuRec
    <3>4. PICK P : P = Wakeup("ticks")
      OBVIOUS
    <3>5. P \in [Procs -> ProcRec] /\ \A p \in Procs : P[p].chan \in {proc[p].chan, "none"}
      BY <1>0, <3>4, WakeupQuiet, WakeupChans DEF Quiet
    <3>6. Yield(h, x, P)
      BY <1>7, <3>1, <3>4 DEF tick
    <3> QED BY <3>3, <3>5, <3>6, YieldChans
  <2> QED BY <1>7, <2>1, <2>2, <2>3, TickStep, WaitSame
<1> QED BY <1>3, <1>4, <1>5, <1>6, <1>7

LEMMA CallWaits ==
  ASSUME ControlInv, WaitInv, NEW h \in Harts, NEW p \in Procs, Steps(h),
         NEW a \in {"user", "read", "write", "nap"}, Executes(h, p, a), NEW l, NEW d, NEW q \in ProcRec,
         q.chan = proc[p].chan, AcquireIn(h, p, l, d, q)
  PROVE  WaitInv'
<1>1. a \in Pcs \ {"uartstart"}
  BY DEF Pcs
<1>2. ~ Sending(h)
  BY <1>1, NotSending
<1>3. SleepsOK
  BY AcquireChans
<1>4. UNCHANGED <<cons, tx, uart, plic>>
  BY DEF AcquireIn
<1> QED BY <1>2, <1>3, <1>4, WaitSame

LEMMA ProcessWaits ==
  ASSUME ControlInv, WaitInv, NEW h \in Harts, NEW p \in Procs,
         \/ scheduler(h, p) \/ exit(h, p) \/ (\E n \in ReadSizes : read(h, p, n))
         \/ read_again(h, p) \/ write(h, p) \/ write_again(h, p)
         \/ print(h, p) \/ nap(h, p) \/ nap_again(h, p) \/ sys_sleep(h, p)
  PROVE  WaitInv'
<1>0. proc \in [Procs -> ProcRec] /\ proc[p] \in ProcRec /\ {"user", "sys_sleep"} \subseteq Pcs \ {"uartstart"}
  BY DEF ControlInv, Control, Pcs
<1>1. CASE scheduler(h, p)
  <2>1. ~ Sending(h)
    BY <1>1 DEF scheduler, Sending, PcOn
  <2>2. PICK r : r = [proc[p] EXCEPT !.state = "RUNNING", !.trapped = FALSE, !.intena = TRUE]
    OBVIOUS
  <2>3. Becomes(p, r) /\ r.chan = proc[p].chan
    BY <1>0, <1>1, <2>2 DEF scheduler, Becomes, ProcRec
  <2>4. SleepsOK /\ UNCHANGED <<cons, tx, uart, plic>>
    BY <1>1, <2>3, BecomesChans DEF scheduler
  <2> QED BY <1>1, <2>1, <2>4, SchedulerStep, WaitSame
<1>2. CASE exit(h, p)
  <2>1. ~ Sending(h)
    BY <1>0, <1>2, NotSending DEF exit
  <2>2. PICK r : r = [proc[p] EXCEPT !.state = "ZOMBIE"]
    OBVIOUS
  <2>3. Becomes(p, r) /\ r.chan = proc[p].chan
    BY <1>0, <1>2, <2>2 DEF exit, Becomes, ProcRec
  <2>4. SleepsOK /\ UNCHANGED <<cons, tx, uart, plic>>
    BY <1>2, <2>3, BecomesChans DEF exit
  <2> QED BY <1>2, <2>1, <2>4, ExitStep, WaitSame
<1>3. CASE \E n \in ReadSizes : read(h, p, n)
  <2>1. PICK n \in ReadSizes : read(h, p, n)
    BY <1>3
  <2>2. PICK q : q = [proc[p] EXCEPT !.n = n, !.got = 0]
    OBVIOUS
  <2>3. q \in ProcRec /\ q.chan = proc[p].chan
    <3>1. n \in Nat
      BY ConsoleAssumption
    <3> QED BY <1>0, <2>2, <3>1 DEF ProcRec
  <2>4. Executes(h, p, "user") /\ AcquireIn(h, p, "cons", "read_loop", q)
    BY <2>1, <2>2 DEF read, Syscall
  <2> QED BY <2>1, <2>3, <2>4, ReadStep, CallWaits
<1>4. CASE read_again(h, p)
  BY <1>0, <1>4, ProcessControl, CallWaits DEF read_again
<1>5. CASE write(h, p)
  BY <1>0, <1>5, ProcessControl, CallWaits DEF write, Syscall
<1>6. CASE write_again(h, p)
  BY <1>0, <1>6, ProcessControl, CallWaits DEF write_again
<1>7. CASE print(h, p)
  BY <1>0, <1>7, ProcessControl, CallWaits DEF print, Syscall
<1>8. CASE nap(h, p)
  BY <1>0, <1>8, ProcessControl, CallWaits DEF nap, Syscall
<1>9. CASE nap_again(h, p)
  BY <1>0, <1>9, ProcessControl, CallWaits DEF nap_again
<1>10. CASE sys_sleep(h, p)
  <2>1. ~ Sending(h)
    BY <1>0, <1>10, NotSending DEF sys_sleep
  <2>2. UNCHANGED <<cons, tx, uart, plic>> /\ (ReturnFrom(h, p, "tickslock") \/ sleep(h, p, "ticks", "tickslock", "nap"))
    BY <1>10 DEF sys_sleep, sleep
  <2>3. SleepsOK
    BY <2>2, ReturnChans, SleepChans
  <2> QED BY <1>10, <2>1, <2>2, <2>3, SysSleepStep, WaitSame
<1> QED BY <1>1, <1>2, <1>3, <1>4, <1>5, <1>6, <1>7, <1>8, <1>9, <1>10

\* Steps that touch the output ring or the UART.
LEMMA SendWaits == ASSUME ControlInv, WaitInv, Sends, SendOne PROVE WaitInv'
<1>1. TxInv' /\ uart'.thr # 0
  BY SendKeeps DEF WaitInv
<1>2. "uart_tx_r" \in Chans /\ "uart_tx_r" # "none"
  BY DEF Chans
<1>3. proc' = Wakeup("uart_tx_r") /\ cons' = cons
  BY DEF SendOne
<1>4. \A p \in Procs : proc'[p].chan \in {proc[p].chan, "none"} /\ proc'[p].chan # "uart_tx_r"
  BY <1>2, <1>3, WakeupChans
<1>5. ReadersWait'
  BY <1>3, <1>4 DEF ReadersWait, WaitInv
<1>6. WritersWait'
  BY <1>4 DEF WritersWait
<1>7. PendingInv'
  BY <1>1 DEF PendingInv, Idle
<1> QED BY <1>1, <1>5, <1>6, <1>7 DEF WaitInv

\* uartstart() returns: the ring is empty, or the UART is busy.
LEMMA StopWaits ==
  ASSUME ControlInv, WaitInv, ~ Sends, uart' = Stopped, tx' = tx, cons' = cons, SleepsOK
  PROVE  WaitInv'
<1>1. TxInv'
  BY StoppedKeeps DEF WaitInv
<1>2. ReadersWait'
  BY DEF ReadersWait, SleepsOK, WaitInv
<1>3. WritersWait'
  BY DEF WritersWait, SleepsOK, WaitInv, Full
<1>4. tx.r = tx.w \/ ~ Idle
  BY DEF Sends
<1>5. uart'.thr = uart.thr
  <2>1. uart \in UartRec
    BY DEF WaitInv, TxInv
  <2> QED BY <2>1 DEF Stopped, UartRec
<1>6. PendingInv'
  BY <1>4, <1>5 DEF PendingInv, Idle
<1> QED BY <1>1, <1>2, <1>3, <1>6 DEF WaitInv

LEMMA UartstartWaits ==
  ASSUME ControlInv, WaitInv, NEW h \in Harts,
         handler_uartstart(h) \/ \E p \in Procs : uartstart(h, p)
  PROVE  WaitInv'
<1>1. CASE Sends
  BY <1>1, SendWaits DEF handler_uartstart, uartstart
<1>2. CASE ~ Sends
  <2>1. uart' = Stopped /\ tx' = tx /\ cons' = cons
    BY <1>2 DEF handler_uartstart, uartstart
  <2>2. SleepsOK
    <3>1. CASE handler_uartstart(h)
      BY <1>2, <3>1 DEF handler_uartstart, SleepsOK
    <3>2. ASSUME NEW p \in Procs, uartstart(h, p) PROVE SleepsOK
      <4>1. ReturnFrom(h, p, "uart_tx")
        BY <1>2, <3>2 DEF uartstart
      <4> QED BY <4>1, ReturnChans
    <3> QED BY <3>1, <3>2
  <2> QED BY <1>2, <2>1, <2>2, StopWaits
<1> QED BY <1>1, <1>2

LEMMA UartputcWaits ==
  ASSUME ControlInv, WaitInv, NEW h \in Harts, NEW p \in Procs, uartputc(h, p)
  PROVE  WaitInv'
<1>1. Executes(h, p, "uartputc") /\ "uartputc" \in Pcs \ {"uartstart"} /\ proc \in [Procs -> ProcRec]
  BY DEF uartputc, Pcs, ControlInv, Control
<1>2. CASE Full
  <2>1. sleep(h, p, "uart_tx_r", "uart_tx", "write")
    BY <1>2 DEF uartputc
  <2>2. SleepsOK /\ UNCHANGED <<cons, tx, uart, plic>>
    BY <1>2, <2>1, SleepChans DEF sleep
  <2>3. ~ Sending(h)
    BY <1>1, NotSending
  <2> QED BY <2>2, <2>3, UartputcStep, WaitSame
<1>3. CASE ~ Full
  <2>1. /\ tx' = [tx EXCEPT !.buf[tx.w % UART_TX_BUF_SIZE] = tx.w + 1, !.w = @ + 1]
        /\ proc' = [proc EXCEPT ![p].pc = "uartstart"] /\ UNCHANGED <<cpu, cons, uart, plic>>
    BY <1>3 DEF uartputc
  <2>2. TxInv' /\ tx'.r = tx.r
    BY <1>3, <2>1, StoreKeeps DEF WaitInv
  <2>3. (\A q \in Procs : proc'[q].chan = proc[q].chan) /\ proc'[p].pc = "uartstart"
    BY <1>1, <2>1 DEF ProcRec
  <2>4. ReadersWait'
    BY <2>1, <2>3 DEF ReadersWait, WaitInv
  <2>5. WritersWait'
    BY <1>3, <2>3 DEF WritersWait, WaitInv, Full
  <2>6. Sending(h)'
    <3>1. cpu[h].want = "none" /\ cpu[h].proc = p /\ p # None
      BY <1>1, ConsoleAssumption DEF Executes
    <3> QED BY <2>1, <2>3, <3>1 DEF Sending, PcOn
  <2>7. PendingInv'
    BY <2>6 DEF PendingInv, Sender
  <2> QED BY <2>2, <2>4, <2>5, <2>7 DEF WaitInv
<1> QED BY <1>2, <1>3

-----------------------------------------------------------------------------
(* The input ring.                                                         *)

\* What the counters of the code say of those they stand for.
LEMMA RingCounts ==
  ASSUME NEW R \in Int, NEW W \in Int, NEW E \in Int, RingAt(cons, R, W, E)
  PROVE  /\ Used = E - R /\ Pending = E - W /\ (cons.w - cons.r) % UINT = W - R
         /\ cons.r = cons.w <=> R = W
         /\ cons.e = cons.w <=> E = W
<1>1. /\ R <= W /\ W <= E /\ E <= R + INPUT_BUF_SIZE
      /\ cons.r = R % UINT /\ cons.w = W % UINT /\ cons.e = E % UINT
  BY DEF RingAt
<1>2. /\ E - R \in 0..(UINT - 1) /\ E - W \in 0..(UINT - 1) /\ W - R \in 0..(UINT - 1)
      /\ R - R = 0 /\ W - W = 0
  BY <1>1, Sizes
<1>3. UINT > 0
  BY Sizes
<1>4. ((E % UINT) - (R % UINT)) % UINT = E - R
  BY <1>2, <1>3, Sizes, ModDiff
<1>5. ((E % UINT) - (W % UINT)) % UINT = E - W
  BY <1>2, <1>3, Sizes, ModDiff
<1>6. ((W % UINT) - (R % UINT)) % UINT = W - R
  BY <1>2, <1>3, Sizes, ModDiff
<1>7. ((R % UINT) - (R % UINT)) % UINT = R - R /\ ((W % UINT) - (W % UINT)) % UINT = W - W
  <2>1. R - R \in 0..(UINT - 1) /\ W - W \in 0..(UINT - 1)
    BY <1>2, <1>3, Sizes
  <2> QED BY <1>3, <2>1, Sizes, ModDiff
<1>8. cons.r = cons.w <=> R = W
  <2>1. cons.r = cons.w => W - R = 0
    BY <1>1, <1>2, <1>6, <1>7
  <2> QED BY <1>1, <2>1
<1>9. cons.e = cons.w <=> E = W
  <2>1. cons.e = cons.w => E - W = 0
    BY <1>1, <1>2, <1>5, <1>7
  <2> QED BY <1>1, <2>1
<1> QED BY <1>1, <1>4, <1>5, <1>6, <1>8, <1>9 DEF Used, Pending

\* The ring as the property has it.
LEMMA RingInput == ASSUME RingInv PROVE InputInv /\ (Used = INPUT_BUF_SIZE => cons.r # cons.w)
<1>1. PICK R \in Int, W \in Int, E \in Int : RingAt(cons, R, W, E)
  BY DEF RingInv
<1>2. /\ Used = E - R /\ Pending = E - W /\ (cons.w - cons.r) % UINT = W - R
      /\ (cons.r = cons.w <=> R = W)
  BY <1>1, RingCounts
<1>3. cons \in ConsRec /\ cons.typed \in Seq(Characters) /\ cons.line \in Seq(Characters)
  BY DEF RingInv, ConsRec
<1>4. UINT > 0
  BY Sizes
<1>5. ASSUME NEW K \in Int, NEW n \in Nat, NEW s \in Seq(Characters), Len(s) = n,
             \A j \in 1..n : s[j] = cons.buf[(K + j - 1) % INPUT_BUF_SIZE]
      PROVE  s = [j \in 1..n |-> At(((K % UINT) + j - 1) % UINT)]
  <2>1. ASSUME NEW j \in 1..n PROVE s[j] = At(((K % UINT) + j - 1) % UINT)
    <3>1. PICK d \in Int : d = j - 1
      OBVIOUS
    <3>2. PICK k \in Int : k = K % UINT
      BY <1>4, Sizes
    <3>3. (k + d) % UINT = (K + d) % UINT
      BY <1>4, <3>2, Sizes, ModShift
    <3>4. PICK m \in Int : m = K + d
      OBVIOUS
    <3>5. (m % UINT) % INPUT_BUF_SIZE = m % INPUT_BUF_SIZE
      BY <1>4, Sizes, ModMod
    <3>6. k + j - 1 = k + d /\ K + j - 1 = m
      BY <3>1, <3>4
    <3>7. At((k + j - 1) % UINT) = cons.buf[m % INPUT_BUF_SIZE]
      BY <3>3, <3>4, <3>5, <3>6 DEF At
    <3>8. s[j] = cons.buf[m % INPUT_BUF_SIZE]
      BY <1>5, <3>6
    <3> QED BY <3>2, <3>7, <3>8
  <2>2. s = [j \in 1..n |-> s[j]]
    BY <1>5
  <2> QED BY <2>1, <2>2
<1>6. W - R \in Nat /\ E - W \in Nat /\ E - R <= INPUT_BUF_SIZE
  BY <1>1, Sizes DEF RingAt
<1>7. cons.typed = [j \in 1..(W - R) |-> At((cons.r + j - 1) % UINT)]
  <2>1. PICK n \in Nat : n = W - R
    BY <1>6
  <2>2. Len(cons.typed) = n /\ \A j \in 1..n : cons.typed[j] = cons.buf[(R + j - 1) % INPUT_BUF_SIZE]
    BY <1>1, <2>1 DEF RingAt
  <2>3. cons.typed = [j \in 1..n |-> At(((R % UINT) + j - 1) % UINT)]
    BY <1>3, <1>5, <2>2, Zenon
  <2>4. cons.r = R % UINT
    BY <1>1 DEF RingAt
  <2> QED BY <2>1, <2>3, <2>4
<1>8. cons.line = [j \in 1..(E - W) |-> At((cons.w + j - 1) % UINT)]
  <2>1. PICK n \in Nat : n = E - W
    BY <1>6
  <2>2. Len(cons.line) = n /\ \A j \in 1..n : cons.line[j] = cons.buf[(W + j - 1) % INPUT_BUF_SIZE]
    BY <1>1, <2>1 DEF RingAt
  <2>3. cons.line = [j \in 1..n |-> At(((W % UINT) + j - 1) % UINT)]
    BY <1>3, <1>5, <2>2, Zenon
  <2>4. cons.w = W % UINT
    BY <1>1 DEF RingAt
  <2> QED BY <2>1, <2>3, <2>4
<1>9. Len(cons.typed) + Len(cons.line) <= INPUT_BUF_SIZE
  <2>1. Len(cons.typed) = W - R /\ Len(cons.line) = E - W
    BY <1>1 DEF RingAt
  <2> QED BY <1>6, <2>1, Sizes
<1>10. InputInv
  BY <1>2, <1>7, <1>8, <1>9 DEF InputInv
<1>11. Used = INPUT_BUF_SIZE => cons.r # cons.w
  <2>1. E = R + INPUT_BUF_SIZE => R # W
    BY <1>1 DEF RingAt
  <2> QED BY <1>2, <2>1, Sizes
<1> QED BY <1>10, <1>11

\* consoleread() takes a character.
LEMMA ReadRing ==
  ASSUME RingInv, cons.r # cons.w, cons' = [cons EXCEPT !.r = Plus(@, 1), !.typed = Tail(@)]
  PROVE  RingInv'
<1>1. PICK R \in Int, W \in Int, E \in Int : RingAt(cons, R, W, E)
  BY DEF RingInv
<1>2. R # W
  BY <1>1, RingCounts
<1>3. /\ R <= W /\ W <= E /\ E <= R + INPUT_BUF_SIZE /\ Len(cons.typed) = W - R
      /\ cons \in ConsRec /\ cons.typed \in Seq(Characters) /\ UINT > 0
  <2>1. cons \in ConsRec
    BY DEF RingInv
  <2>2. cons.typed \in Seq(Characters)
    BY <2>1 DEF ConsRec
  <2> QED BY <1>1, <2>1, <2>2, Sizes DEF RingAt
<1>4. PICK t : t = Tail(cons.typed)
  OBVIOUS
<1>5. cons.typed # <<>>
  <2>1. Len(cons.typed) # 0
    BY <1>2, <1>3
  <2> QED BY <2>1
<1>6. t \in Seq(Characters) /\ Len(t) = W - (R + 1) /\ \A j \in 1..(W - (R + 1)) : t[j] = cons.typed[j + 1]
  <2>1. t \in Seq(Characters) /\ Len(t) = Len(cons.typed) - 1 /\ \A j \in 1..Len(t) : t[j] = cons.typed[j + 1]
    BY <1>3, <1>4, <1>5, HeadTailProperties
  <2>2. Len(t) = W - (R + 1)
    BY <1>3, <2>1
  <2> QED BY <2>1, <2>2
<1>7. PICK r \in Int : r = Plus(cons.r, 1)
  <2>1. cons.r \in Int
    BY <1>3 DEF ConsRec
  <2> QED BY <1>3, <2>1, Sizes DEF Plus
<1>8. r = (R + 1) % UINT
  <2>1. PICK d \in Int : d = 1
    OBVIOUS
  <2>2. ((R % UINT) + d) % UINT = (R + d) % UINT
    BY <1>3, Sizes, ModShift
  <2>3. cons.r = R % UINT
    BY <1>1 DEF RingAt
  <2> QED BY <1>7, <2>1, <2>2, <2>3 DEF Plus
<1>9. cons' = [cons EXCEPT !.r = r, !.typed = t]
  BY <1>4, <1>7
<1>10. /\ cons' \in ConsRec /\ cons'.r = r /\ cons'.typed = t /\ cons'.w = cons.w /\ cons'.e = cons.e
       /\ cons'.line = cons.line /\ cons'.buf = cons.buf
  BY <1>3, <1>6, <1>9 DEF ConsRec
<1>11. ASSUME NEW j \in 1..(W - (R + 1)) PROVE t[j] = cons.buf[((R + 1) + j - 1) % INPUT_BUF_SIZE]
  <2>1. j + 1 \in 1..(W - R) /\ R + (j + 1) - 1 = (R + 1) + j - 1
    OBVIOUS
  <2>2. cons.typed[j + 1] = cons.buf[(R + (j + 1) - 1) % INPUT_BUF_SIZE]
    BY <1>1, <2>1 DEF RingAt
  <2> QED BY <1>6, <2>1, <2>2
<1>12. /\ R + 1 <= W /\ E <= (R + 1) + INPUT_BUF_SIZE /\ E # (R + 1) + INPUT_BUF_SIZE /\ R + 1 \in Int
  BY <1>2, <1>3, Sizes
<1>13. RingAt(cons', R + 1, W, E)
  BY <1>1, <1>3, <1>6, <1>8, <1>10, <1>11, <1>12 DEF RingAt
<1> QED BY <1>10, <1>12, <1>13 DEF RingInv

\* An editing key takes characters back.
LEMMA ErasedIn == ASSUME RingInv, NEW k PROVE Erased(k) \in 0..Pending
<1>1. PICK R \in Int, W \in Int, E \in Int : RingAt(cons, R, W, E)
  BY DEF RingInv
<1>2. Pending = E - W /\ (cons.e = cons.w <=> E = W) /\ W <= E
  BY <1>1, RingCounts DEF RingAt
<1>3. PICK n \in Nat : n = Pending
  BY <1>2
<1>4. CASE k # "^U"
  BY <1>2, <1>3, <1>4 DEF Erased
<1>5. CASE k = "^U"
  <2> DEFINE Stops(m) == At((cons.e - m - 1) % UINT) = "nl"
  <2>1. PICK T : T = {m \in 0..n : m = n \/ Stops(m)}
    OBVIOUS
  <2>2. T \in SUBSET Nat /\ T # {}
    <3>1. n \in 0..n /\ \A m \in 0..n : m \in Nat
      OBVIOUS
    <3> HIDE DEF Stops
    <3> QED BY <2>1, <3>1
  <2>3. PICK m \in T : \A x \in T : m <= x
    BY <2>2, NatMin
  <2>4. cons.e \in Int
    BY DEF RingInv, ConsRec
  <2>5. ASSUME NEW i \in 1..m PROVE At((cons.e - i) % UINT) # "nl"
    <3>1. i - 1 \in 0..n /\ i - 1 \notin T
      BY <2>1, <2>3, <2>5
    <3>2. ~ Stops(i - 1)
      BY <2>1, <3>1
    <3>3. cons.e - (i - 1) - 1 = cons.e - i
      BY <2>4, <2>5
    <3> QED BY <3>2, <3>3
  <2>6. \E x \in 0..Pending : /\ \A i \in 1..x : At((cons.e - i) % UINT) # "nl"
                              /\ x = Pending \/ At((cons.e - x - 1) % UINT) = "nl"
    <3>1. m \in 0..Pending /\ (m = Pending \/ Stops(m))
      BY <1>3, <2>1, <2>3
    <3> QED BY <2>5, <3>1
  <2>7. Erased(k) = CHOOSE x \in 0..Pending : /\ \A i \in 1..x : At((cons.e - i) % UINT) # "nl"
                                              /\ x = Pending \/ At((cons.e - x - 1) % UINT) = "nl"
    BY <1>5 DEF Erased
  <2> QED BY <2>6, <2>7, Zenon
<1> QED BY <1>4, <1>5

LEMMA EraseRing ==
  ASSUME RingInv, NEW k, cons' = Erase(k)
  PROVE  RingInv' /\ cons'.r = cons.r /\ cons'.w = cons.w
<1>1. PICK R \in Int, W \in Int, E \in Int : RingAt(cons, R, W, E)
  BY DEF RingInv
<1>2. /\ R <= W /\ W <= E /\ E <= R + INPUT_BUF_SIZE /\ Len(cons.line) = E - W
      /\ cons \in ConsRec /\ cons.line \in Seq(Characters) /\ UINT > 0
  <2>1. cons \in ConsRec
    BY DEF RingInv
  <2>2. cons.line \in Seq(Characters)
    BY <2>1 DEF ConsRec
  <2> QED BY <1>1, <2>1, <2>2, Sizes DEF RingAt
<1>3. PICK n : n = Erased(k)
  OBVIOUS
<1>4. n \in 0..(E - W)
  BY <1>1, <1>3, ErasedIn, RingCounts
<1>5. PICK F \in Int : F = E - n
  BY <1>4
<1>6. W <= F /\ F <= E /\ Len(cons.line) - n = F - W /\ F - W \in Nat
  BY <1>2, <1>4, <1>5
<1>7. PICK s : s = SubSeq(cons.line, 1, F - W)
  OBVIOUS
<1>8. s \in Seq(Characters) /\ Len(s) = F - W /\ \A j \in 1..(F - W) : s[j] = cons.line[j]
  BY <1>2, <1>6, <1>7
<1>9. PICK e \in Int : e = (cons.e - n) % UINT
  <2>1. cons.e \in Int
    BY <1>2 DEF ConsRec
  <2>2. PICK x \in Int : x = cons.e - n
    BY <1>4, <2>1
  <2>3. x % UINT \in Int
    BY <1>2, Sizes
  <2> QED BY <2>2, <2>3
<1>10. e = F % UINT
  <2>1. PICK d \in Int : d = -n
    BY <1>4
  <2>2. ((E % UINT) + d) % UINT = (E + d) % UINT
    BY <1>2, Sizes, ModShift
  <2>3. cons.e = E % UINT /\ E % UINT \in Int
    BY <1>1, <1>2, Sizes DEF RingAt
  <2>4. (E % UINT) + d = cons.e - n /\ E + d = F
    BY <1>4, <1>5, <2>1, <2>3
  <2> QED BY <1>9, <2>2, <2>4
<1>11. cons' = [cons EXCEPT !.e = e, !.line = s]
  BY <1>3, <1>6, <1>7, <1>9 DEF Erase
<1>12. /\ cons' \in ConsRec /\ cons'.e = e /\ cons'.line = s /\ cons'.w = cons.w /\ cons'.r = cons.r
       /\ cons'.typed = cons.typed /\ cons'.buf = cons.buf
  BY <1>2, <1>8, <1>11 DEF ConsRec
<1>13. \A j \in 1..(F - W) : s[j] = cons.buf[(W + j - 1) % INPUT_BUF_SIZE]
  <2> SUFFICES ASSUME NEW j \in 1..(F - W) PROVE s[j] = cons.buf[(W + j - 1) % INPUT_BUF_SIZE]
    OBVIOUS
  <2>1. j \in 1..(E - W)
    BY <1>6
  <2>2. cons.line[j] = cons.buf[(W + j - 1) % INPUT_BUF_SIZE]
    BY <1>1, <2>1 DEF RingAt
  <2> QED BY <1>8, <2>2
<1>14. F <= R + INPUT_BUF_SIZE /\ (F = R + INPUT_BUF_SIZE => E = R + INPUT_BUF_SIZE)
  BY <1>2, <1>6, Sizes
<1>15. RingAt(cons', R, W, F)
  BY <1>1, <1>2, <1>6, <1>8, <1>10, <1>12, <1>13, <1>14 DEF RingAt
<1> QED BY <1>12, <1>15 DEF RingInv

\* consoleintr() stores a character.
LEMMA StoreRing ==
  ASSUME RingInv, NEW k \in Characters, Accepted(k), cons' = Store(k)
  PROVE  RingInv' /\ cons'.r = cons.r /\ (~ Whole(k) => cons'.w = cons.w)
<1>1. PICK R \in Int, W \in Int, E \in Int : RingAt(cons, R, W, E)
  BY DEF RingInv
<1>2. PICK c : c = Key(k)
  OBVIOUS
<1>3. c \in Characters
  BY <1>2 DEF Key, Characters
<1>4. cons \in ConsRec
  BY DEF RingInv
<1>5. /\ cons.buf \in [0..(INPUT_BUF_SIZE - 1) -> Characters]
      /\ cons.typed \in Seq(Characters) /\ cons.line \in Seq(Characters) /\ cons.e \in Int
  BY <1>4 DEF ConsRec
<1>6. Used = E - R
  BY <1>1, RingCounts
<1>7. R <= W /\ W <= E /\ E < R + INPUT_BUF_SIZE /\ UINT > 0
  <2>1. E - R < INPUT_BUF_SIZE
    BY <1>6 DEF Accepted
  <2> QED BY <1>1, <2>1, Sizes DEF RingAt
<1>8. PICK i : i = E % INPUT_BUF_SIZE
  OBVIOUS
<1>9. i \in 0..(INPUT_BUF_SIZE - 1)
  BY <1>8, Sizes
<1>10. cons.e % INPUT_BUF_SIZE = i
  <2>1. (E % UINT) % INPUT_BUF_SIZE = E % INPUT_BUF_SIZE
    BY <1>7, Sizes, ModMod
  <2>2. cons.e = E % UINT
    BY <1>1 DEF RingAt
  <2> QED BY <1>8, <2>1, <2>2
<1>11. PICK b : b = [cons.buf EXCEPT ![i] = c]
  OBVIOUS
<1>12. /\ b \in [0..(INPUT_BUF_SIZE - 1) -> Characters] /\ b[i] = c
       /\ \A j \in 0..(INPUT_BUF_SIZE - 1) : j # i => b[j] = cons.buf[j]
  BY <1>3, <1>5, <1>9, <1>11
<1>13. ASSUME NEW m \in R..(E - 1) PROVE b[m % INPUT_BUF_SIZE] = cons.buf[m % INPUT_BUF_SIZE]
  <2>1. m \in Int /\ E - m \in 1..(INPUT_BUF_SIZE - 1) /\ m + (E - m) = E
    BY <1>7, Sizes
  <2>2. m % INPUT_BUF_SIZE # (m + (E - m)) % INPUT_BUF_SIZE
    BY <2>1, Sizes, ModDiffer
  <2>3. PICK j : j = m % INPUT_BUF_SIZE
    OBVIOUS
  <2>4. j \in 0..(INPUT_BUF_SIZE - 1)
    BY <2>1, <2>3, Sizes
  <2> QED BY <1>8, <1>12, <2>1, <2>2, <2>3, <2>4
<1>14. PICK F \in Int : F = E + 1
  OBVIOUS
<1>15. PICK e \in Int : e = Plus(cons.e, 1)
  <2>1. PICK x \in Int : x = cons.e + 1
    BY <1>5
  <2>2. x % UINT \in Int
    BY <1>7, Sizes
  <2> QED BY <2>1, <2>2 DEF Plus
<1>16. e = F % UINT
  <2>1. PICK d \in Int : d = 1
    OBVIOUS
  <2>2. ((E % UINT) + d) % UINT = (E + d) % UINT
    BY <1>7, Sizes, ModShift
  <2>3. cons.e = E % UINT
    BY <1>1 DEF RingAt
  <2> QED BY <1>14, <1>15, <2>1, <2>2, <2>3 DEF Plus
<1>17. PICK x : x = [cons EXCEPT !.buf = b, !.e = e]
  OBVIOUS
<1>18. /\ x \in ConsRec /\ x.buf = b /\ x.e = e /\ x.r = cons.r /\ x.w = cons.w
       /\ x.typed = cons.typed /\ x.line = cons.line
  BY <1>4, <1>12, <1>17 DEF ConsRec
<1>19. x = [cons EXCEPT !.buf[cons.e % INPUT_BUF_SIZE] = Key(k), !.e = Plus(@, 1)]
  BY <1>2, <1>10, <1>11, <1>15, <1>17
<1>20. PICK l : l = Append(cons.line, c)
  OBVIOUS
<1>21. /\ Len(cons.typed) = W - R /\ \A j \in 1..(W - R) : cons.typed[j] = cons.buf[(R + j - 1) % INPUT_BUF_SIZE]
       /\ Len(cons.line) = E - W /\ \A j \in 1..(E - W) : cons.line[j] = cons.buf[(W + j - 1) % INPUT_BUF_SIZE]
  BY <1>1 DEF RingAt
<1>22. /\ l \in Seq(Characters) /\ Len(l) = F - W
       /\ \A j \in 1..(F - W) : l[j] = b[(W + j - 1) % INPUT_BUF_SIZE]
  <2>1. l \in Seq(Characters) /\ Len(l) = Len(cons.line) + 1
        /\ l[Len(cons.line) + 1] = c /\ \A j \in 1..Len(cons.line) : l[j] = cons.line[j]
    BY <1>3, <1>5, <1>20
  <2>2. Len(l) = F - W
    BY <1>7, <1>14, <1>21, <2>1
  <2>3. ASSUME NEW j \in 1..(F - W) PROVE l[j] = b[(W + j - 1) % INPUT_BUF_SIZE]
    <3>1. PICK m : m = W + j - 1
      OBVIOUS
    <3>2. CASE j = F - W
      <4>1. m = E /\ j = Len(cons.line) + 1
        BY <1>14, <1>21, <3>1, <3>2
      <4> QED BY <1>8, <1>12, <2>1, <3>1, <4>1
    <3>3. CASE j # F - W
      <4>1. j \in 1..(E - W) /\ m \in R..(E - 1)
        BY <1>7, <1>14, <3>1, <3>3
      <4> QED BY <1>13, <1>21, <2>1, <3>1, <4>1
    <3> QED BY <3>2, <3>3
  <2> QED BY <2>1, <2>2, <2>3
<1>23. \A j \in 1..(W - R) : cons.typed[j] = b[(R + j - 1) % INPUT_BUF_SIZE]
  <2> SUFFICES ASSUME NEW j \in 1..(W - R) PROVE cons.typed[j] = b[(R + j - 1) % INPUT_BUF_SIZE]
    OBVIOUS
  <2>1. PICK m : m = R + j - 1
    OBVIOUS
  <2>2. m \in R..(E - 1)
    BY <1>7, <2>1
  <2> QED BY <1>13, <1>21, <2>1, <2>2
<1>24. W <= F /\ R <= F /\ F <= R + INPUT_BUF_SIZE
  BY <1>7, <1>14, Sizes
<1>25. CASE ~ Whole(k)
  <2>1. cons' = [x EXCEPT !.line = l]
    BY <1>2, <1>18, <1>19, <1>20, <1>25 DEF Store
  <2>2. /\ cons' \in ConsRec /\ cons'.buf = b /\ cons'.e = e /\ cons'.r = cons.r /\ cons'.w = cons.w
        /\ cons'.typed = cons.typed /\ cons'.line = l
    BY <1>18, <1>22, <2>1 DEF ConsRec
  <2>3. F # R + INPUT_BUF_SIZE
    <3>1. Plus(Used, 1) # INPUT_BUF_SIZE
      BY <1>25 DEF Whole
    <3>2. Used + 1 \in 0..(UINT - 1) /\ Used + 1 = F - R
      BY <1>6, <1>7, <1>14, Sizes
    <3>3. Plus(Used, 1) = F - R
      BY <1>7, <3>2, Sizes, ModSmall DEF Plus
    <3> QED BY <3>1, <3>3, Sizes
  <2>4. cons.r = R % UINT /\ cons.w = W % UINT
    BY <1>1 DEF RingAt
  <2>5. RingAt(cons', R, W, F)
    BY <1>7, <1>16, <1>21, <1>22, <1>23, <1>24, <2>2, <2>3, <2>4 DEF RingAt
  <2> QED BY <2>2, <2>5 DEF RingInv
<1>26. CASE Whole(k)
  <2>1. PICK t : t = cons.typed \o l
    OBVIOUS
  <2>2. cons' = [x EXCEPT !.w = e, !.line = <<>>, !.typed = t]
    BY <1>2, <1>18, <1>19, <1>20, <1>26, <2>1 DEF Store
  <2>3. t \in Seq(Characters) /\ Len(t) = Len(cons.typed) + Len(l)
        /\ \A j \in 1..(Len(cons.typed) + Len(l)) :
             t[j] = IF j <= Len(cons.typed) THEN cons.typed[j] ELSE l[j - Len(cons.typed)]
    BY <1>5, <1>22, <2>1, ConcatProperties
  <2>4. Len(t) = F - R
    BY <1>21, <1>22, <2>3
  <2>5. ASSUME NEW j \in 1..(F - R) PROVE t[j] = b[(R + j - 1) % INPUT_BUF_SIZE]
    <3>1. t[j] = IF j <= W - R THEN cons.typed[j] ELSE l[j - (W - R)]
      BY <1>21, <2>3, <2>4
    <3>2. CASE j <= W - R
      <4>1. j \in 1..(W - R)
        BY <3>2
      <4> QED BY <1>23, <3>1, <3>2, <4>1
    <3>3. CASE ~ (j <= W - R)
      <4>1. PICK i2 : i2 = j - (W - R)
        OBVIOUS
      <4>2. i2 \in 1..(F - W) /\ W + i2 - 1 = R + j - 1
        BY <1>7, <3>3, <4>1
      <4> QED BY <1>22, <3>1, <3>3, <4>1, <4>2
    <3> QED BY <3>2, <3>3
  <2>6. <<>> \in Seq(Characters) /\ Len(<<>>) = 0
    OBVIOUS
  <2>7. PICK n : n = <<>>
    OBVIOUS
  <2>8. /\ cons' \in ConsRec /\ cons'.buf = b /\ cons'.e = e /\ cons'.r = cons.r /\ cons'.w = e
        /\ cons'.typed = t /\ cons'.line = n
    BY <1>18, <2>2, <2>3, <2>6, <2>7 DEF ConsRec
  <2>9. Len(n) = F - F /\ \A j \in 1..(F - F) : n[j] = b[(F + j - 1) % INPUT_BUF_SIZE]
    BY <2>6, <2>7
  <2>10. R # F /\ F <= F
    BY <1>7, <1>14
  <2>11. cons.r = R % UINT
    BY <1>1 DEF RingAt
  <2>12. RingAt(cons', R, F, F)
    BY <1>16, <1>24, <2>4, <2>5, <2>8, <2>9, <2>10, <2>11 DEF RingAt
  <2> QED BY <1>26, <2>8, <2>12 DEF RingInv
<1> QED BY <1>25, <1>26

-----------------------------------------------------------------------------
(* The other steps of the console and the UART.                            *)

\* A step that leaves the input ring, the output ring and the channels alone.
LEMMA UartWaits ==
  ASSUME ControlInv, WaitInv, NEW h \in Harts, Steps(h), ~ Sending(h), TxInv', plic' = plic \/ plic' # None,
         UNCHANGED <<cons, tx>>, ~ Idle \/ uart.empty => ~ Idle' \/ uart'.empty, SleepsOK
  PROVE  WaitInv'
<1>1. Local(h)
  BY DEF Steps
<1> QED BY <1>1, WaitKeep

LEMMA DevintrWaits == ASSUME ControlInv, WaitInv, NEW h \in Harts, devintr(h) PROVE WaitInv'
<1>1. Interruptible(h) /\ UNCHANGED <<cons, tx, uart, proc>> /\ plic' = h /\ h # None
  BY ConsoleAssumption DEF devintr
<1>2. ~ Sending(h)
  BY <1>1, NotSending
<1>3. TxInv'
  BY <1>1 DEF TxInv, WaitInv
<1>4. SleepsOK /\ (~ Idle \/ uart.empty => ~ Idle' \/ uart'.empty)
  BY <1>1 DEF SleepsOK, Idle
<1> QED BY <1>1, <1>2, <1>3, <1>4, DevintrStep, UartWaits

LEMMA UartintrWaits == ASSUME ControlInv, WaitInv, NEW h \in Harts, uartintr(h) PROVE WaitInv'
<1>1. Handles(h, "uartintr") /\ UNCHANGED <<cons, tx, plic, proc>> /\ "uartintr" \in Ats \ {"none"}
  BY DEF uartintr, Ats
<1>2. ~ Sending(h)
  BY <1>1, NotSending
<1>3. uart \in UartRec /\ uart.rx \in Seq(Characters) /\ uart.keys \in Seq(Characters)
  BY DEF WaitInv, TxInv, UartRec
<1>4. TxInv' /\ uart'.thr = uart.thr /\ uart'.empty = uart.empty
  <2>1. CASE uart.rx = <<>>
    <3>1. uart' = uart
      BY <2>1 DEF uartintr
    <3> QED BY <1>1, <3>1 DEF WaitInv, TxInv
  <2>2. CASE uart.rx # <<>>
    <3>1. PICK r : r = Tail(uart.rx)
      OBVIOUS
    <3>2. r \in Seq(Characters)
      BY <1>3, <2>2, <3>1, HeadTailProperties
    <3>3. uart' = [uart EXCEPT !.rx = r]
      BY <2>2, <3>1 DEF uartintr
    <3>4. uart' \in UartRec /\ uart'.thr = uart.thr /\ uart'.empty = uart.empty /\ uart'.sent = uart.sent
      BY <1>3, <3>2, <3>3 DEF UartRec
    <3> QED BY <1>1, <3>4, TxKeep DEF WaitInv
  <2> QED BY <2>1, <2>2
<1>5. SleepsOK /\ (~ Idle \/ uart.empty => ~ Idle' \/ uart'.empty)
  BY <1>1, <1>4 DEF SleepsOK, Idle
<1>6. Steps(h)
  BY UartintrStep DEF WaitInv
<1> QED BY <1>1, <1>2, <1>4, <1>5, <1>6, UartWaits

\* Output that does not use the ring: the UART is busy afterwards.
LEMMA PrintfWaits ==
  ASSUME ControlInv, WaitInv, NEW h \in Harts, handler_printf(h) \/ \E p \in Procs : printf(h, p)
  PROVE  WaitInv'
<1>1. Idle /\ uart' = Sync /\ UNCHANGED <<cons, tx, plic>>
  BY DEF handler_printf, printf
<1>2. TxInv' /\ uart'.thr = -1
  BY <1>1, SyncKeeps DEF WaitInv
<1>3. ~ Idle'
  <2>1. -1 # 0
    OBVIOUS
  <2> QED BY <1>2, <2>1 DEF Idle
<1>4. CASE handler_printf(h)
  <2>1. Handles(h, "printf") /\ "printf" \in Ats \ {"none"} /\ proc' = proc
    BY <1>4 DEF handler_printf, Ats
  <2>2. SleepsOK /\ ~ Sending(h)
    BY <2>1, NotSending DEF SleepsOK
  <2> QED BY <1>1, <1>2, <1>3, <1>4, <2>2, PrintfStep, UartWaits
<1>5. ASSUME NEW p \in Procs, printf(h, p) PROVE WaitInv'
  <2>1. Executes(h, p, "printf") /\ "printf" \in Pcs \ {"uartstart"} /\ ReturnFrom(h, p, "pr")
    BY <1>5 DEF printf, Pcs
  <2>2. SleepsOK /\ ~ Sending(h)
    BY <2>1, NotSending, ReturnChans
  <2>3. Steps(h)
    BY <1>5, ProcessControl
  <2> QED BY <1>1, <1>2, <1>3, <2>2, <2>3, UartWaits
<1> QED BY <1>4, <1>5

\* The UART.
LEMMA DeviceWaits == ASSUME ControlInv, WaitInv, type \/ transmit PROVE WaitInv'
<1>1. UNCHANGED <<cpu, proc, cons, tx, plic>>
  BY DEF type, transmit
<1>2. uart \in UartRec /\ uart.rx \in Seq(Characters) /\ uart.keys \in Seq(Characters)
  BY DEF WaitInv, TxInv, UartRec
<1>3. TxInv' /\ (~ Idle \/ uart.empty => ~ Idle' \/ uart'.empty)
  <2>1. CASE type
    <3>1. PICK r : r = <<Head(uart.keys)>>
      OBVIOUS
    <3>2. PICK s : s = Tail(uart.keys)
      OBVIOUS
    <3>3. r \in Seq(Characters) /\ s \in Seq(Characters)
      <4>1. uart.keys # <<>>
        BY <2>1 DEF type
      <4>2. Head(uart.keys) \in Characters /\ s \in Seq(Characters)
        BY <1>2, <3>2, <4>1, HeadTailProperties
      <4> QED BY <3>1, <4>2
    <3>4. uart' = [uart EXCEPT !.rx = r, !.keys = s]
      BY <2>1, <3>1, <3>2 DEF type
    <3>5. uart' \in UartRec /\ uart'.thr = uart.thr /\ uart'.empty = uart.empty /\ uart'.sent = uart.sent
      BY <1>2, <3>3, <3>4 DEF UartRec
    <3> QED BY <1>1, <3>5, TxKeep DEF WaitInv, Idle
  <2>2. CASE transmit
    <3>1. PICK n : n = IF uart.thr > 0 THEN uart.thr ELSE uart.sent
      OBVIOUS
    <3>2. uart' = [uart EXCEPT !.thr = 0, !.empty = TRUE, !.sent = n]
      BY <2>2, <3>1 DEF transmit
    <3>3. uart'.empty = TRUE
      BY <1>2, <3>2 DEF UartRec
    <3> QED BY <2>2, <3>3, TransmitKeeps DEF WaitInv
  <2> QED BY <2>1, <2>2
<1>4. Sender' = Sender
  BY <1>1 DEF Sender, Sending, PcOn
<1>5. PendingInv'
  BY <1>1, <1>3, <1>4 DEF PendingInv, WaitInv
<1> QED BY <1>1, <1>3, <1>5 DEF WaitInv, ReadersWait, WritersWait

\* consoleread(): a reader sleeps when there is nothing, and takes a character when nobody sleeps.
LEMMA ConsolereadKeeps ==
  ASSUME IInv, NEW h \in Harts, NEW p \in Procs, consoleread(h, p)
  PROVE  WaitInv' /\ RingInv'
<1>0. ControlInv /\ WaitInv /\ RingInv /\ proc \in [Procs -> ProcRec]
  BY DEF IInv, ControlInv, Control
<1>1. Executes(h, p, "read_loop") /\ "read_loop" \in Pcs \ {"uartstart"}
  BY DEF consoleread, Pcs
<1>2. ~ Sending(h)
  BY <1>0, <1>1, NotSending
<1>3. Steps(h)
  BY <1>0, ConsolereadStep
<1>4. CASE cons.r = cons.w /\ ~ proc[p].killed
  <2>1. sleep(h, p, "cons.r", "cons", "read")
    BY <1>4 DEF consoleread
  <2>2. SleepsOK /\ UNCHANGED <<cons, tx, uart, plic>>
    BY <1>0, <1>4, <2>1, SleepChans DEF sleep
  <2>3. WaitInv'
    BY <1>0, <1>2, <1>3, <2>2, WaitSame
  <2> QED BY <1>0, <2>2, <2>3 DEF RingInv
<1>5. CASE ~ (cons.r = cons.w /\ ~ proc[p].killed)
  <2>1. UNCHANGED <<tx, uart, plic>>
    BY <1>5, Zenon DEF consoleread
  <2>2. \/ cons' = cons
        \/ cons.r # cons.w /\ cons' = [cons EXCEPT !.r = Plus(@, 1), !.typed = Tail(@)]
    BY <1>5, Zenon DEF consoleread
  <2>3. \/ ReturnFrom(h, p, "cons")
        \/ proc' = [proc EXCEPT ![p].got = @ + 1]
    BY <1>5, Zenon DEF consoleread
  <2>4. \A q \in Procs : proc'[q].chan = proc[q].chan
    <3>1. CASE ReturnFrom(h, p, "cons")
      BY <1>0, <3>1 DEF ReturnFrom, ProcRec
    <3>2. CASE proc' = [proc EXCEPT ![p].got = @ + 1]
      BY <1>0, <3>2 DEF ProcRec
    <3> QED BY <2>3, <3>1, <3>2
  <2>5. SleepsOK
    BY <2>4 DEF SleepsOK
  <2>6. CASE cons' = cons
    <3>1. WaitInv'
      BY <1>0, <1>2, <1>3, <2>1, <2>5, <2>6, WaitSame
    <3> QED BY <1>0, <2>6, <3>1 DEF RingInv
  <2>7. CASE cons.r # cons.w /\ cons' = [cons EXCEPT !.r = Plus(@, 1), !.typed = Tail(@)]
    <3>1. RingInv'
      BY <1>0, <2>7, ReadRing
    <3>2. ReadersWait'
      BY <1>0, <2>4, <2>7 DEF ReadersWait, WaitInv
    <3>3. WritersWait' /\ TxInv'
      BY <1>0, <2>1, <2>4 DEF WritersWait, TxInv, WaitInv
    <3>4. Sender => Sender'
      BY <1>0, <1>2, <1>3, <2>1, SenderStays DEF Steps
    <3>5. PendingInv'
      BY <1>0, <2>1, <3>4 DEF PendingInv, Idle, WaitInv
    <3> QED BY <3>1, <3>2, <3>3, <3>5 DEF WaitInv
  <2> QED BY <2>2, <2>6, <2>7
<1> QED BY <1>4, <1>5

\* consoleintr(): who ends a line wakes the readers.
LEMMA ConsoleintrKeeps ==
  ASSUME IInv, NEW h \in Harts, consoleintr(h)
  PROVE  WaitInv' /\ RingInv'
<1>0. ControlInv /\ WaitInv /\ RingInv /\ cpu[h] \in CpuRec
  BY DEF IInv, ControlInv, Control
<1>1. Handles(h, "consoleintr") /\ "consoleintr" \in Ats \ {"none"} /\ UNCHANGED <<tx, plic>>
  BY DEF consoleintr, Ats
<1>2. ~ Sending(h)
  BY <1>0, <1>1, NotSending
<1>3. Local(h)
  BY <1>0, ConsoleintrStep DEF Steps
<1>4. TxInv' /\ (~ Idle \/ uart.empty => ~ Idle' \/ uart'.empty)
  <2>1. uart' = uart \/ (Idle /\ uart' = Sync)
    BY Zenon DEF consoleintr
  <2>2. CASE uart' = uart
    BY <1>0, <1>1, <2>2 DEF WaitInv, TxInv, Idle
  <2>3. CASE Idle /\ uart' = Sync
    <3>1. TxInv' /\ uart'.thr = -1
      BY <1>0, <1>1, <2>3, SyncKeeps DEF WaitInv
    <3>2. -1 # 0
      OBVIOUS
    <3> QED BY <3>1, <3>2 DEF Idle
  <2> QED BY <2>1, <2>2, <2>3
<1>5. PICK k : k = cpu[h].c
  OBVIOUS
<1>6. k \in Characters
  BY <1>0, <1>5 DEF CpuRec
<1>7. \/ cons' = cons /\ proc' = proc
      \/ cons' = Erase(k) /\ proc' = proc
      \/ Accepted(k) /\ cons' = Store(k) /\ proc' = IF Whole(k) THEN Wakeup("cons.r") ELSE proc
  BY <1>5, Zenon DEF consoleintr
<1>8. proc' = proc => SleepsOK
  BY DEF SleepsOK
<1>9. CASE cons' = cons /\ proc' = proc
  <2>1. WaitInv'
    BY <1>0, <1>1, <1>2, <1>3, <1>4, <1>8, <1>9, WaitKeep
  <2> QED BY <1>0, <1>9, <2>1 DEF RingInv
<1>10. CASE cons' = Erase(k) /\ proc' = proc
  <2>1. RingInv' /\ cons'.r = cons.r /\ cons'.w = cons.w
    BY <1>0, <1>10, EraseRing
  <2> QED BY <1>0, <1>1, <1>2, <1>3, <1>4, <1>8, <1>10, <2>1, WaitKeep
<1>11. CASE Accepted(k) /\ cons' = Store(k) /\ ~ Whole(k) /\ proc' = proc
  <2>1. RingInv' /\ cons'.r = cons.r /\ cons'.w = cons.w
    BY <1>0, <1>6, <1>11, StoreRing
  <2> QED BY <1>0, <1>1, <1>2, <1>3, <1>4, <1>8, <1>11, <2>1, WaitKeep
<1>12. CASE Accepted(k) /\ cons' = Store(k) /\ proc' = Wakeup("cons.r")
  <2>1. RingInv'
    BY <1>0, <1>6, <1>12, StoreRing
  <2>2. "cons.r" \in Chans /\ "cons.r" # "none"
    BY DEF Chans
  <2>3. \A p \in Procs : proc'[p].chan \in {proc[p].chan, "none"} /\ proc'[p].chan # "cons.r"
    BY <1>0, <1>12, <2>2, WakeupChans
  <2>4. ReadersWait'
    BY <2>3 DEF ReadersWait
  <2>5. WritersWait'
    BY <1>0, <1>1, <2>3 DEF WritersWait, WaitInv
  <2>6. Sender => Sender'
    BY <1>0, <1>1, <1>2, <1>3, SenderStays
  <2>7. PendingInv'
    BY <1>0, <1>1, <1>4, <2>6 DEF PendingInv, WaitInv
  <2> QED BY <1>4, <2>1, <2>4, <2>5, <2>7 DEF WaitInv
<1> QED BY <1>7, <1>9, <1>10, <1>11, <1>12

-----------------------------------------------------------------------------
(* The theorems.                                                           *)

LEMMA InitInv == Init => IInv
<1> SUFFICES ASSUME Init PROVE IInv
  OBVIOUS
<1>1. ControlInv
  BY InitControl
<1>2. PICK k \in Starts : cons = Ring(k)
  BY DEF Init
<1>3. k \in 0..(UINT - 1) /\ UINT > 0 /\ k \in Int
  BY ConsoleAssumption, Sizes
<1>4. /\ cons \in ConsRec /\ cons.r = k /\ cons.w = k /\ cons.e = k /\ cons.line = <<>> /\ cons.typed = <<>>
  <2>1. PICK b : b = [i \in 0..(INPUT_BUF_SIZE - 1) |-> ""]
    OBVIOUS
  <2>2. b \in [0..(INPUT_BUF_SIZE - 1) -> Characters]
    BY <2>1 DEF Characters
  <2>3. PICK n : n = <<>>
    OBVIOUS
  <2>4. n \in Seq(Characters)
    BY <2>3
  <2>5. cons = [buf |-> b, r |-> k, w |-> k, e |-> k, line |-> n, typed |-> n]
    BY <1>2, <2>1, <2>3 DEF Ring
  <2> QED BY <1>3, <2>2, <2>3, <2>4, <2>5 DEF ConsRec
<1>5. RingInv
  <2>1. k % UINT = k
    BY <1>3, Sizes, ModSmall
  <2>2. k - k = 0 /\ k <= k + INPUT_BUF_SIZE /\ k # k + INPUT_BUF_SIZE /\ k <= k
    BY <1>3, Sizes
  <2>3. RingAt(cons, k, k, k)
    BY <1>4, <2>1, <2>2 DEF RingAt
  <2> QED BY <1>3, <1>4, <2>3 DEF RingInv
<1>6. tx \in TxRec /\ tx.r = 0 /\ tx.w = 0
  BY DEF Init, TxRec
<1>7. PICK s \in Scripts : uart = uartinit(s)
  BY DEF Init
<1>8. s \in Seq(Characters)
  <2>1. s \in Seq(STRING)
    BY ConsoleAssumption
  <2>2. STRING \subseteq Characters
    BY DEF Characters
  <2> QED BY <2>1, <2>2, SeqMonotonic
<1>9. uart \in UartRec /\ uart.thr = 0 /\ uart.sent = 0
  <2>1. PICK n : n = <<>>
    OBVIOUS
  <2>2. n \in Seq(Characters)
    BY <2>1
  <2>3. uart = [keys |-> s, rx |-> n, thr |-> 0, empty |-> FALSE, sent |-> 0]
    BY <1>7, <2>1 DEF uartinit
  <2> QED BY <1>8, <2>2, <2>3 DEF UartRec
<1>10. TxInv
  BY <1>6, <1>9, Sizes DEF TxInv
<1>11. \A p \in Procs : proc[p].chan = "none"
  BY DEF Init, Ready
<1>12. ReadersWait /\ WritersWait /\ PendingInv
  BY <1>6, <1>11 DEF ReadersWait, WritersWait, PendingInv
<1> QED BY <1>1, <1>5, <1>10, <1>12 DEF IInv, WaitInv

LEMMA NextInv == ASSUME IInv, [Next]_vars PROVE IInv'
<1>0. ControlInv /\ WaitInv /\ RingInv /\ TxInv
  BY DEF IInv, WaitInv
<1>1. ControlInv'
  BY <1>0, NextControl
<1>2. cons' = cons => RingInv'
  BY <1>0 DEF RingInv
<1>3. CASE UNCHANGED vars
  <2>1. Sender' = Sender
    BY <1>3 DEF vars, Sender, Sending, PcOn
  <2>2. WaitInv'
    BY <1>0, <1>3, <2>1 DEF vars, WaitInv, TxInv, ReadersWait, WritersWait, PendingInv, Idle
  <2> QED BY <1>1, <1>2, <1>3, <2>2 DEF vars, IInv
<1>4. CASE type \/ transmit
  <2>1. cons' = cons
    BY <1>4 DEF type, transmit
  <2> QED BY <1>0, <1>1, <1>2, <1>4, <2>1, DeviceWaits DEF IInv
<1>5. ASSUME NEW h \in Harts,
        \/ spin(h) \/ devintr(h) \/ uartintr(h) \/ consoleintr_print(h)
        \/ handler_printf(h) \/ handler_uartstart(h) \/ clockintr(h) \/ tick(h) \/ kerneltrap_end(h)
      PROVE  IInv'
  <2>1. cons' = cons
    BY <1>5 DEF spin, devintr, uartintr, consoleintr_print, handler_printf, handler_uartstart, SendOne,
                clockintr, tick, kerneltrap_end
  <2>2. WaitInv'
    BY <1>0, <1>5, HartWaits, DevintrWaits, UartintrWaits, PrintfWaits, UartstartWaits
  <2> QED BY <1>1, <1>2, <2>1, <2>2 DEF IInv
<1>6. ASSUME NEW h \in Harts, consoleintr(h) PROVE IInv'
  BY <1>1, <1>6, ConsoleintrKeeps DEF IInv
<1>7. ASSUME NEW h \in Harts, NEW p \in Procs, consoleread(h, p) PROVE IInv'
  BY <1>1, <1>7, ConsolereadKeeps DEF IInv
<1>8. ASSUME NEW h \in Harts, NEW p \in Procs,
        \/ scheduler(h, p) \/ exit(h, p) \/ (\E n \in ReadSizes : read(h, p, n))
        \/ read_again(h, p) \/ write(h, p) \/ write_again(h, p)
        \/ print(h, p) \/ nap(h, p) \/ nap_again(h, p) \/ sys_sleep(h, p)
      PROVE  IInv'
  <2>1. cons' = cons
    BY <1>8 DEF scheduler, exit, read, read_again, write, write_again, print, nap, nap_again, sys_sleep,
                AcquireIn, sleep
  <2>2. WaitInv'
    BY <1>0, <1>8, ProcessWaits
  <2> QED BY <1>1, <1>2, <2>1, <2>2 DEF IInv
<1>9. ASSUME NEW h \in Harts, NEW p \in Procs, uartputc(h, p) \/ uartstart(h, p) \/ printf(h, p)
      PROVE  IInv'
  <2>1. cons' = cons
    BY <1>9 DEF uartputc, uartstart, printf, sleep, SendOne
  <2>2. WaitInv'
    BY <1>0, <1>9, UartputcWaits, UartstartWaits, PrintfWaits
  <2> QED BY <1>1, <1>2, <2>1, <2>2 DEF IInv
<1> QED BY <1>3, <1>4, <1>5, <1>6, <1>7, <1>8, <1>9 DEF Next

\* The inductive invariant holds always.
LEMMA Inductive == Spec => []IInv
<1>1. Init => IInv
  BY InitInv
<1>2. IInv /\ [Next]_vars => IInv'
  BY NextInv
<1> QED BY <1>1, <1>2, PTL DEF Spec

\* Who is in uartstart() has the lock.
LEMMA WaitsFor == IInv => NoLostWakeup
<1> SUFFICES ASSUME IInv PROVE NoLostWakeup
  OBVIOUS
<1>1. ControlInv /\ WaitInv /\ RingInv
  BY DEF IInv
<1>2. Used = INPUT_BUF_SIZE => cons.r # cons.w
  BY <1>1, RingInput
<1>3. tx.r # tx.w => ~ Idle \/ uart.empty \/ plic # None \/ lk["uart_tx"] # None
  <2>1. ASSUME NEW h \in Harts, Sending(h) PROVE lk["uart_tx"] # None
    <3>1. PcLocks("uartstart") = {"uart_tx"} /\ "uart_tx" \in Locks /\ "uart_tx" # "none"
      BY DEF PcLocks, Locks
    <3>2. "uart_tx" \in Needs(cpu[h], proc) /\ cpu[h].want # "uart_tx"
      BY <2>1, <3>1 DEF Sending, Needs
    <3>3. lk["uart_tx"] = h
      BY <1>1, <3>1, <3>2 DEF ControlInv, OwnersInv
    <3> QED BY <3>3, ConsoleAssumption
  <2> QED BY <1>1, <2>1 DEF WaitInv, PendingInv, Sender
<1> QED BY <1>1, <1>2, <1>3 DEF NoLostWakeup, WaitInv, ReadersWait, WritersWait

\* Interrupts are off exactly where they must be, the depth counts the locks, and no check of
\* acquire() or sched() fails, on any number of harts (spinlock.c push_off(), pop_off()).
THEOREM InterruptsOff == Spec => []IntrInv
<1>1. IInv => IntrInv
  BY ControlIntr DEF IInv
<1> QED BY <1>1, Inductive, PTL

\* The input ring holds what was typed, edited and not read, for every size of the ring and
\* however often its counters wrap (console.c consoleintr(), consoleread()).
THEOREM InputKept == Spec => []InputInv
<1>1. IInv => InputInv
  BY RingInput DEF IInv
<1> QED BY <1>1, Inductive, PTL

\* What write() stores leaves the UART in order and once, whatever is echoed and printed in
\* between (uart.c uartputc(), uartstart()).
THEOREM OutputInOrder == Spec => []OutputInv
<1>1. IInv => OutputInv
  BY TxOutput DEF IInv, WaitInv
<1> QED BY <1>1, Inductive, PTL

\* Nobody sleeps on what has happened, and somebody will look at a ring that is not empty
\* (console.c:96, uart.c:98).
THEOREM ConsoleNoLostWakeup == Spec => []NoLostWakeup
<1>1. IInv => NoLostWakeup
  BY WaitsFor
<1> QED BY <1>1, Inductive, PTL
====
