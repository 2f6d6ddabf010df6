------------------------------ MODULE MsgQueue ------------------------------
(***************************************************************************)
(* The message queues of kernel/msg.c: msgget, msgsnd, msgrcv, msgctl.     *)
(*                                                                         *)
(* The calls test in_use before they take the queue's lock; what follows   *)
(* under the lock is one step, up to the sleep() of a sender that finds    *)
(* the queue full.  Indexes are those of the code: each queue is addressed *)
(* in msgtable.messages[] by one rule when it is written and by another    *)
(* when it is read.  msginit() is not called by main(), so the table       *)
(* starts as zeroed memory.                                                *)
(***************************************************************************)
EXTENDS Integers, Sequences

CONSTANTS Procs,
          MSG_MAX_QUEUES,
          MSG_MAX_SIZE,  \* 1024: stride and wrap of the sender's index
          SLOTS,         \* 100: stride and wrap of the receiver's index
          Msgs,          \* messages
          Zero,          \* an entry that was never written
          Sizes,         \* queue sizes set with IPC_SET
          MaxSends       \* bound on the messages sent

ASSUME MsgAssumption ==
  /\ MSG_MAX_QUEUES \in Nat \ {0} /\ SLOTS \in Nat \ {0} /\ MSG_MAX_SIZE \in Nat
  /\ MSG_MAX_SIZE >= SLOTS /\ Zero \notin Msgs /\ Sizes \subseteq Nat /\ MaxSends \in Nat

Queues == 0..(MSG_MAX_QUEUES - 1)
Index == 0..(MSG_MAX_QUEUES * SLOTS - 1)

VARIABLES
  in_use, msg_count, first_msg, last_msg, queue_size,   \* struct msg_queue
  messages,       \* msgtable.messages[]
  pc, q, m,       \* per process: control point, queue, message to send
  sent,           \* per queue: what was sent and not received yet, oldest first
  sends           \* messages sent (bound)

queue == <<in_use, msg_count, first_msg, last_msg, queue_size>>
local == <<pc, q, m>>
vars == <<queue, messages, local, sent, sends>>

Init ==
  /\ in_use = [i \in Queues |-> 0] /\ msg_count = [i \in Queues |-> 0]
  /\ first_msg = [i \in Queues |-> 0] /\ last_msg = [i \in Queues |-> 0]
  /\ queue_size = [i \in Queues |-> 0] /\ messages = [k \in Index |-> Zero]
  /\ pc = [p \in Procs |-> "user"] /\ q = [p \in Procs |-> 0] /\ m = [p \in Procs |-> Zero]
  /\ sent = [i \in Queues |-> <<>>] /\ sends = 0

Return(f, p) == /\ pc' = [f EXCEPT ![p] = "user"]
                /\ q' = [q EXCEPT ![p] = 0] /\ m' = [m EXCEPT ![p] = Zero]

\* The first queue that is not in use; key and flags are not looked at.
sys_msgget(p) ==
  /\ pc[p] = "user"
  /\ \E i \in Queues : /\ in_use[i] = 0 /\ \A j \in Queues : j < i => in_use[j] = 1
                       /\ in_use' = [in_use EXCEPT ![i] = 1]
  /\ UNCHANGED <<msg_count, first_msg, last_msg, queue_size, messages, local, sent, sends>>

-----------------------------------------------------------------------------
(* msgsnd().                                                               *)

sys_msgsnd(p, i, x) ==
  /\ pc[p] = "user" /\ in_use[i] = 1 /\ sends < MaxSends
  /\ sends' = sends + 1
  /\ pc' = [pc EXCEPT ![p] = "send"]
  /\ q' = [q EXCEPT ![p] = i] /\ m' = [m EXCEPT ![p] = x]
  /\ UNCHANGED <<queue, messages, sent>>

Full(i) == msg_count[i] >= queue_size[i]
SendIndex(i) == i * MSG_MAX_SIZE + last_msg[i]
\* wakeup() of the queue's channel.
Woken(i) == [r \in Procs |-> IF pc[r] = "asleep" /\ q[r] = i THEN "woken" ELSE pc[r]]

\* Under the lock: a full queue makes the caller sleep, or fail with IPC_NOWAIT.
\* An index past the array overwrites what lies behind it, and no message.
msgsnd_locked(p) == LET i == q[p] IN
  /\ pc[p] \in {"send", "woken"}
  /\ \/ /\ ~Full(i)
        /\ messages' = [k \in Index |-> IF k = SendIndex(i) THEN m[p] ELSE messages[k]]
        /\ last_msg' = [last_msg EXCEPT ![i] = (@ + 1) % MSG_MAX_SIZE]
        /\ msg_count' = [msg_count EXCEPT ![i] = @ + 1]
        /\ sent' = [sent EXCEPT ![i] = Append(@, m[p])]
        /\ Return(Woken(i), p)
     \/ /\ Full(i)
        /\ \/ pc' = [pc EXCEPT ![p] = "asleep"] /\ UNCHANGED <<q, m>>
           \/ pc[p] = "send" /\ Return(pc, p)
        /\ UNCHANGED <<messages, last_msg, msg_count, sent>>
  /\ UNCHANGED <<in_use, first_msg, queue_size, sends>>

-----------------------------------------------------------------------------
(* msgrcv().                                                               *)

sys_msgrcv(p, i) ==
  /\ pc[p] = "user" /\ in_use[i] = 1
  /\ pc' = [pc EXCEPT ![p] = "receive"] /\ q' = [q EXCEPT ![p] = i]
  /\ UNCHANGED <<queue, messages, m, sent, sends>>

\* Fault: the receiver goes to the sender's end of the queue.
LastIndex(i) == i * SLOTS + last_msg[i]
ReceiveIndex(i) == i * SLOTS + first_msg[i]

\* Fault: the message is handed out and still counted.
RcvKeepsCount(p) == LET i == q[p] IN
  /\ pc[p] = "receive" /\ Return(pc, p)
  /\ \/ /\ msg_count[i] > 0
        /\ first_msg' = [first_msg EXCEPT ![i] = (@ + 1) % SLOTS]
        /\ sent' = [sent EXCEPT ![i] = Tail(@)] /\ UNCHANGED msg_count
     \/ UNCHANGED <<first_msg, msg_count, sent>>
  /\ UNCHANGED <<in_use, last_msg, queue_size, messages, sends>>
\* Under the lock.  The call fails on an empty queue, when copyout() fails, and
\* when the type does not match: msgtyp is a long of which argint() has stored
\* one half, so that the comparison may go either way.  Senders are not woken.
msgrcv_locked(p) == LET i == q[p] IN
  /\ pc[p] = "receive" /\ Return(pc, p)
  /\ \/ /\ msg_count[i] > 0
        /\ first_msg' = [first_msg EXCEPT ![i] = (@ + 1) % SLOTS]
        /\ msg_count' = [msg_count EXCEPT ![i] = @ - 1]
        /\ sent' = [sent EXCEPT ![i] = Tail(@)]
     \/ UNCHANGED <<first_msg, msg_count, sent>>
  /\ UNCHANGED <<in_use, last_msg, queue_size, messages, sends>>

-----------------------------------------------------------------------------
(* msgctl(); IPC_STAT changes nothing.                                     *)

IPC_SET(p, i) ==
  /\ pc[p] = "user" /\ in_use[i] = 1
  /\ \E k \in Sizes : queue_size' = [queue_size EXCEPT ![i] = k]
  /\ UNCHANGED <<in_use, msg_count, first_msg, last_msg, messages, local, sent, sends>>

IPC_RMID(p, i) ==
  /\ pc[p] = "user" /\ in_use[i] = 1
  /\ in_use' = [in_use EXCEPT ![i] = 0] /\ msg_count' = [msg_count EXCEPT ![i] = 0]
  /\ first_msg' = [first_msg EXCEPT ![i] = 0] /\ last_msg' = [last_msg EXCEPT ![i] = 0]
  /\ sent' = [sent EXCEPT ![i] = <<>>]
  /\ UNCHANGED <<queue_size, messages, local, sends>>

Next == \E p \in Procs :
          \/ sys_msgget(p) \/ msgsnd_locked(p) \/ msgrcv_locked(p)
          \/ \E i \in Queues : \/ sys_msgrcv(p, i) \/ IPC_SET(p, i) \/ IPC_RMID(p, i)
                               \/ \E x \in Msgs : sys_msgsnd(p, i, x)

Spec == Init /\ [][Next]_vars

-----------------------------------------------------------------------------
(* Properties.                                                             *)

TypeOK ==
  /\ in_use \in [Queues -> {0, 1}] /\ msg_count \in [Queues -> Nat]
  /\ first_msg \in [Queues -> 0..(SLOTS - 1)]
  /\ last_msg \in [Queues -> 0..(MSG_MAX_SIZE - 1)]
  /\ queue_size \in [Queues -> Sizes \cup {0}]
  /\ messages \in [Index -> Msgs \cup {Zero}]
  /\ pc \in [Procs -> {"user", "send", "asleep", "woken", "receive"}]
  /\ q \in [Procs -> Queues] /\ m \in [Procs -> Msgs \cup {Zero}] /\ sends \in 0..MaxSends

\* msg_count is the number of messages sent and not received, whatever calls and
\* removals race with the senders and receivers.
CountInv == TypeOK /\ \A i \in Queues : msg_count[i] = Len(sent[i])

\* first_msg is the index of the first message: a receiver finds the message that
\* was sent first and not received yet.
ReceivesFirst ==
  \A i \in Queues : sent[i] # <<>> => messages[ReceiveIndex(i)] = Head(sent[i])
=============================================================================
