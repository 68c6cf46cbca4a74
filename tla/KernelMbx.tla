------------------------------ MODULE KernelMbx ------------------------------
(***************************************************************************)
(* Mailboxes: sceKernelSendMbx, sceKernelReceiveMbx, sceKernelPollMbx,     *)
(* sceKernelDeleteMbx and mailbox_state::enqueue.                          *)
(***************************************************************************)
EXTENDS HleWait, SequencesExt

CONSTANTS
    Messages,       \* addresses of messages in guest memory
    Priority,       \* priority byte of each message
    Prioritised     \* attributes & message_priority_attribute

MbxAssumption ==
    Priority \in [Messages -> Nat] /\ Prioritised \in BOOLEAN

VARIABLES
    messages,   \* Mailbox::messages
    deleted,    \* Mailbox::deleted
    arrivals    \* history: the queued messages in the order they were sent

mbx  == <<messages, deleted, arrivals>>
vars == <<hle, mbx>>

ObjectInit ==
    /\ messages = <<>>
    /\ deleted = FALSE
    /\ arrivals = <<>>

Init == HleInit /\ ObjectInit

\* mailbox_state::enqueue: at the end, or in front of the first message with a
\* larger priority value.
Enqueue(m) ==
    LET at == SelectInSeq(messages, LAMBDA x : Priority[x] > Priority[m])
    IN  IF ~Prioritised \/ at = 0 THEN Append(messages, m)
                                  ELSE InsertAt(messages, at, m)

-----------------------------------------------------------------------------
\* The mailbox is not in the table.
UnknownMbx(t) ==
    /\ ~alive
    /\ Call(t, "return")
    /\ UNCHANGED <<alive, mbx>>

SendMbx(t, m) ==
    /\ alive /\ m \notin Range(messages)
    /\ LockedCall(t, "signal")
    /\ messages' = Enqueue(m)
    /\ arrivals' = Append(arrivals, m)
    /\ UNCHANGED <<alive, deleted>>

\* The address is already queued: an error, and nobody is notified.
SendDuplicate(t, m) ==
    /\ alive /\ m \in Range(messages)
    /\ LockedCall(t, "return")
    /\ UNCHANGED <<alive, mbx>>

\* Mutant of SendNotifies: the notification is forgotten.
SendSilently(t) ==
    /\ pc[t] = "signal"
    /\ Goto(t, "return")
    /\ UNCHANGED <<cpu, exit, host, calls, mutex, alive, timed, mbx>>

SendNotifies(t) ==
    /\ pc[t] = "signal"
    /\ NotifyOne(t, "return")
    /\ UNCHANGED <<cpu, exit, host, calls, mutex, alive, timed, mbx>>

ReceiveMbx(t, withTimeout) ==
    /\ alive
    /\ BeginWait(t, withTimeout)
    /\ UNCHANGED mbx

Available == messages # <<>> \/ deleted \/ exit

Pop ==
    /\ messages' = Tail(messages)
    /\ arrivals' = RemoveFirst(arrivals, Head(messages))

\* deleted wins over a message, an exit takes nothing.
CommitReceive(t) ==
    /\ pc[t] = "commit"
    /\ IF deleted \/ exit THEN UNCHANGED <<messages, arrivals>> ELSE Pop
    /\ EndWait(t, "resume")
    /\ UNCHANGED deleted

ReceiveTimesOut(t) ==
    /\ pc[t] = "timeout"
    /\ EndWait(t, "resume")
    /\ UNCHANGED mbx

PollMbx(t) ==
    /\ alive
    /\ LockedCall(t, Quietly)
    /\ IF messages = <<>> THEN UNCHANGED <<messages, arrivals>> ELSE Pop
    /\ UNCHANGED <<alive, deleted>>

DeleteMbx(t) ==
    /\ alive
    /\ LockedCall(t, "announce")
    /\ alive' = FALSE
    /\ deleted' = TRUE
    /\ UNCHANGED <<messages, arrivals>>

DeleteNotifies(t) ==
    /\ pc[t] = "announce"
    /\ NotifyAll(t, "return")
    /\ UNCHANGED <<cpu, exit, host, calls, mutex, alive, timed, mbx>>

-----------------------------------------------------------------------------
Relocking(t) == (Relock(t) \/ RelockExpired(t, Available)) /\ UNCHANGED mbx

Running(t) ==
    \/ CommitReceive(t) \/ ReceiveTimesOut(t)
    \/ SendNotifies(t) \/ DeleteNotifies(t)
    \/ (Evaluate(t, Available) \/ Park(t)) /\ UNCHANGED mbx

Guest(t) ==
    \/ \E m \in Messages : SendMbx(t, m) \/ SendDuplicate(t, m)
    \/ \E withTimeout \in Timeouts : ReceiveMbx(t, withTimeout)
    \/ PollMbx(t) \/ DeleteMbx(t) \/ UnknownMbx(t)

Next ==
    \/ \E t \in Threads : Running(t) \/ Relocking(t) \/ Guest(t)
    \/ \E t \in Threads : CpuStep(t) /\ UNCHANGED mbx
    \/ Environment /\ UNCHANGED mbx
    \/ Quiescent /\ UNCHANGED vars

Spec == Init /\ [][Next]_vars
-----------------------------------------------------------------------------
TypeOK ==
    /\ HleTypeOK
    /\ messages \in Seq(Messages)
    /\ deleted \in BOOLEAN
    /\ arrivals \in Seq(Messages)

\* Of the messages that are queued, a was sent before b.
SentBefore(a, b) ==
    \E k, l \in 1..Len(arrivals) : k < l /\ arrivals[k] = a /\ arrivals[l] = b

\* The queue is what was sent and not received, each message once: in the
\* order it was sent, or by priority and first come first served among equals
\* (mailbox_state.hpp:16-35).
QueueOrder ==
    /\ Len(messages) = Len(arrivals) /\ Range(messages) = Range(arrivals)
    /\ IsInjective(messages)
    /\ \A i, j \in 1..Len(messages) : i < j =>
         LET a == messages[i]
             b == messages[j]
         IN  IF Prioritised /\ Priority[a] # Priority[b]
               THEN Priority[a] < Priority[b] ELSE SentBefore(a, b)

\* Although a send notifies one receiver only, there are never more messages
\* than awake receivers and pending notifications while a receiver sleeps
\* (sceKernelSendMbx.cpp:31, sceKernelReceiveMbx.cpp:44-60).
EnoughAwake ==
    ~exit /\ ~deleted /\ (\E t \in Threads : Asleep(t)) =>
      Len(messages) <= Cardinality({t \in Threads :
                         (Waits(t) /\ ~Asleep(t)) \/ pc[t] = "signal"})

\* No receiver is left asleep on a deleted mailbox: the notification of the
\* deletion is still to come (sceKernelDeleteMbx.cpp:16-20).
DeleteWakesAll ==
    deleted /\ ~exit => \A t \in Threads : Asleep(t) =>
                          \E u \in Threads : pc[u] = "announce"

\* A thread that needs the CPU, or the end of its pause, does not hold the
\* mailbox: a sender with the CPU that waits for the mailbox gets it
\* (sceKernelReceiveMbx.cpp:62-65).
LockOrder ==
    \A t \in Threads : mutex = t => pc[t] \in HoldsMutex

\* A receiver can be served.
Servable(t) == Waits(t) /\ messages # <<>>
=============================================================================
