------------------------------ MODULE GuestCpu ------------------------------
(***************************************************************************)
(* What the guest execution lock promises: one emulated CPU, handed out    *)
(* first come, first served, until the process is told to exit.  The       *)
(* waiting line is kept as the set of waiting threads and, for each of     *)
(* them, the set of threads that came before it.                           *)
(***************************************************************************)
CONSTANTS Threads, NoThread

VARIABLES
    owner,      \* the thread that has the CPU, or NoThread
    waiting,    \* threads in line
    ahead,      \* ahead[t]: the waiting threads in front of t
    closed      \* an exit has been requested

cpuVars == <<owner, waiting, ahead, closed>>

Init ==
    /\ owner = NoThread
    /\ waiting = {}
    /\ ahead = [t \in Threads |-> {}]
    /\ closed = FALSE

Request(t) ==
    /\ ~closed /\ t \notin waiting /\ owner # t
    /\ waiting' = waiting \cup {t}
    /\ ahead' = [ahead EXCEPT ![t] = waiting]
    /\ UNCHANGED <<owner, closed>>

Grant(t) ==
    /\ ~closed /\ owner = NoThread
    /\ t \in waiting /\ ahead[t] = {}
    /\ owner' = t
    /\ waiting' = waiting \ {t}
    /\ ahead' = [u \in Threads |-> ahead[u] \ {t}]
    /\ UNCHANGED closed

Free(t) ==
    /\ owner = t
    /\ owner' = NoThread
    /\ UNCHANGED <<waiting, ahead, closed>>

\* Nobody is served any more; the line dissolves.
Close ==
    /\ ~closed
    /\ closed' = TRUE
    /\ waiting' = {}
    /\ ahead' = [t \in Threads |-> {}]
    /\ UNCHANGED owner

Next ==
    \/ \E t \in Threads : Request(t) \/ Grant(t) \/ Free(t)
    \/ Close

Spec == Init /\ [][Next]_cpuVars

\* A free CPU goes to the first in line.
FairSpec == Spec /\ WF_cpuVars(\E t \in Threads : Grant(t))
=============================================================================
