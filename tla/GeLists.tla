------------------------------ MODULE GeLists ------------------------------
(***************************************************************************)
(* Display lists of the graphics engine: the table and the queue of lists  *)
(* (ge/ge_scheduler.hpp), the interpreter execute_ge_list and the stubs    *)
(* that enqueue, stall, break and continue lists (stubs/ge).               *)
(*                                                                         *)
(* A list runs at once, inside the call that starts or resumes it, with    *)
(* the guest CPU and graphics.mutex held; the callbacks its SIGNAL and     *)
(* FINISH commands ask for are collected and dispatched afterwards, when   *)
(* both may go to other threads and the callback itself may make calls.    *)
(* A word of memory is one command; of the 256 opcodes those are kept that *)
(* direct the execution, move the registers that outlive a list, or decide *)
(* whether a decoded texture may be used again.                            *)
(***************************************************************************)
EXTENDS Integers, Sequences, SequencesExt, FiniteSets

CONSTANTS
    Threads,     \* guest threads
    Programs,      \* the contents of guest memory to look at
    Starts,        \* addresses lists start at
    Stalls,        \* stall addresses, NoStall among them
    NoStall,       \* a stall address of 0: the list never stalls
    Depth,         \* entries of the call stack (64)
    MaxWords,      \* max_ge_command_words
    CallbackIds,   \* callback ids (16), a set of numbers from 0
    MaxLists       \* bound: lists ever enqueued

GeAssumption ==
    /\ Depth \in Nat /\ MaxWords \in Nat /\ MaxLists \in Nat
    /\ NoStall \in Stalls /\ CallbackIds \subseteq Nat
    /\ Starts \subseteq Nat /\ Stalls \subseteq Nat
    /\ \A program \in Programs :
         /\ DOMAIN program \subseteq Nat
         /\ \A at \in DOMAIN program :
              program[at] \in
                [op : {"jump", "bjump", "call", "ret", "base", "offset", "origin", "vaddr",
                       "prim", "box", "signal", "finish", "clut", "transfer", "end"},
                 arg : Nat]

VARIABLES
    memory,        \* guest memory: address -> command
    lists,         \* lists_, the id being the position
    queue,         \* queue_
    regs,          \* graphics.offset_address, base command, vertex_address
    run,           \* the locals of the execute_ge_list in progress, or NoRun
    pending,       \* per thread: pending_callbacks of its nested executions
    callbacks,     \* ge_callbacks
    texels,        \* what a texture in guest memory holds
    palette,       \* what the palette in guest memory holds
    clut,          \* graphics.clut
    saved          \* a context saved by the guest, or NoRegs

VARIABLES
    out,           \* history: what each list drew and signalled
    origin,        \* history: the registers each list started with
    executed,      \* history: how many commands of each list were executed
    disturbed,     \* history: lists whose registers another list changed
    raised,        \* history: callbacks asked for
    dispatched,    \* history: callbacks dispatch_guest_callback was called for, in order
    refused        \* history: those of them it did not make, without a stack

ge == <<lists, queue, regs, run, pending, callbacks, texels, palette, clut, saved>>
geHist == <<out, origin, executed, disturbed, raised, dispatched, refused>>
geVars == <<memory, ge, geHist>>

NoRun == [list |-> 0]
NoTexture == "none"
NoRegs == [offset |-> -1]
Running == run # NoRun
Done == {"completed", "error"}

GeInit ==
    /\ memory \in Programs
    /\ lists = <<>> /\ queue = <<>> /\ run = NoRun
    /\ regs = [offset |-> 0, base |-> 0, vertex |-> 0]
    /\ pending = [t \in Threads |-> <<>>]
    /\ callbacks = {}
    /\ texels = 0 /\ palette = 0 /\ clut = 0 /\ saved = NoRegs
    /\ out = <<>> /\ origin = <<>> /\ executed = <<>> /\ disturbed = {} /\ raised = {}
    /\ dispatched = <<>> /\ refused = {}

-----------------------------------------------------------------------------
(* The interpreter: one command, on the state m = [pc, stack, regs, box, out] *)

Relative(m, arg) == m.regs.offset + m.regs.base + arg

Jump(m, arg) == [m EXCEPT !.pc = Relative(m, arg)]
Skip(m) == [m EXCEPT !.pc = @ + 1]

Call(m, arg) ==
    IF Len(m.stack) < Depth
      THEN [Jump(m, arg) EXCEPT !.stack = Append(@, <<m.pc + 1, m.regs.offset>>)]
      ELSE Skip(m)

Ret(m) ==
    IF m.stack = <<>> THEN Skip(m)
    ELSE [m EXCEPT !.pc = Last(m.stack)[1], !.regs.offset = Last(m.stack)[2],
                   !.stack = Front(@)]

\* A primitive draws from vertex_address and moves it on.
Prim(m, count) ==
    [Skip(m) EXCEPT !.out = Append(@, <<"prim", m.regs.vertex>>),
                    !.regs.vertex = @ + count]

\* A bounding box is "seen" when it has vertices; they are skipped.
Box(m, count) == [Skip(m) EXCEPT !.box = count # 0, !.regs.vertex = @ + count]

Command(m, c) ==
    CASE c.op = "jump"   -> Jump(m, c.arg)
      [] c.op = "bjump"  -> IF m.box THEN Skip(m) ELSE Jump(m, c.arg)
      [] c.op = "call"   -> Call(m, c.arg)
      [] c.op = "ret"    -> Ret(m)
      [] c.op = "base"   -> [Skip(m) EXCEPT !.regs.base = c.arg]
      [] c.op = "offset" -> [Skip(m) EXCEPT !.regs.offset = c.arg]
      [] c.op = "origin" -> [Skip(m) EXCEPT !.regs.offset = m.pc]
      [] c.op = "vaddr"  -> [Skip(m) EXCEPT !.regs.vertex = Relative(m, c.arg)]
      [] c.op = "prim"   -> Prim(m, c.arg)
      [] c.op = "box"    -> Box(m, c.arg)
      [] c.op \in {"signal", "finish"} ->
           [Skip(m) EXCEPT !.out = Append(@, <<c.op, c.arg>>)]
      [] c.op \in {"clut", "transfer"} -> Skip(m)
      [] c.op = "end"    -> m

-----------------------------------------------------------------------------
(* Scheduler *)

SetState(l, s) == [lists EXCEPT ![l].state = s]

\* Scheduler::finish: out of the queue, whatever its position (std::remove; a list
\* is there at most once, QueueHoldsUnfinished).
Finish(l, rec, state) ==
    /\ lists' = [lists EXCEPT ![l] = [rec EXCEPT !.state = state]]
    /\ queue' = RemoveFirst(queue, l)

\* Scheduler::update_stall on a list that is not done.
UpdatedStall(l, address) ==
    [lists EXCEPT ![l].stall = address,
                  ![l].state = IF @ = "stalled" /\ lists[l].pc # address
                                 THEN "queued" ELSE @]

\* Scheduler::break_lists: the first list that is not paused, or all.
Current ==
    LET c == SelectInSeq(queue, LAMBDA i : lists[i].state # "paused")
    IN  IF c = 0 THEN 0 ELSE queue[c]
Broken(mode) == IF mode = 0 THEN {Current} \ {0} ELSE ToSet(queue)

\* Scheduler::continue_lists: the first paused list.
FirstPaused ==
    LET c == SelectInSeq(queue, LAMBDA i : lists[i].state = "paused")
    IN  IF c = 0 THEN 0 ELSE queue[c]

\* Scheduler::busy
Busy == \E i \in ToSet(queue) : lists[i].state \notin Done

-----------------------------------------------------------------------------
(* Calls of the guest *)

\* A thread makes calls outside of any callback, or from the innermost one.
InDispatch(t) == pending[t] # <<>> /\ Last(pending[t]).inside
InCallback(t) == InDispatch(t) /\ Head(Last(pending[t]).todo) \notin refused
Calls(t) == ~Running /\ (pending[t] = <<>> \/ InCallback(t))

\* The head of execute_ge_list.
Begin(t, ls, l, pc, stall, cb) ==
    /\ lists' = [ls EXCEPT ![l].state = "running"]
    /\ run' = [list |-> l, thread |-> t, pc |-> pc, stall |-> stall, cb |-> cb,
               stack |-> ls[l].stack, words |-> 0, texture |-> NoTexture,
               todo |-> <<>>]

NewList(start, stall, cb) ==
    [pc |-> start, start |-> start, stall |-> stall, cb |-> cb, stack |-> <<>>,
     state |-> "queued", box |-> FALSE]

ListEnQueue(t, start, stall, cb, head) ==
    /\ Calls(t) /\ Len(lists) < MaxLists
    /\ LET l == Len(lists) + 1
       IN  /\ queue' = IF head THEN <<l>> \o queue ELSE Append(queue, l)
           /\ Begin(t, Append(lists, NewList(start, stall, cb)), l, start, stall, cb)
    /\ out' = Append(out, <<>>) /\ origin' = Append(origin, regs)
    /\ executed' = Append(executed, 0)
    /\ UNCHANGED <<memory, regs, pending, callbacks, texels, palette, clut, saved,
                   disturbed, raised, dispatched, refused>>

ListUpdateStallAddr(t, l, stall) ==
    /\ Calls(t) /\ l \in DOMAIN lists /\ lists[l].state \notin Done
    /\ Begin(t, UpdatedStall(l, stall), l, lists[l].pc, stall, lists[l].cb)
    /\ UNCHANGED <<memory, queue, regs, pending, callbacks, texels, palette, clut,
                   saved, geHist>>

Break(t, mode) ==
    /\ Calls(t)
    /\ lists' = [l \in DOMAIN lists |->
                   IF l \in Broken(mode) THEN [lists[l] EXCEPT !.state = "paused"]
                                         ELSE lists[l]]
    /\ UNCHANGED <<memory, queue, regs, run, pending, callbacks, texels, palette,
                   clut, saved, geHist>>

Continue(t) ==
    /\ Calls(t) /\ FirstPaused # 0
    /\ LET l == FirstPaused
       IN  Begin(t, SetState(l, "queued"), l, lists[l].pc, lists[l].stall,
                 lists[l].cb)
    /\ UNCHANGED <<memory, queue, regs, pending, callbacks, texels, palette, clut,
                   saved, geHist>>

\* sceGeSetCallback: the lowest free id.
SetCallback(t) ==
    /\ Calls(t)
    /\ \E id \in CallbackIds \ callbacks :
         /\ \A i \in CallbackIds \ callbacks : id <= i
         /\ callbacks' = callbacks \cup {id}
    /\ UNCHANGED <<memory, lists, queue, regs, run, pending, texels, palette, clut,
                   saved, geHist>>

UnsetCallback(t, id) ==
    /\ Calls(t)
    /\ callbacks' = callbacks \ {id}
    /\ UNCHANGED <<memory, lists, queue, regs, run, pending, texels, palette, clut,
                   saved, geHist>>

\* sceGeSaveContext and sceGeRestoreContext are refused while lists are queued.
SaveContext(t) ==
    /\ Calls(t) /\ ~Busy
    /\ saved' = regs
    /\ UNCHANGED <<memory, lists, queue, regs, run, pending, callbacks, texels,
                   palette, clut, geHist>>

RestoreContext(t) ==
    /\ Calls(t) /\ ~Busy /\ saved # NoRegs
    /\ regs' = saved
    /\ UNCHANGED <<memory, lists, queue, run, pending, callbacks, texels, palette,
                   clut, saved, geHist>>

\* The guest writes texture or palette between its calls.
GuestWrites ==
    /\ ~Running
    /\ texels' \in {0, 1} /\ palette' \in {0, 1}
    /\ UNCHANGED <<memory, lists, queue, regs, run, pending, callbacks, clut, saved,
                   geHist>>

-----------------------------------------------------------------------------
(* execute_ge_list *)

AtStall == run.stall # NoStall /\ run.pc = run.stall
Unmapped == run.pc \notin DOMAIN memory
Halted == AtStall \/ Unmapped \/ run.words = MaxWords

\* texture_cache.clear and ++texture_generation
Invalidate(texture) == NoTexture

\* SIGNAL and FINISH look the callback up when they are executed.
Asks(c) == c.op \in {"signal", "finish"} /\ run.cb \in callbacks

Step ==
    /\ Running /\ ~Halted /\ memory[run.pc].op # "end"
    /\ LET c == memory[run.pc]
           l == run.list
           m == Command([pc |-> run.pc, stack |-> run.stack, regs |-> regs,
                         box |-> lists[l].box, out |-> out[l]], c)
           asked == <<l, Len(m.out)>>
           decoded ==
             CASE c.op = "prim" /\ run.texture = NoTexture -> <<texels, clut>>
               [] c.op = "transfer" \/ (c.op = "clut" /\ palette # clut) ->
                    Invalidate(run.texture)
               [] OTHER -> run.texture
       IN  /\ run' = [run EXCEPT !.pc = m.pc, !.stack = m.stack, !.words = @ + 1,
                                 !.texture = decoded,
                                 !.todo = IF Asks(c) THEN Append(@, asked) ELSE @]
           /\ clut' = IF c.op = "clut" THEN palette ELSE clut
           /\ texels' \in IF c.op = "transfer" THEN {0, 1} ELSE {texels}
           /\ regs' = m.regs
           /\ lists' = [lists EXCEPT ![l].box = m.box]
           /\ out' = [out EXCEPT ![l] = m.out]
           /\ executed' = [executed EXCEPT ![l] = @ + 1]
           /\ raised' = IF Asks(c) THEN raised \cup {asked} ELSE raised
           /\ disturbed' = IF m.regs = regs THEN disturbed
                           ELSE disturbed \cup {i \in ToSet(queue) : i # l}
    /\ UNCHANGED <<memory, queue, pending, callbacks, palette, saved, origin,
                   dispatched, refused>>

\* Mutant of Left: the call stack stays behind in the interpreter.
LeftWithoutStack == [lists[run.list] EXCEPT !.pc = run.pc, !.stall = run.stall]

\* What the interpreter stores into the list when it leaves it.
Left ==
    [lists[run.list] EXCEPT !.pc = run.pc, !.stall = run.stall,
                            !.stack = run.stack]

\* The end of the execution: stalled, failed, or at END.
Stop ==
    /\ Running
    /\ \/ /\ AtStall
          /\ lists' = [lists EXCEPT ![run.list] = [Left EXCEPT !.state = "stalled"]]
          /\ UNCHANGED queue
       \/ /\ ~AtStall /\ (Unmapped \/ run.words = MaxWords)
          /\ Finish(run.list, Left, "error")
       \/ /\ ~Halted /\ memory[run.pc].op = "end"
          /\ Finish(run.list, Left, "completed")
    /\ pending' = IF run.todo = <<>> THEN pending
                  ELSE [pending EXCEPT ![run.thread] =
                          Append(@, [todo |-> run.todo, inside |-> FALSE])]
    /\ run' = NoRun
    /\ UNCHANGED <<memory, regs, callbacks, texels, palette, clut, saved,
                   geHist>>

-----------------------------------------------------------------------------
(* dispatch_guest_callback for each of pending_callbacks *)

\* Without a stack in the heap the callback is not made; nobody looks at the
\* result.
StartCallback(t) ==
    /\ ~Running /\ pending[t] # <<>> /\ ~InDispatch(t)
    /\ pending' = [pending EXCEPT ![t][Len(pending[t])].inside = TRUE]
    /\ dispatched' = Append(dispatched, Head(Last(pending[t]).todo))
    /\ refused' \in {refused, refused \cup {Head(Last(pending[t]).todo)}}
    /\ UNCHANGED <<memory, lists, queue, regs, run, callbacks, texels, palette, clut,
                   saved, out, origin, executed, disturbed, raised>>

\* The frames of a thread when its innermost dispatch returns.
Returned(frames) ==
    LET todo == Tail(Last(frames).todo)
    IN  IF todo = <<>> THEN Front(frames)
        ELSE Append(Front(frames), [todo |-> todo, inside |-> FALSE])

EndCallback(t) ==
    /\ ~Running /\ InDispatch(t)
    /\ pending' = [pending EXCEPT ![t] = Returned(@)]
    /\ UNCHANGED <<memory, lists, queue, regs, run, callbacks, texels, palette, clut,
                   saved, geHist>>

Guest(t) ==
    \/ \E start \in Starts, stall \in Stalls, cb \in CallbackIds, head \in BOOLEAN :
         ListEnQueue(t, start, stall, cb, head)
    \/ \E l \in DOMAIN lists, stall \in Stalls : ListUpdateStallAddr(t, l, stall)
    \/ \E mode \in {0, 1} : Break(t, mode)
    \/ Continue(t) \/ SetCallback(t) \/ SaveContext(t) \/ RestoreContext(t)
    \/ \E id \in callbacks : UnsetCallback(t, id)

GeCalls == GuestWrites \/ \E t \in Threads : Guest(t)
GeSteps == Step \/ Stop \/ \E t \in Threads : StartCallback(t) \/ EndCallback(t)

-----------------------------------------------------------------------------
(* Properties *)

\* The states of lists, and a call stack within its limit whatever a list calls.
GeTypeOK ==
    /\ \A l \in DOMAIN lists :
         /\ lists[l].state \in {"queued", "running", "stalled", "paused"} \cup Done
         /\ Len(lists[l].stack) <= Depth
    /\ callbacks \subseteq CallbackIds
    /\ texels \in {0, 1} /\ palette \in {0, 1} /\ clut \in {0, 1}

(***************************************************************************)
(* The queue holds every list that is not done, each once, and no list is  *)
(* running or waiting to run between two calls: a list never gets lost     *)
(* between enqueue, stall, break, continue and a nested execution.         *)
(***************************************************************************)
QueueHoldsUnfinished ==
    /\ IsInjective(queue)
    /\ ToSet(queue) = {l \in DOMAIN lists : lists[l].state \notin Done}
    /\ \A l \in DOMAIN lists :
         lists[l].state \in {"queued", "running"} => Running /\ run.list = l

\* n commands from the machine m on, without a stop.
Executed(m) == IF m.pc \in DOMAIN memory THEN Command(m, memory[m.pc]) ELSE m
After(m, n) ==
    LET at[i \in 0..n] == IF i = 0 THEN m ELSE Executed(at[i - 1])
    IN  at[n]

\* n commands of a list, from its start.
Straight(l, n) ==
    After([pc |-> lists[l].start, stack |-> <<>>, regs |-> origin[l], box |-> FALSE,
           out |-> <<>>], n)

(***************************************************************************)
(* Stalling, breaking and continuing a list is invisible in what it draws  *)
(* and signals: as long as no other list has changed the registers in the  *)
(* meantime, it has put out what as many commands put out when they are    *)
(* executed without a stop, and these lead to END if it has completed      *)
(* (call stack, program counter and bounding-box flag are carried over in  *)
(* the list).                                                              *)
(***************************************************************************)
StallsInvisible ==
    \A l \in DOMAIN lists \ disturbed :
      LET m == Straight(l, executed[l])
      IN  /\ out[l] = m.out
          /\ lists[l].state = "completed" => m.pc \in DOMAIN memory /\ memory[m.pc].op = "end"

(***************************************************************************)
(* A decoded texture is used only while texture and palette are what they  *)
(* were when it was decoded (the texture cache of execute_ge_list).        *)
(***************************************************************************)
TexturesFresh ==
    Running /\ run.texture # NoTexture => run.texture = <<texels, clut>>

\* The callbacks that are still to be made.
Waiting ==
    [t \in Threads |->
       UNION {LET f == pending[t][i]
              IN  ToSet(IF f.inside THEN Tail(f.todo) ELSE f.todo) :
                i \in DOMAIN pending[t]}]

(***************************************************************************)
(* Every SIGNAL or FINISH that found a callback leads to exactly one       *)
(* dispatch of it, also when callbacks run lists that ask for more         *)
(* callbacks: it is made once, or refused once for want of a stack, which  *)
(* nobody notices and nobody makes good.                                   *)
(***************************************************************************)
EveryCallbackOnce ==
    LET made == ToSet(dispatched) \ refused
        waiting == UNION {Waiting[t] : t \in Threads}
        collected == IF Running THEN ToSet(run.todo) ELSE {}
    IN  /\ IsInjective(dispatched)
        /\ raised = made \cup refused \cup waiting \cup collected
        /\ (made \cup refused) \cap (waiting \cup collected) = {}
=============================================================================
