--------------------------- MODULE RecompiledCode ---------------------------
(***************************************************************************)
(* A recompiled program: the functions psprism writes for an executable    *)
(* (functions.inc, from the analysis of analysis.cpp), the dispatcher and  *)
(* the loop that run them (dispatch.inc), the interpreter they fall back   *)
(* to, and the hooks that patches put before a function (patch.hpp).       *)
(*                                                                         *)
(* The host's stack is `frames': a loop of run() at the bottom, generated  *)
(* functions that call each other natively, and hooks, which may run the   *)
(* original function in a loop of their own.  A step is one instruction of *)
(* a generated function, or one dispatch.  Imports are external.           *)
(***************************************************************************)
EXTENDS Integers, Sequences, FiniteSets

CONSTANTS
    Images, Regs, RA, V0, Values, Odd, Fault, Return,   \* as AllegrexMachine
    Sentinel,       \* CALL_RETURN_SENTINEL
    ShardSize,      \* words between two shard boundaries
    MaxBlocks,      \* max_steps: dispatches of run(), and of a hook's call
    MaxDepth        \* bound: frames on the host's stack

VARIABLES
    image, cpu,     \* the executable; State
    frames,         \* the host's stack, the innermost last
    ret,            \* what the innermost call has just returned, or "none"
    blocks,         \* dispatches so far
    bypass          \* g_bypassed_patch, as the address of the patch; or Return

vars == <<image, cpu, frames, ret, blocks, bypass>>

M == INSTANCE AllegrexMachine

RecompiledAssumption ==
    /\ {RA, V0} \subseteq Regs /\ RA # V0 /\ Values \subseteq Nat
    /\ {Odd, Return, Sentinel, Fault} \subseteq Nat
    /\ {ShardSize, MaxBlocks, MaxDepth} \subseteq Nat \ {0}
-----------------------------------------------------------------------------
(* What the analysis finds in the executable. *)

Words(im) == DOMAIN im.code

\* starts_delayed_branch, needs_post_delay_entry
StartsDelayedBranch(i) == i.op \in {"branch", "j", "jal", "jr", "jalr"}

\* may_stop_execution: syscall and break; a load that faults does not stop.
MayStop(i) == i.op \in {"syscall", "break"}

\* direct_control_target: jr and jalr have none.
HasTarget(i) == i.op \in {"branch", "j", "jal"}

DelaySlots(im) == {a + 1 : a \in {b \in Words(im) : StartsDelayedBranch(im.code[b])}}

\* The targets of the instructions at some words.
TargetsOf(im, words) == {im.code[a].to : a \in words}

\* Words that may be pointers to code: relocated ones, pairs of LUI and ADDIU,
\* and, in an executable without relocations, all that could be.
CodePointers(im) == im.pointers

(***************************************************************************)
(* discover_functions: the starts a code map names; without one the entry, *)
(* the start of the section, what is called, what has a prologue, what     *)
(* follows a return, and relocated pointers.  Never an import's stub.      *)
(***************************************************************************)
DiscoverFunctions(im) ==
    LET calls == {a \in Words(im) : HasTarget(im.code[a]) /\ im.code[a].link}
        found == {im.entry, 0} \cup TargetsOf(im, calls) \cup CodePointers(im)
                 \cup {a \in Words(im) : im.code[a].op = "prologue"}
                 \cup {a + 2 : a \in {b \in Words(im) : im.code[b].op = "jr"
                                                         /\ im.code[b].s = RA}}
    IN  ((IF im.starts # {} THEN im.starts ELSE found) \cap Words(im)) \ im.imports

(***************************************************************************)
(* potential_block_entries: where generated code can be entered.  A        *)
(* function's prologue is none by itself.                                  *)
(***************************************************************************)
BlockEntries(im) ==
    LET jumps == {a \in Words(im) : HasTarget(im.code[a])}
    IN  Words(im) \cap
          ({im.entry, 0} \cup {a \in Words(im) : a % ShardSize = 0} \cup im.starts
           \cup {a + 1 : a \in DelaySlots(im)} \cup TargetsOf(im, jumps) \cup CodePointers(im))

\* function_owner: the last start that is not behind the address.
Owner(im, a) ==
    LET before == {s \in DiscoverFunctions(im) : s <= a}
    IN  IF before = {} THEN -1 ELSE CHOOSE s \in before : \A t \in before : t <= s

\* The instruction at a has its successor in the same function's list.
HasNext(im, a) ==
    /\ a + 1 \in Words(im) /\ Owner(im, a + 1) = Owner(im, a)
    /\ a + 1 \notin im.imports
-----------------------------------------------------------------------------
(* Executables whose recompiled program is the processor. *)

Instruction ==
    [op : {"set", "load", "branch", "j", "jal", "jr", "jalr", "syscall", "break", "prologue", "bad"},
     r : Regs, s : Regs, to : Nat, zero : BOOLEAN, likely : BOOLEAN, link : BOOLEAN]

(***************************************************************************)
(* No branch stands in a delay slot and no patch is put on one; a jalr has *)
(* two registers; only starts of functions are patched; behind a call      *)
(* stands no import's stub; and a function goes to none of its own stubs,  *)
(* nor, but by a call, to a patch of its own: a goto passes both by.       *)
(***************************************************************************)
SoundImage(im) ==
    /\ Words(im) \subseteq Nat /\ \A a \in Words(im) : im.code[a] \in Instruction
    /\ im.entry \in Nat /\ im.imports \subseteq Nat
    /\ {Return, Odd} \cap Words(im) = {}
    /\ im.patched \subseteq DiscoverFunctions(im)
    /\ \A a \in Words(im) :
         LET i == im.code[a]
         IN  /\ StartsDelayedBranch(i) =>
                  /\ a + 1 \notin im.patched
                  /\ a + 1 \in Words(im) => ~StartsDelayedBranch(im.code[a + 1])
             /\ i.op = "jal" => a + 2 \notin im.imports
             /\ i.op = "jalr" => i.s # i.r
             /\ HasTarget(i) /\ Owner(im, i.to) = Owner(im, a) =>
                  i.to \notin im.imports /\ (i.to \in im.patched => i.op = "jal")
-----------------------------------------------------------------------------
(* Functions of the generated program. *)

Top == frames[Len(frames)]
Below == SubSeq(frames, 1, Len(frames) - 1)

Loop(back) == [kind |-> "loop", back |-> back]

\* find_patch: the hook of an address, unless it is bypassed.
Hooked(a) == a \in image.patched /\ a # bypass

(***************************************************************************)
(* A generated function is entered at a block: the delayed branch moves    *)
(* from the state into locals.  Its first lines look for a hook.           *)
(***************************************************************************)
Enter(a, below, c) ==
    IF Hooked(a)
      THEN /\ frames' = Append(below, [kind |-> "hook", at |-> a, called |-> FALSE,
                                       before |-> c])
           /\ cpu' = c
      ELSE /\ frames' = Append(below, [kind |-> "fn", fn |-> Owner(image, a), at |-> a,
                                       apply |-> c.pending, to |-> c.target,
                                       calls |-> FALSE])
           /\ cpu' = [c EXCEPT !.pending = FALSE]

(***************************************************************************)
(* emit_instruction: the code of the instruction at address a.  A word     *)
(* that is none stops, and a jalr links before it reads its target.        *)
(***************************************************************************)
Emitted(i, a, c) ==
    CASE i.op = "bad" -> [c EXCEPT !.stop = "invalid_pc"]
      [] i.op = "jalr" ->
           LET linked == [c EXCEPT !.gpr[i.r] = a + 2]
           IN  [linked EXCEPT !.pending = TRUE, !.target = linked.gpr[i.s]]
      [] OTHER -> M!Effect(i, a, c)

Returned(v) == frames' = Below /\ ret' = v

\* The function goes on at a.
Goto(a, c, apply, to) ==
    /\ cpu' = c /\ ret' = "none"
    /\ frames' = Append(Below, [Top EXCEPT !.at = a, !.apply = apply, !.to = to,
                                           !.calls = FALSE])

(***************************************************************************)
(* Behind a delay slot, when the branch is taken: a static jal becomes a   *)
(* native call, a static j to another function a native tail call, a       *)
(* branch inside the function a goto; all others return to the dispatcher. *)
(***************************************************************************)
TakeBranch(a, done) ==
    LET c == [done EXCEPT !.pc = Top.to]
        Before(P(_)) == a - 1 \in Words(image) /\ Owner(image, a - 1) = Top.fn
                        /\ HasTarget(image.code[a - 1]) /\ P(image.code[a - 1])
                        /\ image.code[a - 1].to = Top.to
        Jal(i)  == i.op = "jal" /\ i.to \in DiscoverFunctions(image)
        TailJump(i) == i.op = "j" /\ i.to \in DiscoverFunctions(image) /\ i.to # Top.fn
        Inner(i) == Owner(image, i.to) = Top.fn /\ i.to \in BlockEntries(image)
    IN  CASE Before(Jal) ->
               /\ Enter(Top.to, Append(Below, [Top EXCEPT !.at = a, !.apply = FALSE,
                                                          !.calls = TRUE]), c)
               /\ ret' = "none"
          [] Before(TailJump)  -> Enter(Top.to, Below, c) /\ ret' = "none"
          [] ~Before(Jal) /\ ~Before(TailJump) /\ Before(Inner) -> Goto(Top.to, c, FALSE, 0)
          [] OTHER -> Returned("true") /\ cpu' = c

(***************************************************************************)
(* One instruction of a generated function, with the lines around it.      *)
(* state.pc is written only where something may look at it.                *)
(***************************************************************************)
Execute ==
    LET a    == Top.at
        i    == image.code[a]
        next == HasNext(image, a)
        slot == a \in DelaySlots(image)
        at   == IF slot \/ StartsDelayedBranch(i) \/ MayStop(i) \/ ~next
                  THEN [cpu EXCEPT !.pc = a + 1] ELSE cpu
        done == Emitted(i, a, at)
    IN  /\ Top.kind = "fn" /\ ~Top.calls /\ ret = "none" /\ Len(frames) < MaxDepth
        /\ IF MayStop(i) /\ done.stop # M!Running THEN Returned("true") /\ cpu' = done
           ELSE IF slot /\ Top.apply THEN TakeBranch(a, done)
           ELSE IF StartsDelayedBranch(i) /\ done.pc # a + 1
                  THEN Returned("true") /\ cpu' = done
           ELSE IF ~next THEN Returned("true") /\ cpu' = done
           ELSE IF StartsDelayedBranch(i)
                  THEN Goto(a + 1, [done EXCEPT !.pending = FALSE], done.pending,
                            done.target)
           ELSE Goto(a + 1, done, Top.apply, Top.to)
        /\ UNCHANGED <<image, blocks, bypass>>

\* Mutant of CameBack: a callee that returns has returned to its caller.
CameBackSomehow(back) ==
    /\ ret = "true" /\ cpu.stop = M!Running
    /\ Owner(image, back) = Top.fn /\ back \in BlockEntries(image)

\* The callee has returned to the address behind the delay slot.
CameBack(back) ==
    /\ ret = "true" /\ cpu.stop = M!Running
    /\ Owner(image, back) = Top.fn /\ back \in BlockEntries(image)
    /\ ~cpu.pending /\ cpu.pc = back

(***************************************************************************)
(* A native call has returned to the function that made it: it goes on     *)
(* behind the delay slot if the callee returned there, and returns itself  *)
(* otherwise.                                                              *)
(***************************************************************************)
CallReturns ==
    LET back == Top.at + 1
    IN  /\ Top.kind = "fn" /\ Top.calls /\ ret # "none"
        /\ IF CameBack(back)
             THEN Goto(back, cpu, FALSE, 0)
             ELSE Returned(ret) /\ UNCHANGED cpu
        /\ UNCHANGED <<image, blocks, bypass>>
-----------------------------------------------------------------------------
(* The loops that dispatch: run(), and execute_function_at for a hook. *)

InLoop == Top.kind = "loop" /\ ret = "none" /\ cpu.stop = M!Running
          /\ ~(cpu.pc = Top.back /\ ~cpu.pending)

\* dispatch_block reaches an import's stub.
DispatchImport ==
    /\ InLoop /\ blocks < MaxBlocks
    /\ ~Hooked(cpu.pc) /\ ~cpu.pending /\ cpu.pc \in image.imports
    /\ \E v \in Values : cpu' = M!Imported(cpu, v)
    /\ blocks' = blocks + 1
    /\ UNCHANGED <<image, frames, ret, bypass>>

\* The address has a label in the function the route table finds for it.
Translated(a) == a \in BlockEntries(image) /\ Owner(image, a) # -1

\* dispatch_block finds a hook, or a function that can be entered there.
Dispatch ==
    /\ InLoop /\ blocks < MaxBlocks /\ Len(frames) < MaxDepth
    /\ Hooked(cpu.pc) \/ Translated(cpu.pc)
    /\ Hooked(cpu.pc) \/ cpu.pending \/ cpu.pc \notin image.imports
    /\ Enter(cpu.pc, frames, cpu)
    /\ blocks' = blocks + 1
    /\ UNCHANGED <<image, ret, bypass>>

(***************************************************************************)
(* The function found has no label for the address: it has taken the       *)
(* delayed branch out of the state before it says so, and the interpreter  *)
(* executes one instruction.                                               *)
(***************************************************************************)
Refused(a, c) ==
    IF {s \in DiscoverFunctions(image) : s <= a} # {} THEN [c EXCEPT !.pending = FALSE] ELSE c

Fallback ==
    /\ InLoop /\ blocks < MaxBlocks
    /\ ~Hooked(cpu.pc) /\ ~Translated(cpu.pc)
    /\ cpu.pending \/ cpu.pc \notin image.imports
    /\ cpu' = M!Interpret(image.code, Refused(cpu.pc, cpu))
    /\ blocks' = blocks + 1
    /\ UNCHANGED <<image, frames, ret, bypass>>

\* A function or hook has returned to the loop.
LoopGoesOn ==
    /\ Top.kind = "loop" /\ ret = "true" /\ ret' = "none"
    /\ UNCHANGED <<image, cpu, frames, blocks, bypass>>

StepLimit ==
    /\ InLoop /\ blocks = MaxBlocks
    /\ cpu' = [cpu EXCEPT !.stop = "step_limit"]
    /\ UNCHANGED <<image, frames, ret, blocks, bypass>>

\* run() is at the return address.
RunReturns ==
    /\ Len(frames) = 1 /\ ret = "none" /\ cpu.stop = M!Running
    /\ cpu.pc = Top.back /\ ~cpu.pending
    /\ cpu' = [cpu EXCEPT !.stop = "returned"]
    /\ UNCHANGED <<image, frames, ret, blocks, bypass>>
-----------------------------------------------------------------------------
(* Hooks. *)

(***************************************************************************)
(* call_original: the function runs, its hook bypassed, in a loop of its   *)
(* own that ends at the sentinel.                                          *)
(***************************************************************************)
CallOriginal ==
    /\ Top.kind = "hook" /\ ~Top.called /\ ret = "none" /\ Len(frames) < MaxDepth
    /\ frames' = Append(Append(Below, [Top EXCEPT !.called = TRUE]),
                        [kind |-> "loop", back |-> Sentinel, saved |-> cpu,
                         bypass |-> bypass])
    /\ cpu' = [cpu EXCEPT !.gpr[RA] = Sentinel, !.pc = Top.at, !.pending = FALSE]
    /\ bypass' = Top.at
    /\ UNCHANGED <<image, ret, blocks>>

\* The call is over, or has failed: what controls the guest is restored,
\* the registers of results are not.
OriginalReturns ==
    LET s == Top.saved
    IN  /\ Top.kind = "loop" /\ Len(frames) > 1 /\ ret = "none"
        /\ cpu.stop # M!Running \/ (cpu.pc = Top.back /\ ~cpu.pending)
        /\ cpu' = [cpu EXCEPT !.gpr[RA] = s.gpr[RA], !.pc = s.pc, !.pending = s.pending,
                              !.target = s.target]
        /\ frames' = Below /\ bypass' = Top.bypass
        /\ UNCHANGED <<image, ret, blocks>>

\* TypedHookInvoker: the hook's result, and back to the caller.
HookReturns ==
    /\ Top.kind = "hook" /\ ret = "none"
    /\ \E v \in Values :
         cpu' = IF cpu.stop = M!Running
                  THEN [cpu EXCEPT !.gpr[V0] = v, !.pc = cpu.gpr[RA], !.pending = FALSE]
                  ELSE [cpu EXCEPT !.gpr[V0] = v]
    /\ Returned("true")
    /\ UNCHANGED <<image, blocks, bypass>>
-----------------------------------------------------------------------------
RecompiledInit ==
    /\ M!Init
    /\ frames = <<Loop(Return)>> /\ ret = "none" /\ blocks = 0 /\ bypass = Return

RecompiledNext ==
    \/ Execute \/ CallReturns
    \/ Dispatch \/ DispatchImport \/ Fallback \/ LoopGoesOn \/ StepLimit \/ RunReturns
    \/ CallOriginal \/ OriginalReturns \/ HookReturns

\* The state of the host's stack and of the guest's registers.
RecompiledTypeOK ==
    /\ image \in Images
    /\ cpu.gpr \in [Regs -> Nat] /\ cpu.pc \in Nat /\ cpu.pending \in BOOLEAN
    /\ cpu.target \in Nat
    /\ Len(frames) \in 1..MaxDepth /\ frames[1] = Loop(Return)
    /\ ret \in {"none", "true", "false"} /\ blocks \in 0..MaxBlocks
    /\ bypass \in image.patched \cup {Return}
-----------------------------------------------------------------------------
(***************************************************************************)
(* What the guest shows: in a generated function the address is the        *)
(* function's own and the delayed branch its local; a hook shows only the  *)
(* state it was called in until it returns.                                *)
(***************************************************************************)
Shown ==
    LET hooks == {n \in 1..Len(frames) : frames[n].kind = "hook"}
        First == frames[CHOOSE n \in hooks : \A m \in hooks : n <= m]
    IN  IF hooks # {} THEN M!Seen(First.before)
        ELSE IF Top.kind = "fn" /\ ~Top.calls /\ ret = "none"
               THEN M!Seen([cpu EXCEPT !.pc = Top.at, !.pending = Top.apply, !.target = Top.to])
               ELSE M!Seen(cpu)

Machine == INSTANCE AllegrexMachine WITH cpu <- Shown

\* The dispatcher finds the delay slot of every branch that waits, or no
\* function at all: one without a label for it loses the branch (Refused).
BranchesKept ==
    Len(frames) = 1 /\ cpu.stop = M!Running /\ cpu.pending =>
        Translated(cpu.pc) \/ {s \in DiscoverFunctions(image) : s <= cpu.pc} = {}

(***************************************************************************)
(* The recompiled program is the guest's processor: whatever mixture of    *)
(* native calls, gotos, dispatches and interpreted instructions it is made *)
(* of, registers, program counter and delayed branches go as they would an *)
(* instruction at a time, imports and hooks are met where they stand, and  *)
(* a hook returns to its caller whatever the function it calls has done.   *)
(***************************************************************************)
ImplementsMachine == Machine!Spec
=============================================================================
