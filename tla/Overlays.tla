------------------------------- MODULE Overlays -------------------------------
(***************************************************************************)
(* A PSP build in overlay mode: one function of the guest is compiled, the *)
(* rest stays native.  A jump at the function's entry leads to a stub that *)
(* saves the registers on the stack and calls psprecomp_overlay_run; the   *)
(* function runs there until control leaves it, with the address it is to  *)
(* be called back at replaced by another stub (overlays.inc, the routes    *)
(* from instruction_map.inc).  Beside the program runs the same program    *)
(* with nothing replaced.                                                  *)
(*                                                                         *)
(* Addresses are small numbers: the function is at 0..Len(body)-1.  An     *)
(* instruction of its body is [op, reg, n]: "push n" and "pop n" move the  *)
(* stack pointer, "save" and "load" use the word n above it, "beqz" jumps  *)
(* ahead, "call n" links in reg, "stop" is what the compiled function      *)
(* cannot do.                                                              *)
(***************************************************************************)
EXTENDS Integers, Sequences, FiniteSets

CONSTANTS
    Bodies,             \* functions to compile
    RA, V0, SP, Saved,  \* registers; the callee keeps SP and Saved
    LinkRegs,           \* registers a call may link in, RA included
    Home, Native, Back, \* addresses: the caller, another function, its own call
    Stub0,              \* the first stub
    Error,              \* 0x80020001
    StackWords,         \* words of the stack
    ContextWords,       \* of PspOverlayContext, the padding included
    PadWords,           \* its tail_padding
    Garbage,            \* what a saved register of the context looks like
    Undefined,          \* a word of the stack nobody has written yet
    MaxReturns          \* callbacks from the native function

VARIABLES
    body,               \* the function
    machine,            \* [pc, regs, stack, left, stop, via]: the program with
                        \* the overlay; via is the register of the last call
    native,             \* the same of the program without
    stopped,            \* the overlay could not go on
    depth               \* callbacks under way, and made

ovars == <<body, machine, native, stopped, depth>>

Registers == LinkRegs \cup {V0, SP, Saved}
Addresses == 0..(StackWords - 1)

OverlaysAssumption ==
    /\ RA \in LinkRegs /\ PadWords \in 0..ContextWords
    /\ {StackWords, ContextWords, MaxReturns} \subseteq Nat
-----------------------------------------------------------------------------
(* The routes of the function. *)

I(pc) == body[pc + 1]
InBody(pc) == pc \in 0..(Len(body) - 1)

\* A route in behind every call, in the order of their addresses; route 0 is
\* the entry.
Resumes == {pc + 1 : pc \in {q \in 0..(Len(body) - 1) : I(q).op = "call"}}
RouteOf(c) == Cardinality({d \in Resumes : d <= c})
EntryOf(k) == IF k = 0 THEN 0 ELSE CHOOSE c \in Resumes : RouteOf(c) = k
LinkRegister(k) == IF k = 0 THEN RA ELSE I(EntryOf(k) - 1).reg
Stub(k) == Stub0 + k
IsStub(v) == v \in Stub0..(Stub0 + Cardinality(Resumes))

\* Overlays of which no compiled function is made.
RefusedBody(b) ==
    \/ Len(b) < 2
    \/ \E k \in DOMAIN b : b[k].op = "call" /\ k = Len(b)     \* continues outside
-----------------------------------------------------------------------------
(* The function, compiled or not. *)

Put(m, r, v) == [m EXCEPT !.regs[r] = v, !.pc = @ + 1]

\* One instruction; `left' says that control has left the function.
Step(m) ==
    LET i == I(m.pc)
        at == m.regs[SP] + i.n
        sp == m.regs[SP] - i.n
        Frame == [a \in Addresses |-> IF a \in sp..(m.regs[SP] - 1) THEN Undefined ELSE m.stack[a]]
    IN  CASE i.op = "push" -> Put([m EXCEPT !.stack = Frame], SP, sp)
          [] i.op = "pop"  -> Put(m, SP, m.regs[SP] + i.n)
          [] i.op = "set"  -> Put(m, i.reg, i.n)
          [] i.op = "add"  -> Put(m, i.reg, m.regs[i.reg] + i.n)
          [] i.op = "beqz" -> [m EXCEPT !.pc = IF m.regs[i.reg] = 0 THEN i.n ELSE @ + 1]
          [] i.op = "save" -> [m EXCEPT !.stack[at] = m.regs[i.reg], !.pc = @ + 1]
          [] i.op = "load" -> Put(m, i.reg, m.stack[at])
          [] i.op = "call" -> [m EXCEPT !.regs[i.reg] = m.pc + 1, !.pc = i.n, !.left = TRUE,
                                       !.via = i.reg]
          [] i.op = "return" -> [m EXCEPT !.pc = m.regs[RA], !.left = TRUE]
          [] i.op = "stop" -> [m EXCEPT !.left = TRUE, !.stop = TRUE]

\* The runner: from m.pc until control leaves.
Run(m) ==
    LET R[n \in 0..Len(body)] ==
          IF n = 0 THEN [m EXCEPT !.left = FALSE] ELSE IF R[n - 1].left THEN R[n - 1] ELSE Step(R[n - 1])
    IN  R[Len(body)]
-----------------------------------------------------------------------------
(* psprecomp_overlay_common and psprecomp_overlay_run. *)

\* The frame of the context is below the stack pointer the guest has.
ContextWritten(m, top) ==
    [m EXCEPT !.stack = [a \in Addresses |->
        IF a >= top - ContextWords /\ a < top - PadWords THEN Garbage ELSE @[a]]]

\* Mutant of Outbound: the first call out only is looked for.
OutboundFirst(m) == {k \in {1} \cap (1..Cardinality(Resumes)) : m.regs[LinkRegister(k)] = EntryOf(k)}

\* The first route back into the overlay whose address is in its register.
Outbound(m) ==
    {k \in 1..Cardinality(Resumes) : m.regs[LinkRegister(k)] = EntryOf(k)}
Linked(m) ==
    LET k == CHOOSE j \in Outbound(m) : \A i \in Outbound(m) : j <= i
    IN  IF Outbound(m) = {} THEN m ELSE [m EXCEPT !.regs[LinkRegister(k)] = Stub(k)]

overlay_run(m, k) ==
    LET top == m.regs[SP]
        entered == [ContextWritten(m, top) EXCEPT
                      !.pc = EntryOf(k),
                      !.regs[LinkRegister(k)] = IF k = 0 THEN @ ELSE EntryOf(k)]
        ran == Run(entered)
        within == InBody(ran.pc)
        leaves == IF ~within \/ ran.pc = 0 THEN Linked(ran) ELSE ran
        calls == (~within \/ ran.pc = 0) /\ Outbound(ran) # {}
        fails == ran.stop \/ (within /\ ~(calls /\ ran.pc = 0))
        end == IF fails THEN [leaves EXCEPT !.regs[V0] = Error, !.pc = leaves.regs[RA],
                                            !.stop = TRUE]
               ELSE leaves
    IN  ContextWritten(end, top)                \* copy_from_state
-----------------------------------------------------------------------------
OverlaysInit ==
    /\ body \in {b \in Bodies : ~RefusedBody(b)}
    /\ machine = [pc |-> 0, regs |-> [r \in Registers |-> CASE r = RA -> Home [] r = SP -> StackWords - 2
                                                      [] OTHER -> 1],
                  stack |-> [a \in Addresses |-> 0], left |-> FALSE, stop |-> FALSE,
                  via |-> RA]
    /\ native = machine
    /\ stopped = FALSE /\ depth = <<>>

\* Control reaches the entry or a stub; without the overlay, the function.
EnterOverlay ==
    /\ ~stopped /\ (machine.pc = 0 \/ IsStub(machine.pc))
    /\ LET m == overlay_run(machine, IF machine.pc = 0 THEN 0 ELSE machine.pc - Stub0)
           n == Run(native)
       IN  /\ machine' = [m EXCEPT !.left = FALSE]
           /\ native' = [n EXCEPT !.left = FALSE]
           /\ stopped' = (m.stop \/ n.stop)
    /\ UNCHANGED <<body, depth>>

\* The native function: it may use what it need not keep, and the stack below.
NativeReturns(v) ==
    /\ ~stopped /\ machine.pc = Native /\ native.pc = Native
    /\ LET Returns(m) == [m EXCEPT !.pc = m.regs[m.via], !.regs[V0] = v]
       IN  machine' = Returns(machine) /\ native' = Returns(native)
    /\ UNCHANGED <<body, stopped, depth>>

\* It calls the function itself, with its own link and V0 on the stack.
NativeCalls ==
    /\ ~stopped /\ machine.pc = Native /\ native.pc = Native /\ Len(depth) < MaxReturns
    /\ machine.regs[SP] > ContextWords + 2
    /\ LET Calls(m) ==
             LET sp == m.regs[SP] - 1
             IN  [m EXCEPT !.stack[sp] = m.regs[m.via], !.regs[SP] = sp, !.regs[RA] = Back, !.pc = 0]
       IN  machine' = Calls(machine) /\ native' = Calls(native)
    /\ depth' = Append(depth, native.via)
    /\ UNCHANGED <<body, stopped>>

\* ... and is called back.
NativeResumes ==
    /\ ~stopped /\ machine.pc = Back /\ native.pc = Back /\ depth # <<>>
    /\ LET r == depth[Len(depth)]
           Resumed(m) ==
             LET sp == m.regs[SP]
             IN  [m EXCEPT !.regs[r] = m.stack[sp], !.regs[SP] = sp + 1, !.pc = Native, !.via = r]
       IN  /\ machine' = Resumed(machine) /\ native' = Resumed(native) 
           /\ depth' = SubSeq(depth, 1, Len(depth) - 1)
    /\ UNCHANGED <<body, stopped>>

OverlaysNext ==
    \/ EnterOverlay \/ NativeCalls \/ NativeResumes
    \/ \E v \in {1, 2} : NativeReturns(v)
-----------------------------------------------------------------------------
\* The same value, or the stub that stands for an address in the function.
Stands(v, w) == v = w \/ (IsStub(v) /\ v # Stub0 /\ w = EntryOf(v - Stub0))

(***************************************************************************)
(* The overlay is not to be noticed: as long as the compiled function can  *)
(* go on, control is where it would be without it, in native code or at    *)
(* the stub for the same place in the function but never in the function   *)
(* that was replaced, and the registers a caller may rely on and the stack *)
(* in use hold what they would hold.                                       *)
(***************************************************************************)
OverlayTransparent ==
    ~stopped =>
      /\ Stands(machine.pc, native.pc) /\ (InBody(machine.pc) => machine.pc = 0)
      /\ \A r \in {V0, SP, Saved, native.via} : Stands(machine.regs[r], native.regs[r])
      /\ \A a \in Addresses :
           a >= native.regs[SP] /\ native.stack[a] # Undefined
             => Stands(machine.stack[a], native.stack[a])
=============================================================================
