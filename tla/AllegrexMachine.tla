-------------------------- MODULE AllegrexMachine --------------------------
(***************************************************************************)
(* The guest's processor, an instruction at a time: what the interpreter   *)
(* does (interpret_allegrex), with imports and hooks as single steps.      *)
(* This is what the recompiled code has to look like (RecompiledCode).     *)
(* Addresses count words from the start of the image.  An instruction is   *)
(* abstracted to what control can tell apart; what the others compute is   *)
(* AllegrexInstructions.                                                   *)
(***************************************************************************)
EXTENDS Integers

CONSTANTS
    Images,         \* executables: [code, imports, patched, ...]
    Regs, RA, V0,   \* registers; the link register, the one of results
    Values,         \* what a hook may return
    Odd,            \* an address that is not aligned
    Fault,          \* the operand of a load that faults
    Return          \* the address at which run() stops

VARIABLES
    image,          \* the executable
    cpu             \* State: [gpr, pc, pending, target, stop]

vars == <<image, cpu>>

\* StopReason, as far as the guest can tell.
Running == "running"

\* The conditional branches: taken if register s is zero (or is not).
Taken(i, gpr) == (gpr[i.s] = 0) = i.zero

(***************************************************************************)
(* The switch of interpret_allegrex, for an instruction at address a.  The *)
(* program counter is already behind it.  The target of a jalr is read     *)
(* before its link register is written.                                    *)
(***************************************************************************)
Effect(i, a, c) ==
    LET linked == IF i.link THEN [c EXCEPT !.gpr[RA] = a + 2] ELSE c
        Branch(s, to) == [s EXCEPT !.pending = TRUE, !.target = to]
    IN  CASE i.op = "set"  -> [c EXCEPT !.gpr[i.r] = i.to]
          [] i.op = "load" -> IF i.to = Fault THEN [c EXCEPT !.stop = "memory_fault",
                                                              !.gpr[i.r] = 0]
                                              ELSE [c EXCEPT !.gpr[i.r] = i.to]
          [] i.op = "branch" /\ Taken(i, linked.gpr) -> Branch(linked, i.to)
          [] i.op = "branch" /\ ~Taken(i, linked.gpr) ->
                IF i.likely THEN [linked EXCEPT !.pc = a + 2] ELSE linked
          [] i.op \in {"j", "jal"} -> Branch(linked, i.to)
          [] i.op = "jr" -> Branch(c, c.gpr[i.s])
          [] i.op = "jalr" -> [Branch(c, c.gpr[i.s]) EXCEPT !.gpr[i.r] = a + 2]
          [] i.op = "syscall" -> [c EXCEPT !.stop = "syscall"]
          [] OTHER -> c                                     \* break, prologue

(***************************************************************************)
(* interpret_allegrex: the branch that waits is taken behind the           *)
(* instruction.  An address that is not aligned is refused, and the loop   *)
(* that called stops; one outside of memory faults.                        *)
(***************************************************************************)
Interpret(code, c) ==
    LET a     == c.pc
        clear == [c EXCEPT !.pending = FALSE, !.pc = a + 1]
        done  == Effect(code[a], a, clear)
    IN  CASE a = Odd -> [c EXCEPT !.stop = "invalid_pc"]
          [] a # Odd /\ a \notin DOMAIN code -> [c EXCEPT !.stop = "memory_fault"]
          [] OTHER ->
               IF code[a].op = "bad"
                 THEN [clear EXCEPT !.stop = "unsupported_instruction"]
                 ELSE IF c.pending /\ done.stop = Running
                        THEN [done EXCEPT !.pc = c.target]
                        ELSE done

\* An import runs in the host and returns to its caller.
Imported(c, v) == [c EXCEPT !.gpr[V0] = v, !.pc = c.gpr[RA]]
-----------------------------------------------------------------------------
(* Once stopped the guest's registers are no longer looked at. *)
Stopped == [stop |-> "stopped"]
Limited == [stop |-> "step_limit"]
IsRunning == cpu.stop = Running

AtReturn == cpu.pc = Return /\ ~cpu.pending
AtHook   == cpu.pc \in image.patched /\ ~cpu.pending
AtImport == cpu.pc \in image.imports /\ ~cpu.pending

\* What the guest shows: the target counts only while a branch waits.
Seen(c) ==
    IF c.stop = "step_limit" THEN Limited
    ELSE IF c.stop # Running THEN Stopped
                        ELSE [c EXCEPT !.target = IF c.pending THEN @ ELSE 0]

Init ==
    /\ image \in Images
    /\ cpu = [gpr |-> [r \in Regs |-> IF r = RA THEN Return ELSE 0],
              pc |-> image.entry, pending |-> FALSE, target |-> 0, stop |-> Running]

Step ==
    /\ IsRunning /\ ~AtReturn /\ ~AtHook /\ ~AtImport
    /\ cpu' = Seen(Interpret(image.code, cpu))

Import ==
    /\ IsRunning /\ ~AtReturn /\ ~AtHook /\ AtImport
    /\ \E v \in Values : cpu' = Imported(cpu, v)

\* A hook does what it likes with the other registers, and returns to its caller.
Hook ==
    /\ IsRunning /\ AtHook
    /\ cpu' \notin {Stopped, Limited}
    /\ cpu' = [cpu EXCEPT !.gpr = cpu'.gpr, !.pc = cpu.gpr[RA]]
    /\ cpu'.gpr[RA] = cpu.gpr[RA]

\* The guest has returned, or a hook stops it.
Stop ==
    /\ IsRunning /\ (AtReturn \/ AtHook)
    /\ cpu' = Stopped

\* The caller's limit of steps is reached.
Limit ==
    /\ IsRunning
    /\ cpu' = Limited

Next == (Step \/ Import \/ Hook \/ Stop \/ Limit) /\ UNCHANGED image

Spec == Init /\ [][Next]_vars
=============================================================================
