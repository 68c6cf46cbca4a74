----------------------------- MODULE GamePatches -----------------------------
(***************************************************************************)
(* Patches of a game, written in C++ (patch.hpp).                          *)
(*                                                                         *)
(* The registry: static initialisers of the files in patches/ put a node   *)
(* each in front of a list, in an order nobody fixes; the program's start  *)
(* checks the list and runs the initialisers; from then on every entry of  *)
(* a function looks for its patch.  A hook calls functions of the guest,   *)
(* with their patches or without, and these enter hooks again: what is     *)
(* active and what is bypassed is kept in thread-local variables that      *)
(* scopes save and restore.  A hook also reads and writes the guest's      *)
(* memory through GameGlobal.                                              *)
(*                                                                         *)
(* Calls between a patch and the guest: arguments are put into registers   *)
(* and on the stack by one template, taken out by another and counted by a *)
(* third, pointers change between the guest's addresses and the host's,    *)
(* and a call of the guest gives back the registers that direct it.        *)
(*                                                                         *)
(* An address has AddressSpace values; the part below Alias names memory,  *)
(* the bits above it only how it is reached.  A host pointer is            *)
(* <<region, offset>>; the null pointer is Null.                           *)
(***************************************************************************)
EXTENDS Integers, Sequences, FiniteSets, SequencesExt

CONSTANTS
    Functions,          \* addresses of the guest's functions
    Symbols,            \* function_symbols: [address -> name], of some of them
    Ghidra,             \* [name -> address], of the names FUN_<hexadecimal>
    Targets,            \* what patches are registered for: [kind, value]
    AddressSpace, Alias, FixedFrom, MemoryBase, MappedBytes,
    Globals,            \* GameGlobals: [address, width]
    Bytes,              \* the values of a byte
    MaxNodes, MaxScopes, MaxSets,
    NoPatch,            \* the null pointer
    GprCount, FprCount, \* registers for arguments
    Regions,            \* host memory of the guest: [base, size]
    Width,              \* what a pointer points to
    Null,               \* no pointer
    Arguments,          \* types, and pointers: [type, value]; of a "wide" argument
                        \* the value is a pair of words
    MaxArguments,
    StackTop,           \* the caller's stack pointer, in words
    Sentinel            \* CALL_RETURN_SENTINEL

VARIABLES
    registry,           \* g_patch_list: [id, kind, value]
    starting,           \* "static", "running", "refused"; "stopped" by a fault
    scopes,             \* the guards and calls the thread is in, innermost last
    active,             \* g_active_patch and g_active_patch_address
    bypassed,           \* g_bypassed_patch
    bytes,              \* the guest's memory
    sets,               \* what was written through GameGlobals: [global, value]
    args,               \* the arguments of the call
    guest               \* [gpr, fpr, stack, sp, ra, pc, stop] behind it

NoAddress == AddressSpace
PatchRegistryAssumption ==
    /\ {AddressSpace, Alias, FixedFrom, MemoryBase, MappedBytes} \subseteq Nat
    /\ 0 < Alias /\ Alias <= AddressSpace /\ DOMAIN Symbols \subseteq Functions
-----------------------------------------------------------------------------
(* Addresses and the list. *)

canonical_address(a) == a % Alias

add_address(l, r) == IF r > AddressSpace - 1 - l THEN NoAddress ELSE l + r

resolve_address(kind, value) ==
    CASE kind = "absolute" -> value
      [] kind = "image_offset" -> add_address(MemoryBase, value)
      [] kind = "automatic" ->
           IF value >= FixedFrom THEN value ELSE add_address(MemoryBase, value)

Named(n) == n.kind = "name"
parse_ghidra_function_name(name) == IF name \in DOMAIN Ghidra THEN Ghidra[name] ELSE NoAddress

resolved_patch_target(n) ==
    IF ~Named(n) THEN resolve_address(n.kind, n.value)
    ELSE LET a == parse_ghidra_function_name(n.value)
         IN  IF a = NoAddress THEN NoAddress ELSE resolve_address("automatic", a)

SameTarget(l, r) ==
    /\ NoAddress \notin {resolved_patch_target(l), resolved_patch_target(r)}
    /\ canonical_address(resolved_patch_target(l)) = canonical_address(resolved_patch_target(r))

\* validate_registry, without and with the guest's state.
SameEntry(l, r) == l.kind = r.kind /\ l.value = r.value
validate_registry(reg) ==
    \A i, j \in DOMAIN reg :
      i < j => ~SameEntry(reg[i], reg[j]) /\ ~SameTarget(reg[i], reg[j])

\* The first of the list among some of its places.
FirstOf(reg, fit) ==
    IF fit = {} THEN NoPatch ELSE reg[CHOOSE i \in fit : \A j \in fit : i <= j]

address_matches(n, pc) ==
    /\ ~Named(n) /\ resolved_patch_target(n) # NoAddress
    /\ canonical_address(resolved_patch_target(n)) = canonical_address(pc)

NameMatches(n, pc, names) ==
    /\ Named(n)
    /\ \/ n.value \in names
       \/ /\ resolved_patch_target(n) # NoAddress
          /\ canonical_address(resolved_patch_target(n)) = canonical_address(pc)

\* Addresses before names.  `names' holds the function's name, if the caller
\* gives one.
find_patch(reg, pc, names, skip) ==
    LET others == {i \in DOMAIN reg : reg[i] # skip}
        addressed == {i \in others : address_matches(reg[i], pc)}
        named == {i \in others : NameMatches(reg[i], pc, names)}
    IN  FirstOf(reg, IF addressed # {} THEN addressed ELSE named)

SymbolOf(pc) == IF pc \in DOMAIN Symbols THEN {Symbols[pc]} ELSE {}
-----------------------------------------------------------------------------
(* Static initialisation and the start. *)

\* register_raw_patch and register_named_patch, from the macros.
Register ==
    /\ starting = "static" /\ Len(registry) < MaxNodes
    /\ \E t \in Targets :
         registry' = <<[id |-> Len(registry) + 1, kind |-> t.kind, value |-> t.value]>> \o registry
    /\ UNCHANGED <<starting, scopes, active, bypassed, bytes, sets>>

\* run_initializers: the list is checked before the first of them.  One that
\* stops the guest ends the start.
run_initializers ==
    /\ starting = "static"
    /\ \E stops \in BOOLEAN :
         starting' = IF validate_registry(registry) /\ ~stops THEN "running" ELSE "refused"
    /\ UNCHANGED <<registry, scopes, active, bypassed, bytes, sets>>
-----------------------------------------------------------------------------
(* Calls. *)

None == [patch |-> NoPatch, at |-> NoAddress]
Top == scopes[Len(scopes)]
Guest(pc) == [kind |-> "guest", at |-> pc, patch |-> NoPatch, previous |-> None,
              how |-> "none", pending |-> FALSE]

\* A function is entered, from the guest or for a call a hook makes.
\* invoke_patch saves what was active.
EnterAt(pc, below) ==
    LET p == find_patch(registry, pc, SymbolOf(pc), bypassed)
    IN  IF p = NoPatch
          THEN scopes' = Append(below, Guest(pc)) /\ UNCHANGED active
          ELSE /\ scopes' = Append(below, [Guest(pc) EXCEPT !.kind = "hook", !.patch = p,
                                                            !.previous = active])
               /\ active' = [patch |-> p, at |-> pc]

GuestCalls ==
    /\ starting = "running" /\ Len(scopes) < MaxScopes
    /\ scopes # <<>> => Top.kind = "guest"
    /\ \E pc \in Functions : EnterAt(pc, scopes)
    /\ UNCHANGED <<registry, starting, bypassed, bytes, sets>>

\* call_original_game_function: what is bypassed.
BypassFor(target) ==
    IF active.patch # NoPatch /\ canonical_address(target) = canonical_address(active.at)
      THEN active.patch
      ELSE find_patch(registry, target, {}, bypassed)

\* call_game_function, GameFunction::original and call_original, up to the
\* entry of the function.
HookCalls ==
    /\ starting = "running" /\ Len(scopes) + 1 < MaxScopes /\ sets = <<>>
    /\ scopes # <<>> /\ Top.kind = "hook"
    /\ \E target \in Functions, how \in {"call", "original", "call_original"} :
         /\ how = "call_original" => target = active.at
         /\ bypassed' = CASE how = "call" -> NoPatch
                          [] how = "original" -> BypassFor(target)
                          [] how = "call_original" -> active.patch
         /\ scopes' = Append(scopes, [Guest(target) EXCEPT
                        !.kind = "call", !.patch = bypassed', !.previous.patch = bypassed,
                        !.how = how, !.pending = TRUE])
    /\ UNCHANGED <<registry, starting, active, bytes, sets>>

\* execute_function_at enters the function.
CallEnters ==
    /\ starting = "running" /\ scopes # <<>> /\ Top.kind = "call" /\ Top.pending
    /\ EnterAt(Top.at, [scopes EXCEPT ![Len(scopes)].pending = FALSE])
    /\ UNCHANGED <<registry, starting, bypassed, bytes, sets>>

Restored ==
    /\ active' = IF Top.kind = "hook" THEN Top.previous ELSE active
    /\ bypassed' = IF Top.kind = "call" THEN Top.previous.patch ELSE bypassed
EndScope ==
    /\ starting = "running" /\ scopes # <<>> /\ ~Top.pending
    /\ Restored
    /\ scopes' = Front(scopes)
    /\ UNCHANGED <<registry, starting, bytes, sets>>
-----------------------------------------------------------------------------
(* GameGlobal: a value is a sequence of bytes.  A bound: a hook that has    *)
(* set globals calls nothing any more, and there is one patch only.        *)

Mapped(a, n) == a + n <= MappedBytes
\* load32 and store32 need an address of a word, the others none here.
Unit(width) == IF width \in {4, 8} THEN 4 ELSE IF width = 2 THEN 2 ELSE 1
\* The parts an object is read and written in; each may fault by itself.
Pieces(g) == {k \in 0..(g.width - 1) : k % Unit(g.width) = 0}
PieceFaults(g, k) ==
    (g.address + k) % Unit(g.width) # 0 \/ ~Mapped(g.address + k, Unit(g.width))
Faults(g) == \E k \in Pieces(g) : PieceFaults(g, k)

read_guest(g, m) ==
    [i \in 1..g.width |->
       LET k == i - 1 - ((i - 1) % Unit(g.width))
       IN  IF PieceFaults(g, k) THEN 0 ELSE m[g.address + i - 1]]

write_guest(g, v, m) ==
    [a \in DOMAIN m |->
       LET i == a - g.address
       IN  IF i \in 0..(g.width - 1)
             THEN IF PieceFaults(g, i - (i % Unit(g.width))) THEN m[a] ELSE v[i + 1]
             ELSE m[a]]

\* A hook sets a global; a fault stops the guest.
SetGlobal ==
    /\ starting = "running" /\ scopes # <<>> /\ Top.kind = "hook" /\ Len(scopes) = 1
    /\ Len(sets) < MaxSets /\ Len(registry) = 1
    /\ \E g \in Globals, b \in Bytes :
         LET v == [i \in 1..g.width |-> (b + i) % Cardinality(Bytes)]
         IN  /\ bytes' = write_guest(g, v, bytes)
             /\ starting' = IF Faults(g) THEN "stopped" ELSE starting
             /\ sets' = Append(sets, [global |-> g, value |-> v])
    /\ UNCHANGED <<registry, scopes, active, bypassed>>
-----------------------------------------------------------------------------
RegistryInit ==
    /\ registry = <<>> /\ starting = "static" /\ scopes = <<>>
    /\ active = None /\ bypassed = NoPatch
    /\ bytes = [a \in 0..(MappedBytes - 1) |-> 0] /\ sets = <<>>

RegistryNext ==
    \/ Register \/ run_initializers \/ GuestCalls \/ HookCalls \/ CallEnters \/ EndScope
    \/ SetGlobal
-----------------------------------------------------------------------------
(***************************************************************************)
(* What the start has accepted does not depend on the order of static      *)
(* initialisation: an entry of a function finds the same patch in every    *)
(* order of the list.  The exception is a function with a symbol that is   *)
(* patched by that symbol and by its Ghidra name: the check cannot tell    *)
(* that both are the same function.                                        *)
(***************************************************************************)
Doubled(pc) ==
    Cardinality({n \in Range(registry) :
      ~address_matches(n, pc) /\ NameMatches(n, pc, SymbolOf(pc))}) > 1
OrderIndependent ==
    starting = "running" =>
      \A pc \in Functions : ~Doubled(pc) =>
        \A order \in SetToSeqs(Range(registry)) :
          find_patch(order, pc, SymbolOf(pc), NoPatch)
            = find_patch(registry, pc, SymbolOf(pc), NoPatch)

(***************************************************************************)
(* While an original runs, its hook is not entered again unless another    *)
(* call comes between them.  A call of an original enters no hook, if the  *)
(* function is patched once and the call has found what to bypass.         *)
(***************************************************************************)
PatchesOf(pc) == {n \in Range(registry) : address_matches(n, pc) \/ NameMatches(n, pc, SymbolOf(pc))}
\* The hooks that are entered for a call, before another call is made.
EnteredFor(i) ==
    {j \in (i + 1)..Len(scopes) :
       /\ scopes[i].kind = "call" /\ scopes[j].kind = "hook"
       /\ \A k \in (i + 1)..(j - 1) : scopes[k].kind # "call"}
OriginalRuns ==
    \A i \in DOMAIN scopes : \A j \in EnteredFor(i) :
      /\ scopes[i].patch # NoPatch => scopes[j].patch # scopes[i].patch
      /\ j = i + 1 /\ scopes[i].how # "call" /\ Cardinality(PatchesOf(scopes[i].at)) = 1
           => scopes[i].how = "original" /\ scopes[i].patch = NoPatch

(***************************************************************************)
(* "Calling `.original(...)` bypasses the patch at that address."          *)
(* (docs/game-patching.md:96), for functions that are patched once by      *)
(* their address.  It does not while that patch is bypassed already and    *)
(* another hook is active: the lookup skips the bypassed patch, so that    *)
(* nothing is bypassed in the call.                                        *)
(***************************************************************************)
OriginalBypasses ==
    \A i \in DOMAIN scopes :
      /\ scopes[i].how = "original" /\ Cardinality(PatchesOf(scopes[i].at)) = 1
      /\ \A n \in PatchesOf(scopes[i].at) : ~Named(n)
      => i + 1 \notin EnteredFor(i)

\* The thread-local variables are those of the innermost hook and call.
ScopesNest ==
    LET Innermost(k) == {i \in DOMAIN scopes :
                           scopes[i].kind = k /\ \A j \in DOMAIN scopes : j > i => scopes[j].kind # k}
    IN  /\ active.patch = IF Innermost("hook") = {} THEN NoPatch
                          ELSE scopes[CHOOSE i \in Innermost("hook") : TRUE].patch
        /\ bypassed = IF Innermost("call") = {} THEN NoPatch
                      ELSE scopes[CHOOSE i \in Innermost("call") : TRUE].patch

\* A global reads back what was last written to it, if nothing it shares
\* bytes with was written since; one that is not in memory stops the guest.
Shares(g, h) == g.address < h.address + h.width /\ h.address < g.address + g.width
GlobalsHold ==
    \A i \in DOMAIN sets :
      LET g == sets[i].global
      IN  \/ \E j \in DOMAIN sets : j > i /\ Shares(g, sets[j].global)
          \/ IF Faults(g) THEN starting = "stopped" ELSE read_guest(g, bytes) = sets[i].value

PatchesSound == OrderIndependent /\ OriginalRuns /\ ScopesNest /\ GlobalsHold
-----------------------------------------------------------------------------
(***************************************************************************)
(* Calls between a patch and the guest                                     *)
(***************************************************************************)
StackBottom == 0
Empty == [gpr |-> [i \in 0..(GprCount - 1) |-> 0], fpr |-> [i \in 0..(FprCount - 1) |-> 0],
          stack |-> [a \in StackBottom..StackTop |-> 0], sp |-> StackTop, ra |-> 7, pc |-> 8,
          stop |-> "running"]

PatchCallsAssumption ==
    /\ {GprCount, FprCount} \subseteq Nat /\ GprCount % 2 = 0
    /\ {Width, StackTop, MaxArguments} \subseteq Nat \ {0}
-----------------------------------------------------------------------------
(* Pointers. *)

\* mapped_address: the first region the whole object lies in.
guest_to_host(a) ==
    LET in == {k \in DOMAIN Regions :
                 /\ a >= Regions[k].base /\ a - Regions[k].base <= Regions[k].size
                 /\ Width <= Regions[k].size - (a - Regions[k].base)}
        k == CHOOSE j \in in : \A i \in in : j <= i
    IN  IF in = {} THEN Null ELSE <<k, a - Regions[k].base>>

\* A pointer that is not into the guest's memory has no address.
host_to_guest(p) ==
    IF p = Null THEN 0
    ELSE IF p[1] \notin DOMAIN Regions THEN 0
    ELSE IF p[2] > Regions[p[1]].size \/ Width > Regions[p[1]].size - p[2] THEN 0
    ELSE Regions[p[1]].base + p[2]
-----------------------------------------------------------------------------
(* inject_single_arg, extract_single_arg and count_single_arg.  A cursor   *)
(* says which registers and words of the stack are used.                   *)

Cursor == [gpr |-> 0, fpr |-> 0, stack |-> 0, valid |-> TRUE]
Even(n) == n + (n % 2)

InjectWord(g, c, w) ==
    IF c.gpr < GprCount
      THEN <<[g EXCEPT !.gpr[c.gpr] = w], [c EXCEPT !.gpr = @ + 1]>>
      ELSE <<[g EXCEPT !.stack[g.sp + c.stack] = w], [c EXCEPT !.stack = @ + 1]>>

InjectFloat(g, c, w) ==
    IF c.fpr < FprCount
      THEN <<[g EXCEPT !.fpr[c.fpr] = w], [c EXCEPT !.fpr = @ + 1]>>
      ELSE <<[g EXCEPT !.stack[g.sp + c.stack] = w], [c EXCEPT !.stack = @ + 1]>>

\* A pair of registers with an even number, or two words of the stack.
InjectWide(g, c, w) ==
    LET first == Even(c.gpr)
        word == Even(c.stack)
    IN  IF first + 2 <= GprCount
          THEN <<[g EXCEPT !.gpr[first] = w[1], !.gpr[first + 1] = w[2]],
                 [c EXCEPT !.gpr = first + 2]>>
          ELSE <<[g EXCEPT !.stack[g.sp + word] = w[1], !.stack[g.sp + word + 1] = w[2]],
                 [c EXCEPT !.gpr = first + 2, !.stack = word + 2]>>

inject_single_arg(g, c, a) ==
    CASE a.type = "word" -> InjectWord(g, c, a.value)
      [] a.type = "float" -> InjectFloat(g, c, a.value)
      [] a.type = "wide" -> InjectWide(g, c, a.value)
      [] a.type = "pointer" ->
           InjectWord(g, [c EXCEPT !.valid = @ /\ (a.value # Null => host_to_guest(a.value) # 0)],
                      host_to_guest(a.value))

\* What is taken out, and the cursor behind it.
extract_single_arg(g, c, type) ==
    LET InGpr == c.gpr < GprCount
        Word == IF InGpr THEN g.gpr[c.gpr] ELSE g.stack[g.sp + c.stack]
        behind == IF InGpr THEN [c EXCEPT !.gpr = @ + 1] ELSE [c EXCEPT !.stack = @ + 1]
        first == Even(c.gpr)
        word == Even(c.stack)
    IN  CASE type = "word" -> <<Word, behind>>
          [] type = "pointer" ->
               IF Word = 0 THEN <<Null, behind>>
               ELSE <<guest_to_host(Word),
                      [behind EXCEPT !.valid = @ /\ guest_to_host(Word) # Null]>>
          [] type = "float" ->
               IF c.fpr < FprCount THEN <<g.fpr[c.fpr], [c EXCEPT !.fpr = @ + 1]>>
               ELSE <<g.stack[g.sp + c.stack], [c EXCEPT !.stack = @ + 1]>>
          [] type = "wide" ->
               IF first + 2 <= GprCount
                 THEN <<<<g.gpr[first], g.gpr[first + 1]>>, [c EXCEPT !.gpr = first + 2]>>
                 ELSE <<<<g.stack[g.sp + word], g.stack[g.sp + word + 1]>>,
                        [c EXCEPT !.gpr = first + 2, !.stack = word + 2]>>

\* Mutant of count_single_arg: a wide argument takes two words anywhere.
CountUnaligned(c, type) ==
    IF type = "float"
      THEN [c EXCEPT !.fpr = @ + 1, !.stack = IF c.fpr >= FprCount THEN @ + 1 ELSE @]
      ELSE LET n == IF type = "wide" THEN 2 ELSE 1
           IN  [c EXCEPT !.gpr = @ + n, !.stack = IF c.gpr + n > GprCount THEN @ + n ELSE @]

count_single_arg(c, type) ==
    CASE type = "float" ->
           [c EXCEPT !.fpr = @ + 1, !.stack = IF c.fpr >= FprCount THEN @ + 1 ELSE @]
      [] type = "wide" ->
           [c EXCEPT !.gpr = Even(@) + 2,
                     !.stack = IF Even(c.gpr) + 2 > GprCount THEN Even(@) + 2 ELSE @]
      [] OTHER ->
           [c EXCEPT !.gpr = @ + 1, !.stack = IF c.gpr >= GprCount THEN @ + 1 ELSE @]

inject_arguments(g, as) ==
    LET F[n \in 0..Len(as)] ==
          IF n = 0 THEN <<g, Cursor>> ELSE inject_single_arg(F[n - 1][1], F[n - 1][2], as[n])
    IN  F[Len(as)]

\* The arguments a hook of this signature is called with.
extract_arguments(g, types) ==
    LET F[n \in 0..Len(types)] ==
          IF n = 0 THEN <<Null, Cursor>> ELSE extract_single_arg(g, F[n - 1][2], types[n])
    IN  [values |-> [n \in 1..Len(types) |-> F[n][1]], valid |-> F[Len(types)][2].valid]

stack_words_for_arguments(types) ==
    LET F[n \in 0..Len(types)] ==
          IF n = 0 THEN Cursor ELSE count_single_arg(F[n - 1], types[n])
    IN  F[Len(types)].stack
-----------------------------------------------------------------------------
Types(as) == [k \in DOMAIN as |-> as[k].type]
StackFor(as) == 4 * ((stack_words_for_arguments(Types(as)) + 3) \div 4)

\* call_game_function_impl up to the guest's function, as that sees it.
Called(as) ==
    LET room == [Empty EXCEPT !.sp = @ - StackFor(as)]
        put == inject_arguments(room, as)
    IN  IF StackTop < StackFor(as) \/ ~put[2].valid THEN Empty
        ELSE [put[1] EXCEPT !.ra = Sentinel, !.pc = 0]

PatchCallsInit == args = <<>> /\ guest = Called(<<>>)

\* The k-th argument, different from every other that is no pointer.
Numbered(a, k) ==
    CASE a.type \in {"word", "float"} -> [a EXCEPT !.value = k]
      [] a.type = "wide" -> [a EXCEPT !.value = <<k, k + MaxArguments>>]
      [] a.type = "pointer" -> a

\* A call with one more argument.
AddArgument(a) ==
    /\ Len(args) < MaxArguments
    /\ args' = Append(args, Numbered(a, Len(args) + 1)) /\ guest' = Called(args')

PatchCallsNext == \E a \in Arguments : AddArgument(a)
-----------------------------------------------------------------------------
(* inject_return and extract_return: $v0, $v1 and $f0, and whether a       *)
(* pointer that cannot be passed has stopped the guest.                    *)

inject_return(a) ==
    LET none == [v0 |-> 0, v1 |-> 0, f0 |-> 0, fault |-> FALSE]
    IN  CASE a.type = "word" -> [none EXCEPT !.v0 = a.value]
          [] a.type = "float" -> [none EXCEPT !.f0 = a.value]
          [] a.type = "wide" -> [none EXCEPT !.v0 = a.value[1], !.v1 = a.value[2]]
          [] a.type = "pointer" ->
               [none EXCEPT !.v0 = host_to_guest(a.value),
                            !.fault = a.value # Null /\ host_to_guest(a.value) = 0]

\* What is returned, and whether the guest is stopped behind it.
extract_return(r, type) ==
    CASE type = "word" -> <<r.v0, r.fault>>
      [] type = "float" -> <<r.f0, r.fault>>
      [] type = "wide" -> <<<<r.v0, r.v1>>, r.fault>>
      [] type = "pointer" ->
           IF r.v0 = 0 THEN <<Null, r.fault>>
           ELSE <<guest_to_host(r.v0), r.fault \/ guest_to_host(r.v0) = Null>>
-----------------------------------------------------------------------------
(***************************************************************************)
(* A function of the guest that a patch calls, and that is itself a patch, *)
(* is given the arguments the call has, whatever their order, in registers *)
(* and on the stack; they use the words the call has set aside, and no     *)
(* word above them.  A call with a pointer the guest cannot have is not    *)
(* made.                                                                   *)
(***************************************************************************)
ArgumentsArrive ==
    LET taken == extract_arguments(guest, Types(args))
        Foreign == \E k \in DOMAIN args :
                     /\ args[k].type = "pointer" /\ args[k].value # Null
                     /\ host_to_guest(args[k].value) = 0
        put == inject_arguments([Empty EXCEPT !.sp = @ - StackFor(args)], args)
    IN  StackFor(args) <= StackTop =>
          IF Foreign THEN guest = Empty
          ELSE /\ guest.pc = 0 /\ taken.valid
               /\ taken.values = [k \in DOMAIN args |-> args[k].value]
               /\ put[2].stack = stack_words_for_arguments(Types(args))
               /\ guest.stack[StackTop] = 0

\* What a function returns is what its caller is given, or the guest stops.
ReturnsArrive ==
    \A a \in {args[k] : k \in DOMAIN args} :
      LET r == extract_return(inject_return(a), a.type)
      IN  r = <<a.value, FALSE>> \/ (r[2] /\ a.type = "pointer" /\ host_to_guest(a.value) = 0)
=============================================================================
