------------------------------ MODULE Toolchain ------------------------------
(***************************************************************************)
(* The recompiler and what its output is made of, in one frame: recompiled *)
(* programs (RecompiledCode), single instructions (AllegrexInstructions)   *)
(* and vector operations (VfpuOperations), the executables they come from, *)
(* with their decryption and fingerprints (Executables), and the discs     *)
(* (DiscImages), calls between compiled and native code (Overlays),        *)
(* patches and their calls (GamePatches) and projects on disk (Hydration). *)
(* They share no state, so that a behaviour is looked at in one of them    *)
(* only: `part' is chosen at the start and never changes.                  *)
(***************************************************************************)
EXTENDS Integers, Sequences, TLC

CONSTANTS
    Parts,                                              \* what to look at
    Images, Regs, RA, V0, HookValues, Odd, Fault,       \* RecompiledCode
    Return, Sentinel, ShardSize, MaxBlocks, MaxDepth,
    ByteBits, Values, MemorySize, Encodings,            \* AllegrexInstructions
    FloatOp(_, _, _),
    Matrices, Operations, Prefixes,                     \* VfpuOperations
    Host1(_, _), Host2(_, _, _),
    GuestByteBits, GuestBase, UserBase, UserEnd,        \* Executables
    InfoSize, GpField, NoInfo, Elfs, SegmentNumbers, Lines, MaxLines,
    SectorSize, Discs, Upper, DirByte, Magic,           \* DiscImages
    Candidates, CnfPath, CnfTarget, Replacements, MaxReplacements, MaxPatches,
    Bodies, SP, Saved, LinkRegs, Home, Native, Back,    \* Overlays, with RA and V0
    Stub0, Error, StackWords, ContextWords, PadWords, Garbage, Undefined, MaxReturns,
    GprCount, FprCount, Regions, Width, Null,           \* GamePatches, with Sentinel
    Arguments, MaxArguments, StackTop,
    TreeList, Starts, EditKinds, MaxEdits, MaxCalls,    \* Hydration
    MaxFaults,
    Functions, Symbols, Ghidra, Targets, AddressSpace,  \* GamePatches
    Alias, FixedFrom, MemoryBase, MappedBytes, Globals, Bytes,
    MaxNodes, MaxScopes, MaxSets, NoPatch,
    BlockSize, LengthSize, ByteValues, Mark,            \* Executables
    MaxPieces, PieceSizes,
    Hosts, Names, WellKnown, InputSize, NoPlace         \* Executables

VARIABLES
    part,
    image, cpu, frames, ret, blocks, bypass,            \* RecompiledCode
    interpreted, generated, word,                       \* AllegrexInstructions
    vfpu, ctrl, memory, static, last,                   \* VfpuOperations
    elf, segments, records, lines,                      \* Executables
    disc, out, index, done, appendSector, patching,     \* DiscImages
    patches,
    body, machine, native, stopped, depth,              \* Overlays
    args, guest,                                        \* GamePatches
    edits, tree, staged, backup, stamp, marker, phase,  \* Hydration
    next, moved, installed, before, lost, result, newest, calls, faults,
    registry, starting, scopes, active, bypassed,       \* GamePatches
    bytes, sets,
    message, block, hashed, pieces,                     \* Executables
    host, place, attempted, opened, verdict             \* Executables

Code  == INSTANCE RecompiledCode WITH Values <- HookValues
Instr == INSTANCE AllegrexInstructions
Vec   == INSTANCE VfpuOperations
Exec  == INSTANCE Executables
Iso   == INSTANCE DiscImages
Cross == INSTANCE Overlays
Disk  == INSTANCE Hydration
Hooks == INSTANCE GamePatches

AllParts ==
    {"code", "instructions", "vfpu", "executables", "discs", "overlays", "calls", "hydration",
     "patches", "hashing", "decryption"}

ASSUME ToolchainAssumption ==
    /\ Parts \subseteq AllParts
    /\ Code!RecompiledAssumption /\ Instr!InstructionsAssumption
    /\ Exec!ExecutablesAssumption /\ Iso!DiscAssumption /\ Cross!OverlaysAssumption
    /\ Hooks!PatchCallsAssumption /\ Disk!HydrationAssumption
    /\ Hooks!PatchRegistryAssumption /\ Exec!FingerprintsAssumption

code  == <<image, cpu, frames, ret, blocks, bypass>>
instr == <<interpreted, generated, word>>
vec   == <<vfpu, ctrl, memory, static, last>>
disk  == <<edits, tree, staged, backup, stamp, marker, phase, next, moved, installed,
           before, lost, result, newest, calls, faults>>
exec  == <<elf, segments, records, lines>>
iso   == <<disc, out, index, done, appendSector, patching, patches>>
cross == <<body, machine, native, stopped, depth>>
abi   == <<args, guest>>
hooks == <<registry, starting, scopes, active, bypassed, bytes, sets>>
sha   == <<message, block, hashed, pieces>>
crypt == <<host, place, attempted, opened, verdict>>
vars  == <<part, code, instr, vec, exec, iso, cross, abi, disk, hooks, sha, crypt>>

Init ==
    /\ part \in Parts
    /\ image \in IF part = "code" THEN Images ELSE {CHOOSE i \in Images : TRUE}
    /\ Code!RecompiledInit
    /\ Instr!InstructionsInit
    /\ part = "instructions" \/ (interpreted.lo = 0 /\ interpreted.hi = 0)
    /\ Vec!VfpuInit
    /\ elf \in IF part = "executables" THEN Elfs ELSE {CHOOSE e \in Elfs : TRUE}
    /\ Exec!ExecutablesInit
    /\ disc \in IF part = "discs" THEN Discs ELSE {CHOOSE d \in Discs : TRUE}
    /\ Iso!DiscInit
    /\ body \in IF part = "overlays" THEN Bodies ELSE {CHOOSE b \in Bodies : TRUE}
    /\ Cross!OverlaysInit
    /\ Hooks!PatchCallsInit
    /\ phase \in IF part = "hydration" THEN Starts ELSE {CHOOSE s \in Starts : TRUE}
    /\ Disk!HydrationInit
    /\ Hooks!RegistryInit
    /\ Exec!FingerprintsInit
    /\ host \in IF part = "decryption" THEN Hosts ELSE {CHOOSE h \in Hosts : TRUE}
    /\ Exec!DecryptionInit

\* What is not looked at does not change.
Frame ==
    /\ UNCHANGED part
    /\ IF part = "code"         THEN TRUE ELSE UNCHANGED code
    /\ IF part = "instructions" THEN TRUE ELSE UNCHANGED instr
    /\ IF part = "vfpu"         THEN TRUE ELSE UNCHANGED vec
    /\ IF part = "executables"  THEN TRUE ELSE UNCHANGED exec
    /\ IF part = "discs"        THEN TRUE ELSE UNCHANGED iso
    /\ IF part = "overlays"     THEN TRUE ELSE UNCHANGED cross
    /\ IF part = "calls"        THEN TRUE ELSE UNCHANGED abi
    /\ IF part = "hydration"    THEN TRUE ELSE UNCHANGED disk
    /\ IF part = "patches"      THEN TRUE ELSE UNCHANGED hooks
    /\ IF part = "hashing"      THEN TRUE ELSE UNCHANGED sha
    /\ IF part = "decryption"   THEN TRUE ELSE UNCHANGED crypt

RunCode     == part = "code" /\ Code!RecompiledNext
RunBoth     == part = "instructions" /\ Instr!ExecuteBoth
WritePrefix == part = "vfpu" /\ Vec!WritePrefix
Operate     == part = "vfpu" /\ Vec!Operate
AddRelocation == part = "executables" /\ Exec!AddRelocation
AddLine     == part = "executables" /\ Exec!AddLine
PatchDisc   == part = "discs" /\ Iso!DiscNext
CrossOver   == part = "overlays" /\ Cross!OverlaysNext
PassArguments == part = "calls" /\ Hooks!PatchCallsNext
UseDisk     == part = "hydration" /\ Disk!HydrationNext
UsePatches  == part = "patches" /\ Hooks!RegistryNext
Hash        == part = "hashing" /\ Exec!update
Decrypt     == part = "decryption" /\ Exec!decrypt_psp_executable

Next ==
    /\ \/ RunCode \/ RunBoth \/ WritePrefix \/ Operate \/ AddRelocation \/ AddLine
       \/ PatchDisc \/ CrossOver \/ PassArguments \/ UseDisk
       \/ UsePatches \/ Hash \/ Decrypt
    /\ Frame

Spec == Init /\ [][Next]_vars
-----------------------------------------------------------------------------
(* The properties; each is explained in its module. *)

\* The recompiled program is the guest's processor, an instruction at a time.
ImplementsMachine == Code!ImplementsMachine

\* Interpreter and generated code compute the same, and so do the helpers
\* and what they stand for.  Vector operations: the shorter code is the
\* helper, names of registers agree, and prefixes reach one operation only.
\* Between the two no delayed branch is lost.
OperationsAgree ==
    /\ part = "code" => Code!BranchesKept
    /\ part = "instructions" => Instr!InstructionsAgree /\ Instr!HelpersMean
    /\ part = "vfpu" => Vec!VfpuSound

\* Relocations mean the same before and behind the stream, the module's
\* information is found where it is, and the code map says what its lines say.
\* What is decrypted first counts, and a fingerprint belongs to one file.
ExecutablesRight ==
    /\ part = "executables" =>
         Exec!RelocationsRight /\ Exec!ModuleInfoRight /\ Exec!CodeMapMeans
    /\ part = "decryption" => Exec!DecryptionSound
    /\ part = "hashing" => Exec!FingerprintSound

\* A disc with files replaced holds them, and everything else in its place.
DiscPatched == part = "discs" => Iso!DiscPatched

\* Native code does not notice that a function was compiled.
OverlayTransparent == part = "overlays" => Cross!OverlayTransparent

\* Calls between compiled, native and patched code: neither side notices
\* the other, what is called is given the arguments it is called with, and
\* patches are found, bypassed and left as they were registered.
CallsTransparent ==
    /\ OverlayTransparent
    /\ part = "calls" => Hooks!ArgumentsArrive /\ Hooks!ReturnsArrive
    /\ part = "patches" => Hooks!PatchesSound

\* What docs/game-patching.md:96 says of calls of originals.
OriginalBypasses == part = "patches" => Hooks!OriginalBypasses

\* A failed or killed hydration leaves no trees that are later believed.
HydrationSafe == part = "hydration" => Disk!HydrationSafe
-----------------------------------------------------------------------------
(* The instance for TLC *)

(* Recompiled programs: [op, r, s, to, zero, likely, link]. *)
I(op, r, s, to, zero, likely, link) ==
    [op |-> op, r |-> r, s |-> s, to |-> to, zero |-> zero, likely |-> likely, link |-> link]
Set(r, v)   == I("set", r, V0, v, TRUE, FALSE, FALSE)
Load(r, v)  == I("load", r, V0, v, TRUE, FALSE, FALSE)
Beqz(s, a)  == I("branch", V0, s, a, TRUE, FALSE, FALSE)
Bnezl(s, a) == I("branch", V0, s, a, FALSE, TRUE, FALSE)
Bal(s, a)   == I("branch", V0, s, a, TRUE, FALSE, TRUE)
J(a)        == I("j", V0, V0, a, TRUE, FALSE, FALSE)
Jal(a)      == I("jal", V0, V0, a, TRUE, FALSE, TRUE)
Jr(s)       == I("jr", V0, s, 0, TRUE, FALSE, FALSE)
Jalr(s)     == I("jalr", RA, s, 0, TRUE, FALSE, FALSE)
Op(o)       == I(o, V0, V0, 0, TRUE, FALSE, FALSE)
Nop         == Op("break")
Image(words, starts, pointers, imports, patched) ==
    [code |-> [a \in 0..(Len(words) - 1) |-> words[a + 1]], entry |-> 0,
     starts |-> starts, pointers |-> pointers, imports |-> imports, patched |-> patched]

\* A call, a likely branch, a tail jump.
CallsImage ==
    Image(<<Op("prologue"), Set(2, 3), Jal(5), Set(3, 1), J(11),
            Op("prologue"), Bnezl(3, 9), Set(3, 0), Nop, Jr(RA), Set(2, 0),
            Set(RA, Return), Jr(RA), Nop>>, {}, {}, {}, {})
\* Two hooked functions, one of which calls the other and returns oddly.
HooksImage ==
    Image(<<Jal(6), Set(3, 0), Jal(9), Set(RA, 0), J(14), Nop, Op("prologue"), Jr(RA),
            Set(3, 1), Op("prologue"), Set(3, 4), Jal(6), Nop, Jr(3), Set(2, Return),
            Jr(2), Nop>>, {}, {}, {}, {6, 9})
\* An import, with the starts of functions from a code map.
ImportsImage ==
    Image(<<Jal(8), Set(3, 0), Beqz(2, 5), Nop, Set(2, 0), Set(RA, Return), Jr(RA), Nop,
            Jr(RA), Nop>>, {0, 6}, {}, {8}, {})
\* Calls through registers and a branch that links.
IndirectImage ==
    Image(<<Set(3, 5), Jalr(3), Set(2, Return), Jr(2), Nop, Set(2, 0), Bal(2, 9), Load(2, 1),
            Jr(RA), Set(RA, Return), Jr(RA), Nop>>, {}, {}, {}, {})
\* A fault in a delay slot, a system call in one, a word that is none.
StopsImage ==
    Image(<<Set(3, 0), Beqz(3, 4), Load(2, Fault), Jr(RA), Op("syscall"), Op("bad")>>,
          {}, {}, {}, {})
\* A loop of one function, and an address that is not aligned.
LoopsImage ==
    Image(<<Set(3, 1), Bnezl(3, 1), Load(3, 0), Set(2, Odd), Jr(2), Nop>>, {}, {}, {}, {})

\* Every program of this shape: two transfers of control to every kind of place.
Places == {0, 3, 5, 6, 8}
Transfers ==
    UNION {{Beqz(3, a), Bnezl(3, a), J(a), Jal(a)} : a \in Places} \cup {Jr(3), Jalr(3)}
ShapedImages ==
    {Image(<<Op("prologue"), x, Set(3, 8), Nop, Set(3, 0), Op("prologue"), y, Set(3, 5),
             Load(2, 1), Jr(RA), Set(RA, Return)>>, {}, {0, 5, 8}, {}, {}) :
       x, y \in Transfers}
MCImages ==
    {CallsImage, HooksImage, ImportsImage, IndirectImage, StopsImage, LoopsImage}
    \cup ShapedImages
ASSUME MCImagesAreSound == \A im \in MCImages : Code!SoundImage(im)
-----------------------------------------------------------------------------
(* Instructions: the fields of a word. *)
E(op, rs, rt, rd, shift, fn, imm) ==
    [op |-> op, rs |-> rs, rt |-> rt, rd |-> rd, shift |-> shift, fn |-> fn, imm |-> imm]
\* Registers that coincide in every way, register 0 and the link register.
Triples ==
    {<<1, 2, 31>>, <<1, 2, 0>>, <<1, 2, 1>>, <<2, 1, 1>>, <<1, 1, 1>>, <<0, 2, 1>>,
     <<2, 0, 1>>, <<31, 2, 31>>}
Specials == {E(0, t[1], t[2], t[3], sh, fn, 0) : t \in Triples, sh \in {0, 1, 3}, fn \in 0..63}
Regimms == {E(1, rs, rt, 0, 0, 0, 1) : rs \in {0, 1, 31}, rt \in {0, 1, 2, 3, 4, 16, 17, 18, 19}}
\* The rest are modelled elsewhere or not at all: COP0, COP2, cache, VFPU.
ImmediateOps == (2..63) \ {17, 18, 24, 25, 27, 28, 31, 50, 52, 53, 54, 55, 58, 60, 61, 62, 63}
Immediates == {E(op, t[1], t[2], 0, 0, 0, imm) : op \in ImmediateOps, t \in Triples, imm \in 0..3}
Cops ==
    {E(17, f, rt, rd, fd, fn, 0) :
       f \in {0, 2, 4, 6, 8, 16, 20, 21}, rt \in 0..2, rd \in {0, 1, 31}, fd \in {1, 2},
       fn \in {0, 4, 5, 6, 7, 8, 12, 13, 14, 15, 17, 32, 36, 48, 50, 57, 63}}
Special2s == {E(28, t[1], t[2], t[3], 0, fn, 0) : t \in Triples, fn \in {0, 32, 33, 44, 45}}
Special3s ==
    {E(31, t[1], t[2], rd, sh, fn, 0) : t \in Triples, rd \in 0..2, sh \in 0..3, fn \in {0, 4, 5}}
    \cup {E(31, t[1], t[2], t[3], sh, 32, 0) : t \in Triples, sh \in {0, 2, 3, 16, 20, 24}}
MCEncodings == Specials \cup Regimms \cup Immediates \cup Cops \cup Special2s \cup Special3s

MCFloatOp(f, l, r) == (f + l + (3 * r)) % 16
-----------------------------------------------------------------------------
(* Vector operations. *)
VOp(n, size, vd, vs, vt) ==
    [name |-> n, size |-> size, vd |-> vd, vs |-> vs, vt |-> vt, cond |-> "lt", select |-> 6,
     when |-> TRUE]
\* Scalars, columns and rows, from the start of a register or inside it.
AllRegisters == {c + (b * 32) : c \in 0..3, b \in 0..3}
Some == {0, 1, 34, 67, 96}
LaneNames ==
    {"divide", "sbn", "min", "max", "scmp", "slt", "abs", "neg", "sat0", "sat1", "zero", "one",
     "sgn", "constant", "unary", "f2i", "i2f"}
MCOperations ==
    {VOp(n, size, vd, vs, vt) :
       n \in {"add", "subtract", "multiply", "dot", "move"}, size \in 1..4, vd \in AllRegisters, vs \in Some, vt \in Some}
    \cup {VOp(n, size, vd, 34, 1) :
            n \in LaneNames \cup {"dot", "hdp", "det", "fad", "avg", "scl", "cmp", "cmov", "idt"},
            size \in 2..4, vd \in Some}
    \cup {VOp(n, 4, vd, 34, 1) :
            n \in {"crs", "crsp", "qmul", "srt1", "srt3", "srt4", "bfy1", "bfy2"}, vd \in Some}
    \cup {VOp(n, size, vd, vs, vt) :
            n \in {"mmov", "mscl", "midt", "mzero", "mone", "mmul", "tfm"}, size \in 2..4, vd \in {0, 32, 66},
            vs \in {0, 32}, vt \in {0, 32, 1}}

\* Lanes in the reverse order, one negated and one absolute; a constant;
\* a masked lane and every kind of saturation.
MCPrefixes ==
    {<<"s", [i \in 0..3 |-> [swizzle |-> 3 - i, absolute |-> i = 2, constant |-> FALSE,
                             negate |-> i = 1]]>>,
     <<"t", [i \in 0..3 |-> [swizzle |-> i, absolute |-> FALSE, constant |-> i = 0,
                             negate |-> FALSE]]>>,
     <<"d", [masked |-> {1}, saturate |-> [i \in 0..3 |-> i]]>>}
MCHost1(n, x) == x + 7
MCHost2(n, x, y) == x - (2 * y)
-----------------------------------------------------------------------------
(* Executables: relocations at the limits of the stream's forms, and small ones *)
(* that are applied to a word of memory each. *)
Reloc(o, t, p, g) == [offset |-> o, type |-> t, patch |-> p, target |-> g]
Applied ==
    {Reloc(o, t, s[1], s[2]) : o \in {0, 4}, t \in {2, 4, 5, 6}, s \in {<<0, 0>>, <<0, 1>>, <<1, 0>>}}
Streamed ==
    {Reloc(o, t, s[1], s[2]) :
       o \in {0, 2, 4, 28, 32, 124, 128, 70000}, t \in {0, 5, 6, 15},
       s \in {<<0, 0>>, <<1, 0>>, <<3, 3>>, <<0, 5>>}}
Header(load, offset, address, paddr, fsize, msize) ==
    [load |-> load, offset |-> offset, address |-> address, paddr |-> paddr,
     fsize |-> fsize, msize |-> msize]
Elf(hs, named, prx, pool, max) ==
    [data |-> <<1, 8, 15, 3, 9, 15, 2, 12, 14, 7, 0, 8, 0, 9>>, headers |-> hs, entry |-> 64,
     prx |-> prx, named |-> named, pool |-> pool, max |-> max]
TwoSegments == <<Header(TRUE, 0, 0, 0, 8, 8), Header(TRUE, 8, 8, 0, 6, 8)>>
MCElfs ==
    {Elf(TwoSegments, 0, FALSE, Applied, 3), Elf(TwoSegments, NoInfo, FALSE, Streamed, 2),
     Elf(<<>>, NoInfo, FALSE, {}, 0)}
    \cup {Elf(<<Header(TRUE, o, a, p, f, f + z), Header(l, 6, b, 0, 6, 8)>>, NoInfo, TRUE, {}, 0) :
            o \in {0, 2}, a \in {0, 64, 68}, b \in {16, 96, 124}, p \in {0, 1, 2, 3, 5, 6, 9, 13}, f \in {4, 6},
            l \in BOOLEAN, z \in {0, 2}}
Line(k, a, b, n) == [kind |-> k, first |-> a, second |-> b, name |-> n]
MCLines ==
    {Line(k, a, b, "") : k \in {"exclude", "function_range"}, a \in {0, 4, 8, 12}, b \in {4, 8, 16}}
    \cup {Line("function", 4, 0, "f"), Line("version", 3, 0, ""), Line("block", 8, 0, ""),
          Line("overlay", 8, 0, ""), Line("entry", 4, 0, ""), Line("gap", 0, 0, "")}
-----------------------------------------------------------------------------
(* Discs: sector 0 is the descriptor, 1 and 2 are directories. *)
File(n, x, s) == [name |-> n, isdir |-> FALSE, extent |-> x, size |-> s]
Folder(n, x) == [name |-> n, isdir |-> TRUE, extent |-> x, size |-> SectorSize]
Disc(root, sub) ==
    [bytes |-> <<7, 7, 99, 99, 99, 99, 77, 1, 2, 0, 3, 4, 5, 6>>, dirs |-> (1 :> root) @@ (2 :> sub),
     root |-> 1, volume |-> 7]
\* A name in small letters; an empty file behind the end and a shared sector.
MCDiscs ==
    {Disc(<<Folder("S", 2), File("c", 5, 2), File("D", 6, 1)>>, <<File("E", 3, 3)>>),
     Disc(<<Folder("S", 2), File("C", 7, 0), File("D", 6, 1)>>,
          <<File("E", 3, 1), File("B", 4, 2), File("F", 4, 1)>>)}
MCUpper == [n \in {"S", "C", "D", "E", "B", "F", "X", "c"} |-> IF n = "c" THEN "C" ELSE n]
MCCandidates == <<<<"S", "E">>, <<"S", "B">>>>
MCCnfPath == <<"C">>
MCCnfTarget == <<"D">>
MCReplacements ==
    {[path |-> p, content |-> c] :
       p \in {<<"S", "E">>, <<"c">>}, c \in {<<>>, <<77, 8, 8>>, <<9, 9, 9, 9, 9>>}}
    \cup {[path |-> p, content |-> <<77>>] : p \in {<<"D">>, <<"S">>, <<"S", "F">>, <<"X">>}}
-----------------------------------------------------------------------------
(* Overlays.  The frame of a function has its saved registers at the top. *)
O(op, r, n) == [op |-> op, reg |-> r, n |-> n]
Call(a) == O("call", RA, a)
Framed(size, middle) ==
    <<O("push", SP, size), O("save", RA, size - 1), O("save", Saved, size - 2)>> \o middle
    \o <<O("load", Saved, size - 2), O("load", RA, size - 1), O("pop", SP, size), O("return", RA, 0)>>
\* With calls out, a stop, recursion, another link register, none of these.
MCBodies ==
    {Framed(3, <<Call(Native), O("save", V0, 0), Call(Native), O("load", Saved, 0)>>),
     Framed(3, <<O("set", Saved, 5), Call(Native), O("set", V0, 7), O("stop", RA, 0)>>),
     <<O("push", SP, 1), O("save", RA, 0), O("beqz", V0, 5), O("add", V0, -1), Call(0),
       O("load", RA, 0), O("pop", SP, 1), O("return", RA, 0)>>,
     <<O("push", SP, 1), O("save", RA, 0), O("call", 25, Native), O("load", RA, 0),
       O("pop", SP, 1), O("return", RA, 0)>>,
     <<O("set", V0, 3), O("return", RA, 0)>>}
\* A frame of four words.
LargerBodies ==
    {Framed(4, <<O("set", Saved, 5), O("save", V0, 0), Call(Native), O("load", V0, 0)>>)}
-----------------------------------------------------------------------------
(* Calls of patches: two regions of memory, pointers into them, to the end *)
(* of one and to somewhere else. *)
A(t, v) == [type |-> t, value |-> v]
MCRegions == <<[base |-> 100, size |-> 8], [base |-> 108, size |-> 12]>>
MCArguments ==
    {A("word", 0), A("float", 0), A("wide", <<0, 0>>), A("pointer", <<1, 4>>),
     A("pointer", <<2, 0>>), A("pointer", <<2, 12>>)}
-----------------------------------------------------------------------------
(* Patches of two functions: by their address in several ways, an alias of *)
(* it, an address that is none, two Ghidra names, a symbol and a stray name. *)
T(k, v) == [kind |-> k, value |-> v]
MCSymbols == 20 :> "draw"
MCGhidra == "FUN_4" :> 4 @@ "FUN_04" :> 4 @@ "FUN_8" :> 8
MCTargets ==
    {T("image_offset", 4), T("automatic", 4), T("absolute", 20), T("absolute", 52),
     T("image_offset", 60), T("image_offset", 8), T("name", "FUN_4"), T("name", "FUN_04"),
     T("name", "draw"), T("name", "gone")}
\* Objects of every width, aligned or not, and at the end of the memory.
MCGlobals ==
    {[address |-> a, width |-> w] : a \in {0, 1, 4}, w \in {1, 2, 3, 4, 8}}
    \cup {[address |-> 8, width |-> 8], [address |-> 10, width |-> 3]}
-----------------------------------------------------------------------------
(* Places for PPSSPP: a directory, a program that is no library, one that  *)
(* cannot decrypt, one that compresses, a good one and a link to it. *)
AtPlace(real, loads, symbol, size, iself) ==
    [regular |-> TRUE, real |-> real, loads |-> loads, symbol |-> symbol, size |-> size, elf |-> iself]
MCFiles ==
    {[AtPlace(1, TRUE, TRUE, 3, TRUE) EXCEPT !.regular = FALSE], AtPlace(2, FALSE, FALSE, 0, FALSE),
     AtPlace(3, TRUE, FALSE, 3, TRUE), AtPlace(4, TRUE, TRUE, 0, TRUE), AtPlace(5, TRUE, TRUE, 9, TRUE),
     AtPlace(6, TRUE, TRUE, 4, FALSE), AtPlace(7, TRUE, TRUE, 4, TRUE)}
MCNames == <<"ppsspp", "PPSSPPSDL">>
MCWellKnown == <<<<"opt", "ppsspp">>>>
MCHosts ==
    {[configured |-> c, path |-> p,
      files |-> (<<"a", "PPSSPPSDL">> :> f) @@ (<<"b", "ppsspp">> :> g) @@ (<<"opt", "ppsspp">> :> h)] :
       c \in {NoPlace, <<"b", "ppsspp">>, <<"x", "gone">>},
       p \in {<<>>, <<"a", NoPlace, "b">>, <<"b", "b", "a">>}, f, g \in MCFiles,
       h \in {f \in MCFiles : f.real \in {2, 6, 7}}}
-----------------------------------------------------------------------------
\* Three of the five trees: one before, one between and one behind a failure.
MCTrees == <<"generated", "platform", "refract">>
=============================================================================
