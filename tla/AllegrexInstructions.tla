------------------------ MODULE AllegrexInstructions ------------------------
(***************************************************************************)
(* What single instructions compute, twice: the interpreter's switch       *)
(* (interpret_allegrex) and the C++ that emit_instruction writes.  A word  *)
(* of the guest has four bytes of ByteBits bits, an immediate two; the     *)
(* code's constants 8, 16, 32, 0xffff and 0x80000000 scale with it.  An    *)
(* encoding is a record of its fields.  Floats are abstracted to a sign    *)
(* and a magnitude in halves, the largest standing for NaN.                *)
(***************************************************************************)
EXTENDS Integers, FiniteSets, FiniteSetsExt

CONSTANTS
    ByteBits,           \* bits of a byte
    Values,             \* contents of registers to start with
    MemorySize,         \* bytes of guest memory, from address 0
    Encodings,          \* instructions to look at
    FloatOp(_, _, _)    \* the host's + - * / sqrt, the same in both

VARIABLES
    interpreted,        \* State, after the interpreter
    generated,          \* State, after the generated code
    word                \* the instruction, or the one still to be chosen

ivars == <<interpreted, generated, word>>

Bits == 4 * ByteBits
Word == 2^Bits
Half == 2^(2 * ByteBits)
Byte == 2^ByteBits
Top  == Word \div 2                         \* 0x80000000
NotYet == [op |-> -1]

InstructionsAssumption ==
    /\ ByteBits \in Nat \ {0} /\ Values \subseteq 0..(Word - 1) /\ MemorySize \in Nat

GprUsed == {0, 1, 2, 31}
-----------------------------------------------------------------------------
(* Helpers of the runtime. *)

\* Bit by bit: a number is the set of its ones.
Ones(v) == {k \in 0..(Bits - 1) : (v \div 2^k) % 2 = 1}
Number(ones) == SumSet({2^k : k \in ones})
x & y == Number(Ones(x) \cap Ones(y))
x | y == Number(Ones(x) \cup Ones(y))
x ^^ y == Number((Ones(x) \cup Ones(y)) \ (Ones(x) \cap Ones(y)))

as_s32(v) == IF v < Top THEN v ELSE v - Word
SignExtend(v, modulus) == (IF v >= modulus \div 2 THEN v - modulus ELSE v) % Word
ShiftLeft(v, n) == (v * 2^n) % Word
ShiftRight(v, n) == v \div 2^n
Complement(v) == Word - 1 - v

ArithmeticShiftRight(v, amount) ==
    LET n == amount % Bits
    IN  IF n = 0 THEN v
        ELSE IF v < Top THEN ShiftRight(v, n)
                        ELSE ShiftRight(v, n) | ShiftLeft(Word - 1, Bits - n)

RotateRight(v, amount) ==
    LET n == amount % Bits
    IN  IF n = 0 THEN v ELSE ShiftRight(v, n) | ShiftLeft(v, Bits - n)

\* Leading zeros, and leading ones (of the host's library).
CountlZero(v) == Cardinality({n \in 0..(Bits - 1) : v < 2^n})
CountlOne(v)  == CountlZero(Complement(v))

\* One line of reverse_bits: neighbouring groups of n bits change places.
SwapGroups(v, n) ==
    LET m == Number({k \in 0..(Bits - 1) : (k \div n) % 2 = 0})
    IN  ShiftLeft(v & m, n) | ShiftRight(v & Complement(m), n)

reverse_bits(v) ==
    LET Wires[n \in 1..Bits, x \in 0..(Word - 1)] ==
            IF n = Bits THEN x ELSE Wires[2 * n, SwapGroups(x, n)]
    IN  Wires[1, v]

wsbh(v) == SwapGroups(v, ByteBits)
byte_swap(v) == SwapGroups(SwapGroups(v, ByteBits), 2 * ByteBits)

\* The mask of ext and ins; a field of all bits would shift too far.
FieldMask(width) == IF width = Bits THEN Word - 1 ELSE 2^width - 1
-----------------------------------------------------------------------------
(* Memory: little-endian; aligned unless it is the left or right part of a *)
(* word.  A fault stops the guest and loads zero.                          *)

mapped_address(a, n) == a + n <= MemorySize
Faults(s) == [s EXCEPT !.stop = "memory_fault"]

BytesFrom(s, a, n) ==
    LET Sum[k \in 0..n] == IF k = 0 THEN 0 ELSE Sum[k - 1] + (s.mem[a + k - 1] * Byte^(k - 1))
    IN  Sum[n]

Poke(s, a, n, v) ==
    [s EXCEPT !.mem = [b \in DOMAIN s.mem |->
        IF b \in a..(a + n - 1) THEN (v \div Byte^(b - a)) % Byte ELSE s.mem[b]]]

CanAccess(a, n) == a % n = 0 /\ mapped_address(a, n)
Load(s, a, n) == IF CanAccess(a, n) THEN BytesFrom(s, a, n) ELSE 0
AfterLoad(s, a, n) == IF CanAccess(a, n) THEN s ELSE Faults(s)
Store(s, a, n, v) == IF CanAccess(a, n) THEN Poke(s, a, n, v % Byte^n) ELSE Faults(s)

\* The last `count' bytes of the register, from the start of the word.
load_word_left(s, a, v) ==
    LET count == (a % 4) + 1
        aligned == a - (a % 4)
        kept == Byte^(4 - count)
    IN  IF mapped_address(aligned, count) THEN (v % kept) + (BytesFrom(s, aligned, count) * kept)
                                          ELSE v
AfterLeft(s, a) == IF mapped_address(a - (a % 4), (a % 4) + 1) THEN s ELSE Faults(s)

load_word_right(s, a, v) ==
    LET count == 4 - (a % 4)
    IN  IF mapped_address(a, count)
          THEN ((v \div Byte^count) * Byte^count) + BytesFrom(s, a, count) ELSE v
AfterRight(s, a) == IF mapped_address(a, 4 - (a % 4)) THEN s ELSE Faults(s)

store_word_left(s, a, v) ==
    LET count == (a % 4) + 1
    IN  IF mapped_address(a - (a % 4), count)
          THEN Poke(s, a - (a % 4), count, v \div Byte^(4 - count)) ELSE Faults(s)

store_word_right(s, a, v) ==
    LET count == 4 - (a % 4)
    IN  IF mapped_address(a, count) THEN Poke(s, a, count, v % Byte^count) ELSE Faults(s)
-----------------------------------------------------------------------------
(* Floats and the condition bits of fcr31, a set of bit numbers. *)

IsNan(v) == v % Top = Top - 1
Halves(v) == IF v < Top THEN v ELSE -(v - Top)

CcBit(cc) == IF cc = 0 THEN 23 ELSE 24 + cc
fpu_condition(s, cc) == CcBit(cc) \in s.fcr31
set_fpu_condition(s, cc, b) ==
    [s EXCEPT !.fcr31 = IF b THEN @ \cup {CcBit(cc)} ELSE @ \ {CcBit(cc)}]

compare_f32(s, cc, l, r, condition) ==
    LET unordered == IsNan(l) \/ IsNan(r)
        less  == ~unordered /\ Halves(l) < Halves(r)
        equal == ~unordered /\ Halves(l) = Halves(r)
    IN  set_fpu_condition(s, cc, \/ (condition & 4) # 0 /\ less
                                 \/ (condition & 2) # 0 /\ equal
                                 \/ (condition & 1) # 0 /\ unordered)

\* nearbyint (to even), trunc, ceil, floor, of a value in halves.
RoundedHalves(h, mode) ==
    LET floor == h \div 2
        ceil  == -((-h) \div 2)
    IN  CASE mode = 0 -> IF floor % 2 = 0 THEN floor ELSE ceil
          [] mode = 1 -> IF h >= 0 THEN floor ELSE ceil
          [] mode = 2 -> ceil
          [] mode = 3 -> floor

\* What is no number, or is out of range, becomes 0x80000000.
rounded_word(v, mode) ==
    LET r == RoundedHalves(Halves(v), IF Halves(v) % 2 = 0 THEN 3 ELSE mode)
    IN  IF IsNan(v) \/ r < -Top \/ r >= Top THEN Top ELSE r % Word

\* std::round: halves go away from zero.
RoundAway(h) == IF h >= 0 THEN (h + 1) \div 2 ELSE -((1 - h) \div 2)

\* The bits of fcr31 a register shows; the others are not modelled.
FcrShown == <<0, 1, 23, 25>>
FcrFrom(v) == {FcrShown[k] : k \in {n \in 1..4 : (v \div 2^(n - 1)) % 2 = 1}}
FcrValue(S) ==
    LET Sum[k \in 0..4] == IF k = 0 THEN 0
                           ELSE Sum[k - 1] + (IF FcrShown[k] \in S THEN 2^(k - 1) ELSE 0)
    IN  Sum[4]
\* cfc1: the revision, fcr31, or nothing.
ControlValue(w, s) ==
    CASE w.rd = 0 -> 13137 % Word [] w.rd = 31 -> FcrValue(s.fcr31) [] OTHER -> 0
FcrMode(s) == (IF 0 \in s.fcr31 THEN 1 ELSE 0) + (IF 1 \in s.fcr31 THEN 2 ELSE 0)
-----------------------------------------------------------------------------
(* decode_allegrex: the encodings that mean something. *)

AluFunctions    == {0, 2, 3, 4, 6, 7, 16, 18, 22, 23} \cup (32..39) \cup (42..45)
HiLoFunctions   == (24..29) \cup {46, 47}
OtherFunctions  == {8, 9, 10, 11, 12, 13, 15, 17, 19}

SpecialValid(w) ==
    CASE w.fn \in {0, 3} -> w.rs = 0
      [] w.fn = 2 -> w.rs \in {0, 1}
      [] w.fn \in {4, 7} -> w.shift = 0
      [] w.fn = 6 -> w.shift \in {0, 1}
      [] OTHER -> w.fn \in AluFunctions \cup HiLoFunctions \cup OtherFunctions

RegimmValid(w) == w.rt \in {0, 1, 2, 3, 16, 17, 18, 19}

Cop1Scalar(w) ==
    w.rs = 16 /\ w.fn \in (0..7) \cup (12..15) \cup {17, 32, 36} \cup (48..63)

Special3Valid(w) ==
    \/ w.fn = 0
    \/ w.fn = 4 /\ w.rd >= w.shift
    \/ w.fn = 32 /\ w.shift \in {2, 3, 16, 20, 24}

Valid(w) ==
    CASE w.op = 0  -> SpecialValid(w)
      [] w.op = 1  -> RegimmValid(w)
      [] w.op = 17 -> w.rs \in {0, 2, 4, 6, 8} \/ Cop1Scalar(w) \/ (w.rs = 20 /\ w.fn = 32)
      [] w.op = 28 -> w.fn \in {32, 33, 44, 45}
      [] w.op = 31 -> Special3Valid(w)
      [] OTHER -> w.op \in (2..15) \cup (20..23) \cup (32..38) \cup (40..43)
                           \cup {46, 47, 48, 49, 56, 57}
-----------------------------------------------------------------------------
(* Values, written alike in the interpreter and in the generated code. *)

Larger(x, y)  == IF as_s32(x) > as_s32(y) THEN x ELSE y
Smaller(x, y) == IF as_s32(x) < as_s32(y) THEN x ELSE y
Truth(b) == IF b THEN 1 ELSE 0

\* The shifts of SPECIAL; they rotate if a field that is otherwise zero is one.
Shifted(w, s) ==
    LET x == s.gpr[w.rs]
        y == s.gpr[w.rt]
    IN  CASE w.fn = 0 -> ShiftLeft(y, w.shift)
          [] w.fn = 2 -> IF w.rs = 1 THEN RotateRight(y, w.shift) ELSE ShiftRight(y, w.shift)
          [] w.fn = 3 -> ArithmeticShiftRight(y, w.shift)
          [] w.fn = 4 -> ShiftLeft(y, x % Bits)
          [] w.fn = 6 -> IF w.shift = 1 THEN RotateRight(y, x) ELSE ShiftRight(y, x % Bits)
          [] w.fn = 7 -> ArithmeticShiftRight(y, x)

\* The SPECIAL instructions that write rd.
Alu(w, s) ==
    LET x == s.gpr[w.rs]
        y == s.gpr[w.rt]
    IN  CASE w.fn \in 0..7 -> Shifted(w, s)
          [] w.fn = 16 -> s.hi
          [] w.fn = 18 -> s.lo
          [] w.fn = 22 -> CountlZero(x)
          [] w.fn = 23 -> CountlOne(x)
          [] w.fn \in {32, 33} -> (x + y) % Word
          [] w.fn \in {34, 35} -> (x - y) % Word
          [] w.fn = 36 -> x & y
          [] w.fn = 37 -> x | y
          [] w.fn = 38 -> x ^^ y
          [] w.fn = 39 -> Complement(x | y)
          [] w.fn = 42 -> Truth(as_s32(x) < as_s32(y))
          [] w.fn = 43 -> Truth(x < y)
          [] w.fn = 44 -> Larger(x, y)
          [] w.fn = 45 -> Smaller(x, y)

SetHiLo(s, value) == [s EXCEPT !.lo = value % Word, !.hi = (value \div Word) % Word]

\* mult, madd and msub; the accumulator has two words and wraps.
Accumulate(w, s) ==
    LET signed == w.fn \in {24, 28, 46}
        product == IF signed THEN as_s32(s.gpr[w.rs]) * as_s32(s.gpr[w.rt])
                             ELSE s.gpr[w.rs] * s.gpr[w.rt]
        acc == (s.hi * Word) + s.lo
    IN  SetHiLo(s, CASE w.fn \in {24, 25} -> product
                     [] w.fn \in {28, 29} -> acc + product
                     [] w.fn \in {46, 47} -> acc - product)

\* C++ division rounds towards zero.
Quotient(x, y) ==
    LET Abs(v) == IF v < 0 THEN -v ELSE v
    IN  IF (x < 0) = (y < 0) THEN Abs(x) \div Abs(y) ELSE -(Abs(x) \div Abs(y))

Divide(w, s) ==
    LET x == as_s32(s.gpr[w.rs])
        y == as_s32(s.gpr[w.rt])
        q == Quotient(x, y)
    IN  IF y = 0 THEN [s EXCEPT !.lo = IF x < 0 THEN 1 ELSE Word - 1, !.hi = s.gpr[w.rs]]
        ELSE IF x = -Top /\ y = -1 THEN [s EXCEPT !.lo = Top, !.hi = Word - 1]
        ELSE [s EXCEPT !.lo = q % Word, !.hi = (x - (q * y)) % Word]

DivideUnsigned(w, s) ==
    LET x == s.gpr[w.rs]
        y == s.gpr[w.rt]
    IN  IF y = 0 THEN [s EXCEPT !.lo = IF x < Half THEN Half - 1 ELSE Word - 1, !.hi = x]
                 ELSE [s EXCEPT !.lo = x \div y, !.hi = x % y]

HiLo(w, s) ==
    CASE w.fn = 26 -> Divide(w, s)
      [] w.fn = 27 -> DivideUnsigned(w, s)
      [] OTHER -> Accumulate(w, s)

\* addi to lui: they write rt.
Immediate(w, s) ==
    LET x == s.gpr[w.rs]
        signed == SignExtend(w.imm, Half)
    IN  CASE w.op \in {8, 9} -> (x + signed) % Word
          [] w.op = 10 -> Truth(as_s32(x) < as_s32(signed))
          [] w.op = 11 -> Truth(x < signed)
          [] w.op = 12 -> x & w.imm
          [] w.op = 13 -> x | w.imm
          [] w.op = 14 -> x ^^ w.imm
          [] w.op = 15 -> w.imm * Half

\* SPECIAL3: ext and ins write rt, the others rd.
Extract(w, s) == ShiftRight(s.gpr[w.rs], w.shift) & FieldMask(w.rd + 1)
Insert(w, s) ==
    LET field == ShiftLeft(FieldMask(w.rd - w.shift + 1), w.shift)
    IN  (s.gpr[w.rt] & Complement(field)) | (ShiftLeft(s.gpr[w.rs], w.shift) & field)
Rearranged(w, s) ==
    LET y == s.gpr[w.rt]
    IN  CASE w.shift = 20 -> reverse_bits(y)
          [] w.shift = 2  -> wsbh(y)
          [] w.shift = 3  -> byte_swap(y)
          [] w.shift = 16 -> SignExtend(y % Byte, Byte)
          [] w.shift = 24 -> SignExtend(y % Half, Half)

\* The conditional branches: taken, and skipping the slot if not.
BranchTaken(w, s) ==
    LET x == s.gpr[w.rs]
    IN  CASE w.op = 1 -> (as_s32(x) >= 0) = (w.rt % 2 = 1)
          [] w.op \in {4, 20} -> x = s.gpr[w.rt]
          [] w.op \in {5, 21} -> x # s.gpr[w.rt]
          [] w.op \in {6, 22} -> as_s32(x) <= 0
          [] w.op \in {7, 23} -> as_s32(x) > 0
          [] w.op = 17 -> fpu_condition(s, w.rt \div 4) = (w.rt % 2 = 1)
IsLikely(w) ==
    CASE w.op = 1 -> w.rt \in {2, 3, 18, 19}
      [] w.op = 17 -> (w.rt \div 2) % 2 = 1
      [] OTHER -> w.op \in 20..23

\* The instructions that are branches; the instruction is at address 0.
Branched(s, to) == [s EXCEPT !.pending = TRUE, !.target = to]
Conditional(w, s) ==
    IF BranchTaken(w, s) THEN Branched(s, "relative")
    ELSE IF IsLikely(w) THEN [s EXCEPT !.skips = TRUE] ELSE s
LinkAddress == 8 % Word

Address(w, s) == (s.gpr[w.rs] + SignExtend(w.imm, Half)) % Word
LoadSize(op) == CASE op \in {32, 36, 40} -> 1 [] op \in {33, 37, 41} -> 2 [] OTHER -> 4

\* The registers a load changes, as a value: lb, lh, lwl, lw, lbu, lhu, lwr, ll.
Loaded(w, s) ==
    LET a == Address(w, s)
        v == Load(s, a, LoadSize(w.op))
    IN  CASE w.op = 32 -> SignExtend(v, Byte)
          [] w.op = 33 -> SignExtend(v, Half)
          [] w.op = 34 -> load_word_left(s, a, s.gpr[w.rt])
          [] w.op = 38 -> load_word_right(s, a, s.gpr[w.rt])
          [] w.op \in {35, 36, 37, 48} -> v
AfterLoaded(w, s) ==
    LET a == Address(w, s)
    IN  CASE w.op = 34 -> AfterLeft(s, a)
          [] w.op = 38 -> AfterRight(s, a)
          [] OTHER -> AfterLoad(s, a, LoadSize(w.op))
LoadOps == (32..38) \cup {48}

Stored(w, s) ==
    LET a == Address(w, s)
        v == s.gpr[w.rt]
    IN  CASE w.op = 42 -> store_word_left(s, a, v)
          [] w.op = 46 -> store_word_right(s, a, v)
          [] OTHER -> Store(s, a, LoadSize(w.op), v)
StoreOps == (40..43) \cup {46}
-----------------------------------------------------------------------------
(* The interpreter: it writes register 0 too, and clears it at the end. *)

Put(s, r, v) == [s EXCEPT !.gpr[r] = v]
Stops(s, reason) == [s EXCEPT !.stop = reason]
Unsupported(s) == Stops(s, "unsupported_instruction")

InterpretedSpecial(w, s) ==
    CASE w.fn \in AluFunctions  -> Put(s, w.rd, Alu(w, s))
      [] w.fn \in HiLoFunctions -> HiLo(w, s)
      [] w.fn = 8  -> Branched(s, s.gpr[w.rs])
      [] w.fn = 9  -> Branched(IF w.rd # 0 THEN Put(s, w.rd, LinkAddress) ELSE s, s.gpr[w.rs])
      [] w.fn = 10 -> IF s.gpr[w.rt] = 0 THEN Put(s, w.rd, s.gpr[w.rs]) ELSE s
      [] w.fn = 11 -> IF s.gpr[w.rt] # 0 THEN Put(s, w.rd, s.gpr[w.rs]) ELSE s
      [] w.fn = 12 -> Stops(s, "syscall")
      [] w.fn \in {13, 15} -> s
      [] w.fn = 17 -> [s EXCEPT !.hi = s.gpr[w.rs]]
      [] w.fn = 19 -> [s EXCEPT !.lo = s.gpr[w.rs]]
      [] OTHER -> Unsupported(s)

\* COP1, scalar: fs is rd, fd is shift.
InterpretedScalar(w, s) ==
    LET l == s.fpr[w.rd]
        r == s.fpr[w.rt]
        Fd(v) == [s EXCEPT !.fpr[w.shift] = v]
        Negated(v) == IF v < Top THEN v + Top ELSE v - Top
    IN  CASE w.fn \in 0..4 -> Fd(FloatOp(w.fn, l, r))
          [] w.fn = 5  -> Fd(IF l < Top THEN l ELSE Negated(l))             \* std::fabs
          [] w.fn = 7  -> Fd(Negated(l))
          [] w.fn = 12 -> Fd(RoundAway(Halves(l)) % Word)
          [] w.fn = 13 -> Fd(RoundedHalves(Halves(l), IF l % 2 = 0 THEN 3 ELSE 1) % Word)
          [] w.fn = 14 -> Fd(rounded_word(l, 2))
          [] w.fn = 15 -> Fd(rounded_word(l, 3))
          [] w.fn = 17 -> IF fpu_condition(s, w.rt \div 4) = (w.rt % 2 = 1) THEN Fd(l) ELSE s
          [] w.fn \in {6, 32} -> Fd(l)
          [] w.fn = 36 -> Fd(rounded_word(l, FcrMode(s)))
          [] w.fn >= 48 -> compare_f32(s, w.shift \div 4, l, r, w.fn % 16)
          [] OTHER -> Unsupported(s)

InterpretedCop1(w, s) ==
    CASE w.rs = 0 -> Put(s, w.rt, s.fpr[w.rd])
      [] w.rs = 4 -> [s EXCEPT !.fpr[w.rd] = s.gpr[w.rt]]
      [] w.rs = 2 -> Put(s, w.rt, ControlValue(w, s))
      [] w.rs = 6 -> IF w.rd = 31 THEN [s EXCEPT !.fcr31 = FcrFrom(s.gpr[w.rt])] ELSE s
      [] w.rs = 8 -> Conditional(w, s)
      [] w.rs = 16 -> InterpretedScalar(w, s)
      [] w.rs = 20 /\ w.fn = 32 -> [s EXCEPT !.fpr[w.shift] = FloatOp(w.fn, s.fpr[w.rd], 0)]
      [] OTHER -> Unsupported(s)

InterpretedSpecial3(w, s) ==
    CASE w.fn = 0 -> Put(s, w.rt, Extract(w, s))
      [] w.fn = 4 -> Put(s, w.rt, Insert(w, s))
      [] w.fn = 32 /\ w.shift \in {2, 3, 16, 20, 24} -> Put(s, w.rd, Rearranged(w, s))
      [] OTHER -> Unsupported(s)

InterpretedSwitch(w, s) ==
    CASE w.op = 0 -> InterpretedSpecial(w, s)
      [] w.op = 1 -> Conditional(w, IF w.rt \in 16..19 THEN Put(s, 31, LinkAddress) ELSE s)
      [] w.op \in {2, 3} -> Branched(IF w.op = 3 THEN Put(s, 31, LinkAddress) ELSE s, "absolute")
      [] w.op \in (4..7) \cup (20..23) -> Conditional(w, s)
      [] w.op \in 8..15 -> Put(s, w.rt, Immediate(w, s))
      [] w.op = 17 -> InterpretedCop1(w, s)
      [] w.op = 28 -> Put(s, w.rd, CASE w.fn = 32 -> CountlZero(s.gpr[w.rs])
                                     [] w.fn = 33 -> CountlOne(s.gpr[w.rs])
                                     [] w.fn = 44 -> Larger(s.gpr[w.rs], s.gpr[w.rt])
                                     [] w.fn = 45 -> Smaller(s.gpr[w.rs], s.gpr[w.rt]))
      [] w.op = 31 -> InterpretedSpecial3(w, s)
      [] w.op \in LoadOps -> Put(AfterLoaded(w, s), w.rt, Loaded(w, s))
      [] w.op \in StoreOps -> Stored(w, s)
      [] w.op \in {47, 51} -> s
      [] w.op = 49 -> [AfterLoad(s, Address(w, s), 4) EXCEPT !.fpr[w.rt] = Load(s, Address(w, s), 4)]
      [] w.op = 56 -> Put(Store(s, Address(w, s), 4, s.gpr[w.rt]), w.rt, 1)
      [] w.op = 57 -> Store(s, Address(w, s), 4, s.fpr[w.rt])
      [] OTHER -> Unsupported(s)

Interpreted(w, s) == Put(IF Valid(w) THEN InterpretedSwitch(w, s) ELSE Unsupported(s), 0, 0)
-----------------------------------------------------------------------------
(* The generated code: nothing is written for register 0. *)

\* reg(r) = v; or a comment.
\* Mutant of Assign: register 0 is written like the others.
AssignAny(s, r, v) == Put(s, r, v)

Assign(s, r, v) == IF r = 0 THEN s ELSE Put(s, r, v)
Reserved(s) == Stops(s, "invalid_pc")

\* Each case tests its fields once more.  A jalr links first.
EmittedSpecial(w, s) ==
    CASE w.fn \in AluFunctions ->
            IF (w.fn = 2 /\ w.rs \notin {0, 1}) \/ (w.fn = 6 /\ w.shift \notin {0, 1})
              THEN Reserved(s) ELSE IF w.rd = 0 THEN s ELSE Put(s, w.rd, Alu(w, s))
      [] w.fn \in HiLoFunctions -> HiLo(w, s)
      [] w.fn = 8  -> Branched(s, s.gpr[w.rs])
      [] w.fn = 9  -> LET linked == Assign(s, w.rd, LinkAddress)
                      IN  Branched(linked, linked.gpr[w.rs])
      [] w.fn = 10 -> IF s.gpr[w.rt] = 0 THEN Assign(s, w.rd, s.gpr[w.rs]) ELSE s
      [] w.fn = 11 -> IF s.gpr[w.rt] # 0 THEN Assign(s, w.rd, s.gpr[w.rs]) ELSE s
      [] w.fn = 12 -> Stops(s, "syscall")
      [] w.fn \in {13, 15} -> s
      [] w.fn = 17 -> [s EXCEPT !.hi = s.gpr[w.rs]]
      [] w.fn = 19 -> [s EXCEPT !.lo = s.gpr[w.rs]]
      [] OTHER -> Reserved(s)

\* abs and neg change the sign bit; the roundings go through rounded_word.
EmittedScalar(w, s) ==
    LET l == s.fpr[w.rd]
        r == s.fpr[w.rt]
        Fd(v) == [s EXCEPT !.fpr[w.shift] = v]
    IN  CASE w.fn \in 0..4 -> Fd(FloatOp(w.fn, l, r))
          [] w.fn = 5  -> Fd(l & (Top - 1))
          [] w.fn = 7  -> Fd(l ^^ Top)
          [] w.fn \in 12..15 -> Fd(rounded_word(l, w.fn - 12))
          [] w.fn = 17 -> IF fpu_condition(s, w.rt \div 4) = (w.rt % 2 = 1) THEN Fd(l) ELSE s
          [] w.fn \in {6, 32} -> Fd(l)
          [] w.fn = 36 -> Fd(rounded_word(l, FcrMode(s)))
          [] w.fn >= 48 -> compare_f32(s, w.shift \div 4, l, r, w.fn % 16)
          [] OTHER -> Reserved(s)

EmittedCop1(w, s) ==
    CASE w.rs = 0 -> Assign(s, w.rt, s.fpr[w.rd])
      [] w.rs = 2 -> Assign(s, w.rt, ControlValue(w, s))
      [] w.rs = 4 -> [s EXCEPT !.fpr[w.rd] = s.gpr[w.rt]]
      [] w.rs = 6 -> IF w.rd = 31 THEN [s EXCEPT !.fcr31 = FcrFrom(s.gpr[w.rt])] ELSE s
      [] w.rs = 8 -> Conditional(w, s)
      [] w.rs = 16 -> EmittedScalar(w, s)
      [] w.rs = 20 /\ w.fn = 32 -> [s EXCEPT !.fpr[w.shift] = FloatOp(w.fn, s.fpr[w.rd], 0)]
      [] OTHER -> Reserved(s)

EmittedSpecial3(w, s) ==
    CASE w.fn = 32 /\ w.shift \in {2, 3, 16, 20, 24} -> Assign(s, w.rd, Rearranged(w, s))
      [] w.fn = 4 /\ w.rd >= w.shift -> Assign(s, w.rt, Insert(w, s))
      [] w.fn = 0 -> Assign(s, w.rt, Extract(w, s))
      [] OTHER -> Reserved(s)

EmittedBranches(w, s) ==
    CASE w.op = 1 -> Conditional(w, IF w.rt \in 16..19 THEN Put(s, 31, LinkAddress) ELSE s)
      [] w.op \in {2, 3} -> Branched(IF w.op = 3 THEN Put(s, 31, LinkAddress) ELSE s, "absolute")
      [] OTHER -> Conditional(w, s)

\* A load to register 0 still touches memory.
EmittedMemory(w, s) ==
    CASE w.op \in LoadOps -> Assign(AfterLoaded(w, s), w.rt, Loaded(w, s))
      [] w.op \in StoreOps -> Stored(w, s)
      [] w.op = 47 -> s
      [] w.op = 49 -> [AfterLoad(s, Address(w, s), 4) EXCEPT !.fpr[w.rt] = Load(s, Address(w, s), 4)]
      [] w.op = 56 -> Assign(Store(s, Address(w, s), 4, s.gpr[w.rt]), w.rt, 1)
      [] w.op = 57 -> Store(s, Address(w, s), 4, s.fpr[w.rt])
      [] OTHER -> Reserved(s)

EmittedSwitch(w, s) ==
    CASE w.op = 0 -> EmittedSpecial(w, s)
      [] w.op \in (1..7) \cup (20..23) -> EmittedBranches(w, s)
      [] w.op \in 8..15 -> Assign(s, w.rt, Immediate(w, s))
      [] w.op = 17 -> EmittedCop1(w, s)
      [] w.op = 28 -> Assign(s, w.rd, CASE w.fn = 32 -> CountlZero(s.gpr[w.rs])
                                        [] w.fn = 33 -> CountlOne(s.gpr[w.rs])
                                        [] w.fn = 44 -> Larger(s.gpr[w.rs], s.gpr[w.rt])
                                        [] w.fn = 45 -> Smaller(s.gpr[w.rs], s.gpr[w.rt]))
      [] w.op = 31 -> EmittedSpecial3(w, s)
      [] OTHER -> EmittedMemory(w, s)

EmittedEffect(w, s) == IF Valid(w) THEN EmittedSwitch(w, s) ELSE Reserved(s)
-----------------------------------------------------------------------------
InstructionsInit ==
    /\ \E x, y \in Values :
         interpreted = [gpr |-> [r \in GprUsed |-> CASE r = 1 -> x [] r = 2 -> y [] OTHER -> 0],
                        fpr |-> [r \in GprUsed |-> IF r = 1 THEN x ELSE y],
                        hi |-> y, lo |-> x, fcr31 |-> FcrFrom(y),
                        mem |-> [a \in 0..(MemorySize - 1) |-> (x + (a * y) + (a \div 3)) % Byte],
                        pending |-> FALSE, target |-> "none", skips |-> FALSE,
                        stop |-> "running"]
    /\ generated = interpreted /\ word = NotYet

\* Both execute the same instruction.
ExecuteBoth ==
    /\ word = NotYet
    /\ \E w \in Encodings :
         /\ word' = w
         /\ interpreted' = Interpreted(w, interpreted)
         /\ generated' = EmittedEffect(w, generated)
-----------------------------------------------------------------------------
\* A jalr through its own link register; round.w.s of a half, round.w.s
\* and trunc.w.s of no number: there the two differ.
Disputed(w) ==
    \/ w.op = 0 /\ w.fn = 9 /\ w.rd = w.rs /\ w.rd # 0
    \/ w.op = 17 /\ w.rs = 16 /\ w.fn \in {12, 13}

\* Why a reserved word stopped is told differently.
Seen(s) == [s EXCEPT !.stop = IF @ = "invalid_pc" THEN "unsupported_instruction" ELSE @]

(***************************************************************************)
(* A program that falls back to the interpreter goes on as if it had been  *)
(* generated: every encoding the decoder accepts, and only those, are      *)
(* executed by both, and they leave the same registers, conditions and     *)
(* memory, whatever registers coincide and with register 0 among them.     *)
(***************************************************************************)
InstructionsAgree ==
    /\ (word # NotYet /\ ~Disputed(word)) => Seen(interpreted) = Seen(generated)
    /\ word # NotYet => (Valid(word) <=> Seen(generated).stop # "unsupported_instruction")
    /\ generated.gpr[0] = 0

(***************************************************************************)
(* The helpers against what they stand for: the left and right halves of   *)
(* an unaligned word are the word, stored and loaded; a shift is a         *)
(* division that rounds down; quotient and remainder belong together; bits *)
(* and bytes are reversed; a field inserted is extracted.                  *)
(***************************************************************************)
HelpersMean ==
    LET s == interpreted
        Bit(v, n) == (v \div 2^n) % 2
    IN  word = NotYet =>
        /\ \A a \in 0..(MemorySize - 4), v \in Values :
             /\ load_word_right(s, a, load_word_left(s, a + 3, v)) = BytesFrom(s, a, 4)
             /\ store_word_right(store_word_left(s, a + 3, v), a, v) = Poke(s, a, 4, v)
        /\ \A v \in Values, n \in 0..(Bits - 1) :
             /\ as_s32(ArithmeticShiftRight(v, n)) = as_s32(v) \div 2^n
             /\ Bit(reverse_bits(v), n) = Bit(v, Bits - 1 - n)
             /\ Bit(RotateRight(v, n), 0) = Bit(v, n)
             /\ BytesFrom(Poke(s, 0, 4, byte_swap(v)), 3, 1) = v % Byte
        /\ \A x, y \in Values :
             LET d == Divide([fn |-> 26, rs |-> 1, rt |-> 2],
                             [s EXCEPT !.gpr = [@ EXCEPT ![1] = x, ![2] = y]])
             IN  y # 0 => (d.lo * y + d.hi - x) % Word = (IF x = Top /\ y = Word - 1
                                                            THEN Word - 1 ELSE 0)
        /\ \A p \in 0..(Bits - 1) : \A q \in p..(Bits - 1) :
             LET put == Insert([rs |-> 1, rt |-> 2, rd |-> q, shift |-> p], s)
             IN  Extract([rs |-> 2, rd |-> q - p, shift |-> p], Put(s, 2, put))
                   = s.gpr[1] & FieldMask(q - p + 1)
=============================================================================
