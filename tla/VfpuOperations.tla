--------------------------- MODULE VfpuOperations ---------------------------
(***************************************************************************)
(* The vector unit (vfpu.hpp): registers that are seen as scalars, as rows *)
(* and columns and as matrices of the same cells, prefixes that change the *)
(* next operation, the helper that executes any operation, and the shorter *)
(* code the recompiler writes for the five most frequent ones.  Floats are *)
(* integers, the host's functions on them are parameters.                  *)
(***************************************************************************)
EXTENDS Integers, FiniteSets

CONSTANTS
    Matrices,               \* of the eight
    Operations,             \* operations to look at, and the
    Prefixes,               \* control values that may be written before
    Host1(_, _),            \* the host's unary functions: 1/x, sqrt, sin, ...
    Host2(_, _, _)          \* and binary ones: division, vsbz

VARIABLES
    vfpu,                   \* the 128 cells
    ctrl,                   \* vfpu_ctrl: prefixes s, t and d, condition bits cc
    memory,                 \* words
    static,                 \* the state the shorter code leaves, or NoStatic
    last                    \* the operation executed last

vvars == <<vfpu, ctrl, memory, static, last>>

Lanes == 0..3
NoStatic == [v |-> <<>>]
Cells == {(m * 4) + c + (r * 32) : m \in Matrices, c \in Lanes, r \in Lanes}

\* A source prefix says for each lane what is read in its place.
Plain(i) == [swizzle |-> i, absolute |-> FALSE, constant |-> FALSE, negate |-> FALSE]
IdentityPrefix == [i \in Lanes |-> Plain(i)]                            \* 0xe4
NoDestination == [masked |-> {}, saturate |-> [i \in Lanes |-> 0]]

Abs(x) == IF x < 0 THEN -x ELSE x
Min2(x, y) == IF y < x THEN y ELSE x
Max2(x, y) == IF x < y THEN y ELSE x
Clamp(x, l, h) == Max2(l, Min2(x, h))
-----------------------------------------------------------------------------
(* Registers.  A name holds a matrix, a column, a row and a transposition. *)

Matrix(reg) == (reg \div 4) % 8
Column(reg) == reg % 4
Bit5(reg)   == (reg \div 32) % 2 = 1

vfpu_index(reg, size, lane) ==
    LET row == CASE size = 1 -> (reg \div 32) % 4
                 [] size \in {2, 4} -> ((reg \div 64) % 2) * 2
                 [] size = 3 -> (reg \div 64) % 2
        moved == (row + lane) % 4
    IN  IF size # 1 /\ Bit5(reg) THEN (Matrix(reg) * 4) + moved + (Column(reg) * 32)
                                 ELSE (Matrix(reg) * 4) + Column(reg) + (moved * 32)

vfpu_read_vector(v, reg, size) ==
    [i \in Lanes |-> IF i < size THEN v[vfpu_index(reg, size, i)] ELSE 0]

\* Lanes the destination prefix masks are left alone.
vfpu_write_vector(v, d, reg, size, values) ==
    LET lanes == {i \in 0..(size - 1) : i \notin d.masked}
    IN  [c \in DOMAIN v |->
           IF \E i \in lanes : vfpu_index(reg, size, i) = c
             THEN values[CHOOSE i \in lanes : vfpu_index(reg, size, i) = c] ELSE v[c]]

vfpu_apply_prefix(values, size, prefix) ==
    LET Constant(k) == Host1("constant", k)
        Lane(i) ==
            LET p == prefix[i]
                chosen == IF p.constant THEN Constant(p.swizzle + (IF p.absolute THEN 4 ELSE 0))
                          ELSE LET x == IF p.swizzle < size THEN values[p.swizzle] ELSE 0
                               IN  IF p.absolute THEN Abs(x) ELSE x
            IN  IF p.negate THEN -chosen ELSE chosen
    IN  IF prefix = IdentityPrefix THEN values
        ELSE [i \in Lanes |-> IF i < size THEN Lane(i) ELSE values[i]]

vfpu_apply_destination_prefix(d, values, size) ==
    [i \in Lanes |->
       IF i >= size THEN values[i]
       ELSE CASE d.saturate[i] = 1 -> Clamp(values[i], 0, 1)
              [] d.saturate[i] = 3 -> Clamp(values[i], -1, 1)
              [] OTHER -> values[i]]

EatPrefixes(c) == [c EXCEPT !.s = IdentityPrefix, !.t = IdentityPrefix, !.d = NoDestination]

\* Mutant of vfpu_prefixes_identity: the destination's prefix is forgotten.
SourcesIdentity(c) == c.s = IdentityPrefix /\ c.t = IdentityPrefix

vfpu_prefixes_identity(c) ==
    c.s = IdentityPrefix /\ c.t = IdentityPrefix /\ c.d = NoDestination

\* A cell of a matrix register: column j, row i, or exchanged.
MatrixCell(reg, side, j, i) ==
    LET row == IF side = 3 THEN (reg \div 64) % 2 ELSE ((reg \div 64) % 2) * 2
        r == (row + i) % 4
        c == (Column(reg) + j) % 4
    IN  (Matrix(reg) * 4) + (IF Bit5(reg) THEN r + (c * 32) ELSE c + (r * 32))

vfpu_read_matrix(v, reg, side) ==
    [j \in Lanes, i \in Lanes |->
       IF j < side /\ i < side THEN v[MatrixCell(reg, side, j, i)] ELSE 0]

\* The mask of the destination prefix does not count here.
vfpu_write_matrix(v, reg, side, values) ==
    LET inside == {p \in Lanes \X Lanes : p[1] < side /\ p[2] < side}
        At(p, c) == MatrixCell(reg, side, p[1], p[2]) = c
    IN  [c \in DOMAIN v |-> IF \E p \in inside : At(p, c)
                              THEN values[CHOOSE p \in inside : At(p, c)] ELSE v[c]]
-----------------------------------------------------------------------------
(* execute_vfpu_prefix_free: the code written for add, subtract, multiply, *)
(* dot and move, entered when the prefixes change nothing.                 *)

\* The index, computed once more, with the size known to the compiler.
FastIndex(reg, size, lane) ==
    LET row == IF size = 1 THEN (reg \div 32) % 4
               ELSE IF size = 3 THEN (reg \div 64) % 2 ELSE ((reg \div 64) % 2) * 2
        base == Matrix(reg) * 4
    IN  IF size # 1 /\ Bit5(reg) THEN base + ((row + lane) % 4) + (Column(reg) * 32)
                                 ELSE base + Column(reg) + (((row + lane) % 4) * 32)

vfpu_read_vector_fast(v, reg, size) ==
    [i \in Lanes |-> IF i < size THEN v[FastIndex(reg, size, i) % 128] ELSE 0]

vfpu_write_vector_fast(v, d, reg, size, values) ==
    LET lanes == {i \in 0..(size - 1) : i \notin d.masked}
    IN  [c \in DOMAIN v |->
           IF \E i \in lanes : FastIndex(reg, size, i) % 128 = c
             THEN values[CHOOSE i \in lanes : FastIndex(reg, size, i) % 128 = c] ELSE v[c]]

Dot(x, y, size) ==
    LET Sum[k \in 0..4] == IF k = 0 THEN 0 ELSE Sum[k - 1] + (x[k - 1] * y[k - 1])
    IN  Sum[size]

StaticOperations == {"add", "subtract", "multiply", "dot", "move"}

execute_vfpu_prefix_free(o, v, c) ==
    LET source == vfpu_read_vector_fast(v, o.vs, o.size)
        target == IF o.name = "move" THEN [i \in Lanes |-> 0]
                                     ELSE vfpu_read_vector_fast(v, o.vt, o.size)
        result == [i \in Lanes |->
                     CASE o.name = "add" -> source[i] + target[i]
                       [] o.name = "subtract" -> source[i] - target[i]
                       [] o.name = "multiply" -> source[i] * target[i]
                       [] o.name = "move" -> source[i]
                       [] o.name = "dot" -> IF i = 0 THEN Dot(source, target, o.size) ELSE 0]
        size == IF o.name = "dot" THEN 1 ELSE o.size
    IN  [v |-> vfpu_write_vector_fast(v, c.d, o.vd, size, result), c |-> EatPrefixes(c)]
-----------------------------------------------------------------------------
(* execute_vfpu. *)

\* Results computed lane by lane from the source and target vectors; vscmp
\* and vslt are overwritten by the maximum that follows them.
LaneByLane(o, s, t) ==
    [i \in Lanes |->
       CASE o.name = "add" -> s[i] + t[i]
         [] o.name = "subtract" -> s[i] - t[i]
         [] o.name \in {"divide", "sbn"} -> Host2(o.name, s[i], t[i])
         [] o.name = "multiply" -> s[i] * t[i]
         [] o.name = "min" -> Min2(s[i], t[i])
         [] o.name \in {"max", "scmp", "slt"} -> Max2(s[i], t[i])
         [] o.name = "move" -> s[i]
         [] o.name = "abs" -> Abs(s[i])
         [] o.name = "neg" -> -s[i]
         [] o.name = "sat0" -> Clamp(s[i], 0, 1)
         [] o.name = "sat1" -> Clamp(s[i], -1, 1)
         [] o.name = "zero" -> 0
         [] o.name = "one" -> 1
         [] o.name = "sgn" -> IF s[i] > 0 THEN 1 ELSE IF s[i] < 0 THEN -1 ELSE 0
         [] o.name \in {"constant", "unary", "f2i", "i2f"} -> Host1(o.name, s[i])]

\* Results that mix lanes.
Mixed(o, s, t) ==
    CASE o.name = "crs" -> <<s[1] * t[2], s[2] * t[0], s[0] * t[1], 0>>
      [] o.name = "crsp" -> <<(s[1] * t[2]) - (s[2] * t[1]), (s[2] * t[0]) - (s[0] * t[2]),
                              (s[0] * t[1]) - (s[1] * t[0]), 0>>
      [] o.name = "qmul" ->
           <<(s[3] * t[0]) - (s[2] * t[1]) + (s[1] * t[2]) + (s[0] * t[3]),
             (s[3] * t[1]) + (s[2] * t[0]) + (s[1] * t[3]) - (s[0] * t[2]),
             (s[3] * t[2]) + (s[2] * t[3]) - (s[1] * t[0]) + (s[0] * t[1]),
             (s[3] * t[3]) - (s[2] * t[2]) - (s[1] * t[1]) - (s[0] * t[0])>>
      [] o.name = "srt1" -> <<Min2(s[0], s[3]), Min2(s[1], s[2]), Max2(s[1], s[2]), Max2(s[0], s[3])>>
      [] o.name = "srt3" -> <<Max2(s[0], s[1]), Min2(s[0], s[1]), Max2(s[2], s[3]), Min2(s[2], s[3])>>
      [] o.name = "srt4" -> <<Max2(s[0], s[3]), Max2(s[1], s[2]), Min2(s[1], s[2]), Min2(s[0], s[3])>>
      [] o.name = "bfy1" -> <<s[0] + s[1], s[0] - s[1], s[2] + s[3], s[2] - s[3]>>
      [] o.name = "bfy2" -> <<s[0] + s[2], s[1] + s[3], s[0] - s[2], s[1] - s[3]>>
MixedNames == {"crs", "crsp", "qmul", "srt1", "srt3", "srt4", "bfy1", "bfy2"}
FromZero(seq) == [i \in Lanes |-> seq[i + 1]]

\* Results of one lane.
Folded(o, s, t) ==
    LET one == [i \in Lanes |-> 1]
        last1 == o.size - 1
    IN  CASE o.name = "dot" -> Dot(s, t, o.size)
          [] o.name = "hdp" -> Dot(s, t, last1) + t[last1]
          [] o.name = "det" -> (s[0] * t[1]) - (s[1] * t[0])
          [] o.name = "fad" -> Dot(s, one, o.size)
          [] o.name = "avg" -> Host2("divide", Dot(s, one, o.size), o.size)
FoldedNames == {"dot", "hdp", "det", "fad", "avg"}

\* vcmp: a bit for each lane, one for any and one for all of them.
Compared(o, s, t, cc) ==
    LET true == {i \in 0..(o.size - 1) :
                   CASE o.cond = "eq" -> s[i] = t[i]
                     [] o.cond = "lt" -> s[i] < t[i]
                     [] o.cond = "ge" -> s[i] >= t[i]}
        kept == cc \ (0..(o.size - 1) \cup {4, 5})
    IN  kept \cup true \cup (IF true # {} THEN {4} ELSE {})
             \cup (IF Cardinality(true) = o.size THEN {5} ELSE {})

\* vcmovt, vcmovf: a condition for all lanes, or one for each.
Moved(o, s, old, cc) ==
    [i \in Lanes |-> IF ((IF o.select = 6 THEN i ELSE o.select) \in cc) = o.when
                       THEN s[i] ELSE old[i]]

\* Matrix operations: cells by column and row.
MatrixResult(o, v, c) ==
    LET l == vfpu_read_matrix(v, o.vs, o.size)
        r == vfpu_read_matrix(v, o.vt, o.size)
        k == vfpu_apply_prefix(vfpu_read_vector(v, o.vt, 1), 1, c.t)[0]
        Column2(m, j) == [i \in Lanes |-> m[j, i]]
    IN  [j \in Lanes, i \in Lanes |->
           CASE o.name = "mmov" -> l[j, i]
             [] o.name = "mscl" -> l[j, i] * k
             [] o.name = "midt" -> IF i = j THEN 1 ELSE 0
             [] o.name = "mzero" -> 0
             [] o.name = "mone" -> 1
             [] o.name = "mmul" -> Dot(Column2(l, i), Column2(r, j), o.size)]
MatrixNames == {"mmov", "mscl", "midt", "mzero", "mone", "mmul"}

\* vtfm: a matrix times a vector; the prefixes do not count.
Transformed(o, v) ==
    LET m == vfpu_read_matrix(v, o.vs, o.size)
        x == vfpu_read_vector(v, o.vt, o.size)
    IN  [i \in Lanes |-> IF i < o.size THEN Dot([k \in Lanes |-> m[i, k]], x, o.size) ELSE 0]

execute_vfpu(o, v, c) ==
    LET s == vfpu_apply_prefix(vfpu_read_vector(v, o.vs, o.size), o.size, c.s)
        t == vfpu_apply_prefix(vfpu_read_vector(v, o.vt, o.size), o.size, c.t)
        k == vfpu_apply_prefix(vfpu_read_vector(v, o.vt, 1), 1, c.t)[0]
        Write(size, r) ==
            vfpu_write_vector(v, c.d, o.vd, size, vfpu_apply_destination_prefix(c.d, r, size))
        One(x) == [i \in Lanes |-> IF i = 0 THEN x ELSE 0]
        done == EatPrefixes(c)
    IN  CASE o.name \in FoldedNames -> [v |-> Write(1, One(Folded(o, s, t))), c |-> done]
          [] o.name \in MixedNames -> [v |-> Write(o.size, FromZero(Mixed(o, s, t))), c |-> done]
          [] o.name \in MatrixNames ->
               [v |-> vfpu_write_matrix(v, o.vd, o.size, MatrixResult(o, v, c)), c |-> done]
          [] o.name = "tfm" ->
               [v |-> vfpu_write_vector(v, c.d, o.vd, o.size, Transformed(o, v)), c |-> done]
          [] o.name = "scl" -> [v |-> Write(o.size, [i \in Lanes |-> s[i] * k]), c |-> done]
          [] o.name = "cmp" -> [v |-> v, c |-> [done EXCEPT !.cc = Compared(o, s, t, @)]]
          [] o.name = "cmov" ->
               LET old == vfpu_apply_prefix(vfpu_read_vector(v, o.vd, o.size), o.size, c.t)
               IN  [v |-> Write(o.size, Moved(o, s, old, c.cc)), c |-> done]
          [] o.name = "idt" ->
               LET lane == o.vd % (IF o.size >= 3 THEN 4 ELSE 2)
               IN  [v |-> Write(o.size, [i \in Lanes |->
                            (IF i = lane THEN 1 ELSE 0) * (IF c.s[i].negate THEN -1 ELSE 1)]),
                    c |-> done]
          [] OTHER -> [v |-> Write(o.size, LaneByLane(o, s, t)), c |-> done]

(***************************************************************************)
(* lvl.q and lvr.q: the part of a quad up to an address, and from one on.  *)
(* The prefixes stay, and the mask of the destination counts.              *)
(***************************************************************************)
LoadQuad(o, v, c, mem) ==
    LET offset == o.at % 4
        old == vfpu_read_vector(v, o.vd, 4)
        left == [i \in Lanes |-> IF 3 - i <= offset THEN mem[o.at - (3 - i)] ELSE old[i]]
        right == [i \in Lanes |-> IF i <= 3 - offset THEN mem[o.at + i] ELSE old[i]]
    IN  vfpu_write_vector(v, c.d, o.vd, 4, IF o.name = "lvl" THEN left ELSE right)

StoreQuad(o, v, mem) ==
    LET offset == o.at % 4
        x == vfpu_read_vector(v, o.vd, 4)
    IN  [a \in DOMAIN mem |->
           IF o.name = "svl" THEN IF a \in (o.at - offset)..o.at THEN x[3 - (o.at - a)] ELSE mem[a]
           ELSE IF a \in o.at..(o.at + 3 - offset) THEN x[a - o.at] ELSE mem[a]]
-----------------------------------------------------------------------------
VfpuInit ==
    /\ vfpu = [c \in Cells |-> c + 1 - (c % 3) * c]
    /\ ctrl = [s |-> IdentityPrefix, t |-> IdentityPrefix, d |-> NoDestination, cc |-> {1, 4}]
    /\ memory = [a \in 0..7 |-> 200 + a]
    /\ static = NoStatic /\ last = "none"

\* vpfxs, vpfxt, vpfxd
WritePrefix ==
    /\ last = "none" /\ last' = "prefix"
    /\ \E p \in Prefixes :
         ctrl' = CASE p[1] = "s" -> [ctrl EXCEPT !.s = p[2]]
                   [] p[1] = "t" -> [ctrl EXCEPT !.t = p[2]]
                   [] p[1] = "d" -> [ctrl EXCEPT !.d = p[2]]
    /\ UNCHANGED <<vfpu, memory, static>>

\* An operation; where the prefixes change nothing the shorter code is
\* executed beside it (emit_guarded_vfpu).
Operate ==
    /\ last \in {"none", "prefix"}
    /\ \E o \in Operations :
         LET done == execute_vfpu(o, vfpu, ctrl)
         IN  /\ vfpu' = done.v /\ ctrl' = done.c /\ last' = o.name
             /\ static' = IF o.name \in StaticOperations /\ vfpu_prefixes_identity(ctrl)
                            THEN execute_vfpu_prefix_free(o, vfpu, ctrl) ELSE NoStatic
    /\ UNCHANGED memory
-----------------------------------------------------------------------------
Registers == {(m * 4) + c + (b * 32) : m \in Matrices, c \in Lanes, b \in 0..3}
Flip5(reg) == IF Bit5(reg) THEN reg - 32 ELSE reg + 32

(***************************************************************************)
(* The shorter code leaves what the helper leaves, whichever registers     *)
(* overlap, and the prefixes of one operation never reach a second one.    *)
(* The names agree with each other: a matrix, its transposed name and the  *)
(* vectors it is made of are the same cells, and no two lanes share one.   *)
(* Loading the two parts of an unaligned quad loads it, storing stores it. *)
(***************************************************************************)
VfpuSound ==
    /\ static # NoStatic => static = [v |-> vfpu, c |-> ctrl]
    /\ last \notin {"none", "prefix"} => vfpu_prefixes_identity(ctrl)
    /\ last = "none" =>
         /\ \A reg \in Registers, size \in 2..4 :
              /\ Cardinality({vfpu_index(reg, size, i) : i \in 0..(size - 1)}) = size
              /\ \A j, i \in 0..(size - 1) :
                   /\ Column(reg) = 0 /\ (reg \div 64) % 2 = 0 =>
                        /\ MatrixCell(Flip5(reg), size, j, i) = MatrixCell(reg, size, i, j)
                        /\ vfpu_index(reg + j, size, i) = MatrixCell(reg, size, j, i)
         /\ \A at \in 0..4, reg \in Registers :
              LET Quad(n, a) == [name |-> n, vd |-> reg, at |-> a]
                  l == LoadQuad(Quad("lvl", at + 3), vfpu, ctrl, memory)
                  loaded == LoadQuad(Quad("lvr", at), l, ctrl, memory)
                  stored == StoreQuad(Quad("svr", at), vfpu,
                                      StoreQuad(Quad("svl", at + 3), vfpu, memory))
                  x == vfpu_read_vector(vfpu, reg, 4)
              IN  /\ vfpu_read_vector(loaded, reg, 4) = [i \in Lanes |-> memory[at + i]]
                  /\ stored = [a \in DOMAIN memory |->
                                 IF a \in at..(at + 3) THEN x[a - at] ELSE memory[a]]
=============================================================================
