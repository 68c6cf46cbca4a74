------------------------------- MODULE GeDraw -------------------------------
(***************************************************************************)
(* How the GE's PRIM command becomes a batch for the host                  *)
(* (refract/src/stubs/ge/sceGeListEnQueue.cpp, ge/ge_vertex_decoder.hpp,   *)
(* runtime.cpp): the layout of a vertex, the indices, the size of the      *)
(* render target, the positions and colours, the texture and its cache,    *)
(* the state of the fixed functions and the primitives the host knows.     *)
(*                                                                         *)
(* Registers are records of their fields.                                  *)
(***************************************************************************)
EXTENDS Integers, Sequences, FiniteSets, SequencesExt, FiniteSetsExt

CONSTANTS
    Subjects,       \* what is looked at, records with a field `about'
    DisplayWidth, DisplayHeight, MaxSide    \* 480, 272, 1024

VARIABLE subject

DrawInit == subject \in Subjects

BitsOf(v, low, count) == (v \div 2^low) % 2^count
\* Bit by bit, of numbers of up to sixteen bits: a number is the set of its ones.
Ones(v) == {k \in 0..15 : BitsOf(v, k, 1) = 1}
Number(ones) == SumSet({2^k : k \in ones})
x & y == Number(Ones(x) \cap Ones(y))
x | y == Number(Ones(x) \cup Ones(y))
Clamp(v, low, high) == IF v < low THEN low ELSE IF v > high THEN high ELSE v
MaxOf(a, b) == IF a > b THEN a ELSE b
MinOf(a, b) == IF a < b THEN a ELSE b
-----------------------------------------------------------------------------
(* Vertices *)

component_size(type) == CASE type = 1 -> 1 [] type = 2 -> 2 [] type = 3 -> 4 [] OTHER -> 0

align_offset(v, a) == IF a = 0 THEN v ELSE ((v + a - 1) \div a) * a

color_size(type) == CASE type = 7 -> 4 [] type \in 4..6 -> 2 [] OTHER -> 0

\* VertexDecoder::layout: <<size of a component, components>> of each part, in
\* the order they are stored.
VertexParts(t) ==
    << <<component_size(t.weight), t.weights>>, <<component_size(t.texture), 2>>,
       <<color_size(t.color), 1>>, <<component_size(t.normal), 3>>,
       <<component_size(t.position), 3>> >>
PartStart(t) ==
    LET after[k \in 0..5] ==
          IF k = 0 THEN 0
          ELSE LET p == VertexParts(t)[k] IN align_offset(after[k - 1], p[1]) + p[1] * p[2]
    IN  [k \in 1..5 |-> align_offset(after[k - 1], VertexParts(t)[k][1])]
layout(t) ==
    LET last == PartStart(t)[5] + VertexParts(t)[5][1] * 3
        widest == CHOOSE a \in {1} \cup {VertexParts(t)[k][1] : k \in 1..5} :
                    \A k \in 1..5 : VertexParts(t)[k][1] <= a
    IN  [start |-> PartStart(t), stride |-> align_offset(last, widest)]

\* The bytes that have to be mapped for the vertices of a primitive: as many as
\* the largest index needs.
Indices(p) == IF p.indexed THEN p.indices ELSE [k \in 1..p.count |-> k - 1]
maximum_index(p) ==
    IF Indices(p) = <<>> THEN 0
    ELSE CHOOSE m \in ToSet(Indices(p)) : \A i \in ToSet(Indices(p)) : i <= m
vertex_byte_count(p) == (maximum_index(p) + 1) * layout(p.type).stride
\* What the registers of the addresses are moved by.
VertexAdvance(p) == IF p.indexed THEN 0 ELSE p.count * layout(p.type).stride
IndexAdvance(p) == IF p.indexed THEN p.count * component_size(p.indexType) ELSE 0

\* A packed colour of the vertex: <<r, g, b, a>>.
VertexColor(type, v) ==
    CASE type = 4 -> <<BitsOf(v, 0, 5) * 8, (BitsOf(v, 5, 6) * 255) \div 63, BitsOf(v, 11, 5) * 8, 255>>
      [] type = 5 -> <<BitsOf(v, 0, 5) * 8, BitsOf(v, 5, 5) * 8, BitsOf(v, 10, 5) * 8,
                       BitsOf(v, 15, 1) * 255>>
      [] type = 6 -> [k \in 1..4 |-> BitsOf(v, 4 * (k - 1), 4) * 17]
-----------------------------------------------------------------------------
(* The render target *)

\* A buffer narrower than the display is a texture: its scissor does not make
\* it larger.  One for the display is at least as high as the display.
offscreen_target(r) == r.stride # 0 /\ r.stride < DisplayWidth
render_target_width(r) ==
    Clamp(IF offscreen_target(r) THEN r.stride ELSE MaxOf(r.stride, r.right), 1, MaxSide)
render_target_height(r) ==
    IF offscreen_target(r) THEN Clamp(r.bottom, 1, r.stride)
    ELSE Clamp(MaxOf(r.bottom, DisplayHeight), 1, MaxSide)

\* Through coordinates are pixels: x / (width / 2) - 1.
ThroughX(px, r) == <<2 * px - render_target_width(r), render_target_width(r)>>
ThroughY(py, r) == <<render_target_height(r) - 2 * py, render_target_height(r)>>
-----------------------------------------------------------------------------
(* Textures: decode_texture *)

selected_mip(t) ==
    IF t.levelMode \in {1, 3} THEN MinOf(t.maximumLevel, MaxOf(t.bias, 0) \div 16) ELSE 0

Compressed(t) == t.format >= 8
texel_bytes(t) == CASE t.format \in {3, 7} -> 4 [] t.format \in {0, 1, 2, 6} -> 2 [] OTHER -> 1
block_bytes(t) == IF t.format = 8 THEN 8 ELSE 16
row_bytes(t) ==
    CASE Compressed(t) -> ((t.bufferWidth + 3) \div 4) * block_bytes(t)
      [] t.format = 4  -> (t.bufferWidth + 1) \div 2
      [] OTHER         -> t.bufferWidth * texel_bytes(t)
blocks_per_row(t) == (row_bytes(t) + 15) \div 16
source_size(t) ==
    CASE Compressed(t) -> row_bytes(t) * ((t.height + 3) \div 4)
      [] ~Compressed(t) /\ t.swizzled -> blocks_per_row(t) * ((t.height + 7) \div 8) * 128
      [] OTHER -> row_bytes(t) * t.height

source_offset(t, x, y) ==
    LET byte == IF t.format = 4 THEN x \div 2 ELSE x * texel_bytes(t)
    IN  IF t.swizzled THEN ((y \div 8) * blocks_per_row(t) + byte \div 16) * 128 + (y % 8) * 16 + (byte % 16)
                      ELSE y * row_bytes(t) + byte
block_offset(t, x, y) == (y \div 4) * row_bytes(t) + (x \div 4) * block_bytes(t)

\* Bytes read for a texel: from, and how many.
TexelRead(t, x, y) ==
    IF Compressed(t) THEN <<block_offset(t, x, y), block_bytes(t)>>
    ELSE <<source_offset(t, x, y), texel_bytes(t)>>

\* The entry of the palette, always one of its 1024 bytes.
palette_index(c, v) ==
    LET limit  == IF c.format = 3 THEN 256 ELSE 512
    IN  (((v \div 2^c.shift) & c.mask) | c.start) % limit
PaletteRead(c, v) == palette_index(c, v) * (IF c.format = 3 THEN 4 ELSE 2)

expand5(v) == v * 8 + v \div 4
expand6(v) == v * 4 + v \div 16
decode_16bit_color(format, v) ==
    CASE format = 0 -> <<expand5(BitsOf(v, 0, 5)), expand6(BitsOf(v, 5, 6)), expand5(BitsOf(v, 11, 5)), 255>>
      [] format = 1 -> <<expand5(BitsOf(v, 0, 5)), expand5(BitsOf(v, 5, 5)), expand5(BitsOf(v, 10, 5)),
                         BitsOf(v, 15, 1) * 255>>
      [] OTHER -> [k \in 1..4 |-> BitsOf(v, 4 * (k - 1), 4) * 17]

\* One component of a compressed block, between its two colours.
decode_dxt_color(first, second, ordered, index) ==
    CASE index = 0 -> first
      [] index = 1 -> second
      [] index \in {2, 3} /\ ordered ->
           LET w == IF index = 2 THEN 2 ELSE 1 IN (first * w + second * (3 - w)) \div 3
      [] index = 2 /\ ~ordered -> (first + second) \div 2
      [] OTHER -> 0
decode_dxt_texel(first, second, index) ==          \* its alpha, format 10
    CASE index = 0 -> first
      [] index = 1 -> second
      [] index > 1 /\ first > second -> ((8 - index) * first + (index - 1) * second) \div 7
      [] index \in 2..5 /\ first <= second -> ((6 - index) * first + (index - 1) * second) \div 5
      [] OTHER -> IF index = 6 THEN 0 ELSE 255

\* The key of the cache of decoded textures: the registers, with those of the
\* level that is selected.  (What a list does to the cache is in GeLists.)
TextureKey(t) ==
    LET level == selected_mip(t)
    IN  <<t.enabled, t.maximumLevel, t.swizzled, t.format, t.palette, t.levelMode, t.bias,
          t.address[level + 1], t.widths[level + 1], t.sizes[level + 1]>>
\* The registers decode_texture depends on.
DecodeReads(t) ==
    LET level == selected_mip(t)
    IN  <<t.address[level + 1], level,
          IF ~t.enabled \/ t.format > 10 THEN <<>>
          ELSE <<t.swizzled, t.format, t.widths[level + 1], t.sizes[level + 1],
                 IF t.format \in 4..7 THEN t.palette ELSE 0>> >>
-----------------------------------------------------------------------------
(* The state of the fixed functions *)

Channels == {"r", "g", "b", "a"}
\* A channel is written unless every bit of it is preserved; the clear mode
\* names those it writes.
color_write_mask(r) == {c \in Channels : r.preserved[c] # 255}
clear_color_write_mask(r) ==
    (IF r.clearColor THEN {"r", "g", "b"} ELSE {}) \cup (IF r.clearAlpha THEN {"a"} ELSE {})

\* What a batch tells the host.  In clear mode the tests, blending, culling and
\* the texture are off, and the stencil becomes the alpha of the last vertex.
render_state(r) ==
    LET on(switch) == ~r.clear /\ switch
        clear_stencil == r.clear /\ r.clearAlpha
    IN  [format       |-> r.format,
         textured     |-> on(r.textured),
         cull         |-> on(r.cull) /\ r.primitive # 6,
         clockwise    |-> r.clockwise,
         depthTest    |-> on(r.depthTest),
         depthWrite   |-> IF r.clear THEN r.clearDepth ELSE r.depthWrite,
         depthFunction |-> r.depthFunction,
         stencilTest  |-> on(r.stencilTest),
         clearStencil |-> clear_stencil,
         stencilFunction |-> r.stencilFunction,
         stencilReference |-> IF clear_stencil THEN r.lastAlpha ELSE r.stencilReference,
         stencilReadMask |-> r.stencilReadMask,
         stencilWriteMask |-> 255 - r.preserved["a"],
         stencilOps   |-> r.stencilOps,          \* <<fail, depth fail, depth pass>>
         blend        |-> on(r.blend),
         source       |-> r.source, destination |-> r.destination, equation |-> r.equation,
         fixA         |-> r.fixA, fixB |-> r.fixB,
         mask         |-> color_write_mask(r)
                            \cap (IF r.clear THEN clear_color_write_mask(r) ELSE Channels),
         colorTest    |-> on(r.colorTest), colorFunction |-> r.colorFunction,
         colorReference |-> r.colorReference, colorMask |-> r.colorMask,
         alphaTest    |-> on(r.alphaTest), alphaFunction |-> r.alphaFunction,
         alphaReference |-> r.alphaReference, alphaMask |-> r.alphaMask,
         textureFunction |-> r.textureFunction, textureAlpha |-> r.textureAlpha,
         textureDouble |-> r.textureDouble, environment |-> r.environment,
         minLinear |-> r.minLinear, magLinear |-> r.magLinear,
         clampS |-> r.clampS, clampT |-> r.clampT]
-----------------------------------------------------------------------------
(* Primitives the host does not know *)

\* A fan of n vertices is n - 2 triangles around the first.
Fan(vs) == FlattenSeq([k \in 1..(Len(vs) - 2) |-> <<vs[1], vs[k + 1], vs[k + 2]>>])

\* A sprite is a rectangle between two vertices, of the colour of the second;
\* its texture is turned when the corners are not top left and bottom right.
\* The y axis points up.
Sprite(a, b) ==
    LET turned == (a.x < b.x /\ a.y < b.y) \/ (a.x > b.x /\ a.y > b.y)
        corner(x, y, u, v) == [x |-> x, y |-> y, u |-> u, v |-> v, color |-> b.color]
        tr == IF turned THEN corner(b.x, a.y, a.u, b.v) ELSE corner(b.x, a.y, b.u, a.v)
        bl == IF turned THEN corner(a.x, b.y, b.u, a.v) ELSE corner(a.x, b.y, a.u, b.v)
        tl == corner(a.x, a.y, a.u, a.v)
        br == corner(b.x, b.y, b.u, b.v)
    IN  <<br, tr, tl, bl, br, tl>>
Sprites(vs) == FlattenSeq([k \in 1..(Len(vs) \div 2) |-> Sprite(vs[2 * k - 1], vs[2 * k])])

\* The type and the vertices that are submitted; too few vertices keep a type
\* that the host refuses.
Submitted(type, vs) ==
    CASE type = 5 /\ Len(vs) >= 3 -> [type |-> 3, vertices |-> Fan(vs)]
      [] type = 6 /\ Len(vs) >= 2 -> [type |-> 3, vertices |-> Sprites(vs)]
      [] OTHER -> [type |-> type, vertices |-> vs]
-----------------------------------------------------------------------------
(* One vertex: its position is decoded, skinned, transformed and put       *)
(* through the viewport, or taken as pixels ("through"); it is lit; and    *)
(* its texture coordinates are mapped.  Numbers are fractions              *)
(* <<numerator, denominator>>, exact where the code has floats; a raw      *)
(* number of an integer's type is whole.  The three colours are alike and  *)
(* one of them is modelled; no light adds to alpha.                        *)

\* For numbers that are not negative; reduced, with a positive denominator.
Gcd[a, b \in Nat] == IF b = 0 THEN a ELSE Gcd[b, a % b]
Frac(n, d) == LET g == Gcd[d, n % d] IN <<n \div g, d \div g>>
Whole(n) == <<n, 1>>
\* Reduced before they are multiplied, to keep the numbers small.
CrossReduced(a, b) == <<a[1] * b[1], a[2] * b[2]>>
Times(a, b) == CrossReduced(Frac(a[1], b[2]), Frac(b[1], a[2]))
PlusOver(a, b, g) == Frac((a[1] * (b[2] \div g)) + (b[1] * (a[2] \div g)), a[2] * (b[2] \div g))
Plus(a, b) == PlusOver(a, b, Gcd[a[2], b[2]])
Negated(a) == <<-a[1], a[2]>>
Minus(a, b) == Plus(a, Negated(b))
Reciprocal(a) == IF a[1] < 0 THEN <<-a[2], -a[1]>> ELSE <<a[2], a[1]>>
Over(a, b) == Times(a, Reciprocal(b))
NotBelow(a, b) == Minus(a, b)[1] >= 0
Zero == Whole(0)
One == Whole(1)
\* std::clamp to 0..1
Unit(a) == IF a[1] < 0 THEN Zero ELSE IF a[1] > a[2] THEN One ELSE a
Sum(s) == FoldLeft(Plus, Zero, s)
Dot(a, b) == Sum([k \in 1..3 |-> Times(a[k], b[k])])
\* std::sqrt, of squares.
SquareRoot(n) == CHOOSE k \in 0..n : k * k = n
RootOf(a) == <<SquareRoot(a[1]), SquareRoot(a[2])>>
Length(a) == RootOf(Dot(a, a))
Shortened(a, d) == IF d[1] > 0 THEN [k \in 1..3 |-> Over(a[k], d)] ELSE a
normalize3(a) == Shortened(a, Length(a))
-----------------------------------------------------------------------------
(* Positions *)

\* A matrix is a sequence of columns, the last of which is added.
Row(m, a, r) == Sum([k \in 1..3 |-> Times(m[k][r], a[k])])
MovedRow(m, a, r) == Plus(Row(m, a, r), m[4][r])
transform_normal43(m, a) == <<Row(m, a, 1), Row(m, a, 2), Row(m, a, 3)>>
transform43(m, a) == <<MovedRow(m, a, 1), MovedRow(m, a, 2), MovedRow(m, a, 3)>>
transform44(m, a) == Append(transform43(m, a), MovedRow(m, a, 4))

\* A component of 1 or 2 bytes is a signed number; the third one of a through
\* vertex is unsigned.
decoded(type, through, k, raw) ==
    CASE type = 3 -> raw
      [] type = 1 /\ through -> IF k < 3 THEN raw ELSE Whole(raw[1] % 256)
      [] type = 2 /\ through -> IF k < 3 THEN raw ELSE Whole(raw[1] % 65536)
      [] type = 1 /\ ~through -> Over(raw, Whole(127))
      [] type = 2 /\ ~through -> Over(raw, Whole(32767))

weight(type, raw) ==
    CASE type = 1 -> Over(raw, Whole(128)) [] type = 2 -> Over(raw, Whole(32768)) [] type = 3 -> raw

BoneEntry(v, c, r) ==
    Sum([b \in DOMAIN v.weights |-> Times(weight(v.weighted, v.weights[b]), v.bones[b][c][r])])
BoneColumn(v, c) == <<BoneEntry(v, c, 1), BoneEntry(v, c, 2), BoneEntry(v, c, 3)>>
skin_matrix(v) == <<BoneColumn(v, 1), BoneColumn(v, 2), BoneColumn(v, 3), BoneColumn(v, 4)>>

Decoded(v) == [k \in 1..3 |-> decoded(v.type, v.through, k, v.raw[k])]
Skinned(v) ==
    IF v.through \/ v.weighted = 0 THEN Decoded(v) ELSE transform43(skin_matrix(v), Decoded(v))

\* From pixels to the host's coordinates, -1 to 1 from left to right and from
\* bottom to top, and depth from 0 to 1.
FromX(x, v) == Minus(Over(x, Frac(v.width, 2)), One)
FromY(y, v) == Minus(One, Over(y, Frac(v.height, 2)))

ThroughPosition(v) ==
    LET p == Decoded(v)
    IN  <<FromX(p[1], v), FromY(p[2], v), Over(p[3], Whole(65535)), One>>

\* Where the viewport puts a vertex: pixels, and depth up to 65535.
Screen(clip, v) ==
    LET At(k) == Plus(Times(Over(clip[k], clip[4]), v.scale[k]), v.center[k])
    IN  <<Minus(At(1), Frac(v.offset[1], 16)), Minus(At(2), Frac(v.offset[2], 16)), At(3)>>

Clip(v) == transform44(v.projection, transform43(v.view, transform43(v.world, Skinned(v))))

FromScreen(s, w, v) ==
    <<Times(FromX(s[1], v), w), Times(FromY(s[2], v), w),
      Times(Unit(Over(s[3], Whole(65535))), w), w>>
FromClip(clip, v) ==
    IF clip[4] = Zero THEN clip ELSE FromScreen(Screen(clip, v), clip[4], v)
position(v) == IF v.through THEN ThroughPosition(v) ELSE FromClip(Clip(v), v)
-----------------------------------------------------------------------------
(* Lights *)

WorldNormal(v) ==
    LET turned(n) == IF v.reversed THEN [k \in 1..3 |-> Negated(n[k])] ELSE n
        divisor == CASE v.normaltype = 1 -> Whole(128) [] v.normaltype = 2 -> Whole(32768) [] OTHER -> One
        model == [k \in 1..3 |-> Over(v.normal[k], divisor)]
        skinned == IF v.weighted # 0 THEN transform_normal43(skin_matrix(v), model) ELSE model
    IN  IF v.normaltype = 0 THEN <<Zero, Zero, One>>
        ELSE normalize3(transform_normal43(v.world, turned(skinned)))

\* How much of a light reaches the place: `incidence' and `scale'.
Away(light, at) ==
    [k \in 1..3 |-> IF light.type # 0 THEN Minus(light.position[k], at[k]) ELSE light.position[k]]
AtLeastZero(a) == IF a[1] < 0 THEN Zero ELSE a
Fading(light, d) ==
    Plus(light.constant, Plus(Times(light.linear, d), Times(light.quadratic, Times(d, d))))
Share(a) == IF a[1] > 0 THEN Unit(Over(One, a)) ELSE Zero
ReachesFrom(light, away, normal) ==
    [incidence |-> AtLeastZero(Dot(normalize3(away), normal)),
     scale |-> IF light.type = 0 THEN One ELSE Share(Fading(light, Length(away)))]
Reaches(light, at, normal) == ReachesFrom(light, Away(light, at), normal)

Material(m, kind) ==
    IF m.colored /\ kind \in m.update THEN m.color
    ELSE IF kind = "ambient" THEN m.ambient ELSE m.diffuse

\* A light is added, and what is too much is cut off.
Added(m, light, r) ==
    Times(Plus(Times(light.ambient, Material(m, "ambient")),
               Times(Times(light.diffuse, Material(m, "diffuse")), r.incidence)), r.scale)
Lit(m, at, normal, color, light) ==
    IF light.on THEN Unit(Plus(color, Added(m, light, Reaches(light, at, normal)))) ELSE color

Unlit(m) == Plus(Times(m.scene, Material(m, "ambient")), m.emissive)
LitColor(m, at, normal, lights) ==
    FoldLeft(LAMBDA c, l : Lit(m, at, normal, c, l), Unlit(m), lights)
-----------------------------------------------------------------------------
(* Texture coordinates *)

Coordinate(type, through, raw) ==
    CASE type = 0 -> Zero
      [] type = 1 -> IF through THEN raw ELSE Over(raw, Whole(128))
      [] type = 2 -> IF through THEN raw ELSE Over(raw, Whole(32768))
      [] type = 3 -> raw

\* The ordinary mapping, of one of the two.
MappedCoordinate(t) ==
    LET u == Coordinate(t.type, t.through, t.raw)
    IN  IF t.through THEN Over(u, Whole(t.size)) ELSE Plus(Times(u, t.scale), t.move)

\* Projected by the texture matrix.
ProjectedFrom(t) ==
    CASE t.source = 0 -> t.position
      [] t.source = 1 -> <<t.u, t.v, Zero>>
      [] t.source = 2 -> normalize3(t.normal)
      [] OTHER -> t.normal
Projected(t) == transform43(t.matrix, ProjectedFrom(t))

\* Looked up by the angle to a light.
ShadeFactor(light, normal, d) == IF d[1] > 0 THEN Over(Dot(light, normal), d) ELSE normal[3]
shade_coordinate(light, normal) ==
    Times(Plus(One, ShadeFactor(light, normal, Length(light))), Frac(1, 2))
-----------------------------------------------------------------------------
About(kind) == subject.about = kind

(***************************************************************************)
(* The parts of a vertex lie one behind the other, aligned in every vertex *)
(* of an array, and inside the stride; every vertex that is read is inside *)
(* the bytes that were checked to be mapped.                               *)
(***************************************************************************)
VerticesInside ==
    About("vertices") =>
      LET p == subject.primitive
          l == layout(p.type)
          parts == VertexParts(p.type)
          ends(k) == l.start[k] + parts[k][1] * parts[k][2]
      IN  l.stride > 0 =>
            /\ \A k \in 1..5 : parts[k][1] # 0 =>
                 l.start[k] % parts[k][1] = 0 /\ l.stride % parts[k][1] = 0
            /\ \A k \in 2..5 : l.start[k] >= ends(k - 1)
            /\ ends(5) <= l.stride
            /\ \A i \in ToSet(Indices(p)) : (i + 1) * l.stride <= vertex_byte_count(p)
            /\ VertexAdvance(p) = 0 \/ VertexAdvance(p) = vertex_byte_count(p)

(***************************************************************************)
(* Every texel that is read lies in the bytes that were checked, and two   *)
(* texels do not share a byte unless they share a block; for textures no   *)
(* wider than their buffer.                                                *)
(***************************************************************************)
TexelsInside ==
    About("texture") =>
      LET t == subject.texture
          every == (0..(t.width - 1)) \X (0..(t.height - 1))
          read(q) == TexelRead(t, q[1], q[2])
      IN  /\ t.width <= t.bufferWidth =>
               \A q \in every : read(q)[1] + read(q)[2] <= source_size(t)
          /\ ~Compressed(t) /\ t.format # 4 /\ t.width <= t.bufferWidth =>
               \A q, s \in every : q # s =>
                 read(q)[1] + read(q)[2] <= read(s)[1] \/ read(s)[1] + read(s)[2] <= read(q)[1]

\* No value of a texel, shifted, masked and moved, reads behind the palette.
PaletteInside ==
    About("palette") =>
      PaletteRead(subject.palette, subject.value) + (IF subject.palette.format = 3 THEN 4 ELSE 2) <= 1024

\* Two settings of the registers with one key decode the same texture: the
\* registers of the level that is selected are enough.
KeysAdequate ==
    About("keys") =>
      (TextureKey(subject.first) = TextureKey(subject.second)
         => DecodeReads(subject.first) = DecodeReads(subject.second))

\* No colour is lost on the way to eight bits and none leaves them; block
\* colours lie between the two of their block.  A vertex's five bits are
\* moved up but not filled: its white is 248, a texture's 255.
ColorsFaithful ==
    About("color") =>
      LET v == subject.value
          texture(f) == decode_16bit_color(f, v)
          back5(c) == c \div 8
      IN  /\ \A f \in 0..2 : \A k \in 1..4 : texture(f)[k] \in 0..255
          /\ back5(texture(1)[1]) = BitsOf(v, 0, 5) /\ texture(0)[2] \div 4 = BitsOf(v, 5, 6)
          /\ \A k \in 1..3 : VertexColor(5, v)[k] \in (texture(1)[k] - 7)..texture(1)[k]
          /\ VertexColor(6, v) = texture(2)
          /\ LET a == BitsOf(v, 0, 8)  b == BitsOf(v, 8, 8)
                 lo == MinOf(a, b)  hi == MaxOf(a, b)
             IN  /\ \A i \in 0..3 : decode_dxt_color(a, b, TRUE, i) \in lo..hi
                 /\ \A i \in 0..2 : decode_dxt_color(a, b, FALSE, i) \in lo..hi
                 /\ \A i \in 0..5 : decode_dxt_texel(a, b, i) \in lo..hi

\* A fan and a sprite cover what they should: the triangles of a fan share the
\* first vertex and go along the others; a sprite has the four corners of its
\* rectangle, on both sides of its diagonal, and keeps the texture upright
\* whichever two corners it was given by.
PrimitivesRight ==
    About("primitive") =>
      LET vs == subject.vertices
          fan == Submitted(5, vs)
          sprite == Submitted(6, vs)
      IN  /\ fan.type \in {3, 5} /\ sprite.type \in {3, 6}
          /\ Len(vs) >= 3 => Len(fan.vertices) = 3 * (Len(vs) - 2)
               /\ \A k \in 1..(Len(vs) - 2) :
                    SubSeq(fan.vertices, 3 * k - 2, 3 * k) = <<vs[1], vs[k + 1], vs[k + 2]>>
          /\ Len(vs) >= 2 /\ vs[1].x # vs[2].x /\ vs[1].y # vs[2].y =>
               LET a == vs[1]  b == vs[2]
                   six == SubSeq(sprite.vertices, 1, 6)
                   places(k) == {<<six[j].x, six[j].y>> : j \in k..(k + 2)}
               IN  /\ places(1) \cup places(4) = {a.x, b.x} \X {a.y, b.y}
                   /\ places(1) \cap places(4) = {<<a.x, a.y>>, <<b.x, b.y>>}
                   /\ \A j \in 1..6 : six[j].color = b.color
                   \* Between two corners of the rectangle that lie on one side, one
                   \* coordinate of the texture is the same: along the side x is
                   \* constant, u unless the texture is turned.
                   /\ LET turned == (a.x < b.x) = (a.y < b.y)
                      IN  \A j, k \in 1..6 :
                            six[j].x = six[k].x =>
                              IF turned THEN six[j].v = six[k].v ELSE six[j].u = six[k].u

\* The target holds what its scissor lets through, unless it is a texture or
\* as large as a target gets.
TargetCovers ==
    About("target") =>
      LET r == subject.registers
          w == render_target_width(r)
          h == render_target_height(r)
      IN  /\ w \in 1..MaxSide /\ h \in 1..MaxSide
          /\ ~offscreen_target(r) => w >= MinOf(r.right, MaxSide) /\ h >= MinOf(r.bottom, MaxSide)
                                     /\ h >= DisplayHeight
          /\ offscreen_target(r) => w = r.stride /\ h <= r.stride

\* Where a vertex comes to, up to w, and a through vertex of some pixels.
Pixels(s) == [subject EXCEPT !.through = TRUE, !.type = 3, !.raw = s]
Perspective(p) == <<Over(p[1], p[4]), Over(p[2], p[4]), Over(p[3], p[4])>>
InUnit(a) == a[1] >= 0 /\ a[1] <= a[2]
SameAs(there, pixels, depth) ==
    /\ there[1] = pixels[1] /\ there[2] = pixels[2]
    /\ depth[1] >= 0 /\ depth[1] <= 65535 * depth[2] => there[3] = pixels[3]
    /\ InUnit(there[3])
SamePlace(v, s) == SameAs(Perspective(position(v)), position(Pixels(s)), s[3])

(***************************************************************************)
(* A transformed vertex is drawn on the pixel the viewport puts it on: it  *)
(* comes to the same place as a through vertex of those coordinates, if    *)
(* its depth is one there is.  Weighting bones is weighting what they do.  *)
(***************************************************************************)
PlacedAlike ==
    About("vertex") /\ ~subject.through =>
      LET bones == DOMAIN subject.weights
          one == Sum([b \in bones |-> weight(subject.weighted, subject.weights[b])]) = One
      IN  /\ Clip(subject)[4] # Zero => SamePlace(subject, Screen(Clip(subject), subject))
          /\ subject.weighted # 0 /\ one =>
               Skinned(subject) =
                 [r \in 1..3 |->
                   Sum([b \in bones |->
                          Times(weight(subject.weighted, subject.weights[b]),
                                transform43(subject.bones[b], Decoded(subject))[r])])]

(***************************************************************************)
(* The order of the lights does not matter although every one of them cuts *)
(* off what is too much: the colour is the sum of all, cut off once.       *)
(* Light from further away is not brighter.                                *)
(***************************************************************************)
LightsAdd ==
    About("light") =>
      LET m == subject.material
          n == WorldNormal(subject)
          on == SelectSeq(subject.lights, LAMBDA l : l.on)
          each == [k \in DOMAIN on |-> Added(m, on[k], Reaches(on[k], subject.at, n))]
          Cut(all) == IF on = <<>> THEN all ELSE Unit(all)
      IN  /\ LitColor(m, subject.at, n, subject.lights) = Cut(Plus(Unlit(m), Sum(each)))
          /\ \A l \in ToSet(on) :
               NotBelow(Reaches(l, subject.at, n).scale,
                        Reaches(l, [k \in 1..3 |-> Minus(Times(Whole(2), subject.at[k]), l.position[k])],
                                n).scale)

(***************************************************************************)
(* A coordinate in pixels is the same place of the texture as the one in   *)
(* the scale of its type, a projection by nothing changes nothing, and a   *)
(* shade is one of the texture's.                                          *)
(***************************************************************************)
CoordinatesAgree ==
    /\ About("coordinate") =>
         LET full == CASE subject.type = 1 -> 128 [] subject.type = 2 -> 32768
         IN  MappedCoordinate([subject EXCEPT !.through = FALSE, !.scale = Frac(full, subject.size),
                                              !.move = Zero])
               = MappedCoordinate([subject EXCEPT !.through = TRUE])
    /\ About("projection") =>
         /\ subject.source = 2 => Projected(subject) = Projected([subject EXCEPT !.source = 3,
                                                                 !.normal = normalize3(subject.normal)])
         /\ InUnit(shade_coordinate(subject.light, normalize3(subject.normal)))

VerticesSound == PlacedAlike /\ LightsAdd /\ CoordinatesAgree

DrawSound ==
    VerticesInside /\ TexelsInside /\ PaletteInside /\ KeysAdequate /\ ColorsFaithful /\ PrimitivesRight /\ TargetCovers
=============================================================================
