----------------------------- MODULE HostRaster -----------------------------
(***************************************************************************)
(* What the two front ends make of a batch's state                         *)
(* (refract/src/host/windows_frontend.cpp for Direct3D 11,                 *)
(* macos_frontend.mm for Metal): the masks, blending, depth and stencil    *)
(* states and the caches they are kept in, the fragment programs, where    *)
(* pixels and texels are placed, and the conversion of a picture.          *)
(*                                                                         *)
(* A channel is 0..255, 255 for the shaders' 1.0.  A packed key is the set *)
(* of the bits that are one.                                               *)
(***************************************************************************)
EXTENDS GeDraw

CONSTANTS
    Registers,      \* settings of the registers that are used in turn
    BlendLimit,     \* 512: the blend states Windows keeps
    MaxUses         \* bound: batches

VARIABLES
    blendStates, depthStates,       \* Windows, by key
    blendPipelines, stencilStates,  \* macOS, by key
    uses

rvars == <<blendStates, depthStates, blendPipelines, stencilStates, uses>>

RasterAssumption == BlendLimit \in Nat \ {0} /\ MaxUses \in Nat

Placed(v, width, at) == {at + k : k \in {k \in 0..(width - 1) : BitsOf(v, k, 1) = 1}}
Flag(b, at) == IF b THEN {at} ELSE {}
MaskBits(mask) == {k \in 0..3 : <<"r", "g", "b", "a">>[k + 1] \in mask}
Masked(v, mask) == v & mask
-----------------------------------------------------------------------------
(* Windows *)

Comparisons == <<"never", "always", "equal", "not equal", "less", "less equal", "greater", "greater equal">>
comparison_function(f) == Comparisons[MinOf(f, 7) + 1]
stencil_operation(o) ==
    CASE o = 1 -> "zero" [] o = 2 -> "replace" [] o = 3 -> "invert"
      [] o = 4 -> "increment" [] o = 5 -> "decrement" [] OTHER -> "keep"

\* The fixed colour is a factor of its own unless it is black or white.
blend_factor(factor, fixed, source) ==
    IF factor >= 10
      THEN CASE fixed = 0 -> "zero" [] fixed = 16777215 -> "one" [] OTHER -> "fixed"
      ELSE LET other == IF source THEN "destination" ELSE "source"
           IN  <<other, "1-" \o other, "source alpha", "1-source alpha", "destination alpha",
                 "1-destination alpha", "source alpha", "1-source alpha", "destination alpha",
                 "1-destination alpha">>[factor + 1]
blend_operation(e) ==
    CASE e = 1 -> "subtract" [] e = 2 -> "reverse" [] e = 3 -> "min" [] e = 4 -> "max" [] OTHER -> "add"

\* The alpha of a target of 32 bits stands for the stencil: it is written where
\* the fragment can say what the stencil becomes.
geometry_color_write_mask(s) ==
    LET operation == IF s.clearStencil THEN 2 ELSE s.stencilOps[3]
    IN  IF s.format = 3 /\ (s.stencilTest \/ s.clearStencil)
           /\ (operation \notin {1, 2} \/ s.stencilWriteMask # 255)
        THEN s.mask \ {"a"} ELSE s.mask

blend_description(s) ==
    LET source == blend_factor(s.source, s.fixA, TRUE)
        destination == blend_factor(s.destination, s.fixB, FALSE)
        operation == blend_operation(s.equation)
    IN  [enabled |-> s.blend, source |-> source, destination |-> destination, operation |-> operation,
         alpha |-> <<source, destination, operation>>, mask |-> geometry_color_write_mask(s)]
blend_key(s) ==
    SymDiff(Flag(s.blend, 0) \cup Placed(s.source, 4, 1) \cup Placed(s.destination, 4, 5)
              \cup Placed(s.equation, 3, 9) \cup {12 + k : k \in MaskBits(geometry_color_write_mask(s))}
              \cup Placed(s.fixA, 24, 16),
            Placed(s.fixB, 24, 40))

depth_description(s) ==
    [depth |-> s.depthTest \/ s.depthWrite, write |-> s.depthWrite,
     function |-> IF s.depthTest THEN comparison_function(s.depthFunction) ELSE "always",
     stencil |-> s.stencilTest \/ s.clearStencil,
     readMask |-> IF s.clearStencil THEN 255 ELSE s.stencilReadMask, writeMask |-> s.stencilWriteMask,
     stencilFunction |-> IF s.clearStencil THEN "always" ELSE comparison_function(s.stencilFunction),
     operations |-> [k \in 1..3 |-> IF s.clearStencil THEN "replace" ELSE stencil_operation(s.stencilOps[k])]]
\* Mutant of depth_key: the clearing of the stencil is not part of it.
depth_key_short(s) ==
    Flag(s.depthWrite, 0) \cup Flag(s.depthTest, 1) \cup Placed(s.depthFunction, 3, 2)
      \cup Flag(s.stencilTest, 5) \cup Placed(s.stencilFunction, 3, 7)
      \cup UNION {Placed(s.stencilOps[k], 3, 7 + 3 * k) : k \in 1..3}
      \cup Placed(s.stencilReadMask, 8, 19) \cup Placed(s.stencilWriteMask, 8, 27)
depth_key(s) ==
    Flag(s.depthWrite, 0) \cup Flag(s.depthTest, 1) \cup Placed(s.depthFunction, 3, 2)
      \cup Flag(s.stencilTest, 5) \cup Flag(s.clearStencil, 6) \cup Placed(s.stencilFunction, 3, 7)
      \cup UNION {Placed(s.stencilOps[k], 3, 7 + 3 * k) : k \in 1..3}
      \cup Placed(s.stencilReadMask, 8, 19) \cup Placed(s.stencilWriteMask, 8, 27)

With(cache, key, value) ==
    [k \in DOMAIN cache \cup {key} |-> IF k \in DOMAIN cache THEN cache[k] ELSE value]

\* The table of blend states starts again when it is full; the depth states are
\* kept for good.
blend_state(s) ==
    blendStates' = IF blend_key(s) \in DOMAIN blendStates THEN blendStates
                   ELSE With(IF Cardinality(DOMAIN blendStates) >= BlendLimit THEN <<>> ELSE blendStates,
                             blend_key(s), blend_description(s))
depth_state(s) == depthStates' = With(depthStates, depth_key(s), depth_description(s))

stencil_alpha_operation(s) ==
    IF s.format = 3 /\ (s.stencilTest \/ s.clearStencil) /\ s.stencilWriteMask = 255
    THEN IF s.clearStencil THEN 2 ELSE s.stencilOps[3] ELSE 0

Scaled(a, b) == (a * b) \div 255
Mix(a, b, t) == a + Scaled(b - a, t)
Saturated(v) == Clamp(v, 0, 255)
Opaque(f(_)) == [c \in {"r", "g", "b"} |-> f(c)]
WithAlpha(rgb, a) == [c \in Channels |-> IF c = "a" THEN a ELSE rgb[c]]

psp_compare(v, reference, f) ==
    CASE f = 0 -> FALSE [] f = 1 -> TRUE [] f = 2 -> v = reference [] f = 3 -> v # reference
      [] f = 4 -> v < reference [] f = 5 -> v <= reference [] f = 6 -> v > reference
      [] OTHER -> v >= reference
color_passes(s, color) ==
    LET same == \A c \in {"r", "g", "b"} :
                  Masked(Saturated(color[c]), s.colorMask[c]) = Masked(s.colorReference[c], s.colorMask[c])
    IN  s.colorFunction = 1 \/ (s.colorFunction = 2 /\ same) \/ (s.colorFunction = 3 /\ ~same)
\* <<whether the fragment is kept, its colour>>
apply_tests(s, color) ==
    << /\ s.colorTest => color_passes(s, color)
       /\ s.alphaTest => psp_compare(Masked(Saturated(color["a"]), s.alphaMask),
                                     Masked(s.alphaReference, s.alphaMask), s.alphaFunction),
       [color EXCEPT !["a"] = CASE stencil_alpha_operation(s) = 1 -> 0
                                [] stencil_alpha_operation(s) = 2 -> s.stencilReference
                                [] OTHER -> @] >>
\* The texture is a colour, or <<>> where none is sampled.
geometry_fragment(s, texture, primary) ==
    LET alpha == IF s.textureAlpha THEN Scaled(texture["a"], primary["a"]) ELSE primary["a"]
        blended(c) == Mix(primary[c], texture[c], IF s.textureAlpha THEN texture["a"] ELSE 255)
        environment(c) == Mix(primary[c], s.environment[c], texture[c])
        sum(c) == texture[c] + primary[c]
        product(c) == Scaled(texture[c], primary[c])
        plain(c) == texture[c]
        combined ==
          CASE s.textureFunction = 1 -> WithAlpha(Opaque(blended), primary["a"])
            [] s.textureFunction = 2 -> WithAlpha(Opaque(environment), alpha)
            [] s.textureFunction = 3 ->
                 WithAlpha(Opaque(plain), IF s.textureAlpha THEN texture["a"] ELSE primary["a"])
            [] s.textureFunction = 4 -> WithAlpha(Opaque(sum), alpha)
            [] OTHER -> WithAlpha(Opaque(product), alpha)
        doubled(c) == IF s.textureDouble THEN 2 * combined[c] ELSE combined[c]
    IN  apply_tests(s, IF texture = <<>> THEN primary ELSE WithAlpha(Opaque(doubled), combined["a"]))
-----------------------------------------------------------------------------
(* macOS *)

macos_color_write_mask(s) ==
    IF s.format # 3 \/ ~(s.stencilTest \/ s.clearStencil) THEN s.mask
    ELSE IF (s.clearStencil \/ s.stencilOps[3] \in {1, 2}) /\ s.stencilWriteMask = 255 THEN s.mask
    ELSE s.mask \ {"a"}

SourceFactors == <<"destination", "1-destination", "source alpha", "1-source alpha", "destination alpha",
    "1-destination alpha", "source alpha", "1-source alpha", "destination alpha", "1-destination alpha">>
DestinationFactors == <<"source", "1-source">> \o SubSeq(SourceFactors, 3, 10)
psp_blend_factor(factor, fixed, source) ==
    CASE factor >= 10 /\ fixed = 0 -> "zero"
      [] factor >= 10 /\ fixed = 16777215 -> "one"
      [] factor >= 10 /\ fixed \notin {0, 16777215} -> "fixed"
      [] OTHER -> (IF source THEN SourceFactors ELSE DestinationFactors)[factor + 1]
psp_blend_operation(e) ==
    IF e \in 1..4 THEN <<"subtract", "reverse", "min", "max">>[e] ELSE "add"
psp_compare_function(f) ==
    <<"never", "always", "equal", "not equal", "less", "less equal", "greater", "greater equal">>[MinOf(f, 7) + 1]
psp_stencil_operation(o) ==
    IF o \in 1..5 THEN <<"zero", "replace", "invert", "increment", "decrement">>[o] ELSE "keep"

\* A batch that neither blends nor masks uses a pipeline made at the start.
needs_special_pipeline(s) == s.blend \/ macos_color_write_mask(s) # Channels
PlainPipeline ==
    [enabled |-> FALSE, source |-> "one", destination |-> "zero", operation |-> "add",
     alpha |-> <<"one", "zero", "add">>, mask |-> Channels, program |-> <<FALSE, FALSE>>]
pipeline_description(s, program) ==
    [enabled |-> s.blend, source |-> psp_blend_factor(MinOf(s.source, 10), s.fixA, TRUE),
     destination |-> psp_blend_factor(MinOf(s.destination, 10), s.fixB, FALSE),
     operation |-> psp_blend_operation(s.equation),
     alpha |-> <<"one", "zero", "add">>, mask |-> macos_color_write_mask(s), program |-> program]
\* The fixed colours are part of the key as what they are classed as.
FixedClass(factor, fixed) ==
    IF factor < 10 THEN 0 ELSE IF fixed = 0 THEN 1 ELSE IF fixed = 16777215 THEN 2 ELSE 3
pipeline_key(s, program) ==
    Flag(program[1], 0) \cup Flag(program[2], 21) \cup Placed(s.source, 4, 1)
      \cup Placed(s.destination, 4, 5) \cup Placed(s.equation, 3, 9)
      \cup Placed(FixedClass(s.source, s.fixA), 2, 12) \cup Placed(FixedClass(s.destination, s.fixB), 2, 14)
      \cup {16 + k : k \in MaskBits(macos_color_write_mask(s))} \cup Flag(s.blend, 20)
blendPipeline(s, program) ==
    blendPipelines' = IF needs_special_pipeline(s)
                      THEN With(blendPipelines, pipeline_key(s, program), pipeline_description(s, program))
                      ELSE blendPipelines

\* Without a stencil the states made at the start are used.
DepthOnly(s) ==
    [depth |-> TRUE, write |-> s.depthWrite,
     function |-> IF s.depthTest THEN psp_compare_function(s.depthFunction) ELSE "always", stencil |-> FALSE]
stencil_description(s) ==
    [depth |-> TRUE, write |-> s.depthWrite,
     function |-> IF s.depthTest THEN psp_compare_function(s.depthFunction) ELSE "always",
     stencil |-> TRUE,
     readMask |-> IF s.clearStencil THEN 255 ELSE s.stencilReadMask, writeMask |-> s.stencilWriteMask,
     stencilFunction |-> IF s.clearStencil THEN "always" ELSE psp_compare_function(s.stencilFunction),
     operations |-> [k \in 1..3 |-> IF s.clearStencil THEN "replace" ELSE psp_stencil_operation(s.stencilOps[k])]]
stencil_key(s) ==
    Flag(s.depthWrite, 0) \cup Flag(s.depthTest, 1) \cup Placed(s.depthFunction, 3, 2)
      \cup Flag(s.clearStencil, 5) \cup Placed(s.stencilFunction, 3, 6)
      \cup UNION {Placed(s.stencilOps[k], 3, 6 + 3 * k) : k \in 1..3}
      \cup Placed(s.stencilReadMask, 8, 18) \cup Placed(s.stencilWriteMask, 8, 26)
depthStencilState(s) ==
    stencilStates' = IF s.stencilTest \/ s.clearStencil
                     THEN With(stencilStates, stencil_key(s), stencil_description(s)) ELSE stencilStates

psprism_texture_combine(s, texture, primary) ==
    LET weighed(c) == IF s.textureAlpha THEN Scaled(texture[c], primary[c]) ELSE primary[c]
    IN  [c \in Channels |->
           IF c # "a"
             THEN CASE s.textureFunction = 1 ->
                         Mix(primary[c], texture[c], IF s.textureAlpha THEN texture["a"] ELSE 255)
                    [] s.textureFunction = 2 -> Mix(primary[c], s.environment[c], texture[c])
                    [] s.textureFunction = 3 -> texture[c]
                    [] s.textureFunction = 4 -> texture[c] + primary[c]
                    [] OTHER -> Scaled(texture[c], primary[c])
             ELSE CASE s.textureFunction = 1 -> primary["a"]
                    [] s.textureFunction = 3 -> IF s.textureAlpha THEN texture["a"] ELSE primary["a"]
                    [] OTHER -> weighed("a")]
psprism_fragment_tests(s, color) ==
    LET differs == {c \in {"r", "g", "b"} :
                      Masked(Saturated(color[c]), s.colorMask[c]) # Masked(s.colorReference[c], s.colorMask[c])}
        colored == CASE s.colorFunction = 1 -> TRUE [] s.colorFunction = 2 -> differs = {}
                     [] s.colorFunction = 3 -> differs # {} [] OTHER -> FALSE
        alpha   == psp_compare(Masked(Saturated(color["a"]), s.alphaMask),
                               Masked(s.alphaReference, s.alphaMask), s.alphaFunction)
    IN  << (s.colorTest => colored) /\ (s.alphaTest => alpha),
           CASE stencil_alpha_operation(s) = 1 -> WithAlpha(color, 0)
             [] stencil_alpha_operation(s) = 2 -> WithAlpha(color, s.stencilReference)
             [] OTHER -> color >>
\* The three programs of Metal: plain, textured and from a render target.
psprism_fragment(s, texture, primary) ==
    LET combined == psprism_texture_combine(s, texture, primary)
    IN  psprism_fragment_tests(s,
          IF texture = <<>> THEN primary
          ELSE [c \in Channels |-> IF s.textureDouble /\ c # "a" THEN 2 * combined[c] ELSE combined[c]])
-----------------------------------------------------------------------------
(* What Direct3D and Metal do with these states (external) *)

Factor(name, frag, pixel, fixed, c) ==
    CASE name = "zero" -> 0 [] name = "one" -> 255 [] name = "fixed" -> fixed[c]
      [] name = "source" -> frag[c] [] name = "1-source" -> 255 - frag[c]
      [] name = "destination" -> pixel[c] [] name = "1-destination" -> 255 - pixel[c]
      [] name = "source alpha" -> frag["a"] [] name = "1-source alpha" -> 255 - frag["a"]
      [] name = "destination alpha" -> pixel["a"] [] name = "1-destination alpha" -> 255 - pixel["a"]
BlendedChannel(source, destination, operation, frag, pixel, fixed, c) ==
    LET f == Scaled(frag[c], Factor(source, frag, pixel, fixed, c))
        p == Scaled(pixel[c], Factor(destination, frag, pixel, fixed, c))
    IN  Saturated(CASE operation = "add" -> f + p [] operation = "subtract" -> f - p
                    [] operation = "reverse" -> p - f [] operation = "min" -> MinOf(frag[c], pixel[c])
                    [] OTHER -> MaxOf(frag[c], pixel[c]))
Written(d, fragment, pixel, fixed) ==
    LET frag == [c \in Channels |-> Saturated(fragment[c])]
    IN  [c \in Channels |->
           IF c \notin d.mask THEN pixel[c]
           ELSE IF ~d.enabled THEN frag[c]
           ELSE IF c = "a" THEN BlendedChannel(d.alpha[1], d.alpha[2], d.alpha[3], frag, pixel, fixed, c)
           ELSE BlendedChannel(d.source, d.destination, d.operation, frag, pixel, fixed, c)]

Holds(name, a, b) ==
    psp_compare(a, b, (CHOOSE k \in 1..8 : Comparisons[k] = name) - 1)
NewStencil(name, v, reference) ==
    CASE name = "zero" -> 0 [] name = "replace" -> reference [] name = "invert" -> 255 - v
      [] name = "increment" -> MinOf(v + 1, 255) [] name = "decrement" -> MaxOf(v - 1, 0) [] OTHER -> v

\* A fragment that is kept meets a pixel: the stencil, the depth, the colour.
Merge(d, z, reference, fixed, fragment, depth, pixel) ==
    LET stencilPasses == z.stencil =>
          Holds(z.stencilFunction, Masked(reference, z.readMask), Masked(pixel.stencil, z.readMask))
        depthPasses == z.depth => Holds(z.function, depth, pixel.depth)
        passes  == stencilPasses /\ depthPasses
        which   == IF ~stencilPasses THEN 1 ELSE IF ~depthPasses THEN 2 ELSE 3
        stencil == IF ~z.stencil THEN pixel.stencil
                   ELSE Masked(NewStencil(z.operations[which], pixel.stencil, reference), z.writeMask)
                          | Masked(pixel.stencil, 255 - z.writeMask)
    IN  [color   |-> IF passes THEN Written(d, fragment, pixel.color, fixed) ELSE pixel.color,
         depth   |-> IF passes /\ z.depth /\ z.write THEN depth ELSE pixel.depth,
         stencil |-> stencil]

FixedColor(s) ==
    LET v == IF s.source >= 10 THEN s.fixA ELSE s.fixB
    IN  [c \in Channels |-> CASE c = "r" -> v % 256 [] c = "g" -> (v \div 256) % 256
                              [] c = "b" -> (v \div 65536) % 256 [] OTHER -> 255]
Draw(fragment, d, z, s, batch, pixel) ==
    IF fragment[1] THEN Merge(d, z, s.stencilReference, FixedColor(s), fragment[2], batch.depth, pixel)
    ELSE pixel
WindowsDraws(s, b, pixel) ==
    Draw(geometry_fragment(s, b.texture, b.color), blend_description(s), depth_description(s), s, b, pixel)
MacosDraws(s, b, pixel) ==
    Draw(psprism_fragment(s, b.texture, b.color),
         IF needs_special_pipeline(s) THEN pipeline_description(s, <<b.texture # <<>>, FALSE>>) ELSE PlainPipeline,
         IF s.stencilTest \/ s.clearStencil THEN stencil_description(s) ELSE DepthOnly(s), s, b, pixel)
-----------------------------------------------------------------------------
(* Where things are placed *)

\* target_scale of the vertex program, as fractions of the target's size: a
\* through coordinate is moved to the top left of a larger target.
render_target_geometry_scale(through, declared, size) == IF through THEN <<declared, size>> ELSE <<1, 1>>
\* x' = x * s + (s - 1) and y' = y * s + (1 - s), over the product of the denominators.
geometry_vertex_x(x, s) == <<x[1] * s[1] + x[2] * (s[1] - s[2]), x[2] * s[2]>>
geometry_vertex_y(y, s) == <<y[1] * s[1] + y[2] * (s[2] - s[1]), y[2] * s[2]>>

\* The pixel of a target that a texture begins at.
render_target_address_offset(t, target) ==
    LET bytes == IF target.format = 3 THEN 4 ELSE 2
        row   == target.stride * bytes
        ahead == t.address - target.address
        x     == (ahead % row) \div bytes
        y     == ahead \div row
    IN  IF target.stride = 0 \/ target.format # t.format \/ t.address < target.address THEN <<>>
        ELSE IF (ahead % row) % bytes # 0 \/ x >= target.width \/ y >= target.height THEN <<>>
        ELSE <<x, y>>
\* The pixel a texel is taken from, with the texture's transform.
SampledPixel(t, target, i, j) ==
    LET o == render_target_address_offset(t, target) IN <<o[1] + i, o[2] + j>>

expand4(v) == v * 16 + v
convert_frame(format, v) ==
    CASE format = 0 -> <<expand5(BitsOf(v, 0, 5)), (BitsOf(v, 5, 6) * 255) \div 63, expand5(BitsOf(v, 11, 5)), 255>>
      [] format = 1 -> [k \in 1..4 |-> IF k = 4 THEN BitsOf(v, 15, 1) * 255 ELSE expand5(BitsOf(v, 5 * (k - 1), 5))]
      [] OTHER -> [k \in 1..4 |-> expand4(BitsOf(v, 4 * (k - 1), 4))]
-----------------------------------------------------------------------------
(* Batches one after the other *)

UseWindows(r) ==
    /\ subject.about = "states" /\ uses < MaxUses /\ uses' = uses + 1
    /\ blend_state(render_state(r)) /\ depth_state(render_state(r))
    /\ UNCHANGED <<blendPipelines, stencilStates>>
UseMacos(r, program) ==
    /\ subject.about = "states" /\ uses < MaxUses /\ uses' = uses + 1
    /\ blendPipeline(render_state(r), program) /\ depthStencilState(render_state(r))
    /\ UNCHANGED <<blendStates, depthStates>>

RasterInit ==
    /\ blendStates = <<>> /\ depthStates = <<>> /\ blendPipelines = <<>> /\ stencilStates = <<>>
    /\ uses = 0
RasterNext ==
    /\ \E r \in Registers : UseWindows(r) \/ \E p \in {<<FALSE, FALSE>>, <<TRUE, FALSE>>, <<TRUE, TRUE>>} : UseMacos(r, p)
    /\ UNCHANGED subject
-----------------------------------------------------------------------------
\* Whatever was drawn before, the state a host finds under a batch's key is the
\* one it would make for that batch.
CachesRight ==
    \A r \in Registers :
      LET s == render_state(r) IN
      /\ blend_key(s) \in DOMAIN blendStates => blendStates[blend_key(s)] = blend_description(s)
      /\ depth_key(s) \in DOMAIN depthStates => depthStates[depth_key(s)] = depth_description(s)
      /\ \A p \in {<<FALSE, FALSE>>, <<TRUE, FALSE>>, <<TRUE, TRUE>>} :
           pipeline_key(s, p) \in DOMAIN blendPipelines =>
             blendPipelines[pipeline_key(s, p)] = pipeline_description(s, p)
      /\ stencil_key(s) \in DOMAIN stencilStates => stencilStates[stencil_key(s)] = stencil_description(s)

\* Direct3D refuses a state whose alpha factors name colours.
Refused(s) ==
    {blend_description(s).alpha[1], blend_description(s).alpha[2]}
      \cap {"source", "1-source", "destination", "1-destination"} # {}

\* The two hosts make the same pixel of a fragment, unless Direct3D refuses the
\* state; where they blend, all of it but the alpha.
HostsAgree ==
    About("pixel") =>
      LET s == render_state(subject.registers)
          w == WindowsDraws(s, subject.batch, subject.pixel)
          m == MacosDraws(s, subject.batch, subject.pixel)
      IN  ~Refused(s) =>
            /\ w.depth = m.depth /\ w.stencil = m.stencil
            /\ \A c \in Channels : (c = "a" => ~s.blend) => w.color[c] = m.color[c]

\* In clear mode the pixel gets the colour, alpha and depth that the mode and
\* the masks name, whatever the tests, blending and stencil are set to.
ClearExact ==
    About("pixel") =>
      LET r == subject.registers
          s == render_state(r)
          b == subject.batch
          p == subject.pixel
          cleared(c) == r.preserved[c] # 255 /\ IF c = "a" THEN r.clearAlpha ELSE r.clearColor
          whole == r.preserved["a"] \in {0, 255}
      IN  r.clear /\ b.texture = <<>> /\ b.color["a"] = r.lastAlpha =>
            \A after \in {MacosDraws(s, b, p)} \cup (IF Refused(s) THEN {} ELSE {WindowsDraws(s, b, p)}) :
              /\ \A c \in {"r", "g", "b"} : after.color[c] = IF cleared(c) THEN b.color[c] ELSE p.color[c]
              /\ whole => after.color["a"] = IF cleared("a") THEN r.lastAlpha ELSE p.color["a"]
              /\ whole => after.stencil = IF cleared("a") THEN r.lastAlpha ELSE p.stencil
              /\ after.depth = IF r.clearDepth THEN b.depth ELSE p.depth

\* On macOS the alpha of a 32-bit target follows its stencil through every
\* fragment that reaches the pixel, when the operation keeps, clears or replaces
\* and the bits of the alpha are preserved all or none.
AlphaFollowsStencil ==
    About("pixel") =>
      LET r == subject.registers
          s == render_state(r)
          p == subject.pixel
          after == MacosDraws(s, subject.batch, p)
      IN  /\ s.format = 3 /\ (s.stencilTest \/ s.clearStencil) /\ p.color["a"] = p.stencil
          /\ s.clearStencil \/ \A k \in 1..3 : psp_stencil_operation(s.stencilOps[k]) \in
                (IF k = 3 THEN {"keep", "zero", "replace"} ELSE {"keep"})
          /\ s.stencilWriteMask \in {0, 255}
          => after.color["a"] = after.stencil

\* A pixel of a through primitive lands on itself in a target that has grown;
\* a texel of a texture inside a target with its stride is the pixel at its
\* address.
PlacedRight ==
    About("place") =>
      LET g == subject.registers
          sx == render_target_geometry_scale(TRUE, render_target_width(g), subject.width)
          sy == render_target_geometry_scale(TRUE, render_target_height(g), subject.height)
          x == geometry_vertex_x(ThroughX(subject.at[1], g), sx)
          y == geometry_vertex_y(ThroughY(subject.at[2], g), sy)
          t == subject.texture
          target == subject.target
          bytes == IF target.format = 3 THEN 4 ELSE 2
          sampled == SampledPixel(t, target, subject.at[1], subject.at[2])
      IN  /\ subject.width >= render_target_width(g) =>
               (x[1] + x[2]) * subject.width = 2 * subject.at[1] * x[2]
          /\ subject.height >= render_target_height(g) =>
               (y[2] - y[1]) * subject.height = 2 * subject.at[2] * y[2]
          /\ render_target_address_offset(t, target) # <<>> =>
               target.address + (sampled[2] * target.stride + sampled[1]) * bytes
                 = t.address + (subject.at[2] * target.stride + subject.at[1]) * bytes

\* What the guest wrote looks the same as a picture and as a texture, but for
\* one step of green.
PicturesMatch ==
    About("color") =>
      \A f \in 0..2, k \in 1..4 :
        LET d == convert_frame(f, subject.value)[k] - decode_16bit_color(f, subject.value)[k]
        IN  d = 0 \/ (f = 0 /\ k = 2 /\ d \in {-1, 1})

RasterSound ==
    CachesRight /\ HostsAgree /\ ClearExact /\ AlphaFollowsStencil /\ PlacedRight /\ PicturesMatch
=============================================================================
