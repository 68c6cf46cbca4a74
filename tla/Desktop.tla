------------------------------ MODULE Desktop ------------------------------
(***************************************************************************)
(* The program between the guest and the user of a desktop, in one frame:  *)
(* the utility dialogs of both front ends (UtilityDialogs), the directory  *)
(* of a save (SaveStore), the pictures that are presented (HostFrames),    *)
(* the keys and sticks (Controls), and what is drawn (GeDraw, HostRaster). *)
(* The parts meet in a few values only (whether a dialog covers the        *)
(* window, the state of a batch), which each module takes as it may come;  *)
(* so one part is chosen at the start and looked at.                       *)
(***************************************************************************)
EXTENDS Integers, Sequences

CONSTANTS
    Parts,                                              \* the parts to look at
    None, Items, OskKeys, Limit, MaxDialogs,            \* UtilityDialogs
    Pressable, MaxInputs, MaxPosted, Strays,
    Absent, MaxSaves, Payloads, MaxStoreFaults,         \* SaveStore
    Nothing, Addresses, VramStart, Shapes, Pictures,    \* HostFrames
    TextureLimit, MaxBatches, MaxPresents,
    Keys, PadStates, Cycles, Modes, Thresholds, Axes,   \* Controls
    MaxKeyEvents, MaxSamples,
    Subjects, DisplayWidth, DisplayHeight, MaxSide,     \* GeDraw, HostRaster
    Registers, BlendLimit, MaxUses

VARIABLES
    part,
    active, status, dialogId, silent, nextId, told, waiting, posted,    \* UtilityDialogs
    dialog, answer, editors, dangling, chosen, field, pad, keys, previous, armed, keyboard, inputs,
    given, typed, held, surprised, stray,
    dirs, spc, existed, reported, number, pieces, failed, spareFaults,  \* SaveStore
    kept, before, stale, unmoved, cut,
    system, gstep, frame, building, pending, presented, sources,        \* HostFrames
    cpuFrames, generation, display, outstanding, queued, invalid, wstep, targets,
    cpuTextures, lastTexture, uploads, screen, made, lost, latest, presents,
    down, buttons, latched, keyStep, covered, reading, sample,          \* Controls
    settings, result, events, calls, since, owed, may,
    subject, blendStates, depthStates, blendPipelines, stencilStates, uses  \* HostRaster

Windows == INSTANCE UtilityDialogs WITH Platform <- "windows"
Macos   == INSTANCE UtilityDialogs WITH Platform <- "macos"
Store   == INSTANCE SaveStore
Frames  == INSTANCE HostFrames
Control == INSTANCE Controls WITH held <- down
Raster  == INSTANCE HostRaster

AllParts == {"windows", "macos", "saves", "frames", "controls", "drawing"}

ASSUME DesktopAssumption ==
    /\ Parts \subseteq AllParts
    /\ Windows!DialogsAssumption /\ Macos!DialogsAssumption /\ Store!StoreAssumption
    /\ Frames!FramesAssumption /\ Control!ControlsAssumption /\ Raster!RasterAssumption

dialogs == <<active, status, dialogId, silent, nextId, told, waiting, posted, dialog, answer, editors,
             dangling, chosen, field, pad, keys, previous, armed, keyboard, inputs, given, typed, held, surprised, stray>>
saves   == <<dirs, spc, existed, reported, number, pieces, failed, spareFaults, kept, before, stale,
             unmoved, cut>>
frames  == <<system, gstep, frame, building, pending, presented, sources, cpuFrames, generation, display,
             outstanding, queued, invalid, wstep, targets, cpuTextures, lastTexture, uploads, screen, made,
             lost, latest, presents>>
control == <<down, buttons, latched, keyStep, covered, reading, sample, settings, result, events, calls,
             since, owed, may>>
drawing == <<subject, blendStates, depthStates, blendPipelines, stencilStates, uses>>
vars    == <<part, dialogs, saves, frames, control, drawing>>

Init ==
    /\ part \in Parts
    /\ Windows!DialogsInit /\ Store!StoreInit /\ Control!ControlsInit
    /\ Frames!FramesInit /\ (part = "frames" \/ system = "windows")
    /\ IF part = "drawing" THEN Raster!DrawInit ELSE subject = [about |-> "nothing"]
    /\ Raster!RasterInit

Dialogs ==
    \/ /\ part = "windows" /\ ~dangling
       /\ \/ Windows!DialogCalls \/ Windows!DialogPolls \/ Windows!DialogInput
          \/ Windows!HandleMessage \/ Windows!DialogTimer
    \/ /\ part = "macos" /\ ~dangling
       /\ \/ Macos!DialogCalls \/ Macos!DialogPolls \/ Macos!DialogInput
          \/ Macos!HandleMessage \/ Macos!DialogTimer

Next ==
    \/ Dialogs /\ UNCHANGED <<part, saves, frames, control, drawing>>
    \/ /\ part = "saves" /\ (Store!StoreCalls \/ Store!StoreSteps)
       /\ UNCHANGED <<part, dialogs, frames, control, drawing>>
    \/ part = "frames" /\ Frames!FramesNext /\ UNCHANGED <<part, dialogs, saves, control, drawing>>
    \/ part = "controls" /\ Control!ControlsNext /\ UNCHANGED <<part, dialogs, saves, frames, drawing>>
    \/ part = "drawing" /\ Raster!RasterNext /\ UNCHANGED <<part, dialogs, saves, frames, control>>

Spec == Init /\ [][Next]_vars
-----------------------------------------------------------------------------
(* The properties of the parts; each conjunct is explained in its module. *)

(***************************************************************************)
(* One utility runs at a time; the guest is told the answer the user gave  *)
(* to the dialog it asked for; a button held since before the dialog does  *)
(* not answer it, and the game does not keep a key pressed that was        *)
(* released over a dialog.  This is claimed until an editor or key of a    *)
(* keyboard dialog is used that Qt has deleted with it, as the next dialog *)
(* after one of a keyboard does.                                           *)
(***************************************************************************)
DialogsSound ==
    /\ part = "windows" => Windows!DialogsTypeOK /\ Windows!DialogsSound
    /\ part = "macos"   => Macos!DialogsTypeOK /\ Macos!DialogsSound

(***************************************************************************)
(* A load gives the whole of one save, a save that was reported survives   *)
(* one fault until the next is complete, and an error leaves what there    *)
(* was, whichever call fails and wherever the program is killed; but for   *)
(* an old save that cannot be moved away, a removal that is cut short, and *)
(* what a save is written among that could not be cleared away.            *)
(***************************************************************************)
StoreSound == part = "saves" => Store!StoreTypeOK /\ Store!StoreSound

(***************************************************************************)
(* Batches are drawn once and in order, each samples its own texture, no   *)
(* frame is forgotten between the threads, and the window shows what was   *)
(* written last.                                                           *)
(***************************************************************************)
FramesSound == part = "frames" => Frames!FramesTypeOK /\ Frames!FramesSound

(***************************************************************************)
(* A key tapped between two samples is seen, a sample shows no key that    *)
(* was not pressed, and both front ends give a key the same meaning.       *)
(***************************************************************************)
ControlsSound == part = "controls" => Control!ControlsTypeOK /\ Control!ControlsSound

(***************************************************************************)
(* No vertex, texel or palette entry is read outside of what was checked;  *)
(* primitives, colours and targets are what the registers say; both front  *)
(* ends make the same pixel of a fragment, through their caches of states; *)
(* the clear mode clears what it names whatever else is set.               *)
(***************************************************************************)
DrawingSound ==
    part = "drawing" => Raster!VerticesSound /\ Raster!DrawSound /\ Raster!RasterSound
-----------------------------------------------------------------------------
(* The instance for TLC *)

MCOskKeys == <<"letter", "done">>
MCPressable == {<<"pad", "confirm">>, <<"key", "confirm">>, <<"pad", "right">>}

\* The two names are alike: the first payload has one of them.
MCPayloads == <<{"data"}, {"data", "other"}, {"data", "other"}>>

\* Batches: two to a target, with textures that lie in memory and have one
\* hash, one of which makes the target grow and the other is clipped away;
\* and one that samples that target.
MCShapes ==
    {[to |-> "A", size |-> 2, texture |-> "S", hash |-> 8, clipped |-> FALSE],
     [to |-> "A", size |-> 1, texture |-> "T", hash |-> 8, clipped |-> TRUE],
     [to |-> "B", size |-> 1, texture |-> "A", hash |-> 7, clipped |-> FALSE]}

MCThresholds == {-1, 129}
MCPadStates == {{}, {"start"}}
MCAxes == {-32768, -7850, -7849, 0, 7849, 7850, 32767}
-----------------------------------------------------------------------------
(* What GeDraw looks at *)

VertexTypes ==
    {[weight |-> w, weights |-> 3, texture |-> t, color |-> c, normal |-> n, position |-> p] :
       w \in {0, 1}, t \in {0, 2, 3}, c \in {0, 5, 7}, n \in 0..2, p \in 1..3}
Vertices ==
    {[about |-> "vertices", primitive |-> [type |-> t, indexed |-> i, count |-> 2, indices |-> <<0, 2>>,
                                           indexType |-> 1]] : t \in VertexTypes, i \in BOOLEAN}
Textures ==
    {[about |-> "texture", texture |-> [format |-> f, swizzled |-> s, width |-> w, height |-> h, bufferWidth |-> b]] :
       f \in {1, 3, 4, 5, 8, 10}, s \in BOOLEAN, w \in {2, 8}, h \in {2, 8}, b \in {2, 4, 8, 9}}
Palettes ==
    {[about |-> "palette", palette |-> [format |-> f, shift |-> s, mask |-> 255, start |-> b], value |-> v] :
       f \in {0, 3}, s \in {0, 4}, b \in {0, 240, 496}, v \in {0, 15, 200, 255}}
TextureWith(format, top, mode, width) ==
    [enabled |-> TRUE, maximumLevel |-> top, swizzled |-> FALSE, format |-> format, palette |-> 0,
     levelMode |-> mode, bias |-> 16, address |-> <<"a", "b">>, widths |-> <<8, 4>>, sizes |-> <<8, width>>]
TextureSettings == {TextureWith(f, top, mode, w) : f \in {3, 5}, top, mode \in 0..1, w \in {2, 4}}
TextureKeys == {[about |-> "keys", first |-> t, second |-> u] : t, u \in TextureSettings}
Colors == {[about |-> "color", value |-> v] : v \in {0, 31, 2016, 4660, 32767, 33000, 51966, 65535}}
Corners == {[x |-> x, y |-> y, u |-> u, v |-> 1 - u, color |-> u] : x, y \in 0..1, u \in 0..1}
Primitives ==
    {[about |-> "primitive", vertices |-> <<a, b>>] : a, b \in Corners}
      \cup {[about |-> "primitive", vertices |-> SubSeq(<<a, b, a, b, b>>, 1, n)] :
              a, b \in {c \in Corners : c.u = c.x}, n \in 0..5}
Targets ==
    {[about |-> "target", registers |-> [stride |-> s, right |-> r, bottom |-> b]] :
       s \in {0, 4, 8, 16}, r \in {1, 8, 20}, b \in {1, 5, 20}}
-----------------------------------------------------------------------------
(* What HostRaster looks at: the registers, varied a few at a time *)

Rgb(v) == [c \in {"r", "g", "b"} |-> v]
Rgba(v, a) == [c \in {"r", "g", "b", "a"} |-> CASE c = "a" -> a [] c = "r" -> v [] OTHER -> 255 - v]
PlainRegisters ==
    [format |-> 3, textured |-> TRUE, cull |-> FALSE, primitive |-> 3, clockwise |-> FALSE, clear |-> FALSE,
     clearColor |-> TRUE, clearAlpha |-> TRUE, clearDepth |-> TRUE, depthTest |-> TRUE, depthWrite |-> TRUE,
     depthFunction |-> 5, stencilTest |-> FALSE, lastAlpha |-> 128, stencilFunction |-> 1,
     stencilReference |-> 5, stencilReadMask |-> 255, preserved |-> [c \in {"r", "g", "b", "a"} |-> 0],
     stencilOps |-> <<0, 0, 0>>, blend |-> FALSE, source |-> 2, destination |-> 3, equation |-> 0,
     fixA |-> 0, fixB |-> 255, colorTest |-> FALSE, colorFunction |-> 2, colorReference |-> Rgb(255),
     colorMask |-> Rgb(255), alphaTest |-> FALSE, alphaFunction |-> 6, alphaReference |-> 100,
     alphaMask |-> 255, textureFunction |-> 0, textureAlpha |-> TRUE, textureDouble |-> FALSE,
     environment |-> Rgb(64), minLinear |-> FALSE, magLinear |-> FALSE, clampS |-> FALSE, clampT |-> FALSE]
Variants(r) ==
    {r, [r EXCEPT !.preserved["r"] = 255], [r EXCEPT !.format = 1], [r EXCEPT !.clearColor = FALSE],
     [r EXCEPT !.clearAlpha = FALSE], [r EXCEPT !.clearDepth = FALSE],
     [r EXCEPT !.depthTest = FALSE, !.depthWrite = FALSE],
     [r EXCEPT !.stencilTest = TRUE, !.stencilOps = <<0, 0, 2>>, !.blend = TRUE]}
      \cup {[r EXCEPT !.preserved["a"] = v, !.stencilTest = t] : v \in {15, 255}, t \in BOOLEAN}
      \cup {[r EXCEPT !.stencilTest = TRUE, !.stencilFunction = f, !.stencilOps = <<0, 0, o>>] :
              f \in {0, 1, 2, 4, 7}, o \in 0..5}
      \cup {[r EXCEPT !.stencilTest = TRUE, !.stencilOps = <<o, 6 - o, 2>>, !.stencilFunction = 6,
                      !.stencilReadMask = 15] : o \in 1..5}
      \cup {[r EXCEPT !.blend = TRUE, !.source = a, !.destination = b, !.equation = e] :
              a \in {0, 2, 5, 10}, b \in {1, 3, 4, 10}, e \in 0..4}
      \cup {[r EXCEPT !.colorTest = TRUE, !.colorFunction = f] : f \in 0..3}
      \cup {[r EXCEPT !.alphaTest = TRUE, !.alphaFunction = f] : f \in 0..7}
      \cup {[r EXCEPT !.textureFunction = f, !.textureAlpha = a, !.textureDouble = d] :
              f \in 0..5, a, d \in BOOLEAN}
      \cup {[r EXCEPT !.depthFunction = f] : f \in 0..7}
Pixels ==
    {[about |-> "pixel", registers |-> r, batch |-> b, pixel |-> p] :
       r \in {[v EXCEPT !.clear = c] : v \in Variants(PlainRegisters), c \in BOOLEAN},
       b \in {[texture |-> t, color |-> Rgba(c, 128), depth |-> 1] : t \in {<<>>, Rgba(128, 200)}, c \in {0, 255}},
       p \in {[color |-> Rgba(100, 5), depth |-> d, stencil |-> 5] : d \in 0..2}}
Places ==
    {[about |-> "place", registers |-> [stride |-> s, right |-> 8, bottom |-> b], width |-> w, height |-> 16,
      at |-> at, texture |-> [address |-> t, format |-> 3],
      target |-> [address |-> 64, stride |-> 8, format |-> f, width |-> 8, height |-> 8]] :
        s \in {4, 8}, b \in {4, 8}, w \in {8, 16}, at \in {<<0, 0>>, <<3, 2>>},
        t \in {0, 64, 66, 68, 100, 400}, f \in {1, 3}}

-----------------------------------------------------------------------------
(* The vertices GeDraw looks at *)
\* In lowest terms.
Q(n, d) == <<n, d>>
N(n) == <<n, 1>>
Ns(s) == [k \in DOMAIN s |-> N(s[k])]
Matrix(a, b, c, d) == <<Ns(a), Ns(b), Ns(c), Ns(d)>>
Same == Matrix(<<1, 0, 0>>, <<0, 1, 0>>, <<0, 0, 1>>, <<0, 0, 0>>)
Moved == Matrix(<<1, 0, 0>>, <<0, 1, 0>>, <<0, 0, 1>>, <<2, -1, 3>>)
Turned == Matrix(<<0, 2, 0>>, <<-2, 0, 0>>, <<0, 0, 2>>, <<1, 0, 0>>)
Straight == Matrix(<<1, 0, 0, 0>>, <<0, 1, 0, 0>>, <<0, 0, 1, 0>>, <<0, 0, 0, 2>>)
Perspective == Matrix(<<1, 0, 0, 0>>, <<0, 1, 0, 0>>, <<0, 0, -1, -1>>, <<0, 0, 4, 0>>)
Weights ==
    {<<0, <<>>>>, <<1, Ns(<<32, 96>>)>>, <<1, Ns(<<64, 32>>)>>, <<2, Ns(<<32768, 0>>)>>, <<3, <<Q(1, 2), Q(1, 2)>>>>}
Raws(type) ==
    CASE type = 1 -> {Ns(<<127, 0, -127>>), Ns(<<0, -254, -1>>)}
      [] type = 2 -> {Ns(<<32767, 0, -32767>>), Ns(<<0, -32767, 0>>)}
      [] type = 3 -> {Ns(<<2, -3, 5>>), Ns(<<0, 4, 0>>)}
Placed ==
    UNION {{[about |-> "vertex", through |-> FALSE, type |-> t, raw |-> r, weighted |-> w[1], weights |-> w[2],
             bones |-> <<Moved, Turned>>, world |-> m, view |-> Moved, projection |-> p,
             scale |-> Ns(<<4, -4, 100>>), center |-> Ns(<<20, 20, z>>), offset |-> <<24, 256>>,
             width |-> 8, height |-> 6] :
              r \in Raws(t), w \in Weights, m \in {Same, Turned}, p \in {Straight, Perspective},
              z \in {0, 100, 65500}} : t \in 1..3}
Light(on, type, position, ambient, diffuse) ==
    [on |-> on, type |-> type, position |-> Ns(position), constant |-> N(0), linear |-> Q(1, 2),
     quadratic |-> Q(1, 10), ambient |-> ambient, diffuse |-> diffuse]
Lights ==
    {Light(TRUE, 0, <<0, 3, 4>>, N(0), N(1)), Light(TRUE, 1, <<6, 8, 2>>, Q(1, 2), N(1)),
     Light(TRUE, 2, <<0, 0, 7>>, N(1), Q(1, 2)), Light(TRUE, 1, <<0, 0, 2>>, Q(1, 4), Q(3, 4)),
     Light(FALSE, 0, <<0, 0, 1>>, N(1), N(1))}
Materials ==
    {[colored |-> u # {}, update |-> u, color |-> Q(1, 5), ambient |-> Q(1, 2), diffuse |-> N(1), scene |-> e,
      emissive |-> e] : u \in {{}, {"ambient"}, {"diffuse"}}, e \in {N(0), Q(3, 4)}}
Lit ==
    {[about |-> "light", material |-> m, at |-> Ns(<<0, 0, 2>>), lights |-> <<k, l, k>>, normaltype |-> n[1],
      normal |-> Ns(n[2]), reversed |-> n[3], weighted |-> 0, world |-> Turned] :
       m \in Materials, k, l \in Lights,
       n \in {<<0, <<0, 0, 0>>, FALSE>>, <<1, <<0, 0, 128>>, TRUE>>, <<3, <<3, 4, 0>>, FALSE>>}}
Coordinates ==
    {[about |-> "coordinate", type |-> t, through |-> FALSE, raw |-> r, size |-> s, scale |-> N(1), move |-> N(0)] :
       t \in 1..2, r \in {N(0), N(1), N(100), N(255)}, s \in {1, 16, 256}}
      \cup {[about |-> "projection", source |-> s, position |-> Ns(<<1, 2, 3>>), u |-> Q(1, 2), v |-> N(1),
             normal |-> Ns(n), matrix |-> Turned, light |-> Ns(l)] :
              s \in 0..3, n \in {<<0, 0, 0>>, <<3, 0, -4>>, <<0, 1, 0>>}, l \in {<<0, 0, 0>>, <<0, 5, 0>>, <<4, 0, -3>>}}

MCSubjects ==
    Placed \cup Lit \cup Coordinates \cup
    Vertices \cup Textures \cup Palettes \cup TextureKeys \cup Colors \cup Primitives \cup Targets
      \cup Pixels \cup Places \cup {[about |-> "states"]}
\* Batches one after the other: fixed colours that differ, a stencil, a clear.
Blended == [PlainRegisters EXCEPT !.blend = TRUE, !.destination = 10, !.fixB = 0]
MCRegisters ==
    {[PlainRegisters EXCEPT !.blend = TRUE, !.source = 10, !.fixA = 1],
     [Blended EXCEPT !.fixB = 1], Blended,
     [Blended EXCEPT !.stencilTest = TRUE, !.stencilOps = <<0, 0, 3>>],
     [PlainRegisters EXCEPT !.clear = TRUE, !.preserved["r"] = 255],
     [PlainRegisters EXCEPT !.clear = TRUE, !.preserved["r"] = 255, !.clearAlpha = FALSE]}
=============================================================================
