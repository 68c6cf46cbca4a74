----------------------------- MODULE HostFrames -----------------------------
(***************************************************************************)
(* How what the guest draws comes to the screen.  The guest's display      *)
(* lists hand batches to the front end (begin_ge_frame,                    *)
(* submit_ge_primitive, end_ge_frame, present_ge_frame) and the CPU's own  *)
(* pictures (present_frame); the window's thread draws the batches into    *)
(* render targets, one per address, and shows the picture or the target of *)
(* the address that is displayed, whichever FramebufferSourceTracker says  *)
(* was written last (host/windows_frontend.cpp, host/macos_frontend.mm,    *)
(* ge/ge_framebuffer_source.hpp).                                          *)
(*                                                                         *)
(* A guest holds the CPU and its list the graphics mutex: one guest at a   *)
(* time hands something over.  Of a batch only its shape is kept: where it *)
(* draws, how large its target is, what it samples, whether its scissor is *)
(* empty; of a picture, its content.  Content hashes do not collide.       *)
(***************************************************************************)
EXTENDS Integers, Sequences, FiniteSets, SequencesExt

CONSTANTS
    Nothing,        \* no texture, target, picture
    Addresses,      \* framebuffers
    VramStart,      \* the one of them that address 0 means
    Shapes,         \* of batches: [to, size, texture, hash, clipped]
    Pictures,       \* contents of guest memory
    TextureLimit,   \* 2048
    MaxBatches,     \* bound: batches submitted
    MaxPresents     \* bound: pictures presented

FramesAssumption ==
    /\ VramStart \in Addresses /\ Nothing \notin Addresses /\ Nothing \notin Pictures
    /\ {"idle", "display"} \cap Addresses = {}
    /\ \A s \in Shapes : s.to \in Addresses /\ s.size \in Nat \ {0} /\ s.clipped \in BOOLEAN
    /\ TextureLimit \in Nat \ {0} /\ MaxBatches \in Nat /\ MaxPresents \in Nat

VARIABLES
    system,         \* "windows" or "macos"
    gstep,          \* where the guest is
    frame,          \* the arguments of its present_frame
    building, pending, presented,   \* *_geometry_batches, as numbers of batches
    sources,        \* FramebufferSourceTracker: [hash, cpu] per address
    cpuFrames,      \* cpu_frames: [picture, generation] of some addresses (Windows)
    generation,     \* cpu_frame_generation
    display,        \* display_framebuffer_address
    outstanding,    \* render_message_pending
    queued,         \* messages or blocks for the window's thread
    invalid,        \* the window is to be painted
    wstep,          \* where the window's thread is, or the address whose picture it shows
    targets,        \* render_targets_: [size, drawn] of some addresses
    cpuTextures,    \* cpu_textures_ or cpuFramebuffers: [picture, generation]
    lastTexture,    \* renderer.texture (macOS)
    uploads,        \* uploaded_textures_: hash of some addresses
    screen          \* what is shown

VARIABLES
    made,           \* history: the shapes of all batches
    lost,           \* history: batches superseded before they were drawn
    latest,         \* history: "cpu" or "ge", per address
    presents        \* pictures presented

queues == <<building, pending, presented>>
guest  == <<gstep, frame, queues, sources, cpuFrames, generation, display, outstanding, made,
            lost, latest, presents>>
window == <<wstep, targets, cpuTextures, lastTexture, uploads, screen>>
fvars  == <<system, guest, queued, invalid, window>>

OnWindows == system = "windows"
OnMac == system = "macos"

\* A map without entries, and a map with one more or another one.
Empty == [a \in {} |-> 0]
Put(map, a, v) == [b \in DOMAIN map \cup {a} |-> IF b = a THEN v ELSE map[b]]

FramesInit ==
    /\ system \in {"windows", "macos"}
    /\ gstep = "idle" /\ frame = Nothing
    /\ building = <<>> /\ pending = <<>> /\ presented = <<>>
    /\ sources = [a \in Addresses |-> [hash |-> Nothing, cpu |-> FALSE]]
    /\ cpuFrames = Empty /\ generation = 0
    /\ display = VramStart /\ outstanding = FALSE /\ queued = <<>> /\ invalid = FALSE
    /\ wstep = "idle" /\ targets = Empty /\ cpuTextures = Empty /\ lastTexture = Nothing
    /\ uploads = Empty /\ screen = <<"none", Nothing>>
    /\ made = <<>> /\ lost = {} /\ latest = [a \in Addresses |-> "none"] /\ presents = 0
-----------------------------------------------------------------------------
(* FramebufferSourceTracker *)

\* A picture that has not changed does not.
record_cpu_frame(a, picture) ==
    IF sources[a].hash = picture THEN UNCHANGED sources
    ELSE sources' = [sources EXCEPT ![a] = [hash |-> picture, cpu |-> TRUE]]

record_ge_write(a) == sources' = [sources EXCEPT ![a].cpu = FALSE]

cpu_is_latest(a) == sources[a].cpu
-----------------------------------------------------------------------------
(* Lists *)

begin_ge_frame ==
    /\ gstep = "idle" /\ gstep' = "list" /\ Len(made) < MaxBatches
    /\ building' = <<>>
    /\ UNCHANGED <<system, frame, pending, presented, sources, cpuFrames, generation, display,
                   outstanding, made, lost, latest, presents, queued, invalid, window>>

submit_ge_primitive ==
    /\ gstep = "list" /\ Len(made) < MaxBatches
    /\ \E s \in Shapes :
         /\ record_ge_write(s.to) /\ latest' = [latest EXCEPT ![s.to] = "ge"]
         /\ made' = Append(made, s)
    /\ building' = Append(building, Len(made) + 1)
    /\ UNCHANGED <<system, gstep, frame, pending, presented, cpuFrames, generation, display,
                   outstanding, lost, presents, queued, invalid, window>>

\* A list that stalls is not presented: its batches wait for its end.
end_ge_frame ==
    /\ gstep = "list" /\ gstep' \in {"idle", "present"}
    /\ pending' = pending \o building /\ building' = <<>>
    /\ UNCHANGED <<system, frame, presented, sources, cpuFrames, generation, display,
                   outstanding, made, lost, latest, presents, queued, invalid, window>>

\* A frame that has not been drawn yet is given up for the new one.
TakePending ==
    IF pending = <<>> THEN UNCHANGED <<presented, pending, lost>>
    ELSE presented' = pending /\ pending' = <<>> /\ lost' = lost \cup ToSet(presented)

present_ge_frame ==
    /\ gstep = "present" /\ gstep' = IF pending # <<>> THEN "tell" ELSE "tell empty"
    /\ TakePending
    /\ UNCHANGED <<system, frame, building, sources, cpuFrames, generation, display,
                   outstanding, made, latest, presents, queued, invalid, window>>

\* One message is on its way at a time.
TellWindow ==
    /\ OnWindows /\ outstanding' = TRUE
    /\ queued' = IF outstanding THEN queued ELSE Append(queued, [kind |-> "render"])
\* macOS asks for a repaint when there is geometry.
DispatchDisplay ==
    /\ OnMac /\ UNCHANGED outstanding
    /\ queued' = IF gstep = "tell" THEN Append(queued, [kind |-> "render"]) ELSE queued

Tell ==
    /\ gstep \in {"tell", "tell empty"} /\ gstep' = "idle"
    /\ TellWindow \/ DispatchDisplay
    /\ UNCHANGED <<system, frame, queues, sources, cpuFrames, generation, display, made,
                   lost, latest, presents, invalid, window>>
-----------------------------------------------------------------------------
(* present_frame, step by step: the tracker, the picture, the address. *)

\* sceDisplaySetFrameBuf; macOS stores the address first.
present_frame ==
    /\ gstep = "idle" /\ presents < MaxPresents /\ presents' = presents + 1
    /\ \E a \in Addresses, picture \in Pictures :
         /\ frame' = [address |-> a, picture |-> picture, upload |-> FALSE]
         /\ display' = IF OnMac THEN a ELSE display
    /\ gstep' = "record"
    /\ UNCHANGED <<system, queues, sources, cpuFrames, generation, outstanding, made, lost,
                   latest, queued, invalid, window>>

Record ==
    /\ gstep = "record" /\ gstep' = "store"
    /\ record_cpu_frame(frame.address, frame.picture)
    /\ LET new == sources[frame.address].hash # frame.picture
       IN  /\ frame' = [frame EXCEPT !.upload = new]
           /\ latest' = IF new THEN [latest EXCEPT ![frame.address] = "cpu"] ELSE latest
    /\ UNCHANGED <<system, queues, cpuFrames, generation, display, outstanding, made, lost,
                   presents, queued, invalid, window>>

\* Windows keeps the picture for the window's thread to find.
StoreFrame ==
    /\ OnWindows /\ gstep = "store" /\ gstep' = "address"
    /\ IF frame.upload \/ frame.address \notin DOMAIN cpuFrames
         THEN /\ generation' = generation + 1
              /\ cpuFrames' = Put(cpuFrames, frame.address,
                                 [picture |-> frame.picture, generation |-> generation'])
         ELSE UNCHANGED <<cpuFrames, generation>>
    /\ UNCHANGED <<system, frame, queues, sources, display, outstanding, made, lost, latest,
                   presents, queued, invalid, window>>

StoreAddress ==
    /\ OnWindows /\ gstep = "address" /\ gstep' = "present"
    /\ display' = frame.address
    /\ UNCHANGED <<system, frame, queues, sources, cpuFrames, generation, outstanding, made,
                   lost, latest, presents, queued, invalid, window>>

\* macOS hands the picture to the main queue.
DispatchUpload ==
    /\ OnMac /\ gstep = "store" /\ gstep' = "present"
    /\ queued' = Append(queued, [kind |-> "upload", frame |-> frame])
    /\ UNCHANGED <<system, frame, queues, sources, cpuFrames, generation, display, outstanding,
                   made, lost, latest, presents, invalid, window>>
-----------------------------------------------------------------------------
(* The window's thread *)

Handle(kind) == wstep = "idle" /\ queued # <<>> /\ Head(queued).kind = kind /\ queued' = Tail(queued)

RenderMessage ==
    /\ Handle("render") /\ invalid' = TRUE
    /\ outstanding' = FALSE
    /\ UNCHANGED <<system, gstep, frame, queues, sources, cpuFrames, generation, display,
                   made, lost, latest, presents, window>>

UploadBlock ==
    /\ Handle("upload") /\ invalid' = TRUE
    /\ LET f == Head(queued).frame
       IN  /\ cpuTextures' = IF f.upload \/ f.address \notin DOMAIN cpuTextures
                               THEN Put(cpuTextures, f.address, [picture |-> f.picture, generation |-> 0])
                               ELSE cpuTextures
           /\ lastTexture' = cpuTextures'[f.address].picture
    /\ UNCHANGED <<system, guest, wstep, targets, uploads, screen>>

\* The window is uncovered, or the dialog it shows has changed.
Expose ==
    /\ wstep = "idle" /\ ~invalid /\ invalid' = TRUE /\ queued = <<>>
    /\ UNCHANGED <<system, guest, queued, window>>

\* A target grows to the largest size asked for, and is empty then.
ensure_render_target(ts, s) ==
    IF s.to \in DOMAIN ts /\ ts[s.to].size >= s.size THEN ts
    ELSE Put(ts, s.to, [size |-> s.size, drawn |-> <<>>])

\* The cache of textures: the same address and content need no upload.  On
\* Windows it is cleared with the new texture in it, which is used all the same.
windows_uploaded_texture(cache, s) ==
    LET with == Put(cache, s.texture, s.hash)
        full == Cardinality(DOMAIN with) > TextureLimit
    IN  [cache |-> IF full THEN Empty ELSE with,
         sampled |-> IF full THEN <<"freed", s.hash>> ELSE <<"upload", with[s.texture]>>]
uploadedTextureForBatch(cache, s) ==
    LET full == s.texture \notin DOMAIN cache /\ Cardinality(DOMAIN cache) >= TextureLimit
        with == Put(IF full THEN Empty ELSE cache, s.texture, s.hash)
    IN  [cache |-> with, sampled |-> <<"upload", with[s.texture]>>]

\* What a batch samples: a target that is there, or its own texture.  On
\* Windows a batch without a texture samples address 0.
windows_sampled(w, s) ==
    LET from == IF s.texture = Nothing THEN VramStart ELSE s.texture
    IN  IF from \in DOMAIN w.targets THEN [cache |-> w.cache, sampled |-> <<"target", from>>]
        ELSE IF s.hash # Nothing THEN windows_uploaded_texture(w.cache, s)
        ELSE [cache |-> w.cache, sampled |-> <<"plain", Nothing>>]
macos_sampled(w, s) ==
    IF s.texture \in DOMAIN w.targets THEN [cache |-> w.cache, sampled |-> <<"target", s.texture>>]
    ELSE IF s.hash # Nothing THEN uploadedTextureForBatch(w.cache, s)
    ELSE [cache |-> w.cache, sampled |-> <<"plain", Nothing>>]

draw_batch(w, n) ==
    LET s == made[n]
        grown == [w EXCEPT !.targets = ensure_render_target(@, s)]
        taken == IF OnWindows THEN windows_sampled(grown, s) ELSE macos_sampled(grown, s)
    IN  IF s.clipped THEN grown
        ELSE [targets |-> [grown.targets EXCEPT ![s.to].drawn =
                             Append(@, <<n, taken.sampled>>)],
              cache |-> taken.cache]

draw_geometry(batches) ==
    LET after[k \in 0..Len(batches)] ==
          IF k = 0 THEN [targets |-> targets, cache |-> uploads] ELSE draw_batch(after[k - 1], batches[k])
    IN  after[Len(batches)]

\* The batches are taken and drawn; the window counts as painted from now on.
Draw ==
    /\ wstep = "idle" /\ invalid /\ invalid' = FALSE /\ wstep' = "display"
    /\ LET w == draw_geometry(presented) IN targets' = w.targets /\ uploads' = w.cache
    /\ presented' = <<>>
    /\ UNCHANGED <<system, gstep, frame, building, pending, sources, cpuFrames, generation,
                   display, outstanding, queued, cpuTextures, lastTexture, screen, made, lost,
                   latest, presents>>

TargetShown(a) ==
    IF a \notin DOMAIN targets THEN <<"none", Nothing>>
    ELSE <<"ge", IF targets[a].drawn = <<>> THEN Nothing ELSE Last(targets[a].drawn)[1]>>

\* Mutant of display_texture: a texture that is there is not renewed.
display_texture_kept(a) ==
    IF a \in DOMAIN cpuTextures THEN cpuTextures[a] ELSE cpuFrames[a]
\* A picture is uploaded when its generation has changed.
display_texture(a) ==
    IF a \in DOMAIN cpuTextures /\ cpuTextures[a].generation = cpuFrames[a].generation
    THEN cpuTextures[a] ELSE cpuFrames[a]

\* The address and its source are read, and then the picture.
draw_display ==
    /\ OnWindows /\ wstep = "display"
    /\ IF cpu_is_latest(display)
         THEN wstep' = display /\ UNCHANGED screen
         ELSE wstep' = "idle" /\ screen' = TargetShown(display)
    /\ UNCHANGED <<system, guest, queued, invalid, targets, cpuTextures, lastTexture, uploads>>
ShowPicture ==
    /\ OnWindows /\ wstep \in Addresses /\ wstep' = "idle"
    /\ IF wstep \notin DOMAIN cpuFrames
         THEN screen' = <<"none", Nothing>> /\ UNCHANGED cpuTextures
         ELSE /\ cpuTextures' = Put(cpuTextures, wstep, display_texture(wstep))
              /\ screen' = <<"cpu", cpuTextures'[wstep].picture>>
    /\ UNCHANGED <<system, guest, queued, invalid, targets, lastTexture, uploads>>

\* macOS shows the last picture of all when it has nothing for the address.
ShowTexture ==
    /\ OnMac /\ wstep = "display" /\ wstep' = "idle"
    /\ LET cpu == cpu_is_latest(display)
           fallback == IF lastTexture = Nothing THEN <<"none", Nothing>> ELSE <<"cpu", lastTexture>>
       IN  screen' = CASE cpu /\ display \in DOMAIN cpuTextures ->
                            <<"cpu", cpuTextures[display].picture>>
                       [] ~cpu /\ display \in DOMAIN targets -> TargetShown(display)
                       [] OTHER -> fallback
    /\ UNCHANGED <<system, guest, queued, invalid, targets, cpuTextures, lastTexture, uploads>>

FramesNext ==
    \/ begin_ge_frame \/ submit_ge_primitive \/ end_ge_frame \/ present_ge_frame \/ Tell
    \/ present_frame \/ Record \/ StoreFrame \/ StoreAddress \/ DispatchUpload
    \/ RenderMessage \/ UploadBlock \/ Expose \/ Draw \/ draw_display \/ ShowPicture \/ ShowTexture
-----------------------------------------------------------------------------
FramesTypeOK ==
    /\ made \in Seq(Shapes) /\ lost \subseteq DOMAIN made /\ display \in Addresses
    /\ \A q \in {building, pending, presented} : ToSet(q) \subseteq DOMAIN made
    /\ presents \in 0..MaxPresents /\ generation \in 0..MaxPresents
    /\ latest \in [Addresses -> {"none", "cpu", "ge"}]

Drawn == DOMAIN made \ (ToSet(building) \cup ToSet(pending) \cup ToSet(presented) \cup lost)

\* What the batches drawn so far amount to at an address: all of them since the
\* target last grew.
Amounts(a) ==
    LET drawn == {n \in Drawn : made[n].to = a}
        grows == {n \in drawn : \A m \in drawn : m < n => made[m].size < made[n].size}
    IN  {n \in drawn : ~made[n].clipped /\ \A g \in grows : g <= n}

(***************************************************************************)
(* The batches of a list reach the render targets once, in their order,    *)
(* unless a later frame took their place before they were drawn.           *)
(***************************************************************************)
DrawnOnceInOrder ==
    \A a \in Addresses :
      LET drawn == IF a \in DOMAIN targets THEN targets[a].drawn ELSE <<>>
      IN  /\ {drawn[k][1] : k \in DOMAIN drawn} = Amounts(a)
          /\ \A k, l \in DOMAIN drawn : k < l => drawn[k][1] < drawn[l][1]

(***************************************************************************)
(* A batch samples the content it was submitted with, or a target that was *)
(* there.  Two things are excepted, both on Windows: the texture with      *)
(* which the cache overflows is released before it is used, and a batch    *)
(* without a texture samples the target at the start of video memory.      *)
(***************************************************************************)
SamplesOwnTexture ==
    \A a \in DOMAIN targets :
      \A k \in DOMAIN targets[a].drawn :
        LET n == targets[a].drawn[k][1]
            from == targets[a].drawn[k][2]
        IN  CASE from[1] = "upload" -> from[2] = made[n].hash
              [] from[1] = "target" ->
                   made[n].texture = from[2] \/ (OnWindows /\ made[n].texture = Nothing)
              [] from[1] = "freed" -> OnWindows
              [] from[1] = "plain" -> made[n].hash = Nothing

\* No frame waits for a message nobody sends.
NoFrameForgotten ==
    presented # <<>> => invalid \/ queued # <<>> \/ gstep = "tell"

\* Everything handed over has been shown.
Settled ==
    gstep = "idle" /\ queued = <<>> /\ ~invalid /\ wstep = "idle"
      /\ building = <<>> /\ pending = <<>> /\ presents > 0

(***************************************************************************)
(* When everything has been handed over, the screen shows what was written *)
(* last at the address that was displayed last: the picture given with it, *)
(* or the last batch that was not superseded.  An unchanged picture does   *)
(* not hide a batch (ge_framebuffer_source.hpp:12-16); the first picture   *)
(* of an address counts as written and does.                               *)
(***************************************************************************)
ShowsLatest ==
    Settled =>
      LET drawn == Amounts(display)
      IN  CASE latest[display] = "cpu" /\ frame.address = display ->
                 screen = <<"cpu", frame.picture>>
            [] latest[display] = "ge" /\ display \in DOMAIN targets ->
                 screen = <<"ge", IF drawn = {} THEN Nothing ELSE Max(drawn)>>
            [] OTHER -> screen[1] # "ge"

FramesSound ==
    DrawnOnceInOrder /\ SamplesOwnTexture /\ NoFrameForgotten /\ ShowsLatest
=============================================================================
