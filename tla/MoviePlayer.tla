---------------------------- MODULE MoviePlayer ----------------------------
(***************************************************************************)
(* Movie playback (stubs/mpeg): the ring buffer the guest fills through a  *)
(* callback, the media engine that splits its packets into access units of *)
(* video and audio, and the calls that fetch and decode these.             *)
(*                                                                         *)
(* sceMpegRingbufferPut dispatches the guest's callback, which gives up    *)
(* the guest CPU and may itself make calls, and sceMpegAvcDecode gives it  *)
(* up while it decodes; every other call is one step.  A packet of 2048    *)
(* bytes is a short sequence of pieces, a piece with start being the first *)
(* of a frame (the access unit delimiter, or the header of an audio frame).*)
(* Time stamps and pixels are left out.                                    *)
(***************************************************************************)
EXTENDS Integers, Sequences, SequencesExt, FiniteSets

CONSTANTS
    MovieThreads,   \* guest threads
    Movie,          \* the packets of the movie: [kind, pieces]
    Packets,        \* packets of the ring buffer
    PacketSize,     \* pieces of a packet
    FrameSize,      \* pieces of an audio frame
    MaxUnits,       \* maximum_access_units_per_kind
    MaxEngines      \* bound: media engines ever created

MovieAssumption ==
    /\ Packets \in Nat \ {0} /\ PacketSize \in Nat \ {0} /\ FrameSize \in Nat \ {0}
    /\ MaxUnits \in Nat \ {0} /\ MaxEngines \in Nat
    /\ \A i \in DOMAIN Movie : Len(Movie[i].pieces) = PacketSize

VARIABLES
    ring,           \* packets_write_position, packets_available, mpeg
    media,          \* the media engines, those deleted but in use too
    engine,         \* engines(): the current one, or 0
    put,            \* per thread: the locals of its sceMpegRingbufferPut
    taken,          \* per thread: the unit it is about to decode
    position        \* the guest's: packets of the movie read so far

VARIABLES
    fed,            \* history: per engine, packets taken since the flush
    skipped,        \* history: audio packets that met no audio stream
    got,            \* history: per engine and kind, pieces handed out
    decoded         \* history: video units decoded

movieVars == <<ring, media, engine, put, taken, position, fed, skipped, got, decoded>>

Kinds == {"video", "audio"}
NoPut == [wanted |-> 0]
NoUnit == [pieces |-> <<>>]
Capacity == Packets * PacketSize

Empty(streams) ==
    [encoded |-> <<>>, video |-> <<>>, audio |-> <<>>, units |-> <<>>,
     pending |-> [k \in Kinds |-> NoUnit], streams |-> streams]
NoHistory == [k \in Kinds |-> <<>>]

MovieInit ==
    /\ ring = [write |-> 0, available |-> 0, mpeg |-> FALSE]
    /\ media = <<>> /\ engine = 0
    /\ put = [t \in MovieThreads |-> NoPut]
    /\ taken = [t \in MovieThreads |-> NoUnit]
    /\ position = 0
    /\ fed = <<>> /\ skipped = {} /\ got = <<>> /\ decoded = <<>>

-----------------------------------------------------------------------------
(* The demultiplexer *)

UnitCount(m, kind) == Cardinality({i \in DOMAIN m.units : m.units[i].kind = kind})

Pieces(seq) == FlattenSeq([i \in DOMAIN seq |-> seq[i].pieces])
Size(m) ==
    Len(m.encoded) * PacketSize + Len(m.video) + Len(m.audio) + Len(Pieces(m.units))

\* Cuts at most room frames off s, where after[i] is the position behind the
\* frame that starts at i, or 0 when s does not hold all of it; what stands
\* before a start is dropped.
Cut(s, room, after) ==
    FoldLeft(LAMBDA c, i :
               IF i < c.at THEN c
               ELSE IF ~s[i].start THEN [c EXCEPT !.at = i + 1]
               ELSE IF after[i] = 0 \/ Len(c.frames) = room
                 THEN [c EXCEPT !.rest = SubSeq(s, i, Len(s)), !.at = Len(s) + 1]
               ELSE [c EXCEPT !.at = after[i],
                              !.frames = Append(@, SubSeq(s, i, after[i] - 1))],
             [at |-> 1, frames |-> <<>>, rest |-> <<>>],
             [i \in 1..Len(s) |-> i])

Units(kind, frames) == [i \in DOMAIN frames |-> [kind |-> kind, pieces |-> frames[i]]]

\* extract_video_access_units: a frame ends where the next one starts.
ExtractVideo(m) ==
    LET after == [i \in DOMAIN m.video |->
                    LET later == {j \in DOMAIN m.video : j > i /\ m.video[j].start}
                    IN  IF later = {} THEN 0
                        ELSE CHOOSE j \in later : \A k \in later : j <= k]
        c == Cut(m.video, MaxUnits - UnitCount(m, "video"), after)
    IN  [m EXCEPT !.video = c.rest, !.units = @ \o Units("video", c.frames)]

\* extract_audio_frames: the header tells the size of the frame.
ExtractAudio(m) ==
    LET after == [i \in DOMAIN m.audio |->
                    IF i + FrameSize <= Len(m.audio) + 1 THEN i + FrameSize ELSE 0]
        c == Cut(m.audio, MaxUnits - UnitCount(m, "audio"), after)
    IN  [m EXCEPT !.audio = c.rest, !.units = @ \o Units("audio", c.frames)]

\* queue_packet returns false: the packet and all behind it stay encoded.
Blocked(m, p) == p.kind = "video" /\ UnitCount(m, "video") >= MaxUnits

\* queue_packet: audio nobody listens to is dropped; a video packet without a
\* delimiter before any frame has begun is a unit of its own.
QueuePacket(m, p) ==
    IF p.kind = "audio"
      THEN IF "audio" \in m.streams
             THEN ExtractAudio([m EXCEPT !.audio = @ \o p.pieces]) ELSE m
    ELSE IF m.video = <<>> /\ \A i \in DOMAIN p.pieces : ~p.pieces[i].start
      THEN [m EXCEPT !.units = @ \o Units("video", <<p.pieces>>)]
    ELSE ExtractVideo([m EXCEPT !.video = @ \o p.pieces])

Demux(m) ==
    FoldLeft(LAMBDA d, p :
               IF d.encoded # <<>> \/ Blocked(d, p) THEN [d EXCEPT !.encoded = Append(@, p)]
               ELSE QueuePacket(d, p),
             [ExtractAudio(ExtractVideo(m)) EXCEPT !.encoded = <<>>], m.encoded)

-----------------------------------------------------------------------------
(* MediaEngine *)

Fits(m, n) == Size(m) + n * PacketSize <= Capacity

\* append_packets, when the packets fit.
Appended(m, packets) == Demux([m EXCEPT !.encoded = @ \o packets])

\* The packets of kind audio that a demultiplexing from m to d dropped.
Unheard(m, d, packets) ==
    IF "audio" \in m.streams THEN {}
    ELSE {p \in ToSet(m.encoded \o packets) : p.kind = "audio"} \ ToSet(d.encoded)

\* packets_in_use, as update_ringbuffer_usage stores it
InUse(m) ==
    LET used == (Size(m) + PacketSize - 1) \div PacketSize
    IN  IF m.units = <<>> THEN 0 ELSE IF used < Packets THEN used ELSE Packets

\* The first unit of a kind, for next_access_unit.
First(m, kind) == SelectInSeq(m.units, LAMBDA u : u.kind = kind)

NextUnit(m, kind) ==
    Demux([m EXCEPT !.units = RemoveAt(@, First(m, kind)),
                    !.pending[kind] = m.units[First(m, kind)]])

-----------------------------------------------------------------------------
(* Calls of the guest *)

\* A thread calls unless it is decoding; from its callback it does not put.
Calls(t) == taken[t] = NoUnit
Idle(t) == Calls(t) /\ put[t] = NoPut

RingbufferConstruct(t) ==
    /\ Calls(t)
    /\ ring' = [write |-> 0, available |-> 0, mpeg |-> FALSE]
    /\ UNCHANGED <<media, engine, put, taken, position, fed, skipped, got, decoded>>

\* sceMpegCreate replaces the engine there may be.
Create(t) ==
    /\ Calls(t) /\ Len(media) < MaxEngines
    /\ ring' = [ring EXCEPT !.mpeg = TRUE]
    /\ media' = Append(media, Empty({}))
    /\ engine' = Len(media) + 1
    /\ fed' = Append(fed, <<>>) /\ got' = Append(got, NoHistory)
    /\ UNCHANGED <<put, taken, position, skipped, decoded>>

Delete(t) ==
    /\ Calls(t) /\ engine # 0 /\ engine' = 0
    /\ UNCHANGED <<ring, media, put, taken, position, fed, skipped, got, decoded>>

RegistStream(t, kind) ==
    /\ Calls(t) /\ engine # 0 /\ kind \notin media[engine].streams
    /\ media' = [media EXCEPT ![engine].streams = @ \cup {kind}]
    /\ UNCHANGED <<ring, engine, put, taken, position, fed, skipped, got, decoded>>

UnRegistStream(t, kind) ==
    /\ Calls(t) /\ engine # 0 /\ kind \in media[engine].streams
    /\ media' = [media EXCEPT ![engine].streams = @ \ {kind}]
    /\ UNCHANGED <<ring, engine, put, taken, position, fed, skipped, got, decoded>>

\* MediaEngine::flush, and for sceMpegFlushAllStream the ring buffer too.
Flush(t, all) ==
    /\ Calls(t) /\ engine # 0
    /\ media' = [media EXCEPT ![engine] = Empty(@.streams)]
    /\ fed' = [fed EXCEPT ![engine] = <<>>]
    /\ got' = [got EXCEPT ![engine] = NoHistory]
    /\ ring' = IF all THEN [ring EXCEPT !.write = 0, !.available = 0] ELSE ring
    /\ UNCHANGED <<engine, put, taken, position, skipped, decoded>>

AvailableSize(t) ==
    /\ Calls(t) /\ ring.mpeg /\ engine # 0
    /\ ring' = [ring EXCEPT !.available = InUse(media[engine])]
    /\ UNCHANGED <<media, engine, put, taken, position, fed, skipped, got, decoded>>

\* sceMpegGetAvcAu and sceMpegGetAtracAu
GetAu(t, kind) ==
    /\ Calls(t) /\ engine # 0
    /\ LET m == media[engine]
           n == NextUnit(m, kind)
       IN  /\ kind \in m.streams /\ First(m, kind) # 0
           /\ media' = [media EXCEPT ![engine] = n]
           /\ ring' = [ring EXCEPT !.available = InUse(n)]
           /\ got' = [got EXCEPT ![engine][kind] = @ \o m.units[First(m, kind)].pieces]
           /\ skipped' = skipped \cup Unheard(m, n, <<>>)
    /\ UNCHANGED <<engine, put, taken, position, fed, decoded>>

\* Mutant of AvcDecode: the pending unit is copied.
AvcDecodeCopies(t) ==
    /\ Calls(t) /\ engine # 0 /\ media[engine].pending["video"] # NoUnit
    /\ taken' = [taken EXCEPT ![t] = media[engine].pending["video"]]
    /\ UNCHANGED <<ring, media, engine, put, position, fed, skipped, got, decoded>>

\* sceMpegAvcDecode takes the pending unit, without the guest CPU ...
AvcDecode(t) ==
    /\ Calls(t) /\ engine # 0 /\ media[engine].pending["video"] # NoUnit
    /\ taken' = [taken EXCEPT ![t] = media[engine].pending["video"]]
    /\ media' = [media EXCEPT ![engine].pending["video"] = NoUnit]
    /\ UNCHANGED <<ring, engine, put, position, fed, skipped, got, decoded>>

\* ... gives up the engine's mutex, takes it again and decodes.
DecodeTaken(t) ==
    /\ taken[t] # NoUnit
    /\ taken' = [taken EXCEPT ![t] = NoUnit]
    /\ decoded' = Append(decoded, taken[t])
    /\ UNCHANGED <<ring, media, engine, put, position, fed, skipped, got>>

\* sceMpegAtracDecode: the pending unit stays if it cannot be decoded.
AtracDecode(t) ==
    /\ Calls(t) /\ engine # 0 /\ media[engine].pending["audio"] # NoUnit
    /\ media' = [media EXCEPT ![engine].pending["audio"] = NoUnit]
    /\ UNCHANGED <<ring, engine, put, taken, position, fed, skipped, got, decoded>>

-----------------------------------------------------------------------------
(* sceMpegRingbufferPut *)

\* Packets for one callback: up to the end of the ring.
Contiguous(wanted, write) == IF wanted < Packets - write THEN wanted ELSE Packets - write

Put(t, wanted) ==
    /\ Idle(t) /\ ring.mpeg /\ engine # 0
    /\ LET room == Packets - ring.available
           w == IF wanted < room THEN wanted ELSE room
       IN  /\ w > 0
           /\ put' = [put EXCEPT ![t] = [wanted |-> w, engine |-> engine,
                                         at |-> ring.write, size |-> Contiguous(w, ring.write)]]
    /\ UNCHANGED <<ring, media, engine, taken, position, fed, skipped, got, decoded>>

\* The callback returns n packets; the next one follows if it gave them all.
CallbackReturns(t, n) ==
    /\ Calls(t) /\ put[t] # NoPut
    /\ LET p == put[t]
           packets == SubSeq(Movie, position + 1, position + n)
           m == media[p.engine]
           a == IF Fits(m, n) THEN Appended(m, packets) ELSE m
           write == (ring.write + n) % Packets
           left == p.wanted - n
           more == Fits(m, n) /\ n = p.size /\ left > 0
       IN  /\ n <= p.size /\ position + n <= Len(Movie)
           /\ position' = position + n
           /\ media' = [media EXCEPT ![p.engine] = a]
           /\ skipped' = IF Fits(m, n) THEN skipped \cup Unheard(m, a, packets) ELSE skipped
           /\ fed' = IF Fits(m, n) THEN [fed EXCEPT ![p.engine] = @ \o packets] ELSE fed
           /\ ring' = [ring EXCEPT
                         !.write = IF Fits(m, n) THEN write ELSE @,
                         !.available = IF more THEN @ ELSE InUse(a)]
           /\ put' = [put EXCEPT ![t] =
                        IF more
                          THEN [p EXCEPT !.wanted = left, !.at = write,
                                         !.size = Contiguous(left, write)]
                        ELSE NoPut]
    /\ UNCHANGED <<engine, taken, got, decoded>>

MovieCalls ==
    \E t \in MovieThreads :
      \/ RingbufferConstruct(t) \/ Create(t) \/ Delete(t) \/ AvailableSize(t)
      \/ AvcDecode(t) \/ AtracDecode(t)
      \/ \E kind \in Kinds : RegistStream(t, kind) \/ UnRegistStream(t, kind) \/ GetAu(t, kind)
      \/ \E all \in BOOLEAN : Flush(t, all)
      \/ \E wanted \in 1..Packets : Put(t, wanted)

MovieSteps ==
    \E t \in MovieThreads : DecodeTaken(t) \/ \E n \in 0..Packets : CallbackReturns(t, n)

-----------------------------------------------------------------------------
(* Properties *)

\* Ring positions in range, and no more access units of a kind than allowed.
MovieTypeOK ==
    /\ ring.available \in 0..Packets /\ ring.write \in 0..(Packets - 1)
    /\ engine \in 0..Len(media)
    /\ \A e \in DOMAIN media : \A k \in Kinds : UnitCount(media[e], k) <= MaxUnits

(***************************************************************************)
(* However packets, frames and flushes fall, what an engine hands out of a *)
(* kind, what waits as access units, what is staged and what is still      *)
(* encoded are, in this order and from the first start of a frame on, the  *)
(* pieces it was fed since the last flush, without gap or repetition.      *)
(***************************************************************************)
FromStart(s) ==
    LET i == SelectInSeq(s, LAMBDA p : p.start)
    IN  IF i = 0 THEN <<>> ELSE SubSeq(s, i, Len(s))
NoPieceLost ==
    \A e \in DOMAIN media, kind \in Kinds :
      LET m == media[e]
          of(s) == Pieces(SelectSeq(s, LAMBDA p : p.kind = kind))
          now == got[e][kind] \o of(m.units)
                   \o (IF kind = "video" THEN m.video ELSE m.audio) \o of(m.encoded)
      IN  kind = "video" \/ skipped = {} => FromStart(now) = FromStart(of(fed[e]))

(***************************************************************************)
(* While access units wait, the free space the ring buffer reports is free *)
(* in the engine: a callback for that many packets is not called in vain   *)
(* (packets_in_use against append_packets).                                *)
(***************************************************************************)
WithinCapacity ==
    \A e \in DOMAIN media :
      /\ Size(media[e]) <= Capacity
      /\ media[e].units # <<>> => Fits(media[e], Packets - InUse(media[e]))

(***************************************************************************)
(* The callback is asked for packets inside of the ring buffer's memory,   *)
(* also when the ring was flushed or constructed anew during a callback.   *)
(***************************************************************************)
CallbackInsideRing ==
    \A t \in MovieThreads : put[t] # NoPut => put[t].at + put[t].size <= Packets

(***************************************************************************)
(* A video unit is decoded at most once and only after it was handed out,  *)
(* although sceMpegAvcDecode takes it and decodes it in two steps.         *)
(***************************************************************************)
DecodedOnce ==
    /\ IsInjective(decoded)
    /\ \A t \in MovieThreads :
         taken[t] # NoUnit =>
           /\ taken[t] \notin ToSet(decoded)
           /\ \A u \in MovieThreads \ {t} : taken[u] # taken[t]
=============================================================================
