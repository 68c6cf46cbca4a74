----------------------------- MODULE SasVoices -----------------------------
(***************************************************************************)
(* The software synthesizer (stubs/audio/sas_state.hpp and the __sceSas    *)
(* stubs): voices that play decoded VAG or PCM samples at a pitch, with    *)
(* loops and an envelope of attack, decay, sustain and release, mixed by   *)
(* __sceSasCore.  Every call holds the one mutex, so it is one step; a     *)
(* grain is mixed sample by sample, calls coming between them as well.     *)
(* Sample values and volumes are left out; positions and envelope heights  *)
(* are kept on a smaller scale: Top is max_envelope_height (2^30), 4 * Top *)
(* stands for 2^32, One for 0x1000.                                        *)
(***************************************************************************)
EXTENDS Integers, Sequences, SequencesExt

CONSTANTS
    Voices,       \* voices of the core (32)
    VagData,      \* contents of the VAG source: sequences of block flags
    BlockSamples, \* samples of a block (28)
    PcmSizes,     \* sample counts of PCM sources
    Top,          \* max_envelope_height
    Phases,       \* bound: phases whose rate and curve the guest sets one by one
    Rates,        \* envelope rates
    Levels,       \* sustain levels the guest asks for
    Envelopes,    \* envelopes of __sceSasSetSimpleADSR: [rate, curve, level]
    One,          \* 0x1000 in a position or a pitch
    Pitches       \* pitches

SasAssumption ==
    /\ Phases \subseteq {"attack", "decay", "sustain", "release"}
    /\ Top \in Nat \ {0} /\ One \in Nat \ {0}
    /\ BlockSamples \in Nat \ {0} /\ Rates \subseteq Nat /\ Levels \subseteq Nat
    /\ Pitches \subseteq 0..(4 * One) /\ PcmSizes \subseteq Nat \ {0}

VARIABLES
    voices,       \* Core::voices
    vag,          \* guest memory: what stands at the VAG source now
    outside       \* history: a sample outside of a voice's samples was read

sasVars == <<voices, vag, outside>>

Curves == {"increase", "decrease", "bent", "exp decrease", "exp increase", "direct"}

NewVoice ==
    [type |-> "off", length |-> 0, loop |-> FALSE, asked |-> FALSE, start |-> 0,
     playing |-> FALSE, on |-> FALSE, paused |-> FALSE, position |-> 0, pitch |-> One,
     height |-> 0, phase |-> "off", envelope |-> FALSE, level |-> Top,
     rate |-> [p \in {"attack", "decay", "sustain", "release"} |-> 0],
     curve |-> [attack |-> "increase", decay |-> "decrease", sustain |-> "decrease",
                release |-> "decrease"]]

SasInit ==
    /\ voices = [v \in Voices |-> NewVoice]
    /\ vag \in VagData /\ outside = FALSE

-----------------------------------------------------------------------------
(* Envelope *)

Lesser(a, b) == IF a < b THEN a ELSE b
Greater(a, b) == IF a > b THEN a ELSE b

\* Mutant of Walk: the exponential fall is rounded up.
WalkRounded(height, curve, rate) ==
    CASE curve = "increase" -> Lesser(Top, height + rate)
      [] curve = "decrease" -> Greater(0, height - rate)
      [] curve = "exp decrease" ->
           Greater(0, Lesser(Top, height + ((Top - height) * rate + 4 * Top - 1) \div (4 * Top)
                                    - rate \div 4))
      [] OTHER -> Lesser(rate, Top)

\* walk_envelope_curve
Walk(height, curve, rate) ==
    CASE curve = "increase" -> Lesser(Top, height + rate)
      [] curve = "decrease" -> Greater(0, height - rate)
      [] curve = "bent" -> Lesser(Top, height + IF 4 * height <= 3 * Top THEN rate ELSE rate \div 4)
      [] curve = "exp decrease" ->
           Greater(0, Lesser(Top, height + ((Top - height) * rate) \div (4 * Top)
                                    - (rate + 3) \div 4))
      [] curve = "exp increase" ->
           Lesser(Top, height + ((Top - height) * rate) \div (4 * Top) + 1)
      [] curve = "direct" -> Lesser(rate, Top)

\* advance_envelope
Advanced(v) ==
    LET h == IF v.phase = "off" THEN 0
             ELSE Walk(v.height, v.curve[v.phase], v.rate[v.phase])
    IN  CASE ~v.envelope -> [v EXCEPT !.height = Top]
          [] v.envelope /\ v.phase = "attack" ->
               [v EXCEPT !.height = h, !.phase = IF h >= Top THEN "decay" ELSE @]
          [] v.envelope /\ v.phase = "decay" ->
               IF h > v.level THEN [v EXCEPT !.height = h]
               ELSE [v EXCEPT !.height = v.level, !.phase = "sustain"]
          [] v.envelope /\ v.phase = "release" /\ h = 0 ->
               [v EXCEPT !.height = 0, !.phase = "off", !.playing = FALSE, !.on = FALSE]
          [] OTHER -> [v EXCEPT !.height = h]

-----------------------------------------------------------------------------
(* Sources *)

\* decode_vag_details: blocks up to the end of the data or an end flag; 6
\* marks the start of a loop, 3 its end, 7 ends without samples.
DecodeVag(flags) ==
    FoldLeft(LAMBDA d, f :
               IF d.stop \/ f = 7 THEN [d EXCEPT !.stop = TRUE]
               ELSE [length |-> d.length + BlockSamples,
                     start |-> IF f = 6 THEN d.length ELSE d.start,
                     end |-> f = 3, stop |-> f % 2 = 1],
             [length |-> 0, start |-> 0, end |-> FALSE, stop |-> FALSE], flags)

Update(v, new) == voices' = [voices EXCEPT ![v] = new] /\ UNCHANGED <<vag, outside>>

\* The guest loads other data to the source address.
GuestLoads(data) == vag' = data /\ UNCHANGED <<voices, outside>>

\* set_voice: the samples of the same source are not decoded again, the loop is.
SetVoice(v, loop) ==
    LET d == DecodeVag(vag)
        old == voices[v]
        reset == old.type # "vag" \/ old.asked # loop
        new == [old EXCEPT !.type = "vag", !.asked = loop, !.loop = loop /\ d.end,
                           !.start = d.start, !.playing = @ \/ old.on,
                           !.length = IF reset THEN d.length ELSE @,
                           !.position = IF reset THEN 0 ELSE @]
    IN  d.length > 0 /\ Update(v, new)

\* set_voice_pcm: plays at once; a negative start means no loop.
SetVoicePCM(v, size, start) ==
    /\ start < size
    /\ Update(v, [voices[v] EXCEPT !.type = "pcm", !.asked = start >= 0, !.loop = start >= 0,
                                   !.start = Greater(start, 0), !.length = size,
                                   !.position = 0, !.playing = TRUE])

SetNoise(v) == Update(v, [voices[v] EXCEPT !.type = "noise"])

-----------------------------------------------------------------------------
(* Keys and parameters *)

KeyOn(v) ==
    LET old == voices[v]
    IN  /\ ~old.paused /\ ~old.on
        /\ Update(v, [old EXCEPT !.position = 0, !.playing = TRUE, !.on = TRUE,
                                 !.height = IF old.envelope THEN 0 ELSE Top,
                                 !.phase = IF old.envelope THEN "attack" ELSE "sustain"])

\* key_off
Released(v) ==
    IF v.envelope /\ v.rate["release"] # 0 THEN [v EXCEPT !.on = FALSE, !.phase = "release"]
    ELSE [v EXCEPT !.on = FALSE, !.playing = FALSE, !.phase = "off", !.height = 0]

KeyOff(v) == ~voices[v].paused /\ voices[v].on /\ Update(v, Released(voices[v]))

SetPause(v, b) == Update(v, [voices[v] EXCEPT !.paused = b])
SetPitch(v, p) == Update(v, [voices[v] EXCEPT !.pitch = p])

\* __sceSasSetADSR and, with the curves it accepts, __sceSasSetADSRmode
Accepted(p) ==
    CASE p = "attack" -> {"increase", "bent", "exp increase"}
      [] p \in {"decay", "release"} -> {"decrease", "exp decrease", "direct"}
      [] p = "sustain" -> Curves
SetADSR(v, p, rate) == Update(v, [voices[v] EXCEPT !.rate[p] = rate, !.envelope = TRUE])
SetSimpleADSR(v, e) ==
    Update(v, [voices[v] EXCEPT !.rate = e.rate, !.curve = e.curve, !.level = e.level,
                                !.envelope = TRUE])
SetADSRmode(v, p, curve) ==
    curve \in Accepted(p) /\ Update(v, [voices[v] EXCEPT !.curve[p] = curve, !.envelope = TRUE])

LevelValid(level) == level <= Top

SetSL(v, level) ==
    LevelValid(level) /\ Update(v, [voices[v] EXCEPT !.level = level, !.envelope = TRUE])

-----------------------------------------------------------------------------
(* mix *)

\* Mutant of LoopIndex: the start of the loop is trusted.
LoopIndexTrusted(v) == v.start

LoopIndex(v) == Lesser(v.start, v.length - 1)

\* The position a sample is taken from: past the end it is the loop's start.
Placed(v) ==
    IF v.position \div One >= v.length /\ v.loop
      THEN [v EXCEPT !.position = LoopIndex(v) * One] ELSE v

\* The two samples that are interpolated.
Indices(v) ==
    LET index == v.position \div One
    IN  {index, IF index + 1 < v.length THEN index + 1
                ELSE IF v.loop THEN LoopIndex(v) ELSE index}

Mixes(v) == v.playing /\ ~v.paused /\ v.length > 0
Over(v) == v.position \div One >= v.length

\* One output sample of a voice.
Core(v) ==
    /\ Mixes(voices[v])
    /\ LET w == Placed(voices[v])
       IN  IF Over(w)
             THEN /\ voices' = [voices EXCEPT ![v].playing = FALSE, ![v].on = FALSE,
                                              ![v].height = 0]
                  /\ UNCHANGED outside
             ELSE /\ voices' = [voices EXCEPT ![v] = [Advanced(w) EXCEPT !.position = @ + w.pitch]]
                  /\ outside' = (outside \/ \E i \in Indices(w) : i >= w.length)
    /\ UNCHANGED vag

SasCalls ==
    \/ \E data \in VagData : GuestLoads(data)
    \/ \E v \in Voices :
         \/ KeyOn(v) \/ KeyOff(v) \/ SetNoise(v)
         \/ \E b \in BOOLEAN : SetVoice(v, b) \/ SetPause(v, b)
         \/ \E size \in PcmSizes, start \in {-1, 0, 1} : SetVoicePCM(v, size, start)
         \/ \E p \in Pitches : SetPitch(v, p)
         \/ \E p \in Phases :
              \/ \E rate \in Rates : SetADSR(v, p, rate)
              \/ \E curve \in Curves : SetADSRmode(v, p, curve)
         \/ \E level \in Levels : SetSL(v, level)
         \/ \E e \in Envelopes : SetSimpleADSR(v, e)

-----------------------------------------------------------------------------
(* Properties *)

(***************************************************************************)
(* The height of an envelope stays between 0 and the maximum, through all  *)
(* curves, rates and levels the stubs accept: it scales the samples.       *)
(***************************************************************************)
SasTypeOK ==
    \A v \in Voices : voices[v].height \in 0..Top /\ voices[v].position \in Nat

(***************************************************************************)
(* Mixing never reads outside of a voice's samples, although a voice that  *)
(* is set again keeps its samples and takes the loop of the data that now  *)
(* stands in memory, and whatever pitch moves the position past the end.   *)
(***************************************************************************)
ReadsInside == ~outside

(***************************************************************************)
(* A voice whose end flag is up is silent and not keyed on: it can be      *)
(* keyed on again, and its envelope height reads 0.                        *)
(***************************************************************************)
StoppedIsSilent ==
    \A v \in Voices : ~voices[v].playing => voices[v].height = 0 /\ ~voices[v].on

\* A release that goes down, of a voice that has samples and is not paused.
GoesDown(v) ==
    /\ v.playing /\ v.phase = "release" /\ ~v.paused /\ v.length > 0
    /\ v.rate["release"] > 0 /\ v.curve["release"] # "direct"

(***************************************************************************)
(* A voice that has been keyed off comes to its end while the guest mixes, *)
(* also along the rounded exponential curve, unless it is keyed on,        *)
(* paused or given another envelope.                                       *)
(***************************************************************************)
ReleaseEnds == \A v \in Voices : GoesDown(voices[v]) ~> ~GoesDown(voices[v])
=============================================================================
