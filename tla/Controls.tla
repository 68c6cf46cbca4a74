------------------------------ MODULE Controls ------------------------------
(***************************************************************************)
(* Keys and controller: what the window's thread records of them, what the *)
(* guest samples (host/windows_frontend.cpp, host/macos_frontend.mm,       *)
(* refract/src/stubs/ctrl).  A key sets its button and a latch that holds  *)
(* until a frame is presented, so that a tap between two samples is seen.  *)
(* The words shared with the guests are atomic one by one, and each access *)
(* to one is a step.                                                       *)
(***************************************************************************)
EXTENDS Integers, FiniteSets

CONSTANTS
    Keys,           \* buttons that are pressed in a behaviour
    PadStates,      \* buttons of the controller that are down when it is read
    Cycles, Modes, Thresholds,      \* values given to the calls that set something
    Axes,           \* positions of a stick
    MaxKeyEvents,   \* bound: keys going down or up, dialogs shown
    MaxSamples      \* bound: samples, presents and settings

Buttons == {"up", "right", "down", "left", "l", "r", "triangle", "circle", "cross", "square",
            "start", "select"}
Directions == {"analogLeft", "analogRight", "analogUp", "analogDown"}

AxisMin == -32768

ControlsAssumption ==
    /\ Keys \subseteq Buttons \cup Directions /\ Cycles \subseteq Nat /\ Modes \subseteq Nat
    /\ Thresholds \subseteq Int /\ PadStates \subseteq SUBSET Buttons
    /\ Axes \subseteq AxisMin..32767
    /\ MaxKeyEvents \in Nat /\ MaxSamples \in Nat

VARIABLES
    held,           \* keys that are down
    buttons,        \* keyboard_buttons and keyboard_analog_directions
    latched,        \* keyboard_latched_buttons
    keyStep,        \* the key whose latch is still to be set, or ""
    covered,        \* a dialog is shown
    reading,        \* what a sample has read so far, or {"idle"}
    sample,         \* the last sample: [buttons, x, y]
    settings,       \* ctrl_state::Settings
    result,         \* what the last of these calls returned
    events, calls   \* bounds

VARIABLES
    since,          \* history: keys pressed since the latch was last cleared
    owed,           \* history: keys the next sample has to show
    may             \* history: keys the sample under way may show

cvars == <<held, buttons, latched, keyStep, covered, reading, sample, settings, result, events,
           calls, since, owed, may>>

Idle == {"idle"}
Centre == 128
Invalid == -1                   \* invalid_value, invalid_mode
Defaults == [cycle |-> 0, mode |-> 0, reset |-> -1, back |-> -1]

ControlsInit ==
    /\ held = {} /\ buttons = {} /\ latched = {} /\ keyStep = "" /\ covered = FALSE
    /\ reading = Idle /\ sample = [buttons |-> {}, x |-> Centre, y |-> Centre]
    /\ settings = Defaults /\ result = 0 /\ events = MaxKeyEvents /\ calls = MaxSamples
    /\ since = {} /\ owed = {} /\ may = {}
-----------------------------------------------------------------------------
(* Tables: keys and controls with what they stand for. *)

windows_update_keyboard_key ==
    {<<"VK_UP", "up">>, <<"VK_RIGHT", "right">>, <<"VK_DOWN", "down">>, <<"VK_LEFT", "left">>,
     <<"Q", "l">>, <<"E", "r">>, <<"I", "triangle">>, <<"L", "circle">>, <<"K", "cross">>,
     <<"J", "square">>, <<"VK_RETURN", "start">>, <<"VK_RSHIFT", "select">>,
     <<"A", "analogLeft">>, <<"D", "analogRight">>, <<"W", "analogUp">>,
     <<"S", "analogDown">>}
macos_update_keyboard_key ==
    {<<126, "up">>, <<124, "right">>, <<125, "down">>, <<123, "left">>, <<12, "l">>,
     <<14, "r">>, <<34, "triangle">>, <<37, "circle">>, <<40, "cross">>, <<38, "square">>,
     <<36, "start">>, <<60, "select">>, <<0, "analogLeft">>, <<2, "analogRight">>,
     <<13, "analogUp">>, <<1, "analogDown">>}
xinput_buttons ==
    {<<"DPAD_UP", "up">>, <<"DPAD_RIGHT", "right">>, <<"DPAD_DOWN", "down">>,
     <<"DPAD_LEFT", "left">>, <<"LEFT_SHOULDER", "l">>, <<"RIGHT_SHOULDER", "r">>,
     <<"Y", "triangle">>, <<"B", "circle">>, <<"A", "cross">>, <<"X", "square">>,
     <<"START", "start">>, <<"BACK", "select">>}
gamepad_buttons ==
    {<<"dpad.up", "up">>, <<"dpad.right", "right">>, <<"dpad.down", "down">>,
     <<"dpad.left", "left">>, <<"leftShoulder", "l">>, <<"rightShoulder", "r">>,
     <<"buttonA", "cross">>, <<"buttonB", "circle">>, <<"buttonX", "square">>,
     <<"buttonY", "triangle">>, <<"buttonMenu", "start">>, <<"buttonOptions", "select">>}
\* The keys of a dialog, of those above: what they do to it.
windows_handle_dialog_key ==
    {<<"VK_LEFT", "left">>, <<"VK_RIGHT", "right">>, <<"VK_UP", "up">>, <<"VK_DOWN", "down">>,
     <<"K", "cross">>, <<"L", "circle">>, <<"J", "square">>}
macos_dialog_keys ==
    {<<123, "left">>, <<124, "right">>, <<125, "down">>, <<126, "up">>, <<40, "cross">>,
     <<37, "circle">>, <<38, "square">>}

\* lround((v / range + 1) * 127.5), half up as it is positive.
Scaled(v, range) == ((v + range) * 255 + range) \div (2 * range)
windows_axis_to_byte(v, deadzone) ==
    CASE -deadzone <= v /\ v <= deadzone -> Centre
      [] v < -deadzone -> Scaled(v, 32768)
      [] v > deadzone  -> Scaled(v, 32767)
\* The framework's own dead zone gives 0.
macos_axis_to_byte(v) == Scaled(v, 32768)
-----------------------------------------------------------------------------
(* The window's thread *)

Event == events > 0 /\ events' = events - 1

\* Mutant of SetLatch: a key that goes down is not latched.
SetNoLatch(b) == UNCHANGED latched
SetLatch(b) == latched' = latched \cup {b}

\* A key goes down, or is reported again: the button, and then the latch.  A
\* dialog takes it for itself.
update_keyboard_mask(b) ==
    /\ Event /\ keyStep = "" /\ held' = held \cup {b}
    /\ IF covered THEN UNCHANGED <<buttons, keyStep, may>>
       ELSE /\ buttons' = buttons \cup {b}
            /\ keyStep' = IF b \in Buttons THEN b ELSE ""
            /\ may' = may \cup {b}
    /\ UNCHANGED <<latched, covered, reading, sample, settings, result, calls, since, owed>>
update_keyboard_button ==
    /\ keyStep # "" /\ keyStep' = "" /\ SetLatch(keyStep)
    /\ since' = since \cup {keyStep} /\ owed' = owed \cup {keyStep} /\ may' = may \cup {keyStep}
    /\ UNCHANGED <<held, buttons, covered, reading, sample, settings, result, events, calls>>

\* A dialog that is shown swallows it.
KeyUp(b) ==
    /\ Event /\ keyStep = "" /\ b \in held /\ held' = held \ {b}
    /\ buttons' = IF covered THEN buttons ELSE buttons \ {b}
    /\ UNCHANGED <<latched, keyStep, covered, reading, sample, settings, result, calls, since, owed,
                   may>>

\* A dialog comes up: no key is down for the game any more.
CoverWindow ==
    /\ Event /\ keyStep = "" /\ ~covered /\ covered' = TRUE
    /\ buttons' = {} /\ latched' = {} /\ since' = {} /\ owed' = {}
    /\ UNCHANGED <<held, keyStep, reading, sample, settings, result, calls, may>>
UncoverWindow ==
    /\ covered /\ covered' = FALSE /\ keyStep = ""
    /\ UNCHANGED <<held, buttons, latched, keyStep, reading, sample, settings, result, events, calls,
                   since, owed, may>>
-----------------------------------------------------------------------------
(* The guests *)

Call == calls > 0 /\ calls' = calls - 1

\* What a direction and its opposite come to.
Deflection(d, less, more) ==
    Centre + 127 * ((IF more \in d THEN 1 ELSE 0) - (IF less \in d THEN 1 ELSE 0))

\* sceCtrlReadBufferPositive and sceCtrlPeekBufferPositive: first the buttons...
controller_state ==
    /\ Call /\ reading = Idle
    /\ IF covered
         THEN sample' = [buttons |-> {}, x |-> Centre, y |-> Centre] /\ UNCHANGED <<reading, may>>
         ELSE reading' = buttons /\ may' = held \cup buttons \cup since /\ UNCHANGED sample
    /\ UNCHANGED <<held, buttons, latched, keyStep, covered, settings, result, events, since, owed>>
\* ... and then the latch, which stays; keys decide the stick before the
\* controller does.
StickBytes == {windows_axis_to_byte(v, 7849) : v \in Axes} \cup {macos_axis_to_byte(v) : v \in Axes}
ReadLatch ==
    /\ reading # Idle /\ reading' = Idle
    /\ \E stick \in StickBytes, pad \in PadStates :
         LET directions == reading \cap Directions
             keyed(less, more) == IF directions = {} THEN stick
                                  ELSE Deflection(directions, less, more)
         IN  sample' = [buttons |-> (reading \cap Buttons) \cup latched \cup pad,
                        x |-> keyed("analogLeft", "analogRight"),
                        y |-> keyed("analogUp", "analogDown")]
    /\ owed' = {}
    /\ UNCHANGED <<held, buttons, latched, keyStep, covered, settings, result, events, calls, since,
                   may>>

\* present_ge_frame.
PresentFrame ==
    /\ Call /\ reading = Idle
    /\ latched' = {} /\ since' = {} /\ owed' = {}
    /\ UNCHANGED <<held, buttons, keyStep, covered, reading, sample, settings, result, events, may>>

\* Refused, or the value is set and the old one returned.
Setting(valid, new, old) ==
    /\ Call /\ reading = Idle
    /\ settings' = IF valid THEN new ELSE settings
    /\ result' = IF valid THEN old ELSE Invalid
    /\ UNCHANGED <<held, buttons, latched, keyStep, covered, reading, sample, events, since, owed,
                   may>>
SamplingCycles == {0} \cup 5555..20000
set_sampling_cycle(c) ==
    Setting(c \in SamplingCycles, [settings EXCEPT !.cycle = c], settings.cycle)
set_sampling_mode(m) ==
    Setting(m <= 1, [settings EXCEPT !.mode = m], settings.mode)
set_idle_cancel_threshold(reset, back) ==
    Setting(reset \in -1..128 /\ back \in -1..128,
            [settings EXCEPT !.reset = reset, !.back = back], 0)

ControlsNext ==
    \/ \E b \in Keys : update_keyboard_mask(b) \/ KeyUp(b)
    \/ update_keyboard_button \/ CoverWindow \/ UncoverWindow
    \/ controller_state \/ ReadLatch \/ PresentFrame 
    \/ \E c \in Cycles : set_sampling_cycle(c)
    \/ \E m \in Modes : set_sampling_mode(m)
    \/ \E reset, back \in Thresholds : set_idle_cancel_threshold(reset, back)
-----------------------------------------------------------------------------
ControlsTypeOK ==
    /\ held \subseteq Keys /\ buttons \subseteq Keys /\ latched \subseteq Buttons
    /\ covered \in BOOLEAN /\ events \in 0..MaxKeyEvents /\ calls \in 0..MaxSamples
    /\ sample.x \in 0..255 /\ sample.y \in 0..255
    /\ settings.cycle \in SamplingCycles /\ settings.mode \in 0..1
    /\ settings.reset \in -1..128 /\ settings.back \in -1..128

(***************************************************************************)
(* A tap that is over before the guest looks is seen by its next sample,   *)
(* as long as no frame is presented in between: a present clears the latch *)
(* although nobody has looked.                                             *)
(***************************************************************************)
TapSeen == reading = Idle /\ ~covered => owed \subseteq latched

\* A sample shows only keys that were down while it was taken or were pressed
\* since the last frame; a dialog leaves none behind.
NoPhantomKeys ==
    /\ buttons \subseteq held
    /\ reading # Idle => reading \subseteq may
    /\ latched \subseteq since

\* Once no key is on its way, a key that went down in the game's sight and
\* still is shows in every sample.
HeldKeysShow ==
    \A b \in held \cap Buttons : b \in since /\ keyStep = "" => b \in buttons \cup latched

\* Both platforms know the same buttons, each under one key, and a dialog's
\* keys mean the buttons they mean for the game; the stick rests at 128,
\* reaches both ends and never turns back.
OneKeyEach(t) ==
    {p[2] : p \in t} = Buttons \cup Directions /\ \A p, q \in t : p[1] = q[1] => p = q
TablesAgree ==
    /\ OneKeyEach(windows_update_keyboard_key) /\ OneKeyEach(macos_update_keyboard_key)
    /\ {p[2] : p \in xinput_buttons} = Buttons /\ {p[2] : p \in gamepad_buttons} = Buttons
    /\ windows_handle_dialog_key \subseteq windows_update_keyboard_key
    /\ macos_dialog_keys \subseteq macos_update_keyboard_key
    /\ \A v, w \in Axes : v <= w =>
         /\ windows_axis_to_byte(v, 7849) <= windows_axis_to_byte(w, 7849)
         /\ macos_axis_to_byte(v) <= macos_axis_to_byte(w)
    /\ windows_axis_to_byte(0, 7849) = Centre /\ macos_axis_to_byte(0) = Centre
    /\ windows_axis_to_byte(-32768, 7849) = 0 /\ windows_axis_to_byte(32767, 7849) = 255

ControlsSound == TapSeen /\ NoPhantomKeys /\ HeldKeysShow /\ TablesAgree
=============================================================================
