--------------------------- MODULE UtilityDialogs ---------------------------
(***************************************************************************)
(* The system dialogs: the guest's calls (refract/src/stubs/utility), what *)
(* they post to the window's thread (host/windows_frontend.cpp and         *)
(* host/macos_frontend.mm), the dialog that is shown (DialogFrontend,      *)
(* host/desktop_dialogs.cpp) and the keys and controller that answer it.   *)
(*                                                                         *)
(* Calls are atomic: guests hold the CPU, and what the window's thread and *)
(* a call share is behind a mutex.  Messages are handled in the order they *)
(* were posted.  Of the keyboard dialog's text only its length is kept; a  *)
(* key and the button it stands for have one name.  Cross confirms.        *)
(*                                                                         *)
(* DialogFrontend keeps the editors and keys of every keyboard dialog it   *)
(* has built, and Qt deletes them with the dialog they are in once that is *)
(* closed (WA_DeleteOnClose).  Using one afterwards is undefined: dangling *)
(* says that it has been done, and what the program does from there on is  *)
(* not followed.                                                           *)
(***************************************************************************)
EXTENDS Integers, Sequences, FiniteSets

CONSTANTS
    None,           \* no utility, no dialog, no result
    Platform,       \* "windows" or "macos"
    Items,          \* saves to choose from
    OskKeys,        \* the keys of the on-screen keyboard, in a row
    Limit,          \* field.limit: the longest text, 0 for none
    MaxDialogs,     \* bound: dialogs
    Pressable,      \* buttons and keys the user has, <<"pad", b>> and <<"key", b>>
    MaxInputs,      \* bound: keys and buttons pressed or released
    MaxPosted,      \* bound: messages not handled yet
    Strays          \* whether the guest shuts down what it did not start

Utilities == {"savedata", "message", "osk"}
Buttons == {"confirm", "cancel", "start", "right"}

DialogsAssumption ==
    /\ None \notin Utilities /\ None \notin Nat
    /\ Platform \in {"windows", "macos"} /\ Items \in Nat \ {0} /\ Limit \in Nat
    /\ OskKeys \in Seq({"letter", "back", "next", "done"}) /\ OskKeys # <<>>
    /\ MaxDialogs \in Nat /\ MaxInputs \in Nat /\ MaxPosted \in Nat
    /\ Pressable \subseteq {"pad", "key"} \X Buttons /\ Strays \in BOOLEAN

VARIABLES
    active,         \* active_utility
    status,         \* *_status of each utility: 0 none, 1 initialised, 2 visible,
                    \* 3 finished, 4 shutting down
    dialogId,       \* *_dialog_id of each utility
    silent,         \* savedata without a dialog (savedata_dialog_presented)
    nextId,         \* next_dialog_id
    told,           \* what the guest's parameters say of the answer
    waiting,        \* pending_dialog (Windows)
    posted,         \* messages to the window's thread
    dialog,         \* model: the dialog shown
    answer,         \* result of a dialog that was completed
    editors,        \* editors, each of the dialog it was made for (and osk_buttons)
    dangling,       \* model: one of a dialog that is closed has been used
    chosen,         \* selected_item or selected_key
    field,          \* selected_field
    pad, keys,      \* the buttons and the keys that are down
    previous,       \* previous_dialog_buttons
    armed,          \* dialog_controller_armed
    keyboard,       \* keyboard_buttons
    inputs          \* presses and releases left (bounded by MaxInputs)

VARIABLES
    given,          \* history: the user's answer of each dialog
    typed,          \* history: the length of the text typed in this dialog
    held,           \* history: what is down since before the dialog came up
    surprised,      \* history: the devices with which such a one has answered
    stray           \* history: a utility that was not started was shut down

calls  == <<active, status, dialogId, silent, nextId, told>>
widget == <<dialog, answer, editors, dangling, chosen, field, given, typed, surprised>>
input  == <<pad, keys, previous, armed, keyboard, inputs, held>>
uvars  == <<calls, waiting, posted, widget, input, stray>>

Untold == [result |-> "none", item |-> 0, text |-> 0, from |-> None]

DialogsInit ==
    /\ active = None /\ status = [u \in Utilities |-> 0]
    /\ dialogId = [u \in Utilities |-> None] /\ silent = FALSE
    /\ nextId = 1 /\ told = [u \in Utilities |-> Untold]
    /\ waiting = None /\ posted = <<>>
    /\ dialog = None /\ answer = None /\ editors = <<>> /\ dangling = FALSE /\ chosen = 0 /\ field = 0
    /\ pad = {} /\ keys = {} /\ previous = {} /\ armed = FALSE /\ keyboard = {}
    /\ inputs = MaxInputs
    /\ given = <<>> /\ typed = 0 /\ held = {} /\ surprised = {} /\ stray = FALSE
-----------------------------------------------------------------------------
(* Host calls of the guest. *)

Post(m) == Len(posted) < MaxPosted /\ posted' = Append(posted, m)

Windows == Platform = "windows"

\* On Windows the model waits where a later call replaces it; on macOS it
\* travels with the message.
windows_present_dialog(model) ==
    Windows /\ Post([kind |-> "present"]) /\ waiting' = model
macos_present_dialog(model) ==
    ~Windows /\ Post([kind |-> "present", model |-> model]) /\ UNCHANGED waiting
present_dialog(model) == windows_present_dialog(model) \/ macos_present_dialog(model)

windows_dismiss_dialog(id) ==
    /\ Windows /\ Post([kind |-> "dismiss", id |-> id])
    /\ waiting' = IF waiting # None /\ waiting.id = id THEN None ELSE waiting
macos_dismiss_dialog(id) ==
    ~Windows /\ Post([kind |-> "dismiss", id |-> id]) /\ UNCHANGED waiting
dismiss_dialog(id) == windows_dismiss_dialog(id) \/ macos_dismiss_dialog(id)

IsResult(id) == answer # None /\ answer.id = id
-----------------------------------------------------------------------------
(* Calls of the guest, the same for the three utilities. *)

\* Only one utility is in use.
InitStart(u, quiet, first) ==
    /\ active = None /\ nextId <= MaxDialogs
    /\ active' = u
    /\ dialogId' = [dialogId EXCEPT ![u] = nextId] /\ nextId' = nextId + 1
    /\ status' = [status EXCEPT ![u] = 1]
    /\ silent' = quiet
    /\ told' = [told EXCEPT ![u] = Untold]
    /\ IF quiet THEN UNCHANGED <<waiting, posted>>
                ELSE present_dialog([id |-> nextId, kind |-> u, first |-> first])
    /\ UNCHANGED <<widget, input, stray>>

sceUtilityMsgDialogInitStart == InitStart("message", FALSE, 0)
sceUtilityOskInitStart == InitStart("osk", FALSE, 0)
\* Modes 2 to 7 have a dialog; the guest chooses the save that is offered first.
sceUtilitySavedataInitStart ==
    \/ InitStart("savedata", TRUE, 0)
    \/ \E first \in 0..(Items - 1) : InitStart("savedata", FALSE, first)

\* Mutant of GetStatus: the utility's turn ends with its shutdown's start.
GetStatusEarly(u) ==
    /\ status[u] # 0
    /\ status' = [status EXCEPT ![u] = CASE @ = 1 -> 2 [] @ = 4 -> 0 [] OTHER -> @]
    /\ active' = IF status[u] \in {3, 4} THEN None ELSE active
    /\ UNCHANGED <<dialogId, silent, nextId, told, waiting, posted, widget, input, stray>>

GetStatus(u) ==
    /\ status[u] # 0
    /\ status' = [status EXCEPT ![u] = CASE @ = 1 -> 2 [] @ = 4 -> 0 [] OTHER -> @]
    /\ active' = IF status[u] = 4 THEN None ELSE active
    /\ UNCHANGED <<dialogId, silent, nextId, told, waiting, posted, widget, input, stray>>

sceUtilityMsgDialogGetStatus == GetStatus("message")
sceUtilityOskGetStatus == GetStatus("osk")
sceUtilitySavedataGetStatus == GetStatus("savedata")

\* The text is copied as far as the guest's buffer goes.
Answered(u, a) ==
    [result |-> IF a.cancelled THEN "cancelled" ELSE "ok", item |-> a.item,
     text |-> IF u = "osk" THEN a.texts[1] ELSE 0, from |-> dialogId[u]]

\* A visible utility is finished.
Finished(u, what) ==
    /\ status[u] = 2 /\ status' = [status EXCEPT ![u] = 3]
    /\ told' = [told EXCEPT ![u] = what]
    /\ UNCHANGED <<active, dialogId, silent, nextId, waiting, posted, dialog, editors, dangling,
                   chosen, field, given, typed, surprised, input, stray>>

\* It asks for the result of its dialog, and without one goes on.
Update(u) == IsResult(dialogId[u]) /\ Finished(u, Answered(u, answer)) /\ answer' = None

sceUtilityMsgDialogUpdate == Update("message")
sceUtilityOskUpdate == Update("osk")
sceUtilitySavedataUpdate ==
    \/ ~silent /\ Update("savedata")
    \/ silent /\ Finished("savedata", [Untold EXCEPT !.result = "ok"]) /\ UNCHANGED answer

\* Whatever its status.
ShutdownStart(u) ==
    /\ status[u] \notin {0, 4} \/ (Strays /\ status[u] = 0)
    /\ dismiss_dialog(dialogId[u])
    /\ status' = [status EXCEPT ![u] = 4]
    /\ stray' = (stray \/ status[u] = 0)
    /\ UNCHANGED <<active, dialogId, silent, nextId, told, widget, input>>

sceUtilityMsgDialogShutdownStart == ShutdownStart("message")
sceUtilityOskShutdownStart == ShutdownStart("osk")
sceUtilitySavedataShutdownStart == ShutdownStart("savedata")

sceUtilityMsgDialogAbort ==
    /\ status["message"] # 0
    /\ dismiss_dialog(dialogId["message"])
    /\ told' = [told EXCEPT !["message"] = [Untold EXCEPT !.result = "cancelled"]]
    /\ status' = [status EXCEPT !["message"] = 3]
    /\ UNCHANGED <<active, dialogId, silent, nextId, widget, input, stray>>
-----------------------------------------------------------------------------
(* The dialog: each of its operations is a function of what is shown. *)

Shown == [dialog |-> dialog, answer |-> answer, editors |-> editors, dangling |-> dangling,
          chosen |-> chosen, field |-> field, given |-> given, typed |-> typed]
Becomes(w) ==
    /\ dialog' = w.dialog /\ answer' = w.answer /\ editors' = w.editors /\ dangling' = w.dangling
    /\ chosen' = w.chosen /\ field' = w.field /\ given' = w.given /\ typed' = w.typed

\* An editor lives as long as its dialog is open.
Alive(w, k) == w.dialog # None /\ w.editors[k].id = w.dialog.id

\* The texts of all editors there have been: they are never forgotten.
complete(w, cancelled) ==
    IF w.dialog = None THEN w
    ELSE LET item == IF w.dialog.kind = "savedata" THEN w.chosen ELSE 0
         IN  [w EXCEPT
               !.answer = [id |-> w.dialog.id, cancelled |-> cancelled, item |-> item,
                           texts |-> [k \in DOMAIN w.editors |-> w.editors[k].text]],
               !.given = Append(@, [id |-> w.dialog.id, cancelled |-> cancelled, item |-> item,
                                    text |-> w.typed]),
               !.dangling = @ \/ \E k \in DOMAIN w.editors : ~Alive(w, k),
               !.dialog = None]

\* build_osk highlights the chosen one of all keys there have been.
present(w, model) ==
    [complete(w, TRUE) EXCEPT
       !.dialog = model, !.chosen = model.first, !.field = 0, !.typed = 0,
       !.dangling = @ \/ (model.kind = "osk" /\ w.editors # <<>>),
       !.editors = IF model.kind = "osk" THEN Append(@, [id |-> model.id, text |-> 0]) ELSE @]

\* The keys of the dialog and those of a keyboard, whatever dialog is shown.
insert(w) ==
    IF w.dialog = None \/ w.editors = <<>> THEN w
    ELSE IF ~Alive(w, w.field + 1) THEN [w EXCEPT !.dangling = TRUE]
    ELSE LET full == Limit # 0 /\ w.editors[w.field + 1].text >= Limit
         IN  IF full THEN w ELSE [w EXCEPT !.editors[w.field + 1].text = @ + 1,
                                           !.typed = @ + 1]

backspace(w) ==
    IF w.editors = <<>> THEN w
    ELSE IF ~Alive(w, w.field + 1) THEN [w EXCEPT !.dangling = TRUE]
    ELSE IF w.editors[w.field + 1].text = 0 THEN w
    ELSE [w EXCEPT !.editors[w.field + 1].text = @ - 1, !.typed = @ - 1]

activate_osk_key(w) ==
    CASE OskKeys[w.chosen + 1] = "letter" -> insert(w)
      [] OskKeys[w.chosen + 1] = "back"   -> backspace(w)
      [] OskKeys[w.chosen + 1] = "next"   -> [w EXCEPT !.field = (@ + 1) % Len(w.editors)]
      [] OskKeys[w.chosen + 1] = "done"   -> complete(w, FALSE)

\* To the right, as far as there is something.
move(w) ==
    LET last == CASE w.dialog.kind = "osk" -> Len(OskKeys) - 1
                  [] w.dialog.kind = "savedata" -> Items - 1
                  [] OTHER -> 0
    IN  [w EXCEPT !.chosen = IF @ < last THEN @ + 1 ELSE @]

handle_buttons(w, pressed) ==
    IF w.dialog = None THEN w
    ELSE LET osk   == w.dialog.kind = "osk"
             moved == IF "right" \in pressed THEN move(w) ELSE w
             done  == CASE ~("confirm" \in pressed) -> moved
                        [] osk -> activate_osk_key(moved)
                        [] OTHER -> complete(moved, FALSE)
         IN  CASE osk /\ "start" \in pressed -> complete(done, FALSE)
               [] "cancel" \in pressed /\ (osk \/ "confirm" \notin pressed) -> complete(done, TRUE)
               [] OTHER -> done
-----------------------------------------------------------------------------
(* The window's thread. *)

Cleared == keyboard' = {}

Disarmed == armed' = FALSE

Present(model) ==
    /\ Cleared /\ Disarmed
    /\ previous' = {}
    /\ Becomes(present(Shown, model))
    /\ held' = {<<"pad", b>> : b \in pad} \cup {<<"key", b>> : b \in keys}

\* The windows messages and the main queue are handled in their order.
process_dialog(m) ==
    /\ Windows /\ m.kind = "present" /\ waiting' = None
    /\ IF waiting # None THEN Present(waiting)
       ELSE UNCHANGED <<dialog, answer, editors, dangling, chosen, field, given, typed,
                        keyboard, armed, previous, held>>
MainQueuePresents(m) ==
    ~Windows /\ m.kind = "present" /\ Present(m.model) /\ UNCHANGED waiting
dismiss(m) ==
    /\ m.kind = "dismiss"
    /\ dialog' = IF dialog # None /\ dialog.id = m.id THEN None ELSE dialog
    /\ UNCHANGED <<waiting, answer, editors, dangling, chosen, field, given, typed,
                   keyboard, armed, previous, held>>

HandleMessage ==
    /\ posted # <<>> /\ posted' = Tail(posted)
    /\ LET m == Head(posted) IN process_dialog(m) \/ MainQueuePresents(m) \/ dismiss(m)
    /\ UNCHANGED <<calls, surprised, pad, keys, inputs, stray>>

\* Sixty times a second the controller is read; its buttons count only after
\* none of them was down.
DialogTimer ==
    /\ IF dialog = None
         THEN /\ armed \/ previous # {}
              /\ previous' = {} /\ armed' = FALSE
              /\ UNCHANGED widget
         ELSE /\ previous # pad \/ (~armed /\ pad = {})
              /\ previous' = pad
              /\ armed' = (armed \/ pad = {})
              /\ LET pressed == IF armed THEN pad \ previous ELSE {}
                     w == handle_buttons(Shown, pressed)
                     old == \E b \in pressed : <<"pad", b>> \in held
                 IN  Becomes(w) /\ surprised' = IF old /\ w.dialog = None THEN surprised \cup {"pad"} ELSE surprised
    /\ UNCHANGED <<calls, waiting, posted, pad, keys, keyboard, inputs, held, stray>>

\* What a key does to the dialog: Return accepts, letters are text.  Windows
\* takes no key that is reported again while it is down.
DialogKey(b) ==
    IF b = "start" THEN complete(Shown, FALSE) ELSE handle_buttons(Shown, {b})
handle_dialog_key(b, repeat) == IF repeat THEN Shown ELSE DialogKey(b)
KeyboardMonitor(b, repeat) == DialogKey(b)

\* A key goes down, or is reported again.
Key(b, repeat) ==
    /\ IF repeat THEN b \in keys ELSE b \notin keys
    /\ keys' = keys \cup {b}
    /\ IF dialog = None
         THEN keyboard' = keyboard \cup {b} /\ UNCHANGED widget
         ELSE /\ UNCHANGED keyboard
              /\ LET w == IF Windows THEN handle_dialog_key(b, repeat) ELSE KeyboardMonitor(b, repeat)
                 IN  /\ Becomes(w)
                     /\ surprised' = IF <<"key", b>> \in held /\ w.dialog = None
                                       THEN surprised \cup {"key"} ELSE surprised

\* While a dialog is shown, the game is not told of a key that goes up.
KeyUp(b) ==
    /\ b \in keys /\ keys' = keys \ {b}
    /\ keyboard' = IF dialog = None THEN keyboard \ {b} ELSE keyboard
    /\ UNCHANGED widget

UseKeyboard(b) ==
    /\ inputs > 0 /\ inputs' = inputs - 1
    /\ \/ \E repeat \in BOOLEAN : Key(b, repeat) /\ UNCHANGED held
       \/ KeyUp(b) /\ held' = held \ {<<"key", b>>}
    /\ UNCHANGED <<calls, waiting, posted, pad, previous, armed, stray>>

\* handle_text and handle_backspace: letters and the erasing of them.
TypeText ==
    /\ dialog # None /\ inputs > 0 /\ inputs' = inputs - 1
    /\ Becomes(insert(Shown)) \/ Becomes(backspace(Shown))
    /\ UNCHANGED <<calls, waiting, posted, surprised, pad, keys, previous, armed, keyboard, held, stray>>

UseController(b) ==
    /\ inputs > 0 /\ inputs' = inputs - 1
    /\ IF b \in pad THEN pad' = pad \ {b} /\ held' = held \ {<<"pad", b>>}
                    ELSE pad' = pad \cup {b} /\ UNCHANGED held
    /\ UNCHANGED <<calls, waiting, posted, widget, keys, previous, armed, keyboard, stray>>

\* The buttons of each kind of dialog, as what a click on one makes of it: a
\* save and its two answers, the answers of a message, none of which cancels
\* it, the keys of the keyboard.
build_savedata(w) ==
    {complete(w, FALSE), complete(w, TRUE)} \cup {[w EXCEPT !.chosen = k] : k \in 0..(Items - 1)}
build_generic(w) == {complete(w, FALSE)}
build_osk(w) == {activate_osk_key([w EXCEPT !.chosen = k]) : k \in 0..(Len(OskKeys) - 1)}
Click ==
    /\ dialog # None
    /\ \E w \in CASE dialog.kind = "savedata" -> build_savedata(Shown)
                  [] dialog.kind = "osk"      -> build_osk(Shown)
                  [] OTHER                    -> build_generic(Shown) : Becomes(w)
    /\ UNCHANGED <<calls, waiting, posted, surprised, input, stray>>

DialogCalls ==
    \/ sceUtilityMsgDialogInitStart \/ sceUtilityOskInitStart \/ sceUtilitySavedataInitStart
    \/ sceUtilityMsgDialogShutdownStart \/ sceUtilityOskShutdownStart
    \/ sceUtilitySavedataShutdownStart \/ sceUtilityMsgDialogAbort
DialogPolls ==
    \/ sceUtilityMsgDialogGetStatus \/ sceUtilityOskGetStatus \/ sceUtilitySavedataGetStatus
    \/ sceUtilityMsgDialogUpdate \/ sceUtilityOskUpdate \/ sceUtilitySavedataUpdate
DialogInput ==
    \/ \E b \in Buttons : \/ <<"key", b>> \in Pressable /\ UseKeyboard(b)
                          \/ <<"pad", b>> \in Pressable /\ UseController(b)
    \/ TypeText \/ Click
-----------------------------------------------------------------------------
DialogsTypeOK ==
    /\ active \in Utilities \cup {None} /\ status \in [Utilities -> 0..4]
    /\ dialogId \in [Utilities -> (1..MaxDialogs) \cup {None}] /\ nextId \in 1..(MaxDialogs + 1)
    /\ pad \subseteq Buttons /\ keys \subseteq Buttons /\ previous \subseteq Buttons
    /\ keyboard \subseteq Buttons /\ armed \in BOOLEAN /\ inputs \in 0..MaxInputs
    /\ surprised \subseteq {"pad", "key"} /\ stray \in BOOLEAN /\ silent \in BOOLEAN
    /\ dangling \in BOOLEAN

(***************************************************************************)
(* A guest that shuts down only what it has started has one utility at a   *)
(* time, and once the window's thread has caught up no dialog is left of   *)
(* one that is not in use (active_utility, pending_dialog and the model    *)
(* belong to three threads and two mutexes).                               *)
(***************************************************************************)
OneUtility ==
    ~stray =>
      /\ \A u \in Utilities : status[u] # 0 <=> active = u
      /\ posted = <<>> /\ dialog # None =>
           \E u \in Utilities : status[u] \in {1, 2} /\ dialogId[u] = dialog.id

(***************************************************************************)
(* A utility is told the user's answer to its own dialog: not to one that  *)
(* was open before it, whose answer nobody has asked for; and a keyboard   *)
(* dialog's answer is the text that was typed in it.                       *)
(***************************************************************************)
TellsOwnAnswer ==
    \A u \in Utilities :
      told[u].from # None =>
        \E k \in DOMAIN given :
          /\ given[k].id = told[u].from
          /\ told[u].result = IF given[k].cancelled THEN "cancelled" ELSE "ok"
          /\ told[u].item = given[k].item
          /\ u = "osk" => told[u].text = given[k].text

(***************************************************************************)
(* A button that was down when the dialog came up does not answer it: it   *)
(* has to be released first.  On macOS this is not so of keys, which are   *)
(* reported again while they are down.                                     *)
(***************************************************************************)
HeldNeverAnswers == surprised \subseteq IF Windows THEN {} ELSE {"key"}

(***************************************************************************)
(* The game sees no key that is up: a dialog swallows the release of a key *)
(* that was down before it came up.                                        *)
(***************************************************************************)
NoKeySticks == keyboard \subseteq keys

(***************************************************************************)
(* All of this up to the use of a deleted editor or key.  That takes a     *)
(* dialog that comes after one of a keyboard: another keyboard when it is  *)
(* built, any other when a letter is typed over it or when it is answered. *)
(***************************************************************************)
DialogsSound ==
    ~dangling => OneUtility /\ TellsOwnAnswer /\ HeldNeverAnswers /\ NoKeySticks
=============================================================================
