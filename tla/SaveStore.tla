------------------------------ MODULE SaveStore ------------------------------
(***************************************************************************)
(* The directory of one save game: what sceUtilitySavedataUpdate does with *)
(* it when the guest saves, loads, deletes or lists                        *)
(* (refract/src/stubs/utility/sceUtilitySavedataUpdate.cpp).  A save is    *)
(* written to a directory beside it, the old one is moved out of the way,  *)
(* the new one moved in, and the old one removed.                          *)
(*                                                                         *)
(* A save consists of what the guest has given: the payload under a name   *)
(* it chooses, PARAM.SFO, and artwork if its size is not 0.  A directory   *)
(* is what its files hold: the number of the save they were written by.    *)
(* Every call to the file system may fail, and the program may be killed   *)
(* between two of them; a directory is removed file by file.               *)
(***************************************************************************)
EXTENDS Integers, FiniteSets

CONSTANTS
    Absent,         \* no directory
    MaxSaves,       \* bound: saves the guest makes
    Payloads,       \* bound: what the payload of each may be called
    MaxStoreFaults  \* bound: calls that fail and kills

Names == {"data", "other"}                      \* file_name: what the payload is called
Files == Names \cup {"asset", "sfo"}            \* and ICON0.PNG..., PARAM.SFO
Dirs == {"save", "staging", "backup"}           \* the save, .refract.tmp, .refract.backup
Half == 0                                       \* a file whose writing was cut short

\* What a directory can hold.
Contents == UNION {[S -> 0..MaxSaves] : S \in SUBSET Files}

StoreAssumption ==
    /\ MaxSaves \in Nat /\ MaxStoreFaults \in Nat /\ Absent \notin Contents
    /\ Payloads \in [1..MaxSaves -> SUBSET Names]

VARIABLES
    dirs,           \* each directory: Absent, or its files with their content
    spc,            \* where the call is
    existed,        \* had_existing
    reported,       \* the result the guest was given last
    number,         \* saves begun
    pieces,         \* the files each save consists of
    failed,         \* a stream, an asset or the directory was not good
    spareFaults     \* faults left (bounded by MaxStoreFaults)

VARIABLES
    kept,           \* history: the last save reported to have been made
    before,         \* history: what the save directory held when the save that is being
                    \* made, or could not be made, began
    stale,          \* history: the saves written among files they do not replace
    unmoved,        \* history: the old save could not be moved away
    cut             \* history: killed while the save itself was being removed

svars == <<dirs, spc, existed, reported, number, pieces, failed, spareFaults, kept, before, stale, unmoved, cut>>
told == <<existed, reported, number, pieces, kept, before, unmoved, cut>>
sides == <<told, failed, stale>>

Empty == [f \in {} |-> Half]

\* All of save n is there and, but for what it was written among, nothing else.
Holds(d, n) ==
    /\ dirs[d] # Absent /\ pieces[n] \subseteq DOMAIN dirs[d]
    /\ \A f \in pieces[n] : dirs[d][f] = n
    /\ n \notin stale => DOMAIN dirs[d] = pieces[n]
Whole(d) == \E n \in 1..number : Holds(d, n)

StoreInit ==
    /\ dirs = [d \in Dirs |-> Absent] /\ spc = "idle" /\ existed = FALSE
    /\ reported = "none" /\ number = 0 /\ spareFaults = MaxStoreFaults
    /\ pieces = [n \in 1..MaxSaves |-> {}] /\ failed = FALSE
    /\ kept = 0 /\ before = Absent /\ stale = {} /\ unmoved = FALSE /\ cut = FALSE

At(p) == spc = p
Goto(p) == spc' = p
Fault == spareFaults > 0 /\ spareFaults' = spareFaults - 1
Fine == UNCHANGED spareFaults
SetDir(d, content) == dirs' = [dirs EXCEPT ![d] = content]
With(d, f, v) == [g \in DOMAIN dirs[d] \cup {f} |-> IF g = f THEN v ELSE dirs[d][g]]
-----------------------------------------------------------------------------
(* std::filesystem *)

\* remove_all: a file at a time, then the directory.
RemoveStep(d) ==
    /\ dirs[d] # Absent
    /\ IF DOMAIN dirs[d] = {} THEN SetDir(d, Absent)
       ELSE \E f \in DOMAIN dirs[d] :
              SetDir(d, [g \in DOMAIN dirs[d] \ {f} |-> dirs[d][g]])

\* It may also give up.
Removing(d, here, then) ==
    \/ At(here) /\ RemoveStep(d) /\ Goto(here) /\ Fine
    \/ At(here) /\ dirs[d] = Absent /\ Goto(then) /\ Fine /\ UNCHANGED dirs
    \/ At(here) /\ dirs[d] # Absent /\ Goto(then) /\ Fault /\ UNCHANGED dirs

Renamed(from, to) == [dirs EXCEPT ![to] = dirs[from], ![from] = Absent]
-----------------------------------------------------------------------------
(* Saving *)

\* The artwork is left out where its size is 0.
Save ==
    /\ At("idle") /\ number < MaxSaves /\ number' = number + 1
    /\ \E name \in Payloads[number + 1], artwork \in SUBSET {"asset"} :
         pieces' = [pieces EXCEPT ![number + 1] = {name, "sfo"} \cup artwork]
    /\ failed' = FALSE /\ existed' = FALSE /\ reported' = "none"
    /\ before' = dirs["save"] /\ Goto("clear")
    /\ UNCHANGED <<dirs, spareFaults, kept, stale, unmoved, cut>>

\* Its error is cleared.
ClearStaging == Removing("staging", "clear", "create") /\ UNCHANGED sides

\* create_directories: what is left of an old one stays in it.  Where there is
\* none and none can be made, no stream is opened.
Create ==
    /\ At("create")
    /\ \/ Fine /\ SetDir("staging", IF dirs["staging"] = Absent THEN Empty ELSE dirs["staging"])
          /\ Goto("data") /\ UNCHANGED failed
       \/ Fault /\ UNCHANGED dirs /\ failed' = TRUE
          /\ Goto(IF dirs["staging"] = Absent THEN "abandon" ELSE "data")
    /\ stale' = IF dirs["staging"] # Absent /\ ~(DOMAIN dirs["staging"] \subseteq pieces[number])
                  THEN stale \cup {number} ELSE stale
    /\ UNCHANGED told

\* A file is opened, empty, before it is written; a stream that is not good is
\* noticed when all have been closed.
Opens(f, here, then) ==
    /\ At(here)
    /\ \/ Fine /\ Goto(then.opened) /\ SetDir("staging", With("staging", f, Half)) /\ UNCHANGED failed
       \/ Fault /\ Goto(then.closed) /\ UNCHANGED dirs /\ failed' = TRUE
Writes(f, here, then) ==
    /\ At(here) /\ Goto(then)
    /\ \/ Fine /\ SetDir("staging", With("staging", f, number)) /\ UNCHANGED failed
       \/ Fault /\ SetDir("staging", With("staging", f, Half)) /\ failed' = TRUE

\* write_guest_file: an asset of size 0 is passed over, one that is not in the
\* guest's memory fails.
PassOver ==
    /\ At("asset") /\ Goto("sfo") /\ Fine /\ UNCHANGED dirs
    /\ failed' = (failed \/ "asset" \in pieces[number])

Writing == {"data", "dataOpen", "asset", "assetOpen", "sfo", "sfoOpen"}
WriteFiles ==
    /\ spc \in Writing
    /\ \/ \E f \in pieces[number] \cap Names :
             \/ Opens(f, "data", [opened |-> "dataOpen", closed |-> "asset"])
             \/ Writes(f, "dataOpen", "asset")
       \/ PassOver
       \/ /\ "asset" \in pieces[number]
          /\ \/ Opens("asset", "asset", [opened |-> "assetOpen", closed |-> "sfo"])
             \/ Writes("asset", "assetOpen", "sfo")
       \/ Opens("sfo", "sfo", [opened |-> "sfoOpen", closed |-> "check"])
       \/ Writes("sfo", "sfoOpen", "check")
    /\ UNCHANGED <<told, stale>>

Check ==
    /\ At("check") /\ Goto(IF failed THEN "abandon" ELSE "clearBackup") /\ Fine
    /\ UNCHANGED <<dirs, sides>>

\* Something was not written: the new directory goes.
GiveUp ==
    /\ Removing("staging", "abandon", "idle")
    /\ reported' = IF spc' = "idle" THEN "error" ELSE reported
    /\ UNCHANGED <<existed, number, pieces, failed, kept, before, stale, unmoved, cut>>

ClearBackup == Removing("backup", "clearBackup", "moveAway") /\ UNCHANGED sides

\* That it cannot be told whether there is an old save is an error as well.
MoveAway ==
    /\ At("moveAway")
    /\ \/ dirs["save"] = Absent /\ existed' = FALSE /\ Goto("moveIn") /\ Fine /\ UNCHANGED <<dirs, unmoved>>
       \/ dirs["save"] # Absent /\ dirs["backup"] \in {Absent, Empty} /\ existed' = TRUE
          /\ dirs' = Renamed("save", "backup") /\ Goto("moveIn") /\ Fine /\ UNCHANGED unmoved
       \/ /\ dirs["save"] # Absent /\ existed' = TRUE
          /\ IF dirs["backup"] = Absent THEN Fault ELSE Fine      \* something is in the way
          /\ unmoved' = TRUE /\ Goto("undo") /\ UNCHANGED dirs
       \/ existed' = FALSE /\ Fault /\ unmoved' = TRUE /\ Goto("undo") /\ UNCHANGED dirs
    /\ UNCHANGED <<reported, number, pieces, failed, kept, before, stale, cut>>

MoveIn ==
    /\ At("moveIn")
    /\ \/ dirs' = Renamed("staging", "save") /\ Goto("cleanUp") /\ Fine
       \/ Fault /\ Goto("undo") /\ UNCHANGED dirs
    /\ UNCHANGED sides

\* Mutant of Undo: the old save is not brought back.
UndoNothing == At("undo") /\ Goto("restored") /\ Fine /\ UNCHANGED dirs

\* The roll-back: what is in the place of the save goes, the old one returns.
Undo == Removing("save", "undo", "restore")
RollBack == Undo /\ UNCHANGED sides

Restore ==
    /\ At("restore") /\ Goto("restored")
    /\ \/ /\ existed /\ dirs["backup"] # Absent /\ dirs["save"] \in {Absent, Empty}
          /\ dirs' = Renamed("backup", "save") /\ Fine
       \/ ~(existed /\ dirs["backup"] # Absent /\ dirs["save"] \in {Absent, Empty}) /\ Fine /\ UNCHANGED dirs
       \/ existed /\ Fault /\ UNCHANGED dirs
    /\ UNCHANGED sides

Failed ==
    /\ At("restored") /\ Goto("idle") /\ reported' = "error"
    /\ UNCHANGED <<dirs, existed, number, pieces, failed, spareFaults, kept, before, stale, unmoved, cut>>

\* The save is made; that the old one cannot be removed does not matter.
CleanUp ==
    /\ Removing("backup", "cleanUp", "idle")
    /\ IF spc' = "idle" THEN reported' = "saved" /\ kept' = number /\ before' = Absent
                        ELSE UNCHANGED <<reported, kept, before>>
    /\ UNCHANGED <<existed, number, pieces, failed, stale, unmoved, cut>>
-----------------------------------------------------------------------------
(* The other modes, and a kill. *)

\* The payload has to be there; artwork and titles are read if they are.
Load ==
    /\ At("idle")
    /\ \E name \in Names :
         reported' = IF dirs["save"] # Absent /\ name \in DOMAIN dirs["save"] THEN "loaded" ELSE "noData"
    /\ before' = Absent
    /\ UNCHANGED <<dirs, spc, existed, number, pieces, failed, spareFaults, kept, stale, unmoved, cut>>

Delete ==
    /\ At("idle") /\ dirs["save"] # Absent /\ Goto("delete") /\ kept' = 0
    /\ reported' = "none" /\ before' = Absent
    /\ UNCHANGED <<dirs, existed, number, pieces, failed, spareFaults, stale, unmoved, cut>>
Deleting ==
    /\ Removing("save", "delete", "idle")
    /\ cut' = (cut \/ (spc' = "idle" /\ dirs["save"] # Absent))
    /\ reported' = IF spc' # "idle" THEN reported ELSE IF dirs["save"] # Absent THEN "error" ELSE "none"
    /\ UNCHANGED <<existed, number, pieces, failed, kept, before, stale, unmoved>>

\* The directories whose name begins with the game's: modes 7 and 11.
Listed == {d \in Dirs : dirs[d] # Absent}

Kill ==
    /\ ~At("idle") /\ Fault /\ Goto("idle")
    /\ cut' = (cut \/ spc \in {"delete", "undo"})
    /\ reported' = "none" /\ existed' = FALSE /\ failed' = FALSE /\ before' = Absent
    /\ UNCHANGED <<dirs, number, pieces, kept, stale, unmoved>>

StoreCalls == Save \/ Load \/ Delete
StoreSteps ==
    \/ ClearStaging \/ Create \/ WriteFiles \/ Check \/ GiveUp \/ ClearBackup \/ MoveAway \/ MoveIn
    \/ RollBack \/ Restore \/ Failed \/ CleanUp \/ Deleting \/ Kill
-----------------------------------------------------------------------------
StoreTypeOK ==
    /\ DOMAIN dirs = Dirs /\ number \in 0..MaxSaves /\ kept \in 0..number
    /\ pieces \in [1..MaxSaves -> SUBSET Files] /\ stale \subseteq 1..number
    /\ reported \in {"none", "error", "saved", "loaded", "noData"}

(***************************************************************************)
(* A load never finds half a save, or a file of one save for that of       *)
(* another: the directory holds all of one save whenever no call is busy   *)
(* with it, and no file besides.  There are two exceptions.  Its own       *)
(* removal may be cut short; and a save that is written among the files of *)
(* an earlier one, which failed or was killed and whose staging directory  *)
(* could not be cleared, brings those with it that it does not have itself *)
(* (artwork of size 0, a payload of another name).                         *)
(***************************************************************************)
LoadsWhole ==
    spc # "delete" /\ spc # "undo" /\ ~cut /\ ~unmoved =>
      dirs["save"] = Absent \/ Whole("save")

(***************************************************************************)
(* One fault, whichever call fails or wherever the program is killed, does *)
(* not lose the save the guest was last told of: it or a later one is      *)
(* whole on the disk, in one of the three places.  The exception is an old *)
(* save that cannot be moved away: the roll-back removes it.               *)
(***************************************************************************)
SaveSurvives ==
    kept > 0 /\ ~unmoved /\ MaxStoreFaults - spareFaults <= 1 =>
      \E d \in Dirs, n \in kept..number : Holds(d, n)

\* A save that ends with an error leaves the directory as it was, after a
\* single fault and with the exceptions named above.
ErrorChangesNothing ==
    reported = "error" /\ spc = "idle" /\ ~unmoved /\ ~cut
      /\ MaxStoreFaults - spareFaults <= 1 => dirs["save"] = before

\* No trace is left beside the save when all went well, and no save is mixed
\* with another before two things have failed.
NothingLeftOver ==
    /\ spc = "idle" /\ spareFaults = MaxStoreFaults => Listed \subseteq {"save"}
    /\ MaxStoreFaults - spareFaults <= 1 => stale = {}

StoreSound == LoadsWhole /\ SaveSurvives /\ ErrorChangesNothing /\ NothingLeftOver
=============================================================================
