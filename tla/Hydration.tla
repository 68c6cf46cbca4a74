------------------------------ MODULE Hydration ------------------------------
(***************************************************************************)
(* psprism's projects on disk: export_codebase, which builds a project in  *)
(* a staging directory and publishes it with one rename, and               *)
(* hydrate_codebase, which rebuilds the private trees of a project, puts   *)
(* them in place one after the other and remembers in a stamp what they    *)
(* were made of.  Any file operation may fail, and the process may be      *)
(* killed between any two.  What a tree is made of (manifest, code map,    *)
(* input and toolchain) is abstracted to the number of edits before it.    *)
(***************************************************************************)
EXTENDS Integers, Sequences, FiniteSets

CONSTANTS
    TreeList,       \* the trees in the order they are replaced
    Starts,         \* "clone": a checkout without trees; "export": none yet
    EditKinds,      \* "new", and "undone" and "exported" (see Edit)
    MaxEdits,       \* bound: edits of what the trees are made of
    MaxCalls,       \* bound: calls of psprism
    MaxFaults       \* bound: file operations that fail

VARIABLES
    edits,          \* the present identity: how often its parts were edited
    tree,           \* what each tree of the project was made of, None or Partial
    staged, backup, \* the same, of the trees in the staging directory
    stamp,          \* hydration.cache: identity, None, Emptied or Torn
    marker,         \* export-hydrated: the executable's hash is the project's
    phase,          \* where the running call is
    next,           \* the replacement it is at
    moved,          \* had_previous: the trees moved to the backup
    installed,      \* the trees put in place
    before,         \* ghost: the trees when the call began
    lost,           \* ghost: trees whose way back failed
    result,         \* what the last call said: "none", "cached", "hydrated", "failed"
    newest,         \* the latest identity
    calls, faults

hvars == <<edits, tree, staged, backup, stamp, marker, phase, next, moved, installed,
           before, lost, result, newest, calls, faults>>

None    == -1      \* nothing that hydration_outputs_exist would take for the tree
Emptied == -2      \* opened, not written: it has no lines
Torn    == -3      \* some of its lines
Partial == -4      \* what a removal left that stopped halfway, if it still passes
Trees == {TreeList[k] : k \in DOMAIN TreeList}
NoTrees == [t \in Trees |-> None]

HydrationAssumption ==
    /\ Len(TreeList) \in Nat \ {0} /\ DOMAIN TreeList = 1..Len(TreeList)
    /\ \A j, k \in DOMAIN TreeList : TreeList[j] = TreeList[k] => j = k
    /\ Starts \subseteq {"clone", "export"}
    /\ {MaxEdits, MaxCalls, MaxFaults} \subseteq Nat
-----------------------------------------------------------------------------
HydrationInit ==
    /\ edits = 0 /\ tree = NoTrees /\ staged = NoTrees /\ backup = NoTrees
    /\ stamp = None /\ marker = FALSE
    /\ phase \in Starts
    /\ next = 1 /\ moved = {} /\ installed = {} /\ before = NoTrees /\ lost = {} /\ result = "none"
    /\ newest = 0 /\ calls = 0 /\ faults = 0

\* A call would take the trees of the export as they are.
NeverStamped == marker /\ stamp \in {None, Emptied}

(***************************************************************************)
(* Somebody edits the code map or the manifest, or updates the toolchain:  *)
(* to what they never were ("new") or back to what they were ("undone"),   *)
(* and also where the export's trees have no stamp yet ("exported").       *)
(***************************************************************************)
Edit ==
    /\ phase = "idle" /\ result' = "none"
    /\ NeverStamped => "exported" \in EditKinds
    /\ \/ /\ newest < MaxEdits /\ "new" \in EditKinds
          /\ newest' = newest + 1 /\ edits' = newest'
       \/ /\ edits > 0 /\ "undone" \in EditKinds
          /\ edits' = edits - 1 /\ newest' = newest
    /\ UNCHANGED <<tree, staged, backup, stamp, marker, phase, next, moved, installed,
                   before, lost, calls, faults>>
-----------------------------------------------------------------------------
(* export_codebase. *)

\* Everything is written to a directory nobody knows.
ExportStage ==
    /\ phase = "export" /\ phase' = "publish"
    /\ staged' = [t \in Trees |-> edits]
    /\ UNCHANGED <<edits, newest, lost, tree, backup, stamp, marker, next, moved, installed, before,
                   result, calls, faults>>

\* The rename.
ExportPublish ==
    /\ phase = "publish" /\ phase' = "idle"
    /\ tree' = staged /\ staged' = NoTrees /\ marker' = TRUE
    /\ UNCHANGED <<edits, newest, lost, backup, stamp, next, moved, installed, before, result, calls, faults>>

\* An error removes the directory.
ExportFails ==
    /\ phase = "publish" /\ faults < MaxFaults
    /\ phase' = "export" /\ staged' = NoTrees /\ faults' = faults + 1
    /\ UNCHANGED <<edits, newest, lost, tree, backup, stamp, marker, next, moved, installed, before,
                   result, calls>>

\* A repository keeps neither the trees nor the files of .psprecomp.
Clone ==
    /\ phase = "clone" /\ phase' = "idle"
    /\ UNCHANGED <<edits, newest, lost, tree, staged, backup, stamp, marker, next, moved, installed,
                   before, result, calls, faults>>
-----------------------------------------------------------------------------
(* hydrate_codebase. *)

OutputsExist == \A t \in Trees : tree[t] # None

Begins ==
    phase = "idle" /\ calls < MaxCalls /\ calls' = calls + 1 /\ before' = tree /\ lost' = {}

\* The first lines refuse: no project, another game, a wrong hash.
HydrateRefused ==
    /\ Begins /\ faults < MaxFaults
    /\ faults' = faults + 1 /\ result' = "failed"
    /\ UNCHANGED <<edits, newest, tree, staged, backup, stamp, marker, phase, next, moved, installed>>

\* The stamp is of the present identity.
StampCurrent == stamp = edits /\ OutputsExist

HydrateCached ==
    /\ Begins /\ StampCurrent
    /\ result' = "cached"
    /\ UNCHANGED <<edits, newest, tree, staged, backup, stamp, marker, phase, next, moved,
                   installed, faults>>

\* No line in the stamp: what the export left is taken as it is.
MarkerAccepted == NeverStamped /\ OutputsExist

HydrateExported ==
    /\ Begins /\ ~StampCurrent /\ MarkerAccepted
    /\ phase' = "stamp" /\ result' = "none"
    /\ UNCHANGED <<edits, newest, tree, staged, backup, stamp, marker, next, moved, installed,
                   faults>>

\* Otherwise, and always with --force: extraction, decryption, translation and
\* the copies go to the staging directory.
Stage ==
    /\ Begins
    /\ staged' = [t \in Trees |-> edits] /\ backup' = NoTrees
    /\ phase' = "move" /\ next' = 1 /\ moved' = {} /\ installed' = {} /\ result' = "none"
    /\ UNCHANGED <<edits, newest, tree, stamp, marker, faults>>

Current == TreeList[next]

\* publish_replacements, for one tree: the old one goes to the backup ...
MoveAway ==
    /\ phase = "move" /\ phase' = "install"
    /\ IF tree[Current] # None
         THEN /\ backup' = [backup EXCEPT ![Current] = tree[Current]]
              /\ tree' = [tree EXCEPT ![Current] = None]
              /\ moved' = moved \cup {Current}
         ELSE UNCHANGED <<backup, tree, moved>>
    /\ UNCHANGED <<edits, newest, lost, staged, stamp, marker, next, installed, before, result, calls, faults>>

\* ... and the new one takes its place.
Install ==
    /\ phase = "install"
    /\ tree' = [tree EXCEPT ![Current] = staged[Current]]
    /\ staged' = [staged EXCEPT ![Current] = None]
    /\ installed' = installed \cup {Current}
    /\ IF next < Len(TreeList) THEN next' = next + 1 /\ phase' = "move"
                               ELSE next' = next /\ phase' = "stamp"
    /\ UNCHANGED <<edits, newest, lost, backup, stamp, marker, moved, before, result, calls, faults>>

\* A rename or the translation fails.
Fails ==
    /\ phase \in {"move", "install"} /\ faults < MaxFaults
    /\ faults' = faults + 1 /\ phase' = "undo" /\ next' = Len(TreeList)
    /\ UNCHANGED <<edits, newest, lost, tree, staged, backup, stamp, marker, moved, installed, before,
                   result, calls>>

\* Mutant of UndoTree: what was moved away comes back only if it was replaced.
UndoInstalled(t) ==
    /\ tree' = [tree EXCEPT ![t] = IF t \in installed THEN (IF t \in moved THEN backup[t] ELSE None)
                                   ELSE @]
    /\ backup' = [backup EXCEPT ![t] = None]

\* The handler undoes the replacements, the last first.
UndoTree(t) ==
    /\ tree' = [tree EXCEPT ![t] = IF t \in moved THEN backup[t]
                                   ELSE IF t \in installed THEN None ELSE @]
    /\ backup' = [backup EXCEPT ![t] = None]

\* What is left of t when an error, which is ignored, or the end of the process
\* stops that: nothing, when the new tree was removed and the old one did not
\* come back; the new tree, or a part of it, below which the old one cannot
\* come back.
Remains(t) == {tree[t]} \cup IF t \in installed THEN {None, Partial} ELSE {}

RollBack ==
    /\ phase = "undo"
    /\ \/ UndoTree(Current) /\ UNCHANGED <<lost, faults>>
       \/ /\ faults < MaxFaults /\ faults' = faults + 1
          /\ Current \in moved \cup installed /\ lost' = lost \cup {Current}
          /\ \E remains \in Remains(Current) : tree' = [tree EXCEPT ![Current] = remains]
          /\ UNCHANGED backup
    /\ IF next > 1 THEN next' = next - 1 /\ phase' = phase
                   ELSE next' = 1 /\ phase' = "clean"
    /\ result' = "failed"
    /\ UNCHANGED <<edits, newest, staged, stamp, marker, moved, installed, before, calls>>

\* The stamp is opened, and so emptied, and then written.
OpenStamp ==
    /\ phase = "stamp" /\ phase' = "write" /\ stamp' = Emptied
    /\ UNCHANGED <<edits, newest, lost, tree, staged, backup, marker, next, moved, installed,
                   before, result, calls, faults>>

WriteStamp ==
    /\ phase = "write" /\ phase' = "clean"
    /\ stamp' = edits /\ result' = IF installed = {} THEN "cached" ELSE "hydrated"
    /\ UNCHANGED <<edits, newest, lost, tree, staged, backup, marker, next, moved, installed,
                   before, calls, faults>>

\* The disk is full; the trees are in place.
StampFails ==
    /\ phase \in {"stamp", "write"} /\ faults < MaxFaults
    /\ faults' = faults + 1 /\ phase' = "clean" /\ result' = "failed"
    /\ stamp' \in IF phase = "stamp" THEN {stamp} ELSE {Emptied, Torn}
    /\ UNCHANGED <<edits, newest, lost, tree, staged, backup, marker, next, moved, installed,
                   before, calls>>

\* remove_all(staging), the backups with it; an error counts after a success.
CleanUp ==
    /\ phase = "clean" /\ phase' = "idle"
    /\ staged' = NoTrees /\ backup' = NoTrees /\ moved' = {} /\ installed' = {}
    /\ \/ UNCHANGED <<result, faults>>
       \/ /\ result = "hydrated" /\ faults < MaxFaults
          /\ result' = "failed" /\ faults' = faults + 1
    /\ UNCHANGED <<edits, newest, lost, tree, stamp, marker, next, before, calls>>

\* The process is killed; the staging directory stays, and is never found again.
Killed ==
    /\ phase \notin {"idle", "clone", "export", "publish"} /\ faults < MaxFaults
    /\ faults' = faults + 1 /\ phase' = "idle" /\ result' = "none"
    /\ staged' = NoTrees /\ backup' = NoTrees /\ moved' = {} /\ installed' = {}
    /\ next' = 1
    /\ stamp' \in IF phase = "write" THEN {Emptied, Torn} ELSE {stamp}
    /\ IF phase = "undo"
         THEN \E remains \in Remains(Current) : tree' = [tree EXCEPT ![Current] = remains]
         ELSE UNCHANGED tree
    /\ UNCHANGED <<edits, newest, lost, marker, before, calls>>

HydrationNext ==
    \/ Edit \/ Clone \/ ExportStage \/ ExportPublish \/ ExportFails
    \/ HydrateRefused \/ HydrateCached \/ HydrateExported
    \/ Stage \/ MoveAway \/ Install \/ Fails \/ RollBack
    \/ OpenStamp \/ WriteStamp \/ StampFails \/ CleanUp \/ Killed
-----------------------------------------------------------------------------
\* Every tree is made of what there is now.
AllCurrent == \A t \in Trees : tree[t] = edits

\* Every tree that is whole is.
WholeCurrent == \A t \in Trees : tree[t] \in {edits, Partial}

(***************************************************************************)
(* A call that fails leaves every tree as it found it or, where only the   *)
(* stamp could not be written or the staging directory not be removed,     *)
(* every tree new, but for those the handler could not move back; one that *)
(* hydrates leaves every tree made of what there is now; and, however      *)
(* calls fail or are killed between two renames or in the stamp, the stamp *)
(* is believed only beside trees it describes.  It does not notice that a  *)
(* tree has lost files to a removal that stopped halfway: --force replaces *)
(* trees below a stamp that stays current, and nobody compares the files.  *)
(***************************************************************************)
HydrationSafe ==
    phase = "idle" =>
      /\ result = "failed" => AllCurrent \/ \A t \in Trees \ lost : tree[t] = before[t]
      /\ result = "hydrated" => AllCurrent
      /\ StampCurrent => WholeCurrent
=============================================================================
