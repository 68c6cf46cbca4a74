-------------------------- MODULE ToolchainProofs --------------------------
(***************************************************************************)
(* Proofs about the toolchain: projects on disk (Hydration), for any       *)
(* trees, any edits, any number of calls and of operations that fail, and  *)
(* recompiled programs (RecompiledCode), for any executables, stacks of    *)
(* any depth and any number of blocks.                                     *)
(*                                                                         *)
(* What a call of hydrate says of the trees is true whatever is edited.    *)
(* That the stamp is believed only beside trees it describes, or what a    *)
(* removal that stopped halfway left of them, is proved where an edit always makes something new and waits for the first        *)
(* hydration of an exported project (EditKinds): the stamp names an        *)
(* identity and not the trees, so that what comes back to an earlier       *)
(* identity can be believed wrongly.                                       *)
(*                                                                         *)
(* That a recompiled program does what the machine does with its original  *)
(* is proved for the executables the recompiler can translate (SoundImage) *)
(* and while no delayed branch is lost (BranchesKept).                     *)
(***************************************************************************)
EXTENDS Toolchain, TLAPS, WellFoundedInduction

Trees == Disk!Trees
None  == Disk!None
Partial == Disk!Partial
Last  == Len(TreeList)
Replacing == {"move", "install", "undo"}
Exporting == {"clone", "export", "publish"}

\* What the proofs use of the constants: the list has a first and a last tree
\* and no tree twice.
LEMMA Constants ==
  /\ Last \in Nat /\ 1 \in 1..Last /\ Last \in 1..Last
  /\ Starts \subseteq {"clone", "export"} /\ None = -1 /\ Partial = -4
<1>1. Disk!HydrationAssumption
  BY ToolchainAssumption DEF ToolchainAssumption
<1> QED
  BY <1>1 DEF Disk!HydrationAssumption, Last, None, Disk!None, Partial, Disk!Partial
LEMMA ListOfTrees ==
  /\ \A k \in 1..Last : TreeList[k] \in Trees
  /\ \A t \in Trees : \E k \in 1..Last : t = TreeList[k]
  /\ \A j, k \in 1..Last : TreeList[j] = TreeList[k] => j = k
<1>1. Disk!HydrationAssumption
  BY ToolchainAssumption DEF ToolchainAssumption
<1> QED
  BY <1>1 DEF Disk!HydrationAssumption, Last, Trees, Disk!Trees

-----------------------------------------------------------------------------
(* What a call does to the trees *)

DiskTypes ==
    /\ edits \in Nat /\ newest \in Nat /\ edits <= newest
    /\ stamp \in Nat \cup {None, Disk!Emptied, Disk!Torn}
    /\ marker \in BOOLEAN
    /\ tree \in [Trees -> Nat \cup {None, Partial}]
    /\ before \in [Trees -> Nat \cup {None, Partial}]
    /\ staged \in [Trees -> Nat \cup {None}] /\ backup \in [Trees -> Nat \cup {None, Partial}]
    /\ next \in 1..Last
    /\ moved \subseteq Trees /\ installed \subseteq Trees
    /\ phase \in Exporting \cup Replacing
                 \cup {"idle", "stamp", "write", "clean"}

\* A tree that is as the call found it, one that has been moved away, and one
\* that is new.
Untouched(t) == tree[t] = before[t] /\ t \notin moved /\ t \notin installed
BackedUp(t)  == (t \in moved <=> before[t] # None) /\ (t \in moved => backup[t] = before[t])
Away(t)      == tree[t] = None /\ t \notin installed /\ BackedUp(t)
Replaced(t)  == tree[t] = edits /\ t \in installed /\ BackedUp(t)

\* Up to where the call has got, the trees are new, from there on old; and what
\* is to follow is staged.
UpToNext ==
    /\ phase \in {"move", "install"} =>
         \A k \in 1..Last :
           /\ k < next => Replaced(TreeList[k])
           /\ k > next => Untouched(TreeList[k])
           /\ k >= next => staged[TreeList[k]] = edits
    /\ phase = "move" => Untouched(TreeList[next])
    /\ phase = "install"   => Away(TreeList[next])

\* What the handler needs to undo what has been done, and what it has undone.
CanUndo(t) ==
    /\ t \in moved => backup[t] = before[t]
    /\ t \in installed /\ t \notin moved => before[t] = None
    /\ t \notin moved /\ t \notin installed => tree[t] = before[t]
Undone(t) == t \in lost \/ tree[t] = before[t]
RollsBack ==
    phase = "undo" =>
      \A k \in 1..Last : IF k > next THEN Undone(TreeList[k]) ELSE CanUndo(TreeList[k])

\* When the stamp is written all trees are new, or all are the export's.
StampsNew ==
    phase \in {"stamp", "write"} =>
      Disk!AllCurrent \/ (installed = {} /\ tree = before)

\* What a call says when it ends.
SaysSo ==
    /\ phase \in {"clean", "idle"} =>
         /\ result = "failed" => Disk!AllCurrent \/ \A t \in Trees : Undone(t)
         /\ result = "hydrated" => Disk!AllCurrent
    /\ phase \in Exporting => result = "none"
    /\ phase \in Exporting \cup {"idle"} => moved = {} /\ installed = {}

DiskInv == DiskTypes /\ UpToNext /\ RollsBack /\ StampsNew /\ SaysSo

LEMMA InitiallySo ==
  ASSUME Disk!HydrationInit PROVE DiskInv
<1> USE Constants DEF Disk!HydrationInit, Disk!NoTrees, Trees, None, Exporting, Replacing
<1>1. edits \in Nat /\ newest \in Nat /\ edits <= newest /\ next \in 1..Last
  OBVIOUS
<1>2. stamp \in Nat \cup {None, Disk!Emptied, Disk!Torn}
  OBVIOUS
<1>3. tree \in [Trees -> Nat \cup {None}] /\ before = tree /\ staged = tree /\ backup = tree
  OBVIOUS
<1>4. moved \subseteq Trees /\ installed \subseteq Trees
  OBVIOUS
<1>8. marker \in BOOLEAN
  BY Zenon
<1>5. phase \in {"clone", "export"}
  OBVIOUS
<1>6. DiskTypes
  BY <1>1, <1>2, <1>3, <1>4, <1>5, <1>8 DEF DiskTypes
<1>7. UpToNext /\ RollsBack /\ StampsNew /\ SaysSo
  BY DEF UpToNext, RollsBack, StampsNew, SaysSo
<1> QED
  BY <1>6, <1>7 DEF DiskInv

\* What a call is at one tree after the other.
LEMMA StageStep ==
  ASSUME DiskInv, Disk!Stage
  PROVE  DiskInv'
<1> USE Constants DEF DiskInv, Disk!Stage, Disk!Begins
<1>1. DiskTypes'
  BY DEF DiskTypes, Disk!NoTrees, Exporting, Replacing, Trees, None
<1>2. \A t \in Trees : staged'[t] = edits /\ tree'[t] = before'[t]
  BY DEF Trees
<1>3. UpToNext'
  BY <1>2, ListOfTrees DEF UpToNext, Untouched
<1>4. RollsBack' /\ StampsNew' /\ SaysSo'
  BY DEF RollsBack, StampsNew, SaysSo, Exporting
<1> QED
  BY <1>1, <1>3, <1>4

LEMMA MoveAwayStep ==
  ASSUME DiskInv, Disk!MoveAway
  PROVE  DiskInv'
<1> USE Constants DEF DiskInv
<1> DEFINE c == TreeList[next]
<1>1. /\ c \in Trees /\ next \in 1..Last /\ next' = next
      /\ phase = "move" /\ phase' = "install"
      /\ edits' = edits /\ before' = before /\ staged' = staged /\ installed' = installed
  BY ListOfTrees DEF DiskTypes, Disk!MoveAway
<1>2. Untouched(c)
  BY <1>1 DEF UpToNext
<1>3. tree' = [tree EXCEPT ![c] = None]
  BY <1>1 DEF Disk!MoveAway, Disk!Current, None, DiskTypes
<1>4. /\ backup' \in [Trees -> Nat \cup {None, Partial}] /\ moved' \subseteq Trees
      /\ c \in moved' <=> before[c] # None
      /\ c \in moved' => backup'[c] = before[c]
      /\ \A t \in Trees \ {c} : (t \in moved' <=> t \in moved) /\ backup'[t] = backup[t]
  <2>1. CASE tree[c] # None
    <3>1. backup' = [backup EXCEPT ![c] = tree[c]] /\ moved' = moved \cup {c}
      BY <2>1 DEF Disk!MoveAway, Disk!Current, None
    <3> QED
      BY <3>1, <2>1, <1>1, <1>2 DEF Untouched, DiskTypes
  <2>2. CASE tree[c] = None
    <3>1. backup' = backup /\ moved' = moved
      BY <2>2 DEF Disk!MoveAway, Disk!Current, None
    <3> QED
      BY <3>1, <2>2, <1>1, <1>2 DEF Untouched, DiskTypes
  <2> QED
    BY <2>1, <2>2
<1>5. DiskTypes'
  BY <1>1, <1>3, <1>4 DEF DiskTypes, Disk!MoveAway, Replacing
<1>6. tree'[c] = None /\ \A t \in Trees \ {c} : tree'[t] = tree[t]
  BY <1>1, <1>3 DEF DiskTypes
<1>7. Away(c)'
  BY <1>1, <1>2, <1>4, <1>6 DEF Away, BackedUp, Untouched
<1>8. ASSUME NEW k \in 1..Last, k # next
      PROVE  TreeList[k] \in Trees \ {c}
  BY <1>8, <1>1, ListOfTrees
<1>9. ASSUME NEW k \in 1..Last, k < next
      PROVE  Replaced(TreeList[k])'
  <2>1. Replaced(TreeList[k])
    BY <1>9, <1>1 DEF UpToNext
  <2> QED
    BY <2>1, <1>1, <1>4, <1>6, <1>8, <1>9 DEF Replaced, BackedUp, DiskTypes
<1>10. ASSUME NEW k \in 1..Last, k > next
       PROVE  Untouched(TreeList[k])'
  <2>1. Untouched(TreeList[k])
    BY <1>10, <1>1 DEF UpToNext
  <2> QED
    BY <2>1, <1>1, <1>4, <1>6, <1>8, <1>10 DEF Untouched, DiskTypes
<1>11. UpToNext'
  BY <1>1, <1>7, <1>9, <1>10 DEF UpToNext
<1>12. RollsBack' /\ StampsNew' /\ SaysSo'
  BY <1>1 DEF RollsBack, StampsNew, SaysSo, Exporting
<1> QED
  BY <1>5, <1>11, <1>12

LEMMA InstallStep ==
  ASSUME DiskInv, Disk!Install
  PROVE  DiskInv'
<1> USE Constants DEF DiskInv
<1> DEFINE c == TreeList[next]
<1>1. /\ c \in Trees /\ next \in 1..Last /\ phase = "install"
      /\ edits' = edits /\ before' = before /\ moved' = moved /\ backup' = backup
      /\ installed' = installed \cup {c}
  BY ListOfTrees DEF DiskTypes, Disk!Install, Disk!Current
<1>2. Away(c) /\ staged[c] = edits
  BY <1>1 DEF UpToNext
<1>3. tree' = [tree EXCEPT ![c] = edits] /\ staged' = [staged EXCEPT ![c] = None]
  BY <1>1, <1>2 DEF Disk!Install, Disk!Current, None
<1>4. \/ next < Last /\ next' = next + 1 /\ phase' = "move"
      \/ next = Last /\ next' = next /\ phase' = "stamp"
  BY <1>1 DEF Disk!Install, Last, DiskTypes
<1>5. DiskTypes'
  BY <1>1, <1>3, <1>4 DEF DiskTypes, Disk!Install, Replacing
<1>6. tree'[c] = edits /\ \A t \in Trees \ {c} : tree'[t] = tree[t] /\ staged'[t] = staged[t]
  BY <1>1, <1>3 DEF DiskTypes
<1>7. ASSUME NEW k \in 1..Last, k # next
      PROVE  TreeList[k] \in Trees \ {c}
  BY <1>7, <1>1, ListOfTrees
<1>8. ASSUME NEW k \in 1..Last, k <= next
      PROVE  Replaced(TreeList[k])'
  <2>1. CASE k = next
    BY <2>1, <1>1, <1>2, <1>6 DEF Away, Replaced, BackedUp
  <2>2. CASE k < next
    <3>1. Replaced(TreeList[k])
      BY <2>2, <1>1 DEF UpToNext
    <3> QED
      BY <3>1, <2>2, <1>1, <1>6, <1>7 DEF Replaced, BackedUp, DiskTypes
  <2> QED
    BY <1>8, <1>1, <2>1, <2>2
<1>9. ASSUME NEW k \in 1..Last, k > next
      PROVE  Untouched(TreeList[k])' /\ staged'[TreeList[k]] = edits
  <2>1. Untouched(TreeList[k]) /\ staged[TreeList[k]] = edits
    BY <1>9, <1>1 DEF UpToNext
  <2> QED
    BY <2>1, <1>1, <1>6, <1>7, <1>9 DEF Untouched, DiskTypes
<1>10. UpToNext'
  BY <1>1, <1>4, <1>8, <1>9 DEF UpToNext, DiskTypes
<1>11. StampsNew'
  <2>1. phase' = "stamp" => \A t \in Trees : tree'[t] = edits
    BY <1>4, <1>8, ListOfTrees, <1>1 DEF Replaced
  <2> QED
    BY <2>1, <1>1, <1>4 DEF StampsNew, Disk!AllCurrent, Trees
<1>12. RollsBack' /\ SaysSo'
  BY <1>4 DEF RollsBack, SaysSo, Exporting
<1> QED
  BY <1>5, <1>10, <1>11, <1>12

LEMMA FailsStep ==
  ASSUME DiskInv, Disk!Fails
  PROVE  DiskInv'
<1> USE Constants DEF DiskInv
<1>1. /\ phase \in {"move", "install"} /\ phase' = "undo" /\ next' = Last
      /\ edits' = edits /\ before' = before /\ moved' = moved /\ installed' = installed
      /\ tree' = tree /\ backup' = backup
  BY DEF Disk!Fails, Last
<1>2. DiskTypes'
  BY <1>1 DEF DiskTypes, Disk!Fails, Replacing
<1>3. ASSUME NEW k \in 1..Last PROVE CanUndo(TreeList[k])
  <2>1. \/ Replaced(TreeList[k]) \/ Away(TreeList[k]) \/ Untouched(TreeList[k])
    <3>1. next \in 1..Last
      BY DEF DiskTypes
    <3>2. k < next \/ k = next \/ k > next
      BY <3>1
    <3> QED
      BY <1>1, <3>2 DEF UpToNext
  <2>2. TreeList[k] \in Trees
    BY ListOfTrees
  <2> QED
    BY <2>1, <2>2 DEF Replaced, Away, Untouched, BackedUp, CanUndo
<1>4. \A k \in 1..Last : CanUndo(TreeList[k])'
  BY <1>1, <1>3 DEF CanUndo
<1>5. RollsBack'
  BY <1>1, <1>4 DEF RollsBack
<1>6. UpToNext' /\ StampsNew' /\ SaysSo'
  BY <1>1 DEF UpToNext, StampsNew, SaysSo, Exporting
<1> QED
  BY <1>2, <1>5, <1>6

LEMMA RollBackStep ==
  ASSUME DiskInv, Disk!RollBack
  PROVE  DiskInv'
<1> USE Constants DEF DiskInv
<1> DEFINE c == TreeList[next]
<1>1. /\ c \in Trees /\ next \in 1..Last /\ phase = "undo" /\ CanUndo(c)
      /\ edits' = edits /\ before' = before /\ moved' = moved /\ installed' = installed
      /\ result' = "failed"
  BY ListOfTrees DEF DiskTypes, Disk!RollBack, RollsBack
<1>2. \/ next > 1 /\ next' = next - 1 /\ phase' = "undo"
      \/ next = 1 /\ next' = 1 /\ phase' = "clean"
  BY <1>1 DEF Disk!RollBack
<1>3. /\ tree' \in [Trees -> Nat \cup {None, Partial}]
      /\ backup' \in [Trees -> Nat \cup {None, Partial}]
      /\ lost \subseteq lost' /\ (c \in lost' \/ tree'[c] = before[c])
      /\ \A t \in Trees \ {c} : tree'[t] = tree[t] /\ backup'[t] = backup[t]
  <2>1. CASE Disk!UndoTree(c) /\ lost' = lost
    <3>1. /\ tree' = [tree EXCEPT ![c] = IF c \in moved THEN backup[c]
                                         ELSE IF c \in installed THEN None ELSE tree[c]]
          /\ backup' = [backup EXCEPT ![c] = None]
      BY <2>1, <1>1 DEF Disk!UndoTree, None, DiskTypes
    <3>2. tree'[c] = before[c]
      BY <3>1, <1>1 DEF DiskTypes, CanUndo
    <3> QED
      BY <2>1, <3>1, <3>2, <1>1 DEF DiskTypes, Undone
  <2>2. CASE /\ lost' = lost \cup {c} /\ backup' = backup
             /\ \E remains \in Disk!Remains(c) : tree' = [tree EXCEPT ![c] = remains]
    <3>1. PICK remains : remains \in {tree[c], None, Partial} /\ tree' = [tree EXCEPT ![c] = remains]
      BY <2>2 DEF Disk!Remains, None, Partial
    <3> QED
      BY <2>2, <3>1, <1>1 DEF DiskTypes, Undone
  <2> QED
    BY <2>1, <2>2 DEF Disk!RollBack, Disk!Current
<1>4. DiskTypes'
  BY <1>1, <1>2, <1>3 DEF DiskTypes, Disk!RollBack, Replacing
<1>5. ASSUME NEW k \in 1..Last, k >= next
      PROVE  Undone(TreeList[k])'
  <2>1. CASE k = next
    BY <2>1, <1>1, <1>3 DEF Undone
  <2>2. CASE k > next
    <3>1. Undone(TreeList[k]) /\ TreeList[k] \in Trees \ {c}
      BY <2>2, <1>1, ListOfTrees DEF RollsBack
    <3> QED
      BY <3>1, <1>1, <1>3 DEF Undone
  <2> QED
    BY <1>5, <1>1, <2>1, <2>2
<1>6. ASSUME NEW k \in 1..Last, k < next
      PROVE  CanUndo(TreeList[k])'
  <2>1. CanUndo(TreeList[k]) /\ TreeList[k] \in Trees \ {c}
    BY <1>6, <1>1, ListOfTrees DEF RollsBack
  <2> QED
    BY <2>1, <1>1, <1>3 DEF CanUndo
<1>7. RollsBack'
  BY <1>1, <1>2, <1>5, <1>6 DEF RollsBack
<1>8. SaysSo'
  <2>1. phase' = "clean" => \A t \in Trees : Undone(t)'
    BY <1>1, <1>2, <1>5, ListOfTrees
  <2> QED
    BY <2>1, <1>1, <1>2 DEF SaysSo, Exporting, Undone
<1>9. UpToNext' /\ StampsNew'
  BY <1>2 DEF UpToNext, StampsNew
<1> QED
  BY <1>4, <1>7, <1>8, <1>9

\* Every operation of a call keeps what is known of the trees.
LEMMA DiskStep ==
  ASSUME DiskInv, Disk!HydrationNext
  PROVE  DiskInv'
<1> USE Constants DEF DiskInv, DiskTypes, UpToNext, RollsBack, StampsNew, SaysSo, Exporting, Replacing,
                      Disk!AllCurrent, Undone, Trees, None
<1>1. CASE Disk!Edit
  BY <1>1 DEF Disk!Edit
<1>2. CASE Disk!Clone
  BY <1>2 DEF Disk!Clone
<1>3. CASE Disk!ExportStage
  BY <1>3 DEF Disk!ExportStage
<1>4. CASE Disk!ExportPublish
  BY <1>4 DEF Disk!ExportPublish, Disk!NoTrees
<1>5. CASE Disk!ExportFails
  BY <1>5 DEF Disk!ExportFails, Disk!NoTrees
<1>6. CASE Disk!HydrateRefused
  BY <1>6 DEF Disk!HydrateRefused, Disk!Begins
<1>7. CASE Disk!HydrateCached
  BY <1>7 DEF Disk!HydrateCached, Disk!Begins
<1>8. CASE Disk!HydrateExported
  BY <1>8 DEF Disk!HydrateExported, Disk!Begins
<1>9. CASE Disk!Stage
  BY <1>9, StageStep
<1>10. CASE Disk!MoveAway
  BY <1>10, MoveAwayStep
<1>11. CASE Disk!Install
  BY <1>11, InstallStep
<1>12. CASE Disk!Fails
  BY <1>12, FailsStep
<1>13. CASE Disk!RollBack
  BY <1>13, RollBackStep
<1>14. CASE Disk!OpenStamp
  BY <1>14 DEF Disk!OpenStamp
<1>15. CASE Disk!WriteStamp
  BY <1>15 DEF Disk!WriteStamp
<1>16. CASE Disk!StampFails
  BY <1>16 DEF Disk!StampFails
<1>17. CASE Disk!CleanUp
  BY <1>17 DEF Disk!CleanUp, Disk!NoTrees
<1>18. CASE Disk!Killed
  <2>1. DiskTypes'
    <3>1. next \in 1..Last /\ TreeList[next] \in Trees
      BY ListOfTrees
    <3>2. tree' \in [Trees -> Nat \cup {None, Partial}]
      BY <1>18, <3>1 DEF Disk!Killed, Disk!Remains, Disk!Current, Partial
    <3> QED
      BY <1>18, <3>2 DEF Disk!Killed, Disk!NoTrees
  <2>2. UpToNext'
    BY <1>18, ListOfTrees DEF Disk!Killed, Disk!NoTrees
  <2>3. RollsBack'
    BY <1>18, ListOfTrees DEF Disk!Killed, Disk!NoTrees
  <2>4. StampsNew'
    BY <1>18, ListOfTrees DEF Disk!Killed, Disk!NoTrees
  <2>5. SaysSo'
    BY <1>18, ListOfTrees DEF Disk!Killed, Disk!NoTrees
  <2> QED
    BY <2>1, <2>2, <2>3, <2>4, <2>5
<1> QED
  BY <1>1, <1>2, <1>3, <1>4, <1>5, <1>6, <1>7, <1>8, <1>9, <1>10, <1>11, <1>12, <1>13, <1>14, <1>15, <1>16, <1>17, <1>18 DEF Disk!HydrationNext
-----------------------------------------------------------------------------
(* What the stamp says of the trees *)

\* Where the next call would believe the trees, each of them is of the present
\* identity, partly removed or missing, also in the backup from which it may come
\* back.
Believed ==
    /\ stamp <= edits
    /\ stamp = edits \/ Disk!NeverStamped =>
         \A t \in Trees : tree[t] \in {None, edits, Partial}
                          /\ (phase \in Replacing => backup[t] \in {None, edits, Partial})
    /\ phase \in {"stamp", "write"} => Disk!WholeCurrent
    /\ phase \in Exporting => stamp = None /\ ~marker
    /\ phase = "publish" => \A t \in Trees : staged[t] = edits

LEMMA InitiallyBelieved ==
  ASSUME Disk!HydrationInit PROVE Believed
  BY Constants DEF Disk!HydrationInit, Believed, Disk!NeverStamped, None, Replacing, Exporting

\* An operation of a call, or an edit that makes something new, keeps it so.
LEMMA BelievedStep ==
  ASSUME EditKinds \subseteq {"new"}, DiskInv, Believed, Disk!HydrationNext, DiskInv'
  PROVE  Believed'
<1> USE Constants DEF Believed, Disk!NeverStamped, Exporting, Replacing, Disk!WholeCurrent, Trees, None,
                      Partial, Disk!Emptied, Disk!Torn
<1> DiskTypes /\ DiskTypes'
  BY DEF DiskInv
<1> DEFINE c == TreeList[next]
<1>1. CASE Disk!Edit
  BY <1>1 DEF Disk!Edit, DiskTypes
<1>2. CASE Disk!Clone
  BY <1>2 DEF Disk!Clone, DiskTypes
<1>3. CASE Disk!ExportStage
  BY <1>3 DEF Disk!ExportStage, DiskTypes
<1>4. CASE Disk!ExportPublish
  BY <1>4 DEF Disk!ExportPublish, DiskTypes, Disk!NoTrees
<1>5. CASE Disk!ExportFails
  BY <1>5 DEF Disk!ExportFails, DiskTypes
<1>6. CASE Disk!HydrateRefused
  BY <1>6 DEF Disk!HydrateRefused, Disk!Begins
<1>7. CASE Disk!HydrateCached
  BY <1>7 DEF Disk!HydrateCached, Disk!Begins
<1>8. CASE Disk!HydrateExported
  BY <1>8 DEF Disk!HydrateExported, Disk!Begins, Disk!MarkerAccepted, Disk!OutputsExist, DiskTypes
<1>9. CASE Disk!Stage
  BY <1>9 DEF Disk!Stage, Disk!Begins, Disk!NoTrees, DiskTypes
<1>10. CASE Disk!MoveAway
  <2>1. c \in Trees
    BY ListOfTrees DEF DiskTypes
  <2>2. /\ tree' = [tree EXCEPT ![c] = None]
        /\ backup' = backup \/ backup' = [backup EXCEPT ![c] = tree[c]]
    BY <1>10, <2>1 DEF Disk!MoveAway, Disk!Current, DiskTypes
  <2> QED
    BY <1>10, <2>1, <2>2 DEF Disk!MoveAway, DiskTypes
<1>11. CASE Disk!Install
  <2>1. c \in Trees /\ staged[c] = edits
    BY <1>11, ListOfTrees DEF DiskTypes, DiskInv, UpToNext, Disk!Install
  <2>2. tree' = [tree EXCEPT ![c] = edits] /\ installed' # {}
    BY <1>11, <2>1 DEF Disk!Install, Disk!Current
  <2>3. phase' \in {"stamp", "write"} => Disk!WholeCurrent'
    BY <2>2 DEF DiskInv, StampsNew, Disk!AllCurrent
  <2>4. phase' \in {"stamp", "move"}
    BY <1>11 DEF Disk!Install
  <2> QED
    BY <1>11, <2>1, <2>2, <2>3, <2>4 DEF Disk!Install, DiskTypes
<1>12. CASE Disk!Fails
  BY <1>12 DEF Disk!Fails, DiskTypes
<1>13. CASE Disk!RollBack
  <2>1. c \in Trees
    BY ListOfTrees DEF DiskTypes
  <2>2. /\ \A t \in Trees : tree'[t] \in {tree[t], backup[t], None, Partial}
        /\ \A t \in Trees : backup'[t] \in {backup[t], None}
    BY <1>13, <2>1 DEF Disk!RollBack, Disk!UndoTree, Disk!Remains, Disk!Current, DiskTypes
  <2>3. phase' \in {"undo", "clean"}
    BY <1>13 DEF Disk!RollBack
  <2> QED
    BY <1>13, <2>2, <2>3 DEF Disk!RollBack, DiskTypes
<1>14. CASE Disk!OpenStamp
  BY <1>14 DEF Disk!OpenStamp, DiskTypes
<1>15. CASE Disk!WriteStamp
  BY <1>15 DEF Disk!WriteStamp, DiskTypes
<1>16. CASE Disk!StampFails
  BY <1>16 DEF Disk!StampFails, DiskTypes
<1>17. CASE Disk!CleanUp
  BY <1>17 DEF Disk!CleanUp, DiskTypes
<1>18. CASE Disk!Killed
  <2>1. c \in Trees
    BY ListOfTrees DEF DiskTypes
  <2>2. \A t \in Trees : tree'[t] \in {tree[t], None, Partial}
    BY <1>18, <2>1 DEF Disk!Killed, Disk!Remains, Disk!Current, DiskTypes
  <2>3. /\ phase' = "idle" /\ edits' = edits /\ marker' = marker
        /\ phase \notin Exporting
        /\ stamp' = stamp \/ (phase = "write" /\ stamp' \in {Disk!Emptied, Disk!Torn})
    BY <1>18 DEF Disk!Killed
  <2> QED
    BY <1>18, <2>2, <2>3 DEF DiskTypes
<1> QED
  BY <1>1, <1>2, <1>3, <1>4, <1>5, <1>6, <1>7, <1>8, <1>9, <1>10, <1>11, <1>12, <1>13, <1>14, <1>15, <1>16, <1>17, <1>18 DEF Disk!HydrationNext

-----------------------------------------------------------------------------
(* Projects among the parts of the toolchain *)

\* While projects are not looked at, nothing of them changes; a step that
\* changes something is a step of Hydration.
LEMMA DiskSteps ==
  ASSUME [Next]_vars
  PROVE  /\ part' = part
         /\ part = "hydration" => Disk!HydrationNext \/ UNCHANGED disk
<1>1. CASE Next
  BY <1>1 DEF Next, Frame, RunCode, RunBoth, WritePrefix, Operate, AddRelocation, AddLine, PatchDisc,
              CrossOver, PassArguments, UseDisk, UsePatches, Hash, Decrypt
<1>2. CASE UNCHANGED vars
  BY <1>2 DEF vars
<1> QED
  BY <1>1, <1>2

LEMMA DiskStutter ==
  ASSUME UNCHANGED disk
  PROVE  (DiskInv => DiskInv') /\ (Believed => Believed')
  BY DEF disk, DiskInv, DiskTypes, UpToNext, RollsBack, StampsNew, SaysSo, Believed, Untouched, BackedUp,
         Away, Replaced, CanUndo, Undone, Disk!AllCurrent, Disk!WholeCurrent, Disk!NeverStamped

THEOREM DiskInvariant == Spec => [](part = "hydration" => DiskInv)
<1>1. Init => (part = "hydration" => DiskInv)
  BY InitiallySo DEF Init
<1>2. (part = "hydration" => DiskInv) /\ [Next]_vars => (part = "hydration" => DiskInv)'
  BY DiskSteps, DiskStep, DiskStutter
<1> QED
  BY <1>1, <1>2, PTL DEF Spec

\* What a call says of the trees is true, whatever is edited between calls: one
\* that fails has left each tree as it found it, or all of them new, but for
\* those the handler could not move back; one that hydrates has left them new.
CallsTellTheTruth ==
    part = "hydration" /\ phase = "idle" =>
      /\ result = "failed" => Disk!AllCurrent \/ \A t \in Trees \ lost : tree[t] = before[t]
      /\ result = "hydrated" => Disk!AllCurrent

\* publish_replacements and its handler (hydrate.cpp), operation by operation.
THEOREM FailedCallsAreUndone == Spec => []CallsTellTheTruth
<1>1. (part = "hydration" => DiskInv) => CallsTellTheTruth
  BY DEF DiskInv, SaysSo, Undone, CallsTellTheTruth
<1> QED
  BY <1>1, DiskInvariant, PTL

\* However calls fail or are killed between two renames, in a removal or in the
\* stamp, the stamp is believed only beside trees that are of the identity it
\* names or are what a removal of the handler (hydrate.cpp, publish_replacements)
\* left of such a tree when it stopped halfway, as long as every edit makes
\* something new and none is made before an exported project has been hydrated
\* for the first time.
THEOREM StampsAreTrue ==
  ASSUME EditKinds \subseteq {"new"}
  PROVE  Spec => []HydrationSafe
<1> DEFINE Inv == part = "hydration" => DiskInv /\ Believed
<1>1. Init => Inv
  BY InitiallySo, InitiallyBelieved DEF Init
<1>2. Inv /\ [Next]_vars => Inv'
  BY DiskSteps, DiskStep, BelievedStep, DiskStutter
<1>3. Inv => HydrationSafe
  BY DEF DiskInv, SaysSo, Undone, Believed, HydrationSafe, Disk!HydrationSafe, Disk!StampCurrent,
         Disk!OutputsExist, Disk!AllCurrent, Disk!WholeCurrent, Trees, None, Partial
<1> QED
  BY <1>1, <1>2, <1>3, PTL DEF Spec

-----------------------------------------------------------------------------
(* Recompiled programs: what their words and states are *)

Branching == {"branch", "j", "jal", "jr", "jalr"}
StopReasons ==
    {"running", "memory_fault", "syscall", "invalid_pc", "unsupported_instruction", "step_limit", "returned"}
State == [gpr : [Regs -> Nat], pc : Nat, pending : BOOLEAN, target : Nat, stop : StopReasons]


\* What the proofs use of the constants.
LEMMA CodeConstants ==
  /\ RA \in Regs /\ V0 \in Regs /\ Odd \in Nat /\ Return \in Nat /\ Sentinel \in Nat /\ Fault \in Nat
  /\ ShardSize \in Nat \ {0} /\ MaxBlocks \in Nat \ {0} /\ MaxDepth \in Nat \ {0}
  BY ToolchainAssumption DEF ToolchainAssumption, Code!RecompiledAssumption

\* States with the same fields are the same.
LEMMA StateIs ==
  ASSUME NEW c \in State, NEW d \in State,
         c.gpr = d.gpr, c.pc = d.pc, c.pending <=> d.pending, c.target = d.target, c.stop = d.stop
  PROVE  c = d
<1>1. c.pending = d.pending
  BY Zenon DEF State
<1> QED
  BY <1>1 DEF State

Linked(i, a, c) == IF i.link THEN [c EXCEPT !.gpr = [c.gpr EXCEPT ![RA] = a + 2]] ELSE c

\* A register linked is one of the state's.
LEMMA LinkedIs ==
  ASSUME NEW i, NEW a \in Nat, NEW c \in State
  PROVE  LET e == Linked(i, a, c)
         IN  e \in State /\ e.pc = c.pc /\ (e.pending <=> c.pending) /\ e.target = c.target /\ e.stop = c.stop
<1>1. CASE i.link
  BY <1>1, CodeConstants DEF Linked, State
<1>2. CASE ~i.link
  BY <1>2 DEF Linked
<1> QED
  BY <1>1, <1>2

\* The state with a branch that waits.
Waiting(c, to) == [[c EXCEPT !.pending = TRUE] EXCEPT !.target = to]

\* A branch that waits.
LEMMA WaitingIs ==
  ASSUME NEW c \in State, NEW to \in Nat
  PROVE  LET e == Waiting(c, to)
         IN  e \in State /\ e.gpr = c.gpr /\ e.pc = c.pc /\ e.pending /\ e.target = to /\ e.stop = c.stop
  BY DEF Waiting, State

\* What the branching instructions are made of.
LEMMA BranchEffect ==
  ASSUME NEW i \in Code!Instruction, NEW a \in Nat, NEW c \in State
  PROVE  LET l == Linked(i, a, c)
         IN  /\ i.op = "branch" => Code!M!Effect(i, a, c)
                  = IF Code!M!Taken(i, l.gpr) THEN Waiting(l, i.to)
                    ELSE IF i.likely THEN [l EXCEPT !.pc = a + 2] ELSE l
             /\ i.op \in {"j", "jal"} => Code!M!Effect(i, a, c) = Waiting(l, i.to)
             /\ i.op = "jr" => Code!M!Effect(i, a, c) = Waiting(c, c.gpr[i.s])
             /\ i.op = "jalr" => LET w == Waiting(c, c.gpr[i.s])
                                IN  Code!M!Effect(i, a, c) = [w EXCEPT !.gpr = [w.gpr EXCEPT ![i.r] = a + 2]]
  BY DEF Code!M!Effect, Linked, Waiting

\* What an instruction does to a state.
LEMMA EffectIs ==
  ASSUME NEW i \in Code!Instruction, NEW a \in Nat, NEW c \in State
  PROVE  LET e == Code!M!Effect(i, a, c)
         IN  /\ e \in State
             /\ i.op \notin Branching => (e.pending <=> c.pending) /\ e.target = c.target /\ e.pc = c.pc
             /\ i.op \in Branching => e.stop = c.stop
             /\ e.stop \in {c.stop, "syscall", "memory_fault"}
             /\ i.op \notin {"syscall", "load"} => e.stop = c.stop
             /\ e.pc = c.pc \/ (e.pc = a + 2 /\ (e.pending <=> c.pending))
<1> DEFINE l == Linked(i, a, c)
<1>0. l \in State /\ l.pc = c.pc /\ (l.pending <=> c.pending) /\ l.target = c.target /\ l.stop = c.stop
  BY LinkedIs
<1> HIDE DEF l
<1>1. CASE i.op = "set"
  BY <1>1 DEF Code!M!Effect, Code!Instruction, State, Branching
<1>2. CASE i.op = "load"
  BY <1>2 DEF Code!M!Effect, Code!Instruction, State, Branching, StopReasons
<1>3. CASE i.op = "branch"
  <2>1. CASE Code!M!Taken(i, l.gpr)
    <3>1. Code!M!Effect(i, a, c) = Waiting(l, i.to) /\ i.to \in Nat
      BY <1>3, <2>1, BranchEffect DEF Code!Instruction, l
    <3>2. Waiting(l, i.to) \in State /\ Waiting(l, i.to).pc = l.pc /\ Waiting(l, i.to).stop = l.stop
      BY <1>0, <3>1, WaitingIs
    <3> QED
      BY <1>0, <1>3, <3>1, <3>2 DEF Branching
  <2>2. CASE ~Code!M!Taken(i, l.gpr) /\ i.likely
    <3>1. Code!M!Effect(i, a, c) = [l EXCEPT !.pc = a + 2]
      BY <1>3, <2>2, BranchEffect DEF l
    <3> QED
      BY <1>0, <1>3, <3>1 DEF State, Branching
  <2>3. CASE ~Code!M!Taken(i, l.gpr) /\ ~i.likely
    <3>1. Code!M!Effect(i, a, c) = l
      BY <1>3, <2>3, BranchEffect DEF l
    <3> QED
      BY <1>0, <1>3, <3>1 DEF Branching
  <2> QED
    BY <2>1, <2>2, <2>3
<1>4. CASE i.op \in {"j", "jal"}
  <2>1. Code!M!Effect(i, a, c) = Waiting(l, i.to) /\ i.to \in Nat
    BY <1>4, BranchEffect DEF Code!Instruction, l
  <2>2. Waiting(l, i.to) \in State /\ Waiting(l, i.to).pc = l.pc /\ Waiting(l, i.to).stop = l.stop
    BY <1>0, <2>1, WaitingIs
  <2> QED
    BY <1>0, <1>4, <2>1, <2>2 DEF Branching
<1>5. CASE i.op = "jr"
  BY <1>5 DEF Code!M!Effect, Code!Instruction, State, Branching
<1>6. CASE i.op = "jalr"
  <2> DEFINE w == Waiting(c, c.gpr[i.s])
  <2>1. c.gpr[i.s] \in Nat
    BY DEF Code!Instruction, State
  <2>2. w \in State /\ w.pc = c.pc /\ w.stop = c.stop
    BY <2>1, WaitingIs
  <2>3. Code!M!Effect(i, a, c) = [w EXCEPT !.gpr = [w.gpr EXCEPT ![i.r] = a + 2]]
    BY <1>6, BranchEffect
  <2> HIDE DEF w
  <2> QED
    BY <1>6, <2>2, <2>3 DEF State, Branching, Code!Instruction
<1>7. CASE i.op = "syscall"
  BY <1>7 DEF Code!M!Effect, Code!Instruction, State, Branching, StopReasons
<1>8. CASE i.op \in {"break", "prologue", "bad"}
  BY <1>8 DEF Code!M!Effect, Code!Instruction, State, Branching
<1> QED
  BY <1>1, <1>2, <1>3, <1>4, <1>5, <1>6, <1>7, <1>8 DEF Code!Instruction

\* It looks at registers and stop reason only, and a branch at the program
\* counter, which is behind it.
LEMMA EffectAlike ==
  ASSUME NEW i \in Code!Instruction, NEW a \in Nat, NEW c \in State, NEW d \in State,
         c.gpr = d.gpr, c.stop = d.stop, ~c.pending, ~d.pending, i.op \in Branching => c.pc = d.pc
  PROVE  LET e == Code!M!Effect(i, a, c)
             f == Code!M!Effect(i, a, d)
         IN  /\ e.gpr = f.gpr /\ e.stop = f.stop /\ (e.pending <=> f.pending)
             /\ e.pending => e.target = f.target
             /\ i.op \in Branching => e.pc = f.pc
<1> DEFINE l == Linked(i, a, c)
           m == Linked(i, a, d)
<1>0. /\ l \in State /\ l.pc = c.pc /\ (l.pending <=> c.pending) /\ l.target = c.target /\ l.stop = c.stop
      /\ m \in State /\ m.pc = d.pc /\ (m.pending <=> d.pending) /\ m.target = d.target /\ m.stop = d.stop
  BY LinkedIs
<1>00. l.gpr = m.gpr
  <2>1. CASE i.link
    BY <2>1 DEF Linked, State
  <2>2. CASE ~i.link
    BY <2>2 DEF Linked
  <2> QED
    BY <2>1, <2>2
<1> HIDE DEF l, m
<1>1. CASE i.op = "set"
  BY <1>1 DEF Code!M!Effect, Code!Instruction, State, Branching
<1>2. CASE i.op = "load"
  BY <1>2 DEF Code!M!Effect, Code!Instruction, State, Branching, StopReasons
<1>3. CASE i.op = "branch"
  <2>1. CASE Code!M!Taken(i, l.gpr)
    <3>1. Code!M!Effect(i, a, c) = Waiting(l, i.to) /\ Code!M!Effect(i, a, d) = Waiting(m, i.to) /\ i.to \in Nat
      BY <1>00, <1>3, <2>1, BranchEffect DEF Code!Instruction, l, m
    <3>2. /\ Waiting(l, i.to).pc = l.pc /\ Waiting(l, i.to).stop = l.stop /\ Waiting(l, i.to).gpr = l.gpr
          /\ Waiting(l, i.to).pending /\ Waiting(l, i.to).target = i.to
          /\ Waiting(m, i.to).pc = m.pc /\ Waiting(m, i.to).stop = m.stop /\ Waiting(m, i.to).gpr = m.gpr
          /\ Waiting(m, i.to).pending /\ Waiting(m, i.to).target = i.to
      BY <1>0, <3>1, WaitingIs
    <3> QED
      BY <1>0, <1>00, <1>3, <3>1, <3>2 DEF Branching
  <2>2. CASE ~Code!M!Taken(i, l.gpr) /\ i.likely
    <3>1. Code!M!Effect(i, a, c) = [l EXCEPT !.pc = a + 2] /\ Code!M!Effect(i, a, d) = [m EXCEPT !.pc = a + 2]
      BY <1>00, <1>3, <2>2, BranchEffect DEF l, m
    <3> QED
      BY <1>0, <1>00, <1>3, <3>1 DEF State, Branching
  <2>3. CASE ~Code!M!Taken(i, l.gpr) /\ ~i.likely
    <3>1. Code!M!Effect(i, a, c) = l /\ Code!M!Effect(i, a, d) = m
      BY <1>00, <1>3, <2>3, BranchEffect DEF l, m
    <3> QED
      BY <1>0, <1>00, <1>3, <3>1 DEF Branching
  <2> QED
    BY <2>1, <2>2, <2>3
<1>4. CASE i.op \in {"j", "jal"}
  <2>1. Code!M!Effect(i, a, c) = Waiting(l, i.to) /\ Code!M!Effect(i, a, d) = Waiting(m, i.to) /\ i.to \in Nat
    BY <1>4, BranchEffect DEF Code!Instruction, l, m
  <2>2. /\ Waiting(l, i.to).pc = l.pc /\ Waiting(l, i.to).stop = l.stop /\ Waiting(l, i.to).gpr = l.gpr
        /\ Waiting(l, i.to).pending /\ Waiting(l, i.to).target = i.to
        /\ Waiting(m, i.to).pc = m.pc /\ Waiting(m, i.to).stop = m.stop /\ Waiting(m, i.to).gpr = m.gpr
        /\ Waiting(m, i.to).pending /\ Waiting(m, i.to).target = i.to
    BY <1>0, <2>1, WaitingIs
  <2> QED
    BY <1>0, <1>00, <1>4, <2>1, <2>2 DEF Branching
<1>5. CASE i.op = "jr"
  BY <1>5 DEF Code!M!Effect, Code!Instruction, State, Branching
<1>6. CASE i.op = "jalr"
  <2> DEFINE w == Waiting(c, c.gpr[i.s])
             x == Waiting(d, c.gpr[i.s])
  <2>1. c.gpr[i.s] \in Nat
    BY DEF Code!Instruction, State
  <2>2. /\ w \in State /\ w.pc = c.pc /\ w.stop = c.stop /\ w.gpr = c.gpr /\ w.pending /\ w.target = c.gpr[i.s]
        /\ x \in State /\ x.pc = d.pc /\ x.stop = d.stop /\ x.gpr = d.gpr /\ x.pending /\ x.target = c.gpr[i.s]
    BY <2>1, WaitingIs
  <2>3. /\ Code!M!Effect(i, a, c) = [w EXCEPT !.gpr = [w.gpr EXCEPT ![i.r] = a + 2]]
        /\ Code!M!Effect(i, a, d) = [x EXCEPT !.gpr = [x.gpr EXCEPT ![i.r] = a + 2]]
    BY <1>6, BranchEffect
  <2> HIDE DEF w, x
  <2> QED
    BY <1>6, <2>2, <2>3 DEF State, Branching, Code!Instruction
<1>7. CASE i.op = "syscall"
  BY <1>7 DEF Code!M!Effect, Code!Instruction, State, Branching, StopReasons
<1>8. CASE i.op \in {"break", "prologue", "bad"}
  BY <1>8 DEF Code!M!Effect, Code!Instruction, State, Branching
<1> QED
  BY <1>1, <1>2, <1>3, <1>4, <1>5, <1>6, <1>7, <1>8 DEF Code!Instruction

\* The generated code of an instruction does what the interpreter does.
LEMMA EmittedIs ==
  ASSUME NEW i \in Code!Instruction, NEW a \in Nat, NEW c \in State, i.op = "jalr" => i.s # i.r
  PROVE  /\ i.op = "bad" => Code!Emitted(i, a, c) = [c EXCEPT !.stop = "invalid_pc"]
         /\ i.op # "bad" => Code!Emitted(i, a, c) = Code!M!Effect(i, a, c)
<1>1. CASE i.op # "jalr"
  BY <1>1 DEF Code!Emitted
<1>2. CASE i.op = "jalr"
  <2> DEFINE linked == [c EXCEPT !.gpr = [c.gpr EXCEPT ![i.r] = a + 2]]
             e == [[linked EXCEPT !.pending = TRUE] EXCEPT !.target = linked.gpr[i.s]]
             w == Waiting(c, c.gpr[i.s])
             f == [w EXCEPT !.gpr = [w.gpr EXCEPT ![i.r] = a + 2]]
  <2>1. Code!Emitted(i, a, c) = e /\ Code!M!Effect(i, a, c) = f
    BY <1>2, BranchEffect DEF Code!Emitted
  <2>2. c.gpr[i.s] \in Nat /\ i.r \in Regs /\ i.s \in Regs /\ i.s # i.r
    BY <1>2 DEF Code!Instruction, State
  <2>3. linked \in State /\ linked.gpr[i.s] = c.gpr[i.s]
    BY <2>2 DEF State
  <2>4. w \in State /\ w.pc = c.pc /\ w.stop = c.stop /\ w.gpr = c.gpr /\ w.pending /\ w.target = c.gpr[i.s]
    BY <2>2, WaitingIs
  <2>5. /\ e \in State /\ e.gpr = [c.gpr EXCEPT ![i.r] = a + 2] /\ e.pc = c.pc /\ e.stop = c.stop
        /\ e.pending /\ e.target = c.gpr[i.s]
    BY <2>2, <2>3 DEF State
  <2> HIDE DEF w
  <2>6. /\ f \in State /\ f.gpr = [c.gpr EXCEPT ![i.r] = a + 2] /\ f.pc = c.pc /\ f.stop = c.stop
        /\ f.pending /\ f.target = c.gpr[i.s]
    BY <2>2, <2>4 DEF State
  <2> HIDE DEF e, f
  <2> QED
    BY <1>2, <2>1, <2>5, <2>6, StateIs
<1> QED
  BY <1>1, <1>2

\* A set of numbers has a first one.
LEMMA FirstOf ==
  ASSUME NEW I_, I_ \subseteq Nat, I_ # {}
  PROVE  \E x \in I_ : \A y \in I_ : x <= y
<1> DEFINE R == {ss \in Nat \X Nat : ss[1] < ss[2]}
<1>1. IsWellFoundedOn(R, Nat)
  BY NatLessThanWellFounded DEF OpToRel
<1>2. \A x, y \in Nat : y < x => <<y, x>> \in R
  OBVIOUS
<1> HIDE DEF R
<1>3. PICK x \in I_ : \A y \in I_ : ~(<<y, x>> \in R)
  BY <1>1, WFMin
<1>4. \A y \in I_ : x <= y
  <2> TAKE y \in I_
  <2>1. x \in Nat /\ y \in Nat /\ ~(y < x)
    BY <1>2, <1>3
  <2> QED
    BY <2>1
<1> QED
  BY <1>3, <1>4

\* Words belong to the last start that is not behind them.
LEMMA OwnerIs ==
  ASSUME NEW im, Code!SoundImage(im), NEW a \in Nat
  PROVE  /\ Code!Owner(im, a) \in Int /\ Code!Owner(im, a) <= a
         /\ a \in Code!DiscoverFunctions(im) => Code!Owner(im, a) = a
<1> DEFINE front == {s \in Code!DiscoverFunctions(im) : s <= a}
<1>1. front \subseteq Nat
  BY DEF Code!SoundImage, Code!DiscoverFunctions
<1>2. Code!Owner(im, a) = IF front = {} THEN -1 ELSE CHOOSE s \in front : \A t \in front : t <= s
  BY DEF Code!Owner
<1>3. CASE front = {}
  BY <1>2, <1>3
<1>4. CASE front # {}
  <2> DEFINE away == {a - s : s \in front}
  <2>1. away \subseteq Nat /\ away # {}
    BY <1>1, <1>4
  <2>2. PICK x \in away : \A y \in away : x <= y
    BY <2>1, FirstOf
  <2>3. PICK s \in front : x = a - s
    OBVIOUS
  <2>4. \A t \in front : t <= s
    BY <1>1, <2>2, <2>3
  <2>5. Code!Owner(im, a) \in front /\ \A t \in front : t <= Code!Owner(im, a)
    BY <1>2, <1>4, <2>3, <2>4
  <2> QED
    BY <1>1, <2>5
<1> QED
  BY <1>3, <1>4

\* A hooked function is not reached from the word in front of it.
LEMMA NotInto ==
  ASSUME NEW im, Code!SoundImage(im), NEW a \in Nat, NEW f \in Int, f <= a, Code!Owner(im, a + 1) = f
  PROVE  a + 1 \notin im.patched
<1>1. a + 1 \in Nat
  OBVIOUS
<1>2. a + 1 \in im.patched => Code!Owner(im, a + 1) = a + 1
  BY <1>1, OwnerIs DEF Code!SoundImage
<1> QED
  BY <1>2

-----------------------------------------------------------------------------
(* What is shown of a state *)

Down(c) == c.stop \notin {"running", "step_limit"}
Alike(c, d) ==
    \/ /\ c.stop = "running" /\ d.stop = "running" /\ c.gpr = d.gpr /\ c.pc = d.pc
       /\ c.pending <=> d.pending
       /\ c.pending => c.target = d.target
    \/ Down(c) /\ Down(d)
    \/ c.stop = "step_limit" /\ d.stop = "step_limit"

\* What is seen of a state that runs, is down, or at the limit.
LEMMA SeenIs ==
  ASSUME NEW c \in State
  PROVE  /\ Down(c) => Code!M!Seen(c) = Code!M!Stopped
         /\ c.stop = "step_limit" => Code!M!Seen(c) = Code!M!Limited
         /\ c.stop = "running" => /\ Code!M!Seen(c) \in State /\ Alike(c, Code!M!Seen(c))
                                  /\ ~c.pending => Code!M!Seen(c).target = 0
<1>1. Down(c) => Code!M!Seen(c) = Code!M!Stopped
  BY DEF Down, Code!M!Seen, Code!M!Running
<1>2. c.stop = "step_limit" => Code!M!Seen(c) = Code!M!Limited
  BY DEF Code!M!Seen
<1>3. ASSUME c.stop = "running", c.pending
      PROVE  Code!M!Seen(c) = [c EXCEPT !.target = c.target]
  BY <1>3 DEF Code!M!Seen, Code!M!Running
<1>4. ASSUME c.stop = "running", ~c.pending
      PROVE  Code!M!Seen(c) = [c EXCEPT !.target = 0]
  BY <1>4 DEF Code!M!Seen, Code!M!Running
<1>5. ASSUME c.stop = "running", c.pending
      PROVE  Code!M!Seen(c) \in State /\ Alike(c, Code!M!Seen(c))
  BY <1>3, <1>5 DEF State, Alike
<1>6. ASSUME c.stop = "running", ~c.pending
      PROVE  Code!M!Seen(c) \in State /\ Alike(c, Code!M!Seen(c)) /\ Code!M!Seen(c).target = 0
  BY <1>4, <1>6 DEF State, Alike
<1> QED
  BY <1>1, <1>2, <1>5, <1>6

\* States that are alike are seen as the same.
LEMMA SeenSame ==
  ASSUME NEW c \in State, NEW d \in State, Alike(c, d)
  PROVE  Code!M!Seen(c) = Code!M!Seen(d)
<1>1. CASE c.stop = "running" /\ d.stop = "running" /\ c.pending
  <2>1. /\ Code!M!Seen(c) = [c EXCEPT !.target = c.target]
        /\ Code!M!Seen(d) = [d EXCEPT !.target = d.target]
    BY <1>1 DEF Alike, Down, Code!M!Seen, Code!M!Running
  <2>2. c = d
    BY <1>1, StateIs DEF Alike, Down
  <2> QED
    BY <2>2
<1>2. CASE c.stop = "running" /\ d.stop = "running" /\ ~c.pending
  <2>1. /\ Code!M!Seen(c) = [c EXCEPT !.target = 0]
        /\ Code!M!Seen(d) = [d EXCEPT !.target = 0]
    BY <1>2 DEF Alike, Down, Code!M!Seen, Code!M!Running
  <2> DEFINE e == [c EXCEPT !.target = 0]
             f == [d EXCEPT !.target = 0]
  <2>2. /\ e \in State /\ f \in State /\ e.gpr = f.gpr /\ e.pc = f.pc /\ (e.pending <=> f.pending)
        /\ e.target = f.target /\ e.stop = f.stop
    BY <1>2 DEF State, Alike, Down
  <2> HIDE DEF e, f
  <2>3. e = f
    BY <2>2, StateIs
  <2> QED
    BY <2>1, <2>3 DEF e, f
<1>3. CASE ~(c.stop = "running" /\ d.stop = "running")
  BY <1>3, SeenIs DEF Alike
<1> QED
  BY <1>1, <1>2, <1>3

\* Being alike is transitive and symmetric.
LEMMA AlikeTrans ==
  ASSUME NEW c, NEW d, NEW e, Alike(c, d), Alike(d, e)
  PROVE  Alike(c, e)
  BY DEF Alike, Down

LEMMA AlikeSym ==
  ASSUME NEW c, NEW d, Alike(c, d)
  PROVE  Alike(d, c)
  BY DEF Alike, Down

\* The processor behind a program is the same one as that in front of it.
LEMMA SameMachine ==
  ASSUME NEW x, NEW c, NEW v
  PROVE  /\ Code!Machine!Interpret(x, c) = Code!M!Interpret(x, c)
         /\ Code!Machine!Seen(c) = Code!M!Seen(c)
         /\ Code!Machine!Imported(c, v) = Code!M!Imported(c, v)
         /\ Code!Machine!Stopped = Code!M!Stopped /\ Code!Machine!Limited = Code!M!Limited
  BY DEF Code!Machine!Interpret, Code!M!Interpret, Code!Machine!Effect, Code!M!Effect, Code!Machine!Taken, Code!M!Taken,
         Code!Machine!Seen, Code!M!Seen, Code!Machine!Imported, Code!M!Imported, Code!Machine!Stopped, Code!M!Stopped,
         Code!Machine!Limited, Code!M!Limited, Code!Machine!Running, Code!M!Running

-----------------------------------------------------------------------------
(* One instruction of the interpreter *)

\* The state in front of an instruction.
Cleared(c) == [[c EXCEPT !.pending = FALSE] EXCEPT !.pc = c.pc + 1]

\* The step of the interpreter before the instruction's effect.
LEMMA ClearedIs ==
  ASSUME NEW c \in State
  PROVE  LET e == Cleared(c)
         IN  e \in State /\ e.gpr = c.gpr /\ e.pc = c.pc + 1 /\ ~e.pending /\ e.stop = c.stop
<1> DEFINE p == c.pc + 1
<1>1. p \in Nat
  BY DEF State
<1>2. Cleared(c) = [[c EXCEPT !.pending = FALSE] EXCEPT !.pc = p]
  BY DEF Cleared
<1> HIDE DEF p
<1>3. LET e == Cleared(c)
      IN  e \in State /\ e.gpr = c.gpr /\ e.pc = p /\ ~e.pending /\ e.stop = c.stop
  BY <1>1, <1>2 DEF State
<1> QED
  BY <1>3 DEF p

\* The words of a sound image.
LEMMA CodeIs ==
  ASSUME NEW im, Code!SoundImage(im), NEW a \in Code!Words(im)
  PROVE  /\ a \in Nat /\ im.code[a] \in Code!Instruction /\ a # Odd /\ a # Return
         /\ im.code[a].op \in Branching <=> Code!StartsDelayedBranch(im.code[a])
         /\ Code!StartsDelayedBranch(im.code[a]) =>
              /\ a + 1 \notin im.patched
              /\ a + 1 \in Code!Words(im) => ~Code!StartsDelayedBranch(im.code[a + 1])
         /\ im.code[a].op = "jal" => a + 2 \notin im.imports
         /\ im.code[a].op = "jalr" => im.code[a].s # im.code[a].r
         /\ Code!HasTarget(im.code[a]) /\ Code!Owner(im, im.code[a].to) = Code!Owner(im, a) =>
              im.code[a].to \notin im.imports /\ (im.code[a].to \in im.patched => im.code[a].op = "jal")
  BY DEF Code!SoundImage, Code!StartsDelayedBranch, Branching

\* The instruction at the program counter, and the branch that waits.
LEMMA InterpretIs ==
  ASSUME NEW im, Code!SoundImage(im), NEW c \in State
  PROVE  LET r == Code!M!Interpret(im.code, c)
             d == Code!M!Effect(im.code[c.pc], c.pc, Cleared(c))
         IN  /\ r \in State
             /\ c.pc \notin Code!Words(im) => Down(r)
             /\ c.pc \in Code!Words(im) =>
                  /\ im.code[c.pc].op = "bad" => Down(r)
                  /\ im.code[c.pc].op # "bad" =>
                       r = IF c.pending /\ d.stop = "running" THEN [d EXCEPT !.pc = c.target] ELSE d
<1> DEFINE r == Code!M!Interpret(im.code, c)
           d == Code!M!Effect(im.code[c.pc], c.pc, Cleared(c))
<1>1. c.pc = Odd => r = [c EXCEPT !.stop = "invalid_pc"]
  BY DEF Code!M!Interpret
<1>2. c.pc # Odd /\ c.pc \notin Code!Words(im) => r = [c EXCEPT !.stop = "memory_fault"]
  BY DEF Code!M!Interpret, Code!Words
<1>3. ASSUME c.pc # Odd, c.pc \in Code!Words(im)
      PROVE  /\ im.code[c.pc].op = "bad" => r = [Cleared(c) EXCEPT !.stop = "unsupported_instruction"]
             /\ im.code[c.pc].op # "bad" =>
                  r = IF c.pending /\ d.stop = "running" THEN [d EXCEPT !.pc = c.target] ELSE d
  BY <1>3 DEF Code!M!Interpret, Code!Words, Code!M!Running, Cleared
<1>4. CASE c.pc \notin Code!Words(im)
  <2>1. r = [c EXCEPT !.stop = "invalid_pc"] \/ r = [c EXCEPT !.stop = "memory_fault"]
    BY <1>1, <1>2, <1>4
  <2> HIDE DEF r
  <2>2. r \in State /\ Down(r)
    BY <2>1 DEF State, StopReasons, Down
  <2> QED
    BY <1>4, <2>2 DEF r
<1>5. CASE c.pc \in Code!Words(im)
  <2>1. c.pc # Odd /\ im.code[c.pc] \in Code!Instruction /\ c.pc \in Nat
    BY <1>5, CodeIs
  <2>2. Cleared(c) \in State
    BY ClearedIs
  <2>3. d \in State
    BY <2>1, <2>2, EffectIs
  <2>4. c.target \in Nat
    BY DEF State
  <2> HIDE DEF r, d
  <2>5. ASSUME im.code[c.pc].op = "bad"
        PROVE  r \in State /\ Down(r)
    <3>1. r = [Cleared(c) EXCEPT !.stop = "unsupported_instruction"]
      BY <1>3, <1>5, <2>1, <2>5
    <3> QED
      BY <2>2, <3>1 DEF State, StopReasons, Down
  <2>6. ASSUME im.code[c.pc].op # "bad"
        PROVE  r \in State /\ r = IF c.pending /\ d.stop = "running" THEN [d EXCEPT !.pc = c.target] ELSE d
    <3>1. r = IF c.pending /\ d.stop = "running" THEN [d EXCEPT !.pc = c.target] ELSE d
      BY <1>3, <1>5, <2>1, <2>6
    <3>2. [d EXCEPT !.pc = c.target] \in State
      BY <2>3, <2>4 DEF State
    <3> QED
      BY <2>3, <3>1, <3>2
  <2> QED
    BY <1>5, <2>5, <2>6 DEF r, d
<1> QED
  BY <1>4, <1>5

\* A branch at word a, or another instruction, at what goes by for its state.
LEMMA InterpretAlike ==
  ASSUME NEW im, Code!SoundImage(im), NEW c \in State, NEW d \in State, Alike(c, d), c.stop = "running"
  PROVE  Alike(Code!M!Interpret(im.code, c), Code!M!Interpret(im.code, d))
<1>1. /\ d.stop = "running" /\ c.gpr = d.gpr /\ c.pc = d.pc /\ (c.pending <=> d.pending)
      /\ c.pending => c.target = d.target
  BY DEF Alike, Down
<1> DEFINE r == Code!M!Interpret(im.code, c)
           s == Code!M!Interpret(im.code, d)
           i == im.code[c.pc]
           e == Code!M!Effect(i, c.pc, Cleared(c))
           f == Code!M!Effect(i, c.pc, Cleared(d))
<1>2. CASE c.pc \notin Code!Words(im)
  <2>1. Down(r) /\ Down(s)
    BY <1>1, <1>2, InterpretIs
  <2> QED
    BY <2>1 DEF Alike
<1>3. CASE c.pc \in Code!Words(im) /\ i.op = "bad"
  <2>1. Down(r) /\ Down(s)
    BY <1>1, <1>3, InterpretIs
  <2> QED
    BY <2>1 DEF Alike
<1>4. CASE c.pc \in Code!Words(im) /\ i.op # "bad"
  <2>1. i \in Code!Instruction /\ c.pc \in Nat
    BY <1>4, CodeIs
  <2>2. /\ Cleared(c) \in State /\ Cleared(d) \in State /\ Cleared(c).gpr = Cleared(d).gpr
        /\ Cleared(c).pc = Cleared(d).pc /\ Cleared(c).stop = Cleared(d).stop
        /\ ~Cleared(c).pending /\ ~Cleared(d).pending
    BY <1>1, ClearedIs
  <2>3. e \in State /\ f \in State
    BY <2>1, <2>2, EffectIs
  <2>4. /\ e.gpr = f.gpr /\ e.stop = f.stop /\ (e.pending <=> f.pending)
        /\ e.pending => e.target = f.target
        /\ i.op \in Branching => e.pc = f.pc
    BY <2>1, <2>2, EffectAlike
  <2>5. i.op \notin Branching => e.pc = f.pc
    <3>1. i.op \notin Branching => e.pc = Cleared(c).pc /\ f.pc = Cleared(d).pc
      BY <2>1, <2>2, EffectIs
    <3> QED
      BY <2>2, <3>1
  <2>6. /\ r = IF c.pending /\ e.stop = "running" THEN [e EXCEPT !.pc = c.target] ELSE e
        /\ s = IF d.pending /\ f.stop = "running" THEN [f EXCEPT !.pc = d.target] ELSE f
    BY <1>1, <1>4, InterpretIs
  <2> HIDE DEF r, s, e, f
  <2>7. e.stop # "step_limit" => Alike(r, s)
    BY <1>1, <2>3, <2>4, <2>5, <2>6 DEF Alike, Down, State
  <2>8. e.stop # "step_limit"
    <3>1. e.stop \in {Cleared(c).stop, "syscall", "memory_fault"}
      BY <2>1, <2>2, EffectIs DEF e
    <3> QED
      BY <3>1, ClearedIs
  <2> QED
    BY <2>7, <2>8 DEF r, s
<1> QED
  BY <1>2, <1>3, <1>4

\* Once stopped, always so, and not for having run out of steps.
LEMMA DownStays ==
  ASSUME NEW i \in Code!Instruction, NEW a \in Nat, NEW c \in State, i.op = "jalr" => i.s # i.r
  PROVE  /\ Code!Emitted(i, a, c) \in State
         /\ Down(c) => Down(Code!Emitted(i, a, c))
         /\ c.stop # "step_limit" => Code!Emitted(i, a, c).stop # "step_limit"
<1>1. CASE i.op = "bad"
  <2>1. Code!Emitted(i, a, c) = [c EXCEPT !.stop = "invalid_pc"]
    BY <1>1, EmittedIs
  <2> QED
    BY <2>1 DEF State, StopReasons, Down
<1>2. CASE i.op # "bad"
  <2>1. Code!Emitted(i, a, c) = Code!M!Effect(i, a, c)
    BY <1>2, EmittedIs
  <2>2. Code!M!Effect(i, a, c) \in State /\ Code!M!Effect(i, a, c).stop \in {c.stop, "syscall", "memory_fault"}
    BY EffectIs
  <2> QED
    BY <2>1, <2>2 DEF Down
<1> QED
  BY <1>1, <1>2

-----------------------------------------------------------------------------
(* The host's stack *)

FnFrame(im) ==
    [kind : {"fn"}, fn : Int, at : Code!Words(im), apply : BOOLEAN, to : Nat, calls : BOOLEAN]
HookFrame == [kind : {"hook"}, at : Nat, called : BOOLEAN, before : State]
LoopFrame == [kind : {"loop"}, back : {Sentinel}, saved : State, bypass : Nat]
AboveFrame(im) == FnFrame(im) \cup HookFrame \cup LoopFrame
Stacks(im) ==
    {fs \in Seq(AboveFrame(im) \cup {Code!Loop(Return)}) :
       Len(fs) > 0 /\ fs[1] = Code!Loop(Return) /\ \A n \in 2..Len(fs) : fs[n] \in AboveFrame(im)}

\* The delay slots of calls.
BehindCalls(im) == {a \in Code!Words(im) : a - 1 \in Code!Words(im) /\ im.code[a - 1].op = "jal"}

\* A function above the loop: it is outside of imports and hooked addresses,
\* and waits for a call only behind a delay slot.
PlainFn(im, f) ==
    /\ f \in FnFrame(im) /\ f.fn <= f.at
    /\ f.calls => f.at \in BehindCalls(im)
    /\ ~f.calls => IF f.apply THEN f.at \in Code!DelaySlots(im)
                              ELSE f.at \notin im.imports \cup im.patched

NoHookUpTo(fs, n) == \A k \in 1..n : fs[k].kind # "hook"
FirstHook(fs, h) == h \in 1..Len(fs) /\ fs[h].kind = "hook" /\ NoHookUpTo(fs, h - 1)

\* Functions only, all but the last in a call; the last, too.
Plain(im, fs) ==
    fs \in Stacks(im) /\ \A n \in 2..Len(fs) : PlainFn(im, fs[n]) /\ (n < Len(fs) => fs[n].calls)
Calling(im, fs) ==
    fs \in Stacks(im) /\ \A n \in 2..Len(fs) : PlainFn(im, fs[n]) /\ fs[n].calls

\* Above the loop are functions, all but the last in a call, up to the first hook.
FunctionsFirst(im, fs) ==
    \A n \in 2..Len(fs) : NoHookUpTo(fs, n) =>
        PlainFn(im, fs[n]) /\ (n < Len(fs) => fs[n].calls)

Executing(fs) == fs[Len(fs)].kind = "fn" /\ ~fs[Len(fs)].calls
InCall(fs) == fs[Len(fs)].kind = "fn" /\ fs[Len(fs)].calls

\* A branch that waits has just been executed.
AfterBranch(im, c) ==
    c.stop = "running" /\ c.pending => c.pc > 0 /\ c.pc - 1 \in Code!Words(im)
                                 /\ Code!StartsDelayedBranch(im.code[c.pc - 1])

\* Without a hook.
OutsideHooks(im, c, fs, r, by) ==
    /\ by = Return
    /\ Executing(fs) => r = "none" /\ ~c.pending /\ c.stop # "step_limit"
    /\ InCall(fs) => r # "none"
    /\ ~Executing(fs) => AfterBranch(im, c)

\* In a hook, which is to return to its caller, whatever it calls.
InsideHook(im, c, fs, by, h) ==
    LET b == fs[h].before
    IN  /\ b.stop # "step_limit"
        /\ b.stop = "running" => b.pc \in im.patched /\ ~b.pending
        /\ Down(b) => Down(c)
        /\ Len(fs) = h => c.gpr[RA] = b.gpr[RA] /\ by = Return
        /\ Len(fs) > h => /\ fs[h + 1].kind = "loop" /\ fs[h + 1].bypass = Return
                          /\ fs[h + 1].saved.gpr[RA] = b.gpr[RA]

StackOK(im, c, fs, r, by) ==
    /\ NoHookUpTo(fs, Len(fs)) => OutsideHooks(im, c, fs, r, by)
    /\ \A h \in 1..Len(fs) : FirstHook(fs, h) => InsideHook(im, c, fs, by, h)

CodeTyped ==
    /\ image \in Images /\ cpu \in State /\ ret \in {"none", "true"} /\ bypass \in Nat
    /\ frames \in Stacks(image)
CodeInv == CodeTyped /\ FunctionsFirst(image, frames) /\ StackOK(image, cpu, frames, ret, bypass)

ShownOf(c, fs, r) ==
    LET top == fs[Len(fs)]
        inside == {n \in 1..Len(fs) : fs[n].kind = "hook"}
        First == fs[CHOOSE n \in inside : \A m \in inside : n <= m]
    IN  IF inside # {} THEN Code!M!Seen(First.before)
        ELSE IF top.kind = "fn" /\ ~top.calls /\ r = "none"
               THEN Code!M!Seen([c EXCEPT !.pc = top.at, !.pending = top.apply, !.target = top.to])
               ELSE Code!M!Seen(c)

-----------------------------------------------------------------------------
(* Frames pushed and popped *)

\* A frame's kind says what it is.
LEMMA FrameKinds ==
  ASSUME NEW im, NEW f \in AboveFrame(im)
  PROVE  /\ f.kind = "fn" <=> f \in FnFrame(im)
         /\ f.kind = "hook" <=> f \in HookFrame
         /\ f.kind = "loop" <=> f \in LoopFrame
  BY DEF AboveFrame, FnFrame, HookFrame, LoopFrame

\* A stack has the loop of run() at the bottom.
LEMMA StackIs ==
  ASSUME NEW im, NEW fs \in Stacks(im)
  PROVE  /\ Len(fs) \in Nat /\ Len(fs) > 0 /\ fs[1] = Code!Loop(Return) /\ fs[1].kind = "loop"
         /\ \A n \in 2..Len(fs) : fs[n] \in AboveFrame(im)
  BY DEF Stacks, Code!Loop

\* A stack without its top.
LEMMA PopIs ==
  ASSUME NEW im, NEW fs \in Stacks(im), Len(fs) > 1
  PROVE  LET gs == SubSeq(fs, 1, Len(fs) - 1)
         IN  gs \in Stacks(im) /\ Len(gs) = Len(fs) - 1 /\ \A n \in 1..(Len(fs) - 1) : gs[n] = fs[n]
<1> DEFINE S_ == AboveFrame(im) \cup {Code!Loop(Return)}
           gs == SubSeq(fs, 1, Len(fs) - 1)
<1>1. fs \in Seq(S_) /\ Len(fs) \in Nat /\ fs[1] = Code!Loop(Return) /\ \A n \in 2..Len(fs) : fs[n] \in AboveFrame(im)
  BY DEF Stacks
<1> HIDE DEF S_
<1>2. gs \in Seq(S_) /\ Len(gs) = Len(fs) - 1 /\ \A n \in 1..(Len(fs) - 1) : gs[n] = fs[n]
  BY <1>1
<1> HIDE DEF gs
<1>3. gs \in Stacks(im)
  BY <1>1, <1>2 DEF Stacks, S_
<1> QED
  BY <1>2, <1>3 DEF gs

\* A stack with one frame more.
LEMMA PushIs ==
  ASSUME NEW im, NEW fs \in Stacks(im), NEW f \in AboveFrame(im)
  PROVE  LET gs == Append(fs, f)
         IN  /\ gs \in Stacks(im) /\ Len(gs) = Len(fs) + 1 /\ gs[Len(fs) + 1] = f
             /\ \A n \in 1..Len(fs) : gs[n] = fs[n]
<1> DEFINE S_ == AboveFrame(im) \cup {Code!Loop(Return)}
           gs == Append(fs, f)
<1>1. /\ fs \in Seq(S_) /\ Len(fs) \in Nat /\ Len(fs) > 0 /\ fs[1] = Code!Loop(Return) /\ f \in S_
      /\ \A n \in 2..Len(fs) : fs[n] \in AboveFrame(im)
  BY DEF Stacks
<1> HIDE DEF S_
<1>2. gs \in Seq(S_) /\ Len(gs) = Len(fs) + 1 /\ gs[Len(fs) + 1] = f /\ \A n \in 1..Len(fs) : gs[n] = fs[n]
  BY <1>1
<1> HIDE DEF gs
<1>3. gs \in Stacks(im)
  BY <1>1, <1>2 DEF Stacks, S_
<1> QED
  BY <1>2, <1>3 DEF gs

\* A stack without a hook is plain.
LEMMA PlainIs ==
  ASSUME NEW im, NEW fs \in Stacks(im)
  PROVE  /\ Plain(im, fs) => FunctionsFirst(im, fs) /\ NoHookUpTo(fs, Len(fs))
         /\ FunctionsFirst(im, fs) /\ NoHookUpTo(fs, Len(fs)) => Plain(im, fs)
<1>1. ASSUME Plain(im, fs)
      PROVE  FunctionsFirst(im, fs) /\ NoHookUpTo(fs, Len(fs))
  <2>1. FunctionsFirst(im, fs)
    BY <1>1 DEF Plain, FunctionsFirst
  <2>2. \A n \in 2..Len(fs) : fs[n].kind # "hook"
    BY <1>1 DEF Plain, PlainFn, FnFrame
  <2> QED
    BY <2>1, <2>2, StackIs DEF NoHookUpTo
<1>2. ASSUME FunctionsFirst(im, fs), NoHookUpTo(fs, Len(fs))
      PROVE  Plain(im, fs)
  <2>1. Len(fs) \in Nat
    BY StackIs
  <2>2. \A n \in 2..Len(fs) : NoHookUpTo(fs, n)
    BY <1>2, <2>1 DEF NoHookUpTo
  <2> QED
    BY <1>2, <2>2 DEF FunctionsFirst, Plain
<1> QED
  BY <1>1, <1>2

\* Below a function are functions that are in calls.
LEMMA PlainPop ==
  ASSUME NEW im, NEW fs, Plain(im, fs), Len(fs) > 1
  PROVE  LET gs == SubSeq(fs, 1, Len(fs) - 1)
         IN  Calling(im, gs) /\ Len(gs) = Len(fs) - 1 /\ \A n \in 1..(Len(fs) - 1) : gs[n] = fs[n]
<1> DEFINE gs == SubSeq(fs, 1, Len(fs) - 1)
<1>1. fs \in Stacks(im) /\ Len(fs) \in Nat
  BY StackIs DEF Plain
<1>2. gs \in Stacks(im) /\ Len(gs) = Len(fs) - 1 /\ \A n \in 1..(Len(fs) - 1) : gs[n] = fs[n]
  BY <1>1, PopIs
<1> HIDE DEF gs
<1>3. \A n \in 2..Len(gs) : PlainFn(im, gs[n]) /\ gs[n].calls
  BY <1>1, <1>2 DEF Plain
<1> QED
  BY <1>2, <1>3 DEF Calling, gs

\* A stack whose functions are all in a call.
LEMMA CallingIs ==
  ASSUME NEW im, NEW fs, Calling(im, fs)
  PROVE  Plain(im, fs) /\ ~Executing(fs) /\ (Len(fs) > 1 => InCall(fs))
<1>1. fs \in Stacks(im) /\ Len(fs) \in Nat /\ Len(fs) > 0 /\ fs[1].kind = "loop"
  BY StackIs DEF Calling
<1>2. Plain(im, fs)
  BY <1>1 DEF Calling, Plain
<1>3. Len(fs) > 1 => fs[Len(fs)].kind = "fn" /\ fs[Len(fs)].calls
  BY <1>1 DEF Calling, PlainFn, FnFrame
<1> QED
  BY <1>1, <1>2, <1>3 DEF Executing, InCall

\* A function is called.
LEMMA CallingPush ==
  ASSUME NEW im, NEW fs, Calling(im, fs), NEW f, PlainFn(im, f)
  PROVE  LET gs == Append(fs, f)
         IN  /\ Plain(im, gs) /\ Len(gs) = Len(fs) + 1 /\ gs[Len(gs)] = f /\ (f.calls => Calling(im, gs))
<1> DEFINE gs == Append(fs, f)
<1>1. fs \in Stacks(im) /\ Len(fs) \in Nat /\ Len(fs) > 0
  BY StackIs DEF Calling
<1>2. f \in AboveFrame(im)
  BY DEF PlainFn, AboveFrame
<1>3. gs \in Stacks(im) /\ Len(gs) = Len(fs) + 1 /\ gs[Len(fs) + 1] = f /\ \A n \in 1..Len(fs) : gs[n] = fs[n]
  BY <1>1, <1>2, PushIs
<1> HIDE DEF gs
<1>4. \A n \in 2..Len(gs) : PlainFn(im, gs[n]) /\ (n < Len(gs) => gs[n].calls)
  BY <1>1, <1>3 DEF Calling
<1>5. f.calls => \A n \in 2..Len(gs) : gs[n].calls
  BY <1>1, <1>3 DEF Calling
<1> QED
  BY <1>1, <1>3, <1>4, <1>5 DEF Calling, Plain, gs

\* A hook is called.
LEMMA CallingPushHook ==
  ASSUME NEW im, NEW fs, Calling(im, fs), NEW f \in HookFrame
  PROVE  LET gs == Append(fs, f)
         IN  /\ gs \in Stacks(im) /\ FunctionsFirst(im, gs) /\ Len(gs) = Len(fs) + 1
             /\ FirstHook(gs, Len(gs)) /\ gs[Len(gs)] = f
<1> DEFINE gs == Append(fs, f)
<1>1. fs \in Stacks(im) /\ Len(fs) \in Nat /\ Len(fs) > 0 /\ Plain(im, fs) /\ NoHookUpTo(fs, Len(fs))
  BY StackIs, CallingIs, PlainIs DEF Calling
<1>2. f \in AboveFrame(im) /\ f.kind = "hook"
  BY DEF AboveFrame, HookFrame
<1>3. gs \in Stacks(im) /\ Len(gs) = Len(fs) + 1 /\ gs[Len(fs) + 1] = f /\ \A n \in 1..Len(fs) : gs[n] = fs[n]
  BY <1>1, <1>2, PushIs
<1> HIDE DEF gs
<1>4. FirstHook(gs, Len(gs))
  BY <1>1, <1>2, <1>3 DEF FirstHook, NoHookUpTo
<1>5. FunctionsFirst(im, gs)
  <2> SUFFICES ASSUME NEW n \in 2..Len(gs), NoHookUpTo(gs, n)
               PROVE  PlainFn(im, gs[n]) /\ (n < Len(gs) => gs[n].calls)
    BY DEF FunctionsFirst
  <2>1. n # Len(gs)
    BY <1>1, <1>2, <1>3 DEF NoHookUpTo
  <2>2. n \in 2..Len(fs) /\ gs[n] = fs[n]
    BY <1>1, <1>3, <2>1
  <2> QED
    BY <2>2 DEF Calling
<1> QED
  BY <1>3, <1>4, <1>5 DEF gs

-----------------------------------------------------------------------------
(* What is shown *)

\* What the program shows, of any stack.
LEMMA ShownIs == Code!Shown = ShownOf(cpu, frames, ret) /\ Code!Shown' = ShownOf(cpu', frames', ret')
  BY DEF Code!Shown, Code!Top, ShownOf

\* A stack has a first hook or none.
LEMMA HookOrNone ==
  ASSUME NEW im, NEW fs \in Stacks(im)
  PROVE  NoHookUpTo(fs, Len(fs)) \/ \E h \in 1..Len(fs) : FirstHook(fs, h)
<1>1. Len(fs) \in Nat
  BY StackIs
<1> DEFINE inside == {n \in 1..Len(fs) : fs[n].kind = "hook"}
<1>2. CASE inside = {}
  BY <1>2 DEF NoHookUpTo
<1>3. CASE inside # {}
  <2>1. inside \subseteq Nat
    BY <1>1
  <2>2. PICK h \in inside : \A n \in inside : h <= n
    BY <1>3, <2>1, FirstOf
  <2>3. FirstHook(fs, h)
    BY <1>1, <2>2 DEF FirstHook, NoHookUpTo
  <2> QED
    BY <2>3
<1> QED
  BY <1>2, <1>3

\* There is one first hook.
LEMMA OneFirstHook ==
  ASSUME NEW fs, Len(fs) \in Nat, NEW h, NEW k, FirstHook(fs, h), FirstHook(fs, k)
  PROVE  h = k
  BY DEF FirstHook, NoHookUpTo

\* Without a hook the function or the loop is shown.
LEMMA ShownPlain ==
  ASSUME NEW c, NEW fs, NEW r, NoHookUpTo(fs, Len(fs))
  PROVE  ShownOf(c, fs, r) =
           LET top == fs[Len(fs)]
           IN  IF Executing(fs) /\ r = "none"
                 THEN Code!M!Seen([c EXCEPT !.pc = top.at, !.pending = top.apply, !.target = top.to])
                 ELSE Code!M!Seen(c)
<1>1. {n \in 1..Len(fs) : fs[n].kind = "hook"} = {}
  BY DEF NoHookUpTo
<1> QED
  BY <1>1 DEF ShownOf, Executing

\* With hooks the state before the first one is shown.
LEMMA ShownInHook ==
  ASSUME NEW c, NEW fs, NEW r, Len(fs) \in Nat, NEW h, FirstHook(fs, h)
  PROVE  ShownOf(c, fs, r) = Code!M!Seen(fs[h].before)
<1> DEFINE inside == {n \in 1..Len(fs) : fs[n].kind = "hook"}
           f == CHOOSE n \in inside : \A m \in inside : n <= m
<1>1. h \in inside /\ \A m \in inside : h <= m
  BY DEF FirstHook, NoHookUpTo
<1>2. f \in inside /\ \A m \in inside : f <= m
  BY <1>1
<1>3. f = h
  BY <1>1, <1>2
<1>4. ShownOf(c, fs, r) = Code!M!Seen(fs[f].before)
  BY <1>1 DEF ShownOf
<1> QED
  BY <1>3, <1>4

\* What goes on above the first hook is not shown.
LEMMA HookKept ==
  ASSUME NEW im, NEW fs \in Stacks(im), NEW gs \in Stacks(im), NEW h, FirstHook(fs, h),
         FunctionsFirst(im, fs), Len(gs) >= h, \A n \in 1..(h - 1) : gs[n] = fs[n],
         gs[h].kind = "hook", gs[h].before = fs[h].before,
         NEW c, NEW r, NEW d, NEW s, NEW by, InsideHook(im, d, gs, by, h)
  PROVE  FunctionsFirst(im, gs) /\ StackOK(im, d, gs, s, by) /\ ShownOf(d, gs, s) = ShownOf(c, fs, r)
<1>1. Len(fs) \in Nat /\ Len(gs) \in Nat /\ h \in 1..Len(fs) /\ h \in 1..Len(gs)
  BY StackIs DEF FirstHook
<1>2. FirstHook(gs, h)
  BY <1>1 DEF FirstHook, NoHookUpTo
<1>3. FunctionsFirst(im, gs)
  <2> SUFFICES ASSUME NEW n \in 2..Len(gs), NoHookUpTo(gs, n)
               PROVE  PlainFn(im, gs[n]) /\ (n < Len(gs) => gs[n].calls)
    BY DEF FunctionsFirst
  <2>1. n < h
    BY <1>1, <1>2 DEF FirstHook, NoHookUpTo
  <2>2. n \in 2..Len(fs) /\ NoHookUpTo(fs, n) /\ gs[n] = fs[n] /\ n < Len(fs)
    BY <1>1, <2>1 DEF FirstHook, NoHookUpTo
  <2> QED
    BY <2>2 DEF FunctionsFirst
<1>4. ~NoHookUpTo(gs, Len(gs))
  BY <1>1, <1>2 DEF FirstHook, NoHookUpTo
<1>5. \A k \in 1..Len(gs) : FirstHook(gs, k) => k = h
  BY <1>1, <1>2, OneFirstHook
<1>6. StackOK(im, d, gs, s, by)
  BY <1>4, <1>5 DEF StackOK
<1>7. ShownOf(d, gs, s) = ShownOf(c, fs, r)
  BY <1>1, <1>2, ShownInHook
<1> QED
  BY <1>3, <1>6, <1>7

-----------------------------------------------------------------------------
(* What the steps leave alone *)

ImagesAreSound == \A im \in Images : Code!SoundImage(im)

\* Frames below the last one stay, and the last, too, if a loop.
Kept ==
    /\ Len(frames') >= Len(frames) - 1 /\ \A n \in 1..(Len(frames) - 1) : frames'[n] = frames[n]
    /\ Code!Top.kind = "loop" /\ ~Code!OriginalReturns =>
         Len(frames') >= Len(frames) /\ frames'[Len(frames)] = Code!Top
TypedStep == CodeTyped' /\ image' = image /\ (Down(cpu) => Down(cpu'))

\* The top of the host's stack.
LEMMA TopIs ==
  ASSUME CodeTyped
  PROVE  /\ Len(frames) \in Nat /\ Len(frames) > 0 /\ frames \in Stacks(image)
         /\ Code!Top = frames[Len(frames)] /\ Code!Below = SubSeq(frames, 1, Len(frames) - 1)
         /\ Code!Top.kind # "loop" => Len(frames) > 1
         /\ Len(frames) > 1 => Code!Top \in AboveFrame(image)
         /\ Code!Top.kind = "fn" => Code!Top \in FnFrame(image)
         /\ Code!Top.kind = "hook" => Code!Top \in HookFrame
         /\ Len(frames) > 1 /\ Code!Top.kind = "loop" => Code!Top \in LoopFrame
<1>1. /\ Len(frames) \in Nat /\ Len(frames) > 0 /\ frames \in Stacks(image) /\ frames[1].kind = "loop"
      /\ \A n \in 2..Len(frames) : frames[n] \in AboveFrame(image)
  BY StackIs DEF CodeTyped
<1>2. Code!Top = frames[Len(frames)] /\ Code!Below = SubSeq(frames, 1, Len(frames) - 1)
  BY DEF Code!Top, Code!Below
<1>3. Code!Top.kind # "loop" => Len(frames) > 1
  BY <1>1, <1>2
<1>4. Len(frames) > 1 => Code!Top \in AboveFrame(image)
  BY <1>1, <1>2
<1>5. /\ Code!Top.kind = "fn" => Code!Top \in FnFrame(image)
      /\ Code!Top.kind = "hook" => Code!Top \in HookFrame
      /\ Len(frames) > 1 /\ Code!Top.kind = "loop" => Code!Top \in LoopFrame
  BY <1>3, <1>4, FrameKinds
<1> QED
  BY <1>1, <1>2, <1>3, <1>4, <1>5

\* The host's stack below its top.
LEMMA BelowIs ==
  ASSUME CodeTyped, Len(frames) > 1
  PROVE  Code!Below \in Stacks(image) /\ Len(Code!Below) = Len(frames) - 1
         /\ \A n \in 1..(Len(frames) - 1) : Code!Below[n] = frames[n]
<1>1. frames \in Stacks(image) /\ Code!Below = SubSeq(frames, 1, Len(frames) - 1)
  BY TopIs
<1> QED
  BY <1>1, PopIs

\* What the entry of a function or hook leaves.
LEMMA EnterTyped ==
  ASSUME CodeTyped, ImagesAreSound, NEW bs \in Stacks(image), NEW a \in Nat, NEW c \in State,
         Code!Enter(a, bs, c), Code!Hooked(a) \/ a \in Code!Words(image)
  PROVE  /\ cpu' \in State /\ frames' \in Stacks(image) /\ cpu'.stop = c.stop
         /\ Len(frames') = Len(bs) + 1 /\ \A n \in 1..Len(bs) : frames'[n] = bs[n]
<1>1. CASE Code!Hooked(a)
  <2> DEFINE f == [kind |-> "hook", at |-> a, called |-> FALSE, before |-> c]
  <2>1. frames' = Append(bs, f) /\ cpu' = c
    BY <1>1 DEF Code!Enter
  <2>2. f \in AboveFrame(image)
    BY DEF AboveFrame, HookFrame
  <2> HIDE DEF f
  <2> QED
    BY <2>1, <2>2, PushIs
<1>2. CASE ~Code!Hooked(a)
  <2> DEFINE f == [kind |-> "fn", fn |-> Code!Owner(image, a), at |-> a, apply |-> c.pending, to |-> c.target,
                   calls |-> FALSE]
  <2>1. frames' = Append(bs, f) /\ cpu' = [c EXCEPT !.pending = FALSE]
    BY <1>2 DEF Code!Enter
  <2>2. Code!Owner(image, a) \in Int
    BY OwnerIs DEF CodeTyped, ImagesAreSound
  <2>3. c.pending \in BOOLEAN /\ c.target \in Nat
    BY DEF State
  <2>4. f \in FnFrame(image)
    BY <1>2, <2>2, <2>3 DEF FnFrame
  <2> HIDE DEF f
  <2>5. cpu' \in State /\ cpu'.stop = c.stop
    BY <2>1 DEF State
  <2>6. f \in AboveFrame(image)
    BY <2>4 DEF AboveFrame
  <2> QED
    BY <2>1, <2>5, <2>6, PushIs
<1> QED
  BY <1>1, <1>2

\* What a goto leaves.
LEMMA GotoTyped ==
  ASSUME CodeTyped, Code!Top.kind = "fn", NEW a \in Code!Words(image), NEW c \in State, NEW w \in BOOLEAN, NEW t \in Nat,
         Code!Goto(a, c, w, t)
  PROVE  /\ cpu' = c /\ ret' = "none" /\ frames' \in Stacks(image)
         /\ Len(frames') = Len(frames) /\ \A n \in 1..(Len(frames) - 1) : frames'[n] = frames[n]
<1> DEFINE f == [Code!Top EXCEPT !.at = a, !.apply = w, !.to = t, !.calls = FALSE]
<1>1. frames' = Append(Code!Below, f) /\ cpu' = c /\ ret' = "none"
  BY DEF Code!Goto
<1>2. Code!Top \in FnFrame(image) /\ Len(frames) > 1 /\ Len(frames) \in Nat
  BY TopIs
<1>3. f \in AboveFrame(image)
  BY <1>2 DEF FnFrame, AboveFrame
<1> HIDE DEF f
<1>4. Code!Below \in Stacks(image) /\ Len(Code!Below) = Len(frames) - 1
      /\ \A n \in 1..(Len(frames) - 1) : Code!Below[n] = frames[n]
  BY <1>2, BelowIs
<1> QED
  BY <1>1, <1>2, <1>3, <1>4, PushIs

\* Where a branch that is taken goes.
LEMMA TakeBranchIs ==
  ASSUME NEW a, NEW d, Code!TakeBranch(a, d)
  PROVE  LET c == [d EXCEPT !.pc = Code!Top.to]
             i == image.code[a - 1]
             f == [Code!Top EXCEPT !.at = a, !.apply = FALSE, !.calls = TRUE]
         IN  \/ /\ a - 1 \in Code!Words(image) /\ i.op = "jal" /\ Code!Top.to \in Code!DiscoverFunctions(image)
                /\ Code!Enter(Code!Top.to, Append(Code!Below, f), c) /\ ret' = "none"
             \/ /\ Code!Top.to \in Code!DiscoverFunctions(image)
                /\ Code!Enter(Code!Top.to, Code!Below, c) /\ ret' = "none"
             \/ /\ a - 1 \in Code!Words(image) /\ Code!HasTarget(i) /\ i.to = Code!Top.to
                /\ Code!Owner(image, a - 1) = Code!Top.fn /\ Code!Owner(image, i.to) = Code!Top.fn
                /\ Code!Top.to \in Code!BlockEntries(image)
                /\ ~(i.op = "jal" /\ i.to \in Code!DiscoverFunctions(image))
                /\ Code!Goto(Code!Top.to, c, FALSE, 0)
             \/ Code!Returned("true") /\ cpu' = c
  BY DEF Code!TakeBranch

\* What a return leaves.
LEMMA ReturnedTyped ==
  ASSUME CodeTyped, Code!Top.kind # "loop", NEW v, Code!Returned(v)
  PROVE  /\ ret' = v /\ frames' \in Stacks(image) /\ frames' = Code!Below
         /\ Len(frames') = Len(frames) - 1 /\ \A n \in 1..(Len(frames) - 1) : frames'[n] = frames[n]
<1>1. frames' = Code!Below /\ ret' = v
  BY DEF Code!Returned
<1>2. Len(frames) > 1
  BY TopIs
<1> QED
  BY <1>1, <1>2, BelowIs

\* Steps that end in a state, with frames below the last one as they were.
LEMMA TypedAgain ==
  ASSUME CodeTyped, image' = image, cpu' \in State, ret' \in {"none", "true"}, bypass' \in Nat,
         frames' \in Stacks(image)
  PROVE  CodeTyped'
  BY DEF CodeTyped

\* The instruction at hand in a generated function.
LEMMA ExecuteIs ==
  ASSUME CodeTyped, ImagesAreSound, Code!Execute
  PROVE  LET a == Code!Top.at
             i == image.code[a]
             slot == a \in Code!DelaySlots(image)
             near == slot \/ Code!StartsDelayedBranch(i) \/ Code!MayStop(i) \/ ~Code!HasNext(image, a)
             at == IF near THEN [cpu EXCEPT !.pc = a + 1] ELSE cpu
             d == Code!Emitted(i, a, at)
         IN  /\ Code!Top \in FnFrame(image) /\ ~Code!Top.calls /\ ret = "none" /\ Len(frames) > 1
             /\ a \in Code!Words(image) /\ a \in Nat /\ i \in Code!Instruction /\ Code!SoundImage(image)
             /\ at \in State /\ at.gpr = cpu.gpr /\ at.stop = cpu.stop /\ (at.pending <=> cpu.pending)
             /\ near => at.pc = a + 1
             /\ d \in State /\ (Down(cpu) => Down(d)) /\ (cpu.stop # "step_limit" => d.stop # "step_limit")
             /\ UNCHANGED <<image, blocks, bypass>>
             /\ \/ Code!MayStop(i) /\ d.stop # "running" /\ Code!Returned("true") /\ cpu' = d
                \/ /\ ~(Code!MayStop(i) /\ d.stop # "running") /\ slot /\ Code!Top.apply
                   /\ Code!TakeBranch(a, d)
                \/ /\ ~(Code!MayStop(i) /\ d.stop # "running") /\ ~(slot /\ Code!Top.apply)
                   /\ \/ /\ Code!StartsDelayedBranch(i) /\ d.pc # a + 1
                         /\ Code!Returned("true") /\ cpu' = d
                      \/ ~Code!HasNext(image, a) /\ Code!Returned("true") /\ cpu' = d
                      \/ /\ Code!StartsDelayedBranch(i) /\ d.pc = a + 1 /\ Code!HasNext(image, a)
                         /\ Code!Goto(a + 1, [d EXCEPT !.pending = FALSE], d.pending, d.target)
                      \/ /\ ~Code!StartsDelayedBranch(i) /\ Code!HasNext(image, a)
                         /\ Code!Goto(a + 1, d, Code!Top.apply, Code!Top.to)
<1> DEFINE a == Code!Top.at
           i == image.code[a]
           slot == a \in Code!DelaySlots(image)
           near == slot \/ Code!StartsDelayedBranch(i) \/ Code!MayStop(i) \/ ~Code!HasNext(image, a)
           at == IF near THEN [cpu EXCEPT !.pc = a + 1] ELSE cpu
           d == Code!Emitted(i, a, at)
<1>1. Code!Top.kind = "fn" /\ ~Code!Top.calls /\ ret = "none" /\ UNCHANGED <<image, blocks, bypass>>
  BY DEF Code!Execute
<1>2. Code!Top \in FnFrame(image) /\ Len(frames) > 1 /\ Code!SoundImage(image)
  BY <1>1, TopIs DEF CodeTyped, ImagesAreSound
<1>3. a \in Code!Words(image)
  BY <1>2 DEF FnFrame
<1>4. a \in Nat /\ i \in Code!Instruction /\ (i.op = "jalr" => i.s # i.r)
  BY <1>2, <1>3, CodeIs
<1>5. cpu \in State
  BY DEF CodeTyped
<1>6. \/ Code!MayStop(i) /\ d.stop # "running" /\ Code!Returned("true") /\ cpu' = d
      \/ /\ ~(Code!MayStop(i) /\ d.stop # "running") /\ slot /\ Code!Top.apply
         /\ Code!TakeBranch(a, d)
      \/ /\ ~(Code!MayStop(i) /\ d.stop # "running") /\ ~(slot /\ Code!Top.apply)
         /\ \/ /\ Code!StartsDelayedBranch(i) /\ d.pc # a + 1
               /\ Code!Returned("true") /\ cpu' = d
            \/ ~Code!HasNext(image, a) /\ Code!Returned("true") /\ cpu' = d
            \/ /\ Code!StartsDelayedBranch(i) /\ d.pc = a + 1 /\ Code!HasNext(image, a)
               /\ Code!Goto(a + 1, [d EXCEPT !.pending = FALSE], d.pending, d.target)
            \/ /\ ~Code!StartsDelayedBranch(i) /\ Code!HasNext(image, a)
               /\ Code!Goto(a + 1, d, Code!Top.apply, Code!Top.to)
  BY DEF Code!Execute, Code!M!Running
<1> HIDE DEF near
<1>7. at \in State /\ at.gpr = cpu.gpr /\ at.stop = cpu.stop /\ (at.pending <=> cpu.pending) /\ (near => at.pc = a + 1)
  <2> HIDE DEF a
  <2>1. CASE near
    BY <1>4, <1>5, <2>1 DEF State
  <2>2. CASE ~near
    BY <1>5, <2>2
  <2> QED
    BY <2>1, <2>2
<1> HIDE DEF at
<1>8. d \in State /\ (Down(cpu) => Down(d)) /\ (cpu.stop # "step_limit" => d.stop # "step_limit")
  <2>1. Down(cpu) => Down(at)
    BY <1>7 DEF Down
  <2> QED
    BY <1>4, <1>7, <2>1, DownStays
<1> HIDE DEF a, i, slot, d
<1>9. /\ Code!Top \in FnFrame(image) /\ ~Code!Top.calls /\ ret = "none" /\ Len(frames) > 1
      /\ a \in Code!Words(image) /\ a \in Nat /\ i \in Code!Instruction /\ Code!SoundImage(image)
      /\ UNCHANGED <<image, blocks, bypass>>
  BY <1>1, <1>2, <1>3, <1>4
<1> QED
  BY <1>6, <1>7, <1>8, <1>9 DEF a, i, slot, near, at, d

\* An instruction keeps the types and all frames below the top.
LEMMA ExecuteTyped ==
  ASSUME CodeTyped, ImagesAreSound, Code!Execute
  PROVE  TypedStep /\ Kept
<1> DEFINE a == Code!Top.at
           i == image.code[a]
           slot == a \in Code!DelaySlots(image)
           near == slot \/ Code!StartsDelayedBranch(i) \/ Code!MayStop(i) \/ ~Code!HasNext(image, a)
           at == IF near THEN [cpu EXCEPT !.pc = a + 1] ELSE cpu
           d == Code!Emitted(i, a, at)
           c == [d EXCEPT !.pc = Code!Top.to]
<1>1. /\ Code!Top \in FnFrame(image) /\ ~Code!Top.calls /\ ret = "none" /\ Len(frames) > 1
      /\ a \in Code!Words(image) /\ a \in Nat /\ i \in Code!Instruction /\ Code!SoundImage(image)
      /\ d \in State /\ (Down(cpu) => Down(d)) /\ UNCHANGED <<image, bypass>>
  BY ExecuteIs
<1>2. \/ Code!Returned("true") /\ cpu' = d
      \/ Code!TakeBranch(a, d)
      \/ Code!HasNext(image, a) /\ Code!Goto(a + 1, [d EXCEPT !.pending = FALSE], d.pending, d.target)
      \/ Code!HasNext(image, a) /\ Code!Goto(a + 1, d, Code!Top.apply, Code!Top.to)
  BY ExecuteIs
<1>3. /\ Code!Top.kind = "fn" /\ Len(frames) \in Nat /\ bypass \in Nat /\ Code!Top.to \in Nat /\ Code!Top.apply \in BOOLEAN
  BY <1>1, TopIs DEF CodeTyped, FnFrame
<1> HIDE DEF d, a
<1>4. c \in State /\ c.stop = d.stop
  BY <1>1, <1>3 DEF State
<1>5. d.pending \in BOOLEAN /\ d.target \in Nat
  BY <1>1 DEF State
<1> HIDE DEF c
<1>6. SUFFICES /\ cpu' \in State /\ ret' \in {"none", "true"} /\ frames' \in Stacks(image) /\ cpu'.stop = d.stop
               /\ Len(frames') >= Len(frames) - 1 /\ \A n \in 1..(Len(frames) - 1) : frames'[n] = frames[n]
  <2>1. CodeTyped'
    BY <1>1, <1>3, <1>6, TypedAgain
  <2> QED
    BY <1>1, <1>3, <1>6, <2>1 DEF TypedStep, Kept, Down
<1>7. CASE Code!Returned("true") /\ cpu' = d
  BY <1>1, <1>3, <1>7, ReturnedTyped
<1>8. CASE Code!HasNext(image, a) /\ Code!Goto(a + 1, [d EXCEPT !.pending = FALSE], d.pending, d.target)
  <2> DEFINE e == [d EXCEPT !.pending = FALSE]
  <2>1. e \in State /\ e.stop = d.stop
    BY <1>1 DEF State
  <2> HIDE DEF e
  <2>2. a + 1 \in Code!Words(image) /\ Code!Goto(a + 1, e, d.pending, d.target)
    BY <1>8 DEF Code!HasNext, e
  <2> QED
    BY <1>3, <1>5, <2>1, <2>2, GotoTyped
<1>9. CASE Code!HasNext(image, a) /\ Code!Goto(a + 1, d, Code!Top.apply, Code!Top.to)
  <2>1. a + 1 \in Code!Words(image)
    BY <1>9 DEF Code!HasNext
  <2> QED
    BY <1>1, <1>3, <1>9, <2>1, GotoTyped
<1>10. CASE Code!TakeBranch(a, d)
  <2> DEFINE f == [Code!Top EXCEPT !.at = a, !.apply = FALSE, !.calls = TRUE]
  <2>1. \/ Code!Top.to \in Code!DiscoverFunctions(image) /\ Code!Enter(Code!Top.to, Append(Code!Below, f), c) /\ ret' = "none"
        \/ Code!Top.to \in Code!DiscoverFunctions(image) /\ Code!Enter(Code!Top.to, Code!Below, c) /\ ret' = "none"
        \/ Code!Top.to \in Code!BlockEntries(image) /\ Code!Goto(Code!Top.to, c, FALSE, 0)
        \/ Code!Returned("true") /\ cpu' = c
    BY <1>10, TakeBranchIs DEF c
  <2>2. /\ Code!Below \in Stacks(image) /\ Len(Code!Below) = Len(frames) - 1
        /\ \A n \in 1..(Len(frames) - 1) : Code!Below[n] = frames[n]
    BY <1>1, BelowIs
  <2>3. f \in AboveFrame(image)
    BY <1>1 DEF FnFrame, AboveFrame
  <2> HIDE DEF f
  <2>4. CASE Code!Top.to \in Code!DiscoverFunctions(image) /\ Code!Enter(Code!Top.to, Append(Code!Below, f), c) /\ ret' = "none"
    <3>1. Code!Top.to \in Code!Words(image)
      BY <2>4 DEF Code!DiscoverFunctions
    <3>2. /\ Append(Code!Below, f) \in Stacks(image) /\ Len(Append(Code!Below, f)) = Len(frames)
          /\ \A n \in 1..(Len(frames) - 1) : Append(Code!Below, f)[n] = frames[n]
      BY <1>3, <2>2, <2>3, PushIs
    <3>3. /\ cpu' \in State /\ frames' \in Stacks(image) /\ cpu'.stop = c.stop
          /\ Len(frames') = Len(frames) + 1 /\ \A n \in 1..Len(frames) : frames'[n] = Append(Code!Below, f)[n]
      BY <1>3, <1>4, <2>4, <3>1, <3>2, EnterTyped
    <3> QED
      BY <1>3, <1>4, <2>4, <3>2, <3>3
  <2>5. CASE Code!Top.to \in Code!DiscoverFunctions(image) /\ Code!Enter(Code!Top.to, Code!Below, c) /\ ret' = "none"
    <3>1. Code!Top.to \in Code!Words(image)
      BY <2>5 DEF Code!DiscoverFunctions
    <3>3. /\ cpu' \in State /\ frames' \in Stacks(image) /\ cpu'.stop = c.stop
          /\ Len(frames') = Len(frames) /\ \A n \in 1..(Len(frames) - 1) : frames'[n] = Code!Below[n]
      BY <1>3, <1>4, <2>2, <2>5, <3>1, EnterTyped
    <3> QED
      BY <1>3, <1>4, <2>2, <2>5, <3>3
  <2>6. CASE Code!Top.to \in Code!BlockEntries(image) /\ Code!Goto(Code!Top.to, c, FALSE, 0)
    <3>1. Code!Top.to \in Code!Words(image)
      BY <2>6 DEF Code!BlockEntries
    <3>2. FALSE \in BOOLEAN /\ 0 \in Nat
      OBVIOUS
    <3>3. /\ cpu' = c /\ ret' = "none" /\ frames' \in Stacks(image)
          /\ Len(frames') = Len(frames) /\ \A n \in 1..(Len(frames) - 1) : frames'[n] = frames[n]
      BY <1>3, <1>4, <2>6, <3>1, <3>2, GotoTyped, Zenon
    <3> QED
      BY <1>3, <1>4, <3>3
  <2>7. CASE Code!Returned("true") /\ cpu' = c
    BY <1>1, <1>3, <1>4, <2>7, ReturnedTyped
  <2> QED
    BY <2>1, <2>4, <2>5, <2>6, <2>7
<1> QED
  BY <1>2, <1>7, <1>8, <1>9, <1>10

\* So does the return of a native call,
LEMMA CallReturnsTyped ==
  ASSUME CodeTyped, ImagesAreSound, Code!CallReturns
  PROVE  TypedStep /\ Kept
<1> DEFINE back == Code!Top.at + 1
<1>1. /\ Code!Top.kind = "fn" /\ ret # "none" /\ UNCHANGED <<image, blocks, bypass>>
      /\ \/ Code!CameBack(back) /\ Code!Goto(back, cpu, FALSE, 0)
         \/ ~Code!CameBack(back) /\ Code!Returned(ret) /\ UNCHANGED cpu
  BY DEF Code!CallReturns
<1>2. Len(frames) > 1 /\ Len(frames) \in Nat /\ cpu \in State /\ ret = "true" /\ bypass \in Nat
  BY <1>1, TopIs DEF CodeTyped
<1> HIDE DEF back
<1>3. SUFFICES /\ cpu' = cpu /\ ret' \in {"none", "true"} /\ frames' \in Stacks(image)
               /\ Len(frames') >= Len(frames) - 1 /\ \A n \in 1..(Len(frames) - 1) : frames'[n] = frames[n]
  <2>1. CodeTyped'
    BY <1>1, <1>2, <1>3, TypedAgain
  <2> QED
    BY <1>1, <1>3, <2>1 DEF TypedStep, Kept
<1>4. CASE Code!CameBack(back) /\ Code!Goto(back, cpu, FALSE, 0)
  <2>1. back \in Code!Words(image)
    BY <1>4 DEF Code!CameBack, Code!BlockEntries
  <2>2. FALSE \in BOOLEAN /\ 0 \in Nat
    OBVIOUS
  <2>3. /\ cpu' = cpu /\ ret' = "none" /\ frames' \in Stacks(image)
        /\ Len(frames') = Len(frames) /\ \A n \in 1..(Len(frames) - 1) : frames'[n] = frames[n]
    BY <1>1, <1>2, <1>4, <2>1, <2>2, GotoTyped, Zenon
  <2> QED
    BY <1>2, <2>3
<1>5. CASE Code!Returned(ret) /\ UNCHANGED cpu
  BY <1>1, <1>2, <1>5, ReturnedTyped
<1> QED
  BY <1>1, <1>4, <1>5

\* a dispatch,
LEMMA DispatchTyped ==
  ASSUME CodeTyped, ImagesAreSound, Code!Dispatch
  PROVE  TypedStep /\ Kept
<1>1. /\ Code!Top.kind = "loop" /\ Code!Enter(cpu.pc, frames, cpu) /\ UNCHANGED <<image, ret, bypass>>
      /\ Code!Hooked(cpu.pc) \/ cpu.pc \in Code!Words(image)
  BY DEF Code!Dispatch, Code!InLoop, Code!Translated, Code!BlockEntries
<1>2. frames \in Stacks(image) /\ Len(frames) \in Nat /\ Len(frames) > 0 /\ cpu \in State /\ cpu.pc \in Nat
      /\ Code!Top = frames[Len(frames)]
  BY TopIs DEF CodeTyped, State
<1>3. /\ cpu' \in State /\ frames' \in Stacks(image) /\ cpu'.stop = cpu.stop
      /\ Len(frames') = Len(frames) + 1 /\ \A n \in 1..Len(frames) : frames'[n] = frames[n]
  BY <1>1, <1>2, EnterTyped
<1>4. CodeTyped'
  BY <1>1, <1>3, TypedAgain DEF CodeTyped
<1> QED
  BY <1>1, <1>2, <1>3, <1>4 DEF TypedStep, Kept, Down

\* Steps of the loop that only change the guest's state.
LEMMA LoopTyped ==
  ASSUME CodeTyped, UNCHANGED <<image, frames, bypass>>, ret' \in {"none", "true"}, cpu' \in State,
         Down(cpu) => Down(cpu')
  PROVE  TypedStep /\ Kept
<1>1. CodeTyped'
  BY TypedAgain DEF CodeTyped
<1> QED
  BY <1>1, TopIs DEF TypedStep, Kept

\* An import's effect.
LEMMA ImportedIs ==
  ASSUME NEW c \in State, NEW v \in HookValues
  PROVE  LET e == Code!M!Imported(c, v)
         IN  e \in State /\ e.stop = c.stop /\ (e.pending <=> c.pending) /\ e.target = c.target
             /\ e.pc = c.gpr[RA] /\ e.gpr = [c.gpr EXCEPT ![V0] = v]
  BY ToolchainAssumption DEF ToolchainAssumption, Code!RecompiledAssumption, Code!M!Imported, State

\* What a function that refuses an address leaves of the state.
LEMMA RefusedIs ==
  ASSUME NEW a, NEW c \in State
  PROVE  LET e == Code!Refused(a, c)
         IN  e \in State /\ e.stop = c.stop /\ e.gpr = c.gpr /\ e.pc = c.pc /\ e.target = c.target
             /\ (~c.pending => ~e.pending)
             /\ ({s \in Code!DiscoverFunctions(image) : s <= a} = {} => (e.pending <=> c.pending))
  BY DEF Code!Refused, State

\* an import,
LEMMA ImportTyped ==
  ASSUME CodeTyped, Code!DispatchImport
  PROVE  TypedStep /\ Kept
<1>1. PICK v \in HookValues : cpu' = Code!M!Imported(cpu, v)
  BY DEF Code!DispatchImport
<1>2. cpu \in State /\ UNCHANGED <<image, frames, ret, bypass>> /\ ret \in {"none", "true"}
  BY DEF Code!DispatchImport, CodeTyped
<1>3. cpu' \in State /\ (Down(cpu) => Down(cpu'))
  BY <1>1, <1>2, ImportedIs DEF Down
<1> QED
  BY <1>2, <1>3, LoopTyped

\* an instruction of the interpreter,
LEMMA FallbackTyped ==
  ASSUME CodeTyped, ImagesAreSound, Code!Fallback
  PROVE  TypedStep /\ Kept
<1>1. /\ cpu \in State /\ UNCHANGED <<image, frames, ret, bypass>> /\ ret \in {"none", "true"}
      /\ Code!SoundImage(image) /\ cpu.stop = "running"
  BY DEF Code!Fallback, CodeTyped, Code!InLoop, Code!M!Running, ImagesAreSound
<1>2. cpu' = Code!M!Interpret(image.code, Code!Refused(cpu.pc, cpu)) /\ Code!Refused(cpu.pc, cpu) \in State
  BY <1>1, RefusedIs DEF Code!Fallback
<1>3. cpu' \in State
  BY <1>1, <1>2, InterpretIs
<1> QED
  BY <1>1, <1>3, LoopTyped DEF Down

\* the steps of a loop,
LEMMA LoopStepsTyped ==
  ASSUME CodeTyped, Code!LoopGoesOn \/ Code!StepLimit \/ Code!RunReturns
  PROVE  TypedStep /\ Kept
<1>1. cpu \in State /\ UNCHANGED <<image, frames, bypass>> /\ ret' \in {"none", "true"}
  BY DEF Code!LoopGoesOn, Code!StepLimit, Code!RunReturns, CodeTyped
<1>2. CASE Code!LoopGoesOn
  BY <1>1, <1>2, LoopTyped DEF Code!LoopGoesOn
<1>3. CASE Code!StepLimit
  <2>1. cpu' = [cpu EXCEPT !.stop = "step_limit"] /\ cpu.stop = "running"
    BY <1>3 DEF Code!StepLimit, Code!InLoop, Code!M!Running
  <2>2. cpu' \in State /\ ~Down(cpu)
    BY <1>1, <2>1 DEF State, StopReasons, Down
  <2> QED
    BY <1>1, <2>2, LoopTyped
<1>4. CASE Code!RunReturns
  <2>1. cpu' = [cpu EXCEPT !.stop = "returned"] /\ cpu.stop = "running"
    BY <1>4 DEF Code!RunReturns, Code!M!Running
  <2>2. cpu' \in State /\ ~Down(cpu)
    BY <1>1, <2>1 DEF State, StopReasons, Down
  <2> QED
    BY <1>1, <2>2, LoopTyped
<1> QED
  BY <1>2, <1>3, <1>4

\* The original of a hook runs in a loop above it.
LEMMA CallOriginalIs ==
  ASSUME CodeTyped, Code!CallOriginal
  PROVE  LET n_ == Len(frames)
         IN  /\ Code!Top.kind = "hook" /\ n_ > 1 /\ UNCHANGED <<image, ret, blocks>> /\ bypass' \in Nat
             /\ cpu' \in State /\ cpu'.stop = cpu.stop
             /\ frames' \in Stacks(image) /\ Len(frames') = n_ + 1
             /\ \A n \in 1..(n_ - 1) : frames'[n] = frames[n]
             /\ frames'[n_].kind = "hook" /\ frames'[n_].before = Code!Top.before
             /\ frames'[n_ + 1].kind = "loop" /\ frames'[n_ + 1].saved = cpu /\ frames'[n_ + 1].bypass = bypass
<1> DEFINE f == [Code!Top EXCEPT !.called = TRUE]
           g == [kind |-> "loop", back |-> Sentinel, saved |-> cpu, bypass |-> bypass]
<1>1. /\ Code!Top.kind = "hook" /\ UNCHANGED <<image, ret, blocks>> /\ bypass' = Code!Top.at
      /\ frames' = Append(Append(Code!Below, f), g)
      /\ cpu' = [[[cpu EXCEPT !.gpr = [cpu.gpr EXCEPT ![RA] = Sentinel]] EXCEPT !.pc = Code!Top.at] EXCEPT !.pending = FALSE]
  BY DEF Code!CallOriginal
<1>2. /\ Len(frames) > 1 /\ Len(frames) \in Nat /\ Code!Top \in HookFrame /\ cpu \in State /\ bypass \in Nat
      /\ Code!Top = frames[Len(frames)]
  BY <1>1, TopIs DEF CodeTyped
<1>3. Code!Top.at \in Nat
  BY <1>2 DEF HookFrame
<1>4. cpu' \in State /\ cpu'.stop = cpu.stop
  BY <1>1, <1>2, <1>3, CodeConstants DEF State
<1>5. f \in AboveFrame(image) /\ f.kind = "hook" /\ f.before = Code!Top.before
  BY <1>2 DEF HookFrame, AboveFrame
<1>6. g \in AboveFrame(image) /\ g.kind = "loop" /\ g.saved = cpu /\ g.bypass = bypass
  BY <1>2 DEF LoopFrame, AboveFrame
<1> DEFINE s == Append(Code!Below, f)
<1> HIDE DEF f, g
<1>7. /\ Code!Below \in Stacks(image) /\ Len(Code!Below) = Len(frames) - 1
      /\ \A n \in 1..(Len(frames) - 1) : Code!Below[n] = frames[n]
  BY <1>2, BelowIs
<1>8. /\ s \in Stacks(image) /\ Len(s) = Len(frames) /\ s[Len(frames)] = f
      /\ \A n \in 1..(Len(frames) - 1) : s[n] = frames[n]
  BY <1>2, <1>5, <1>7, PushIs
<1>9. frames' = Append(s, g)
  BY <1>1
<1> HIDE DEF s
<1>10. /\ frames' \in Stacks(image) /\ Len(frames') = Len(frames) + 1 /\ frames'[Len(frames) + 1] = g
       /\ \A n \in 1..Len(frames) : frames'[n] = s[n]
  BY <1>2, <1>6, <1>8, <1>9, PushIs
<1>11. frames'[Len(frames)] = f /\ \A n \in 1..(Len(frames) - 1) : frames'[n] = frames[n]
  BY <1>2, <1>8, <1>10
<1> QED
  BY <1>1, <1>2, <1>3, <1>4, <1>5, <1>6, <1>10, <1>11

\* a hook's call of its original,
LEMMA CallOriginalTyped ==
  ASSUME CodeTyped, Code!CallOriginal
  PROVE  TypedStep /\ Kept
<1>1. CodeTyped'
  BY CallOriginalIs, TypedAgain DEF CodeTyped
<1> QED
  BY <1>1, CallOriginalIs, TopIs DEF TypedStep, Kept, Down

\* The call is over, and the guest's control as it was.
LEMMA OriginalReturnsIs ==
  ASSUME CodeTyped, Code!OriginalReturns
  PROVE  LET n_ == Len(frames)
         IN  /\ Code!Top.kind = "loop" /\ n_ > 1 /\ UNCHANGED <<image, ret, blocks>>
             /\ bypass' \in Nat /\ bypass' = Code!Top.bypass
             /\ cpu' \in State /\ cpu'.stop = cpu.stop /\ cpu'.gpr[RA] = Code!Top.saved.gpr[RA]
             /\ frames' \in Stacks(image) /\ Len(frames') = n_ - 1
             /\ \A n \in 1..(n_ - 1) : frames'[n] = frames[n]
<1> DEFINE s == Code!Top.saved
<1>1. /\ Code!Top.kind = "loop" /\ Len(frames) > 1 /\ UNCHANGED <<image, ret, blocks>> /\ bypass' = Code!Top.bypass
      /\ frames' = Code!Below
      /\ cpu' = [[[[cpu EXCEPT !.gpr = [cpu.gpr EXCEPT ![RA] = s.gpr[RA]]] EXCEPT !.pc = s.pc] EXCEPT !.pending = s.pending]
                 EXCEPT !.target = s.target]
  BY DEF Code!OriginalReturns
<1>2. Code!Top \in LoopFrame /\ cpu \in State
  BY <1>1, TopIs DEF CodeTyped
<1>3. s \in State /\ Code!Top.bypass \in Nat
  BY <1>2 DEF LoopFrame
<1> HIDE DEF s
<1>4. s.gpr[RA] \in Nat /\ s.pc \in Nat /\ s.pending \in BOOLEAN /\ s.target \in Nat
  BY <1>3, CodeConstants DEF State
<1>5. cpu' \in State /\ cpu'.stop = cpu.stop /\ cpu'.gpr[RA] = s.gpr[RA]
  BY <1>1, <1>2, <1>4, CodeConstants DEF State
<1> QED
  BY <1>1, <1>3, <1>5, BelowIs DEF s

\* its return,
LEMMA OriginalReturnsTyped ==
  ASSUME CodeTyped, Code!OriginalReturns
  PROVE  TypedStep /\ Kept
<1>1. CodeTyped'
  BY OriginalReturnsIs, TypedAgain DEF CodeTyped
<1> QED
  BY <1>1, OriginalReturnsIs, TopIs DEF TypedStep, Kept, Down

\* A hook's result.
LEMMA HookReturnsIs ==
  ASSUME CodeTyped, Code!HookReturns
  PROVE  LET n_ == Len(frames)
         IN  /\ Code!Top.kind = "hook" /\ n_ > 1 /\ UNCHANGED <<image, blocks, bypass>> /\ ret' = "true"
             /\ cpu' \in State /\ cpu'.stop = cpu.stop /\ cpu'.gpr[RA] = cpu.gpr[RA]
             /\ cpu.stop = "running" => cpu'.pc = cpu.gpr[RA] /\ ~cpu'.pending
             /\ frames' \in Stacks(image) /\ frames' = Code!Below /\ Len(frames') = n_ - 1
             /\ \A n \in 1..(n_ - 1) : frames'[n] = frames[n]
<1>1. PICK v \in HookValues :
         cpu' = IF cpu.stop = Code!M!Running
                  THEN [cpu EXCEPT !.gpr[V0] = v, !.pc = cpu.gpr[RA], !.pending = FALSE]
                  ELSE [cpu EXCEPT !.gpr[V0] = v]
  BY DEF Code!HookReturns
<1>2. Code!Top.kind = "hook" /\ UNCHANGED <<image, blocks, bypass>> /\ Code!Returned("true")
  BY DEF Code!HookReturns
<1>3. cpu \in State /\ v \in Nat /\ RA # V0
  BY ToolchainAssumption DEF CodeTyped, ToolchainAssumption, Code!RecompiledAssumption
<1>4. CASE cpu.stop = "running"
  <2>1. cpu' = [[[cpu EXCEPT !.gpr = [cpu.gpr EXCEPT ![V0] = v]] EXCEPT !.pc = cpu.gpr[RA]] EXCEPT !.pending = FALSE]
    BY <1>1, <1>4 DEF Code!M!Running
  <2>2. cpu' \in State /\ cpu'.stop = cpu.stop /\ cpu'.gpr[RA] = cpu.gpr[RA] /\ cpu'.pc = cpu.gpr[RA] /\ ~cpu'.pending
    BY <1>3, <2>1, CodeConstants DEF State
  <2> QED
    BY <1>2, <1>4, <2>2, ReturnedTyped, TopIs
<1>5. CASE cpu.stop # "running"
  <2>1. cpu' = [cpu EXCEPT !.gpr = [cpu.gpr EXCEPT ![V0] = v]]
    BY <1>1, <1>5 DEF Code!M!Running
  <2>2. cpu' \in State /\ cpu'.stop = cpu.stop /\ cpu'.gpr[RA] = cpu.gpr[RA]
    BY <1>3, <2>1, CodeConstants DEF State
  <2> QED
    BY <1>2, <1>5, <2>2, ReturnedTyped, TopIs
<1> QED
  BY <1>4, <1>5

\* and the return of a hook.
LEMMA HookReturnsTyped ==
  ASSUME CodeTyped, Code!HookReturns
  PROVE  TypedStep /\ Kept
<1>1. CodeTyped'
  BY HookReturnsIs, TypedAgain DEF CodeTyped
<1> QED
  BY <1>1, HookReturnsIs, TopIs DEF TypedStep, Kept, Down

\* Every step keeps types and the frames below the last one.
LEMMA StepTyped ==
  ASSUME CodeTyped, ImagesAreSound, Code!RecompiledNext
  PROVE  TypedStep /\ Kept
  BY ExecuteTyped, CallReturnsTyped, DispatchTyped, ImportTyped, FallbackTyped, LoopStepsTyped, CallOriginalTyped,
     OriginalReturnsTyped, HookReturnsTyped DEF Code!RecompiledNext

\* Inside the first hook a step shows nothing.
LEMMA InHookNow ==
  ASSUME CodeInv, TypedStep, NEW h, FirstHook(frames, h), Len(frames') >= h,
         \A n \in 1..(h - 1) : frames'[n] = frames[n], frames'[h].kind = "hook",
         frames'[h].before = frames[h].before, InsideHook(image, cpu', frames', bypass', h)
  PROVE  CodeInv' /\ Code!Shown' = Code!Shown
<1>1. /\ frames \in Stacks(image) /\ frames' \in Stacks(image) /\ image' = image /\ FunctionsFirst(image, frames)
      /\ CodeTyped'
  BY DEF CodeInv, CodeTyped, TypedStep
<1>2. /\ FunctionsFirst(image, frames') /\ StackOK(image, cpu', frames', ret', bypass')
      /\ ShownOf(cpu', frames', ret') = ShownOf(cpu, frames, ret)
  BY <1>1, HookKept
<1>3. FunctionsFirst(image', frames') /\ StackOK(image', cpu', frames', ret', bypass')
  BY <1>1, <1>2
<1>4. CodeInv'
  BY <1>1, <1>3 DEF CodeInv
<1> QED
  BY <1>2, <1>4, ShownIs

\* Under a hook nothing is shown until the hook itself returns.
LEMMA InHookStep ==
  ASSUME CodeInv, ImagesAreSound, Code!RecompiledNext, NEW h, FirstHook(frames, h),
         ~(Code!HookReturns /\ Len(frames) = h)
  PROVE  CodeInv' /\ Code!Shown' = Code!Shown
<1>1. TypedStep /\ Kept /\ CodeTyped
  BY StepTyped DEF CodeInv
<1>2. /\ frames \in Stacks(image) /\ frames' \in Stacks(image) /\ image' = image /\ Len(frames) \in Nat /\ Len(frames') \in Nat
      /\ h \in 1..Len(frames) /\ FunctionsFirst(image, frames) /\ InsideHook(image, cpu, frames, bypass, h)
      /\ frames[h].kind = "hook" /\ frames[1].kind = "loop" /\ Code!Top = frames[Len(frames)]
  BY <1>1, StackIs, TopIs DEF CodeInv, CodeTyped, StackOK, FirstHook, TypedStep
<1>3. CASE Len(frames) = h
  <2>1. Code!CallOriginal
    BY <1>2, <1>3 DEF Code!RecompiledNext, Code!Execute, Code!CallReturns, Code!Dispatch, Code!DispatchImport,
                      Code!Fallback, Code!LoopGoesOn, Code!StepLimit, Code!RunReturns, Code!OriginalReturns, Code!InLoop
  <2>2. /\ Len(frames') = h + 1 /\ (\A n \in 1..(h - 1) : frames'[n] = frames[n])
        /\ frames'[h].kind = "hook" /\ frames'[h].before = frames[h].before /\ cpu'.stop = cpu.stop
        /\ frames'[h + 1].kind = "loop" /\ frames'[h + 1].saved = cpu /\ frames'[h + 1].bypass = bypass
    BY <1>1, <1>2, <1>3, <2>1, CallOriginalIs
  <2>3. InsideHook(image, cpu', frames', bypass', h)
    BY <1>2, <1>3, <2>2 DEF InsideHook, Down
  <2> QED
    BY <1>1, <1>2, <2>2, <2>3, InHookNow
<1>4. CASE Len(frames) > h + 1
  <2>0. /\ Len(frames') >= Len(frames) - 1 /\ \A n \in 1..(Len(frames) - 1) : frames'[n] = frames[n]
    BY <1>1 DEF Kept
  <2>1. Len(frames') > h /\ \A n \in 1..(h + 1) : frames'[n] = frames[n]
    BY <1>2, <1>4, <2>0
  <2>2. frames'[h] = frames[h] /\ frames'[h + 1] = frames[h + 1] /\ \A n \in 1..(h - 1) : frames'[n] = frames[n]
    BY <1>2, <2>1
  <2>3. InsideHook(image, cpu', frames', bypass', h)
    BY <1>1, <1>2, <1>4, <2>1, <2>2 DEF InsideHook, TypedStep
  <2> QED
    BY <1>1, <1>2, <2>1, <2>2, <2>3, InHookNow
<1>5. CASE Len(frames) = h + 1
  <2>1. Code!Top = frames[h + 1] /\ Code!Top.kind = "loop"
    BY <1>2, <1>5 DEF InsideHook
  <2>2. /\ Len(frames') >= h /\ frames'[h] = frames[h] /\ \A n \in 1..(h - 1) : frames'[n] = frames[n]
    BY <1>1, <1>2, <1>5 DEF Kept
  <2>3. CASE Code!OriginalReturns
    <3>1. /\ Len(frames') = h /\ bypass' = Code!Top.bypass /\ cpu'.gpr[RA] = Code!Top.saved.gpr[RA]
          /\ cpu'.stop = cpu.stop
      BY <1>1, <1>2, <1>5, <2>3, OriginalReturnsIs
    <3>2. InsideHook(image, cpu', frames', bypass', h)
      BY <1>2, <1>5, <2>1, <2>2, <3>1 DEF InsideHook, Down
    <3> QED
      BY <1>1, <1>2, <2>2, <3>2, InHookNow
  <2>4. CASE ~Code!OriginalReturns
    <3>1. Len(frames') >= h + 1 /\ frames'[h + 1] = frames[h + 1]
      BY <1>1, <1>2, <1>5, <2>1, <2>4 DEF Kept
    <3>2. InsideHook(image, cpu', frames', bypass', h)
      BY <1>1, <1>2, <1>5, <2>2, <3>1 DEF InsideHook, TypedStep
    <3> QED
      BY <1>1, <1>2, <2>2, <3>2, InHookNow
  <2> QED
    BY <2>3, <2>4
<1> QED
  BY <1>2, <1>3, <1>4, <1>5

-----------------------------------------------------------------------------
(* Steps outside of hooks *)

\* The invariant of the host's stack behind a step.
StackOKNext == FunctionsFirst(image, frames') /\ StackOK(image, cpu', frames', ret', bypass')
ShowsNext == ShownOf(cpu', frames', ret')

\* The invariant of a stack without hooks.
LEMMA PlainNow ==
  ASSUME NEW im, NEW fs, Plain(im, fs), NEW c, NEW r, NEW by, OutsideHooks(im, c, fs, r, by)
  PROVE  FunctionsFirst(im, fs) /\ StackOK(im, c, fs, r, by) /\ NoHookUpTo(fs, Len(fs))
<1>1. fs \in Stacks(im) /\ Len(fs) \in Nat
  BY StackIs DEF Plain
<1>2. FunctionsFirst(im, fs) /\ NoHookUpTo(fs, Len(fs))
  BY <1>1, PlainIs
<1>3. \A h \in 1..Len(fs) : ~FirstHook(fs, h)
  BY <1>2 DEF FirstHook, NoHookUpTo
<1> QED
  BY <1>2, <1>3 DEF StackOK

\* The invariant of a stack that ends in its first hook.
LEMMA HookNow ==
  ASSUME NEW im, NEW fs \in Stacks(im), FirstHook(fs, Len(fs)), NEW c, NEW r, NEW by, InsideHook(im, c, fs, by, Len(fs))
  PROVE  StackOK(im, c, fs, r, by)
<1>1. Len(fs) \in Nat /\ Len(fs) > 0
  BY StackIs
<1>2. ~NoHookUpTo(fs, Len(fs))
  BY <1>1 DEF FirstHook, NoHookUpTo
<1>3. \A k \in 1..Len(fs) : FirstHook(fs, k) => k = Len(fs)
  BY <1>1, OneFirstHook
<1> QED
  BY <1>2, <1>3 DEF StackOK

\* The function goes on.
LEMMA FnNow ==
  ASSUME NEW bs, Calling(image, bs), NEW f, PlainFn(image, f), ~f.calls, frames' = Append(bs, f),
         ~cpu'.pending, cpu'.stop # "step_limit", ret' = "none", bypass' = Return
  PROVE  /\ StackOKNext
         /\ ShowsNext = Code!M!Seen([cpu' EXCEPT !.pc = f.at, !.pending = f.apply, !.target = f.to])
<1>1. Plain(image, frames') /\ frames'[Len(frames')] = f
  BY CallingPush
<1>2. f.kind = "fn"
  BY DEF PlainFn, FnFrame
<1>3. Executing(frames') /\ ~InCall(frames')
  BY <1>1, <1>2 DEF Executing, InCall
<1>4. OutsideHooks(image, cpu', frames', ret', bypass')
  BY <1>3 DEF OutsideHooks
<1>5. StackOKNext /\ NoHookUpTo(frames', Len(frames'))
  BY <1>1, <1>4, PlainNow DEF StackOKNext
<1> QED
  BY <1>1, <1>3, <1>5, ShownPlain DEF ShowsNext

\* It has returned, or a loop goes on.
LEMMA CallerNow ==
  ASSUME Calling(image, frames'), AfterBranch(image, cpu'), bypass' = Return, Len(frames') > 1 => ret' # "none"
  PROVE  StackOKNext /\ ShowsNext = Code!M!Seen(cpu')
<1>1. Plain(image, frames') /\ ~Executing(frames') /\ frames' \in Stacks(image)
  BY CallingIs DEF Calling
<1>2. Len(frames') \in Nat /\ Len(frames') > 0 /\ frames'[1].kind = "loop"
  BY <1>1, StackIs
<1>3. InCall(frames') => Len(frames') > 1
  BY <1>2 DEF InCall
<1>4. OutsideHooks(image, cpu', frames', ret', bypass')
  BY <1>1, <1>3 DEF OutsideHooks
<1>5. StackOKNext /\ NoHookUpTo(frames', Len(frames'))
  BY <1>1, <1>4, PlainNow DEF StackOKNext
<1> QED
  BY <1>1, <1>5, ShownPlain DEF ShowsNext

\* A function is entered, or its hook.
LEMMA EnterNow ==
  ASSUME CodeTyped, ImagesAreSound, bypass = Return, bypass' = bypass, ret' = "none",
         NEW bs, Calling(image, bs), NEW c \in State, NEW a \in Nat, c.pc = a, c.stop # "step_limit", Code!Enter(a, bs, c),
         Code!Hooked(a) => (c.stop = "running" => ~c.pending),
         ~Code!Hooked(a) => a \in Code!Words(image)
                          /\ IF c.pending THEN a \in Code!DelaySlots(image) ELSE a \notin image.imports
  PROVE  StackOKNext /\ ShowsNext = Code!M!Seen(c)
<1>0. Code!SoundImage(image)
  BY DEF CodeTyped, ImagesAreSound
<1>1. CASE Code!Hooked(a)
  <2> DEFINE f == [kind |-> "hook", at |-> a, called |-> FALSE, before |-> c]
  <2>1. frames' = Append(bs, f) /\ cpu' = c /\ a \in image.patched
    BY <1>1 DEF Code!Enter, Code!Hooked
  <2>2. f \in HookFrame /\ f.before = c
    BY DEF HookFrame
  <2> HIDE DEF f
  <2>3. /\ frames' \in Stacks(image) /\ FunctionsFirst(image, frames') /\ FirstHook(frames', Len(frames'))
        /\ frames'[Len(frames')] = f
    BY <2>1, <2>2, CallingPushHook
  <2>4. Len(frames') \in Nat
    BY <2>3, StackIs
  <2>5. InsideHook(image, cpu', frames', bypass', Len(frames'))
    BY <1>1, <2>1, <2>2, <2>3, <2>4 DEF InsideHook
  <2>6. StackOK(image, cpu', frames', ret', bypass')
    BY <2>3, <2>5, HookNow
  <2>7. ShowsNext = Code!M!Seen(c)
    BY <2>2, <2>3, <2>4, ShownInHook DEF ShowsNext
  <2> QED
    BY <2>3, <2>6, <2>7 DEF StackOKNext
<1>2. CASE ~Code!Hooked(a)
  <2> DEFINE f == [kind |-> "fn", fn |-> Code!Owner(image, a), at |-> a, apply |-> c.pending, to |-> c.target,
                   calls |-> FALSE]
  <2>1. frames' = Append(bs, f) /\ cpu' = [c EXCEPT !.pending = FALSE]
    BY <1>2 DEF Code!Enter
  <2>2. Code!Owner(image, a) \in Int /\ Code!Owner(image, a) <= a
    BY <1>0, OwnerIs
  <2>3. c.pending \in BOOLEAN /\ c.target \in Nat
    BY DEF State
  <2>4. a \notin image.patched
    <3>1. a # Return
      BY <1>0, <1>2 DEF Code!SoundImage
    <3> QED
      BY <1>2, <3>1 DEF Code!Hooked
  <2>5. f \in FnFrame(image) /\ f.fn = Code!Owner(image, a) /\ f.at = a /\ (f.apply <=> c.pending) /\ f.to = c.target /\ ~f.calls
    BY <1>2, <2>2, <2>3 DEF FnFrame
  <2> HIDE DEF f
  <2>6. PlainFn(image, f)
    BY <1>2, <2>2, <2>4, <2>5 DEF PlainFn
  <2>7. cpu' \in State /\ ~cpu'.pending /\ cpu'.stop = c.stop /\ cpu'.gpr = c.gpr
    BY <2>1 DEF State
  <2>8. StackOKNext /\ ShowsNext = Code!M!Seen([cpu' EXCEPT !.pc = f.at, !.pending = f.apply, !.target = f.to])
    BY <2>1, <2>5, <2>6, <2>7, FnNow
  <2> DEFINE e == [cpu' EXCEPT !.pc = f.at, !.pending = f.apply, !.target = f.to]
  <2>9. e \in State /\ e.gpr = c.gpr /\ e.stop = c.stop /\ e.pc = c.pc /\ (e.pending <=> c.pending) /\ e.target = c.target
    BY <2>5, <2>7 DEF State, FnFrame
  <2> HIDE DEF e
  <2>10. e = c
    BY <2>9, StateIs
  <2> QED
    BY <2>8, <2>10 DEF e
<1> QED
  BY <1>1, <1>2

\* What the code of an instruction leaves is what the interpreter leaves:
\* behind an instruction, behind a delay slot, and with a branch that waits.
LEMMA EmittedAlike ==
  ASSUME NEW im, Code!SoundImage(im), NEW f, PlainFn(im, f), ~f.calls, NEW c \in State, ~c.pending, c.stop # "step_limit",
         NEW at \in State, at.gpr = c.gpr, at.stop = c.stop, ~at.pending,
         Code!StartsDelayedBranch(im.code[f.at]) => at.pc = f.at + 1
  PROVE  LET i == im.code[f.at]
             x == [c EXCEPT !.pc = f.at, !.pending = f.apply, !.target = f.to]
             r == IF c.stop = "running" THEN Code!M!Interpret(im.code, x) ELSE c
             d == Code!Emitted(i, f.at, at)
         IN  /\ r \in State /\ d \in State /\ d.stop # "step_limit" /\ x \in State
             /\ x.stop = c.stop /\ x.pc = f.at /\ (x.pending <=> f.apply)
             /\ ~Code!StartsDelayedBranch(i) =>
                  /\ ~d.pending /\ d.pc = at.pc
                  /\ \A y \in State : y.stop = d.stop /\ y.gpr = d.gpr /\ ~y.pending
                                      /\ y.pc = (IF f.apply THEN f.to ELSE f.at + 1) => Alike(y, r)
             /\ Code!StartsDelayedBranch(i) =>
                  /\ ~f.apply /\ (d.pc # f.at + 1 => ~d.pending)
                  /\ \A y \in State : y.stop = d.stop /\ y.gpr = d.gpr /\ (y.pending <=> d.pending)
                                      /\ (d.pending => y.target = d.target) /\ y.pc = d.pc => Alike(y, r)
             /\ \A y \in State : Down(y) /\ Down(d) => Alike(y, r)
<1> DEFINE a == f.at
           i == im.code[a]
           x == [c EXCEPT !.pc = f.at, !.pending = f.apply, !.target = f.to]
           r == IF c.stop = "running" THEN Code!M!Interpret(im.code, x) ELSE c
           d == Code!Emitted(i, a, at)
           e == Code!M!Effect(i, a, Cleared(x))
<1>1. /\ a \in Code!Words(im) /\ a \in Nat /\ f.to \in Nat /\ f.apply \in BOOLEAN /\ i \in Code!Instruction
      /\ i.op = "jalr" => i.s # i.r
  BY CodeIs DEF PlainFn, FnFrame
<1>2. (i.op \in Branching <=> Code!StartsDelayedBranch(i)) /\ (Code!StartsDelayedBranch(i) => ~f.apply)
  <2>1. i.op \in Branching <=> Code!StartsDelayedBranch(i)
    BY <1>1, CodeIs
  <2>2. ASSUME f.apply
        PROVE  ~Code!StartsDelayedBranch(i)
    <3>1. a \in Code!DelaySlots(im)
      BY <2>2 DEF PlainFn
    <3>2. PICK b \in Code!Words(im) : Code!StartsDelayedBranch(im.code[b]) /\ a = b + 1
      BY <3>1 DEF Code!DelaySlots
    <3> QED
      BY <1>1, <3>2, CodeIs
  <2> QED
    BY <2>1, <2>2
<1>3. /\ x \in State /\ x.gpr = c.gpr /\ x.stop = c.stop /\ x.pc = a /\ (x.pending <=> f.apply) /\ x.target = f.to
  <2> DEFINE w == f.apply
             t == f.to
  <2>1. a \in Nat /\ w \in BOOLEAN /\ t \in Nat /\ x = [[[c EXCEPT !.pc = a] EXCEPT !.pending = w] EXCEPT !.target = t]
    BY <1>1
  <2> HIDE DEF a, w, t, x
  <2>2. /\ x \in State /\ x.gpr = c.gpr /\ x.stop = c.stop /\ x.pc = a /\ (x.pending <=> w) /\ x.target = t
    BY <2>1 DEF State
  <2> QED
    BY <2>2 DEF w, t
<1> HIDE DEF x
<1>4. /\ Cleared(x) \in State /\ Cleared(x).gpr = c.gpr /\ Cleared(x).pc = a + 1 /\ ~Cleared(x).pending
      /\ Cleared(x).stop = c.stop
  BY <1>3, ClearedIs
<1>5. e \in State /\ e.stop \in {c.stop, "syscall", "memory_fault"}
      /\ (i.op \notin Branching => ~e.pending /\ e.pc = a + 1)
  BY <1>1, <1>4, EffectIs
<1>6. d \in State /\ d.stop # "step_limit" /\ (Down(c) => Down(d))
  <2>1. Down(c) => Down(at)
    BY DEF Down
  <2> QED
    BY <1>1, <2>1, DownStays
<1>7. ASSUME i.op = "bad"
      PROVE  d = [at EXCEPT !.stop = "invalid_pc"] /\ Down(d) /\ ~d.pending /\ d.pc = at.pc
  <2>1. d = [at EXCEPT !.stop = "invalid_pc"]
    BY <1>1, <1>7, EmittedIs
  <2> QED
    BY <2>1 DEF State, Down
<1>8. ASSUME i.op # "bad"
      PROVE  /\ d.gpr = e.gpr /\ d.stop = e.stop /\ (d.pending <=> e.pending) /\ (e.pending => d.target = e.target)
             /\ i.op \in Branching => d.pc = e.pc
             /\ i.op \notin Branching => ~d.pending /\ d.pc = at.pc
             /\ i.op \in Branching => d.pc = a + 1 \/ ~d.pending
  <2>1. d = Code!M!Effect(i, a, at)
    BY <1>1, <1>8, EmittedIs
  <2>2. i.op \in Branching => at.pc = Cleared(x).pc
    BY <1>2, <1>4
  <2>3. /\ d.gpr = e.gpr /\ d.stop = e.stop /\ (d.pending <=> e.pending) /\ (d.pending => d.target = e.target)
        /\ i.op \in Branching => d.pc = e.pc
    BY <1>1, <1>4, <2>1, <2>2, EffectAlike
  <2>4. /\ i.op \notin Branching => ~d.pending /\ d.pc = at.pc
        /\ d.pc = at.pc \/ ~d.pending
    BY <1>1, <2>1, EffectIs
  <2> QED
    BY <1>2, <2>3, <2>4
<1>9. ASSUME c.stop = "running"
      PROVE  /\ r \in State
             /\ i.op = "bad" => Down(r)
             /\ i.op # "bad" => r = IF f.apply /\ e.stop = "running" THEN [e EXCEPT !.pc = f.to] ELSE e
  <2>1. r = Code!M!Interpret(im.code, x)
    BY <1>9
  <2> QED
    BY <1>1, <1>3, <2>1, InterpretIs
<1>10. ASSUME c.stop # "running"
       PROVE  r = c /\ Down(r) /\ Down(d)
  BY <1>6, <1>10 DEF Down
<1> HIDE DEF a, i, d, r, e
<1>11. r \in State
  BY <1>9, <1>10
<1>12. ASSUME ~Code!StartsDelayedBranch(i)
       PROVE  /\ ~d.pending /\ d.pc = at.pc
              /\ \A y \in State : y.stop = d.stop /\ y.gpr = d.gpr /\ ~y.pending
                                  /\ y.pc = (IF f.apply THEN f.to ELSE a + 1) => Alike(y, r)
  <2>1. ~d.pending /\ d.pc = at.pc
    BY <1>2, <1>7, <1>8, <1>12
  <2> SUFFICES ASSUME NEW y \in State, y.stop = d.stop, y.gpr = d.gpr, ~y.pending,
                      y.pc = IF f.apply THEN f.to ELSE a + 1
               PROVE  Alike(y, r)
    BY <2>1
  <2>2. CASE c.stop # "running"
    BY <1>10, <2>2 DEF Alike, Down
  <2>3. CASE c.stop = "running" /\ i.op = "bad"
    BY <1>7, <1>9, <2>3 DEF Alike, Down
  <2>4. CASE c.stop = "running" /\ i.op # "bad" /\ e.stop # "running"
    <3>1. r = e /\ d.stop = e.stop
      BY <1>8, <1>9, <2>4
    <3> QED
      BY <1>5, <2>4, <3>1 DEF Alike, Down
  <2>5. CASE c.stop = "running" /\ i.op # "bad" /\ e.stop = "running"
    <3>1. d.stop = e.stop /\ d.gpr = e.gpr /\ ~e.pending /\ e.pc = a + 1
          /\ r = IF f.apply THEN [e EXCEPT !.pc = f.to] ELSE e
      BY <1>2, <1>5, <1>8, <1>9, <1>12, <2>5
    <3>2. CASE f.apply
      <4>1. r = [e EXCEPT !.pc = f.to] /\ y.pc = f.to
        BY <3>1, <3>2
      <4>2. r.gpr = e.gpr /\ r.stop = e.stop /\ (r.pending <=> e.pending) /\ r.pc = f.to
        BY <1>5, <4>1 DEF State
      <4> QED
        BY <2>5, <3>1, <4>1, <4>2 DEF Alike
    <3>3. CASE ~f.apply
      BY <2>5, <3>1, <3>3 DEF Alike
    <3> QED
      BY <3>2, <3>3
  <2> QED
    BY <2>2, <2>3, <2>4, <2>5
<1>13. ASSUME Code!StartsDelayedBranch(i)
       PROVE  /\ ~f.apply /\ (d.pc # a + 1 => ~d.pending)
              /\ \A y \in State : y.stop = d.stop /\ y.gpr = d.gpr /\ (y.pending <=> d.pending)
                                  /\ (d.pending => y.target = d.target) /\ y.pc = d.pc => Alike(y, r)
  <2>1. i.op \in Branching /\ i.op # "bad" /\ ~f.apply
    BY <1>2, <1>13 DEF Branching
  <2>2. d.pc # a + 1 => ~d.pending
    BY <1>8, <2>1
  <2> SUFFICES ASSUME NEW y \in State, y.stop = d.stop, y.gpr = d.gpr, y.pending <=> d.pending,
                      d.pending => y.target = d.target, y.pc = d.pc
               PROVE  Alike(y, r)
    BY <2>1, <2>2
  <2>3. CASE c.stop # "running"
    BY <1>10, <2>3 DEF Alike, Down
  <2>4. CASE c.stop = "running"
    <3>1. r = e
      BY <1>9, <2>1, <2>4
    <3>2. /\ d.gpr = e.gpr /\ d.stop = e.stop /\ (d.pending <=> e.pending) /\ (e.pending => d.target = e.target)
          /\ d.pc = e.pc
      BY <1>8, <2>1
    <3> QED
      BY <1>6, <3>1, <3>2 DEF Alike, Down
  <2> QED
    BY <2>3, <2>4
<1>14. \A y \in State : Down(y) /\ Down(d) => Alike(y, r)
  <2>1. Down(d) => Down(r)
    <3>1. CASE c.stop # "running"
      BY <1>10, <3>1
    <3>2. CASE c.stop = "running" /\ i.op = "bad"
      BY <1>9, <3>2
    <3>3. CASE c.stop = "running" /\ i.op # "bad"
      <4>1. Down(d) => r = e /\ d.stop = e.stop
        BY <1>8, <1>9, <3>3 DEF Down
      <4> QED
        BY <4>1 DEF Down
    <3> QED
      BY <3>1, <3>2, <3>3
  <2> QED
    BY <2>1 DEF Alike
<1> QED
  BY <1>3, <1>6, <1>11, <1>12, <1>13, <1>14 DEF a, i, d, r, x

\* The function at the top of a stack without hooks.
LEMMA PlainTop ==
  ASSUME CodeTyped, Plain(image, frames), Code!Top.kind = "fn"
  PROVE  /\ PlainFn(image, Code!Top) /\ Calling(image, Code!Below) /\ Len(frames) > 1
         /\ Len(Code!Below) = Len(frames) - 1
<1>1. Code!Top = frames[Len(frames)] /\ Len(frames) \in Nat /\ Len(frames) > 1
      /\ Code!Below = SubSeq(frames, 1, Len(frames) - 1)
  BY TopIs
<1>2. Calling(image, Code!Below) /\ Len(Code!Below) = Len(frames) - 1
  BY <1>1, PlainPop
<1>3. PlainFn(image, Code!Top)
  BY <1>1 DEF Plain
<1> QED
  BY <1>1, <1>2, <1>3

\* The function at the top goes on, or another one takes its place.
LEMMA ReplacedNow ==
  ASSUME CodeTyped, Plain(image, frames), Code!Top.kind = "fn", NEW c \in State, ~c.pending, c.stop # "step_limit",
         bypass' = Return, NEW f, PlainFn(image, f), f.at \in Nat, ~f.calls,
         frames' = Append(Code!Below, f), cpu' = c, ret' = "none"
  PROVE  /\ StackOKNext
         /\ \E y \in State : /\ ShowsNext = Code!M!Seen(y) /\ y.gpr = c.gpr /\ y.stop = c.stop /\ y.pc = f.at
                             /\ (y.pending <=> f.apply) /\ y.target = f.to
<1> DEFINE y == [cpu' EXCEPT !.pc = f.at, !.pending = f.apply, !.target = f.to]
<1>2. StackOKNext /\ ShowsNext = Code!M!Seen(y)
  <2>1. Calling(image, Code!Below)
    BY PlainTop
  <2> QED
    BY <2>1, FnNow
<1>3. f.at \in Code!Words(image) /\ f.apply \in BOOLEAN /\ f.to \in Nat
  BY DEF PlainFn, FnFrame
<1>4. y \in State /\ y.gpr = c.gpr /\ y.stop = c.stop /\ y.pc = f.at /\ (y.pending <=> f.apply) /\ y.target = f.to
  BY <1>3 DEF State
<1> HIDE DEF y
<1> QED
  BY <1>2, <1>3, <1>4

\* The function goes on at a.
LEMMA GotoNow ==
  ASSUME CodeTyped, Plain(image, frames), Code!Top.kind = "fn", NEW a \in Code!Words(image), a \in Nat, Code!Top.fn <= a,
         NEW c \in State, ~c.pending, c.stop # "step_limit", NEW w \in BOOLEAN, NEW t \in Nat, bypass' = Return,
         IF w THEN a \in Code!DelaySlots(image) ELSE a \notin image.imports \cup image.patched,
         Code!Goto(a, c, w, t)
  PROVE  /\ StackOKNext
         /\ \E y \in State : /\ ShowsNext = Code!M!Seen(y) /\ y.gpr = c.gpr /\ y.stop = c.stop /\ y.pc = a
                             /\ (y.pending <=> w) /\ y.target = t
<1> DEFINE f == [Code!Top EXCEPT !.at = a, !.apply = w, !.to = t, !.calls = FALSE]
<1>1. PlainFn(image, Code!Top)
  BY PlainTop
<1>2. frames' = Append(Code!Below, f) /\ cpu' = c /\ ret' = "none"
  BY DEF Code!Goto
<1>3. f \in FnFrame(image) /\ f.fn = Code!Top.fn /\ f.at = a /\ (f.apply <=> w) /\ f.to = t /\ ~f.calls
  BY <1>1 DEF PlainFn, FnFrame
<1> HIDE DEF f
<1>4. PlainFn(image, f)
  BY <1>3 DEF PlainFn
<1> QED
  BY <1>2, <1>3, <1>4, ReplacedNow

\* A goto behind a delay slot.
LEMMA GotoAfter ==
  ASSUME CodeTyped, Plain(image, frames), Code!Top.kind = "fn", NEW a \in Code!Words(image), a \in Nat, Code!Top.fn <= a,
         NEW c \in State, ~c.pending, c.stop # "step_limit", bypass' = Return,
         a \notin image.imports \cup image.patched, Code!Goto(a, c, FALSE, 0)
  PROVE  /\ StackOKNext
         /\ \E y \in State : /\ ShowsNext = Code!M!Seen(y) /\ y.gpr = c.gpr /\ y.stop = c.stop /\ y.pc = a /\ ~y.pending
<1> DEFINE f == [Code!Top EXCEPT !.at = a, !.apply = FALSE, !.to = 0, !.calls = FALSE]
<1>1. PlainFn(image, Code!Top)
  BY PlainTop
<1>2. frames' = Append(Code!Below, f) /\ cpu' = c /\ ret' = "none"
  BY DEF Code!Goto
<1>3. f \in FnFrame(image) /\ f.fn = Code!Top.fn /\ f.at = a /\ ~f.apply /\ ~f.calls
  BY <1>1 DEF PlainFn, FnFrame
<1> HIDE DEF f
<1>4. PlainFn(image, f)
  BY <1>3 DEF PlainFn
<1> QED
  BY <1>2, <1>3, <1>4, ReplacedNow

\* The function returns to its caller.
LEMMA ReturnedNow ==
  ASSUME CodeTyped, Plain(image, frames), Code!Top.kind = "fn", Code!Returned("true"), AfterBranch(image, cpu'), bypass' = Return
  PROVE  StackOKNext /\ ShowsNext = Code!M!Seen(cpu')
<1>1. frames' = Code!Below /\ ret' = "true"
  BY DEF Code!Returned
<1>2. Calling(image, frames')
  BY <1>1, PlainTop
<1> QED
  BY <1>1, <1>2, CallerNow

\* A branch is taken behind its delay slot.
LEMMA TakeBranchStep ==
  ASSUME CodeTyped, ImagesAreSound, Plain(image, frames), Code!Top.kind = "fn", bypass = Return, bypass' = bypass,
         ~Code!Top.calls, NEW d \in State, ~d.pending, d.stop # "step_limit", Code!TakeBranch(Code!Top.at, d)
  PROVE  /\ StackOKNext
         /\ \E y \in State : /\ ShowsNext = Code!M!Seen(y) /\ y.gpr = d.gpr /\ y.stop = d.stop /\ ~y.pending
                             /\ y.pc = Code!Top.to
<1> DEFINE a == Code!Top.at
           c == [d EXCEPT !.pc = Code!Top.to]
           i == image.code[a - 1]
           f == [Code!Top EXCEPT !.at = a, !.apply = FALSE, !.calls = TRUE]
           t == Code!Top.to
<1>1. /\ Code!SoundImage(image) /\ PlainFn(image, Code!Top) /\ Calling(image, Code!Below) /\ Code!Top \in FnFrame(image)
  BY PlainTop, TopIs DEF CodeTyped, ImagesAreSound
<1>2. t \in Nat /\ a \in Code!Words(image) /\ a \in Nat /\ Code!Top.fn <= a /\ Code!Top.fn \in Int
  BY <1>1 DEF PlainFn, FnFrame, Code!SoundImage
<1>3. c \in State /\ c.gpr = d.gpr /\ c.stop = d.stop /\ c.pc = t /\ ~c.pending
  <2> HIDE DEF t
  <2>1. c = [d EXCEPT !.pc = t]
    BY DEF t
  <2> HIDE DEF c
  <2> QED
    BY <1>2, <2>1 DEF State
<1>4. \/ /\ a - 1 \in Code!Words(image) /\ i.op = "jal" /\ t \in Code!DiscoverFunctions(image)
         /\ Code!Enter(t, Append(Code!Below, f), c) /\ ret' = "none"
      \/ /\ t \in Code!DiscoverFunctions(image)
         /\ Code!Enter(t, Code!Below, c) /\ ret' = "none"
      \/ /\ a - 1 \in Code!Words(image) /\ Code!HasTarget(i) /\ i.to = t
         /\ Code!Owner(image, a - 1) = Code!Top.fn /\ Code!Owner(image, i.to) = Code!Top.fn
         /\ t \in Code!BlockEntries(image)
         /\ ~(i.op = "jal" /\ i.to \in Code!DiscoverFunctions(image))
         /\ Code!Goto(t, c, FALSE, 0)
      \/ Code!Returned("true") /\ cpu' = c
  BY TakeBranchIs
<1> HIDE DEF c, i, t
<1>5. t \in Code!DiscoverFunctions(image) => t \in Code!Words(image) /\ t \notin image.imports
  BY DEF Code!DiscoverFunctions
<1>6. CASE /\ a - 1 \in Code!Words(image) /\ i.op = "jal" /\ t \in Code!DiscoverFunctions(image)
           /\ Code!Enter(t, Append(Code!Below, f), c) /\ ret' = "none"
  <2>1. a \in BehindCalls(image)
    BY <1>2, <1>6 DEF BehindCalls, i
  <2>2. PlainFn(image, f) /\ f.calls
    BY <1>1, <1>2, <2>1 DEF PlainFn, FnFrame
  <2> HIDE DEF f
  <2> DEFINE bs == Append(Code!Below, f)
  <2>3. Calling(image, bs)
    BY <1>1, <2>2, CallingPush
  <2> HIDE DEF bs
  <2>4. StackOKNext /\ ShowsNext = Code!M!Seen(c)
    BY <1>2, <1>3, <1>5, <1>6, <2>3, EnterNow DEF bs
  <2> QED
    BY <1>3, <2>4 DEF t
<1>7. CASE t \in Code!DiscoverFunctions(image) /\ Code!Enter(t, Code!Below, c) /\ ret' = "none"
  <2>1. StackOKNext /\ ShowsNext = Code!M!Seen(c)
    BY <1>1, <1>2, <1>3, <1>5, <1>7, EnterNow
  <2> QED
    BY <1>3, <2>1 DEF t
<1>8. CASE /\ a - 1 \in Code!Words(image) /\ Code!HasTarget(i) /\ i.to = t
           /\ Code!Owner(image, a - 1) = Code!Top.fn /\ Code!Owner(image, i.to) = Code!Top.fn
           /\ t \in Code!BlockEntries(image)
           /\ ~(i.op = "jal" /\ i.to \in Code!DiscoverFunctions(image))
           /\ Code!Goto(t, c, FALSE, 0)
  <2>1. t \in Code!Words(image)
    BY <1>8 DEF Code!BlockEntries
  <2>2. t \notin image.imports /\ (t \in image.patched => i.op = "jal")
    BY <1>1, <1>8, CodeIs DEF i
  <2>3. t \notin image.patched
    BY <1>1, <1>8, <2>2 DEF Code!SoundImage
  <2>4. Code!Top.fn <= t
    BY <1>1, <1>2, <1>8, OwnerIs
  <2>5. /\ StackOKNext
        /\ \E y \in State : /\ ShowsNext = Code!M!Seen(y) /\ y.gpr = c.gpr /\ y.stop = c.stop /\ y.pc = t /\ ~y.pending
    <3>1. c.stop # "step_limit" /\ bypass' = Return /\ t \notin image.imports \cup image.patched /\ Code!Goto(t, c, FALSE, 0)
      BY <1>3, <1>8, <2>2, <2>3
    <3> QED
      BY <1>2, <1>3, <2>1, <2>4, <3>1, GotoAfter, Zenon
  <2> QED
    BY <1>3, <2>5 DEF t
<1>9. CASE Code!Returned("true") /\ cpu' = c
  <2>1. AfterBranch(image, cpu')
    BY <1>3, <1>9 DEF AfterBranch
  <2>2. StackOKNext /\ ShowsNext = Code!M!Seen(c)
    BY <1>9, <2>1, ReturnedNow
  <2> QED
    BY <1>3, <2>2 DEF t
<1> QED
  BY <1>4, <1>6, <1>7, <1>8, <1>9

\* One instruction of a generated function.
LEMMA ExecuteStep ==
  ASSUME CodeTyped, ImagesAreSound, Plain(image, frames), OutsideHooks(image, cpu, frames, ret, bypass), Code!Execute
  PROVE  LET x == [cpu EXCEPT !.pc = Code!Top.at, !.pending = Code!Top.apply, !.target = Code!Top.to]
         IN  /\ StackOKNext /\ x \in State /\ PlainFn(image, Code!Top) /\ Executing(frames) /\ ret = "none"
             /\ x.pc = Code!Top.at /\ (x.pending <=> Code!Top.apply) /\ x.stop = cpu.stop
             /\ cpu.stop # "step_limit"
             /\ ShowsNext = Code!M!Seen(IF cpu.stop = "running" THEN Code!M!Interpret(image.code, x) ELSE cpu)
<1> DEFINE a == Code!Top.at
           i == image.code[a]
           slot == a \in Code!DelaySlots(image)
           near == slot \/ Code!StartsDelayedBranch(i) \/ Code!MayStop(i) \/ ~Code!HasNext(image, a)
           at == IF near THEN [cpu EXCEPT !.pc = a + 1] ELSE cpu
           d == Code!Emitted(i, a, at)
           x == [cpu EXCEPT !.pc = Code!Top.at, !.pending = Code!Top.apply, !.target = Code!Top.to]
           r == IF cpu.stop = "running" THEN Code!M!Interpret(image.code, x) ELSE cpu
<1>1. /\ Code!Top \in FnFrame(image) /\ ~Code!Top.calls /\ ret = "none"
      /\ a \in Code!Words(image) /\ a \in Nat /\ Code!SoundImage(image)
      /\ at \in State /\ at.gpr = cpu.gpr /\ at.stop = cpu.stop /\ (at.pending <=> cpu.pending)
      /\ near => at.pc = a + 1
      /\ bypass' = bypass
  BY ExecuteIs
<1>2. \/ Code!MayStop(i) /\ d.stop # "running" /\ Code!Returned("true") /\ cpu' = d
      \/ slot /\ Code!Top.apply /\ Code!TakeBranch(a, d)
      \/ /\ ~(slot /\ Code!Top.apply)
         /\ \/ /\ Code!StartsDelayedBranch(i) /\ d.pc # a + 1
               /\ Code!Returned("true") /\ cpu' = d
            \/ ~Code!HasNext(image, a) /\ Code!Returned("true") /\ cpu' = d
            \/ /\ Code!StartsDelayedBranch(i) /\ d.pc = a + 1 /\ Code!HasNext(image, a)
               /\ Code!Goto(a + 1, [d EXCEPT !.pending = FALSE], d.pending, d.target)
            \/ /\ ~Code!StartsDelayedBranch(i) /\ Code!HasNext(image, a)
               /\ Code!Goto(a + 1, d, Code!Top.apply, Code!Top.to)
  BY ExecuteIs
<1>3. Code!Top.kind = "fn" /\ Code!Top = frames[Len(frames)]
  BY <1>1, TopIs DEF FnFrame
<1>4. Executing(frames) /\ bypass = Return /\ bypass' = Return /\ ~cpu.pending /\ cpu.stop # "step_limit" /\ cpu \in State
  BY <1>1, <1>3 DEF Executing, OutsideHooks, CodeTyped
<1>5. PlainFn(image, Code!Top)
  BY <1>3, PlainTop
<1>6. Code!Top.fn \in Int /\ Code!Top.fn <= a /\ Code!Top.to \in Nat /\ Code!Top.apply \in BOOLEAN
      /\ (Code!Top.apply => slot)
  BY <1>1, <1>5 DEF PlainFn, FnFrame
<1> HIDE DEF near, at
<1>7. Code!StartsDelayedBranch(i) => near
  BY DEF near
<1>8. ~Code!HasNext(image, a) => near
  BY DEF near
<1>9. /\ r \in State /\ d \in State /\ d.stop # "step_limit" /\ x \in State
      /\ x.stop = cpu.stop /\ x.pc = a /\ (x.pending <=> Code!Top.apply)
      /\ ~Code!StartsDelayedBranch(i) =>
           /\ ~d.pending /\ d.pc = at.pc
           /\ \A y \in State : y.stop = d.stop /\ y.gpr = d.gpr /\ ~y.pending
                               /\ y.pc = (IF Code!Top.apply THEN Code!Top.to ELSE a + 1) => Alike(y, r)
      /\ Code!StartsDelayedBranch(i) =>
           /\ ~Code!Top.apply /\ (d.pc # a + 1 => ~d.pending)
           /\ \A y \in State : y.stop = d.stop /\ y.gpr = d.gpr /\ (y.pending <=> d.pending)
                               /\ (d.pending => y.target = d.target) /\ y.pc = d.pc => Alike(y, r)
      /\ \A y \in State : Down(y) /\ Down(d) => Alike(y, r)
  BY <1>1, <1>4, <1>5, <1>7, EmittedAlike
<1>10. SUFFICES StackOKNext /\ \E y \in State : ShowsNext = Code!M!Seen(y) /\ Alike(y, r)
  <2>1. ShowsNext = Code!M!Seen(r)
    BY <1>9, <1>10, SeenSame
  <2> QED
    BY <1>1, <1>4, <1>5, <1>9, <1>10, <2>1
<1> HIDE DEF a, i, slot, d, x, r
<1>11. CASE Code!MayStop(i) /\ d.stop # "running" /\ Code!Returned("true") /\ cpu' = d
  <2>1. AfterBranch(image, cpu') /\ Down(d)
    BY <1>9, <1>11 DEF AfterBranch, Down
  <2>2. StackOKNext /\ ShowsNext = Code!M!Seen(d)
    BY <1>3, <1>4, <1>11, <2>1, ReturnedNow
  <2> QED
    BY <1>9, <2>1, <2>2
<1>12. CASE slot /\ Code!Top.apply /\ Code!TakeBranch(a, d)
  <2>1. ~Code!StartsDelayedBranch(i)
    BY <1>9, <1>12
  <2>2. /\ StackOKNext
        /\ \E y \in State : /\ ShowsNext = Code!M!Seen(y) /\ y.gpr = d.gpr /\ y.stop = d.stop /\ ~y.pending
                            /\ y.pc = Code!Top.to
    BY <1>1, <1>3, <1>4, <1>9, <1>12, <2>1, TakeBranchStep DEF a
  <2> QED
    BY <1>9, <1>12, <2>1, <2>2
<1>13. CASE ~(slot /\ Code!Top.apply) /\ Code!StartsDelayedBranch(i) /\ d.pc # a + 1 /\ Code!Returned("true") /\ cpu' = d
  <2>1. AfterBranch(image, cpu')
    BY <1>9, <1>13 DEF AfterBranch
  <2>2. StackOKNext /\ ShowsNext = Code!M!Seen(d)
    BY <1>3, <1>4, <1>13, <2>1, ReturnedNow
  <2> QED
    BY <1>9, <1>13, <2>2
<1>14. CASE ~(slot /\ Code!Top.apply) /\ ~Code!HasNext(image, a) /\ Code!Returned("true") /\ cpu' = d
  <2>1. CASE Code!StartsDelayedBranch(i)
    <3>1. d.pending => d.pc = a + 1 /\ d.pc - 1 = a /\ d.pc > 0
      BY <1>1, <1>9, <2>1
    <3>2. AfterBranch(image, cpu')
      BY <1>1, <1>14, <2>1, <3>1 DEF AfterBranch, i
    <3>3. StackOKNext /\ ShowsNext = Code!M!Seen(d)
      BY <1>3, <1>4, <1>14, <3>2, ReturnedNow
    <3> QED
      BY <1>9, <2>1, <3>3
  <2>2. CASE ~Code!StartsDelayedBranch(i)
    <3>1. ~d.pending /\ d.pc = a + 1 /\ ~Code!Top.apply
      BY <1>1, <1>6, <1>8, <1>9, <1>14, <2>2
    <3>2. AfterBranch(image, cpu')
      BY <1>14, <3>1 DEF AfterBranch
    <3>3. StackOKNext /\ ShowsNext = Code!M!Seen(d)
      BY <1>3, <1>4, <1>14, <3>2, ReturnedNow
    <3> QED
      BY <1>9, <2>2, <3>1, <3>3
  <2> QED
    BY <2>1, <2>2
<1>15. CASE /\ ~(slot /\ Code!Top.apply) /\ Code!StartsDelayedBranch(i) /\ d.pc = a + 1 /\ Code!HasNext(image, a)
            /\ Code!Goto(a + 1, [d EXCEPT !.pending = FALSE], d.pending, d.target)
  <2> DEFINE c == [d EXCEPT !.pending = FALSE]
             b == a + 1
  <2>1. c \in State /\ c.gpr = d.gpr /\ c.stop = d.stop /\ ~c.pending /\ d.pending \in BOOLEAN /\ d.target \in Nat
    BY <1>9 DEF State
  <2>2. b \in Code!Words(image) /\ b \in Nat /\ Code!Top.fn <= b /\ b \notin image.imports
    BY <1>1, <1>6, <1>15 DEF Code!HasNext
  <2>3. b \notin image.patched
    BY <1>1, <1>15, CodeIs DEF i
  <2>4. b \in Code!DelaySlots(image)
    BY <1>1, <1>15 DEF Code!DelaySlots, i
  <2>5. Code!Goto(b, c, d.pending, d.target)
    BY <1>15
  <2> HIDE DEF c, b
  <2>6. IF d.pending THEN b \in Code!DelaySlots(image) ELSE b \notin image.imports \cup image.patched
    BY <2>2, <2>3, <2>4
  <2>7. c.stop # "step_limit"
    BY <1>9, <2>1
  <2>8. /\ StackOKNext
        /\ \E y \in State : /\ ShowsNext = Code!M!Seen(y) /\ y.gpr = c.gpr /\ y.stop = c.stop /\ y.pc = b
                            /\ (y.pending <=> d.pending) /\ y.target = d.target
    BY <1>3, <1>4, <2>1, <2>2, <2>5, <2>6, <2>7, GotoNow
  <2> QED
    BY <1>9, <1>15, <2>1, <2>8 DEF b
<1>16. CASE /\ ~(slot /\ Code!Top.apply) /\ ~Code!StartsDelayedBranch(i) /\ Code!HasNext(image, a)
            /\ Code!Goto(a + 1, d, Code!Top.apply, Code!Top.to)
  <2> DEFINE b == a + 1
  <2>1. b \in Code!Words(image) /\ b \in Nat /\ Code!Top.fn <= b /\ b \notin image.imports
        /\ Code!Owner(image, a + 1) = Code!Owner(image, a)
    BY <1>1, <1>6, <1>16 DEF Code!HasNext
  <2>2. b \notin image.patched
    <3>1. Code!Owner(image, a) \in Int /\ Code!Owner(image, a) <= a
      BY <1>1, OwnerIs
    <3> QED
      BY <1>1, <2>1, <3>1, NotInto
  <2>3. Code!Goto(b, d, Code!Top.apply, Code!Top.to) /\ ~Code!Top.apply /\ ~d.pending
    BY <1>6, <1>9, <1>16
  <2> HIDE DEF b
  <2>4. IF Code!Top.apply THEN b \in Code!DelaySlots(image) ELSE b \notin image.imports \cup image.patched
    BY <2>1, <2>2, <2>3
  <2>5. /\ StackOKNext
        /\ \E y \in State : /\ ShowsNext = Code!M!Seen(y) /\ y.gpr = d.gpr /\ y.stop = d.stop /\ y.pc = b
                            /\ (y.pending <=> Code!Top.apply) /\ y.target = Code!Top.to
    BY <1>3, <1>4, <1>6, <1>9, <2>1, <2>3, <2>4, GotoNow
  <2> QED
    BY <1>9, <1>16, <2>3, <2>5 DEF b
<1> QED
  BY <1>2, <1>11, <1>12, <1>13, <1>14, <1>15, <1>16

\* A native call returns to the function that made it, or through it.
LEMMA CallReturnsStep ==
  ASSUME CodeTyped, ImagesAreSound, Plain(image, frames), OutsideHooks(image, cpu, frames, ret, bypass), Code!CallReturns
  PROVE  StackOKNext /\ ShowsNext = Code!M!Seen(cpu) /\ ~Executing(frames)
<1> DEFINE a == Code!Top.at
           back == a + 1
<1>1. /\ Code!Top.kind = "fn" /\ Code!Top.calls /\ ret # "none" /\ UNCHANGED <<image, bypass>>
      /\ \/ Code!CameBack(back) /\ Code!Goto(back, cpu, FALSE, 0)
         \/ Code!Returned(ret) /\ UNCHANGED cpu
  BY DEF Code!CallReturns
<1>2. /\ PlainFn(image, Code!Top) /\ Code!Top = frames[Len(frames)] /\ cpu \in State /\ ret = "true" /\ Code!SoundImage(image)
  BY <1>1, PlainTop, TopIs DEF CodeTyped, ImagesAreSound
<1>3. ~Executing(frames) /\ bypass' = Return /\ AfterBranch(image, cpu)
  BY <1>1, <1>2 DEF Executing, OutsideHooks
<1>4. CASE Code!CameBack(back) /\ Code!Goto(back, cpu, FALSE, 0)
  <2>1. /\ cpu.stop = "running" /\ Code!Owner(image, back) = Code!Top.fn /\ back \in Code!Words(image) /\ ~cpu.pending
        /\ cpu.pc = back
    BY <1>4 DEF Code!CameBack, Code!BlockEntries, Code!M!Running
  <2>2. a \in Nat /\ Code!Top.fn \in Int /\ Code!Top.fn <= a /\ a \in BehindCalls(image) /\ a \in Code!Words(image)
    BY <1>1, <1>2, CodeIs DEF PlainFn, FnFrame
  <2>3. back \notin image.imports
    <3>1. a - 1 \in Code!Words(image) /\ image.code[a - 1].op = "jal"
      BY <2>2 DEF BehindCalls
    <3>2. a - 1 \in Nat /\ (a - 1) + 2 \notin image.imports
      BY <1>2, <3>1, CodeIs
    <3> QED
      BY <2>2, <3>2
  <2>4. back \notin image.patched
    BY <1>2, <2>1, <2>2, NotInto
  <2>5. back \in Nat /\ Code!Top.fn <= back /\ cpu.stop # "step_limit" /\ back \notin image.imports \cup image.patched
    BY <2>1, <2>2, <2>3, <2>4
  <2> HIDE DEF back
  <2>6. /\ StackOKNext
        /\ \E y \in State : /\ ShowsNext = Code!M!Seen(y) /\ y.gpr = cpu.gpr /\ y.stop = cpu.stop /\ y.pc = back /\ ~y.pending
    BY <1>1, <1>2, <1>3, <1>4, <2>1, <2>5, GotoAfter, Zenon
  <2>7. PICK y \in State : /\ ShowsNext = Code!M!Seen(y) /\ y.gpr = cpu.gpr /\ y.stop = cpu.stop /\ y.pc = back /\ ~y.pending
    BY <2>6
  <2>8. Alike(y, cpu)
    BY <2>1, <2>7 DEF Alike
  <2>9. Code!M!Seen(y) = Code!M!Seen(cpu)
    BY <1>2, <2>8, SeenSame
  <2> QED
    BY <1>3, <2>6, <2>7, <2>9
<1>5. CASE Code!Returned(ret) /\ UNCHANGED cpu
  <2>1. Code!Returned("true") /\ AfterBranch(image, cpu')
    BY <1>2, <1>3, <1>5
  <2>2. StackOKNext /\ ShowsNext = Code!M!Seen(cpu')
    BY <1>1, <1>3, <2>1, ReturnedNow
  <2> QED
    BY <1>3, <1>5, <2>2
<1> QED
  BY <1>1, <1>4, <1>5

\* The loop at the bottom is on its own.
LEMMA BottomIs ==
  ASSUME CodeTyped, Plain(image, frames), Code!Top.kind = "loop", OutsideHooks(image, cpu, frames, ret, bypass)
  PROVE  /\ Len(frames) = 1 /\ Calling(image, frames) /\ Code!Top = Code!Loop(Return) /\ Code!Top.back = Return
         /\ ~Executing(frames) /\ AfterBranch(image, cpu) /\ bypass = Return
<1>1. /\ Code!Top = frames[Len(frames)] /\ Len(frames) \in Nat /\ Len(frames) > 0 /\ frames \in Stacks(image)
      /\ frames[1] = Code!Loop(Return)
  BY TopIs, StackIs
<1>2. Len(frames) = 1
  <2>1. ASSUME Len(frames) > 1
        PROVE  PlainFn(image, Code!Top)
    BY <1>1, <2>1 DEF Plain
  <2>2. PlainFn(image, Code!Top) => Code!Top.kind = "fn"
    BY DEF PlainFn, FnFrame
  <2>3. ~(Len(frames) > 1)
    BY <2>1, <2>2
  <2>4. Len(frames) \in Nat /\ Len(frames) > 0
    BY <1>1
  <2> QED
    BY <2>3, <2>4, SMT
<1>3. Calling(image, frames)
  BY <1>1, <1>2 DEF Calling
<1>4. ~Executing(frames)
  BY <1>1 DEF Executing
<1> QED
  BY <1>1, <1>2, <1>3, <1>4 DEF OutsideHooks, Code!Loop

\* Outside of hooks no patch is bypassed.
LEMMA NotHookedIs ==
  ASSUME Code!SoundImage(image), bypass = Return, NEW a
  PROVE  Code!Hooked(a) <=> a \in image.patched
  BY DEF Code!Hooked, Code!SoundImage, Code!DiscoverFunctions

\* The word behind a branch that waits.
LEMMA SlotIs ==
  ASSUME Code!SoundImage(image), NEW c \in State, c.stop = "running", c.pending, AfterBranch(image, c)
  PROVE  /\ c.pc \notin image.patched
         /\ c.pc \in Code!Words(image) => c.pc \in Code!DelaySlots(image) /\ ~Code!StartsDelayedBranch(image.code[c.pc])
<1> DEFINE a == c.pc - 1
<1>1. a \in Code!Words(image) /\ Code!StartsDelayedBranch(image.code[a])
  BY DEF AfterBranch
<1>2. a \in Nat /\ c.pc \in Nat /\ c.pc = a + 1
  BY <1>1, CodeIs DEF State
<1> HIDE DEF a
<1>3. a + 1 \notin image.patched /\ (a + 1 \in Code!Words(image) => ~Code!StartsDelayedBranch(image.code[a + 1]))
  BY <1>1, CodeIs
<1>4. a + 1 \in Code!DelaySlots(image)
  BY <1>1 DEF Code!DelaySlots
<1> QED
  BY <1>2, <1>3, <1>4

\* A dispatch outside of hooks shows the same.
LEMMA DispatchStep ==
  ASSUME CodeTyped, ImagesAreSound, Plain(image, frames), OutsideHooks(image, cpu, frames, ret, bypass), Code!Dispatch
  PROVE  StackOKNext /\ ShowsNext = Code!M!Seen(cpu) /\ ~Executing(frames)
<1>1. /\ Code!Top.kind = "loop" /\ ret = "none" /\ cpu.stop = "running" /\ UNCHANGED <<image, ret, bypass>>
      /\ Code!Enter(cpu.pc, frames, cpu) /\ (Code!Hooked(cpu.pc) \/ Code!Translated(cpu.pc))
      /\ (Code!Hooked(cpu.pc) \/ cpu.pending \/ cpu.pc \notin image.imports)
  BY DEF Code!Dispatch, Code!InLoop, Code!M!Running
<1>2. /\ Calling(image, frames) /\ ~Executing(frames) /\ AfterBranch(image, cpu) /\ bypass = Return
  BY <1>1, BottomIs
<1>3. Code!SoundImage(image) /\ cpu \in State /\ cpu.pc \in Nat
  BY DEF CodeTyped, ImagesAreSound, State
<1>4. Code!Hooked(cpu.pc) => ~cpu.pending
  BY <1>1, <1>2, <1>3, NotHookedIs, SlotIs
<1>5. ~Code!Hooked(cpu.pc) => cpu.pc \in Code!Words(image)
  BY <1>1 DEF Code!Translated, Code!BlockEntries
<1>6. ~Code!Hooked(cpu.pc) => IF cpu.pending THEN cpu.pc \in Code!DelaySlots(image) ELSE cpu.pc \notin image.imports
  BY <1>1, <1>2, <1>3, <1>5, SlotIs
<1>7. ret' = "none" /\ bypass' = bypass /\ cpu.stop # "step_limit"
  BY <1>1
<1>8. StackOKNext /\ ShowsNext = Code!M!Seen(cpu)
  BY <1>1, <1>2, <1>3, <1>4, <1>5, <1>6, <1>7, EnterNow
<1> QED
  BY <1>2, <1>8

\* Steps of the bottom loop that leave the stack alone.
LEMMA BottomStep ==
  ASSUME CodeTyped, Plain(image, frames), Code!Top.kind = "loop", OutsideHooks(image, cpu, frames, ret, bypass),
         UNCHANGED <<frames, bypass>>, AfterBranch(image, cpu')
  PROVE  StackOKNext /\ ShowsNext = Code!M!Seen(cpu')
<1>1. Len(frames') = 1 /\ Calling(image, frames') /\ bypass' = Return
  BY BottomIs
<1> QED
  BY <1>1, CallerNow

\* An instruction of the interpreter leaves a branch behind itself, if any.
LEMMA InterpretBranches ==
  ASSUME NEW im, Code!SoundImage(im), NEW c \in State, c.pending => (c.pc \in Code!Words(im) => ~Code!StartsDelayedBranch(im.code[c.pc]))
  PROVE  AfterBranch(im, Code!M!Interpret(im.code, c))
<1> DEFINE r == Code!M!Interpret(im.code, c)
           i == im.code[c.pc]
           d == Code!M!Effect(i, c.pc, Cleared(c))
<1>1. /\ r \in State
      /\ c.pc \notin Code!Words(im) => Down(r)
      /\ c.pc \in Code!Words(im) =>
           /\ i.op = "bad" => Down(r)
           /\ i.op # "bad" =>
                r = IF c.pending /\ d.stop = "running" THEN [d EXCEPT !.pc = c.target] ELSE d
  BY InterpretIs
<1> HIDE DEF r
<1>2. CASE Down(r)
  BY <1>2 DEF AfterBranch, Down, r
<1>3. CASE c.pc \in Code!Words(im) /\ i.op # "bad"
  <2>1. c.pc \in Nat /\ i \in Code!Instruction /\ (i.op \in Branching <=> Code!StartsDelayedBranch(i))
    BY <1>3, CodeIs
  <2>2. Cleared(c) \in State /\ Cleared(c).pc = c.pc + 1 /\ ~Cleared(c).pending
    BY ClearedIs
  <2>3. /\ d \in State
        /\ i.op \notin Branching => ~d.pending
        /\ d.pc = c.pc + 1 \/ ~d.pending
    BY <2>1, <2>2, EffectIs
  <2> HIDE DEF d
  <2>4. CASE c.pending /\ d.stop = "running"
    <3>1. ~d.pending /\ r = [d EXCEPT !.pc = c.target]
      BY <1>1, <1>3, <2>1, <2>3, <2>4 DEF i
    <3>2. ~r.pending
      BY <2>3, <3>1 DEF State
    <3> QED
      BY <3>2 DEF AfterBranch, r
  <2>5. CASE ~(c.pending /\ d.stop = "running")
    <3>1. r = d
      BY <1>1, <1>3, <2>5
    <3>2. r.pending => r.pc = c.pc + 1 /\ r.pc - 1 = c.pc /\ r.pc > 0 /\ Code!StartsDelayedBranch(im.code[c.pc])
      BY <2>1, <2>3, <3>1 DEF i
    <3>3. AfterBranch(im, r)
      BY <1>3, <3>2 DEF AfterBranch
    <3> QED
      BY <3>3 DEF r
  <2> QED
    BY <2>4, <2>5
<1> QED
  BY <1>1, <1>2, <1>3

\* An instruction of the interpreter outside of hooks is the machine's.
LEMMA FallbackStep ==
  ASSUME CodeTyped, ImagesAreSound, Plain(image, frames), OutsideHooks(image, cpu, frames, ret, bypass), Code!Fallback
  PROVE  /\ StackOKNext /\ ~Executing(frames) /\ cpu.stop = "running"
         /\ ~(cpu.pc = Return /\ ~cpu.pending) /\ ~(cpu.pc \in image.patched)
         /\ ~(cpu.pc \in image.imports /\ ~cpu.pending)
         /\ Code!BranchesKept => ShowsNext = Code!M!Seen(Code!M!Interpret(image.code, cpu))
<1> DEFINE c == Code!Refused(cpu.pc, cpu)
<1>1. /\ Code!Top.kind = "loop" /\ ret = "none" /\ cpu.stop = "running" /\ ~(cpu.pc = Code!Top.back /\ ~cpu.pending)
      /\ ~Code!Hooked(cpu.pc) /\ ~Code!Translated(cpu.pc) /\ (cpu.pending \/ cpu.pc \notin image.imports)
      /\ cpu' = Code!M!Interpret(image.code, c) /\ UNCHANGED <<image, frames, ret, bypass>>
  BY DEF Code!Fallback, Code!InLoop, Code!M!Running
<1>2. /\ Len(frames) = 1 /\ Code!Top.back = Return /\ ~Executing(frames) /\ AfterBranch(image, cpu) /\ bypass = Return
  BY <1>1, BottomIs
<1>3. Code!SoundImage(image) /\ cpu \in State
  BY DEF CodeTyped, ImagesAreSound
<1>4. /\ c \in State /\ c.stop = cpu.stop /\ c.gpr = cpu.gpr /\ c.pc = cpu.pc /\ c.target = cpu.target
      /\ (~cpu.pending => ~c.pending)
      /\ ({s \in Code!DiscoverFunctions(image) : s <= cpu.pc} = {} => (c.pending <=> cpu.pending))
  BY <1>3, RefusedIs
<1>5. cpu.pc \notin image.patched
  BY <1>1, <1>2, <1>3, NotHookedIs
<1> HIDE DEF c
<1>6. c.pending => (c.pc \in Code!Words(image) => ~Code!StartsDelayedBranch(image.code[c.pc]))
  BY <1>1, <1>2, <1>3, <1>4, SlotIs
<1>7. AfterBranch(image, cpu')
  BY <1>1, <1>3, <1>4, <1>6, InterpretBranches
<1>8. StackOKNext /\ ShowsNext = Code!M!Seen(cpu')
  BY <1>1, <1>7, BottomStep
<1>9. ASSUME Code!BranchesKept
      PROVE  Code!M!Seen(cpu') = Code!M!Seen(Code!M!Interpret(image.code, cpu))
  <2>1. c.pending <=> cpu.pending
    BY <1>1, <1>2, <1>4, <1>9 DEF Code!BranchesKept, Code!M!Running
  <2>2. Alike(c, cpu)
    BY <1>1, <1>4, <2>1 DEF Alike
  <2>3. Alike(cpu', Code!M!Interpret(image.code, cpu))
    BY <1>1, <1>3, <1>4, <2>2, InterpretAlike
  <2>4. cpu' \in State /\ Code!M!Interpret(image.code, cpu) \in State
    BY <1>1, <1>3, <1>4, InterpretIs
  <2> QED
    BY <2>3, <2>4, SeenSame
<1> QED
  BY <1>1, <1>2, <1>5, <1>8, <1>9

-----------------------------------------------------------------------------
(* The steps of the machine *)

\* An instruction.
LEMMA MachineStep ==
  ASSUME Code!SoundImage(image), NEW x \in State, x.stop = "running", Code!Shown = Code!M!Seen(x),
         Code!Shown' = Code!M!Seen(Code!M!Interpret(image.code, x)),
         ~(x.pc = Return /\ ~x.pending), ~(x.pc \in image.patched /\ ~x.pending), ~(x.pc \in image.imports /\ ~x.pending)
  PROVE  Code!Machine!Step
<1> DEFINE s == Code!M!Seen(x)
<1>1. s \in State /\ Alike(x, s)
  BY SeenIs
<1> HIDE DEF s
<1>2. s.stop = "running" /\ s.pc = x.pc /\ (s.pending <=> x.pending)
  BY <1>1 DEF Alike, Down
<1>3. Code!M!Seen(Code!M!Interpret(image.code, x)) = Code!M!Seen(Code!M!Interpret(image.code, s))
  <2>1. Alike(Code!M!Interpret(image.code, x), Code!M!Interpret(image.code, s))
    BY <1>1, InterpretAlike
  <2>2. Code!M!Interpret(image.code, x) \in State /\ Code!M!Interpret(image.code, s) \in State
    BY <1>1, InterpretIs
  <2> QED
    BY <2>1, <2>2, SeenSame
<1>4. Code!Shown = s /\ Code!Shown' = Code!Machine!Seen(Code!Machine!Interpret(image.code, s))
  BY <1>3, SameMachine DEF s
<1> QED
  BY <1>2, <1>4 DEF Code!Machine!Step, Code!Machine!IsRunning, Code!Machine!Running, Code!Machine!AtReturn,
                    Code!Machine!AtHook, Code!Machine!AtImport

\* It stops at the return address or in a hook.
LEMMA MachineStop ==
  ASSUME NEW x \in State, x.stop = "running", Code!Shown = Code!M!Seen(x), Code!Shown' = Code!M!Stopped,
         ~x.pending, x.pc = Return \/ x.pc \in image.patched
  PROVE  Code!Machine!Stop
<1> DEFINE s == Code!M!Seen(x)
<1>1. s \in State /\ Alike(x, s)
  BY SeenIs
<1>2. Code!Shown = s /\ Code!Shown' = Code!Machine!Stopped
  BY SameMachine
<1> HIDE DEF s
<1>3. s.stop = "running" /\ s.pc = x.pc /\ ~s.pending
  BY <1>1 DEF Alike, Down
<1> QED
  BY <1>2, <1>3 DEF Code!Machine!Stop, Code!Machine!IsRunning, Code!Machine!Running, Code!Machine!AtReturn,
                    Code!Machine!AtHook

\* The machine at its limit.
LEMMA MachineLimit ==
  ASSUME NEW x \in State, x.stop = "running", Code!Shown = Code!M!Seen(x), Code!Shown' = Code!M!Limited
  PROVE  Code!Machine!Limit
<1> DEFINE s == Code!M!Seen(x)
<1>1. s \in State /\ Alike(x, s)
  BY SeenIs
<1>2. Code!Shown = s /\ Code!Shown' = Code!Machine!Limited
  BY SameMachine
<1> HIDE DEF s
<1>3. s.stop = "running"
  BY <1>1 DEF Alike, Down
<1> QED
  BY <1>2, <1>3 DEF Code!Machine!Limit, Code!Machine!IsRunning, Code!Machine!Running

\* A call of an import.
LEMMA MachineImport ==
  ASSUME Code!SoundImage(image), NEW x \in State, x.stop = "running", ~x.pending, x.pc \in image.imports, x.pc \notin image.patched,
         x.pc # Return, NEW v \in HookValues, Code!Shown = Code!M!Seen(x), Code!Shown' = Code!M!Seen(Code!M!Imported(x, v))
  PROVE  Code!Machine!Import
<1> DEFINE s == Code!M!Seen(x)
           y == Code!M!Imported(x, v)
           t == Code!M!Seen(y)
           z == Code!M!Imported(s, v)
<1>1. s \in State /\ Alike(x, s) /\ s.target = 0
  BY SeenIs
<1>2. /\ y \in State /\ y.stop = x.stop /\ (y.pending <=> x.pending) /\ y.pc = x.gpr[RA]
      /\ y.gpr = [x.gpr EXCEPT ![V0] = v]
  BY ImportedIs
<1>3. t \in State /\ Alike(y, t) /\ t.target = 0
  BY <1>2, SeenIs
<1>4. /\ z \in State /\ z.stop = s.stop /\ (z.pending <=> s.pending) /\ z.target = s.target /\ z.pc = s.gpr[RA]
      /\ z.gpr = [s.gpr EXCEPT ![V0] = v]
  BY <1>1, ImportedIs
<1>5. Code!Shown = s /\ Code!Shown' = t /\ Code!Machine!Imported(s, v) = z
  BY SameMachine
<1> HIDE DEF s, y, t, z
<1>6. s.stop = "running" /\ s.pc = x.pc /\ ~s.pending /\ s.gpr = x.gpr
  BY <1>1 DEF Alike, Down
<1>7. t = z
  <2>1. t.gpr = z.gpr /\ t.pc = z.pc /\ (t.pending <=> z.pending) /\ t.target = z.target /\ t.stop = z.stop
    BY <1>1, <1>2, <1>3, <1>4, <1>6 DEF Alike, Down
  <2> QED
    BY <1>3, <1>4, <2>1, StateIs
<1> QED
  BY <1>5, <1>6, <1>7 DEF Code!Machine!Import, Code!Machine!IsRunning, Code!Machine!Running, Code!Machine!AtReturn,
                    Code!Machine!AtHook, Code!Machine!AtImport

\* A hook that returns.
LEMMA MachineHook ==
  ASSUME NEW x \in State, x.stop = "running", ~x.pending, x.pc \in image.patched, Code!Shown = Code!M!Seen(x),
         NEW y \in State, y.stop = "running", ~y.pending, y.pc = x.gpr[RA], y.gpr[RA] = x.gpr[RA],
         Code!Shown' = Code!M!Seen(y)
  PROVE  Code!Machine!Hook
<1> DEFINE s == Code!M!Seen(x)
           t == Code!M!Seen(y)
           z == [s EXCEPT !.gpr = t.gpr, !.pc = s.gpr[RA]]
<1>1. s \in State /\ Alike(x, s) /\ s.target = 0 /\ t \in State /\ Alike(y, t) /\ t.target = 0
  BY SeenIs
<1>2. Code!Shown = s /\ Code!Shown' = t
  OBVIOUS
<1> HIDE DEF s, t
<1>3. s.stop = "running" /\ s.pc = x.pc /\ ~s.pending /\ s.gpr = x.gpr
  BY <1>1 DEF Alike, Down
<1>4. t.stop = "running" /\ t.pc = y.pc /\ ~t.pending /\ t.gpr = y.gpr
  BY <1>1 DEF Alike, Down
<1>5. t = z
  <2>1. s.gpr[RA] \in Nat /\ t.gpr \in [Regs -> Nat]
    BY <1>1, CodeConstants DEF State
  <2>2. z \in State /\ z.gpr = t.gpr /\ z.pc = s.gpr[RA] /\ (z.pending <=> s.pending) /\ z.target = s.target /\ z.stop = s.stop
    BY <1>1, <2>1 DEF State
  <2> HIDE DEF z
  <2> QED
    BY <1>1, <1>3, <1>4, <2>2, StateIs
<1>6. t \notin {Code!Machine!Stopped, Code!Machine!Limited}
  BY <1>4 DEF Code!Machine!Stopped, Code!Machine!Limited
<1>7. t = [s EXCEPT !.gpr = t.gpr, !.pc = s.gpr[RA]] /\ t.gpr[RA] = s.gpr[RA]
  BY <1>3, <1>4, <1>5
<1> QED
  BY <1>2, <1>3, <1>6, <1>7 DEF Code!Machine!Hook, Code!Machine!IsRunning, Code!Machine!Running, Code!Machine!AtHook

\* The invariant after a step.
LEMMA InvAgain ==
  ASSUME TypedStep, StackOKNext
  PROVE  CodeInv'
<1>1. CodeTyped' /\ image' = image
  BY DEF TypedStep
<1>2. FunctionsFirst(image', frames') /\ StackOK(image', cpu', frames', ret', bypass')
  BY <1>1 DEF StackOKNext
<1> QED
  BY <1>1, <1>2 DEF CodeInv

\* A step that shows the same.
LEMMA Stutters ==
  ASSUME image' = image, Code!Shown' = Code!Shown
  PROVE  [Code!Machine!Next]_(Code!Machine!vars)
  BY DEF Code!Machine!vars

\* A step of the machine.
LEMMA Steps ==
  ASSUME image' = image, Code!Machine!Step \/ Code!Machine!Import \/ Code!Machine!Hook \/ Code!Machine!Stop \/ Code!Machine!Limit
  PROVE  [Code!Machine!Next]_(Code!Machine!vars)
  BY DEF Code!Machine!Next

\* In a loop or a call the processor is shown as it is.
LEMMA ShownBottom ==
  ASSUME NoHookUpTo(frames, Len(frames)), ~Executing(frames)
  PROVE  Code!Shown = Code!M!Seen(cpu)
  BY ShownIs, ShownPlain

\* What the program does outside of hooks is a step of the machine or none.
LEMMA OutsideStep ==
  ASSUME CodeInv, ImagesAreSound, NoHookUpTo(frames, Len(frames)), Code!RecompiledNext
  PROVE  CodeInv' /\ (Code!BranchesKept => [Code!Machine!Next]_(Code!Machine!vars))
<1>1. /\ CodeTyped /\ Plain(image, frames) /\ OutsideHooks(image, cpu, frames, ret, bypass) /\ Code!SoundImage(image)
      /\ cpu \in State /\ Code!Top = frames[Len(frames)]
  <2>1. CodeTyped /\ frames \in Stacks(image) /\ FunctionsFirst(image, frames) /\ OutsideHooks(image, cpu, frames, ret, bypass)
    BY DEF CodeInv, CodeTyped, StackOK
  <2>2. Plain(image, frames)
    BY <2>1, PlainIs
  <2> QED
    BY <2>1, <2>2, TopIs DEF CodeTyped, ImagesAreSound
<1>2. TypedStep /\ image' = image
  BY <1>1, StepTyped DEF TypedStep
<1>3. ShowsNext = Code!Shown'
  BY ShownIs DEF ShowsNext
<1>4. CASE Code!Execute
  <2> DEFINE x == [cpu EXCEPT !.pc = Code!Top.at, !.pending = Code!Top.apply, !.target = Code!Top.to]
  <2>1. /\ StackOKNext /\ x \in State /\ PlainFn(image, Code!Top) /\ Executing(frames) /\ ret = "none"
        /\ x.pc = Code!Top.at /\ (x.pending <=> Code!Top.apply) /\ x.stop = cpu.stop /\ cpu.stop # "step_limit"
        /\ ShowsNext = Code!M!Seen(IF cpu.stop = "running" THEN Code!M!Interpret(image.code, x) ELSE cpu)
    BY <1>1, <1>4, ExecuteStep
  <2>2. Code!Shown = Code!M!Seen(x)
    <3>1. ShownOf(cpu, frames, ret)
            = IF Executing(frames) /\ ret = "none"
                THEN Code!M!Seen([cpu EXCEPT !.pc = frames[Len(frames)].at,
                                             !.pending = frames[Len(frames)].apply,
                                             !.target = frames[Len(frames)].to])
                ELSE Code!M!Seen(cpu)
      BY ShownPlain
    <3>2. x = [cpu EXCEPT !.pc = frames[Len(frames)].at, !.pending = frames[Len(frames)].apply,
                          !.target = frames[Len(frames)].to]
      BY <1>1
    <3> HIDE DEF x
    <3> QED
      BY <2>1, <3>1, <3>2, ShownIs
  <2> HIDE DEF x
  <2>3. CASE cpu.stop = "running"
    <3>1. x.pc \in Code!Words(image) /\ (~x.pending => x.pc \notin image.imports \cup image.patched) /\ ~Code!Top.calls
      BY <1>1, <2>1 DEF PlainFn, FnFrame, Executing
    <3>2. x.pc # Return
      BY <1>1, <3>1, CodeIs
    <3>3. Code!Shown' = Code!M!Seen(Code!M!Interpret(image.code, x))
      BY <1>3, <2>1, <2>3
    <3>4. Code!Machine!Step
      BY <1>1, <2>1, <2>2, <2>3, <3>1, <3>2, <3>3, MachineStep
    <3> QED
      BY <1>2, <2>1, <3>4, InvAgain, Steps
  <2>4. CASE cpu.stop # "running"
    <3>1. Down(cpu) /\ Down(x)
      BY <2>1, <2>4 DEF Down
    <3>2. Code!Shown' = Code!Shown
      BY <1>1, <1>3, <2>1, <2>2, <2>4, <3>1, SeenIs
    <3> QED
      BY <1>2, <2>1, <3>2, InvAgain, Stutters
  <2> QED
    BY <2>3, <2>4
<1>5. CASE Code!CallReturns
  <2>1. StackOKNext /\ ShowsNext = Code!M!Seen(cpu) /\ ~Executing(frames)
    BY <1>1, <1>5, CallReturnsStep
  <2> QED
    BY <1>2, <1>3, <2>1, ShownBottom, InvAgain, Stutters
<1>6. CASE Code!Dispatch
  <2>1. StackOKNext /\ ShowsNext = Code!M!Seen(cpu) /\ ~Executing(frames)
    BY <1>1, <1>6, DispatchStep
  <2> QED
    BY <1>2, <1>3, <2>1, ShownBottom, InvAgain, Stutters
<1>7. CASE Code!DispatchImport
  <2>1. /\ Code!Top.kind = "loop" /\ cpu.stop = "running" /\ ~cpu.pending /\ ~(cpu.pc = Code!Top.back /\ ~cpu.pending)
        /\ ~Code!Hooked(cpu.pc) /\ cpu.pc \in image.imports /\ UNCHANGED <<image, frames, ret, bypass>>
    BY <1>7 DEF Code!DispatchImport, Code!InLoop, Code!M!Running
  <2>2. PICK v \in HookValues : cpu' = Code!M!Imported(cpu, v)
    BY <1>7 DEF Code!DispatchImport
  <2>3. /\ Code!Top.back = Return /\ ~Executing(frames) /\ bypass = Return
    BY <1>1, <2>1, BottomIs
  <2>4. cpu.pc \notin image.patched /\ cpu.pc # Return
    BY <1>1, <2>1, <2>3, NotHookedIs
  <2>5. ~cpu'.pending
    BY <1>1, <2>1, <2>2, ImportedIs
  <2>6. StackOKNext /\ ShowsNext = Code!M!Seen(cpu')
    BY <1>1, <2>1, <2>5, BottomStep DEF AfterBranch
  <2>7. Code!Shown = Code!M!Seen(cpu) /\ Code!Shown' = Code!M!Seen(Code!M!Imported(cpu, v))
    BY <1>3, <2>2, <2>3, <2>6, ShownBottom
  <2>8. Code!Machine!Import
    BY <1>1, <2>1, <2>4, <2>7, MachineImport
  <2> QED
    BY <1>2, <2>6, <2>8, InvAgain, Steps
<1>8. CASE Code!Fallback
  <2>1. /\ StackOKNext /\ ~Executing(frames) /\ cpu.stop = "running"
        /\ ~(cpu.pc = Return /\ ~cpu.pending) /\ ~(cpu.pc \in image.patched)
        /\ ~(cpu.pc \in image.imports /\ ~cpu.pending)
        /\ Code!BranchesKept => ShowsNext = Code!M!Seen(Code!M!Interpret(image.code, cpu))
    BY <1>1, <1>8, FallbackStep
  <2>2. ASSUME Code!BranchesKept
        PROVE  Code!Machine!Step
    <3>1. Code!Shown = Code!M!Seen(cpu) /\ Code!Shown' = Code!M!Seen(Code!M!Interpret(image.code, cpu))
      BY <1>3, <2>1, <2>2, ShownBottom
    <3> QED
      BY <1>1, <2>1, <3>1, MachineStep
  <2> QED
    BY <1>2, <2>1, <2>2, InvAgain, Steps
<1>9. CASE Code!LoopGoesOn
  <2>1. Code!Top.kind = "loop" /\ UNCHANGED <<image, cpu, frames, bypass>>
    BY <1>9 DEF Code!LoopGoesOn
  <2>2. AfterBranch(image, cpu') /\ ~Executing(frames)
    BY <1>1, <2>1, BottomIs
  <2>3. StackOKNext /\ ShowsNext = Code!M!Seen(cpu')
    BY <1>1, <2>1, <2>2, BottomStep
  <2> QED
    BY <1>2, <1>3, <2>1, <2>2, <2>3, ShownBottom, InvAgain, Stutters
<1>10. CASE Code!StepLimit
  <2>1. /\ Code!Top.kind = "loop" /\ cpu.stop = "running" /\ UNCHANGED <<image, frames, bypass>>
        /\ cpu' = [cpu EXCEPT !.stop = "step_limit"]
    BY <1>10 DEF Code!StepLimit, Code!InLoop, Code!M!Running
  <2>2. cpu'.stop = "step_limit" /\ cpu' \in State
    BY <1>1, <2>1 DEF State, StopReasons
  <2>3. AfterBranch(image, cpu') /\ ~Executing(frames)
    BY <1>1, <2>1, <2>2, BottomIs DEF AfterBranch
  <2>4. StackOKNext /\ ShowsNext = Code!M!Seen(cpu')
    BY <1>1, <2>1, <2>3, BottomStep
  <2>5. Code!Shown = Code!M!Seen(cpu) /\ Code!Shown' = Code!M!Limited
    BY <1>3, <2>2, <2>3, <2>4, ShownBottom, SeenIs
  <2>6. Code!Machine!Limit
    BY <1>1, <2>1, <2>5, MachineLimit
  <2> QED
    BY <1>2, <2>4, <2>6, InvAgain, Steps
<1>11. CASE Code!RunReturns
  <2>1. /\ Len(frames) = 1 /\ cpu.stop = "running" /\ UNCHANGED <<image, frames, bypass>> /\ cpu.pc = Code!Top.back
        /\ ~cpu.pending /\ cpu' = [cpu EXCEPT !.stop = "returned"]
    BY <1>11 DEF Code!RunReturns, Code!M!Running
  <2>2. Code!Top.kind = "loop"
    BY <1>1, <2>1, StackIs DEF CodeTyped
  <2>3. Down(cpu') /\ cpu' \in State
    BY <1>1, <2>1 DEF State, StopReasons, Down
  <2>4. AfterBranch(image, cpu') /\ ~Executing(frames) /\ cpu.pc = Return
    BY <1>1, <2>1, <2>2, <2>3, BottomIs DEF AfterBranch, Down
  <2>5. StackOKNext /\ ShowsNext = Code!M!Seen(cpu')
    BY <1>1, <2>1, <2>2, <2>4, BottomStep
  <2>6. Code!Shown = Code!M!Seen(cpu) /\ Code!Shown' = Code!M!Stopped
    BY <1>3, <2>3, <2>4, <2>5, ShownBottom, SeenIs
  <2>7. Code!Machine!Stop
    BY <1>1, <2>1, <2>4, <2>6, MachineStop
  <2> QED
    BY <1>2, <2>5, <2>7, InvAgain, Steps
<1>12. ~Code!CallOriginal /\ ~Code!HookReturns
  <2>1. Code!Top.kind # "hook"
    <3>1. Len(frames) \in Nat /\ Len(frames) > 0
      BY <1>1, TopIs
    <3> QED
      BY <1>1, <3>1 DEF NoHookUpTo
  <2> QED
    BY <2>1 DEF Code!CallOriginal, Code!HookReturns
<1>13. ~Code!OriginalReturns
  <2>1. ASSUME Code!Top.kind = "loop"
        PROVE  ~(Len(frames) > 1)
    <3>1. Len(frames) = 1
      BY <1>1, <2>1, BottomIs
    <3> QED
      BY <3>1
  <2>2. Code!OriginalReturns => Code!Top.kind = "loop" /\ Len(frames) > 1
    BY Zenon DEF Code!OriginalReturns
  <2> QED
    BY <2>1, <2>2
<1> QED
  BY <1>4, <1>5, <1>6, <1>7, <1>8, <1>9, <1>10, <1>11, <1>12, <1>13 DEF Code!RecompiledNext

\* The first hook returns to its caller, or stops.
LEMMA HookReturnStep ==
  ASSUME CodeInv, ImagesAreSound, FirstHook(frames, Len(frames)), Code!HookReturns
  PROVE  CodeInv' /\ [Code!Machine!Next]_(Code!Machine!vars)
<1> DEFINE h == Len(frames)
           b == Code!Top.before
<1>1. /\ CodeTyped /\ frames \in Stacks(image) /\ FunctionsFirst(image, frames) /\ h \in Nat /\ h > 0
      /\ Code!Top = frames[h] /\ cpu \in State
  BY TopIs DEF CodeInv, CodeTyped
<1>2. InsideHook(image, cpu, frames, bypass, h)
  BY <1>1 DEF CodeInv, StackOK
<1>3. /\ Code!Top.kind = "hook" /\ h > 1 /\ UNCHANGED <<image, bypass>> /\ ret' = "true"
      /\ cpu' \in State /\ cpu'.stop = cpu.stop /\ cpu'.gpr[RA] = cpu.gpr[RA]
      /\ cpu.stop = "running" => cpu'.pc = cpu.gpr[RA] /\ ~cpu'.pending
      /\ frames' \in Stacks(image) /\ Len(frames') = h - 1 /\ \A n \in 1..(h - 1) : frames'[n] = frames[n]
  BY <1>1, HookReturnsIs
<1>4. b \in State
  BY <1>1, <1>3, TopIs DEF HookFrame
<1>5. /\ b.stop # "step_limit"
      /\ b.stop = "running" => b.pc \in image.patched /\ ~b.pending
      /\ Down(b) => Down(cpu)
      /\ cpu.gpr[RA] = b.gpr[RA] /\ bypass = Return
  BY <1>1, <1>2 DEF InsideHook
<1>6. Code!Shown = Code!M!Seen(b)
  BY <1>1, ShownIs, ShownInHook
<1> HIDE DEF b
<1>7. Calling(image, frames')
  <2> SUFFICES ASSUME NEW n \in 2..Len(frames')
               PROVE  PlainFn(image, frames'[n]) /\ frames'[n].calls
    BY <1>3 DEF Calling
  <2>1. n \in 2..Len(frames) /\ n < Len(frames) /\ frames'[n] = frames[n]
    BY <1>1, <1>3
  <2>2. NoHookUpTo(frames, n)
    BY <1>1, <2>1 DEF FirstHook, NoHookUpTo
  <2>3. PlainFn(image, frames[n]) /\ (n < Len(frames) => frames[n].calls)
    BY <1>1, <2>1, <2>2 DEF FunctionsFirst
  <2> QED
    BY <2>1, <2>3
<1>8. AfterBranch(image, cpu')
  BY <1>3 DEF AfterBranch
<1>9. StackOKNext /\ ShowsNext = Code!M!Seen(cpu')
  BY <1>3, <1>5, <1>7, <1>8, CallerNow
<1>10. TypedStep
  BY <1>1, HookReturnsTyped
<1>11. CodeInv' /\ Code!Shown' = Code!M!Seen(cpu')
  BY <1>9, <1>10, InvAgain, ShownIs DEF ShowsNext
<1>12. CASE b.stop = "running" /\ cpu.stop = "running"
  <2>1. cpu'.stop = "running" /\ ~cpu'.pending /\ cpu'.pc = b.gpr[RA] /\ cpu'.gpr[RA] = b.gpr[RA]
    BY <1>3, <1>5, <1>12
  <2>2. Code!Machine!Hook
    BY <1>3, <1>4, <1>5, <1>6, <1>11, <1>12, <2>1, MachineHook
  <2> QED
    BY <1>3, <1>11, <2>2, Steps
<1>13. CASE b.stop = "running" /\ cpu.stop = "step_limit"
  <2>1. Code!Shown' = Code!M!Limited
    BY <1>3, <1>11, <1>13, SeenIs
  <2>2. Code!Machine!Limit
    BY <1>4, <1>6, <1>13, <2>1, MachineLimit
  <2> QED
    BY <1>3, <1>11, <2>2, Steps
<1>14. CASE b.stop = "running" /\ Down(cpu)
  <2>1. Code!Shown' = Code!M!Stopped
    BY <1>3, <1>11, <1>14, SeenIs DEF Down
  <2>2. Code!Machine!Stop
    BY <1>4, <1>5, <1>6, <1>14, <2>1, MachineStop
  <2> QED
    BY <1>3, <1>11, <2>2, Steps
<1>15. CASE b.stop # "running"
  <2>1. Down(b) /\ Down(cpu')
    BY <1>3, <1>5, <1>15 DEF Down
  <2>2. Code!Shown' = Code!Shown
    BY <1>3, <1>4, <1>6, <1>11, <2>1, SeenIs
  <2> QED
    BY <1>3, <1>11, <2>2, Stutters
<1> QED
  BY <1>12, <1>13, <1>14, <1>15 DEF Down

\* Every step keeps the invariant and, unless a branch is lost, is one of the machine or none.
LEMMA CodeStep ==
  ASSUME CodeInv, ImagesAreSound, [Next]_vars
  PROVE  CodeInv' /\ (Code!BranchesKept => [Code!Machine!Next]_(Code!Machine!vars))
<1>1. CASE Code!RecompiledNext
  <2>1. frames \in Stacks(image)
    BY DEF CodeInv, CodeTyped
  <2>2. CASE NoHookUpTo(frames, Len(frames))
    BY <1>1, <2>2, OutsideStep
  <2>3. CASE \E h \in 1..Len(frames) : FirstHook(frames, h)
    <3>1. PICK h \in 1..Len(frames) : FirstHook(frames, h)
      BY <2>3
    <3>2. CASE Code!HookReturns /\ Len(frames) = h
      BY <3>1, <3>2, HookReturnStep
    <3>3. CASE ~(Code!HookReturns /\ Len(frames) = h)
      <4>1. CodeInv' /\ Code!Shown' = Code!Shown
        BY <1>1, <3>1, <3>3, InHookStep
      <4>2. image' = image
        BY <1>1, StepTyped DEF CodeInv, TypedStep
      <4> QED
        BY <4>1, <4>2, Stutters
    <3> QED
      BY <3>2, <3>3
  <2> QED
    BY <2>1, <2>2, <2>3, HookOrNone
<1>2. CASE UNCHANGED code
  <2>1. /\ image' = image /\ cpu' = cpu /\ frames' = frames /\ ret' = ret /\ bypass' = bypass
    BY <1>2 DEF code
  <2>2. CodeInv'
    BY <2>1 DEF CodeInv, CodeTyped
  <2>3. Code!Shown' = Code!Shown
    BY <2>1, ShownIs
  <2> QED
    BY <2>1, <2>2, <2>3, Stutters
<1>3. Code!RecompiledNext \/ UNCHANGED code
  <2>1. CASE Next
    <3>1. part = "code" => Code!RecompiledNext
      BY <2>1 DEF Next, RunCode, RunBoth, WritePrefix, Operate, AddRelocation, AddLine, PatchDisc, CrossOver, PassArguments,
                  UseDisk, UsePatches, Hash, Decrypt
    <3>2. part # "code" => UNCHANGED code
      BY <2>1 DEF Next, Frame
    <3> QED
      BY <3>1, <3>2
  <2>2. CASE UNCHANGED vars
    BY <2>2 DEF vars, code
  <2> QED
    BY <2>1, <2>2
<1> QED
  BY <1>1, <1>2, <1>3

\* It holds at the start, which is one of the machine.
LEMMA CodeStart ==
  ASSUME Init, ImagesAreSound
  PROVE  CodeInv /\ Code!Machine!Init
<1>1. /\ image \in Images /\ frames = <<Code!Loop(Return)>> /\ ret = "none" /\ bypass = Return
      /\ cpu = [gpr |-> [r \in Regs |-> IF r = RA THEN Return ELSE 0],
                pc |-> image.entry, pending |-> FALSE, target |-> 0, stop |-> "running"]
  BY DEF Init, Code!RecompiledInit, Code!M!Init, Code!M!Running
<1>2. image.entry \in Nat
  BY <1>1 DEF ImagesAreSound, Code!SoundImage
<1>3. cpu \in State /\ cpu.stop = "running" /\ ~cpu.pending /\ cpu.target = 0
  BY <1>1, <1>2, CodeConstants DEF State, StopReasons
<1>4. frames \in Stacks(image) /\ Len(frames) = 1 /\ frames[1].kind = "loop"
  BY <1>1 DEF Stacks, Code!Loop
<1>5. CodeTyped
  BY <1>1, <1>3, <1>4, CodeConstants DEF CodeTyped
<1>6. Plain(image, frames) /\ ~Executing(frames) /\ ~InCall(frames)
  BY <1>4 DEF Plain, Executing, InCall
<1>7. OutsideHooks(image, cpu, frames, ret, bypass)
  BY <1>1, <1>3, <1>6 DEF OutsideHooks, AfterBranch
<1>8. FunctionsFirst(image, frames) /\ StackOK(image, cpu, frames, ret, bypass) /\ NoHookUpTo(frames, Len(frames))
  BY <1>6, <1>7, PlainNow
<1>9. Code!Shown = Code!M!Seen(cpu)
  BY <1>6, <1>8, ShownBottom
<1>10. Code!M!Seen(cpu) = cpu
  <2>1. Code!M!Seen(cpu) \in State /\ Alike(cpu, Code!M!Seen(cpu)) /\ Code!M!Seen(cpu).target = 0
    BY <1>3, SeenIs
  <2> QED
    BY <1>3, <2>1, StateIs DEF Alike, Down
<1>11. Code!Machine!Init
  BY <1>1, <1>9, <1>10 DEF Code!Machine!Init, Code!Machine!Running
<1> QED
  BY <1>5, <1>8, <1>11 DEF CodeInv

THEOREM StackInvariant == ASSUME ImagesAreSound PROVE Spec => []CodeInv
<1>1. Init => CodeInv
  BY CodeStart
<1>2. CodeInv /\ [Next]_vars => CodeInv'
  BY CodeStep
<1> QED
  BY <1>1, <1>2, PTL DEF Spec

THEOREM CodeIsMachine == ASSUME ImagesAreSound PROVE Spec /\ []Code!BranchesKept => ImplementsMachine
<1>1. Init => CodeInv /\ Code!Machine!Init
  BY CodeStart
<1>2. CodeInv /\ [Next]_vars => CodeInv'
  BY CodeStep
<1>3. CodeInv /\ Code!BranchesKept /\ [Next]_vars => [Code!Machine!Next]_(Code!Machine!vars)
  BY CodeStep
<1> QED
  BY <1>1, <1>2, <1>3, PTL DEF Spec, ImplementsMachine, Code!ImplementsMachine, Code!Machine!Spec
============================================================================
