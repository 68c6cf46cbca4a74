---------------------------- MODULE DesktopProofs ----------------------------
(***************************************************************************)
(* Proofs about the directory of a save (SaveStore), for any number of     *)
(* saves, of calls that fail and of kills; about the keys and sticks       *)
(* (Controls), for any keys, any positions of the stick and any number of  *)
(* events and samples; about the dialogs of both platforms                 *)
(* (UtilityDialogs), for any keyboard, number of dialogs and of messages;  *)
(* and about the pictures (HostFrames), for any addresses, sizes, pictures *)
(* and numbers of batches and presents.                                    *)
(***************************************************************************)
EXTENDS Desktop, WellFoundedInduction, TLAPS

Files == Store!Files
Contents == Store!Contents
Steps ==
    {"idle", "clear", "create", "data", "dataOpen", "asset", "assetOpen", "sfo", "sfoOpen", "check", "abandon",
     "clearBackup", "moveAway", "moveIn", "undo", "restore", "restored", "cleanUp", "delete"}
Names == Store!Names
Writing == Store!Writing \cup {"check"}
Used == MaxStoreFaults - spareFaults

\* c is all of save n: what Store!Holds says of a directory.
IsSave(c, n, p, s) ==
    /\ c # Absent /\ p[n] \subseteq DOMAIN c /\ \A f \in p[n] : c[f] = n
    /\ n \notin s => DOMAIN c = p[n]
Is(d, n) == IsSave(dirs[d], n, pieces, stale)
HoldsWhole(d) == \E n \in 1..number : Is(d, n)

\* What a save consists of.
Pieces == {{name, "sfo"} : name \in Names} \cup {{name, "sfo", "asset"} : name \in Names}

StoreTypes ==
    /\ dirs \in [Store!Dirs -> Contents \cup {Absent}] /\ spc \in Steps
    /\ number \in 0..MaxSaves /\ kept \in 0..number /\ spareFaults \in 0..MaxStoreFaults
    /\ pieces \in [1..MaxSaves -> SUBSET Files] /\ \A n \in 1..number : pieces[n] \in Pieces
    /\ stale \subseteq 1..number /\ failed \in BOOLEAN
    /\ existed \in BOOLEAN /\ unmoved \in BOOLEAN /\ cut \in BOOLEAN
    /\ reported \in {"none", "error", "saved", "loaded", "noData"}
    /\ spc # "idle" => (spc = "delete" \/ number > 0)

\* What has been written of the new save so far, unless something failed.
Written(f) == f \in DOMAIN dirs["staging"] /\ dirs["staging"][f] = number
StagingWritten ==
    /\ spc \in Writing => dirs["staging"] # Absent
    /\ spc \in Writing /\ number \notin stale => DOMAIN dirs["staging"] \subseteq pieces[number]
    /\ ~failed /\ spc \in Writing \ {"data", "dataOpen"} => \A f \in pieces[number] \cap Names : Written(f)
    /\ ~failed /\ spc \in {"sfo", "sfoOpen", "check"} => ("asset" \in pieces[number] => Written("asset"))
    /\ ~failed /\ spc = "check" => Written("sfo")
    /\ spc \in {"clearBackup", "moveAway", "moveIn"} => Is("staging", number)

\* No half save lies where a load would find it or the roll-back would take it
\* from.
SaveWhole ==
    ~cut /\ ~unmoved =>
      /\ spc # "delete" => dirs["save"] = Absent \/ HoldsWhole("save")
      /\ spc \in {"undo", "restore"} => dirs["save"] = Absent
      /\ spc \in {"moveIn", "undo", "restore"} /\ existed => HoldsWhole("backup")
MovedIn ==
    /\ ~unmoved /\ spc \in {"moveIn", "undo", "restore"} => dirs["save"] = Absent
    /\ spc = "cleanUp" => Is("save", number)
    /\ spc = "delete" => kept = 0

\* Nothing has failed yet: the last save is in its place.
NoFaultYet ==
    Used = 0 =>
      /\ ~unmoved /\ ~cut /\ spc \notin {"undo", "restore", "restored"}
      /\ spc \in {"idle", "clear", "create", "cleanUp", "delete"} => dirs["staging"] = Absent
      /\ spc \notin {"moveIn", "cleanUp"} => dirs["backup"] = Absent
      /\ kept > 0 /\ spc \notin {"moveIn", "cleanUp"} => Is("save", kept)
      /\ kept > 0 /\ spc = "moveIn" => existed /\ Is("backup", kept)

\* Something has failed once at most: what the save directory held when the
\* save began is there, or where the roll-back takes it from, and nothing was
\* left over that the new save could be mixed with.
AfterOneFault ==
    /\ Used <= 1 /\ ~unmoved /\ ~cut =>
         /\ spc \in {"clear", "create", "abandon", "clearBackup", "moveAway", "restored"} \cup Writing =>
              dirs["save"] = before
         /\ spc \in {"moveIn", "undo", "restore"} =>
              IF existed THEN dirs["backup"] = before /\ before # Absent ELSE before = Absent
         /\ spc = "idle" /\ reported = "error" => dirs["save"] = before
    /\ Used <= 1 => stale = {} /\ (spc = "create" => dirs["staging"] = Absent)

\* Where the last save is, or a later one.
Survivor(d) == \E n \in kept..number : Is(d, n)
Survives ==
    Used <= 1 /\ ~unmoved /\ kept > 0 =>
      CASE spc \in {"clearBackup", "moveAway", "moveIn"} -> Survivor("staging")
        [] spc = "cleanUp" -> Survivor("save")
        [] spc \in {"undo", "restore"} -> Survivor("backup")
        [] OTHER -> Survivor("save") \/ Survivor("backup")

StoreInv ==
    /\ StoreTypes /\ StagingWritten /\ SaveWhole /\ MovedIn /\ NoFaultYet /\ AfterOneFault /\ Survives

-----------------------------------------------------------------------------
(* Directories *)

LEMMA StoreConstants == MaxSaves \in Nat /\ MaxStoreFaults \in Nat /\ Absent \notin Contents
  BY DesktopAssumption DEF DesktopAssumption, Store!StoreAssumption, Contents

LEMMA ContentIsFunction ==
  ASSUME NEW c \in Contents
  PROVE  /\ DOMAIN c \subseteq Files /\ c \in [DOMAIN c -> 0..MaxSaves]
  BY DEF Contents, Store!Contents, Files

\* A file less, a file more, no file.
LEMMA FileRemoved ==
  ASSUME NEW c \in Contents, NEW f
  PROVE  [g \in DOMAIN c \ {f} |-> c[g]] \in Contents
<1> DEFINE S == DOMAIN c \ {f}
<1>1. S \in SUBSET Files /\ [g \in S |-> c[g]] \in [S -> 0..MaxSaves]
  BY ContentIsFunction
<1> QED
  BY <1>1 DEF Contents, Store!Contents, Files

LEMMA FileWritten ==
  ASSUME NEW c \in Contents, NEW f \in Files, NEW v \in 0..MaxSaves
  PROVE  [g \in DOMAIN c \cup {f} |-> IF g = f THEN v ELSE c[g]] \in Contents
<1> DEFINE S == DOMAIN c \cup {f}
<1>1. S \in SUBSET Files /\ [g \in S |-> IF g = f THEN v ELSE c[g]] \in [S -> 0..MaxSaves]
  BY ContentIsFunction
<1> QED
  BY <1>1 DEF Contents, Store!Contents, Files

LEMMA EmptyHoldsNothing == Store!Empty \in Contents
<1>1. Store!Empty \in [{} -> 0..MaxSaves]
  BY DEF Store!Empty
<1> QED
  BY <1>1 DEF Contents, Store!Contents

LEMMA AbsentIsNoSave == \A n, p, s : ~IsSave(Absent, n, p, s)
  BY DEF IsSave

\* A save stays one when another begins, or is written among what was left.
LEMMA SaveStays ==
  ASSUME NEW c, NEW n, NEW p, NEW q, NEW s, NEW t, IsSave(c, n, p, s), q[n] = p[n], s \subseteq t
  PROVE  IsSave(c, n, q, t)
  BY DEF IsSave

\* remove_all empties a directory, is done with it, or gives up.
LEMMA RemovingStep ==
  ASSUME StoreTypes, NEW d \in Store!Dirs, NEW here, NEW then, Store!Removing(d, here, then)
  PROVE  /\ spc = here /\ dirs' \in [Store!Dirs -> Contents \cup {Absent}]
         /\ \A e \in Store!Dirs \ {d} : dirs'[e] = dirs[e]
         /\ \/ spc' = here /\ spareFaults' = spareFaults /\ dirs[d] # Absent
            \/ spc' = then /\ spareFaults' = spareFaults /\ dirs' = dirs /\ dirs[d] = Absent
            \/ /\ spc' = then /\ dirs' = dirs /\ dirs[d] # Absent
               /\ spareFaults > 0 /\ spareFaults' = spareFaults - 1
<1> USE DEF Store!Removing, Store!At, Store!Goto, Store!Fine, Store!Fault
<1>1. dirs \in [Store!Dirs -> Contents \cup {Absent}]
  BY DEF StoreTypes
<1>2. CASE Store!RemoveStep(d) /\ spc = here /\ spc' = here /\ spareFaults' = spareFaults
  <2>1. dirs[d] \in Contents
    BY <1>1, <1>2 DEF Store!RemoveStep
  <2>2. \E c \in Contents \cup {Absent} : dirs' = [dirs EXCEPT ![d] = c]
    BY <1>2, <2>1, FileRemoved DEF Store!RemoveStep, Store!SetDir
  <2> QED
    BY <1>1, <1>2, <2>2 DEF Store!RemoveStep
<1> QED
  BY <1>1, <1>2
-----------------------------------------------------------------------------
(* The calls and steps *)

\* A save begins; nothing has been touched.
LEMMA SaveStep ==
  ASSUME StoreInv, Store!Save
  PROVE  StoreInv'
<1> USE StoreConstants DEF StoreInv
<1>1. /\ spc = "idle" /\ spc' = "clear" /\ number < MaxSaves /\ number' = number + 1
      /\ dirs' = dirs /\ existed' \in BOOLEAN /\ reported' = "none" /\ spareFaults' = spareFaults
      /\ kept' = kept /\ before' = dirs["save"] /\ stale' = stale /\ unmoved' = unmoved /\ cut' = cut
  <2>1. existed' \in BOOLEAN
    BY Zenon DEF Store!Save
  <2> QED
    BY <2>1 DEF Store!Save, Store!At, Store!Goto, Store!Fine, Store!Fault
<1>0. number \in Nat /\ number' \in Nat /\ failed' \in BOOLEAN /\ kept \in Nat /\ kept <= number
  <2>1. failed' = FALSE
    BY DEF Store!Save
  <2>2. failed' \in BOOLEAN
    BY <2>1, Zenon
  <2> QED
    BY <1>1, <2>2 DEF StoreTypes
<1>9. PICK p \in Pieces : pieces' = [pieces EXCEPT ![number + 1] = p]
  <2>1. PICK name \in Names, artwork \in SUBSET {"asset"} :
          pieces' = [pieces EXCEPT ![number + 1] = {name, "sfo"} \cup artwork]
    <3>1. PICK name \in Payloads[number + 1], artwork \in SUBSET {"asset"} :
            pieces' = [pieces EXCEPT ![number + 1] = {name, "sfo"} \cup artwork]
      BY DEF Store!Save
    <3>2. Payloads \in [1..MaxSaves -> SUBSET Names] /\ number + 1 \in 1..MaxSaves
      BY <1>0, <1>1, DesktopAssumption DEF DesktopAssumption, Store!StoreAssumption, Names
    <3> QED
      BY <3>1, <3>2
  <2>2. {name, "sfo"} \cup artwork \in Pieces
    <3>1. artwork = {} \/ artwork = {"asset"}
      OBVIOUS
    <3>2. artwork = {} => {name, "sfo"} \cup artwork = {name, "sfo"}
      OBVIOUS
    <3>3. artwork = {"asset"} => {name, "sfo"} \cup artwork = {name, "sfo", "asset"}
      OBVIOUS
    <3> QED
      BY <3>1, <3>2, <3>3 DEF Pieces
  <2> QED
    BY <2>1, <2>2
<1>10. /\ pieces' \in [1..MaxSaves -> SUBSET Files] /\ pieces'[number + 1] = p
       /\ \A n \in 1..number : pieces'[n] = pieces[n]
  <2>1. p \subseteq Files
    BY DEF Pieces, Names, Store!Names, Files, Store!Files
  <2> QED
    BY <1>0, <1>1, <1>9, <2>1 DEF StoreTypes
<1>11. \A d, n : n \in 1..number /\ Is(d, n) => Is(d, n)'
  <2> SUFFICES ASSUME NEW d, NEW n \in 1..number, Is(d, n) PROVE Is(d, n)'
    OBVIOUS
  <2>1. IsSave(dirs[d], n, pieces, stale) /\ pieces'[n] = pieces[n] /\ stale \subseteq stale
    BY <1>10 DEF Is
  <2>2. IsSave(dirs[d], n, pieces', stale)
    BY <2>1, SaveStays
  <2> QED
    BY <1>1, <2>2 DEF Is
<1>2. StoreTypes'
  BY <1>0, <1>1, <1>9, <1>10 DEF StoreTypes, Steps
<1>3. StagingWritten'
  BY <1>1 DEF StagingWritten, Writing, Store!Writing
<1>4. SaveWhole'
  <2>1. HoldsWhole("save") => HoldsWhole("save")'
    BY <1>0, <1>1, <1>11 DEF HoldsWhole
  <2> QED
    BY <1>1, <2>1 DEF SaveWhole
<1>5. MovedIn'
  BY <1>1 DEF MovedIn
<1>12. kept > 0 => kept \in 1..number
  BY <1>0
<1>6. NoFaultYet'
  BY <1>1, <1>11, <1>12 DEF NoFaultYet, Used
<1>7. AfterOneFault'
  BY <1>1 DEF AfterOneFault, Writing, Store!Writing, Used
<1>8. Survives'
  <2>1. \A d, n : kept > 0 /\ n \in kept..number /\ Is(d, n) => n \in kept..(number + 1) /\ Is(d, n)'
    BY <1>0, <1>11
  <2> QED
    BY <1>0, <1>1, <2>1 DEF Survives, Survivor, Used
<1> QED
  BY <1>2, <1>3, <1>4, <1>5, <1>6, <1>7, <1>8

\* A load reads.
LEMMA LoadStep ==
  ASSUME StoreInv, Store!Load
  PROVE  StoreInv'
<1> USE StoreConstants DEF StoreInv
<1>1. /\ spc = "idle" /\ spc' = "idle" /\ number' = number
      /\ pieces' = pieces /\ failed' = failed /\ before' = Absent /\ stale' = stale
      /\ dirs' = dirs /\ existed' = existed /\ reported' \in {"loaded", "noData"}
      /\ spareFaults' = spareFaults /\ kept' = kept /\ unmoved' = unmoved /\ cut' = cut
  BY DEF Store!Load, Store!At, Store!Goto, Store!Fine, Store!Fault
<1>2. StoreTypes'
  BY <1>1 DEF StoreTypes, Steps
<1>3. StagingWritten'
  BY <1>1 DEF StagingWritten, Written, Writing, Store!Writing, Is, StoreTypes
<1>4. SaveWhole'
  BY <1>1 DEF SaveWhole, HoldsWhole, Is, StoreTypes
<1>5. MovedIn'
  BY <1>1 DEF MovedIn, Is, StoreTypes
<1>6. NoFaultYet'
  BY <1>1 DEF NoFaultYet, Used, Is, StoreTypes
<1>7. AfterOneFault'
  BY <1>1 DEF AfterOneFault, Writing, Store!Writing, NoFaultYet, Used, Is, StoreTypes
<1>8. Survives'
  BY <1>1 DEF Survives, Survivor, NoFaultYet, Used, Is, StoreTypes
<1> QED
  BY <1>2, <1>3, <1>4, <1>5, <1>6, <1>7, <1>8

\* The guest gives the save up.
LEMMA DeleteStep ==
  ASSUME StoreInv, Store!Delete
  PROVE  StoreInv'
<1> USE StoreConstants DEF StoreInv
<1>1. /\ spc = "idle" /\ spc' = "delete" /\ number' = number /\ kept' = 0
      /\ pieces' = pieces /\ failed' = failed /\ before' = Absent /\ stale' = stale
      /\ dirs' = dirs /\ existed' = existed /\ reported' = "none"
      /\ spareFaults' = spareFaults /\ unmoved' = unmoved /\ cut' = cut
  BY DEF Store!Delete, Store!At, Store!Goto, Store!Fine, Store!Fault
<1>2. StoreTypes'
  BY <1>1 DEF StoreTypes, Steps
<1>3. StagingWritten'
  BY <1>1 DEF StagingWritten, Written, Writing, Store!Writing, Is, StoreTypes
<1>4. SaveWhole'
  BY <1>1 DEF SaveWhole, HoldsWhole, Is, StoreTypes
<1>5. MovedIn'
  BY <1>1 DEF MovedIn, Is, StoreTypes
<1>6. NoFaultYet'
  BY <1>1 DEF NoFaultYet, Used, Is, StoreTypes
<1>7. AfterOneFault'
  BY <1>1 DEF AfterOneFault, Writing, Store!Writing, NoFaultYet, Used, Is, StoreTypes
<1>8. Survives'
  BY <1>1 DEF Survives, Survivor, NoFaultYet, Used, Is, StoreTypes
<1> QED
  BY <1>2, <1>3, <1>4, <1>5, <1>6, <1>7, <1>8

\* What a killed call left in the staging directory goes.
LEMMA ClearStagingStep ==
  ASSUME StoreInv, Store!ClearStaging
  PROVE  StoreInv'
<1> USE StoreConstants DEF StoreInv
<1>1. /\ dirs' \in [Store!Dirs -> Contents \cup {Absent}]
      /\ dirs'["save"] = dirs["save"] /\ dirs'["backup"] = dirs["backup"]
      /\ spc = "clear"
      /\ \/ spc' = "clear" /\ spareFaults' = spareFaults /\ dirs["staging"] # Absent
         \/ /\ spc' = "create" /\ dirs' = dirs
            /\ \/ spareFaults' = spareFaults /\ dirs["staging"] = Absent
               \/ spareFaults > 0 /\ spareFaults' = spareFaults - 1 /\ dirs["staging"] # Absent
      /\ pieces' = pieces /\ failed' = failed /\ before' = before /\ stale' = stale
      /\ existed' = existed /\ reported' = reported /\ number' = number
      /\ kept' = kept /\ unmoved' = unmoved /\ cut' = cut
  <2>1. Store!Removing("staging", "clear", "create")
    BY DEF Store!ClearStaging
  <2> QED
    BY <2>1, RemovingStep DEF Store!ClearStaging, Store!Dirs, Store!sides, Store!told
<1>2. StoreTypes'
  BY <1>1 DEF StoreTypes, Steps
<1>3. StagingWritten'
  BY <1>1 DEF StagingWritten, Written, Writing, Store!Writing, Is, StoreTypes
<1>4. SaveWhole'
  BY <1>1 DEF SaveWhole, HoldsWhole, Is, StoreTypes
<1>5. MovedIn'
  BY <1>1 DEF MovedIn, Is, StoreTypes
<1>6. NoFaultYet'
  BY <1>1 DEF NoFaultYet, Used, Is, StoreTypes
<1>7. AfterOneFault'
  BY <1>1 DEF AfterOneFault, Writing, Store!Writing, NoFaultYet, Used, Is, StoreTypes
<1>8. Survives'
  BY <1>1 DEF Survives, Survivor, NoFaultYet, Used, Is, StoreTypes
<1> QED
  BY <1>2, <1>3, <1>4, <1>5, <1>6, <1>7, <1>8

\* The staging directory is made.
LEMMA CreateStep ==
  ASSUME StoreInv, Store!Create
  PROVE  StoreInv'
<1> USE StoreConstants DEF StoreInv
<1>1. /\ dirs' \in [Store!Dirs -> Contents \cup {Absent}]
      /\ dirs'["save"] = dirs["save"] /\ dirs'["backup"] = dirs["backup"]
      /\ spc = "create"
      /\ \/ /\ spc' = "data" /\ spareFaults' = spareFaults /\ dirs'["staging"] # Absent
            /\ dirs["staging"] = Absent => DOMAIN dirs'["staging"] = {}
            /\ dirs["staging"] # Absent => dirs'["staging"] = dirs["staging"]
         \/ /\ spc' = "data" /\ dirs' = dirs /\ dirs["staging"] # Absent
            /\ spareFaults > 0 /\ spareFaults' = spareFaults - 1
         \/ /\ spc' = "abandon" /\ dirs' = dirs /\ dirs["staging"] = Absent
            /\ spareFaults > 0 /\ spareFaults' = spareFaults - 1
      /\ existed' = existed /\ reported' = reported /\ number' = number /\ pieces' = pieces
      /\ kept' = kept /\ before' = before /\ unmoved' = unmoved /\ cut' = cut
  <2>1. CASE dirs["staging"] = Absent
    <3>1. DOMAIN Store!Empty = {}
      BY DEF Store!Empty
    <3> QED
      BY <2>1, <3>1, EmptyHoldsNothing DEF Store!Create, Store!SetDir, Store!Dirs, StoreTypes, Store!told, Store!At,
         Store!Goto, Store!Fine, Store!Fault
  <2>2. CASE dirs["staging"] # Absent
    BY <2>2 DEF Store!Create, Store!SetDir, Store!Dirs, StoreTypes, Store!told, Store!At, Store!Goto, Store!Fine,
       Store!Fault
  <2> QED
    BY <2>1, <2>2
<1>9. failed' \in BOOLEAN
  <2>1. failed' = failed \/ failed' = TRUE
    BY DEF Store!Create
  <2> QED
    BY <2>1, Zenon DEF StoreTypes
<1>10. number \in 1..MaxSaves
  BY <1>1 DEF StoreTypes
<1>11. /\ stale \subseteq stale' /\ stale' \subseteq 1..number
       /\ dirs["staging"] = Absent => stale' = stale
       /\ dirs["staging"] # Absent /\ number \notin stale' => DOMAIN dirs["staging"] \subseteq pieces[number]
  BY <1>10 DEF Store!Create, StoreTypes
<1>12. \A d, n : dirs'[d] = dirs[d] /\ Is(d, n) => Is(d, n)'
  <2> SUFFICES ASSUME NEW d, NEW n, dirs'[d] = dirs[d], Is(d, n) PROVE Is(d, n)'
    OBVIOUS
  <2>1. IsSave(dirs[d], n, pieces, stale) /\ pieces[n] = pieces[n]
    BY DEF Is
  <2>2. IsSave(dirs[d], n, pieces, stale')
    BY <1>11, <2>1, SaveStays
  <2> QED
    BY <1>1, <2>2 DEF Is
<1>2. StoreTypes'
  BY <1>1, <1>9, <1>11 DEF StoreTypes, Steps
<1>3. StagingWritten'
  BY <1>1, <1>11 DEF StagingWritten, Writing, Store!Writing
<1>4. SaveWhole'
  <2>1. HoldsWhole("save") => HoldsWhole("save")'
    BY <1>1, <1>12 DEF HoldsWhole
  <2> QED
    BY <1>1, <2>1 DEF SaveWhole
<1>5. MovedIn'
  BY <1>1 DEF MovedIn
<1>6. NoFaultYet'
  BY <1>1, <1>12 DEF NoFaultYet, Used, StoreTypes
<1>7. AfterOneFault'
  BY <1>1, <1>11 DEF AfterOneFault, Writing, Store!Writing, NoFaultYet, Used, StoreTypes
<1>8. Survives'
  BY <1>1, <1>12 DEF Survives, Survivor, Used, StoreTypes
<1> QED
  BY <1>2, <1>3, <1>4, <1>5, <1>6, <1>7, <1>8

\* A file is opened or written, cannot be, or is passed over.
Opening(f) ==
    \/ spc = "data" /\ spc' = "dataOpen" /\ f \in pieces[number] \cap Names
    \/ spc = "asset" /\ spc' = "assetOpen" /\ f = "asset" /\ f \in pieces[number]
    \/ spc = "sfo" /\ spc' = "sfoOpen" /\ f = "sfo"
Closing(f) ==
    \/ spc = "dataOpen" /\ spc' = "asset" /\ f \in pieces[number] \cap Names
    \/ spc = "assetOpen" /\ spc' = "sfo" /\ f = "asset" /\ f \in pieces[number]
    \/ spc = "sfoOpen" /\ spc' = "check" /\ f = "sfo"
LEMMA WriteFilesStep ==
  ASSUME StoreInv, Store!WriteFiles
  PROVE  StoreInv'
<1> USE StoreConstants DEF StoreInv
<1>0. /\ spc \in Store!Writing /\ number \in 1..MaxSaves /\ dirs["staging"] \in Contents
      /\ \A f \in Files, v \in 0..MaxSaves : Store!With("staging", f, v) \in Contents
      /\ \A c : dirs' = [dirs EXCEPT !["staging"] = c] =>
           /\ dirs'["staging"] = c /\ dirs'["save"] = dirs["save"] /\ dirs'["backup"] = dirs["backup"]
           /\ c \in Contents => dirs' \in [Store!Dirs -> Contents \cup {Absent}]
  <2>1. spc \in Store!Writing
    BY DEF Store!WriteFiles
  <2>2. number \in 1..MaxSaves
    BY <2>1 DEF StoreTypes, Store!Writing
  <2>3. dirs["staging"] \in Contents
    BY <2>1 DEF StoreTypes, StagingWritten, Writing, Store!Dirs
  <2>4. \A f \in Files, v \in 0..MaxSaves : Store!With("staging", f, v) \in Contents
    BY <2>3, FileWritten DEF Store!With
  <2>5. \A c : dirs' = [dirs EXCEPT !["staging"] = c] =>
           /\ dirs'["staging"] = c /\ dirs'["save"] = dirs["save"] /\ dirs'["backup"] = dirs["backup"]
           /\ c \in Contents => dirs' \in [Store!Dirs -> Contents \cup {Absent}]
    BY DEF StoreTypes, Store!Dirs
  <2> QED
    BY <2>1, <2>2, <2>3, <2>4, <2>5
<1>9. pieces[number] \in Pieces /\ pieces[number] \subseteq Files /\ "sfo" \in pieces[number] /\ "sfo" \in Files
  <2>1. pieces[number] \in Pieces
    BY <1>0 DEF StoreTypes
  <2> QED
    BY <2>1 DEF Pieces, Names, Store!Names, Files, Store!Files
<1>10. /\ \/ \E f \in pieces[number], v \in {0, number} :
               /\ dirs' = [dirs EXCEPT !["staging"] = Store!With("staging", f, v)]
               /\ \/ Opening(f) /\ v = 0 /\ failed' = failed /\ spareFaults' = spareFaults
                  \/ Closing(f) /\ v = number /\ failed' = failed /\ spareFaults' = spareFaults
                  \/ /\ Closing(f) /\ v = 0 /\ failed' = TRUE
                     /\ spareFaults > 0 /\ spareFaults' = spareFaults - 1
          \/ /\ dirs' = dirs /\ failed' = TRUE /\ spareFaults > 0 /\ spareFaults' = spareFaults - 1
             /\ \/ spc = "data" /\ spc' = "asset"
                \/ spc = "asset" /\ spc' = "sfo"
                \/ spc = "sfo" /\ spc' = "check"
          \/ /\ dirs' = dirs /\ spc = "asset" /\ spc' = "sfo" /\ spareFaults' = spareFaults
             /\ failed' = (failed \/ "asset" \in pieces[number])
       /\ existed' = existed /\ reported' = reported /\ number' = number /\ pieces' = pieces
       /\ kept' = kept /\ before' = before /\ stale' = stale /\ unmoved' = unmoved /\ cut' = cut
  BY <1>9 DEF Store!WriteFiles, Store!Opens, Store!Writes, Store!PassOver, Store!SetDir, Store!told, Store!At,
     Store!Goto, Store!Fine, Store!Fault, Store!Half, Opening, Closing, Names
<1>11. failed' \in BOOLEAN /\ (failed' => TRUE) /\ (spc = "asset" /\ spc' = "sfo" /\ ~failed' => "asset" \notin pieces[number])
       /\ (~failed' => ~failed)
  <2>1. failed' = failed \/ failed' = TRUE \/ failed' = (failed \/ "asset" \in pieces[number])
    BY <1>10
  <2>2. failed' \in BOOLEAN /\ (~failed' => ~failed)
    BY <2>1, Zenon DEF StoreTypes
  <2>3. spc = "asset" /\ spc' = "sfo" => failed' = TRUE \/ failed' = (failed \/ "asset" \in pieces[number])
    BY <1>10 DEF Opening, Closing
  <2>4. spc = "asset" /\ spc' = "sfo" /\ ~failed' => "asset" \notin pieces[number]
    BY <2>3, Zenon
  <2> QED
    BY <2>2, <2>4
<1>1. /\ dirs' \in [Store!Dirs -> Contents \cup {Absent}]
      /\ dirs'["save"] = dirs["save"] /\ dirs'["backup"] = dirs["backup"]
      /\ dirs'["staging"] \in Contents
      /\ spc' \in Writing /\ spc' \in {"dataOpen", "assetOpen", "sfoOpen", "asset", "sfo", "check"}
      /\ spareFaults' = spareFaults \/ (spareFaults > 0 /\ spareFaults' = spareFaults - 1)
  <2>1. /\ spc' \in Writing /\ spc' \in {"dataOpen", "assetOpen", "sfoOpen", "asset", "sfo", "check"}
        /\ spareFaults' = spareFaults \/ (spareFaults > 0 /\ spareFaults' = spareFaults - 1)
    BY <1>10 DEF Opening, Closing, Writing, Store!Writing
  <2>2. \/ dirs' = dirs
        \/ \E c \in Contents : dirs' = [dirs EXCEPT !["staging"] = c]
    <3>1. \/ dirs' = dirs
          \/ \E f \in pieces[number], v \in {0, number} :
               dirs' = [dirs EXCEPT !["staging"] = Store!With("staging", f, v)]
      BY <1>10
    <3>2. \A f \in pieces[number], v \in {0, number} : Store!With("staging", f, v) \in Contents
      BY <1>0, <1>9
    <3> QED
      BY <3>1, <3>2
  <2>3. CASE dirs' = dirs
    BY <1>0, <2>1, <2>3 DEF StoreTypes
  <2>4. CASE \E c \in Contents : dirs' = [dirs EXCEPT !["staging"] = c]
    BY <1>0, <2>1, <2>4
  <2> QED
    BY <2>2, <2>3, <2>4
<1>2. StoreTypes'
  <2>1. spc' \in Steps /\ spc' # "idle" /\ number > 0 /\ spareFaults' \in 0..MaxStoreFaults
    BY <1>0, <1>1 DEF StoreTypes, Steps, Writing, Store!Writing
  <2>2. failed' \in BOOLEAN
    BY <1>11
  <2> QED
    BY <1>1, <1>10, <2>1, <2>2 DEF StoreTypes
<1>3. StagingWritten'
  <2>1. CASE dirs' = dirs /\ (failed' = TRUE \/ (spc = "asset" /\ spc' = "sfo"))
    <3>1. DOMAIN dirs'["staging"] = DOMAIN dirs["staging"] /\ \A g : Written(g)' = Written(g)
      BY <1>10, <2>1 DEF Written
    <3>2. number \notin stale => DOMAIN dirs["staging"] \subseteq pieces[number]
      BY <1>0 DEF StagingWritten, Writing
    <3>3. ~failed' => spc = "asset" /\ spc' = "sfo" /\ ~failed /\ "asset" \notin pieces[number]
      BY <1>11, <2>1
    <3>4. ~failed' => \A f \in pieces[number] \cap Names : Written(f)
      BY <3>3 DEF StagingWritten, Writing, Store!Writing
    <3>5. spc' = "check" => failed'
      BY <3>3
    <3> QED
      BY <1>0, <1>1, <1>10, <3>1, <3>2, <3>3, <3>4, <3>5 DEF StagingWritten, Writing, Store!Writing
  <2>2. CASE \E f \in pieces[number], v \in {0, number} :
               /\ dirs' = [dirs EXCEPT !["staging"] = Store!With("staging", f, v)]
               /\ \/ Opening(f)
                  \/ Closing(f) /\ v = number
                  \/ Closing(f) /\ failed' = TRUE
    <3>1. PICK f \in pieces[number], v \in {0, number} :
               /\ dirs' = [dirs EXCEPT !["staging"] = Store!With("staging", f, v)]
               /\ \/ Opening(f)
                  \/ Closing(f) /\ v = number
                  \/ Closing(f) /\ failed' = TRUE
      BY <2>2
    <3>2. dirs'["staging"] = Store!With("staging", f, v)
      BY <1>0, <3>1
    <3>3. /\ DOMAIN dirs'["staging"] = DOMAIN dirs["staging"] \cup {f}
          /\ dirs'["staging"][f] = v
          /\ \A g \in DOMAIN dirs["staging"] : g # f => dirs'["staging"][g] = dirs["staging"][g]
      BY <3>2 DEF Store!With
    <3>4. \A g : g # f /\ Written(g) => Written(g)'
      BY <1>10, <3>3 DEF Written
    <3>5. v = number => Written(f)'
      BY <1>10, <3>3 DEF Written
    <3>6. number \notin stale => DOMAIN dirs'["staging"] \subseteq pieces[number]
      BY <1>0, <3>3 DEF StagingWritten, Writing
    <3>7. f \in Names => pieces[number] \cap Names = {f}
      BY <1>9, <3>1 DEF Pieces, Names, Store!Names
    <3>8. "asset" \notin Names /\ "sfo" \notin Names
      BY DEF Names, Store!Names
    <3>9. ~failed' /\ spc' \in Writing \ {"data", "dataOpen"} => \A g \in pieces[number] \cap Names : Written(g)'
      <4> SUFFICES ASSUME ~failed', spc' \notin {"data", "dataOpen"}, NEW g \in pieces[number] \cap Names PROVE Written(g)'
        OBVIOUS
      <4>1. CASE f \in Names
        BY <1>11, <3>1, <3>5, <3>7, <3>8, <4>1 DEF Opening, Closing
      <4>2. CASE f \notin Names
        <5>1. spc \in Writing \ {"data", "dataOpen"} /\ g # f
          BY <3>1, <4>2 DEF Opening, Closing, Writing, Store!Writing
        <5> QED
          BY <1>11, <3>4, <5>1 DEF StagingWritten
      <4> QED
        BY <4>1, <4>2
    <3>10. ~failed' /\ spc' \in {"sfo", "sfoOpen", "check"} /\ "asset" \in pieces[number] => Written("asset")'
      <4> SUFFICES ASSUME ~failed', spc' \in {"sfo", "sfoOpen", "check"}, "asset" \in pieces[number] PROVE Written("asset")'
        OBVIOUS
      <4>1. CASE f = "asset"
        BY <1>11, <3>1, <3>5, <3>8, <4>1 DEF Opening, Closing
      <4>2. CASE f # "asset"
        <5>1. spc \in {"sfo", "sfoOpen"}
          BY <3>1, <4>2 DEF Opening, Closing
        <5> QED
          BY <1>11, <3>4, <4>2, <5>1 DEF StagingWritten
      <4> QED
        BY <4>1, <4>2
    <3>11. ~failed' /\ spc' = "check" => Written("sfo")'
      BY <1>11, <3>1, <3>5 DEF Opening, Closing
    <3> QED
      BY <1>1, <1>10, <3>6, <3>9, <3>10, <3>11 DEF StagingWritten, Writing, Store!Writing
  <2>3. \/ dirs' = dirs /\ (failed' = TRUE \/ (spc = "asset" /\ spc' = "sfo"))
        \/ \E f \in pieces[number], v \in {0, number} :
               /\ dirs' = [dirs EXCEPT !["staging"] = Store!With("staging", f, v)]
               /\ \/ Opening(f)
                  \/ Closing(f) /\ v = number
                  \/ Closing(f) /\ failed' = TRUE
    BY <1>10
  <2> QED
    BY <2>1, <2>2, <2>3
<1>4. SaveWhole'
  BY <1>0, <1>1, <1>10 DEF SaveWhole, HoldsWhole, Is, Writing, Store!Writing
<1>5. MovedIn'
  BY <1>1, <1>10 DEF MovedIn, Is, Writing, Store!Writing
<1>6. NoFaultYet'
  BY <1>0, <1>1, <1>10 DEF NoFaultYet, Used, Is, StoreTypes, Writing, Store!Writing
<1>7. AfterOneFault'
  BY <1>0, <1>1, <1>10 DEF AfterOneFault, Writing, Store!Writing, Used, StoreTypes
<1>8. Survives'
  BY <1>0, <1>1, <1>10 DEF Survives, Survivor, Used, Is, StoreTypes, Writing, Store!Writing
<1> QED
  BY <1>2, <1>3, <1>4, <1>5, <1>6, <1>7, <1>8

\* All is there, or something is missing.
LEMMA CheckStep ==
  ASSUME StoreInv, Store!Check
  PROVE  StoreInv'
<1> USE StoreConstants DEF StoreInv
<1>1. /\ dirs' = dirs /\ spc = "check" /\ spareFaults' = spareFaults
      /\ \/ spc' = "abandon"
         \/ spc' = "clearBackup" /\ ~failed
      /\ existed' = existed /\ reported' = reported /\ number' = number /\ kept' = kept
      /\ pieces' = pieces /\ failed' = failed /\ before' = before /\ stale' = stale
      /\ unmoved' = unmoved /\ cut' = cut
  BY DEF Store!Check, Store!At, Store!Goto, Store!Fine, Store!sides, Store!told
<1>2. StoreTypes'
  BY <1>1 DEF StoreTypes, Steps
<1>3. StagingWritten'
  <2>1. CASE spc' = "abandon"
    BY <1>1, <2>1 DEF StagingWritten, Writing, Store!Writing
  <2>2. CASE spc' = "clearBackup"
    <3>1. number \in 1..MaxSaves /\ pieces[number] \in Pieces
      BY <1>1 DEF StoreTypes
    <3>2. \A f \in pieces[number] : f \in Names \/ f = "asset" \/ f = "sfo"
      BY <3>1 DEF Pieces
    <3>3. \A f \in pieces[number] : Written(f)
      BY <1>1, <2>2, <3>2 DEF StagingWritten, Writing, Store!Writing
    <3>4. dirs["staging"] # Absent /\ (number \notin stale => DOMAIN dirs["staging"] \subseteq pieces[number])
      BY <1>1 DEF StagingWritten, Writing
    <3>5. Is("staging", number)
      BY <3>3, <3>4 DEF Is, IsSave, Written
    <3> QED
      BY <1>1, <2>2, <3>5 DEF StagingWritten, Writing, Store!Writing, Is
  <2> QED
    BY <1>1, <2>1, <2>2
<1>4. SaveWhole'
  BY <1>1 DEF SaveWhole, HoldsWhole, Is, StoreTypes
<1>5. MovedIn'
  BY <1>1 DEF MovedIn, Is, StoreTypes
<1>6. NoFaultYet'
  BY <1>1 DEF NoFaultYet, Used, Is, StoreTypes
<1>7. AfterOneFault'
  BY <1>1 DEF AfterOneFault, Writing, Store!Writing, Used, Is, StoreTypes
<1>8. Survives'
  BY <1>1, <1>3 DEF Survives, Survivor, Used, Is, StagingWritten, StoreTypes
<1> QED
  BY <1>2, <1>3, <1>4, <1>5, <1>6, <1>7, <1>8

\* Something was not written: the staging directory goes.
LEMMA GiveUpStep ==
  ASSUME StoreInv, Store!GiveUp
  PROVE  StoreInv'
<1> USE StoreConstants DEF StoreInv
<1>1. /\ dirs' \in [Store!Dirs -> Contents \cup {Absent}]
      /\ dirs'["save"] = dirs["save"] /\ dirs'["backup"] = dirs["backup"]
      /\ spc = "abandon"
      /\ \/ spc' = "abandon" /\ spareFaults' = spareFaults /\ dirs["staging"] # Absent
         \/ /\ spc' = "idle" /\ dirs' = dirs
            /\ \/ spareFaults' = spareFaults /\ dirs["staging"] = Absent
               \/ spareFaults > 0 /\ spareFaults' = spareFaults - 1 /\ dirs["staging"] # Absent
      /\ pieces' = pieces /\ failed' = failed /\ before' = before /\ stale' = stale
      /\ existed' = existed /\ reported' \in {reported, "error"} /\ number' = number
      /\ kept' = kept /\ unmoved' = unmoved /\ cut' = cut
  <2>1. Store!Removing("staging", "abandon", "idle")
    BY DEF Store!GiveUp
  <2> QED
    BY <2>1, RemovingStep DEF Store!GiveUp, Store!Dirs
<1>2. StoreTypes'
  BY <1>1 DEF StoreTypes, Steps
<1>3. StagingWritten'
  BY <1>1 DEF StagingWritten, Written, Writing, Store!Writing, Is, StoreTypes
<1>4. SaveWhole'
  BY <1>1 DEF SaveWhole, HoldsWhole, Is, StoreTypes
<1>5. MovedIn'
  BY <1>1 DEF MovedIn, Is, StoreTypes
<1>6. NoFaultYet'
  BY <1>1 DEF NoFaultYet, Used, Is, StoreTypes
<1>7. AfterOneFault'
  BY <1>1 DEF AfterOneFault, Writing, Store!Writing, NoFaultYet, Used, Is, StoreTypes
<1>8. Survives'
  BY <1>1 DEF Survives, Survivor, NoFaultYet, Used, Is, StoreTypes
<1> QED
  BY <1>2, <1>3, <1>4, <1>5, <1>6, <1>7, <1>8

\* What is left of an older save goes.
LEMMA ClearBackupStep ==
  ASSUME StoreInv, Store!ClearBackup
  PROVE  StoreInv'
<1> USE StoreConstants DEF StoreInv
<1>1. /\ dirs' \in [Store!Dirs -> Contents \cup {Absent}]
      /\ dirs'["save"] = dirs["save"] /\ dirs'["staging"] = dirs["staging"]
      /\ spc = "clearBackup"
      /\ \/ spc' = "clearBackup" /\ spareFaults' = spareFaults /\ dirs["backup"] # Absent
         \/ /\ spc' = "moveAway" /\ dirs' = dirs
            /\ \/ spareFaults' = spareFaults /\ dirs["backup"] = Absent
               \/ spareFaults > 0 /\ spareFaults' = spareFaults - 1 /\ dirs["backup"] # Absent
      /\ pieces' = pieces /\ failed' = failed /\ before' = before /\ stale' = stale
      /\ existed' = existed /\ reported' = reported /\ number' = number
      /\ kept' = kept /\ unmoved' = unmoved /\ cut' = cut
  <2>1. Store!Removing("backup", "clearBackup", "moveAway")
    BY DEF Store!ClearBackup
  <2> QED
    BY <2>1, RemovingStep DEF Store!ClearBackup, Store!Dirs, Store!sides, Store!told
<1>2. StoreTypes'
  BY <1>1 DEF StoreTypes, Steps
<1>3. StagingWritten'
  BY <1>1 DEF StagingWritten, Written, Writing, Store!Writing, Is, StoreTypes
<1>4. SaveWhole'
  BY <1>1 DEF SaveWhole, HoldsWhole, Is, StoreTypes
<1>5. MovedIn'
  BY <1>1 DEF MovedIn, Is, StoreTypes
<1>6. NoFaultYet'
  BY <1>1 DEF NoFaultYet, Used, Is, StoreTypes
<1>7. AfterOneFault'
  BY <1>1 DEF AfterOneFault, Writing, Store!Writing, NoFaultYet, Used, Is, StoreTypes
<1>8. Survives'
  BY <1>1 DEF Survives, Survivor, NoFaultYet, Used, Is, StoreTypes
<1> QED
  BY <1>2, <1>3, <1>4, <1>5, <1>6, <1>7, <1>8

\* The old save is moved away, if there is one and it can be.
LEMMA MoveAwayStep ==
  ASSUME StoreInv, Store!MoveAway
  PROVE  StoreInv'
<1> USE StoreConstants DEF StoreInv
<1>1. /\ dirs' \in [Store!Dirs -> Contents \cup {Absent}] /\ dirs'["staging"] = dirs["staging"]
      /\ pieces' = pieces /\ failed' = failed /\ before' = before /\ stale' = stale
      /\ spc = "moveAway" /\ existed' \in BOOLEAN
      /\ unmoved' \in BOOLEAN /\ (unmoved' \/ (existed' <=> dirs["save"] # Absent))
      /\ \/ /\ dirs' = dirs /\ dirs["save"] = Absent /\ spc' = "moveIn"
            /\ spareFaults' = spareFaults /\ unmoved' = unmoved
         \/ /\ dirs["save"] # Absent /\ dirs'["save"] = Absent /\ dirs'["backup"] = dirs["save"]
            /\ spc' = "moveIn" /\ spareFaults' = spareFaults /\ unmoved' = unmoved
         \/ /\ dirs' = dirs /\ unmoved' /\ spc' = "undo"
            /\ \/ spareFaults' = spareFaults /\ dirs["save"] # Absent /\ dirs["backup"] # Absent
               \/ spareFaults > 0 /\ spareFaults' = spareFaults - 1
      /\ reported' = reported /\ number' = number /\ kept' = kept /\ cut' = cut
  <2>1. \/ existed' = TRUE /\ dirs["save"] # Absent
        \/ existed' = FALSE /\ dirs["save"] = Absent
        \/ existed' = FALSE /\ unmoved' = TRUE
    BY DEF Store!MoveAway
  <2>2. existed' \in BOOLEAN /\ (unmoved' \/ (existed' <=> dirs["save"] # Absent))
    BY <2>1, Zenon
  <2>3. unmoved' = TRUE => unmoved'
    OBVIOUS
  <2>4. unmoved' \in BOOLEAN
    <3>1. unmoved' = TRUE => unmoved' \in BOOLEAN
      BY Zenon
    <3>2. unmoved' = unmoved => unmoved' \in BOOLEAN
      BY Zenon DEF StoreTypes
    <3> QED
      BY <3>1, <3>2 DEF Store!MoveAway
  <2> QED
    BY <2>2, <2>3, <2>4 DEF Store!MoveAway, Store!Renamed, StoreTypes, Store!Dirs, Store!At, Store!Goto, Store!Fine, Store!Fault
<1>2. StoreTypes'
  BY <1>1 DEF StoreTypes, Steps
<1>3. StagingWritten'
  BY <1>1 DEF StagingWritten, Written, Writing, Store!Writing, Is, StoreTypes
<1>4. SaveWhole'
  BY <1>1 DEF SaveWhole, HoldsWhole, Is, StoreTypes
<1>5. MovedIn'
  BY <1>1 DEF MovedIn, Is, StoreTypes
<1>6. NoFaultYet'
  BY <1>1, AbsentIsNoSave DEF NoFaultYet, Used, Is, StoreTypes
<1>7. AfterOneFault'
  BY <1>1 DEF AfterOneFault, Writing, Store!Writing, NoFaultYet, Used, Is, StoreTypes
<1>8. Survives'
  BY <1>1 DEF Survives, Survivor, NoFaultYet, Used, Is, StoreTypes
<1> QED
  BY <1>2, <1>3, <1>4, <1>5, <1>6, <1>7, <1>8

\* The new save takes its place.
LEMMA MoveInStep ==
  ASSUME StoreInv, Store!MoveIn
  PROVE  StoreInv'
<1> USE StoreConstants DEF StoreInv
<1>1. /\ dirs' \in [Store!Dirs -> Contents \cup {Absent}] /\ dirs'["backup"] = dirs["backup"]
      /\ spc = "moveIn"
      /\ \/ /\ dirs'["save"] = dirs["staging"] /\ dirs'["staging"] = Absent
            /\ spc' = "cleanUp" /\ spareFaults' = spareFaults
         \/ dirs' = dirs /\ spc' = "undo" /\ spareFaults > 0 /\ spareFaults' = spareFaults - 1
      /\ pieces' = pieces /\ failed' = failed /\ before' = before /\ stale' = stale
      /\ existed' = existed /\ reported' = reported /\ number' = number
      /\ kept' = kept /\ unmoved' = unmoved /\ cut' = cut
  BY DEF Store!MoveIn, Store!Renamed, StoreTypes, Store!Dirs, Store!sides, Store!told, Store!At, Store!Goto, Store!Fine, Store!Fault
<1>2. StoreTypes'
  BY <1>1 DEF StoreTypes, Steps
<1>3. StagingWritten'
  BY <1>1 DEF StagingWritten, Written, Writing, Store!Writing, Is, StoreTypes
<1>4. SaveWhole'
  <2>1. number \in 1..MaxSaves
    BY <1>1 DEF StoreTypes
  <2>2. spc' = "cleanUp" => HoldsWhole("save")'
    BY <1>1, <2>1 DEF HoldsWhole, Is, StagingWritten
  <2> QED
    BY <1>1, <2>2 DEF SaveWhole, MovedIn, HoldsWhole, Is
<1>5. MovedIn'
  BY <1>1 DEF MovedIn, Is, StagingWritten, StoreTypes
<1>6. NoFaultYet'
  BY <1>1 DEF NoFaultYet, Used, Is, StoreTypes
<1>7. AfterOneFault'
  BY <1>1 DEF AfterOneFault, Writing, Store!Writing, NoFaultYet, Used, Is, StoreTypes
<1>8. Survives'
  BY <1>1 DEF Survives, Survivor, NoFaultYet, Used, Is, StoreTypes
<1> QED
  BY <1>2, <1>3, <1>4, <1>5, <1>6, <1>7, <1>8

\* What is in the place of the save goes.
LEMMA RollBackStep ==
  ASSUME StoreInv, Store!RollBack
  PROVE  StoreInv'
<1> USE StoreConstants DEF StoreInv
<1>1. /\ dirs' \in [Store!Dirs -> Contents \cup {Absent}]
      /\ dirs'["staging"] = dirs["staging"] /\ dirs'["backup"] = dirs["backup"]
      /\ spc = "undo"
      /\ \/ spc' = "undo" /\ spareFaults' = spareFaults /\ dirs["save"] # Absent
         \/ /\ spc' = "restore" /\ dirs' = dirs
            /\ \/ spareFaults' = spareFaults /\ dirs["save"] = Absent
               \/ spareFaults > 0 /\ spareFaults' = spareFaults - 1 /\ dirs["save"] # Absent
      /\ pieces' = pieces /\ failed' = failed /\ before' = before /\ stale' = stale
      /\ existed' = existed /\ reported' = reported /\ number' = number
      /\ kept' = kept /\ unmoved' = unmoved /\ cut' = cut
  <2>1. Store!Removing("save", "undo", "restore")
    BY DEF Store!RollBack, Store!Undo
  <2> QED
    BY <2>1, RemovingStep DEF Store!RollBack, Store!Undo, Store!Dirs, Store!sides, Store!told
<1>2. StoreTypes'
  BY <1>1 DEF StoreTypes, Steps
<1>3. StagingWritten'
  BY <1>1 DEF StagingWritten, Written, Writing, Store!Writing, Is, StoreTypes
<1>4. SaveWhole'
  BY <1>1 DEF SaveWhole, HoldsWhole, Is, StoreTypes
<1>5. MovedIn'
  BY <1>1 DEF MovedIn, Is, StoreTypes
<1>6. NoFaultYet'
  BY <1>1 DEF NoFaultYet, Used, Is, StoreTypes
<1>7. AfterOneFault'
  BY <1>1 DEF AfterOneFault, Writing, Store!Writing, NoFaultYet, Used, Is, StoreTypes
<1>8. Survives'
  BY <1>1 DEF Survives, Survivor, NoFaultYet, Used, Is, StoreTypes
<1> QED
  BY <1>2, <1>3, <1>4, <1>5, <1>6, <1>7, <1>8

\* The old save comes back.
LEMMA RestoreStep ==
  ASSUME StoreInv, Store!Restore
  PROVE  StoreInv'
<1> USE StoreConstants DEF StoreInv
<1>1. /\ dirs' \in [Store!Dirs -> Contents \cup {Absent}] /\ dirs'["staging"] = dirs["staging"]
      /\ spc = "restore" /\ spc' = "restored"
      /\ \/ /\ existed /\ dirs'["save"] = dirs["backup"] /\ dirs'["backup"] = Absent
            /\ spareFaults' = spareFaults
         \/ /\ dirs' = dirs /\ spareFaults' = spareFaults
            /\ ~existed \/ dirs["backup"] = Absent \/ dirs["save"] # Absent
         \/ dirs' = dirs /\ spareFaults > 0 /\ spareFaults' = spareFaults - 1
      /\ pieces' = pieces /\ failed' = failed /\ before' = before /\ stale' = stale
      /\ existed' = existed /\ reported' = reported /\ number' = number
      /\ kept' = kept /\ unmoved' = unmoved /\ cut' = cut
  BY DEF Store!Restore, Store!Renamed, StoreTypes, Store!Dirs, Store!sides, Store!told, Store!At, Store!Goto, Store!Fine, Store!Fault
<1>2. StoreTypes'
  BY <1>1 DEF StoreTypes, Steps
<1>3. StagingWritten'
  BY <1>1 DEF StagingWritten, Written, Writing, Store!Writing, Is, StoreTypes
<1>4. SaveWhole'
  BY <1>1 DEF SaveWhole, HoldsWhole, Is, StoreTypes
<1>5. MovedIn'
  BY <1>1 DEF MovedIn, Is, StoreTypes
<1>6. NoFaultYet'
  BY <1>1 DEF NoFaultYet, Used, Is, StoreTypes
<1>7. AfterOneFault'
  BY <1>1, AbsentIsNoSave DEF AfterOneFault, Writing, Store!Writing, MovedIn, NoFaultYet, Used, Is, StoreTypes
<1>8. Survives'
  BY <1>1 DEF Survives, Survivor, NoFaultYet, Used, Is, StoreTypes
<1> QED
  BY <1>2, <1>3, <1>4, <1>5, <1>6, <1>7, <1>8

\* The guest is told.
LEMMA FailedStep ==
  ASSUME StoreInv, Store!Failed
  PROVE  StoreInv'
<1> USE StoreConstants DEF StoreInv
<1>1. /\ dirs' = dirs /\ spc = "restored" /\ spc' = "idle" /\ spareFaults' = spareFaults
      /\ pieces' = pieces /\ failed' = failed /\ before' = before /\ stale' = stale
      /\ existed' = existed /\ reported' = "error" /\ number' = number
      /\ kept' = kept /\ unmoved' = unmoved /\ cut' = cut
  BY DEF Store!Failed, Store!At, Store!Goto, Store!Fine, Store!Fault
<1>2. StoreTypes'
  BY <1>1 DEF StoreTypes, Steps
<1>3. StagingWritten'
  BY <1>1 DEF StagingWritten, Written, Writing, Store!Writing, Is, StoreTypes
<1>4. SaveWhole'
  BY <1>1 DEF SaveWhole, HoldsWhole, Is, StoreTypes
<1>5. MovedIn'
  BY <1>1 DEF MovedIn, Is, StoreTypes
<1>6. NoFaultYet'
  BY <1>1 DEF NoFaultYet, Used, Is, StoreTypes
<1>7. AfterOneFault'
  BY <1>1 DEF AfterOneFault, Writing, Store!Writing, NoFaultYet, Used, Is, StoreTypes
<1>8. Survives'
  BY <1>1 DEF Survives, Survivor, NoFaultYet, Used, Is, StoreTypes
<1> QED
  BY <1>2, <1>3, <1>4, <1>5, <1>6, <1>7, <1>8

\* The old save goes; the guest is told that the new one is made.
LEMMA CleanUpStep ==
  ASSUME StoreInv, Store!CleanUp
  PROVE  StoreInv'
<1> USE StoreConstants DEF StoreInv
<1>1. /\ dirs' \in [Store!Dirs -> Contents \cup {Absent}]
      /\ dirs'["save"] = dirs["save"] /\ dirs'["staging"] = dirs["staging"]
      /\ spc = "cleanUp"
      /\ \/ spc' = "cleanUp" /\ spareFaults' = spareFaults /\ dirs["backup"] # Absent
         \/ /\ spc' = "idle" /\ dirs' = dirs
            /\ \/ spareFaults' = spareFaults /\ dirs["backup"] = Absent
               \/ spareFaults > 0 /\ spareFaults' = spareFaults - 1 /\ dirs["backup"] # Absent
      /\ \/ spc' = "idle" /\ reported' = "saved" /\ kept' = number /\ before' = Absent
         \/ spc' # "idle" /\ reported' = reported /\ kept' = kept /\ before' = before
      /\ pieces' = pieces /\ failed' = failed /\ stale' = stale
      /\ existed' = existed /\ number' = number /\ unmoved' = unmoved /\ cut' = cut
  <2>1. Store!Removing("backup", "cleanUp", "idle")
    BY DEF Store!CleanUp
  <2> QED
    BY <2>1, RemovingStep DEF Store!CleanUp, Store!Dirs
<1>2. StoreTypes'
  BY <1>1 DEF StoreTypes, Steps
<1>3. StagingWritten'
  BY <1>1 DEF StagingWritten, Written, Writing, Store!Writing, Is, StoreTypes
<1>4. SaveWhole'
  BY <1>1 DEF SaveWhole, HoldsWhole, Is, StoreTypes
<1>5. MovedIn'
  BY <1>1 DEF MovedIn, Is, StoreTypes
<1>6. NoFaultYet'
  BY <1>1 DEF NoFaultYet, MovedIn, Used, Is, StoreTypes
<1>7. AfterOneFault'
  BY <1>1 DEF AfterOneFault, Writing, Store!Writing, NoFaultYet, Used, Is, StoreTypes
<1>8. Survives'
  BY <1>1 DEF Survives, Survivor, MovedIn, NoFaultYet, Used, Is, StoreTypes
<1> QED
  BY <1>2, <1>3, <1>4, <1>5, <1>6, <1>7, <1>8

\* The save goes.
LEMMA DeletingStep ==
  ASSUME StoreInv, Store!Deleting
  PROVE  StoreInv'
<1> USE StoreConstants DEF StoreInv
<1>1. /\ dirs' \in [Store!Dirs -> Contents \cup {Absent}]
      /\ dirs'["staging"] = dirs["staging"] /\ dirs'["backup"] = dirs["backup"]
      /\ spc = "delete"
      /\ \/ spc' = "delete" /\ spareFaults' = spareFaults /\ dirs["save"] # Absent
         \/ /\ spc' = "idle" /\ dirs' = dirs
            /\ \/ spareFaults' = spareFaults /\ dirs["save"] = Absent
               \/ spareFaults > 0 /\ spareFaults' = spareFaults - 1 /\ dirs["save"] # Absent
      /\ spc' = "idle" /\ dirs["save"] # Absent => cut'
      /\ cut => cut'
      /\ cut' => cut \/ (spc' = "idle" /\ dirs["save"] # Absent)
      /\ cut' \in BOOLEAN
      /\ reported' \in {reported, "none", "error"} /\ (reported' = "error" /\ spc' = "idle" => dirs["save"] # Absent)
      /\ pieces' = pieces /\ failed' = failed /\ before' = before /\ stale' = stale
      /\ existed' = existed /\ number' = number /\ kept' = kept /\ unmoved' = unmoved
  <2>1. Store!Removing("save", "delete", "idle")
    BY DEF Store!Deleting
  <2>2. cut' = (cut \/ (spc' = "idle" /\ dirs["save"] # Absent))
    BY DEF Store!Deleting
  <2>3. /\ reported' \in {reported, "none", "error"}
        /\ reported' = "error" /\ spc' = "idle" => dirs["save"] # Absent
        /\ pieces' = pieces /\ failed' = failed /\ before' = before /\ stale' = stale
        /\ existed' = existed /\ number' = number /\ kept' = kept /\ unmoved' = unmoved
    BY DEF Store!Deleting
  <2>4. cut' \in BOOLEAN /\ (spc' = "idle" /\ dirs["save"] # Absent => cut') /\ (cut => cut')
        /\ (cut' => cut \/ (spc' = "idle" /\ dirs["save"] # Absent))
    BY <2>2, Zenon DEF StoreTypes
  <2> QED
    BY <2>1, <2>3, <2>4, RemovingStep DEF Store!Dirs
<1>2. StoreTypes'
  BY <1>1 DEF StoreTypes, Steps
<1>3. StagingWritten'
  BY <1>1 DEF StagingWritten, Written, Writing, Store!Writing, Is, StoreTypes
<1>4. SaveWhole'
  BY <1>1 DEF SaveWhole, HoldsWhole, Is, StoreTypes
<1>5. MovedIn'
  BY <1>1 DEF MovedIn, Is, StoreTypes
<1>6. NoFaultYet'
  BY <1>1 DEF NoFaultYet, Used, Is, MovedIn, StoreTypes
<1>7. AfterOneFault'
  BY <1>1 DEF AfterOneFault, Writing, Store!Writing, NoFaultYet, Used, Is, MovedIn, StoreTypes
<1>8. Survives'
  BY <1>1 DEF Survives, Survivor, NoFaultYet, Used, Is, MovedIn, StoreTypes
<1> QED
  BY <1>2, <1>3, <1>4, <1>5, <1>6, <1>7, <1>8

\* The program is killed.
LEMMA KillStep ==
  ASSUME StoreInv, Store!Kill
  PROVE  StoreInv'
<1> USE StoreConstants DEF StoreInv
<1>1. /\ dirs' = dirs /\ spc # "idle" /\ spc' = "idle" /\ existed' \in BOOLEAN /\ reported' = "none"
      /\ pieces' = pieces /\ failed' \in BOOLEAN /\ before' = Absent /\ stale' = stale
      /\ spareFaults > 0 /\ spareFaults' = spareFaults - 1
      /\ cut' \in BOOLEAN /\ (cut => cut') /\ (spc \in {"delete", "undo"} => cut')
      /\ number' = number /\ kept' = kept /\ unmoved' = unmoved
  <2>1. cut' = (cut \/ spc \in {"delete", "undo"})
    BY DEF Store!Kill
  <2>2. cut' \in BOOLEAN /\ (cut => cut') /\ (spc \in {"delete", "undo"} => cut')
    BY <2>1, Zenon DEF StoreTypes
  <2>3. existed' \in BOOLEAN /\ failed' \in BOOLEAN
    BY Zenon DEF Store!Kill
  <2> QED
    BY <2>2, <2>3 DEF Store!Kill, Store!At, Store!Goto, Store!Fine, Store!Fault
<1>2. StoreTypes'
  BY <1>1 DEF StoreTypes, Steps
<1>3. StagingWritten'
  BY <1>1 DEF StagingWritten, Written, Writing, Store!Writing, Is, StoreTypes
<1>4. SaveWhole'
  BY <1>1 DEF SaveWhole, HoldsWhole, Is, StoreTypes
<1>5. MovedIn'
  BY <1>1 DEF MovedIn, Is, StoreTypes
<1>6. NoFaultYet'
  BY <1>1 DEF NoFaultYet, Used, Is, StoreTypes
<1>7. AfterOneFault'
  BY <1>1 DEF AfterOneFault, Writing, Store!Writing, NoFaultYet, Used, Is, StoreTypes
<1>8. Survives'
  BY <1>1 DEF Survives, Survivor, NoFaultYet, Used, Is, StoreTypes
<1> QED
  BY <1>2, <1>3, <1>4, <1>5, <1>6, <1>7, <1>8

LEMMA StoreStep ==
  ASSUME StoreInv, Store!StoreCalls \/ Store!StoreSteps
  PROVE  StoreInv'
  BY SaveStep, LoadStep, DeleteStep, ClearStagingStep, CreateStep, WriteFilesStep, GiveUpStep,
     ClearBackupStep, MoveAwayStep, MoveInStep, RollBackStep, RestoreStep, FailedStep, CleanUpStep,
     DeletingStep, KillStep, CheckStep
  DEF Store!StoreCalls, Store!StoreSteps

LEMMA StoreStutter ==
  ASSUME StoreInv, UNCHANGED saves
  PROVE  StoreInv'
  BY DEF StoreInv, saves, StoreTypes, StagingWritten, Written, SaveWhole, HoldsWhole, MovedIn, NoFaultYet,
         AfterOneFault, Survives, Survivor, Used, Is

LEMMA StoreInitially ==
  ASSUME Store!StoreInit
  PROVE  StoreInv
<1> USE StoreConstants DEF Store!StoreInit
<1>1. existed \in BOOLEAN /\ unmoved \in BOOLEAN /\ cut \in BOOLEAN /\ failed \in BOOLEAN /\ ~unmoved /\ ~cut
  BY Zenon
<1>2. StoreTypes
  BY <1>1 DEF StoreTypes, Steps
<1>3. \A d \in Store!Dirs : dirs[d] = Absent
  OBVIOUS
<1>4. StagingWritten /\ MovedIn /\ NoFaultYet /\ Survives
  BY <1>1, <1>3 DEF StagingWritten, Writing, Store!Writing, MovedIn, NoFaultYet, Survives, Used, Store!Dirs
<1>5. SaveWhole /\ AfterOneFault
  BY <1>1, <1>3 DEF SaveWhole, AfterOneFault, Writing, Store!Writing, Used, Store!Dirs
<1> QED
  BY <1>2, <1>4, <1>5 DEF StoreInv

-----------------------------------------------------------------------------
(* The theorem *)

LEMMA InvariantSuffices ==
  ASSUME StoreInv
  PROVE  Store!StoreTypeOK /\ Store!StoreSound
<1> USE StoreConstants DEF StoreInv
<1>1. Store!StoreTypeOK
  BY DEF StoreTypes, Store!StoreTypeOK, Files
<1>0. \A d, n : Is(d, n) => Store!Holds(d, n)
  BY DEF Is, IsSave, Store!Holds
<1>2. Store!LoadsWhole
  BY <1>0 DEF SaveWhole, HoldsWhole, Store!LoadsWhole, Store!Whole
<1>3. Store!SaveSurvives
  <2> SUFFICES ASSUME kept > 0, ~unmoved, Used <= 1
               PROVE  \E d \in Store!Dirs, n \in kept..number : Store!Holds(d, n)
    BY DEF Store!SaveSurvives, Used
  <2>1. \E d \in Store!Dirs : Survivor(d)
    BY DEF Survives, Store!Dirs
  <2> QED
    BY <1>0, <2>1 DEF Survivor
<1>4. Store!ErrorChangesNothing
  BY DEF Store!ErrorChangesNothing, AfterOneFault, Used
<1>5. Store!NothingLeftOver
  BY DEF NoFaultYet, AfterOneFault, Used, StoreTypes, Store!NothingLeftOver, Store!Listed, Store!Dirs
<1> QED
  BY <1>1, <1>2, <1>3, <1>4, <1>5 DEF Store!StoreSound

THEOREM StoreInvariant == Spec => [](part = "saves" => StoreInv)
<1>1. Init => (part = "saves" => StoreInv)
  BY StoreInitially DEF Init
<1>2. (part = "saves" => StoreInv) /\ [Next]_vars => (part = "saves" => StoreInv)'
  <2> SUFFICES ASSUME part = "saves" => StoreInv, [Next]_vars PROVE (part = "saves" => StoreInv)'
    OBVIOUS
  <2>1. part' = part /\ (part = "saves" => Store!StoreCalls \/ Store!StoreSteps \/ UNCHANGED saves)
    BY DEF Next, Dialogs, vars
  <2> QED
    BY <2>1, StoreStep, StoreStutter
<1> QED
  BY <1>1, <1>2, PTL DEF Spec

\* The saves of sceUtilitySavedataUpdate, for any number of them, with or without
\* artwork and under either name, of calls that fail and of kills: a load finds
\* all of one save and no file of another, the last save survives a single
\* failure or kill until a later one is complete, an error leaves what there was,
\* and nothing is left beside it when nothing failed; with the exceptions
\* SaveStore names: an old save that cannot be moved away, a removal that is cut
\* short, and what a staging directory held that could not be cleared.
THEOREM SavesSurvive == Spec => []StoreSound
<1>1. (part = "saves" => StoreInv) => StoreSound
  BY InvariantSuffices DEF StoreSound
<1> QED
  BY <1>1, StoreInvariant, PTL

-----------------------------------------------------------------------------
(* Keys and sticks: what never changes.  A stick goes from Low to High. *)

Low == Control!AxisMin
High == 32767

LEMMA LowIs == Low = 0 - 32768
  BY DEF Low, Control!AxisMin

LEMMA ControlConstants ==
  /\ Keys \subseteq Control!Buttons \cup Control!Directions /\ Cycles \subseteq Nat /\ Modes \subseteq Nat
  /\ Thresholds \subseteq Int /\ PadStates \subseteq SUBSET Control!Buttons
  /\ MaxKeyEvents \in Nat /\ MaxSamples \in Nat
  BY DesktopAssumption DEF DesktopAssumption, Control!ControlsAssumption

LEMMA Between ==
  ASSUME NEW a \in Int, NEW b \in Int, NEW v \in a..b
  PROVE  v \in Int /\ a <= v /\ v <= b
  OBVIOUS

LEMMA AxesWithin ==
  ASSUME NEW v \in Axes
  PROVE  v \in Int /\ 0 - 32768 <= v /\ v <= 32767
<1>1. Axes \subseteq Low..High
  BY DesktopAssumption DEF DesktopAssumption, Control!ControlsAssumption, Low, High
<1>2. Low \in Int /\ High \in Int
  BY LowIs DEF High
<1>3. v \in Int /\ Low <= v /\ v <= High
  <2> HIDE DEF Low, High
  <2> QED
    BY <1>1, <1>2, Between, Zenon
<1> QED
  BY <1>3, LowIs DEF High

\* The scale of a stick is monotonic and stays within a byte.
LEMMA ScaleIsByte ==
  ASSUME NEW v \in Int, 0 - 32768 <= v, v <= 32767
  PROVE  Control!Scaled(v, 32768) \in 0..255
  BY DEF Control!Scaled
LEMMA ScaleAbove ==
  ASSUME NEW v \in Int, 7850 <= v, v <= 32767
  PROVE  Control!Scaled(v, 32767) \in 128..255
  BY DEF Control!Scaled
LEMMA ScaleBelow ==
  ASSUME NEW v \in Int, 0 - 32768 <= v, v <= 0 - 7850
  PROVE  Control!Scaled(v, 32768) \in 0..128
  BY DEF Control!Scaled
LEMMA ScaleKeepsOrder ==
  ASSUME NEW v \in Int, NEW w \in Int, v <= w
  PROVE  /\ Control!Scaled(v, 32768) <= Control!Scaled(w, 32768)
         /\ Control!Scaled(v, 32767) <= Control!Scaled(w, 32767)
  BY DEF Control!Scaled

\* The three branches of windows_axis_to_byte.
LEMMA DeadZone ==
  ASSUME NEW v \in Int
  PROVE  /\ 0 - 7849 <= v /\ v <= 7849 => Control!windows_axis_to_byte(v, 7849) = 128
         /\ v < 0 - 7849 => Control!windows_axis_to_byte(v, 7849) = Control!Scaled(v, 32768)
         /\ v > 7849 => Control!windows_axis_to_byte(v, 7849) = Control!Scaled(v, 32767)
  BY DEF Control!windows_axis_to_byte, Control!Centre

LEMMA WindowsSide ==
  ASSUME NEW v \in Int, 0 - 32768 <= v, v <= 32767
  PROVE  /\ v <= 7849 => Control!windows_axis_to_byte(v, 7849) \in 0..128
         /\ v >= 0 - 7849 => Control!windows_axis_to_byte(v, 7849) \in 128..255
<1>1. CASE v < 0 - 7849
  BY <1>1, DeadZone, ScaleBelow
<1>2. CASE 0 - 7849 <= v /\ v <= 7849
  BY <1>2, DeadZone
<1>3. CASE v > 7849
  BY <1>3, DeadZone, ScaleAbove
<1> QED
  BY <1>1, <1>2, <1>3

LEMMA SticksAreBytes == Control!StickBytes \subseteq 0..255
<1>1. ASSUME NEW v \in Axes
      PROVE  Control!windows_axis_to_byte(v, 7849) \in 0..255 /\ Control!macos_axis_to_byte(v) \in 0..255
  <2>1. v \in Int /\ 0 - 32768 <= v /\ v <= 32767
    BY AxesWithin
  <2>2. Control!macos_axis_to_byte(v) \in 0..255
    BY <2>1, ScaleIsByte DEF Control!macos_axis_to_byte
  <2>3. Control!windows_axis_to_byte(v, 7849) \in 0..128 \/ Control!windows_axis_to_byte(v, 7849) \in 128..255
    BY <2>1, WindowsSide
  <2> QED
    BY <2>2, <2>3
<1> QED
  BY <1>1 DEF Control!StickBytes

LEMMA SticksNeverTurnBack ==
  ASSUME NEW v \in Axes, NEW w \in Axes, v <= w
  PROVE  /\ Control!windows_axis_to_byte(v, 7849) <= Control!windows_axis_to_byte(w, 7849)
         /\ Control!macos_axis_to_byte(v) <= Control!macos_axis_to_byte(w)
<1>1. v \in Int /\ 0 - 32768 <= v /\ v <= 32767 /\ w \in Int /\ 0 - 32768 <= w /\ w <= 32767
  BY AxesWithin
<1>2. Control!macos_axis_to_byte(v) <= Control!macos_axis_to_byte(w)
  BY <1>1, ScaleKeepsOrder DEF Control!macos_axis_to_byte
<1>3. CASE w < 0 - 7849
  BY <1>1, <1>2, <1>3, DeadZone, ScaleKeepsOrder
<1>4. CASE v > 7849
  BY <1>1, <1>2, <1>4, DeadZone, ScaleKeepsOrder
<1>5. CASE v <= 7849 /\ w >= 0 - 7849
  <2>1. Control!windows_axis_to_byte(v, 7849) \in 0..128
    BY <1>1, <1>5, WindowsSide
  <2>2. Control!windows_axis_to_byte(w, 7849) \in 128..255
    BY <1>1, <1>5, WindowsSide
  <2> QED
    BY <1>2, <2>1, <2>2
<1> QED
  BY <1>1, <1>3, <1>4, <1>5

LEMMA EndsOfSticks ==
  /\ Control!windows_axis_to_byte(0, 7849) = Control!Centre /\ Control!macos_axis_to_byte(0) = Control!Centre
  /\ Control!windows_axis_to_byte(-32768, 7849) = 0 /\ Control!windows_axis_to_byte(32767, 7849) = 255
<1>1. Control!windows_axis_to_byte(0, 7849) = Control!Centre
  BY DeadZone DEF Control!Centre
<1>2. Control!macos_axis_to_byte(0) = Control!Centre
  BY DEF Control!Centre, Control!macos_axis_to_byte, Control!Scaled
<1>3. Control!windows_axis_to_byte(-32768, 7849) = 0
  BY DEF Control!windows_axis_to_byte, Control!Scaled, Control!Centre
<1>4. Control!windows_axis_to_byte(32767, 7849) = 255
  BY DEF Control!windows_axis_to_byte, Control!Scaled, Control!Centre
<1> QED
  BY <1>1, <1>2, <1>3, <1>4

\* The tables of the two front ends.
LEMMA Tables ==
  /\ Control!OneKeyEach(Control!windows_update_keyboard_key)
  /\ Control!OneKeyEach(Control!macos_update_keyboard_key)
  /\ {p[2] : p \in Control!xinput_buttons} = Control!Buttons
  /\ {p[2] : p \in Control!gamepad_buttons} = Control!Buttons
  /\ Control!windows_handle_dialog_key \subseteq Control!windows_update_keyboard_key
  /\ Control!macos_dialog_keys \subseteq Control!macos_update_keyboard_key
<1> USE DEF Control!Buttons, Control!Directions
<1>1. Control!OneKeyEach(Control!windows_update_keyboard_key)
  BY DEF Control!OneKeyEach, Control!windows_update_keyboard_key
<1>2. Control!OneKeyEach(Control!macos_update_keyboard_key)
  BY DEF Control!OneKeyEach, Control!macos_update_keyboard_key
<1>3. {p[2] : p \in Control!xinput_buttons} = Control!Buttons
  BY DEF Control!xinput_buttons
<1>4. {p[2] : p \in Control!gamepad_buttons} = Control!Buttons
  BY DEF Control!gamepad_buttons
<1>5. Control!windows_handle_dialog_key \subseteq Control!windows_update_keyboard_key
  BY DEF Control!windows_handle_dialog_key, Control!windows_update_keyboard_key
<1>6. Control!macos_dialog_keys \subseteq Control!macos_update_keyboard_key
  BY DEF Control!macos_dialog_keys, Control!macos_update_keyboard_key
<1> QED
  BY <1>1, <1>2, <1>3, <1>4, <1>5, <1>6

LEMMA TablesAgree == Control!TablesAgree
<1>1. \A v, w \in Axes : v <= w =>
         /\ Control!windows_axis_to_byte(v, 7849) <= Control!windows_axis_to_byte(w, 7849)
         /\ Control!macos_axis_to_byte(v) <= Control!macos_axis_to_byte(w)
  BY SticksNeverTurnBack
<1> QED
  BY <1>1, Tables, EndsOfSticks DEF Control!TablesAgree

-----------------------------------------------------------------------------
(* Keys and sticks: the invariant.  The latch is exactly what went down     *)
(* since it was cleared, and what the guest is still owed is in it; the     *)
(* buttons are down, and none is while a dialog covers the window.          *)

KeysDown ==
    /\ down \subseteq Keys /\ buttons \subseteq down
    /\ covered \in BOOLEAN /\ (covered => buttons = {})
    /\ keyStep \in Control!Buttons \cup {""}
Latched == latched \subseteq Control!Buttons /\ since = latched /\ owed \subseteq latched
Reading == reading # Control!Idle => reading \subseteq may
Sampled == sample \in [buttons : SUBSET Control!Buttons, x : 0..255, y : 0..255]
Bounded == events \in 0..MaxKeyEvents /\ calls \in 0..MaxSamples
SettingsSound == settings \in [cycle : Control!SamplingCycles, mode : 0..1, reset : -1..128, back : -1..128]
ControlInv == KeysDown /\ Latched /\ Reading /\ Sampled /\ Bounded /\ SettingsSound

LEMMA ControlInitially ==
  ASSUME Control!ControlsInit
  PROVE  ControlInv
<1> USE ControlConstants DEF Control!ControlsInit
<1>1. covered \in BOOLEAN
  BY Zenon
<1>2. KeysDown /\ Latched /\ Reading /\ Bounded
  <2>1. KeysDown
    BY <1>1 DEF KeysDown
  <2>2. Latched /\ Reading
    BY DEF Latched, Reading
  <2>3. Bounded
    <3>1. events = MaxKeyEvents /\ calls = MaxSamples
      BY Zenon
    <3> HIDE DEF Control!ControlsInit
    <3> QED
      BY <3>1 DEF Bounded
  <2> QED
    BY <2>1, <2>2, <2>3
<1>3. Sampled
  <2>1. sample = [buttons |-> {}, x |-> Control!Centre, y |-> Control!Centre]
    BY Zenon
  <2> HIDE DEF Control!ControlsInit
  <2> QED
    BY <2>1 DEF Sampled, Control!Centre
<1>4. SettingsSound
  <2>1. settings = Control!Defaults
    BY Zenon
  <2> HIDE DEF Control!ControlsInit
  <2>2. 0 \in Control!SamplingCycles
    BY DEF Control!SamplingCycles
  <2> QED
    BY <2>1, <2>2 DEF SettingsSound, Control!Defaults
<1> QED
  BY <1>2, <1>3, <1>4 DEF ControlInv

LEMMA ControlStutter ==
  ASSUME ControlInv, UNCHANGED control
  PROVE  ControlInv'
  BY DEF ControlInv, control, KeysDown, Latched, Reading, Sampled, Bounded, SettingsSound

\* Who changes what.
Window ==
    \/ \E b \in Keys : Control!update_keyboard_mask(b) \/ Control!KeyUp(b)
    \/ Control!update_keyboard_button \/ Control!CoverWindow \/ Control!UncoverWindow
Guests == Control!controller_state \/ Control!ReadLatch \/ Control!PresentFrame
Settings ==
    \/ \E c \in Cycles : Control!set_sampling_cycle(c)
    \/ \E m \in Modes : Control!set_sampling_mode(m)
    \/ \E reset, back \in Thresholds : Control!set_idle_cancel_threshold(reset, back)

LEMMA WhoMoves == Control!ControlsNext => Window \/ Guests \/ Settings
  BY Zenon DEF Control!ControlsNext, Window, Guests, Settings

LEMMA WindowStep ==
  ASSUME ControlInv, Window
  PROVE  ControlInv'
<1> USE ControlConstants DEF ControlInv
<1>1. Sampled' /\ SettingsSound'
  <2>1. sample' = sample /\ settings' = settings
    BY Zenon DEF Window, Control!update_keyboard_mask, Control!KeyUp, Control!update_keyboard_button,
                 Control!CoverWindow, Control!UncoverWindow
  <2> QED
    BY <2>1 DEF Sampled, SettingsSound
<1>2. Bounded'
  <2>1. calls' = calls /\ (events' = events \/ (events > 0 /\ events' = events - 1))
    BY Zenon DEF Window, Control!Event, Control!update_keyboard_mask, Control!KeyUp,
                 Control!update_keyboard_button, Control!CoverWindow, Control!UncoverWindow
  <2> QED
    BY <2>1 DEF Bounded
<1>3. ASSUME NEW b \in Keys, Control!update_keyboard_mask(b)
      PROVE  KeysDown' /\ Latched' /\ Reading'
  <2> USE <1>3 DEF Control!update_keyboard_mask
  <2>1. KeysDown'
    BY DEF KeysDown
  <2>2. Latched' /\ Reading'
    BY DEF Latched, Reading
  <2> QED
    BY <2>1, <2>2
<1>4. ASSUME NEW b \in Keys, Control!KeyUp(b)
      PROVE  KeysDown' /\ Latched' /\ Reading'
  BY <1>4 DEF Control!KeyUp, KeysDown, Latched, Reading
<1>5. CASE Control!update_keyboard_button
  BY <1>5, <1>1, <1>2 DEF Control!update_keyboard_button, Control!SetLatch, KeysDown, Latched, Reading
<1>6. CASE Control!CoverWindow
  <2>1. covered' \in BOOLEAN
    BY <1>6, Zenon DEF Control!CoverWindow
  <2> QED
    BY <1>6, <2>1, <1>1, <1>2 DEF Control!CoverWindow, KeysDown, Latched, Reading
<1>7. CASE Control!UncoverWindow
  <2>1. covered' \in BOOLEAN
    BY <1>7, Zenon DEF Control!UncoverWindow
  <2> QED
    BY <1>7, <2>1, <1>1, <1>2 DEF Control!UncoverWindow, KeysDown, Latched, Reading
<1> QED
  BY <1>1, <1>2, <1>3, <1>4, <1>5, <1>6, <1>7 DEF Window

LEMMA GuestStep ==
  ASSUME ControlInv, Guests
  PROVE  ControlInv'
<1> USE ControlConstants DEF ControlInv
<1>1. SettingsSound'
  <2>1. settings' = settings
    BY Zenon DEF Guests, Control!controller_state, Control!ReadLatch, Control!PresentFrame
  <2> QED
    BY <2>1 DEF SettingsSound
<1>2. Bounded'
  <2>1. events' = events /\ (calls' = calls \/ (calls > 0 /\ calls' = calls - 1))
    BY Zenon DEF Guests, Control!Call, Control!controller_state, Control!ReadLatch, Control!PresentFrame
  <2> QED
    BY <2>1 DEF Bounded
<1>3. CASE Control!controller_state
  <2> USE <1>3 DEF Control!controller_state
  <2>1. Sampled'
    BY DEF Sampled, Control!Centre
  <2>2. KeysDown' /\ Latched' /\ Reading'
    BY DEF KeysDown, Latched, Reading
  <2> QED
    BY <1>1, <1>2, <2>1, <2>2
<1>4. CASE Control!ReadLatch
  <2> USE <1>4 DEF Control!ReadLatch
  <2>1. KeysDown' /\ Latched' /\ Reading'
    BY DEF KeysDown, Latched, Reading
  <2>2. Sampled'
    <3>1. \A less, more : Control!Deflection(reading \cap Control!Directions, less, more) \in 0..255
      BY DEF Control!Deflection, Control!Centre
    <3>2. PICK stick \in Control!StickBytes, pad_ \in PadStates :
            LET keyed(less, more) == IF reading \cap Control!Directions = {} THEN stick
                                     ELSE Control!Deflection(reading \cap Control!Directions, less, more)
            IN  sample' = [buttons |-> (reading \cap Control!Buttons) \cup latched \cup pad_,
                           x |-> keyed("analogLeft", "analogRight"), y |-> keyed("analogUp", "analogDown")]
      BY Zenon
    <3> HIDE DEF Control!ReadLatch
    <3>3. (reading \cap Control!Buttons) \cup latched \cup pad_ \in SUBSET Control!Buttons
      BY <3>2 DEF Latched
    <3> QED
      BY <3>1, <3>2, <3>3, SticksAreBytes DEF Sampled
  <2> QED
    BY <1>1, <1>2, <2>1, <2>2
<1>5. CASE Control!PresentFrame
  BY <1>1, <1>2, <1>5 DEF Control!PresentFrame, KeysDown, Latched, Reading, Sampled
<1> QED
  BY <1>3, <1>4, <1>5 DEF Guests

LEMMA SettingChanges ==
  ASSUME NEW valid, NEW new, NEW old, Control!Setting(valid, new, old)
  PROVE  /\ UNCHANGED <<down, buttons, latched, keyStep, covered, reading, sample, events, since, owed, may>>
         /\ calls > 0 /\ calls' = calls - 1
         /\ (valid /\ settings' = new) \/ settings' = settings
<1>1. CASE valid
  BY <1>1, Zenon DEF Control!Setting, Control!Call
<1>2. CASE ~valid
  BY <1>2, Zenon DEF Control!Setting, Control!Call
<1> QED
  BY <1>1, <1>2

LEMMA SettingStep ==
  ASSUME ControlInv, Settings
  PROVE  ControlInv'
<1> USE ControlConstants DEF ControlInv
<1>1. UNCHANGED <<down, buttons, latched, keyStep, covered, reading, sample, events, since, owed, may>>
  BY SettingChanges, Zenon DEF Settings, Control!set_sampling_cycle, Control!set_sampling_mode,
                               Control!set_idle_cancel_threshold
<1>2. calls > 0 /\ calls' = calls - 1
  BY SettingChanges, Zenon DEF Settings, Control!set_sampling_cycle, Control!set_sampling_mode,
                               Control!set_idle_cancel_threshold
<1>3. KeysDown' /\ Latched' /\ Reading' /\ Sampled' /\ Bounded'
  <2>1. KeysDown' /\ Latched' /\ Reading' /\ Sampled'
    BY <1>1, Zenon DEF KeysDown, Latched, Reading, Sampled
  <2> QED
    BY <1>1, <1>2, <2>1 DEF Bounded
<1>4. SettingsSound'
  <2>1. ASSUME NEW c \in Cycles, Control!set_sampling_cycle(c)
        PROVE  SettingsSound'
    <3>1. \/ settings' = settings
          \/ c \in Control!SamplingCycles /\ settings' = [settings EXCEPT !.cycle = c]
      BY <2>1, SettingChanges, Zenon DEF Control!set_sampling_cycle
    <3> QED
      BY <3>1 DEF SettingsSound
  <2>2. ASSUME NEW m \in Modes, Control!set_sampling_mode(m)
        PROVE  SettingsSound'
    <3>1. \/ settings' = settings
          \/ m <= 1 /\ settings' = [settings EXCEPT !.mode = m]
      BY <2>2, SettingChanges, Zenon DEF Control!set_sampling_mode
    <3> QED
      BY <3>1 DEF SettingsSound
  <2>3. ASSUME NEW reset \in Thresholds, NEW back \in Thresholds, Control!set_idle_cancel_threshold(reset, back)
        PROVE  SettingsSound'
    <3>1. \/ settings' = settings
          \/ /\ reset \in -1..128 /\ back \in -1..128
             /\ settings' = [settings EXCEPT !.reset = reset, !.back = back]
      BY <2>3, SettingChanges, Zenon DEF Control!set_idle_cancel_threshold
    <3> QED
      BY <3>1 DEF SettingsSound
  <2> QED
    BY <2>1, <2>2, <2>3 DEF Settings
<1> QED
  BY <1>3, <1>4

THEOREM ControlInvariant == Spec => []ControlInv
<1>1. Init => ControlInv
  BY ControlInitially DEF Init
<1>2. ControlInv /\ [Next]_vars => ControlInv'
  <2>1. [Next]_vars => Control!ControlsNext \/ UNCHANGED control
    BY Zenon DEF Next, Dialogs, vars
  <2> QED
    BY <2>1, WhoMoves, WindowStep, GuestStep, SettingStep, ControlStutter
<1> QED
  BY <1>1, <1>2, PTL DEF Spec

\* A key tapped between two samples shows in the next one unless a frame is
\* presented or a dialog comes up in between; no sample shows a key that was not
\* down; a held key shows; and for every position of a stick both front ends
\* give a byte, never turn back and agree on every key.
THEOREM ControlsAreSound == Spec => []ControlsSound
<1>1. ControlInv => ControlsSound
  <2> SUFFICES ASSUME ControlInv PROVE Control!ControlsTypeOK /\ Control!ControlsSound
    BY DEF ControlsSound
  <2> USE DEF ControlInv
  <2>1. Control!ControlsTypeOK
    <3>1. settings.cycle \in Control!SamplingCycles
      BY DEF SettingsSound
    <3>2. settings.mode \in 0..1 /\ settings.reset \in -1..128 /\ settings.back \in -1..128
      BY DEF SettingsSound
    <3>3. sample.x \in 0..255 /\ sample.y \in 0..255
      BY DEF Sampled
    <3>4. down \subseteq Keys /\ buttons \subseteq Keys /\ latched \subseteq Control!Buttons
      BY DEF KeysDown, Latched
    <3>5. covered \in BOOLEAN /\ events \in 0..MaxKeyEvents /\ calls \in 0..MaxSamples
      BY DEF KeysDown, Bounded
    <3> QED
      BY <3>1, <3>2, <3>3, <3>4, <3>5 DEF Control!ControlsTypeOK
  <2>2. Control!TapSeen
    BY DEF Latched, Control!TapSeen
  <2>3. Control!NoPhantomKeys
    BY DEF KeysDown, Latched, Reading, Control!NoPhantomKeys
  <2>4. Control!HeldKeysShow
    BY DEF Latched, Control!HeldKeysShow
  <2> QED
    BY <2>1, <2>2, <2>3, <2>4, TablesAgree DEF Control!ControlsSound
<1> QED
  BY <1>1, ControlInvariant, PTL

-----------------------------------------------------------------------------
(* Dialogs: what is shown *)

Utilities == {"savedata", "message", "osk"}
DialogModel == {m \in [id : Nat, kind : Utilities, first : Nat] : m.kind = "osk" => m.first = 0}
Answer == [id : Nat, cancelled : BOOLEAN, item : Nat, texts : Seq(Nat)]
Given  == [id : Nat, cancelled : BOOLEAN, item : Nat, text : Int]
Editor == [id : Nat, text : Nat]
Widgets ==
    [dialog : DialogModel \cup {None}, answer : Answer \cup {None}, editors : Seq(Editor),
     dangling : BOOLEAN, chosen : Nat, field : Nat, given : Seq(Given), typed : Int]

GivenIds(g) == {g[k].id : k \in DOMAIN g}

\* The answer is one the user gave; that of the keyboard dialog o has its text
\* as long as there has been no other keyboard.
Recorded(a, g, es, o) ==
    \E k \in DOMAIN g :
      /\ g[k].id = a.id /\ (g[k].cancelled <=> a.cancelled) /\ g[k].item = a.item
      /\ a.id = o => Len(es) > 0 /\ (Len(es) = 1 => a.texts[1] = g[k].text)

\* The keyboard dialog has an editor and one of its keys is chosen.
EditorFits(w) ==
    w.dialog # None /\ w.dialog.kind = "osk" =>
      /\ w.chosen < Len(OskKeys) /\ Len(w.editors) > 0 /\ w.field < Len(w.editors)
      /\ Len(w.editors) = 1 => w.editors[1].text = w.typed

\* A field there is has an editor, and before a deleted one has been used there
\* is one at most.
EditorsFit(w) ==
    /\ Len(w.editors) > 0 => w.field < Len(w.editors)
    /\ ~w.dangling => Len(w.editors) <= 1

\* The dialog shown and the last answer, for a guest whose keyboard dialog is o.
WidgetRight(w, o) ==
    /\ w \in Widgets
    /\ w.dialog # None => w.dialog.id \notin GivenIds(w.given) /\ (w.dialog.id = o => w.dialog.kind = "osk")
    /\ w.answer # None => Recorded(w.answer, w.given, w.editors, o)
    /\ EditorFits(w) /\ EditorsFit(w)

\* Answers are added, and that only to the dialog that is shown.
Extends(w, v) ==
    /\ \A k \in DOMAIN w.given : k \in DOMAIN v.given /\ v.given[k] = w.given[k]
    /\ \A k \in DOMAIN v.given : k \notin DOMAIN w.given => w.dialog # None /\ v.given[k].id = w.dialog.id
Leads(w, v, o) ==
    /\ WidgetRight(v, o) /\ Extends(w, v)
    /\ v.dialog \in {w.dialog, None} /\ Len(v.editors) = Len(w.editors)

\* What is known of the keyboard and of the list of saves.
LEMMA DialogConstants ==
  Items \in Nat \ {0} /\ Limit \in Nat /\ OskKeys \in Seq({"letter", "back", "next", "done"}) /\ Len(OskKeys) > 0
<1>1. Windows!DialogsAssumption
  BY DesktopAssumption DEF DesktopAssumption
<1> QED
  BY <1>1 DEF Windows!DialogsAssumption

\* One after the other.
LEMMA LeadsOn ==
  ASSUME NEW w, NEW v, NEW x, NEW o, Leads(w, v, o), Leads(v, x, o), w \in Widgets
  PROVE  Leads(w, x, o)
<1>1. Extends(w, x)
  BY DEF Leads, Extends
<1> QED
  BY <1>1 DEF Leads

\* A key that means nothing leads to the same dialog.
LEMMA LeadsNowhere ==
  ASSUME NEW w, NEW o, WidgetRight(w, o)
  PROVE  Leads(w, w, o)
  BY DEF Leads, Extends

\* The answer: the text of every editor.
LEMMA TextsOf ==
  ASSUME NEW es \in Seq(Editor)
  PROVE  /\ [k \in DOMAIN es |-> es[k].text] \in Seq(Nat)
         /\ Len(es) = 1 => [k \in DOMAIN es |-> es[k].text][1] = es[1].text
<1> DEFINE ts == [k \in DOMAIN es |-> es[k].text]
<1>1. DOMAIN es = 1..Len(es) /\ Len(es) \in Nat /\ \A k \in 1..Len(es) : es[k].text \in Nat
  <2>1. DOMAIN es = 1..Len(es) /\ Len(es) \in Nat /\ \A k \in 1..Len(es) : es[k] \in Editor
    OBVIOUS
  <2> QED
    BY <2>1 DEF Editor
<1>2. ts \in [1..Len(es) -> Nat]
  BY <1>1
<1>3. ts \in Seq(Nat)
  BY <1>1, <1>2
<1>4. Len(es) = 1 => ts[1] = es[1].text
  BY <1>1
<1> QED
  BY <1>3, <1>4

\* An answer more: those there were stay where they are.
LEMMA AnswerGiven ==
  ASSUME NEW g \in Seq(Given), NEW r \in Given
  PROVE  LET h == Append(g, r)
         IN  /\ h \in Seq(Given) /\ Len(h) \in Nat /\ Len(h) \in DOMAIN h /\ h[Len(h)] = r
             /\ \A k \in DOMAIN g : k \in DOMAIN h /\ h[k] = g[k]
             /\ \A k \in DOMAIN h : k \in DOMAIN g \/ h[k] = r
  OBVIOUS

\* A dialog is completed: its answer is the last one given.
LEMMA CompleteLeads ==
  ASSUME NEW w, NEW o, WidgetRight(w, o), NEW c \in BOOLEAN
  PROVE  Leads(w, Windows!complete(w, c), o) /\ Windows!complete(w, c).dialog = None
<1>1. CASE w.dialog = None
  <2>1. Windows!complete(w, c) = w
    BY <1>1 DEF Windows!complete
  <2> QED
    BY <1>1, <2>1, LeadsNowhere
<1>2. CASE w.dialog # None
  <2> DEFINE item == IF w.dialog.kind = "savedata" THEN w.chosen ELSE 0
             a == [id |-> w.dialog.id, cancelled |-> c, item |-> item,
                   texts |-> [k \in DOMAIN w.editors |-> w.editors[k].text]]
             r == [id |-> w.dialog.id, cancelled |-> c, item |-> item, text |-> w.typed]
             h == Append(w.given, r)
             b == w.dangling \/ \E k \in DOMAIN w.editors : ~Windows!Alive(w, k)
             v == [w EXCEPT !.answer = a, !.given = h, !.dangling = b, !.dialog = None]
  <2>1. Windows!complete(w, c) = v
    BY <1>2 DEF Windows!complete, Widgets, WidgetRight
  <2>2. w \in Widgets /\ w.dialog \in DialogModel /\ w.dialog.id \in Nat /\ item \in Nat /\ w.editors \in Seq(Editor)
        /\ w.given \in Seq(Given) /\ w.typed \in Int
    BY <1>2 DEF WidgetRight, Widgets, DialogModel
  <2>3. a \in Answer /\ (Len(w.editors) = 1 => a.texts[1] = w.editors[1].text)
    BY <2>2, TextsOf DEF Answer
  <2>4. r \in Given
    BY <2>2 DEF Given
  <2>5. a.id = w.dialog.id /\ r.id = w.dialog.id /\ (r.cancelled <=> a.cancelled) /\ r.item = a.item /\ r.text = w.typed
    OBVIOUS
  <2>12. b \in BOOLEAN /\ (w.dangling => b)
    OBVIOUS
  <2> HIDE DEF a, r, item, b
  <2>6. /\ h \in Seq(Given) /\ Len(h) \in DOMAIN h /\ h[Len(h)] = r
        /\ \A k \in DOMAIN w.given : k \in DOMAIN h /\ h[k] = w.given[k]
        /\ \A k \in DOMAIN h : k \in DOMAIN w.given \/ h[k] = r
    BY <2>2, <2>4, AnswerGiven
  <2> HIDE DEF h
  <2>7. /\ v \in Widgets /\ v.dialog = None /\ v.answer = a /\ v.given = h /\ v.editors = w.editors
        /\ v.field = w.field /\ v.dangling = b
    BY <2>2, <2>3, <2>6, <2>12 DEF Widgets
  <2> HIDE DEF v
  <2>8. w.dialog.id = o => Len(w.editors) > 0 /\ (Len(w.editors) = 1 => a.texts[1] = r.text)
    BY <1>2, <2>3, <2>5 DEF WidgetRight, EditorFits
  <2>9. Recorded(a, h, w.editors, o)
    BY <2>5, <2>6, <2>8 DEF Recorded
  <2>10. WidgetRight(v, o)
    BY <2>7, <2>9, <2>12 DEF WidgetRight, EditorFits, EditorsFit
  <2>11. Extends(w, v)
    BY <1>2, <2>5, <2>6, <2>7 DEF Extends
  <2> QED
    BY <2>1, <2>7, <2>10, <2>11 DEF Leads
<1> QED
  BY <1>1, <1>2

\* Where there is an editor, the field in use has one.
LEMMA SomeEditor ==
  ASSUME NEW w, NEW o, WidgetRight(w, o), w.editors # <<>>
  PROVE  /\ w.editors \in Seq(Editor) /\ w.field \in Nat /\ Len(w.editors) \in Nat
         /\ w.field < Len(w.editors) /\ w.typed \in Int
<1>1. w.editors \in Seq(Editor) /\ w.field \in Nat /\ w.typed \in Int
  BY DEF WidgetRight, Widgets
<1> DEFINE es == w.editors
<1>2. Len(es) \in Nat /\ Len(es) > 0
  BY <1>1
<1> QED
  BY <1>1, <1>2 DEF WidgetRight, EditorsFit

\* The text of one editor changed, and with it what is typed.
LEMMA EditLeads ==
  ASSUME NEW w, NEW o, WidgetRight(w, o), w.editors # <<>>,
         NEW t \in Nat, NEW p \in Int, t - w.editors[w.field + 1].text = p - w.typed
  PROVE  Leads(w, [w EXCEPT !.editors[w.field + 1].text = t, !.typed = p], o)
<1> DEFINE n == w.field + 1
           es == [w.editors EXCEPT ![n].text = t]
           v == [w EXCEPT !.editors = es, !.typed = p]
<1>1. /\ w \in Widgets /\ w.editors \in Seq(Editor) /\ w.field \in Nat /\ Len(w.editors) \in Nat /\ w.field < Len(w.editors)
      /\ w.typed \in Int /\ w.given \in Seq(Given)
  BY SomeEditor DEF WidgetRight, Widgets
<1>2. n \in 1..Len(w.editors) /\ (Len(w.editors) = 1 => n = 1)
  BY <1>1
<1> HIDE DEF n
<1>3. w.editors[n] \in Editor
  BY <1>1, <1>2
<1>4. es \in Seq(Editor) /\ Len(es) = Len(w.editors) /\ es[n].text = t
  <2>1. [w.editors[n] EXCEPT !.text = t] \in Editor /\ [w.editors[n] EXCEPT !.text = t].text = t
    BY <1>3 DEF Editor
  <2>2. es = [w.editors EXCEPT ![n] = [w.editors[n] EXCEPT !.text = t]]
    OBVIOUS
  <2> DEFINE e == [w.editors[n] EXCEPT !.text = t]
  <2> HIDE DEF e
  <2>3. es = [w.editors EXCEPT ![n] = e] /\ e \in Editor /\ e.text = t
    BY <2>1, <2>2 DEF e
  <2> HIDE DEF es
  <2> QED
    BY <1>1, <1>2, <2>3
<1> HIDE DEF es
<1>5. /\ v \in Widgets /\ v.dialog = w.dialog /\ v.answer = w.answer /\ v.given = w.given /\ v.editors = es
      /\ v.typed = p /\ v.field = w.field /\ v.chosen = w.chosen /\ v.dangling = w.dangling
  BY <1>1, <1>4 DEF Widgets
<1>6. [w EXCEPT !.editors[w.field + 1].text = t, !.typed = p] = v
  BY DEF es, n
<1> HIDE DEF v
<1>7. w.dialog # None /\ w.dialog.kind = "osk" /\ Len(es) = 1 => es[1].text = p
  <2> SUFFICES ASSUME w.dialog # None, w.dialog.kind = "osk", Len(es) = 1 PROVE es[1].text = p
    OBVIOUS
  <2>1. n = 1 /\ w.editors[1].text = w.typed /\ w.editors[1].text \in Nat
    BY <1>1, <1>2, <1>3, <1>4 DEF WidgetRight, EditorFits, Editor
  <2>2. t - w.editors[n].text = p - w.typed
    BY DEF n
  <2> QED
    BY <1>1, <1>4, <2>1, <2>2
<1>8. EditorFits(v)
  BY <1>4, <1>5, <1>7 DEF WidgetRight, EditorFits
<1>9. WidgetRight(v, o)
  BY <1>4, <1>5, <1>8 DEF WidgetRight, Recorded, EditorsFit
<1> QED
  BY <1>1, <1>4, <1>5, <1>6, <1>9 DEF Leads, Extends

\* The text of the editor in use.
LEMMA EditorText ==
  ASSUME NEW w, NEW o, WidgetRight(w, o), w.editors # <<>>
  PROVE  w.editors[w.field + 1].text \in Nat /\ w.typed \in Int
<1>1. /\ w.editors \in Seq(Editor) /\ w.field \in Nat /\ w.field < Len(w.editors) /\ w.typed \in Int
  BY SomeEditor
<1>2. w.field + 1 \in 1..Len(w.editors)
  BY <1>1
<1>3. w.editors[w.field + 1] \in Editor
  BY <1>1, <1>2
<1> QED
  BY <1>1, <1>3 DEF Editor

\* A deleted editor is used.
LEMMA DanglingLeads ==
  ASSUME NEW w, NEW o, WidgetRight(w, o)
  PROVE  Leads(w, [w EXCEPT !.dangling = TRUE], o)
<1> DEFINE b == TRUE
           v == [w EXCEPT !.dangling = b]
<1>0. b \in BOOLEAN /\ (b <=> TRUE)
  OBVIOUS
<1> HIDE DEF b
<1>1. /\ w \in Widgets /\ v \in Widgets /\ v.dialog = w.dialog /\ v.answer = w.answer /\ v.given = w.given
      /\ v.editors = w.editors /\ v.typed = w.typed /\ v.field = w.field /\ v.chosen = w.chosen /\ v.dangling = b
  BY <1>0 DEF Widgets, WidgetRight
<1> HIDE DEF v
<1>2. WidgetRight(v, o)
  BY <1>0, <1>1 DEF WidgetRight, EditorFits, EditorsFit
<1> QED
  BY <1>1, <1>2 DEF Leads, Extends, v, b

\* A letter, unless the text is as long as it may be.
LEMMA InsertLeads ==
  ASSUME NEW w, NEW o, WidgetRight(w, o)
  PROVE  Leads(w, Windows!insert(w), o)
<1>1. CASE Windows!insert(w) = w
  BY <1>1, LeadsNowhere
<1>3. CASE Windows!insert(w) = [w EXCEPT !.dangling = TRUE]
  BY <1>3, DanglingLeads
<1>2. CASE Windows!insert(w) # w /\ Windows!insert(w) # [w EXCEPT !.dangling = TRUE]
  <2>1. /\ w.editors # <<>>
        /\ Windows!insert(w) = [w EXCEPT !.editors[w.field + 1].text = @ + 1, !.typed = @ + 1]
    BY <1>2 DEF Windows!insert
  <2>2. [w EXCEPT !.editors[w.field + 1].text = @ + 1, !.typed = @ + 1]
          = [w EXCEPT !.editors[w.field + 1].text = w.editors[w.field + 1].text + 1, !.typed = w.typed + 1]
    BY DEF WidgetRight, Widgets
  <2>3. w.editors[w.field + 1].text \in Nat /\ w.typed \in Int
    BY <2>1, EditorText
  <2>4. Leads(w, [w EXCEPT !.editors[w.field + 1].text = w.editors[w.field + 1].text + 1, !.typed = w.typed + 1], o)
    <3> DEFINE t == w.editors[w.field + 1].text + 1
               p == w.typed + 1
    <3>1. t \in Nat /\ p \in Int /\ t - w.editors[w.field + 1].text = p - w.typed
      BY <2>3
    <3> HIDE DEF t, p
    <3>2. Leads(w, [w EXCEPT !.editors[w.field + 1].text = t, !.typed = p], o)
      BY <2>1, <3>1, EditLeads
    <3> QED
      BY <3>2 DEF t, p
  <2> QED
    BY <2>1, <2>2, <2>4
<1> QED
  BY <1>1, <1>2, <1>3

\* A letter less, if there is one.
LEMMA BackspaceLeads ==
  ASSUME NEW w, NEW o, WidgetRight(w, o)
  PROVE  Leads(w, Windows!backspace(w), o)
<1>1. w.editors # <<>> => w.editors[w.field + 1].text \in Nat /\ w.typed \in Int
  BY EditorText
<1>2. CASE Windows!backspace(w) = w
  BY <1>2, LeadsNowhere
<1>4. CASE Windows!backspace(w) = [w EXCEPT !.dangling = TRUE]
  BY <1>4, DanglingLeads
<1>3. CASE Windows!backspace(w) # w /\ Windows!backspace(w) # [w EXCEPT !.dangling = TRUE]
  <2>1. w.editors # <<>> /\ w.editors[w.field + 1].text # 0
    BY <1>3 DEF Windows!backspace
  <2>2. Windows!backspace(w) = [w EXCEPT !.editors[w.field + 1].text = @ - 1, !.typed = @ - 1]
    BY <1>3 DEF Windows!backspace
  <2>3. [w EXCEPT !.editors[w.field + 1].text = @ - 1, !.typed = @ - 1]
          = [w EXCEPT !.editors[w.field + 1].text = w.editors[w.field + 1].text - 1, !.typed = w.typed - 1]
    BY DEF WidgetRight, Widgets
  <2>4. Leads(w, [w EXCEPT !.editors[w.field + 1].text = w.editors[w.field + 1].text - 1, !.typed = w.typed - 1], o)
    <3> DEFINE t == w.editors[w.field + 1].text - 1
               p == w.typed - 1
    <3>1. t \in Nat /\ p \in Int /\ t - w.editors[w.field + 1].text = p - w.typed
      BY <1>1, <2>1
    <3> HIDE DEF t, p
    <3>2. Leads(w, [w EXCEPT !.editors[w.field + 1].text = t, !.typed = p], o)
      BY <2>1, <3>1, EditLeads
    <3> QED
      BY <3>2 DEF t, p
  <2> QED
    BY <2>2, <2>3, <2>4
<1> QED
  BY <1>2, <1>3, <1>4

\* Another key or save chosen, another field.
LEMMA ChooseLeads ==
  ASSUME NEW w, NEW o, WidgetRight(w, o), NEW n \in Nat, w.dialog # None /\ w.dialog.kind = "osk" => n < Len(OskKeys)
  PROVE  Leads(w, [w EXCEPT !.chosen = n], o)
<1> DEFINE v == [w EXCEPT !.chosen = n]
<1>1. /\ w \in Widgets /\ v \in Widgets /\ v.dialog = w.dialog /\ v.answer = w.answer /\ v.given = w.given
      /\ v.editors = w.editors /\ v.typed = w.typed /\ v.field = w.field /\ v.chosen = n /\ v.dangling = w.dangling
  BY DEF Widgets, WidgetRight
<1> HIDE DEF v
<1>2. EditorFits(v)
  BY <1>1 DEF WidgetRight, EditorFits
<1>3. WidgetRight(v, o)
  BY <1>1, <1>2 DEF WidgetRight, EditorsFit
<1> QED
  BY <1>1, <1>3 DEF Leads, Extends, v

\* The next field is one that there is.
LEMMA NextFieldLeads ==
  ASSUME NEW w, NEW o, WidgetRight(w, o), w.dialog # None, w.dialog.kind = "osk"
  PROVE  Leads(w, [w EXCEPT !.field = (@ + 1) % Len(w.editors)], o)
<1> DEFINE n == (w.field + 1) % Len(w.editors)
           v == [w EXCEPT !.field = n]
<1>1. w \in Widgets /\ w.field \in Nat /\ Len(w.editors) \in Nat /\ Len(w.editors) > 0
  BY DEF WidgetRight, EditorFits, Widgets
<1>2. n \in Nat /\ n < Len(w.editors)
  <2> DEFINE q == w.field + 1
             l == Len(w.editors)
  <2>1. q \in Nat /\ l \in Nat /\ l > 0
    BY <1>1
  <2> HIDE DEF q, l
  <2>2. q % l \in Nat /\ q % l < l
    BY <2>1
  <2> QED
    BY <2>2 DEF q, l
<1> HIDE DEF n
<1>3. /\ v \in Widgets /\ v.dialog = w.dialog /\ v.answer = w.answer /\ v.given = w.given
      /\ v.editors = w.editors /\ v.typed = w.typed /\ v.field = n /\ v.chosen = w.chosen /\ v.dangling = w.dangling
  BY <1>1, <1>2 DEF Widgets
<1>4. [w EXCEPT !.field = (@ + 1) % Len(w.editors)] = v
  BY DEF n
<1> HIDE DEF v
<1>5. EditorFits(v)
  BY <1>2, <1>3 DEF WidgetRight, EditorFits
<1>6. WidgetRight(v, o)
  BY <1>2, <1>3, <1>5 DEF WidgetRight, EditorsFit
<1> QED
  BY <1>3, <1>4, <1>6 DEF Leads, Extends

\* A key of the keyboard dialog.
LEMMA KeyLeads ==
  ASSUME NEW w, NEW o, WidgetRight(w, o), w.dialog # None, w.dialog.kind = "osk"
  PROVE  Leads(w, Windows!activate_osk_key(w), o)
<1>1. w.chosen + 1 \in 1..Len(OskKeys)
  BY DialogConstants DEF WidgetRight, EditorFits, Widgets
<1>2. OskKeys[w.chosen + 1] \in {"letter", "back", "next", "done"}
  BY <1>1, DialogConstants
<1>3. CASE OskKeys[w.chosen + 1] = "letter"
  BY <1>3, InsertLeads DEF Windows!activate_osk_key
<1>4. CASE OskKeys[w.chosen + 1] = "back"
  BY <1>4, BackspaceLeads DEF Windows!activate_osk_key
<1>5. CASE OskKeys[w.chosen + 1] = "next"
  <2>1. Windows!activate_osk_key(w) = [w EXCEPT !.field = (@ + 1) % Len(w.editors)]
    BY <1>5 DEF Windows!activate_osk_key
  <2> QED
    BY <2>1, NextFieldLeads
<1>6. CASE OskKeys[w.chosen + 1] = "done"
  <2>1. Windows!activate_osk_key(w) = Windows!complete(w, FALSE)
    BY <1>6 DEF Windows!activate_osk_key
  <2>2. Leads(w, Windows!complete(w, FALSE), o)
    BY CompleteLeads
  <2> QED
    BY <2>1, <2>2
<1> QED
  BY <1>2, <1>3, <1>4, <1>5, <1>6

\* To the right, as far as there is something.
LEMMA MoveLeads ==
  ASSUME NEW w, NEW o, WidgetRight(w, o), w.dialog # None
  PROVE  Leads(w, Windows!move(w), o) /\ Windows!move(w).dialog = w.dialog
<1> DEFINE last == CASE w.dialog.kind = "osk" -> Len(OskKeys) - 1
                     [] w.dialog.kind = "savedata" -> Items - 1
                     [] OTHER -> 0
           n == IF w.chosen < last THEN w.chosen + 1 ELSE w.chosen
<1>1. w \in Widgets /\ w.chosen \in Nat
  BY DEF WidgetRight, Widgets
<1>2. Windows!move(w) = [w EXCEPT !.chosen = n]
  BY <1>1 DEF Windows!move
<1>3. w.dialog.kind = "osk" => last = Len(OskKeys) - 1
  OBVIOUS
<1> HIDE DEF last
<1>4. n \in Nat
  BY <1>1
<1>5. w.dialog.kind = "osk" => n < Len(OskKeys)
  <2>1. w.dialog.kind = "osk" => w.chosen < Len(OskKeys)
    BY DEF WidgetRight, EditorFits
  <2>2. Len(OskKeys) \in Nat
    BY DialogConstants
  <2> QED
    BY <1>1, <1>3, <2>1, <2>2
<1> HIDE DEF n
<1>6. Leads(w, [w EXCEPT !.chosen = n], o)
  BY <1>4, <1>5, ChooseLeads
<1>7. [w EXCEPT !.chosen = n].dialog = w.dialog
  BY <1>1 DEF Widgets
<1> QED
  BY <1>2, <1>6, <1>7

\* Several buttons at once: move, choose, accept, cancel.
LEMMA ButtonsLead ==
  ASSUME NEW w, NEW o, WidgetRight(w, o), NEW pressed
  PROVE  Leads(w, Windows!handle_buttons(w, pressed), o)
<1>1. CASE w.dialog = None
  BY <1>1, LeadsNowhere DEF Windows!handle_buttons
<1>2. CASE w.dialog # None
  <2> DEFINE osk == w.dialog.kind = "osk"
             moved == IF "right" \in pressed THEN Windows!move(w) ELSE w
             done == CASE ~("confirm" \in pressed) -> moved
                       [] osk -> Windows!activate_osk_key(moved)
                       [] OTHER -> Windows!complete(moved, FALSE)
             became == CASE osk /\ "start" \in pressed -> Windows!complete(done, FALSE)
                         [] "cancel" \in pressed /\ (osk \/ "confirm" \notin pressed) -> Windows!complete(done, TRUE)
                         [] OTHER -> done
  <2>1. Windows!handle_buttons(w, pressed) = became
    BY <1>2 DEF Windows!handle_buttons
  <2>2. Leads(w, moved, o) /\ moved.dialog = w.dialog
    BY <1>2, MoveLeads, LeadsNowhere
  <2>3. w \in Widgets /\ WidgetRight(moved, o)
    BY <2>2 DEF Leads, WidgetRight
  <2> HIDE DEF moved
  <2>4. Leads(moved, done, o)
    <3>1. Leads(moved, moved, o) /\ Leads(moved, Windows!complete(moved, FALSE), o)
      BY <2>3, LeadsNowhere, CompleteLeads
    <3>2. osk => Leads(moved, Windows!activate_osk_key(moved), o)
      BY <1>2, <2>2, <2>3, KeyLeads
    <3> QED
      BY <3>1, <3>2
  <2> HIDE DEF done
  <2>5. Leads(w, done, o) /\ WidgetRight(done, o)
    BY <2>2, <2>3, <2>4, LeadsOn DEF Leads
  <2>6. Leads(done, Windows!complete(done, FALSE), o) /\ Leads(done, Windows!complete(done, TRUE), o)
    BY <2>5, CompleteLeads
  <2>7. Leads(w, Windows!complete(done, FALSE), o) /\ Leads(w, Windows!complete(done, TRUE), o)
    BY <2>3, <2>5, <2>6, LeadsOn
  <2>8. Leads(w, became, o)
    BY <2>5, <2>7
  <2> QED
    BY <2>1, <2>8
<1> QED
  BY <1>1, <1>2

\* A key of the desktop keyboard.
LEMMA DialogKeyLeads ==
  ASSUME NEW w, NEW o, WidgetRight(w, o), NEW b
  PROVE  Leads(w, IF b = "start" THEN Windows!complete(w, FALSE) ELSE Windows!handle_buttons(w, {b}), o)
<1>1. Leads(w, Windows!complete(w, FALSE), o) /\ Leads(w, Windows!handle_buttons(w, {b}), o)
  BY CompleteLeads, ButtonsLead
<1> QED
  BY <1>1

\* Clicks.
LEMMA ClickLeads ==
  ASSUME NEW w, NEW o, WidgetRight(w, o), w.dialog # None,
         NEW v \in CASE w.dialog.kind = "savedata" -> Windows!build_savedata(w)
                     [] w.dialog.kind = "osk"      -> Windows!build_osk(w)
                     [] OTHER                      -> Windows!build_generic(w)
  PROVE  Leads(w, v, o)
<1>1. Leads(w, Windows!complete(w, FALSE), o) /\ Leads(w, Windows!complete(w, TRUE), o)
  BY CompleteLeads
<1>2. CASE w.dialog.kind = "savedata"
  <2>1. v \in Windows!build_savedata(w)
    BY <1>2
  <2>2. CASE v \in {Windows!complete(w, FALSE), Windows!complete(w, TRUE)}
    BY <1>1, <2>2
  <2>3. CASE v \notin {Windows!complete(w, FALSE), Windows!complete(w, TRUE)}
    <3>1. PICK k \in 0..(Items - 1) : v = [w EXCEPT !.chosen = k]
      BY <2>1, <2>3 DEF Windows!build_savedata
    <3>2. k \in Nat
      BY DialogConstants
    <3> QED
      BY <1>2, <3>1, <3>2, ChooseLeads
  <2> QED
    BY <2>2, <2>3
<1>3. CASE w.dialog.kind = "osk"
  <2>1. v \in Windows!build_osk(w)
    BY <1>3
  <2>2. PICK k \in 0..(Len(OskKeys) - 1) : v = Windows!activate_osk_key([w EXCEPT !.chosen = k])
    BY <2>1 DEF Windows!build_osk
  <2> DEFINE x == [w EXCEPT !.chosen = k]
  <2>3. k \in Nat /\ k < Len(OskKeys)
    BY DialogConstants
  <2>4. Leads(w, x, o) /\ x.dialog = w.dialog
    BY <2>3, ChooseLeads DEF WidgetRight, Widgets
  <2> HIDE DEF x
  <2>5. WidgetRight(x, o) /\ w \in Widgets
    BY <2>4 DEF Leads, WidgetRight
  <2>6. Leads(x, Windows!activate_osk_key(x), o)
    BY <1>3, <2>4, <2>5, KeyLeads
  <2>7. v = Windows!activate_osk_key(x)
    BY <2>2 DEF x
  <2> QED
    BY <2>4, <2>5, <2>6, <2>7, LeadsOn
<1>4. CASE w.dialog.kind # "savedata" /\ w.dialog.kind # "osk"
  <2>1. v \in Windows!build_generic(w)
    BY <1>4
  <2> QED
    BY <1>1, <2>1 DEF Windows!build_generic
<1> QED
  BY <1>2, <1>3, <1>4

\* Nothing is typed in a new dialog.
LEMMA FreshFields ==
  ASSUME NEW w \in Widgets, NEW es \in Seq(Editor), NEW b \in BOOLEAN
  PROVE  [[[[w EXCEPT !.field = 0] EXCEPT !.typed = 0] EXCEPT !.dangling = b] EXCEPT !.editors = es] \in Widgets
<1> DEFINE x == [w EXCEPT !.field = 0]
<1>1. x \in Widgets
  BY DEF Widgets
<1> HIDE DEF x
<1> DEFINE p == 0
           y == [x EXCEPT !.typed = p]
<1>2. y \in Widgets
  <2>1. p \in Int
    OBVIOUS
  <2> HIDE DEF p
  <2> QED
    BY <1>1, <2>1 DEF Widgets
<1> HIDE DEF y
<1>3. [[y EXCEPT !.dangling = b] EXCEPT !.editors = es] \in Widgets
  BY <1>2 DEF Widgets
<1> QED
  BY <1>3 DEF y, x, p

\* A new dialog: the one before it is cancelled.
LEMMA PresentLeads ==
  ASSUME NEW w, NEW o, WidgetRight(w, o), NEW m \in DialogModel, m.id \notin GivenIds(w.given),
         w.dialog # None => m.id # w.dialog.id, m.id = o => m.kind = "osk"
  PROVE  LET v == Windows!present(w, m)
         IN  /\ WidgetRight(v, o) /\ Extends(w, v) /\ v.dialog = m
             /\ Len(v.editors) = Len(w.editors) \/ Len(v.editors) = Len(w.editors) + 1
             /\ m.kind # "osk" => Len(v.editors) = Len(w.editors)
<1> DEFINE c == Windows!complete(w, TRUE)
           es == IF m.kind = "osk" THEN Append(c.editors, [id |-> m.id, text |-> 0]) ELSE c.editors
           b == c.dangling \/ (m.kind = "osk" /\ w.editors # <<>>)
           v == [c EXCEPT !.dialog = m, !.chosen = m.first, !.field = 0, !.typed = 0, !.dangling = b, !.editors = es]
<1>1. Leads(w, c, o) /\ c.dialog = None
  BY CompleteLeads
<1> HIDE DEF c
<1>2. /\ c \in Widgets /\ c.editors \in Seq(Editor) /\ c.given \in Seq(Given) /\ Len(c.editors) = Len(w.editors)
      /\ Len(c.editors) \in Nat
  BY <1>1 DEF Leads, WidgetRight, Widgets
<1>3. m.id \in Nat /\ m.kind \in Utilities /\ m.first \in Nat /\ (m.kind = "osk" => m.first = 0)
  BY DEF DialogModel
<1>4. /\ es \in Seq(Editor) /\ Len(es) \in Nat
      /\ m.kind = "osk" => Len(es) = Len(c.editors) + 1 /\ es[Len(es)].text = 0
      /\ m.kind # "osk" => es = c.editors
  <2> DEFINE e == [id |-> m.id, text |-> 0]
  <2>1. e \in Editor /\ e.text = 0
    BY <1>3 DEF Editor
  <2> HIDE DEF e
  <2>2. /\ Append(c.editors, e) \in Seq(Editor) /\ Len(Append(c.editors, e)) = Len(c.editors) + 1
        /\ Append(c.editors, e)[Len(c.editors) + 1] = e
    BY <1>2, <2>1
  <2>3. m.kind = "osk" => es = Append(c.editors, e)
    BY DEF e
  <2>4. m.kind # "osk" => es = c.editors
    OBVIOUS
  <2> HIDE DEF es
  <2>5. CASE m.kind = "osk"
    <3> DEFINE l == Len(c.editors) + 1
    <3>3. es = Append(c.editors, e)
      BY <2>3, <2>5
    <3>4. es \in Seq(Editor) /\ Len(es) = l /\ es[l] = e
      BY <2>2, <3>3
    <3>1. es \in Seq(Editor) /\ Len(es) = l /\ es[l] = e /\ l \in Nat
      BY <1>2, <3>4
    <3> HIDE DEF l
    <3>2. es[Len(es)].text = 0
      BY <2>1, <3>1
    <3> QED
      BY <2>5, <3>1, <3>2 DEF l
  <2>6. CASE m.kind # "osk"
    BY <1>2, <2>4, <2>6
  <2> QED
    BY <2>5, <2>6
<1>5. Windows!present(w, m) = v
  BY <1>2 DEF Windows!present, c, Widgets
<1>12. /\ b \in BOOLEAN /\ Len(w.editors) \in Nat
       /\ ~b => (Len(c.editors) <= 1 /\ (m.kind = "osk" => Len(w.editors) = 0))
  <2>1. ~b => ~c.dangling /\ (m.kind = "osk" => w.editors = <<>>)
    OBVIOUS
  <2>2. ~c.dangling => Len(c.editors) <= 1
    BY <1>1 DEF Leads, WidgetRight, EditorsFit
  <2>3. w.editors \in Seq(Editor)
    BY DEF WidgetRight, Widgets
  <2>4. Len(w.editors) \in Nat /\ (w.editors = <<>> => Len(w.editors) = 0)
    BY <2>3
  <2>5. b \in BOOLEAN
    BY <1>2 DEF Widgets
  <2> QED
    BY <2>1, <2>2, <2>4, <2>5
<1> HIDE DEF es, b
<1>6. /\ v \in Widgets /\ v.dialog = m /\ v.answer = c.answer /\ v.given = c.given /\ v.editors = es
      /\ v.typed = 0 /\ v.field = 0 /\ v.chosen = m.first /\ v.dangling = b
  <2>1. c \in Widgets /\ m \in DialogModel \cup {None} /\ m.first \in Nat /\ es \in Seq(Editor) /\ b \in BOOLEAN
    BY <1>2, <1>3, <1>4, <1>12
  <2> HIDE DEF es, c
  <2>2. /\ v.dialog = m /\ v.answer = c.answer /\ v.given = c.given /\ v.editors = es
        /\ v.typed = 0 /\ v.field = 0 /\ v.chosen = m.first /\ v.dangling = b
    BY <2>1 DEF Widgets
  <2>3. v \in Widgets
    <3> DEFINE x == [[c EXCEPT !.dialog = m] EXCEPT !.chosen = m.first]
    <3>1. x \in Widgets
      BY <2>1 DEF Widgets
    <3> HIDE DEF x
    <3>2. [[[[x EXCEPT !.field = 0] EXCEPT !.typed = 0] EXCEPT !.dangling = b] EXCEPT !.editors = es] \in Widgets
      BY <2>1, <3>1, FreshFields
    <3> QED
      BY <3>2 DEF x
  <2> QED
    BY <2>2, <2>3
<1> HIDE DEF v
<1>7. m.id \notin GivenIds(v.given)
  <2> SUFFICES ASSUME NEW k \in DOMAIN c.given, c.given[k].id = m.id PROVE FALSE
    BY <1>6 DEF GivenIds
  <2>1. CASE k \in DOMAIN w.given
    BY <1>1, <2>1 DEF Leads, Extends, GivenIds
  <2>2. CASE k \notin DOMAIN w.given
    BY <1>1, <2>2 DEF Leads, Extends
  <2> QED
    BY <2>1, <2>2
<1>8. v.answer # None => Recorded(v.answer, v.given, v.editors, o)
  <2> SUFFICES ASSUME c.answer # None PROVE Recorded(c.answer, c.given, es, o)
    BY <1>6
  <2>1. Recorded(c.answer, c.given, c.editors, o)
    BY <1>1 DEF Leads, WidgetRight
  <2>2. m.kind # "osk" => es = c.editors
    BY <1>4
  <2>3. m.kind = "osk" => (Len(c.editors) > 0 => Len(es) > 1)
    BY <1>2, <1>4
  <2>4. m.kind = "osk" => (Len(es) = 1 => ~(Len(c.editors) > 0)) /\ (Len(c.editors) > 0 => Len(es) > 0)
    BY <1>2, <1>4, <2>3
  <2> QED
    BY <2>1, <2>2, <2>4 DEF Recorded
<1>9. EditorFits(v)
  <2>1. m.kind = "osk" => Len(es) > 0 /\ (Len(es) = 1 => es[1].text = 0)
    BY <1>2, <1>4
  <2> QED
    BY <1>3, <1>6, <2>1, DialogConstants DEF EditorFits
<1>13. EditorsFit(v)
  <2>1. ~b => Len(es) <= 1
    BY <1>2, <1>4, <1>12
  <2>2. Len(es) > 0 => 0 < Len(es)
    BY <1>4
  <2> QED
    BY <1>6, <2>1, <2>2 DEF EditorsFit
<1>10. WidgetRight(v, o)
  BY <1>6, <1>7, <1>8, <1>9, <1>13 DEF WidgetRight
<1>11. Extends(w, v)
  BY <1>1, <1>6 DEF Leads, Extends
<1> QED
  BY <1>2, <1>4, <1>5, <1>6, <1>10, <1>11

-----------------------------------------------------------------------------
(* Dialogs: guest and window *)

OnMacos == part = "macos"
Messages ==
    [kind : {"present"}] \cup [kind : {"present"}, model : DialogModel] \cup [kind : {"dismiss"}, id : Nat \cup {None}]

DialogTypes ==
    /\ active \in Utilities \cup {None} /\ status \in [Utilities -> 0..4] /\ silent \in BOOLEAN
    /\ dialogId \in [Utilities -> (1..MaxDialogs) \cup {None}] /\ nextId \in 1..(MaxDialogs + 1)
    /\ told = [u \in Utilities |-> told[u]] /\ posted \in Seq(Messages)

InUse(id) == \E u \in Utilities : status[u] \in {1, 2} /\ dialogId[u] = id
Dismissed(id, n) == \E k \in DOMAIN posted : k > n /\ posted[k].kind = "dismiss" /\ posted[k].id = id

\* A dialog that has not been shown yet.
ToCome(m) ==
    /\ m \in DialogModel /\ m.id < nextId /\ m.id \notin GivenIds(given)
    /\ dialog # None => m.id # dialog.id
    /\ m.id = dialogId["osk"] => m.kind = "osk"
    /\ silent => m.id # dialogId["savedata"]

\* The models on their way: on Windows one, on macOS one in each message.
ModelsToCome ==
    /\ ~OnMacos /\ waiting # None => ToCome(waiting) /\ (~stray => InUse(waiting.id))
    /\ OnMacos => \A k \in DOMAIN posted : posted[k].kind = "present" =>
         /\ ToCome(posted[k].model)
         /\ ~stray => InUse(posted[k].model.id) \/ Dismissed(posted[k].model.id, k)
         /\ \A j \in DOMAIN posted : posted[j].kind = "present" /\ posted[j].model.id = posted[k].model.id => j = k

\* One utility is in use, and what is shown belongs to it or is dismissed.
ShownInUse ==
    ~stray =>
      /\ \A u \in Utilities : status[u] # 0 <=> active = u
      /\ dialog # None => InUse(dialog.id) \/ Dismissed(dialog.id, 0)

\* Every dialog has its own number.
DialogIds ==
    /\ \A u \in Utilities : dialogId[u] # None => dialogId[u] < nextId
    /\ dialog # None => dialog.id < nextId /\ (silent => dialog.id # dialogId["savedata"])
    /\ \A k \in DOMAIN given : given[k].id < nextId

\* What a utility was told is what the user answered.
ToldRight ==
    \A u \in Utilities :
      told[u].from # None =>
        \E k \in DOMAIN given :
          /\ given[k].id = told[u].from /\ told[u].item = given[k].item
          /\ told[u].result = IF given[k].cancelled THEN "cancelled" ELSE "ok"
          /\ u = "osk" => Len(editors) > 0 /\ (Len(editors) = 1 => told[u].text = given[k].text)

ShownRight == WidgetRight(Windows!Shown, dialogId["osk"])

\* What is down since before the dialog answers nothing.
InputsRight ==
    /\ pad \subseteq Windows!Buttons /\ keys \subseteq Windows!Buttons /\ previous \subseteq Windows!Buttons
    /\ armed \in BOOLEAN /\ inputs \in 0..MaxInputs
    /\ \A b : (<<"pad", b>> \in held => b \in pad) /\ (<<"key", b>> \in held => b \in keys)
    /\ armed => \A b : <<"pad", b>> \notin held
    /\ surprised \subseteq IF OnMacos THEN {"key"} ELSE {}
    /\ keyboard \subseteq keys /\ (dialog # None => keyboard = {})

OnDialogs == part \in {"windows", "macos"}
GuestSide == DialogTypes /\ ModelsToCome /\ ShownInUse /\ DialogIds /\ ToldRight
DialogInv == OnDialogs => GuestSide /\ ShownRight /\ InputsRight /\ stray \in BOOLEAN

-----------------------------------------------------------------------------
(* The steps of both platforms *)

Presents(m) ==
    IF OnMacos THEN posted' = Append(posted, [kind |-> "present", model |-> m]) /\ waiting' = waiting
               ELSE posted' = Append(posted, [kind |-> "present"]) /\ waiting' = m
Dismisses(id) ==
    /\ posted' = Append(posted, [kind |-> "dismiss", id |-> id])
    /\ waiting' = IF ~OnMacos /\ waiting # None /\ waiting.id = id THEN None ELSE waiting

Starts(u, quiet, first) ==
    /\ u \in Utilities /\ quiet \in BOOLEAN /\ first \in Nat /\ (u = "osk" => first = 0) /\ (quiet => u = "savedata")
    /\ active = None /\ nextId <= MaxDialogs /\ active' = u
    /\ dialogId' = [dialogId EXCEPT ![u] = nextId] /\ nextId' = nextId + 1
    /\ status' = [status EXCEPT ![u] = 1] /\ (silent' <=> quiet) /\ silent' \in BOOLEAN
    /\ told' = [told EXCEPT ![u] = Windows!Untold]
    /\ IF quiet THEN UNCHANGED <<waiting, posted>>
                ELSE Presents([id |-> nextId, kind |-> u, first |-> first])
    /\ stray' = stray
Ends(u, s) ==
    /\ u \in Utilities /\ s \in 3..4 /\ Dismisses(dialogId[u])
    /\ status' = [status EXCEPT ![u] = s]
    /\ (stray' <=> (stray \/ status[u] = 0)) /\ stray' \in BOOLEAN
    /\ UNCHANGED <<active, dialogId, silent, nextId>>
    /\ told' = told \/ told' = [told EXCEPT ![u] = [Windows!Untold EXCEPT !.result = "cancelled"]]
TurnsTo(u) ==
    /\ u \in Utilities /\ status[u] # 0
    /\ status' = [status EXCEPT ![u] = CASE @ = 1 -> 2 [] @ = 4 -> 0 [] OTHER -> @]
    /\ active' = IF status[u] = 4 THEN None ELSE active
    /\ UNCHANGED <<dialogId, silent, nextId, told, waiting, posted, stray>>
Tells(u, what) ==
    /\ u \in Utilities /\ status[u] = 2 /\ status' = [status EXCEPT ![u] = 3]
    /\ told' = [told EXCEPT ![u] = what]
    /\ UNCHANGED <<active, dialogId, silent, nextId, waiting, posted, stray>>

\* What is shown changes, or nothing of it.
ShowsSame == UNCHANGED <<dialog, answer, editors, dangling, chosen, field, given, typed>>
InputsSame == UNCHANGED <<pad, keys, previous, armed, keyboard, inputs, held, surprised>>

\* What a call posts to show a dialog, on each platform.
LEMMA SamePresent == \A m :
  /\ Windows!present_dialog(m) /\ part = "windows" => Presents(m)
  /\ Macos!present_dialog(m) /\ part = "macos" => Presents(m)
  BY DEF Windows!present_dialog, Macos!present_dialog, Windows!windows_present_dialog, Windows!macos_present_dialog,
     Macos!windows_present_dialog, Macos!macos_present_dialog, Windows!Windows, Macos!Windows, Windows!Post, Macos!Post,
     Presents, OnMacos

\* What a call posts to dismiss one.
LEMMA SameDismiss == \A id :
  /\ Windows!dismiss_dialog(id) /\ part = "windows" => Dismisses(id)
  /\ Macos!dismiss_dialog(id) /\ part = "macos" => Dismisses(id)
  BY DEF Windows!dismiss_dialog, Macos!dismiss_dialog, Windows!windows_dismiss_dialog, Windows!macos_dismiss_dialog,
     Macos!windows_dismiss_dialog, Macos!macos_dismiss_dialog, Windows!Windows, Macos!Windows, Windows!Post, Macos!Post,
     Dismisses, OnMacos

\* The calls that start a utility.
LEMMA SameStart ==
  ASSUME NEW u \in Utilities, NEW q \in BOOLEAN, NEW f \in Nat, u = "osk" => f = 0, q => u = "savedata",
         \/ part = "windows" /\ Windows!InitStart(u, q, f)
         \/ part = "macos" /\ Macos!InitStart(u, q, f)
  PROVE  Starts(u, q, f) /\ ShowsSame /\ InputsSame
<1>1. CASE part = "windows" /\ Windows!InitStart(u, q, f)
  BY <1>1, SamePresent DEF Windows!InitStart, Starts, ShowsSame, InputsSame, Windows!widget, Windows!input
<1>2. CASE part = "macos" /\ Macos!InitStart(u, q, f)
  BY <1>2, SamePresent DEF Macos!InitStart, Starts, ShowsSame, InputsSame, Macos!widget, Macos!input, Macos!Untold,
     Windows!Untold
<1> QED
  BY <1>1, <1>2

\* The calls that shut one down, whatever its status.
LEMMA SameShutdown ==
  ASSUME NEW u \in Utilities, stray \in BOOLEAN,
         \/ part = "windows" /\ Windows!ShutdownStart(u)
         \/ part = "macos" /\ Macos!ShutdownStart(u)
  PROVE  Ends(u, 4) /\ ShowsSame /\ InputsSame
<1>1. stray' = (stray \/ status[u] = 0)
  BY Zenon DEF Windows!ShutdownStart, Macos!ShutdownStart
<1>2. (stray' <=> (stray \/ status[u] = 0)) /\ stray' \in BOOLEAN
  <2>1. (stray \/ status[u] = 0) \in BOOLEAN
    OBVIOUS
  <2> QED
    BY <1>1, <2>1, Zenon
<1>3. CASE part = "windows" /\ Windows!ShutdownStart(u)
  <2>1. /\ Windows!dismiss_dialog(dialogId[u]) /\ status' = [status EXCEPT ![u] = 4]
        /\ UNCHANGED <<active, dialogId, silent, nextId, told>> /\ UNCHANGED Windows!widget /\ UNCHANGED Windows!input
    BY <1>3, Zenon DEF Windows!ShutdownStart
  <2> QED
    BY <1>2, <1>3, <2>1, SameDismiss DEF Ends, ShowsSame, InputsSame, Windows!widget, Windows!input
<1>4. CASE part = "macos" /\ Macos!ShutdownStart(u)
  <2>1. /\ Macos!dismiss_dialog(dialogId[u]) /\ status' = [status EXCEPT ![u] = 4]
        /\ UNCHANGED <<active, dialogId, silent, nextId, told>> /\ UNCHANGED Macos!widget /\ UNCHANGED Macos!input
    BY <1>4, Zenon DEF Macos!ShutdownStart
  <2> QED
    BY <1>2, <1>4, <2>1, SameDismiss DEF Ends, ShowsSame, InputsSame, Macos!widget, Macos!input
<1> QED
  BY <1>3, <1>4

\* The call that aborts a message.
LEMMA SameAbort ==
  ASSUME stray \in BOOLEAN,
         \/ part = "windows" /\ Windows!sceUtilityMsgDialogAbort
         \/ part = "macos" /\ Macos!sceUtilityMsgDialogAbort
  PROVE  Ends("message", 3) /\ ShowsSame /\ InputsSame
<1>1. CASE part = "windows" /\ Windows!sceUtilityMsgDialogAbort
  BY <1>1, SameDismiss DEF Windows!sceUtilityMsgDialogAbort, Ends, ShowsSame, InputsSame, Windows!widget, Windows!input,
     Utilities
<1>2. CASE part = "macos" /\ Macos!sceUtilityMsgDialogAbort
  BY <1>2, SameDismiss DEF Macos!sceUtilityMsgDialogAbort, Ends, ShowsSame, InputsSame, Macos!widget, Macos!input,
     Utilities, Macos!Untold, Windows!Untold
<1> QED
  BY <1>1, <1>2

\* None is no utility and no number.
LEMMA NoneIsNothing == None \notin Utilities /\ None \notin Nat
<1>1. Windows!DialogsAssumption
  BY DesktopAssumption DEF DesktopAssumption
<1> QED
  BY <1>1 DEF Windows!DialogsAssumption, Windows!Utilities, Utilities

\* The bounds are numbers.
LEMMA DialogBounds == MaxDialogs \in Nat /\ MaxInputs \in Nat
<1>1. Windows!DialogsAssumption
  BY DesktopAssumption DEF DesktopAssumption
<1> QED
  BY <1>1 DEF Windows!DialogsAssumption

\* A message more does not change what those before it dismiss.
LEMMA DismissedStill ==
  ASSUME posted \in Seq(Messages), NEW m, posted' = Append(posted, m), NEW id, NEW n, Dismissed(id, n)
  PROVE  Dismissed(id, n)'
<1>1. PICK k \in DOMAIN posted : k > n /\ posted[k].kind = "dismiss" /\ posted[k].id = id
  BY DEF Dismissed
<1>2. k \in DOMAIN posted' /\ posted'[k] = posted[k]
  OBVIOUS
<1> QED
  BY <1>1, <1>2 DEF Dismissed

\* What was to come is still to come.
LEMMA ToComeStill ==
  ASSUME NEW m, ToCome(m), dialogId["osk"]' = dialogId["osk"] \/ m.id # dialogId'["osk"],
         nextId \in Int, nextId' \in Int, nextId <= nextId', GivenIds(given)' = GivenIds(given), dialog' = dialog,
         silent' => m.id # dialogId'["savedata"]
  PROVE  ToCome(m)'
<1>1. m.id \in Nat /\ m.id < nextId
  BY DEF ToCome, DialogModel
<1> QED
  BY <1>1 DEF ToCome

\* A utility starts.
LEMMA StartKeeps ==
  ASSUME GuestSide, ShownRight, stray \in BOOLEAN, NEW u, NEW q, NEW f, Starts(u, q, f), ShowsSame, part' = part
  PROVE  GuestSide' /\ ShownRight' /\ stray' \in BOOLEAN
<1> DEFINE o == dialogId["osk"]
<1> USE DEF GuestSide
<1>1. /\ u \in Utilities /\ nextId \in Nat /\ nextId' = nextId + 1 /\ dialogId'[u] = nextId
      /\ \A v \in Utilities : v # u => dialogId'[v] = dialogId[v] /\ status'[v] = status[v] /\ told'[v] = told[v]
      /\ status'[u] = 1 /\ told'[u] = Windows!Untold
  BY DEF Starts, DialogTypes
<1>2. ~stray => \A v \in Utilities : status[v] = 0
  BY NoneIsNothing DEF ShownInUse, Starts
<1>3. \A id : ~stray => ~InUse(id)
  BY <1>2 DEF InUse
<1>0. PICK model : model = [id |-> nextId, kind |-> u, first |-> f]
  OBVIOUS
<1>4. model \in DialogModel /\ model.id = nextId /\ model.kind = u
  <2>1. f \in Nat /\ (u = "osk" => f = 0)
    BY DEF Starts
  <2> QED
    BY <1>0, <1>1, <2>1 DEF DialogModel
<1>5. DialogTypes'
  <2>1. /\ active' \in Utilities \cup {None} /\ status' \in [Utilities -> 0..4] /\ silent' \in BOOLEAN
        /\ dialogId' \in [Utilities -> (1..MaxDialogs) \cup {None}] /\ nextId' \in 1..(MaxDialogs + 1)
    <3>1. MaxDialogs \in Nat
      BY DialogBounds
    <3>2. nextId' \in 1..(MaxDialogs + 1) /\ nextId \in 1..MaxDialogs
      BY <1>1, <3>1 DEF Starts, DialogTypes
    <3>3. dialogId' \in [Utilities -> (1..MaxDialogs) \cup {None}]
      BY <1>1, <3>2 DEF Starts, DialogTypes
    <3>4. status' \in [Utilities -> 0..4]
      BY <1>1 DEF Starts, DialogTypes
    <3>5. active' \in Utilities \cup {None} /\ silent' \in BOOLEAN
      BY <1>1 DEF Starts
    <3> QED
      BY <3>2, <3>3, <3>4, <3>5
  <2>2. told' = [v \in Utilities |-> told'[v]]
    BY DEF DialogTypes, Starts
  <2>3. posted' \in Seq(Messages)
    <3>1. posted \in Seq(Messages)
      BY DEF DialogTypes
    <3>2. CASE UNCHANGED posted
      BY <3>1, <3>2
    <3>3. CASE ~UNCHANGED posted
      <4>1. Presents(model)
        BY <1>0, <3>3 DEF Starts
      <4> DEFINE a == [kind |-> "present"]
                 b == [kind |-> "present", model |-> model]
      <4>2. a \in Messages /\ b \in Messages
        BY <1>4 DEF Messages
      <4>3. posted' = Append(posted, a) \/ posted' = Append(posted, b)
        BY <4>1 DEF Presents
      <4> HIDE DEF a, b
      <4> QED
        BY <3>1, <4>2, <4>3
    <3> QED
      BY <3>2, <3>3
  <2> QED
    BY <2>1, <2>2, <2>3 DEF DialogTypes
<1>6. \A m : ToCome(m) => ToCome(m)'
  <2> SUFFICES ASSUME NEW m, ToCome(m) PROVE ToCome(m)'
    OBVIOUS
  <2>1. m.id \in Nat /\ m.id < nextId
    BY DEF ToCome, DialogModel
  <2>2. silent' => u = "savedata"
    BY DEF Starts
  <2> QED
    BY <1>1, <2>1, <2>2, ToComeStill DEF ShowsSame, GivenIds, Utilities
<1>7. ~q => ToCome(model)' /\ InUse(model.id)'
  <2> SUFFICES ASSUME ~q PROVE ToCome(model)' /\ InUse(model.id)'
    OBVIOUS
  <2>1. ~silent'
    BY DEF Starts
  <2>2. model.id < nextId' /\ model.id \notin GivenIds(given) /\ (dialog # None => model.id # dialog.id)
    BY <1>1, <1>4 DEF DialogIds, GivenIds
  <2>3. model.id = dialogId'["osk"] => model.kind = "osk"
    <3> SUFFICES ASSUME u # "osk" PROVE dialogId["osk"] # nextId
      BY <1>1, <1>4 DEF Utilities
    <3> QED
      BY <1>1, NoneIsNothing DEF DialogIds, Utilities
  <2> QED
    BY <1>1, <1>4, <2>1, <2>2, <2>3 DEF ToCome, InUse, ShowsSame, GivenIds
<1>8. stray' = stray
  BY DEF Starts
<1>9. ModelsToCome'
  <2>1. CASE UNCHANGED <<waiting, posted>>
    <3>1. ~OnMacos' /\ waiting' # None => ToCome(waiting)' /\ (~stray' => InUse(waiting.id)')
      BY <1>3, <1>6, <1>8, <2>1 DEF ModelsToCome, OnMacos
    <3>2. ASSUME NEW k \in DOMAIN posted', OnMacos', posted'[k].kind = "present"
          PROVE  /\ ToCome(posted[k].model)'
                 /\ ~stray' => Dismissed(posted[k].model.id, k)'
                 /\ \A j \in DOMAIN posted' : posted'[j].kind = "present" /\ posted'[j].model.id = posted'[k].model.id => j = k
      BY <1>3, <1>6, <1>8, <2>1, <3>2 DEF ModelsToCome, OnMacos, Dismissed
    <3> QED
      BY <3>1, <3>2 DEF ModelsToCome
  <2>2. CASE Presents(model) /\ ~q
    <3>1. ~OnMacos' /\ waiting' # None => ToCome(waiting)' /\ (~stray' => InUse(waiting.id)')
      BY <1>7, <2>2 DEF Presents, OnMacos
    <3>2. ASSUME NEW k \in DOMAIN posted', OnMacos', posted'[k].kind = "present"
          PROVE  /\ ToCome(posted[k].model)'
                 /\ ~stray' => InUse(posted[k].model.id)' \/ Dismissed(posted[k].model.id, k)'
                 /\ \A j \in DOMAIN posted' : posted'[j].kind = "present" /\ posted'[j].model.id = posted'[k].model.id => j = k
      <4> DEFINE b == [kind |-> "present", model |-> model]
      <4>1. posted \in Seq(Messages) /\ posted' = Append(posted, b) /\ b.kind = "present" /\ b.model = model
        BY <2>2, <3>2 DEF Presents, OnMacos, DialogTypes
      <4> HIDE DEF b
      <4>2. /\ \A j \in DOMAIN posted' : (j \in DOMAIN posted /\ posted'[j] = posted[j]) \/ (j = Len(posted) + 1 /\ posted'[j] = b)
            /\ Len(posted) + 1 \notin DOMAIN posted
        BY <4>1
      <4>3. \A j \in DOMAIN posted : posted[j].kind = "present" =>
              /\ ToCome(posted[j].model) /\ posted[j].model.id \in Nat /\ posted[j].model.id < nextId
              /\ ~stray => Dismissed(posted[j].model.id, j)
              /\ \A i \in DOMAIN posted : posted[i].kind = "present" /\ posted[i].model.id = posted[j].model.id => i = j
        BY <1>3, <3>2 DEF ModelsToCome, OnMacos, ToCome, DialogModel
      <4>4. CASE k \in DOMAIN posted /\ posted'[k] = posted[k]
        <5>1. ToCome(posted[k].model)'
          BY <1>6, <3>2, <4>3, <4>4
        <5>2. ~stray' => Dismissed(posted[k].model.id, k)'
          BY <1>8, <3>2, <4>1, <4>3, <4>4, DismissedStill
        <5>3. ASSUME NEW j \in DOMAIN posted', posted'[j].kind = "present", posted'[j].model.id = posted'[k].model.id
              PROVE  j = k
          BY <1>4, <3>2, <4>1, <4>2, <4>3, <4>4, <5>3
        <5> QED
          BY <3>2, <4>4, <5>1, <5>2, <5>3
      <4>5. CASE k = Len(posted) + 1 /\ posted'[k] = b
        <5>1. ToCome(posted[k].model)' /\ InUse(posted[k].model.id)'
          BY <1>7, <2>2, <4>1, <4>5
        <5>2. ASSUME NEW j \in DOMAIN posted', posted'[j].kind = "present", posted'[j].model.id = posted'[k].model.id
              PROVE  j = k
          BY <1>4, <3>2, <4>1, <4>2, <4>3, <4>5, <5>2
        <5> QED
          BY <5>1, <5>2
      <4> QED
        BY <4>2, <4>4, <4>5
    <3> QED
      BY <3>1, <3>2 DEF ModelsToCome
  <2> QED
    BY <1>0, <2>1, <2>2 DEF Starts
<1>10. ShownInUse'
  <2> SUFFICES ASSUME ~stray PROVE /\ \A v \in Utilities : status'[v] # 0 <=> active' = v
                                   /\ dialog # None => Dismissed(dialog.id, 0)'
    BY <1>8 DEF ShownInUse, ShowsSame
  <2>1. \A v \in Utilities : status'[v] # 0 <=> active' = v
    BY <1>1, <1>2 DEF Starts
  <2>2. dialog # None => Dismissed(dialog.id, 0)
    BY <1>3 DEF ShownInUse
  <2>3. posted \in Seq(Messages) /\ (posted' = posted \/ \E m : posted' = Append(posted, m))
    BY DEF Starts, Presents, DialogTypes
  <2>4. \A id : Dismissed(id, 0) => Dismissed(id, 0)'
    BY <2>3, DismissedStill DEF Dismissed
  <2> QED
    BY <2>1, <2>2, <2>4 DEF ShowsSame
<1>11. DialogIds'
  <2>1. \A v \in Utilities : dialogId'[v] # None => dialogId'[v] < nextId'
    BY <1>1, NoneIsNothing DEF DialogIds, DialogTypes
  <2>2. dialog # None => dialog.id \in Nat /\ dialog.id < nextId
    BY DEF DialogIds, ShownRight, WidgetRight, Widgets, Windows!Shown, DialogModel
  <2>3. silent' => dialogId'["savedata"] = nextId
    BY <1>1 DEF Starts
  <2>4. \A k \in DOMAIN given : given[k].id < nextId /\ given[k].id \in Nat
    <3>1. given \in Seq(Given)
      BY DEF ShownRight, WidgetRight, Widgets, Windows!Shown
    <3>2. \A k \in DOMAIN given : given[k] \in Given
      BY <3>1
    <3> QED
      BY <3>2 DEF DialogIds, Given
  <2> QED
    BY <1>1, <2>1, <2>2, <2>3, <2>4 DEF DialogIds, ShowsSame
<1>12. ToldRight'
  BY <1>1 DEF ToldRight, ShowsSame, Windows!Untold
<1>13. ShownRight'
  <2>1. Windows!Shown' = Windows!Shown
    BY DEF ShowsSame, Windows!Shown
  <2>2. CASE u # "osk"
    <3>1. dialogId'["osk"] = dialogId["osk"]
      BY <1>1, <2>2 DEF Utilities
    <3> QED
      BY <2>1, <3>1 DEF ShownRight
  <2>3. CASE u = "osk"
    <3>1. Windows!Shown.dialog # None => Windows!Shown.dialog.id # nextId
      BY <1>1 DEF DialogIds, Windows!Shown
    <3>2. \A k \in DOMAIN Windows!Shown.given : Windows!Shown.given[k].id # nextId
      BY <1>1 DEF DialogIds, Windows!Shown
    <3>3. WidgetRight(Windows!Shown, nextId)
      <4> DEFINE w == Windows!Shown
      <4>1. WidgetRight(w, o)
        BY DEF ShownRight
      <4> HIDE DEF w
      <4> QED
        BY <3>1, <3>2, <4>1 DEF WidgetRight, Recorded, w
    <3> QED
      BY <1>1, <2>1, <2>3, <3>3 DEF ShownRight
  <2> QED
    BY <2>2, <2>3
<1> QED
  BY <1>5, <1>8, <1>9, <1>10, <1>11, <1>12, <1>13

\* A dialog is dismissed, by the end of its utility.
LEMMA EndKeeps ==
  ASSUME GuestSide, ShownRight, stray \in BOOLEAN, NEW u, NEW s, Ends(u, s), ShowsSame, part' = part
  PROVE  GuestSide' /\ ShownRight' /\ stray' \in BOOLEAN
<1> USE DEF GuestSide
<1>0. PICK m : m = [kind |-> "dismiss", id |-> dialogId[u]]
  OBVIOUS
<1>1. /\ u \in Utilities /\ status'[u] = s /\ s # 0 /\ \A v \in Utilities : v # u => status'[v] = status[v]
      /\ posted \in Seq(Messages) /\ posted' = Append(posted, m) /\ m.kind = "dismiss" /\ m.id = dialogId[u]
      /\ dialogId' = dialogId /\ nextId' = nextId /\ nextId \in Nat
  <2>1. posted \in Seq(Messages) /\ posted' = Append(posted, m) /\ m.kind = "dismiss" /\ m.id = dialogId[u]
    BY <1>0 DEF Ends, Dismisses, DialogTypes
  <2> QED
    BY <2>1 DEF Ends, DialogTypes
<1>2. m \in Messages
  <2>1. dialogId[u] \in Nat \cup {None}
    BY <1>1, DialogBounds DEF DialogTypes
  <2> QED
    BY <1>0, <2>1 DEF Messages
<1>3. DialogTypes'
  <2>1. /\ active' \in Utilities \cup {None} /\ silent' \in BOOLEAN /\ nextId' \in 1..(MaxDialogs + 1)
        /\ dialogId' \in [Utilities -> (1..MaxDialogs) \cup {None}]
    BY DEF Ends, DialogTypes
  <2>2. status' \in [Utilities -> 0..4]
    BY DEF Ends, DialogTypes
  <2>3. told' = [v \in Utilities |-> told'[v]]
    BY DEF Ends, DialogTypes
  <2>4. posted' \in Seq(Messages)
    BY <1>1, <1>2
  <2> QED
    BY <2>1, <2>2, <2>3, <2>4 DEF DialogTypes
<1>4. \A x : ToCome(x) => ToCome(x)'
  BY <1>1 DEF Ends, ShowsSame, ToCome, GivenIds
<1>5. /\ ~stray' => ~stray /\ status[u] # 0
      /\ \A id : InUse(id) => InUse(id)' \/ id = dialogId[u]
      /\ \A id, n : Dismissed(id, n) => Dismissed(id, n)'
      /\ \A n \in DOMAIN posted \cup {0} : Dismissed(dialogId[u], n)'
  <2>1. ~stray' => ~stray /\ status[u] # 0
    BY DEF Ends
  <2>2. \A id : InUse(id) => InUse(id)' \/ id = dialogId[u]
    BY <1>1 DEF InUse
  <2>3. \A id, n : Dismissed(id, n) => Dismissed(id, n)'
    BY <1>1, DismissedStill
  <2>4. \A n \in DOMAIN posted \cup {0} : Dismissed(dialogId[u], n)'
    <3>1. /\ Len(posted) + 1 \in DOMAIN posted' /\ posted'[Len(posted) + 1] = m
          /\ \A n \in DOMAIN posted \cup {0} : Len(posted) + 1 > n
      BY <1>1
    <3> QED
      BY <1>1, <3>1 DEF Dismissed
  <2> QED
    BY <2>1, <2>2, <2>3, <2>4
<1>6. ModelsToCome'
  <2>1. ~OnMacos' /\ waiting' # None => ToCome(waiting)' /\ (~stray' => InUse(waiting.id)')
    <3> SUFFICES ASSUME ~OnMacos', waiting' # None PROVE ToCome(waiting)' /\ (~stray' => InUse(waiting.id)')
      OBVIOUS
    <3>1. waiting' = waiting /\ waiting.id # dialogId[u] /\ ~OnMacos /\ waiting # None
      BY DEF Ends, Dismisses, OnMacos
    <3>2. ToCome(waiting) /\ (~stray => InUse(waiting.id))
      BY <3>1 DEF ModelsToCome
    <3> QED
      BY <1>4, <1>5, <3>1, <3>2
  <2>2. ASSUME NEW k \in DOMAIN posted', OnMacos', posted'[k].kind = "present"
        PROVE  /\ ToCome(posted[k].model)'
               /\ ~stray' => InUse(posted[k].model.id)' \/ Dismissed(posted[k].model.id, k)'
               /\ \A j \in DOMAIN posted' : posted'[j].kind = "present" /\ posted'[j].model.id = posted'[k].model.id => j = k
    <3>1. \A j \in DOMAIN posted' : posted'[j].kind = "present" => j \in DOMAIN posted /\ posted'[j] = posted[j]
      BY <1>1
    <3>2. k \in DOMAIN posted /\ posted'[k] = posted[k] /\ OnMacos
      BY <2>2, <3>1 DEF OnMacos
    <3>3. /\ ToCome(posted[k].model)
          /\ ~stray => InUse(posted[k].model.id) \/ Dismissed(posted[k].model.id, k)
          /\ \A j \in DOMAIN posted : posted[j].kind = "present" /\ posted[j].model.id = posted[k].model.id => j = k
      BY <2>2, <3>2 DEF ModelsToCome
    <3>4. ToCome(posted[k].model)'
      BY <1>4, <3>2, <3>3
    <3>5. ~stray' => InUse(posted[k].model.id)' \/ Dismissed(posted[k].model.id, k)'
      BY <1>1, <1>5, <3>2, <3>3
    <3>6. \A j \in DOMAIN posted' : posted'[j].kind = "present" /\ posted'[j].model.id = posted'[k].model.id => j = k
      BY <3>1, <3>2, <3>3
    <3> QED
      BY <3>4, <3>5, <3>6
  <2> QED
    BY <2>1, <2>2 DEF ModelsToCome
<1>7. ShownInUse'
  <2> SUFFICES ASSUME ~stray' PROVE /\ \A v \in Utilities : status'[v] # 0 <=> active' = v
                                    /\ dialog' # None => InUse(dialog.id)' \/ Dismissed(dialog.id, 0)'
    BY DEF ShownInUse
  <2>1. \A v \in Utilities : status'[v] # 0 <=> active' = v
    BY <1>1, <1>5 DEF ShownInUse, Ends
  <2>2. dialog # None => InUse(dialog.id) \/ Dismissed(dialog.id, 0)
    BY <1>5 DEF ShownInUse
  <2> QED
    BY <1>1, <1>5, <2>1, <2>2 DEF ShowsSame
<1>8. DialogIds'
  BY <1>1 DEF DialogIds, Ends, ShowsSame
<1>9. ToldRight'
  <2>1. \A v \in Utilities : told'[v] = told[v] \/ told'[v].from = None
    BY DEF DialogTypes, Ends, Windows!Untold
  <2> QED
    BY <2>1 DEF ToldRight, ShowsSame
<1>10. ShownRight'
  BY <1>1 DEF ShownRight, ShowsSame, Windows!Shown
<1> QED
  BY <1>3, <1>6, <1>7, <1>8, <1>9, <1>10 DEF Ends

\* A poll moves a utility on.
LEMMA TurnKeeps ==
  ASSUME GuestSide, ShownRight, stray \in BOOLEAN, NEW u, TurnsTo(u), ShowsSame, part' = part
  PROVE  GuestSide' /\ ShownRight' /\ stray' \in BOOLEAN
<1> USE DEF GuestSide
<1>1. /\ u \in Utilities /\ status[u] # 0 /\ (status[u] = 1 => status'[u] = 2) /\ (status[u] = 4 => status'[u] = 0)
      /\ (status[u] \notin {1, 4} => status'[u] = status[u]) /\ \A v \in Utilities : v # u => status'[v] = status[v]
  BY DEF TurnsTo, DialogTypes
<1>2. DialogTypes'
  BY DEF TurnsTo, DialogTypes
<1>3. \A id : InUse(id) => InUse(id)'
  BY <1>1 DEF InUse, TurnsTo
<1>4. /\ \A x : ToCome(x) => ToCome(x)'
      /\ \A id, n : Dismissed(id, n) => Dismissed(id, n)'
  BY DEF TurnsTo, ShowsSame, ToCome, Dismissed, GivenIds
<1>5. ModelsToCome'
  BY <1>3, <1>4 DEF ModelsToCome, TurnsTo, OnMacos
<1>6. ShownInUse'
  <2>1. ~stray => \A v \in Utilities : status'[v] # 0 <=> active' = v
    BY <1>1, NoneIsNothing DEF ShownInUse, TurnsTo
  <2> QED
    BY <1>3, <1>4, <2>1 DEF ShownInUse, TurnsTo, ShowsSame
<1>7. DialogIds' /\ ToldRight'
  BY DEF DialogIds, ToldRight, TurnsTo, ShowsSame
<1>8. ShownRight'
  BY DEF ShownRight, ShowsSame, Windows!Shown, TurnsTo
<1> QED
  BY <1>2, <1>5, <1>6, <1>7, <1>8 DEF TurnsTo

\* A utility takes its answer, or needs none.
LEMMA TellKeeps ==
  ASSUME GuestSide, ShownRight, stray \in BOOLEAN, NEW u, NEW what, Tells(u, what), part' = part,
         answer' \in {answer, None}, UNCHANGED <<dialog, editors, dangling, chosen, field, given, typed>>,
         dialog # None => dialog.id # dialogId[u], \A m : ToCome(m) => m.id # dialogId[u],
         what.from # None =>
           \E k \in DOMAIN given :
             /\ given[k].id = what.from /\ what.item = given[k].item
             /\ what.result = IF given[k].cancelled THEN "cancelled" ELSE "ok"
             /\ u = "osk" => Len(editors) > 0 /\ (Len(editors) = 1 => what.text = given[k].text)
  PROVE  GuestSide' /\ ShownRight' /\ stray' \in BOOLEAN
<1> USE DEF GuestSide
<1>1. /\ u \in Utilities /\ status[u] = 2 /\ status'[u] = 3 /\ told'[u] = what
      /\ \A v \in Utilities : v # u => status'[v] = status[v] /\ told'[v] = told[v]
  BY DEF Tells, DialogTypes
<1>2. DialogTypes'
  <2>1. status' \in [Utilities -> 0..4]
    BY DEF Tells, DialogTypes
  <2>2. told' = [v \in Utilities |-> told'[v]]
    BY DEF Tells, DialogTypes
  <2> QED
    BY <2>1, <2>2 DEF Tells, DialogTypes
<1>3. \A id : InUse(id) => InUse(id)' \/ id = dialogId[u]
  BY <1>1 DEF InUse, Tells
<1>4. /\ \A x : ToCome(x) => ToCome(x)'
      /\ \A id, n : Dismissed(id, n) => Dismissed(id, n)'
  BY DEF Tells, ToCome, Dismissed, GivenIds
<1>5. ModelsToCome'
  BY <1>3, <1>4 DEF ModelsToCome, Tells, OnMacos
<1>6. ShownInUse'
  <2>1. ~stray => \A v \in Utilities : status'[v] # 0 <=> active' = v
    BY <1>1 DEF ShownInUse, Tells
  <2> QED
    BY <1>3, <1>4, <2>1 DEF ShownInUse, Tells
<1>7. DialogIds'
  BY DEF DialogIds, Tells
<1>8. ToldRight'
  BY <1>1 DEF ToldRight, Tells
<1>9. ShownRight'
  <2> DEFINE w == Windows!Shown
             v == [w EXCEPT !.answer = answer']
             o == dialogId["osk"]
  <2>1. Windows!Shown' = v /\ w.dialog = dialog /\ w.answer = answer
    BY DEF Windows!Shown
  <2>2. WidgetRight(w, o) /\ dialogId'["osk"] = o
    BY DEF ShownRight, Tells
  <2> HIDE DEF w
  <2>3. WidgetRight(v, o)
    BY <2>1, <2>2 DEF WidgetRight, Widgets, EditorFits, EditorsFit
  <2> QED
    BY <2>1, <2>2, <2>3 DEF ShownRight
<1> QED
  BY <1>2, <1>5, <1>6, <1>7, <1>8, <1>9 DEF Tells

\* What no message changes.
GuestSame == UNCHANGED <<active, status, dialogId, silent, nextId, told, stray>>

\* The answers there are now: those there were and, if any, the dialog's.
LEMMA IdsGiven ==
  ASSUME NEW w, NEW v, Extends(w, v)
  PROVE  \A id \in GivenIds(v.given) : id \in GivenIds(w.given) \/ (w.dialog # None /\ id = w.dialog.id)
  BY DEF Extends, GivenIds

\* The keys, the controller, the mouse: the dialog leads to another.
LEMMA LeadKeeps ==
  ASSUME GuestSide, ShownRight, stray \in BOOLEAN, GuestSame, UNCHANGED <<waiting, posted>>, part' = part,
         Leads(Windows!Shown, Windows!Shown', dialogId["osk"])
  PROVE  GuestSide' /\ ShownRight' /\ stray' \in BOOLEAN
<1> USE DEF GuestSide
<1> DEFINE w == Windows!Shown
           o == dialogId["osk"]
<1>1. PICK v : v = Windows!Shown'
  OBVIOUS
<1>2. /\ w.dialog = dialog /\ w.given = given /\ w.editors = editors
      /\ v.dialog = dialog' /\ v.given = given' /\ v.editors = editors'
  BY <1>1 DEF Windows!Shown
<1>3. Leads(w, v, o) /\ WidgetRight(w, o)
  BY <1>1 DEF ShownRight
<1> HIDE DEF w, o
<1>4. dialog' \in {dialog, None} /\ Len(editors') = Len(editors) /\ Extends(w, v) /\ WidgetRight(v, o)
  BY <1>2, <1>3 DEF Leads
<1>5. \A id \in GivenIds(given)' : id \in GivenIds(given) \/ (dialog # None /\ id = dialog.id)
  BY <1>2, <1>4, IdsGiven DEF GivenIds
<1>6. DialogTypes'
  BY DEF DialogTypes, GuestSame
<1>7. \A x : ToCome(x) => ToCome(x)'
  <2> SUFFICES ASSUME NEW x, ToCome(x) PROVE ToCome(x)'
    OBVIOUS
  <2>1. x.id \notin GivenIds(given)'
    BY <1>5 DEF ToCome
  <2> QED
    BY <1>4, <2>1 DEF ToCome, GuestSame
<1>8. /\ \A id : InUse(id) => InUse(id)'
      /\ \A id, n : Dismissed(id, n) => Dismissed(id, n)'
  BY DEF GuestSame, InUse, Dismissed
<1>9. ModelsToCome'
  BY <1>7, <1>8 DEF ModelsToCome, GuestSame, OnMacos
<1>10. ShownInUse'
  BY <1>4, <1>8 DEF ShownInUse, GuestSame
<1>11. DialogIds'
  <2>1. \A k \in DOMAIN given' : given'[k].id < nextId
    BY <1>2, <1>4 DEF DialogIds, Extends
  <2> QED
    BY <1>4, <2>1 DEF DialogIds, GuestSame
<1>12. ToldRight'
  <2>1. \A k \in DOMAIN given : k \in DOMAIN given' /\ given'[k] = given[k]
    BY <1>2, <1>4 DEF Extends
  <2> QED
    BY <1>4, <2>1 DEF ToldRight, GuestSame
<1>13. ShownRight'
  BY <1>1, <1>4 DEF ShownRight, GuestSame, o
<1> QED
  BY <1>6, <1>9, <1>10, <1>11, <1>12, <1>13 DEF GuestSame

\* The messages after the first.
LEMMA TailOf ==
  ASSUME posted \in Seq(Messages), posted # <<>>, posted' = Tail(posted)
  PROVE  /\ posted' \in Seq(Messages) /\ 1 \in DOMAIN posted /\ posted[1] = Head(posted)
         /\ \A k \in DOMAIN posted' : k \in Nat \ {0} /\ k + 1 \in DOMAIN posted /\ posted'[k] = posted[k + 1]
         /\ \A k \in DOMAIN posted : k \in Nat /\ (k > 1 => k - 1 \in DOMAIN posted' /\ posted'[k - 1] = posted[k])
  OBVIOUS

\* What a later message dismisses is still to be dismissed.
LEMMA TailDismisses ==
  ASSUME posted \in Seq(Messages), posted # <<>>, posted' = Tail(posted), NEW id, NEW n \in Nat,
         Dismissed(id, n + 1) \/ (n = 0 /\ Dismissed(id, 0) /\ ~(posted[1].kind = "dismiss" /\ posted[1].id = id))
  PROVE  Dismissed(id, n)'
<1>1. PICK k \in DOMAIN posted : posted[k].kind = "dismiss" /\ posted[k].id = id /\ (k > n + 1 \/ (n = 0 /\ k > 0 /\ k # 1))
  BY TailOf DEF Dismissed
<1>2. k \in Nat /\ k > n + 1
  BY <1>1, TailOf
<1>3. k - 1 > n /\ k - 1 \in DOMAIN posted' /\ posted'[k - 1] = posted[k]
  BY <1>2, TailOf
<1> QED
  BY <1>1, <1>3 DEF Dismissed

\* A message is handled: the models of the others are still to come.
LEMMA TailModels ==
  ASSUME ModelsToCome, posted \in Seq(Messages), posted # <<>>, posted' = Tail(posted), GuestSame, part' = part,
         OnMacos => \A x : ToCome(x) /\ (posted[1].kind = "present" => x.id # posted[1].model.id) => ToCome(x)',
         ~OnMacos => waiting' = None \/ (waiting' = waiting /\ \A x : ToCome(x) => ToCome(x)')
  PROVE  ModelsToCome'
<1>1. \A id : InUse(id) => InUse(id)'
  BY DEF InUse, GuestSame
<1>2. ~OnMacos' /\ waiting' # None => ToCome(waiting)' /\ (~stray' => InUse(waiting.id)')
  BY <1>1 DEF ModelsToCome, OnMacos, GuestSame
<1>3. ASSUME NEW k \in DOMAIN posted', OnMacos', posted'[k].kind = "present"
      PROVE  /\ ToCome(posted[k].model)'
             /\ ~stray' => InUse(posted[k].model.id)' \/ Dismissed(posted[k].model.id, k)'
             /\ \A j \in DOMAIN posted' : posted'[j].kind = "present" /\ posted'[j].model.id = posted'[k].model.id => j = k
  <2>1. k \in Nat \ {0} /\ k + 1 \in DOMAIN posted /\ posted'[k] = posted[k + 1] /\ 1 \in DOMAIN posted
    BY TailOf
  <2>2. PICK x : x = posted'[k].model
    OBVIOUS
  <2>3. OnMacos /\ posted[k + 1].kind = "present" /\ posted[k + 1].model = x
    BY <1>3, <2>1, <2>2 DEF OnMacos
  <2>4. /\ ToCome(x) /\ (~stray => InUse(x.id) \/ Dismissed(x.id, k + 1))
        /\ \A j \in DOMAIN posted : posted[j].kind = "present" /\ posted[j].model.id = x.id => j = k + 1
    BY <2>1, <2>3 DEF ModelsToCome
  <2>5. posted[1].kind = "present" => x.id # posted[1].model.id
    BY <2>1, <2>4
  <2>6. ToCome(x)'
    BY <2>3, <2>4, <2>5
  <2>7. Dismissed(x.id, k + 1) => Dismissed(x.id, k)'
    BY <2>1, TailDismisses
  <2>8. ~stray' => InUse(x.id)' \/ Dismissed(x.id, k)'
    BY <1>1, <2>4, <2>7 DEF GuestSame
  <2>9. ASSUME NEW j \in DOMAIN posted', posted'[j].kind = "present", posted'[j].model.id = posted'[k].model.id
        PROVE  j = k
    <3>1. j \in Nat /\ j + 1 \in DOMAIN posted /\ posted'[j] = posted[j + 1]
      BY TailOf
    <3>2. j + 1 = k + 1
      BY <2>2, <2>4, <2>9, <3>1
    <3> QED
      BY <2>1, <3>1, <3>2
  <2> QED
    BY <2>2, <2>6, <2>8, <2>9
<1> QED
  BY <1>2, <1>3 DEF ModelsToCome

\* A message that shows nothing new.
LEMMA DismissKeeps ==
  ASSUME GuestSide, ShownRight, stray \in BOOLEAN, GuestSame, part' = part,
         posted # <<>>, posted' = Tail(posted), waiting' = waiting,
         UNCHANGED <<answer, editors, dangling, chosen, field, given, typed>>,
         \/ dialog' = dialog /\ ~(posted[1].kind = "dismiss" /\ dialog # None /\ posted[1].id = dialog.id)
         \/ dialog' = None
  PROVE  GuestSide' /\ ShownRight' /\ stray' \in BOOLEAN
<1> USE DEF GuestSide
<1>1. posted \in Seq(Messages) /\ posted' \in Seq(Messages)
  BY TailOf DEF DialogTypes
<1>2. DialogTypes'
  BY <1>1 DEF DialogTypes, GuestSame
<1>3. \A x : ToCome(x) => ToCome(x)'
  BY DEF ToCome, GuestSame, GivenIds
<1>4. ModelsToCome'
  BY <1>1, <1>3, TailModels
<1>5. ShownInUse'
  <2>1. dialog' # None => dialog' = dialog
    OBVIOUS
  <2>2. ~stray /\ dialog' # None => InUse(dialog.id) \/ Dismissed(dialog.id, 0)'
    <3> SUFFICES ASSUME ~stray, dialog' # None, ~InUse(dialog.id) PROVE Dismissed(dialog.id, 0)'
      BY <2>1
    <3>1. PICK id : id = dialog.id /\ dialog' = dialog
      BY <2>1
    <3>2. Dismissed(id, 0) /\ ~(posted[1].kind = "dismiss" /\ posted[1].id = id)
      BY <3>1 DEF ShownInUse
    <3>3. Dismissed(id, 0)'
      BY <1>1, <3>2, TailDismisses
    <3> QED
      BY <3>1, <3>3
  <2>3. \A id : InUse(id) => InUse(id)'
    BY DEF InUse, GuestSame
  <2> QED
    BY <2>1, <2>2, <2>3 DEF ShownInUse, GuestSame
<1>6. DialogIds' /\ ToldRight'
  BY DEF DialogIds, ToldRight, GuestSame
<1>7. ShownRight'
  <2> DEFINE w == Windows!Shown
             v == [w EXCEPT !.dialog = dialog']
             o == dialogId["osk"]
  <2>1. Windows!Shown' = v /\ w.dialog = dialog
    BY DEF Windows!Shown
  <2>2. WidgetRight(w, o) /\ dialogId'["osk"] = o
    BY DEF ShownRight, GuestSame
  <2> HIDE DEF w
  <2>3. WidgetRight(v, o)
    BY <2>1, <2>2 DEF WidgetRight, Widgets, EditorFits, EditorsFit
  <2> QED
    BY <2>1, <2>2, <2>3 DEF ShownRight
<1> QED
  BY <1>2, <1>4, <1>5, <1>6, <1>7 DEF GuestSame

\* A model that was on its way is shown.
LEMMA ShowKeeps ==
  ASSUME GuestSide, ShownRight, stray \in BOOLEAN, GuestSame, part' = part,
         posted # <<>>, posted' = Tail(posted), posted[1].kind = "present", NEW m,
         \/ OnMacos /\ m = posted[1].model
         \/ ~OnMacos /\ m = waiting /\ m # None /\ waiting' = None,
         Windows!Shown' = Windows!present(Windows!Shown, m)
  PROVE  GuestSide' /\ ShownRight' /\ stray' \in BOOLEAN
<1> USE DEF GuestSide
<1> DEFINE w == Windows!Shown
           o == dialogId["osk"]
<1>0. PICK v : v = Windows!Shown' /\ v = Windows!present(w, m)
  OBVIOUS
<1>1. /\ w.dialog = dialog /\ w.given = given /\ w.editors = editors
      /\ v.dialog = dialog' /\ v.given = given' /\ v.editors = editors'
  BY <1>0 DEF Windows!Shown
<1>2. WidgetRight(w, o)
  BY DEF ShownRight
<1> HIDE DEF w, o
<1>3. posted \in Seq(Messages) /\ posted' \in Seq(Messages) /\ 1 \in DOMAIN posted
  BY TailOf DEF DialogTypes
<1>4. ToCome(m) /\ (~stray => InUse(m.id) \/ Dismissed(m.id, 1))
  BY <1>3 DEF ModelsToCome
<1>5. /\ WidgetRight(v, o) /\ Extends(w, v) /\ v.dialog = m
      /\ Len(v.editors) = Len(w.editors) \/ Len(v.editors) = Len(w.editors) + 1
  BY <1>0, <1>1, <1>2, <1>4, PresentLeads DEF ToCome, o
<1>6. \A id \in GivenIds(given)' : id \in GivenIds(given) \/ (dialog # None /\ id = dialog.id)
  BY <1>1, <1>5, IdsGiven DEF GivenIds
<1>7. DialogTypes'
  BY <1>3 DEF DialogTypes, GuestSame
<1>8. \A x : ToCome(x) /\ x.id # m.id => ToCome(x)'
  <2> SUFFICES ASSUME NEW x, ToCome(x), x.id # m.id PROVE ToCome(x)'
    OBVIOUS
  <2>1. x.id \notin GivenIds(given)'
    BY <1>6 DEF ToCome
  <2> QED
    BY <1>1, <1>5, <2>1 DEF ToCome, GuestSame
<1>9. ModelsToCome'
  BY <1>3, <1>8, TailModels
<1>10. ShownInUse'
  <2>1. Dismissed(m.id, 1) => Dismissed(m.id, 0)'
    BY <1>3, TailDismisses
  <2>2. InUse(m.id) => InUse(m.id)'
    BY DEF InUse, GuestSame
  <2>3. ~stray' => InUse(m.id)' \/ Dismissed(m.id, 0)'
    BY <1>4, <2>1, <2>2 DEF GuestSame
  <2>4. dialog' = m
    BY <1>1, <1>5
  <2> QED
    BY <2>3, <2>4 DEF ShownInUse, GuestSame
<1>11. DialogIds'
  <2>1. \A k \in DOMAIN given' : given'[k].id < nextId
    BY <1>1, <1>5 DEF DialogIds, Extends
  <2>2. dialog' = m
    BY <1>1, <1>5
  <2> QED
    BY <1>4, <2>1, <2>2 DEF DialogIds, ToCome, GuestSame
<1>12. ToldRight'
  <2>1. \A k \in DOMAIN given : k \in DOMAIN given' /\ given'[k] = given[k]
    BY <1>1, <1>5 DEF Extends
  <2>2. Len(editors) \in Nat
    BY <1>1, <1>2 DEF WidgetRight, Widgets
  <2>3. Len(editors') = Len(editors) \/ Len(editors') = Len(editors) + 1
    BY <1>1, <1>5
  <2>4. Len(editors) > 0 => Len(editors') > 0 /\ (Len(editors') = 1 => Len(editors) = 1)
    <3> DEFINE l == Len(editors)
               n == Len(editors')
    <3>1. l \in Nat /\ (n = l \/ n = l + 1)
      BY <2>2, <2>3
    <3> HIDE DEF l, n
    <3>2. l > 0 => n > 0 /\ (n = 1 => l = 1)
      BY <3>1
    <3> QED
      BY <3>2 DEF l, n
  <2> QED
    BY <2>1, <2>4 DEF ToldRight, GuestSame
<1>13. ShownRight'
  BY <1>0, <1>5 DEF ShownRight, GuestSame, o
<1> QED
  BY <1>7, <1>9, <1>10, <1>11, <1>12, <1>13 DEF GuestSame

-----------------------------------------------------------------------------
(* Dialogs: the steps *)

\* The dialog does the same on both platforms.
LEMMA SameComplete == \A w, c : Macos!complete(w, c) = Windows!complete(w, c)
  BY DEF Macos!complete, Windows!complete, Macos!Alive, Windows!Alive

\* A new dialog on both platforms.
LEMMA SamePresented == \A w, m : Macos!present(w, m) = Windows!present(w, m)
  BY SameComplete DEF Macos!present, Windows!present

\* Letters on both platforms.
LEMMA SameText == \A w : Macos!insert(w) = Windows!insert(w) /\ Macos!backspace(w) = Windows!backspace(w)
  BY DEF Macos!insert, Windows!insert, Macos!backspace, Windows!backspace, Macos!Alive, Windows!Alive

\* A key of the keyboard dialog on both platforms.
LEMMA SameKey == \A w : Macos!activate_osk_key(w) = Windows!activate_osk_key(w)
  BY SameText, SameComplete DEF Macos!activate_osk_key, Windows!activate_osk_key

\* Buttons on both platforms.
LEMMA SameButtons == \A w, p : Macos!handle_buttons(w, p) = Windows!handle_buttons(w, p)
<1> SUFFICES ASSUME NEW w, NEW p PROVE Macos!handle_buttons(w, p) = Windows!handle_buttons(w, p)
  OBVIOUS
<1> DEFINE osk == w.dialog.kind = "osk"
           moved == IF "right" \in p THEN Windows!move(w) ELSE w
           there == IF "right" \in p THEN Macos!move(w) ELSE w
           done == CASE ~("confirm" \in p) -> moved
                     [] osk -> Windows!activate_osk_key(moved)
                     [] OTHER -> Windows!complete(moved, FALSE)
           ready == CASE ~("confirm" \in p) -> there
                      [] osk -> Macos!activate_osk_key(there)
                      [] OTHER -> Macos!complete(there, FALSE)
<1>1. Windows!handle_buttons(w, p) =
        IF w.dialog = None THEN w
        ELSE CASE osk /\ "start" \in p -> Windows!complete(done, FALSE)
               [] "cancel" \in p /\ (osk \/ "confirm" \notin p) -> Windows!complete(done, TRUE)
               [] OTHER -> done
  BY Zenon DEF Windows!handle_buttons
<1>2. Macos!handle_buttons(w, p) =
        IF w.dialog = None THEN w
        ELSE CASE osk /\ "start" \in p -> Macos!complete(ready, FALSE)
               [] "cancel" \in p /\ (osk \/ "confirm" \notin p) -> Macos!complete(ready, TRUE)
               [] OTHER -> ready
  BY Zenon DEF Macos!handle_buttons
<1>3. there = moved
  BY DEF Macos!move, Windows!move
<1> HIDE DEF there, moved
<1>4. ready = done
  BY <1>3, SameComplete, SameKey
<1> HIDE DEF ready, done
<1> DEFINE c(q) == Macos!complete(done, q)
<1>5. c(TRUE) = Windows!complete(done, TRUE) /\ c(FALSE) = Windows!complete(done, FALSE)
  BY SameComplete
<1>6. CASE w.dialog = None
  BY <1>1, <1>2, <1>6
<1>7. CASE w.dialog # None /\ osk /\ "start" \in p
  BY <1>1, <1>2, <1>4, <1>5, <1>7
<1>8. CASE w.dialog # None /\ ~(osk /\ "start" \in p) /\ "cancel" \in p /\ (osk \/ "confirm" \notin p)
  BY <1>1, <1>2, <1>4, <1>5, <1>8
<1>9. CASE w.dialog # None /\ ~(osk /\ "start" \in p) /\ ~("cancel" \in p /\ (osk \/ "confirm" \notin p))
  BY <1>1, <1>2, <1>4, <1>5, <1>9
<1> QED
  BY <1>6, <1>7, <1>8, <1>9

\* The dialog and the buttons on both platforms.
LEMMA SameShown ==
  /\ Macos!Shown = Windows!Shown /\ Macos!Buttons = Windows!Buttons
  /\ \A w : Macos!Becomes(w) <=> Windows!Becomes(w)
  BY DEF Macos!Shown, Windows!Shown, Macos!Buttons, Windows!Buttons, Macos!Becomes, Windows!Becomes

\* What can be clicked on both platforms.
LEMMA SameClicks ==
  \A w : /\ Macos!build_savedata(w) = Windows!build_savedata(w) /\ Macos!build_osk(w) = Windows!build_osk(w)
         /\ Macos!build_generic(w) = Windows!build_generic(w)
  BY SameComplete, SameKey DEF Macos!build_savedata, Windows!build_savedata, Macos!build_osk, Windows!build_osk,
     Macos!build_generic, Windows!build_generic

\* What is shown next.
LEMMA Becoming ==
  ASSUME NEW w \in Widgets, Windows!Becomes(w)
  PROVE  Windows!Shown' = w
  BY DEF Widgets, Windows!Becomes, Windows!Shown

\* What a dialog leads to is shown.
LEMMA LeadsTo ==
  ASSUME NEW v, Leads(Windows!Shown, v, dialogId["osk"]), Windows!Becomes(v)
  PROVE  Leads(Windows!Shown, Windows!Shown', dialogId["osk"])
<1>1. v \in Widgets
  BY DEF Leads, WidgetRight
<1>2. Windows!Shown' = v
  BY <1>1, Becoming
<1> QED
  BY <1>2

\* The same dialog stays.
LEMMA NothingShown ==
  ASSUME ShownRight, ShowsSame
  PROVE  Leads(Windows!Shown, Windows!Shown', dialogId["osk"])
<1>1. Windows!Shown' = Windows!Shown
  BY DEF ShowsSame, Windows!Shown
<1> QED
  BY <1>1, LeadsNowhere DEF ShownRight

\* No key or button moves: what is down since before stays so.
LEMMA InputsStill ==
  ASSUME InputsRight, InputsSame, part' = part, dialog' \in {dialog, None}
  PROVE  InputsRight'
  BY DEF InputsRight, InputsSame, OnMacos, Windows!Buttons

\* The calls that start and end a utility.
LEMMA CallStep ==
  ASSUME GuestSide, ShownRight, InputsRight, stray \in BOOLEAN, part' = part,
         \/ part = "windows" /\ Windows!DialogCalls
         \/ part = "macos" /\ Macos!DialogCalls
  PROVE  GuestSide' /\ ShownRight' /\ InputsRight' /\ stray' \in BOOLEAN
<1>1. ASSUME NEW u \in Utilities, NEW q \in BOOLEAN, NEW f \in Nat, u = "osk" => f = 0, q => u = "savedata",
             \/ part = "windows" /\ Windows!InitStart(u, q, f)
             \/ part = "macos" /\ Macos!InitStart(u, q, f)
      PROVE  GuestSide' /\ ShownRight' /\ InputsRight' /\ stray' \in BOOLEAN
  <2>1. Starts(u, q, f) /\ ShowsSame /\ InputsSame
    BY <1>1, SameStart
  <2>2. InputsRight'
    BY <2>1, InputsStill DEF ShowsSame
  <2> QED
    BY <2>1, <2>2, StartKeeps
<1>2. ASSUME NEW u, NEW s, Ends(u, s), ShowsSame, InputsSame
      PROVE  GuestSide' /\ ShownRight' /\ InputsRight' /\ stray' \in BOOLEAN
  <2>1. InputsRight'
    BY <1>2, InputsStill DEF ShowsSame
  <2> QED
    BY <1>2, <2>1, EndKeeps
<1>3. ASSUME NEW u \in Utilities,
             \/ part = "windows" /\ Windows!ShutdownStart(u)
             \/ part = "macos" /\ Macos!ShutdownStart(u)
      PROVE  GuestSide' /\ ShownRight' /\ InputsRight' /\ stray' \in BOOLEAN
  BY <1>2, <1>3, SameShutdown
<1>4. ASSUME \/ part = "windows" /\ Windows!sceUtilityMsgDialogAbort
             \/ part = "macos" /\ Macos!sceUtilityMsgDialogAbort
      PROVE  GuestSide' /\ ShownRight' /\ InputsRight' /\ stray' \in BOOLEAN
  BY <1>2, <1>4, SameAbort
<1>5. "savedata" \in Utilities /\ "message" \in Utilities /\ "osk" \in Utilities /\ 0..(Items - 1) \subseteq Nat /\ 0 \in Nat
  BY DialogConstants DEF Utilities
<1>6. CASE part = "windows" /\ Windows!DialogCalls
  <2>1. CASE Windows!sceUtilityMsgDialogInitStart
    BY <1>1, <1>5, <1>6, <2>1 DEF Windows!sceUtilityMsgDialogInitStart
  <2>2. CASE Windows!sceUtilityOskInitStart
    BY <1>1, <1>5, <1>6, <2>2 DEF Windows!sceUtilityOskInitStart
  <2>3. CASE Windows!sceUtilitySavedataInitStart
    BY <1>1, <1>5, <1>6, <2>3 DEF Windows!sceUtilitySavedataInitStart
  <2>4. CASE Windows!sceUtilityMsgDialogShutdownStart
    BY <1>3, <1>5, <1>6, <2>4 DEF Windows!sceUtilityMsgDialogShutdownStart
  <2>5. CASE Windows!sceUtilityOskShutdownStart
    BY <1>3, <1>5, <1>6, <2>5 DEF Windows!sceUtilityOskShutdownStart
  <2>6. CASE Windows!sceUtilitySavedataShutdownStart
    BY <1>3, <1>5, <1>6, <2>6 DEF Windows!sceUtilitySavedataShutdownStart
  <2>7. CASE Windows!sceUtilityMsgDialogAbort
    BY <1>4, <1>6, <2>7
  <2> QED
    BY <1>6, <2>1, <2>2, <2>3, <2>4, <2>5, <2>6, <2>7 DEF Windows!DialogCalls
<1>7. CASE part = "macos" /\ Macos!DialogCalls
  <2>1. CASE Macos!sceUtilityMsgDialogInitStart
    BY <1>1, <1>5, <1>7, <2>1 DEF Macos!sceUtilityMsgDialogInitStart
  <2>2. CASE Macos!sceUtilityOskInitStart
    BY <1>1, <1>5, <1>7, <2>2 DEF Macos!sceUtilityOskInitStart
  <2>3. CASE Macos!sceUtilitySavedataInitStart
    BY <1>1, <1>5, <1>7, <2>3 DEF Macos!sceUtilitySavedataInitStart
  <2>4. CASE Macos!sceUtilityMsgDialogShutdownStart
    BY <1>3, <1>5, <1>7, <2>4 DEF Macos!sceUtilityMsgDialogShutdownStart
  <2>5. CASE Macos!sceUtilityOskShutdownStart
    BY <1>3, <1>5, <1>7, <2>5 DEF Macos!sceUtilityOskShutdownStart
  <2>6. CASE Macos!sceUtilitySavedataShutdownStart
    BY <1>3, <1>5, <1>7, <2>6 DEF Macos!sceUtilitySavedataShutdownStart
  <2>7. CASE Macos!sceUtilityMsgDialogAbort
    BY <1>4, <1>7, <2>7
  <2> QED
    BY <1>7, <2>1, <2>2, <2>3, <2>4, <2>5, <2>6, <2>7 DEF Macos!DialogCalls
<1> QED
  BY <1>6, <1>7

\* The calls that ask for the status.
LEMMA SameStatus ==
  ASSUME NEW u \in Utilities,
         \/ part = "windows" /\ Windows!GetStatus(u)
         \/ part = "macos" /\ Macos!GetStatus(u)
  PROVE  TurnsTo(u) /\ ShowsSame /\ InputsSame
  BY DEF Windows!GetStatus, Macos!GetStatus, TurnsTo, ShowsSame, InputsSame, Windows!widget, Windows!input,
     Macos!widget, Macos!input

\* The utility's own dialog has been answered.
LEMMA SameFinish ==
  ASSUME NEW u \in Utilities, NEW what,
         \/ part = "windows" /\ Windows!Finished(u, what)
         \/ part = "macos" /\ Macos!Finished(u, what)
  PROVE  Tells(u, what) /\ InputsSame /\ UNCHANGED <<dialog, editors, dangling, chosen, field, given, typed>>
  BY DEF Windows!Finished, Macos!Finished, Tells, InputsSame, Windows!input, Macos!input

\* A utility with a dialog takes the answer to it: none of the models on
\* their way has its number, as those have no answer yet.
LEMMA UpdateStep ==
  ASSUME GuestSide, ShownRight, InputsRight, stray \in BOOLEAN, part' = part, NEW u \in Utilities,
         \/ part = "windows" /\ Windows!Update(u)
         \/ part = "macos" /\ Macos!Update(u)
  PROVE  GuestSide' /\ ShownRight' /\ InputsRight' /\ stray' \in BOOLEAN
<1> DEFINE what == Windows!Answered(u, answer)
<1>1. /\ (part = "windows" /\ Windows!Finished(u, what)) \/ (part = "macos" /\ Macos!Finished(u, what))
      /\ answer # None /\ answer.id = dialogId[u] /\ answer' = None
  BY DEF Windows!Update, Macos!Update, Windows!IsResult, Macos!IsResult, Windows!Answered, Macos!Answered
<1>2. /\ what.from = dialogId[u] /\ what.item = answer.item /\ (u = "osk" => what.text = answer.texts[1])
      /\ what.result = IF answer.cancelled THEN "cancelled" ELSE "ok"
  BY DEF Windows!Answered
<1> HIDE DEF what
<1>3. Tells(u, what) /\ InputsSame /\ UNCHANGED <<dialog, editors, dangling, chosen, field, given, typed>>
  BY <1>1, SameFinish
<1>4. PICK k \in DOMAIN given :
        /\ given[k].id = answer.id /\ (given[k].cancelled <=> answer.cancelled) /\ given[k].item = answer.item
        /\ answer.id = dialogId["osk"] => Len(editors) > 0 /\ (Len(editors) = 1 => answer.texts[1] = given[k].text)
  <2>1. Recorded(answer, given, editors, dialogId["osk"])
    BY <1>1 DEF ShownRight, WidgetRight, Windows!Shown
  <2> QED
    BY <2>1 DEF Recorded
<1>5. dialogId[u] \in GivenIds(given)
  BY <1>1, <1>4 DEF GivenIds
<1>6. /\ dialog # None => dialog.id # dialogId[u]
      /\ \A m : ToCome(m) => m.id # dialogId[u]
  <2>1. dialog # None => dialog.id \notin GivenIds(given)
    BY DEF ShownRight, WidgetRight, Windows!Shown
  <2> QED
    BY <1>5, <2>1 DEF ToCome
<1>7. /\ given[k].id = what.from /\ what.item = given[k].item
      /\ u = "osk" => Len(editors) > 0 /\ (Len(editors) = 1 => what.text = given[k].text)
  BY <1>1, <1>2, <1>4
<1>8. what.result = IF given[k].cancelled THEN "cancelled" ELSE "ok"
  BY <1>2, <1>4
<1>9. InputsRight'
  BY <1>3, InputsStill
<1> QED
  BY <1>1, <1>3, <1>6, <1>7, <1>8, <1>9, TellKeeps

\* Without a dialog there is nothing to wait for.
LEMMA SilentStep ==
  ASSUME GuestSide, ShownRight, InputsRight, stray \in BOOLEAN, part' = part, silent, answer' = answer, NEW what,
         what.from = None,
         \/ part = "windows" /\ Windows!Finished("savedata", what)
         \/ part = "macos" /\ Macos!Finished("savedata", what)
  PROVE  GuestSide' /\ ShownRight' /\ InputsRight' /\ stray' \in BOOLEAN
<1>1. "savedata" \in Utilities
  BY DEF Utilities
<1>2. Tells("savedata", what) /\ InputsSame /\ UNCHANGED <<dialog, editors, dangling, chosen, field, given, typed>>
  BY <1>1, SameFinish
<1>3. /\ dialog # None => dialog.id # dialogId["savedata"]
      /\ \A m : ToCome(m) => m.id # dialogId["savedata"]
  BY DEF GuestSide, DialogIds, ToCome
<1>4. InputsRight'
  BY <1>2, InputsStill
<1> QED
  BY <1>2, <1>3, <1>4, TellKeeps

\* The calls a guest polls with.
LEMMA PollStep ==
  ASSUME GuestSide, ShownRight, InputsRight, stray \in BOOLEAN, part' = part,
         \/ part = "windows" /\ Windows!DialogPolls
         \/ part = "macos" /\ Macos!DialogPolls
  PROVE  GuestSide' /\ ShownRight' /\ InputsRight' /\ stray' \in BOOLEAN
<1>1. ASSUME NEW u \in Utilities,
             \/ part = "windows" /\ Windows!GetStatus(u)
             \/ part = "macos" /\ Macos!GetStatus(u)
      PROVE  GuestSide' /\ ShownRight' /\ InputsRight' /\ stray' \in BOOLEAN
  <2>1. TurnsTo(u) /\ ShowsSame /\ InputsSame
    BY <1>1, SameStatus
  <2>2. InputsRight'
    BY <2>1, InputsStill DEF ShowsSame
  <2> QED
    BY <2>1, <2>2, TurnKeeps
<1>2. "savedata" \in Utilities /\ "message" \in Utilities /\ "osk" \in Utilities
  BY DEF Utilities
<1>3. PICK what : what = [Windows!Untold EXCEPT !.result = "ok"]
  OBVIOUS
<1>4. what.from = None /\ [Macos!Untold EXCEPT !.result = "ok"] = what
  BY <1>3 DEF Windows!Untold, Macos!Untold
<1>5. CASE part = "windows" /\ Windows!DialogPolls
  <2>1. CASE \/ Windows!sceUtilityMsgDialogGetStatus \/ Windows!sceUtilityOskGetStatus
             \/ Windows!sceUtilitySavedataGetStatus
    BY <1>1, <1>2, <1>5, <2>1 DEF Windows!sceUtilityMsgDialogGetStatus, Windows!sceUtilityOskGetStatus,
       Windows!sceUtilitySavedataGetStatus
  <2>2. CASE Windows!sceUtilityMsgDialogUpdate \/ Windows!sceUtilityOskUpdate
    BY <1>2, <1>5, <2>2, UpdateStep DEF Windows!sceUtilityMsgDialogUpdate, Windows!sceUtilityOskUpdate
  <2>3. CASE Windows!sceUtilitySavedataUpdate
    BY <1>2, <1>3, <1>4, <1>5, <2>3, UpdateStep, SilentStep DEF Windows!sceUtilitySavedataUpdate
  <2> QED
    BY <1>5, <2>1, <2>2, <2>3 DEF Windows!DialogPolls
<1>6. CASE part = "macos" /\ Macos!DialogPolls
  <2>1. CASE \/ Macos!sceUtilityMsgDialogGetStatus \/ Macos!sceUtilityOskGetStatus
             \/ Macos!sceUtilitySavedataGetStatus
    BY <1>1, <1>2, <1>6, <2>1 DEF Macos!sceUtilityMsgDialogGetStatus, Macos!sceUtilityOskGetStatus,
       Macos!sceUtilitySavedataGetStatus
  <2>2. CASE Macos!sceUtilityMsgDialogUpdate \/ Macos!sceUtilityOskUpdate
    BY <1>2, <1>6, <2>2, UpdateStep DEF Macos!sceUtilityMsgDialogUpdate, Macos!sceUtilityOskUpdate
  <2>3. CASE Macos!sceUtilitySavedataUpdate
    BY <1>2, <1>4, <1>6, <2>3, UpdateStep, SilentStep DEF Macos!sceUtilitySavedataUpdate
  <2> QED
    BY <1>6, <2>1, <2>2, <2>3 DEF Macos!DialogPolls
<1> QED
  BY <1>5, <1>6

\* A dialog comes up: what is down now is held.
LEMMA FreshInputs ==
  ASSUME InputsRight, part' = part, keyboard' = {}, ~armed', armed' \in BOOLEAN, previous' = {},
         held' = {<<"pad", b>> : b \in pad} \cup {<<"key", b>> : b \in keys},
         UNCHANGED <<pad, keys, inputs, surprised>>
  PROVE  InputsRight'
<1>1. \A b : /\ <<"pad", b>> \in held' => b \in pad
             /\ <<"key", b>> \in held' => b \in keys
  OBVIOUS
<1> QED
  BY <1>1 DEF InputsRight, OnMacos, Windows!Buttons

\* The window shows a model that was on its way.
LEMMA DialogPresent ==
  ASSUME GuestSide, ShownRight, InputsRight, stray \in BOOLEAN, part' = part, GuestSame,
         posted # <<>>, posted' = Tail(posted), posted[1].kind = "present", NEW m,
         \/ OnMacos /\ m = posted[1].model
         \/ ~OnMacos /\ m = waiting /\ m # None /\ waiting' = None,
         UNCHANGED <<surprised, pad, keys, inputs>>,
         Windows!Present(m) \/ Macos!Present(m)
  PROVE  GuestSide' /\ ShownRight' /\ InputsRight' /\ stray' \in BOOLEAN
<1> DEFINE v == Windows!present(Windows!Shown, m)
<1>1. /\ keyboard' = {} /\ armed' = FALSE /\ previous' = {} /\ Windows!Becomes(v)
      /\ held' = {<<"pad", b>> : b \in pad} \cup {<<"key", b>> : b \in keys}
  <2>1. CASE Windows!Present(m)
    BY <2>1 DEF Windows!Present, Windows!Cleared, Windows!Disarmed
  <2>2. CASE Macos!Present(m)
    BY <2>2, SamePresented, SameShown DEF Macos!Present, Macos!Cleared, Macos!Disarmed
  <2> QED
    BY <2>1, <2>2
<1>2. ~armed' /\ armed' \in BOOLEAN
  BY <1>1
<1>3. InputsRight'
  BY <1>1, <1>2, FreshInputs
<1>4. ToCome(m)
  <2>1. 1 \in DOMAIN posted
    BY TailOf DEF GuestSide, DialogTypes
  <2> QED
    BY <2>1 DEF GuestSide, ModelsToCome
<1>5. v \in Widgets
  <2>1. WidgetRight(Windows!Shown, dialogId["osk"]) /\ Windows!Shown.dialog = dialog /\ Windows!Shown.given = given
    BY DEF ShownRight, Windows!Shown
  <2>2. WidgetRight(v, dialogId["osk"])
    BY <1>4, <2>1, PresentLeads DEF ToCome
  <2> QED
    BY <2>2 DEF WidgetRight
<1>6. Windows!Shown' = v
  BY <1>1, <1>5, Becoming
<1> QED
  BY <1>3, <1>6, ShowKeeps

\* A message is handled: shown, dismissed, or replaced before it was shown.
LEMMA MessageStep ==
  ASSUME GuestSide, ShownRight, InputsRight, stray \in BOOLEAN, part' = part,
         (part = "windows" /\ Windows!HandleMessage) \/ (part = "macos" /\ Macos!HandleMessage)
  PROVE  GuestSide' /\ ShownRight' /\ InputsRight' /\ stray' \in BOOLEAN
<1>1. /\ posted # <<>> /\ posted' = Tail(posted) /\ GuestSame /\ UNCHANGED <<surprised, pad, keys, inputs>>
      /\ posted \in Seq(Messages)
  BY DEF Windows!HandleMessage, Macos!HandleMessage, GuestSame, Windows!calls, Macos!calls, GuestSide, DialogTypes
<1>2. Head(posted) = posted[1]
  BY <1>1
<1>3. ASSUME UNCHANGED <<keyboard, armed, previous, held>>, dialog' \in {dialog, None}
      PROVE  InputsRight'
  <2>1. InputsSame
    BY <1>1, <1>3 DEF InputsSame
  <2> QED
    BY <1>3, <2>1, InputsStill
<1>4. ASSUME \/ part = "windows" /\ Windows!dismiss(posted[1])
             \/ part = "macos" /\ Macos!dismiss(posted[1])
      PROVE  GuestSide' /\ ShownRight' /\ InputsRight' /\ stray' \in BOOLEAN
  <2>1. /\ dialog' = IF dialog # None /\ dialog.id = posted[1].id THEN None ELSE dialog
        /\ UNCHANGED <<waiting, answer, editors, dangling, chosen, field, given, typed, keyboard, armed, previous, held>>
    BY <1>4 DEF Windows!dismiss, Macos!dismiss
  <2>2. dialog' \in {dialog, None}
    BY <2>1
  <2> QED
    BY <1>1, <1>3, <2>1, <2>2, DismissKeeps
<1>5. CASE part = "windows" /\ Windows!process_dialog(posted[1])
  <2>1. posted[1].kind = "present" /\ waiting' = None /\ ~OnMacos
    BY <1>5 DEF Windows!process_dialog, OnMacos
  <2>2. CASE waiting # None
    BY <1>1, <1>5, <2>1, <2>2, DialogPresent DEF Windows!process_dialog
  <2>3. CASE waiting = None
    <3>1. UNCHANGED <<dialog, answer, editors, dangling, chosen, field, given, typed, keyboard, armed, previous, held>>
      BY <1>5, <2>3 DEF Windows!process_dialog
    <3> QED
      BY <1>1, <1>3, <2>1, <2>3, <3>1, DismissKeeps
  <2> QED
    BY <2>2, <2>3
<1>6. CASE part = "macos" /\ Macos!MainQueuePresents(posted[1])
  <2>1. posted[1].kind = "present" /\ OnMacos /\ Macos!Present(posted[1].model)
    BY <1>6 DEF Macos!MainQueuePresents, OnMacos
  <2> QED
    BY <1>1, <1>6, <2>1, DialogPresent
<1>7. part = "windows" => ~Windows!MainQueuePresents(posted[1])
  BY DEF Windows!MainQueuePresents, Windows!Windows
<1>8. part = "macos" => ~Macos!process_dialog(posted[1])
  BY DEF Macos!process_dialog, Macos!Windows
<1> QED
  BY <1>2, <1>4, <1>5, <1>6, <1>7, <1>8 DEF Windows!HandleMessage, Macos!HandleMessage

\* A step of the window's thread that leaves the guest's side alone.
LEMMA WidgetStep ==
  ASSUME GuestSide, ShownRight, stray \in BOOLEAN, GuestSame, UNCHANGED <<waiting, posted>>, part' = part,
         NEW v, Leads(Windows!Shown, v, dialogId["osk"]), Windows!Becomes(v)
  PROVE  GuestSide' /\ ShownRight' /\ stray' \in BOOLEAN /\ dialog' \in {dialog, None} /\ dialog' = v.dialog
<1>1. Leads(Windows!Shown, Windows!Shown', dialogId["osk"])
  BY LeadsTo
<1>2. dialog' = v.dialog /\ v.dialog \in {dialog, None}
  BY DEF Windows!Becomes, Leads, Windows!Shown
<1> QED
  BY <1>1, <1>2, LeadKeeps

\* A step that changes nothing the guest or the dialog sees.
LEMMA StillStep ==
  ASSUME GuestSide, ShownRight, stray \in BOOLEAN, GuestSame, UNCHANGED <<waiting, posted>>, part' = part, ShowsSame
  PROVE  GuestSide' /\ ShownRight' /\ stray' \in BOOLEAN
  BY NothingShown, LeadKeeps

\* The controller is read: it answers with buttons that were up before.
LEMMA TimerInputs ==
  ASSUME InputsRight, part' = part, previous' = pad \/ previous' = {}, armed' \in BOOLEAN,
         armed' => armed \/ pad = {}, dialog' \in {dialog, None},
         UNCHANGED <<pad, keys, keyboard, inputs, held, surprised>>
  PROVE  InputsRight'
  BY DEF InputsRight, OnMacos, Windows!Buttons

\* The timer reads the controller.
LEMMA TimerStep ==
  ASSUME GuestSide, ShownRight, InputsRight, stray \in BOOLEAN, part' = part,
         (part = "windows" /\ Windows!DialogTimer) \/ (part = "macos" /\ Macos!DialogTimer)
  PROVE  GuestSide' /\ ShownRight' /\ InputsRight' /\ stray' \in BOOLEAN
<1> DEFINE pressed == IF armed THEN pad \ previous ELSE {}
           v == Windows!handle_buttons(Windows!Shown, pressed)
<1>1. GuestSame /\ UNCHANGED <<waiting, posted>> /\ UNCHANGED <<pad, keys, keyboard, inputs, held>>
  BY DEF Windows!DialogTimer, Macos!DialogTimer, GuestSame, Windows!calls, Macos!calls
<1>2. CASE dialog = None
  <2>1. previous' = {} /\ armed' = FALSE /\ ShowsSame /\ UNCHANGED surprised
    BY <1>2 DEF Windows!DialogTimer, Macos!DialogTimer, Windows!widget, Macos!widget, ShowsSame
  <2>2. armed' \in BOOLEAN /\ ~armed'
    BY <2>1
  <2>3. dialog' \in {dialog, None}
    BY <2>1 DEF ShowsSame
  <2>4. InputsRight'
    BY <1>1, <2>1, <2>2, <2>3, TimerInputs
  <2> QED
    BY <1>1, <2>1, <2>4, StillStep
<1>3. CASE dialog # None
  <2>1. /\ previous' = pad /\ armed' = (armed \/ pad = {}) /\ Windows!Becomes(v)
        /\ surprised' = surprised \/ \E b \in pressed : <<"pad", b>> \in held
    <3>1. CASE part = "windows" /\ Windows!DialogTimer
      BY <1>3, <3>1 DEF Windows!DialogTimer
    <3>2. CASE part = "macos" /\ Macos!DialogTimer
      BY <1>3, <3>2, SameShown, SameButtons DEF Macos!DialogTimer
    <3> QED
      BY <3>1, <3>2
  <2>2. (armed' <=> (armed \/ pad = {})) /\ armed' \in BOOLEAN
    <3>1. (armed \/ pad = {}) \in BOOLEAN
      OBVIOUS
    <3> QED
      BY <2>1, <3>1, Zenon
  <2>3. ~\E b \in pressed : <<"pad", b>> \in held
    BY DEF InputsRight
  <2> HIDE DEF pressed
  <2>4. Leads(Windows!Shown, v, dialogId["osk"])
    BY ButtonsLead DEF ShownRight
  <2> HIDE DEF v
  <2>5. GuestSide' /\ ShownRight' /\ stray' \in BOOLEAN /\ dialog' \in {dialog, None}
    BY <1>1, <2>1, <2>4, WidgetStep
  <2>6. InputsRight'
    BY <1>1, <2>1, <2>2, <2>3, <2>5, TimerInputs
  <2> QED
    BY <2>5, <2>6
<1> QED
  BY <1>2, <1>3

\* A key goes down or up.
LEMMA KeyInputs ==
  ASSUME InputsRight, part' = part, NEW b \in Windows!Buttons, keys' = keys \cup {b},
         keyboard' = keyboard \/ (dialog = None /\ keyboard' = keyboard \cup {b}), dialog' \in {dialog, None},
         surprised' = surprised \/ (OnMacos /\ surprised' = surprised \cup {"key"}),
         inputs' = inputs - 1, inputs > 0, UNCHANGED <<pad, previous, armed, held>>
  PROVE  InputsRight'
<1>1. inputs' \in 0..MaxInputs
  BY DialogBounds DEF InputsRight
<1>2. surprised' \subseteq IF OnMacos' THEN {"key"} ELSE {}
  BY DEF InputsRight, OnMacos
<1> QED
  BY <1>1, <1>2 DEF InputsRight, OnMacos, Windows!Buttons

\* A key goes up: it is held no longer.
LEMMA KeyUpInputs ==
  ASSUME InputsRight, part' = part, NEW b, keys' = keys \ {b},
         keyboard' = IF dialog = None THEN keyboard \ {b} ELSE keyboard, dialog' = dialog,
         held' = held \ {<<"key", b>>}, inputs' = inputs - 1, inputs > 0, UNCHANGED <<pad, previous, armed, surprised>>
  PROVE  InputsRight'
<1>1. inputs' \in 0..MaxInputs
  BY DialogBounds DEF InputsRight
<1>2. keyboard' \subseteq keys' /\ (dialog' # None => keyboard' = {})
  BY DEF InputsRight
<1>3. \A c : (<<"pad", c>> \in held' => c \in pad) /\ (<<"key", c>> \in held' => c \in keys')
  <2>1. \A c : <<"key", c>> \in held' => c # b
    OBVIOUS
  <2> QED
    BY <2>1 DEF InputsRight
<1> QED
  BY <1>1, <1>2, <1>3 DEF InputsRight, OnMacos, Windows!Buttons

\* A button goes down or up.
LEMMA PadInputs ==
  ASSUME InputsRight, part' = part, NEW b \in Windows!Buttons, dialog' = dialog,
         \/ pad' = pad \ {b} /\ held' = held \ {<<"pad", b>>}
         \/ pad' = pad \cup {b} /\ held' = held,
         inputs' = inputs - 1, inputs > 0, UNCHANGED <<keys, keyboard, previous, armed, surprised>>
  PROVE  InputsRight'
<1>1. inputs' \in 0..MaxInputs
  BY DialogBounds DEF InputsRight
<1>2. \A c : (<<"pad", c>> \in held' => c \in pad') /\ (<<"key", c>> \in held' => c \in keys)
  <2>1. pad' = pad \ {b} => \A c : <<"pad", c>> \in held \ {<<"pad", b>>} => c # b
    OBVIOUS
  <2> QED
    BY <2>1 DEF InputsRight
<1> QED
  BY <1>1, <1>2 DEF InputsRight, OnMacos, Windows!Buttons

\* A key that is down: a repeated one answers only where repeats count.
LEMMA KeyPressStep ==
  ASSUME GuestSide, ShownRight, InputsRight, stray \in BOOLEAN, part' = part, GuestSame, NEW b \in Windows!Buttons,
         NEW repeat \in BOOLEAN,
         (part = "windows" /\ Windows!Key(b, repeat)) \/ (part = "macos" /\ Macos!Key(b, repeat)),
         inputs' = inputs - 1, inputs > 0, UNCHANGED <<waiting, posted, pad, previous, armed, held>>
  PROVE  GuestSide' /\ ShownRight' /\ InputsRight' /\ stray' \in BOOLEAN
<1>1. keys' = keys \cup {b} /\ (~repeat => b \notin keys)
  BY DEF Windows!Key, Macos!Key
<1>2. CASE dialog = None
  <2>1. keyboard' = keyboard \cup {b} /\ ShowsSame /\ surprised' = surprised
    BY <1>2 DEF Windows!Key, Macos!Key, Windows!widget, Macos!widget, ShowsSame
  <2>2. dialog' \in {dialog, None}
    BY <2>1 DEF ShowsSame
  <2>3. InputsRight'
    BY <1>1, <1>2, <2>1, <2>2, KeyInputs
  <2> QED
    BY <2>1, <2>3, StillStep
<1>3. CASE dialog # None
  <2> DEFINE pressed == IF b = "start" THEN Windows!complete(Windows!Shown, FALSE)
                        ELSE Windows!handle_buttons(Windows!Shown, {b})
             v == IF part = "windows" /\ repeat THEN Windows!Shown ELSE pressed
  <2>1. /\ keyboard' = keyboard /\ Windows!Becomes(v)
        /\ surprised' = IF <<"key", b>> \in held /\ v.dialog = None THEN surprised \cup {"key"} ELSE surprised
    <3>1. CASE part = "windows" /\ Windows!Key(b, repeat)
      BY <1>3, <3>1 DEF Windows!Key, Windows!handle_dialog_key, Windows!DialogKey, Windows!Windows
    <3>2. CASE part = "macos" /\ Macos!Key(b, repeat)
      <4>1. Macos!KeyboardMonitor(b, repeat) = pressed
        BY SameComplete, SameButtons, SameShown DEF Macos!KeyboardMonitor, Macos!DialogKey
      <4>2. v = pressed
        BY <3>2
      <4> HIDE DEF v, pressed
      <4> QED
        BY <1>3, <3>2, <4>1, <4>2, SameShown DEF Macos!Key, Macos!Windows
    <3> QED
      BY <3>1, <3>2
  <2>2. Leads(Windows!Shown, v, dialogId["osk"])
    BY DialogKeyLeads, LeadsNowhere DEF ShownRight
  <2>3. <<"key", b>> \in held /\ v.dialog = None => OnMacos
    <3> SUFFICES ASSUME <<"key", b>> \in held, part = "windows" PROVE v.dialog # None
      BY DEF OnMacos
    <3>1. repeat
      BY <1>1 DEF InputsRight
    <3>2. v = Windows!Shown
      BY <3>1
    <3> HIDE DEF v
    <3> QED
      BY <1>3, <3>2 DEF Windows!Shown
  <2> HIDE DEF v
  <2>4. GuestSide' /\ ShownRight' /\ stray' \in BOOLEAN /\ dialog' \in {dialog, None}
    BY <2>1, <2>2, WidgetStep
  <2>5. surprised' = surprised \/ (OnMacos /\ surprised' = surprised \cup {"key"})
    BY <2>1, <2>3
  <2>6. InputsRight'
    BY <1>1, <2>1, <2>4, <2>5, KeyInputs
  <2> QED
    BY <2>4, <2>6
<1> QED
  BY <1>2, <1>3

\* A key goes down, is reported again, or goes up.
LEMMA KeyboardStep ==
  ASSUME GuestSide, ShownRight, InputsRight, stray \in BOOLEAN, part' = part, NEW b \in Windows!Buttons,
         (part = "windows" /\ Windows!UseKeyboard(b)) \/ (part = "macos" /\ Macos!UseKeyboard(b))
  PROVE  GuestSide' /\ ShownRight' /\ InputsRight' /\ stray' \in BOOLEAN
<1>1. /\ GuestSame /\ inputs > 0 /\ inputs' = inputs - 1 /\ UNCHANGED <<waiting, posted, pad, previous, armed>>
      /\ \/ \E repeat \in BOOLEAN : /\ (part = "windows" /\ Windows!Key(b, repeat)) \/ (part = "macos" /\ Macos!Key(b, repeat))
                                    /\ held' = held
         \/ Windows!KeyUp(b) /\ held' = held \ {<<"key", b>>}
  BY DEF Windows!UseKeyboard, Macos!UseKeyboard, GuestSame, Windows!calls, Macos!calls, Windows!KeyUp, Macos!KeyUp,
     Windows!widget, Macos!widget
<1>2. ASSUME NEW repeat \in BOOLEAN, held' = held,
             (part = "windows" /\ Windows!Key(b, repeat)) \/ (part = "macos" /\ Macos!Key(b, repeat))
      PROVE  GuestSide' /\ ShownRight' /\ InputsRight' /\ stray' \in BOOLEAN
  BY <1>1, <1>2, KeyPressStep
<1>3. CASE Windows!KeyUp(b) /\ held' = held \ {<<"key", b>>}
  <2>1. /\ keys' = keys \ {b} /\ keyboard' = IF dialog = None THEN keyboard \ {b} ELSE keyboard
        /\ ShowsSame /\ surprised' = surprised
    BY <1>3 DEF Windows!KeyUp, Windows!widget, ShowsSame
  <2>2. InputsRight'
    BY <1>1, <1>3, <2>1, KeyUpInputs DEF ShowsSame
  <2> QED
    BY <1>1, <2>1, <2>2, StillStep
<1> QED
  BY <1>1, <1>2, <1>3

\* A button of the controller.
LEMMA ControllerStep ==
  ASSUME GuestSide, ShownRight, InputsRight, stray \in BOOLEAN, part' = part, NEW b \in Windows!Buttons,
         Windows!UseController(b) \/ Macos!UseController(b)
  PROVE  GuestSide' /\ ShownRight' /\ InputsRight' /\ stray' \in BOOLEAN
<1>1. /\ GuestSame /\ inputs > 0 /\ inputs' = inputs - 1 /\ UNCHANGED <<waiting, posted, surprised>> /\ ShowsSame
      /\ UNCHANGED <<keys, previous, armed, keyboard>>
      /\ \/ pad' = pad \ {b} /\ held' = held \ {<<"pad", b>>}
         \/ pad' = pad \cup {b} /\ held' = held
  BY DEF Windows!UseController, Macos!UseController, GuestSame, Windows!calls, Macos!calls, Windows!widget,
     Macos!widget, ShowsSame
<1>2. dialog' = dialog
  BY <1>1 DEF ShowsSame
<1>3. InputsRight'
  BY <1>1, <1>2, PadInputs
<1> QED
  BY <1>1, <1>3, StillStep

\* Letters are typed or erased.
LEMMA TextStep ==
  ASSUME GuestSide, ShownRight, InputsRight, stray \in BOOLEAN, part' = part, Windows!TypeText \/ Macos!TypeText
  PROVE  GuestSide' /\ ShownRight' /\ InputsRight' /\ stray' \in BOOLEAN
<1>1. /\ GuestSame /\ UNCHANGED <<waiting, posted, surprised>> /\ inputs > 0 /\ inputs' = inputs - 1
      /\ UNCHANGED <<pad, keys, previous, armed, keyboard, held>>
  BY DEF Windows!TypeText, Macos!TypeText, GuestSame, Windows!calls, Macos!calls
<1>2. \E v \in {Windows!insert(Windows!Shown), Windows!backspace(Windows!Shown)} : Windows!Becomes(v)
  BY SameShown, SameText DEF Windows!TypeText, Macos!TypeText
<1>3. PICK v \in {Windows!insert(Windows!Shown), Windows!backspace(Windows!Shown)} : Windows!Becomes(v)
  BY <1>2
<1>4. Leads(Windows!Shown, v, dialogId["osk"])
  BY <1>3, InsertLeads, BackspaceLeads DEF ShownRight
<1>5. GuestSide' /\ ShownRight' /\ stray' \in BOOLEAN /\ dialog' \in {dialog, None}
  BY <1>1, <1>3, <1>4, WidgetStep
<1>6. inputs' \in 0..MaxInputs
  BY <1>1, DialogBounds DEF InputsRight
<1>7. InputsRight'
  BY <1>1, <1>5, <1>6 DEF InputsRight, OnMacos, Windows!Buttons
<1> QED
  BY <1>5, <1>7

\* A click on a button of the dialog.
LEMMA ClickStep ==
  ASSUME GuestSide, ShownRight, InputsRight, stray \in BOOLEAN, part' = part, Windows!Click \/ Macos!Click
  PROVE  GuestSide' /\ ShownRight' /\ InputsRight' /\ stray' \in BOOLEAN
<1> DEFINE clicks == CASE dialog.kind = "savedata" -> Windows!build_savedata(Windows!Shown)
                       [] dialog.kind = "osk"      -> Windows!build_osk(Windows!Shown)
                       [] OTHER                    -> Windows!build_generic(Windows!Shown)
<1>1. /\ dialog # None /\ GuestSame /\ UNCHANGED <<waiting, posted, surprised>>
      /\ UNCHANGED <<pad, keys, previous, armed, keyboard, inputs, held>>
  BY DEF Windows!Click, Macos!Click, GuestSame, Windows!calls, Macos!calls, Windows!input, Macos!input
<1>2. \E v \in clicks : Windows!Becomes(v)
  <2>1. CASE Windows!Click
    BY <2>1 DEF Windows!Click
  <2>2. CASE Macos!Click
    <3>1. /\ Macos!build_savedata(Macos!Shown) = Windows!build_savedata(Windows!Shown)
          /\ Macos!build_osk(Macos!Shown) = Windows!build_osk(Windows!Shown)
          /\ Macos!build_generic(Macos!Shown) = Windows!build_generic(Windows!Shown)
      BY SameShown, SameClicks
    <3>2. \E v \in clicks : Macos!Becomes(v)
      BY <2>2, <3>1 DEF Macos!Click
    <3> QED
      BY <3>2, SameShown
  <2> QED
    BY <2>1, <2>2
<1>3. PICK v \in clicks : Windows!Becomes(v)
  BY <1>2
<1>4. Leads(Windows!Shown, v, dialogId["osk"])
  <2>1. Windows!Shown.dialog = dialog
    BY DEF Windows!Shown
  <2>2. WidgetRight(Windows!Shown, dialogId["osk"])
    BY DEF ShownRight
  <2>3. v \in CASE Windows!Shown.dialog.kind = "savedata" -> Windows!build_savedata(Windows!Shown)
                [] Windows!Shown.dialog.kind = "osk"      -> Windows!build_osk(Windows!Shown)
                [] OTHER                    -> Windows!build_generic(Windows!Shown)
    BY <2>1
  <2> QED
    BY <1>1, <2>1, <2>2, <2>3, ClickLeads
<1>5. GuestSide' /\ ShownRight' /\ stray' \in BOOLEAN /\ dialog' \in {dialog, None}
  BY <1>1, <1>3, <1>4, WidgetStep
<1>6. InputsRight'
  BY <1>1, <1>5, InputsStill DEF InputsSame
<1> QED
  BY <1>5, <1>6

-----------------------------------------------------------------------------
(* Dialogs: every reachable state *)

\* Every step of the dialogs keeps the invariant.
LEMMA DialogsStep ==
  ASSUME DialogInv, Dialogs, part' = part
  PROVE  DialogInv'
<1>1. OnDialogs /\ GuestSide /\ ShownRight /\ InputsRight /\ stray \in BOOLEAN
  BY DEF DialogInv, OnDialogs, Dialogs
<1>2. CASE (part = "windows" /\ Windows!DialogCalls) \/ (part = "macos" /\ Macos!DialogCalls)
  BY <1>1, <1>2, CallStep DEF DialogInv
<1>3. CASE (part = "windows" /\ Windows!DialogPolls) \/ (part = "macos" /\ Macos!DialogPolls)
  BY <1>1, <1>3, PollStep DEF DialogInv
<1>4. CASE (part = "windows" /\ Windows!DialogInput) \/ (part = "macos" /\ Macos!DialogInput)
  <2>1. ASSUME NEW b \in Windows!Buttons,
               (part = "windows" /\ Windows!UseKeyboard(b)) \/ (part = "macos" /\ Macos!UseKeyboard(b))
        PROVE  DialogInv'
    BY <1>1, <2>1, KeyboardStep DEF DialogInv
  <2>2. ASSUME NEW b \in Windows!Buttons, Windows!UseController(b) \/ Macos!UseController(b)
        PROVE  DialogInv'
    BY <1>1, <2>2, ControllerStep DEF DialogInv
  <2>3. ASSUME Windows!Click \/ Macos!Click PROVE DialogInv'
    BY <1>1, <2>3, ClickStep DEF DialogInv
  <2>4. ASSUME Windows!TypeText \/ Macos!TypeText PROVE DialogInv'
    BY <1>1, <2>4, TextStep DEF DialogInv
  <2> QED
    BY <1>4, <2>1, <2>2, <2>3, <2>4, SameShown DEF Windows!DialogInput, Macos!DialogInput
<1>5. CASE (part = "windows" /\ Windows!HandleMessage) \/ (part = "macos" /\ Macos!HandleMessage)
  BY <1>1, <1>5, MessageStep DEF DialogInv
<1>6. CASE (part = "windows" /\ Windows!DialogTimer) \/ (part = "macos" /\ Macos!DialogTimer)
  BY <1>1, <1>6, TimerStep DEF DialogInv
<1> QED
  BY <1>2, <1>3, <1>4, <1>5, <1>6 DEF Dialogs

\* No step of another part touches them.
LEMMA DialogsStutter ==
  ASSUME DialogInv, UNCHANGED <<part, dialogs>>
  PROVE  DialogInv'
<1>1. /\ GuestSame /\ ShowsSame /\ InputsSame /\ part' = part /\ UNCHANGED <<waiting, posted>>
  BY DEF dialogs, GuestSame, ShowsSame, InputsSame
<1>2. CASE OnDialogs
  <2>1. GuestSide /\ ShownRight /\ InputsRight /\ stray \in BOOLEAN
    BY <1>2 DEF DialogInv
  <2>2. InputsRight'
    BY <1>1, <2>1, InputsStill DEF ShowsSame
  <2> QED
    BY <1>1, <2>1, <2>2, StillStep DEF DialogInv
<1>3. CASE ~OnDialogs
  BY <1>1, <1>3 DEF DialogInv, OnDialogs
<1> QED
  BY <1>2, <1>3

\* At first nothing is shown.
LEMMA DialogsInitially == Init => DialogInv
<1> SUFFICES ASSUME Init PROVE GuestSide /\ ShownRight /\ InputsRight /\ stray \in BOOLEAN
  BY DEF DialogInv
<1>1. Windows!DialogsInit
  BY DEF Init
<1>2. DialogTypes
  <2>1. silent \in BOOLEAN /\ active \in Utilities \cup {None}
    BY <1>1 DEF Windows!DialogsInit
  <2>2. status \in [Utilities -> 0..4] /\ dialogId \in [Utilities -> (1..MaxDialogs) \cup {None}]
    BY <1>1 DEF Windows!DialogsInit, Windows!Utilities, Utilities
  <2>3. nextId \in 1..(MaxDialogs + 1)
    BY <1>1, DialogBounds DEF Windows!DialogsInit
  <2>4. told = [u \in Utilities |-> told[u]]
    BY <1>1 DEF Windows!DialogsInit, Windows!Utilities, Utilities
  <2>5. posted \in Seq(Messages)
    BY <1>1 DEF Windows!DialogsInit
  <2> QED
    BY <2>1, <2>2, <2>3, <2>4, <2>5 DEF DialogTypes
<1>3. ModelsToCome /\ DialogIds
  BY <1>1 DEF Windows!DialogsInit, ModelsToCome, DialogIds, Windows!Utilities, Utilities
<1>4. ShownInUse /\ ToldRight
  BY <1>1, NoneIsNothing DEF Windows!DialogsInit, ShownInUse, ToldRight, Windows!Utilities, Utilities, Windows!Untold
<1>5. ShownRight
  <2>1. dangling = FALSE /\ dangling \in BOOLEAN
    BY <1>1 DEF Windows!DialogsInit
  <2>2. /\ Windows!Shown.dialog = None /\ Windows!Shown.answer = None /\ Windows!Shown \in Widgets
        /\ Windows!Shown.editors = <<>>
    BY <1>1, <2>1 DEF Windows!DialogsInit, Windows!Shown, Widgets
  <2> QED
    BY <2>2 DEF ShownRight, WidgetRight, EditorFits, EditorsFit
<1>6. InputsRight /\ stray \in BOOLEAN
  <2>1. armed = FALSE /\ stray = FALSE
    BY <1>1 DEF Windows!DialogsInit
  <2>2. ~armed /\ armed \in BOOLEAN /\ stray \in BOOLEAN
    BY <2>1
  <2>3. /\ pad = {} /\ keys = {} /\ previous = {} /\ keyboard = {} /\ held = {} /\ surprised = {} /\ inputs = MaxInputs
    BY <1>1 DEF Windows!DialogsInit
  <2> QED
    BY <2>2, <2>3, DialogBounds DEF InputsRight
<1> QED
  BY <1>2, <1>3, <1>4, <1>5, <1>6 DEF GuestSide

\* Whatever the guest calls and whoever answers, on both platforms.
THEOREM DialogInvariant == Spec => []DialogInv
<1>1. DialogInv /\ [Next]_vars => DialogInv'
  <2> SUFFICES ASSUME DialogInv, [Next]_vars PROVE DialogInv'
    OBVIOUS
  <2>1. CASE Dialogs /\ UNCHANGED part
    BY <2>1, DialogsStep
  <2>2. CASE UNCHANGED <<part, dialogs>>
    BY <2>2, DialogsStutter
  <2> QED
    BY <2>1, <2>2 DEF Next, vars
<1> QED
  BY <1>1, DialogsInitially, PTL DEF Spec

\* What the invariant says of each part.
LEMMA DialogsSuffice == DialogInv => DialogsSound
<1> SUFFICES ASSUME OnDialogs, DialogInv PROVE DialogsSound
  BY DEF DialogsSound, OnDialogs
<1>1. GuestSide /\ ShownRight /\ InputsRight /\ stray \in BOOLEAN
  BY DEF DialogInv
<1>2. keyboard \subseteq Windows!Buttons /\ surprised \subseteq {"pad", "key"}
  BY <1>1 DEF InputsRight
<1>10. dangling \in BOOLEAN /\ (~dangling => Len(editors) <= 1) /\ Len(editors) \in Nat
  <2>1. Windows!Shown.dangling = dangling /\ Windows!Shown.editors = editors
    BY DEF Windows!Shown
  <2> QED
    BY <1>1, <2>1 DEF ShownRight, WidgetRight, Widgets, EditorsFit
<1>3. Windows!DialogsTypeOK
  BY <1>1, <1>2, <1>10 DEF Windows!DialogsTypeOK, GuestSide, DialogTypes, InputsRight, Windows!Utilities, Utilities
<1>4. Windows!OneUtility
  <2> SUFFICES ASSUME ~stray PROVE /\ \A u \in Utilities : status[u] # 0 <=> active = u
                                   /\ posted = <<>> /\ dialog # None => InUse(dialog.id)
    BY DEF Windows!OneUtility, Windows!Utilities, Utilities, InUse
  <2>1. posted = <<>> => \A id : ~Dismissed(id, 0)
    BY DEF Dismissed
  <2> QED
    BY <1>1, <2>1 DEF GuestSide, ShownInUse
<1>5. ~dangling => Windows!TellsOwnAnswer
  <2> SUFFICES ASSUME ~dangling, NEW u \in Utilities, told[u].from # None
               PROVE  \E k \in DOMAIN given :
                        /\ given[k].id = told[u].from
                        /\ told[u].result = IF given[k].cancelled THEN "cancelled" ELSE "ok"
                        /\ told[u].item = given[k].item
                        /\ u = "osk" => told[u].text = given[k].text
    BY DEF Windows!TellsOwnAnswer, Windows!Utilities, Utilities
  <2>1. Len(editors) > 0 => Len(editors) = 1
    <3> DEFINE l == Len(editors)
    <3>1. l \in Nat /\ l <= 1
      BY <1>10
    <3> HIDE DEF l
    <3>2. l > 0 => l = 1
      BY <3>1
    <3> QED
      BY <3>2 DEF l
  <2>2. PICK k \in DOMAIN given :
          /\ given[k].id = told[u].from /\ told[u].item = given[k].item
          /\ told[u].result = IF given[k].cancelled THEN "cancelled" ELSE "ok"
          /\ u = "osk" => Len(editors) > 0 /\ (Len(editors) = 1 => told[u].text = given[k].text)
    BY <1>1 DEF GuestSide, ToldRight
  <2> QED
    BY <2>1, <2>2
<1>6. Windows!NoKeySticks
  BY <1>1 DEF InputsRight, Windows!NoKeySticks
<1>7. part = "windows" => Windows!HeldNeverAnswers
  BY <1>1 DEF InputsRight, OnMacos, Windows!HeldNeverAnswers, Windows!Windows
<1>8. part = "macos" => Macos!HeldNeverAnswers
  BY <1>1 DEF InputsRight, OnMacos, Macos!HeldNeverAnswers, Macos!Windows
<1>9. /\ Macos!DialogsTypeOK <=> Windows!DialogsTypeOK
      /\ Macos!OneUtility <=> Windows!OneUtility
      /\ Macos!TellsOwnAnswer <=> Windows!TellsOwnAnswer
      /\ Macos!NoKeySticks <=> Windows!NoKeySticks
  BY DEF Macos!DialogsTypeOK, Windows!DialogsTypeOK, Macos!OneUtility, Windows!OneUtility, Macos!TellsOwnAnswer,
     Windows!TellsOwnAnswer, Macos!NoKeySticks, Windows!NoKeySticks, Macos!Utilities, Windows!Utilities,
     Macos!Buttons, Windows!Buttons
<1> QED
  BY <1>3, <1>4, <1>5, <1>6, <1>7, <1>8, <1>9 DEF DialogsSound, Windows!DialogsSound, Macos!DialogsSound

\* The dialogs of both front ends, until an editor or a key of a closed keyboard
\* is used, which a second dialog may do: one utility runs at a time and is told
\* the answer to its own dialog, with the text that was typed in it; what was
\* down before a dialog does not answer it; no key sticks.
THEOREM DialogsAreSound == Spec => []DialogsSound
  BY DialogInvariant, DialogsSuffice, PTL

-----------------------------------------------------------------------------
(* Frames: the pictures of the processor and of the graphics engine *)

OnFrames == part = "frames"
Pictured == [address : Addresses, picture : Pictures, upload : BOOLEAN]
FrameMessages == [kind : {"render"}] \cup [kind : {"upload"}, frame : Pictured]
CpuPictures == [picture : Pictures, generation : Nat]
IsMap(map, S) == DOMAIN map \subseteq Addresses /\ \A a \in DOMAIN map : map[a] \in S

\* Where the threads can be, and what they hand to each other.
FrameTypes ==
    /\ system \in {"windows", "macos"}
    /\ gstep \in {"idle", "list", "present", "tell", "tell empty", "record", "store", "address"}
    /\ gstep = "address" => system = "windows"
    /\ gstep \in {"record", "store", "address"} => presents > 0
    /\ presents \in 0..MaxPresents
    /\ presents > 0 => frame \in Pictured
    /\ generation \in Nat /\ generation + (IF gstep \in {"record", "store"} THEN 1 ELSE 0) <= presents
    /\ display \in Addresses /\ outstanding \in BOOLEAN /\ invalid \in BOOLEAN
    /\ latest \in [Addresses -> {"none", "cpu", "ge"}]
    /\ sources \in [Addresses -> [hash : Pictures \cup {Nothing}, cpu : BOOLEAN]]
    /\ IsMap(cpuFrames, CpuPictures) /\ IsMap(cpuTextures, CpuPictures)
    /\ wstep \in {"idle", "display"} \cup Addresses /\ (wstep \in Addresses => system = "windows")
    /\ queued \in Seq(FrameMessages)
    /\ \A k \in DOMAIN queued : queued[k].kind = "upload" => system = "macos"

\* Batches on their way, in the order in which they were submitted.
Rises(q) == \A i, j \in DOMAIN q : i < j => q[i] < q[j]
Comes(q, r) == \A i \in DOMAIN q, j \in DOMAIN r : q[i] < r[j]
Waiting == {building[k] : k \in DOMAIN building} \cup {pending[k] : k \in DOMAIN pending}
             \cup {presented[k] : k \in DOMAIN presented}
BatchesInOrder ==
    /\ made \in Seq(Shapes)
    /\ \A q \in {building, pending, presented} : q \in Seq(DOMAIN made) /\ Rises(q)
    /\ Comes(presented, pending) /\ Comes(presented, building) /\ Comes(pending, building)
    /\ lost \subseteq DOMAIN made \ Waiting
    /\ \A n \in DOMAIN made \ Waiting, m \in Waiting : n < m
    /\ gstep # "list" => building = <<>>

\* A target, after the batches D have been drawn.
Samples ==
    ({"upload", "freed"} \X {s.hash : s \in Shapes}) \cup ({"target"} \X Addresses) \cup {<<"plain", Nothing>>}
RenderTargets == [size : Nat, drawn : Seq(Nat \X Samples)]
Aimed(a, D) == {n \in D : made[n].to = a}
Grows(a, D) == {n \in Aimed(a, D) : \A m \in Aimed(a, D) : m < n => made[m].size < made[n].size}
Since(a, D) == {n \in Aimed(a, D) : ~made[n].clipped /\ \A g \in Grows(a, D) : g <= n}
SampleRight(n, from) ==
    CASE from[1] = "upload" -> from[2] = made[n].hash
      [] from[1] = "target" -> made[n].texture = from[2] \/ (system = "windows" /\ made[n].texture = Nothing)
      [] from[1] = "freed" -> system = "windows"
      [] from[1] = "plain" -> made[n].hash = Nothing
TargetRight(t, a, D) ==
    /\ t \in RenderTargets
    /\ \E n \in Aimed(a, D) : made[n].size = t.size
    /\ \A n \in Aimed(a, D) : made[n].size <= t.size
    /\ {t.drawn[k][1] : k \in DOMAIN t.drawn} = Since(a, D)
    /\ \A k, l \in DOMAIN t.drawn : k < l => t.drawn[k][1] < t.drawn[l][1]
    /\ \A k \in DOMAIN t.drawn : SampleRight(t.drawn[k][1], t.drawn[k][2])
TargetsRight(ts, D) ==
    /\ DOMAIN ts = {made[n].to : n \in D}
    /\ \A a \in DOMAIN ts : TargetRight(ts[a], a, D)

\* Who wrote an address last.
SourcesRight ==
    /\ \A a \in Addresses : sources[a].cpu <=> latest[a] = "cpu"
    /\ \A a \in Addresses : latest[a] = "cpu" => sources[a].hash # Nothing
    /\ \A n \in DOMAIN made : latest[made[n].to] # "none"
    /\ presents > 0 /\ gstep # "record" => sources[frame.address].hash = frame.picture
    /\ presents > 0 /\ (system = "macos" \/ gstep \notin {"record", "store", "address"}) =>
         display = frame.address

\* An address whose new picture has been recorded and not yet stored.
Owed(a) == gstep = "store" /\ frame.address = a /\ frame.upload
Holds(map, a) ==
    /\ a \in DOMAIN map <=> sources[a].hash # Nothing
    /\ a \in DOMAIN map => map[a].picture = sources[a].hash
\* Windows: pictures stored are those recorded, and textures those stored
\* unless their generation says otherwise.
StoredRight ==
    /\ \A a \in Addresses : Owed(a) \/ Holds(cpuFrames, a)
    /\ \A a \in DOMAIN cpuFrames : cpuFrames[a].generation <= generation
    /\ \A a \in DOMAIN cpuTextures :
         /\ a \in DOMAIN cpuFrames /\ cpuTextures[a].generation <= cpuFrames[a].generation
         /\ cpuTextures[a].generation = cpuFrames[a].generation => cpuTextures[a].picture = cpuFrames[a].picture

\* macOS: the same of the textures there will be when the queue is empty.
IsUpload(k, a) == queued[k].kind = "upload" /\ queued[k].frame.address = a
Uploads(a) == {k \in DOMAIN queued : IsUpload(k, a)}
UploadsRight ==
    /\ \A a \in Addresses : Owed(a) \/
         IF Uploads(a) = {} THEN Holds(cpuTextures, a)
         ELSE \A k \in Uploads(a) :
                (\A j \in Uploads(a) : j <= k) => queued[k].frame.picture = sources[a].hash
    /\ \A a \in Addresses : \A k \in Uploads(a) : ~queued[k].frame.upload =>
         /\ (\A j \in Uploads(a) : k <= j) /\ a \in DOMAIN cpuTextures =>
              cpuTextures[a].picture = queued[k].frame.picture
         /\ \A j \in Uploads(a) : j < k /\ (\A i \in Uploads(a) : i <= j \/ k <= i) =>
              queued[j].frame.picture = queued[k].frame.picture

\* What the window would show now.
Showing ==
    IF system = "windows"
      THEN IF sources[display].cpu
             THEN IF display \in DOMAIN cpuFrames THEN <<"cpu", cpuFrames[display].picture>> ELSE <<"none", Nothing>>
             ELSE Frames!TargetShown(display)
      ELSE CASE sources[display].cpu /\ display \in DOMAIN cpuTextures -> <<"cpu", cpuTextures[display].picture>>
             [] ~sources[display].cpu /\ display \in DOMAIN targets -> Frames!TargetShown(display)
             [] OTHER -> IF lastTexture = Nothing THEN <<"none", Nothing>> ELSE <<"cpu", lastTexture>>
\* Nothing is on its way to the window.
Quiet ==
    /\ IF system = "windows" THEN gstep \in {"idle", "list"} ELSE gstep \notin {"record", "store"}
    /\ building = <<>> /\ pending = <<>> /\ presented = <<>> /\ queued = <<>> /\ ~invalid
WindowRight ==
    /\ Frames!NoFrameForgotten /\ (outstanding => system = "windows" /\ queued # <<>>)
    /\ Quiet /\ wstep = "idle" => screen = Showing
    /\ Quiet /\ wstep \in Addresses => wstep = display /\ sources[display].cpu

FramesRight ==
    /\ FrameTypes /\ BatchesInOrder /\ TargetsRight(targets, Frames!Drawn) /\ SourcesRight
    /\ (system = "windows" => StoredRight) /\ (system = "macos" => UploadsRight)
    /\ WindowRight
FramesInv == OnFrames => FramesRight

\* What is assumed of the addresses, the batches and the bounds.
LEMMA FramesFacts ==
  /\ VramStart \in Addresses /\ Nothing \notin Addresses /\ Nothing \notin Pictures
  /\ "idle" \notin Addresses /\ "display" \notin Addresses
  /\ \A s \in Shapes : s.to \in Addresses /\ s.size \in Nat \ {0} /\ s.clipped \in BOOLEAN
  /\ TextureLimit \in Nat \ {0} /\ MaxBatches \in Nat /\ MaxPresents \in Nat
  BY DesktopAssumption DEF Frames!FramesAssumption

\* The map with one more entry.
LEMMA PutDomain ==
  ASSUME NEW map, NEW x, NEW v
  PROVE  DOMAIN Frames!Put(map, x, v) = DOMAIN map \cup {x}
  BY DEF Frames!Put

\* What is put into a map is there.
LEMMA PutAt ==
  ASSUME NEW map, NEW x, NEW v
  PROVE  Frames!Put(map, x, v)[x] = v
<1>1. x \in DOMAIN map \cup {x}
  OBVIOUS
<1> QED
  BY <1>1, Zenon DEF Frames!Put

\* The other entries of the map stay.
LEMMA PutElse ==
  ASSUME NEW map, NEW x, NEW v, NEW b \in DOMAIN map, b # x
  PROVE  Frames!Put(map, x, v)[b] = map[b]
  BY DEF Frames!Put

\* What a batch of this shape samples is its own texture or a target.
LEMMA SampleIs ==
  ASSUME made \in Seq(Shapes), NEW n \in DOMAIN made, system \in {"windows", "macos"},
         NEW w, DOMAIN w.targets \subseteq Addresses
  PROVE  LET taken == IF Frames!OnWindows THEN Frames!windows_sampled(w, made[n]) ELSE Frames!macos_sampled(w, made[n])
         IN  taken.sampled \in Samples /\ SampleRight(n, taken.sampled)
<1> DEFINE s == made[n]
<1>1. s \in Shapes /\ s.hash \in {t.hash : t \in Shapes}
  OBVIOUS
<1>2. /\ \A h \in {t.hash : t \in Shapes} : <<"upload", h>> \in Samples /\ <<"freed", h>> \in Samples
      /\ \A a \in Addresses : <<"target", a>> \in Samples
      /\ <<"plain", Nothing>> \in Samples
  BY DEF Samples
<1>3. CASE system = "windows"
  <2> DEFINE taken == Frames!windows_sampled(w, s)
             from == IF s.texture = Nothing THEN VramStart ELSE s.texture
  <2>1. CASE from \in DOMAIN w.targets
    <3>1. taken.sampled = <<"target", from>>
      BY <2>1 DEF Frames!windows_sampled
    <3>2. from \in Addresses
      BY <2>1
    <3>3. SampleRight(n, <<"target", from>>)
      BY <1>3 DEF SampleRight
    <3> QED
      BY <1>2, <1>3, <3>1, <3>2, <3>3 DEF Frames!OnWindows
  <2>2. CASE from \notin DOMAIN w.targets /\ s.hash # Nothing
    <3>1. taken.sampled = Frames!windows_uploaded_texture(w.cache, s).sampled
      BY <2>2 DEF Frames!windows_sampled
    <3> DEFINE with == Frames!Put(w.cache, s.texture, s.hash)
    <3>2. Frames!windows_uploaded_texture(w.cache, s).sampled \in {<<"freed", s.hash>>, <<"upload", s.hash>>}
      <4>1. with[s.texture] = s.hash
        BY PutAt
      <4> HIDE DEF with
      <4>2. \/ Frames!windows_uploaded_texture(w.cache, s).sampled = <<"freed", s.hash>>
            \/ Frames!windows_uploaded_texture(w.cache, s).sampled = <<"upload", with[s.texture]>>
        BY DEF Frames!windows_uploaded_texture, with
      <4> QED
        BY <4>1, <4>2
    <3>3. SampleRight(n, <<"freed", s.hash>>) /\ SampleRight(n, <<"upload", s.hash>>)
      BY <1>3 DEF SampleRight
    <3> QED
      BY <1>1, <1>2, <1>3, <3>1, <3>2, <3>3 DEF Frames!OnWindows
  <2>3. CASE from \notin DOMAIN w.targets /\ s.hash = Nothing
    <3>1. taken.sampled = <<"plain", Nothing>>
      BY <2>3 DEF Frames!windows_sampled
    <3>2. SampleRight(n, <<"plain", Nothing>>)
      BY <2>3 DEF SampleRight
    <3> QED
      BY <1>2, <1>3, <3>1, <3>2 DEF Frames!OnWindows
  <2> QED
    BY <2>1, <2>2, <2>3
<1>4. CASE system = "macos"
  <2> DEFINE taken == Frames!macos_sampled(w, s)
  <2>1. CASE s.texture \in DOMAIN w.targets
    <3>1. taken.sampled = <<"target", s.texture>> /\ s.texture \in Addresses
      BY <2>1 DEF Frames!macos_sampled
    <3>2. SampleRight(n, <<"target", s.texture>>)
      BY DEF SampleRight
    <3> QED
      BY <1>2, <1>4, <3>1, <3>2 DEF Frames!OnWindows
  <2>2. CASE s.texture \notin DOMAIN w.targets /\ s.hash # Nothing
    <3>1. taken.sampled = Frames!uploadedTextureForBatch(w.cache, s).sampled
      BY <2>2 DEF Frames!macos_sampled
    <3>2. Frames!uploadedTextureForBatch(w.cache, s).sampled = <<"upload", s.hash>>
      <4> DEFINE full == s.texture \notin DOMAIN w.cache /\ Frames!Cardinality(DOMAIN w.cache) >= TextureLimit
                 with == Frames!Put(IF full THEN Frames!Empty ELSE w.cache, s.texture, s.hash)
      <4>1. with[s.texture] = s.hash
        BY PutAt
      <4>2. Frames!uploadedTextureForBatch(w.cache, s) =
              [cache |-> with, sampled |-> <<"upload", with[s.texture]>>]
        BY Zenon DEF Frames!uploadedTextureForBatch
      <4> HIDE DEF with
      <4> QED
        BY <4>1, <4>2
    <3>3. SampleRight(n, <<"upload", s.hash>>)
      BY DEF SampleRight
    <3> QED
      BY <1>1, <1>2, <1>4, <3>1, <3>2, <3>3 DEF Frames!OnWindows
  <2>3. CASE s.texture \notin DOMAIN w.targets /\ s.hash = Nothing
    <3>1. taken.sampled = <<"plain", Nothing>>
      BY <2>3 DEF Frames!macos_sampled
    <3>2. SampleRight(n, <<"plain", Nothing>>)
      BY <2>3 DEF SampleRight
    <3> QED
      BY <1>2, <1>4, <3>1, <3>2 DEF Frames!OnWindows
  <2> QED
    BY <2>1, <2>2, <2>3
<1> QED
  BY <1>3, <1>4

\* A target that has not been aimed at again is what it was.
LEMMA OthersStay ==
  ASSUME NEW t, NEW a, NEW D, NEW n, made[n].to # a, TargetRight(t, a, D)
  PROVE  TargetRight(t, a, D \cup {n})
<1>1. Aimed(a, D \cup {n}) = Aimed(a, D)
  BY DEF Aimed
<1>2. Grows(a, D \cup {n}) = Grows(a, D) /\ Since(a, D \cup {n}) = Since(a, D)
  BY <1>1 DEF Grows, Since
<1> QED
  BY <1>1, <1>2 DEF TargetRight

\* A batch adds itself to its target, which is emptied first if it is too small.
LEMMA AimedGrows ==
  ASSUME made \in Seq(Shapes), NEW D \in SUBSET DOMAIN made, NEW n \in DOMAIN made, \A m \in D : m < n,
         NEW a, made[n].to = a
  PROVE  /\ Aimed(a, D \cup {n}) = Aimed(a, D) \cup {n}
         /\ (\E m \in Aimed(a, D) : made[n].size <= made[m].size) =>
              Since(a, D \cup {n}) = Since(a, D) \cup (IF made[n].clipped THEN {} ELSE {n})
         /\ (\A m \in Aimed(a, D) : made[m].size < made[n].size) =>
              Since(a, D \cup {n}) = IF made[n].clipped THEN {} ELSE {n}
<1>1. Aimed(a, D \cup {n}) = Aimed(a, D) \cup {n}
  BY DEF Aimed
<1>2. \A m \in Aimed(a, D) : m \in Nat /\ m < n /\ ~(n < m) /\ ~(n <= m) /\ made[m].size \in Nat
  <2>1. \A m \in DOMAIN made : m \in Nat /\ made[m] \in Shapes
    OBVIOUS
  <2> QED
    BY <2>1, FramesFacts DEF Aimed
<1>3. n \in Nat /\ made[n].size \in Nat /\ made[n].clipped \in BOOLEAN
  BY FramesFacts
<1>4. ASSUME NEW m \in Aimed(a, D) PROVE m \in Grows(a, D \cup {n}) <=> m \in Grows(a, D)
  BY <1>1, <1>2 DEF Grows
<1>5. n \in Grows(a, D \cup {n}) <=> \A m \in Aimed(a, D) : made[m].size < made[n].size
  <2>1. n \in Aimed(a, D \cup {n})
    BY <1>1, Zenon
  <2>4. ~(n < n)
    BY <1>3
  <2>2. \A m \in Aimed(a, D \cup {n}) : m = n \/ m \in Aimed(a, D)
    BY <1>1
  <2>3. \A m \in Aimed(a, D) : m \in Aimed(a, D \cup {n}) /\ m < n
    BY <1>1, <1>2
  <2> QED
    BY <2>1, <2>2, <2>3, <2>4, Zenon DEF Grows
<1>6. Grows(a, D \cup {n}) \subseteq Aimed(a, D) \cup {n} /\ Grows(a, D) \subseteq Aimed(a, D)
  BY <1>1 DEF Grows
<1>7. ASSUME \E m \in Aimed(a, D) : made[n].size <= made[m].size
      PROVE  Since(a, D \cup {n}) = Since(a, D) \cup (IF made[n].clipped THEN {} ELSE {n})
  <2>1. n \notin Grows(a, D \cup {n})
    BY <1>2, <1>3, <1>5, <1>7
  <2>2. Grows(a, D \cup {n}) = Grows(a, D)
    BY <2>1, <1>4, <1>6
  <2>3. \A g \in Grows(a, D) : g <= n
    BY <1>2, <1>3, <1>6
  <2> QED
    BY <1>1, <2>2, <2>3 DEF Since
<1>8. ASSUME \A m \in Aimed(a, D) : made[m].size < made[n].size
      PROVE  Since(a, D \cup {n}) = IF made[n].clipped THEN {} ELSE {n}
  <2>1. n \in Grows(a, D \cup {n})
    BY <1>5, <1>8
  <2>2. \A m \in Aimed(a, D) : m \notin Since(a, D \cup {n})
    BY <2>1, <1>2 DEF Since
  <2>3. \A g \in Grows(a, D \cup {n}) : g <= n
    BY <1>2, <1>3, <1>6
  <2>4. n \in Since(a, D \cup {n}) <=> ~made[n].clipped
    BY <1>1, <2>3 DEF Since
  <2>5. Since(a, D \cup {n}) \subseteq Aimed(a, D) \cup {n}
    BY <1>1 DEF Since
  <2> QED
    BY <2>2, <2>4, <2>5
<1> QED
  BY <1>1, <1>7, <1>8

\* Appending to what is drawn.
LEMMA AppendDrawn ==
  ASSUME NEW q, q \in Seq(Nat \X Samples), NEW n \in Nat, NEW from \in Samples, NEW S,
         {q[k][1] : k \in DOMAIN q} = S, \A m \in S : m < n,
         \A k, l \in DOMAIN q : k < l => q[k][1] < q[l][1],
         \A k \in DOMAIN q : SampleRight(q[k][1], q[k][2]), SampleRight(n, from)
  PROVE  LET r == Append(q, <<n, from>>)
         IN  /\ r \in Seq(Nat \X Samples)
             /\ {r[k][1] : k \in DOMAIN r} = S \cup {n}
             /\ \A k, l \in DOMAIN r : k < l => r[k][1] < r[l][1]
             /\ \A k \in DOMAIN r : SampleRight(r[k][1], r[k][2])
<1> DEFINE e == <<n, from>>
           r == Append(q, e)
<1>1. e \in Nat \X Samples /\ e[1] = n /\ e[2] = from
  OBVIOUS
<1> HIDE DEF e
<1>2. /\ r \in Seq(Nat \X Samples) /\ DOMAIN r = DOMAIN q \cup {Len(q) + 1} /\ r[Len(q) + 1] = e
      /\ Len(q) \in Nat /\ DOMAIN q = 1..Len(q) /\ \A k \in DOMAIN q : r[k] = q[k]
  BY <1>1
<1> HIDE DEF r
<1>3. \A k \in DOMAIN q : q[k][1] \in S
  OBVIOUS
<1>4. {r[k][1] : k \in DOMAIN r} = S \cup {n}
  BY <1>1, <1>2
<1>5. ASSUME NEW k \in DOMAIN r, NEW l \in DOMAIN r, k < l PROVE r[k][1] < r[l][1]
  <2>1. CASE l \in DOMAIN q
    BY <2>1, <1>2, <1>5
  <2>2. CASE l = Len(q) + 1
    <3>1. k \in DOMAIN q
      BY <2>2, <1>2, <1>5
    <3> QED
      BY <2>2, <3>1, <1>1, <1>2, <1>3
  <2> QED
    BY <2>1, <2>2, <1>2
<1>6. \A k \in DOMAIN r : SampleRight(r[k][1], r[k][2])
  BY <1>1, <1>2
<1> QED
  BY <1>2, <1>4, <1>5, <1>6 DEF r, e

\* One more batch.
LEMMA DrawnRight ==
  ASSUME made \in Seq(Shapes), system \in {"windows", "macos"}, NEW D \in SUBSET DOMAIN made,
         NEW n \in DOMAIN made, \A m \in D : m < n,
         NEW ts, NEW c, TargetsRight(ts, D)
  PROVE  LET v == Frames!draw_batch([targets |-> ts, cache |-> c], n)
         IN  v = [targets |-> v.targets, cache |-> v.cache] /\ TargetsRight(v.targets, D \cup {n})
<1> DEFINE s == made[n]
           a == s.to
           gs == Frames!ensure_render_target(ts, s)
           grown == [targets |-> gs, cache |-> c]
           taken == IF Frames!OnWindows THEN Frames!windows_sampled(grown, s) ELSE Frames!macos_sampled(grown, s)
           from == taken.sampled
           us == IF s.clipped THEN gs ELSE [gs EXCEPT ![a].drawn = Append(@, <<n, from>>)]
           v == Frames!draw_batch([targets |-> ts, cache |-> c], n)
<1>1. /\ s \in Shapes /\ a \in Addresses /\ s.size \in Nat /\ s.clipped \in BOOLEAN /\ n \in Nat
  BY FramesFacts
<1>2. v = [targets |-> us, cache |-> IF s.clipped THEN c ELSE taken.cache]
  <2> DEFINE w == [targets |-> ts, cache |-> c]
  <2>1. w.targets = ts /\ w.cache = c /\ [w EXCEPT !.targets = gs] = grown
    OBVIOUS
  <2>2. grown.targets = gs /\ grown.cache = c
    OBVIOUS
  <2> HIDE DEF gs, grown, taken
  <2>3. grown = [w EXCEPT !.targets = Frames!ensure_render_target(w.targets, s)]
    BY <2>1 DEF gs
  <2> HIDE DEF w
  <2>4. Frames!draw_batch(w, n) =
          IF s.clipped THEN grown
          ELSE [targets |-> [grown.targets EXCEPT ![a].drawn = Append(@, <<n, taken.sampled>>)], cache |-> taken.cache]
    BY <2>3, Zenon DEF Frames!draw_batch, taken
  <2>5. v = Frames!draw_batch(w, n)
    BY DEF w
  <2> QED
    BY <2>2, <2>4, <2>5, <1>1 DEF grown
<1>3. DOMAIN ts = {made[m].to : m \in D} /\ DOMAIN ts \subseteq Addresses
  <2>1. \A m \in D : made[m] \in Shapes
    OBVIOUS
  <2> QED
    BY <2>1, FramesFacts DEF TargetsRight
<1>4. /\ DOMAIN gs = DOMAIN ts \cup {a} /\ \A b \in DOMAIN ts : b # a => gs[b] = ts[b]
      /\ gs[a] = IF a \in DOMAIN ts /\ ts[a].size >= s.size THEN ts[a] ELSE [size |-> s.size, drawn |-> <<>>]
  <2>1. CASE a \in DOMAIN ts /\ ts[a].size >= s.size
    BY <2>1 DEF Frames!ensure_render_target
  <2>2. CASE ~(a \in DOMAIN ts /\ ts[a].size >= s.size)
    <3> DEFINE new == [size |-> s.size, drawn |-> <<>>]
    <3>1. gs = Frames!Put(ts, a, new)
      BY <2>2 DEF Frames!ensure_render_target
    <3> HIDE DEF gs, new
    <3>2. DOMAIN gs = DOMAIN ts \cup {a}
      BY <3>1, PutDomain
    <3>3. gs[a] = new
      BY <3>1, PutAt
    <3>4. \A b \in DOMAIN ts : b # a => gs[b] = ts[b]
      BY <3>1, PutElse
    <3> QED
      BY <2>2, <3>2, <3>3, <3>4 DEF new
  <2> QED
    BY <2>1, <2>2
<1>5. from \in Samples /\ SampleRight(n, from)
  <2>1. DOMAIN grown.targets \subseteq Addresses
    BY <1>1, <1>3, <1>4
  <2> HIDE DEF grown
  <2> QED
    BY <2>1, SampleIs
<1> HIDE DEF taken, from, gs
<1>6. \A m \in Since(a, D) : m < n
  BY DEF Since, Aimed
\* The target this batch is drawn to.
<1>7. ASSUME NEW t, t \in RenderTargets, t.size = gs[a].size, {t.drawn[k][1] : k \in DOMAIN t.drawn} = Since(a, D \cup {n}),
             \A k, l \in DOMAIN t.drawn : k < l => t.drawn[k][1] < t.drawn[l][1],
             \A k \in DOMAIN t.drawn : SampleRight(t.drawn[k][1], t.drawn[k][2])
      PROVE  TargetRight(t, a, D \cup {n})
  <2>1. Aimed(a, D \cup {n}) = Aimed(a, D) \cup {n}
    BY AimedGrows
  <2>2. \A m \in Aimed(a, D) : made[m].size \in Nat /\ a \in DOMAIN ts
    <3>1. \A m \in D : made[m] \in Shapes
      OBVIOUS
    <3> QED
      BY <1>3, <3>1, FramesFacts DEF Aimed
  <2>3. CASE a \in DOMAIN ts /\ ts[a].size >= s.size
    <3>1. TargetRight(ts[a], a, D) /\ t.size = ts[a].size /\ ts[a].size \in Nat
      BY <2>3, <1>4, <1>7 DEF TargetsRight, TargetRight, RenderTargets
    <3>2. /\ \E m \in Aimed(a, D) : made[m].size = t.size
          /\ \A m \in Aimed(a, D) : made[m].size <= t.size
      BY <3>1 DEF TargetRight
    <3>3. \A m \in Aimed(a, D \cup {n}) : made[m].size <= t.size
      BY <2>1, <3>1, <3>2, <2>3, <1>1
    <3>4. \E m \in Aimed(a, D \cup {n}) : made[m].size = t.size
      BY <2>1, <3>2
    <3> QED
      BY <1>7, <3>3, <3>4 DEF TargetRight
  <2>4. CASE ~(a \in DOMAIN ts /\ ts[a].size >= s.size)
    <3>1. t.size = s.size
      BY <2>4, <1>4, <1>7
    <3>2. \A m \in Aimed(a, D) : made[m].size <= s.size
      <4> SUFFICES ASSUME NEW m \in Aimed(a, D) PROVE made[m].size <= s.size
        OBVIOUS
      <4>1. a \in DOMAIN ts /\ TargetRight(ts[a], a, D)
        BY <2>2 DEF TargetsRight
      <4>2. ts[a].size \in Nat /\ made[m].size <= ts[a].size /\ ~(ts[a].size >= s.size)
        BY <4>1, <2>4 DEF TargetRight, RenderTargets
      <4> QED
        BY <4>2, <2>2, <1>1
    <3>3. \A m \in Aimed(a, D \cup {n}) : made[m].size <= t.size
      BY <2>1, <3>1, <3>2, <1>1
    <3>4. \E m \in Aimed(a, D \cup {n}) : made[m].size = t.size
      BY <2>1, <3>1
    <3> QED
      BY <1>7, <3>3, <3>4 DEF TargetRight
  <2> QED
    BY <2>3, <2>4
<1>8. /\ gs[a] \in RenderTargets
      /\ \A m \in {gs[a].drawn[k][1] : k \in DOMAIN gs[a].drawn} : m < n
      /\ \A k, l \in DOMAIN gs[a].drawn : k < l => gs[a].drawn[k][1] < gs[a].drawn[l][1]
      /\ \A k \in DOMAIN gs[a].drawn : SampleRight(gs[a].drawn[k][1], gs[a].drawn[k][2])
      /\ Since(a, D \cup {n}) =
           {gs[a].drawn[k][1] : k \in DOMAIN gs[a].drawn} \cup (IF s.clipped THEN {} ELSE {n})
  <2>1. CASE a \in DOMAIN ts /\ ts[a].size >= s.size
    <3>1. gs[a] = ts[a] /\ TargetRight(ts[a], a, D)
      BY <2>1, <1>4 DEF TargetsRight
    <3>2. \E m \in Aimed(a, D) : made[n].size <= made[m].size
      BY <2>1, <3>1 DEF TargetRight
    <3>3. Since(a, D \cup {n}) = Since(a, D) \cup (IF made[n].clipped THEN {} ELSE {n})
      BY <3>2, AimedGrows
    <3> QED
      BY <3>1, <3>3, <1>6 DEF TargetRight
  <2>2. CASE ~(a \in DOMAIN ts /\ ts[a].size >= s.size)
    <3>1. gs[a] = [size |-> s.size, drawn |-> <<>>]
      BY <2>2, <1>4
    <3>2. gs[a] \in RenderTargets /\ gs[a].drawn = <<>> /\ DOMAIN gs[a].drawn = {}
      BY <3>1, <1>1 DEF RenderTargets
    <3>3. \A m \in Aimed(a, D) : made[m].size < made[n].size
      <4> SUFFICES ASSUME NEW m \in Aimed(a, D) PROVE made[m].size < s.size
        OBVIOUS
      <4>1. m \in D /\ made[m].to = a /\ made[m].size \in Nat
        <5>1. m \in D /\ made[m].to = a
          BY DEF Aimed
        <5>2. made[m] \in Shapes
          BY <5>1
        <5> QED
          BY <5>1, <5>2, FramesFacts
      <4>2. a \in DOMAIN ts /\ TargetRight(ts[a], a, D)
        BY <4>1, <1>3 DEF TargetsRight
      <4>3. ts[a].size \in Nat /\ made[m].size <= ts[a].size /\ ~(ts[a].size >= s.size)
        BY <4>2, <2>2 DEF TargetRight, RenderTargets
      <4> QED
        BY <4>3, <4>1, <1>1
    <3>4. Since(a, D \cup {n}) = IF made[n].clipped THEN {} ELSE {n}
      BY <3>3, AimedGrows
    <3> QED
      BY <3>2, <3>4
  <2> QED
    BY <2>1, <2>2
<1>9. TargetRight(us[a], a, D \cup {n})
  <2>1. CASE s.clipped
    <3>1. us[a] = gs[a] /\ Since(a, D \cup {n}) = {gs[a].drawn[k][1] : k \in DOMAIN gs[a].drawn}
      BY <2>1, <1>8
    <3> QED
      BY <3>1, <1>7, <1>8
  <2>2. CASE ~s.clipped
    <3> DEFINE q == gs[a].drawn
               r == Append(q, <<n, from>>)
               t == [gs[a] EXCEPT !.drawn = r]
    <3>1. us[a] = t
      BY <2>2, <1>4
    <3>2. q \in Seq(Nat \X Samples) /\ gs[a].size \in Nat /\ gs[a] = [size |-> gs[a].size, drawn |-> q]
      BY <1>8 DEF RenderTargets
    <3>3. Since(a, D \cup {n}) = {q[k][1] : k \in DOMAIN q} \cup {n}
      BY <2>2, <1>8
    <3>4. /\ r \in Seq(Nat \X Samples)
          /\ {r[k][1] : k \in DOMAIN r} = {q[k][1] : k \in DOMAIN q} \cup {n}
          /\ \A k, l \in DOMAIN r : k < l => r[k][1] < r[l][1]
          /\ \A k \in DOMAIN r : SampleRight(r[k][1], r[k][2])
      BY <3>2, <1>1, <1>5, <1>8, AppendDrawn
    <3> HIDE DEF r, q
    <3>5. t.size = gs[a].size /\ t.drawn = r /\ t \in RenderTargets
      BY <3>2, <3>4 DEF RenderTargets
    <3> HIDE DEF t
    <3>6. /\ {t.drawn[k][1] : k \in DOMAIN t.drawn} = Since(a, D \cup {n})
          /\ \A k, l \in DOMAIN t.drawn : k < l => t.drawn[k][1] < t.drawn[l][1]
          /\ \A k \in DOMAIN t.drawn : SampleRight(t.drawn[k][1], t.drawn[k][2])
      BY <3>3, <3>4, <3>5
    <3> QED
      BY <3>1, <3>5, <3>6, <1>7
  <2> QED
    BY <2>1, <2>2
<1>10. DOMAIN us = {made[m].to : m \in D \cup {n}}
  BY <1>3, <1>4
<1>11. ASSUME NEW b \in DOMAIN us PROVE TargetRight(us[b], b, D \cup {n})
  <2>1. CASE b = a
    BY <2>1, <1>9
  <2>2. CASE b # a
    <3>1. b \in DOMAIN ts /\ us[b] = ts[b]
      BY <2>2, <1>3, <1>4, <1>10, <1>11
    <3> QED
      BY <2>2, <3>1, OthersStay DEF TargetsRight
  <2> QED
    BY <2>1, <2>2
<1> HIDE DEF us
<1>12. v.targets = us /\ v = [targets |-> v.targets, cache |-> v.cache]
  BY <1>2
<1>13. TargetsRight(us, D \cup {n})
  BY <1>10, <1>11, Zenon DEF TargetsRight
<1> QED
  BY <1>12, <1>13

\* A set of numbers has a least one.
LEMMA LeastOne ==
  ASSUME NEW I, I \subseteq Nat, I # {}
  PROVE  \E x \in I : \A y \in I : x <= y
<1> DEFINE R == {ss \in Nat \X Nat : ss[1] < ss[2]}
<1>1. IsWellFoundedOn(R, Nat)
  BY NatLessThanWellFounded DEF OpToRel
<1>2. \A x, y \in Nat : y < x => <<y, x>> \in R
  OBVIOUS
<1> HIDE DEF R
<1>3. PICK x \in I : \A y \in I : ~(<<y, x>> \in R)
  BY <1>1, WFMin
<1>4. \A y \in I : x <= y
  <2> TAKE y \in I
  <2>1. x \in Nat /\ y \in Nat /\ ~(y < x)
    BY <1>2, <1>3
  <2> QED
    BY <2>1
<1> QED
  BY <1>4

\* What is there after each of the first n batches.
Undrawn == [targets |-> targets, cache |-> uploads]
DrawnUpTo(f, b, n) ==
    f = [k \in 0..n |-> IF k = 0 THEN Undrawn ELSE Frames!draw_batch(f[k - 1], b[k])]

\* The batches of a list can be drawn one after the other: if not, there is a
\* least number of them that cannot.
LEMMA DrawnUpToIs ==
  ASSUME NEW b, NEW n \in Nat
  PROVE  \E f : DrawnUpTo(f, b, n)
<1> DEFINE I == {k \in Nat : ~\E f : DrawnUpTo(f, b, k)}
<1>1. ASSUME I # {} PROVE FALSE
  <2>1. PICK k \in I : \A y \in I : k <= y
    BY <1>1, LeastOne
  <2>2. k \in Nat /\ ~\E f : DrawnUpTo(f, b, k)
    BY <2>1
  <2>3. CASE k = 0
    <3> DEFINE f == [i \in 0..0 |-> Undrawn]
    <3>1. \A i \in 0..0 : i = 0
      OBVIOUS
    <3>2. f = [i \in 0..0 |-> IF i = 0 THEN Undrawn ELSE Frames!draw_batch(f[i - 1], b[i])]
      BY <3>1
    <3> HIDE DEF f
    <3>3. DrawnUpTo(f, b, k)
      BY <2>3, <3>2 DEF DrawnUpTo
    <3> QED
      BY <2>2, <3>3
  <2>4. CASE k # 0
    <3>1. k - 1 \in Nat /\ k - 1 \notin I
      BY <2>1, <2>2, <2>4
    <3>2. PICK f : DrawnUpTo(f, b, k - 1)
      BY <3>1
    <3> DEFINE g == [i \in 0..k |-> IF i = k THEN Frames!draw_batch(f[k - 1], b[k]) ELSE f[i]]
    <3>3. \A i \in 0..(k - 1) : f[i] = IF i = 0 THEN Undrawn ELSE Frames!draw_batch(f[i - 1], b[i])
      BY <3>2, Zenon DEF DrawnUpTo
    <3>4. ASSUME NEW i \in 0..k
          PROVE  g[i] = IF i = 0 THEN Undrawn ELSE Frames!draw_batch(g[i - 1], b[i])
      <4>1. CASE i = k
        <5>1. k - 1 \in 0..k /\ k - 1 # k
          BY <2>2, <2>4
        <5>2. g[k - 1] = f[k - 1] /\ g[k] = Frames!draw_batch(f[k - 1], b[k])
          BY <5>1
        <5> QED
          BY <4>1, <5>2, <2>4
      <4>2. CASE i # k
        <5>1. i \in 0..(k - 1) /\ g[i] = f[i]
          BY <4>2, <2>2
        <5>2. CASE i = 0
          BY <5>1, <5>2, <3>3
        <5>3. CASE i # 0
          <6>1. i - 1 \in 0..k /\ i - 1 # k
            BY <5>1, <5>3, <2>2
          <6>2. g[i - 1] = f[i - 1]
            BY <6>1
          <6> QED
            BY <5>1, <5>3, <6>2, <3>3
        <5> QED
          BY <5>2, <5>3
      <4> QED
        BY <4>1, <4>2
    <3>5. g = [i \in 0..k |-> g[i]]
      OBVIOUS
    <3> HIDE DEF g
    <3>6. DrawnUpTo(g, b, k)
      BY <3>4, <3>5 DEF DrawnUpTo
    <3> QED
      BY <2>2, <3>6
  <2> QED
    BY <2>3, <2>4
<1> QED
  BY <1>1

\* The targets are right when the batches that were handed over are drawn.
LEMMA GeometryRight ==
  ASSUME made \in Seq(Shapes), system \in {"windows", "macos"}, NEW D \in SUBSET DOMAIN made,
         NEW b, b \in Seq(DOMAIN made), Rises(b), \A m \in D, k \in DOMAIN b : m < b[k],
         TargetsRight(targets, D)
  PROVE  TargetsRight(Frames!draw_geometry(b).targets, D \cup {b[k] : k \in DOMAIN b})
<1> DEFINE n == Len(b)
           f == CHOOSE f : DrawnUpTo(f, b, n)
           E(k) == D \cup {b[j] : j \in 1..k}
           Fine(k) == f[k] = [targets |-> f[k].targets, cache |-> f[k].cache] /\ TargetsRight(f[k].targets, E(k))
           I == {k \in Nat : k <= n /\ ~Fine(k)}
<1>1. n \in Nat /\ DOMAIN b = 1..n /\ \A k \in 1..n : b[k] \in DOMAIN made
  OBVIOUS
<1>2. DrawnUpTo(f, b, n)
  BY <1>1, DrawnUpToIs
<1>3. Frames!draw_geometry(b) = f[n]
  BY Zenon DEF Frames!draw_geometry, DrawnUpTo, Undrawn
<1> HIDE DEF f
<1>4. \A k \in 0..n : f[k] = IF k = 0 THEN Undrawn ELSE Frames!draw_batch(f[k - 1], b[k])
  BY <1>2, Zenon DEF DrawnUpTo
<1>5. ASSUME I # {} PROVE FALSE
  <2> HIDE DEF n, Fine
  <2>1. PICK k \in I : \A y \in I : k <= y
    BY <1>5, LeastOne
  <2>2. k \in Nat /\ k <= n /\ ~Fine(k) /\ k \in 0..n
    BY <2>1, <1>1
  <2>3. CASE k = 0
    <3>1. f[k] = Undrawn /\ E(k) = D
      BY <2>2, <2>3, <1>4
    <3>2. Undrawn.targets = targets /\ Undrawn = [targets |-> Undrawn.targets, cache |-> Undrawn.cache]
      BY DEF Undrawn
    <3> QED
      BY <2>2, <3>1, <3>2 DEF Fine
  <2>4. CASE k # 0
    <3>1. k - 1 \in Nat /\ k - 1 <= n /\ k \in 1..n
      BY <2>2, <2>4, <1>1
    <3>2. Fine(k - 1)
      BY <3>1, <2>1, <2>2
    <3> DEFINE ts == f[k - 1].targets
               c == f[k - 1].cache
    <3>3. f[k - 1] = [targets |-> ts, cache |-> c] /\ TargetsRight(ts, E(k - 1))
      BY <3>2 DEF Fine
    <3>4. f[k] = Frames!draw_batch([targets |-> ts, cache |-> c], b[k])
      BY <2>2, <2>4, <3>3, <1>4
    <3> HIDE DEF ts, c
    <3>5. E(k - 1) \in SUBSET DOMAIN made /\ b[k] \in DOMAIN made
      BY <3>1, <1>1
    <3>6. \A m \in E(k - 1) : m < b[k]
      <4>1. \A j \in 1..(k - 1) : j \in DOMAIN b /\ j < k
        BY <3>1, <1>1
      <4>2. k \in DOMAIN b
        BY <3>1, <1>1
      <4> QED
        BY <4>1, <4>2 DEF Rises
    <3>7. E(k) = E(k - 1) \cup {b[k]}
      <4>1. \A j : j \in 1..k <=> j \in 1..(k - 1) \/ j = k
        BY <3>1
      <4> QED
        BY <4>1
    <3> HIDE DEF E
    <3> DEFINE G == E(k - 1)
               m == b[k]
               v == Frames!draw_batch([targets |-> ts, cache |-> c], m)
    <3>8. G \in SUBSET DOMAIN made /\ m \in DOMAIN made /\ (\A i \in G : i < m) /\ TargetsRight(ts, G)
      BY <3>3, <3>5, <3>6
    <3> HIDE DEF G, m
    <3>9. v = [targets |-> v.targets, cache |-> v.cache] /\ TargetsRight(v.targets, G \cup {m})
      BY <3>8, DrawnRight
    <3>10. f[k] = v /\ E(k) = G \cup {m}
      BY <3>4, <3>7 DEF G, m
    <3> HIDE DEF v
    <3>11. Fine(k)
      BY <3>9, <3>10 DEF Fine
    <3> QED
      BY <3>11, <2>2
  <2> QED
    BY <2>3, <2>4
<1>6. Fine(n)
  <2> HIDE DEF n, Fine
  <2> QED
    BY <1>1, <1>5
<1> QED
  BY <1>1, <1>3, <1>6

\* Every step leaves threads and messages as they can be.
LEMMA FrameTypesStep ==
  ASSUME FrameTypes, Frames!FramesNext
  PROVE  FrameTypes'
<1> USE DEF Frames!queues, Frames!guest, Frames!window, Frames!OnWindows, Frames!OnMac
<1>1. CASE Frames!begin_ge_frame
  BY <1>1 DEF FrameTypes, Frames!begin_ge_frame
<1>2. CASE Frames!submit_ge_primitive
  <2>1. PICK s \in Shapes : Frames!record_ge_write(s.to) /\ latest' = [latest EXCEPT ![s.to] = "ge"]
    BY <1>2 DEF Frames!submit_ge_primitive
  <2>2. /\ latest' \in [Addresses -> {"none", "cpu", "ge"}]
        /\ sources' \in [Addresses -> [hash : Pictures \cup {Nothing}, cpu : BOOLEAN]]
    BY <2>1, FramesFacts DEF FrameTypes, Frames!record_ge_write
  <2> QED
    BY <1>2, <2>2 DEF FrameTypes, Frames!submit_ge_primitive
<1>3. CASE Frames!end_ge_frame
  BY <1>3 DEF FrameTypes, Frames!end_ge_frame
<1>4. CASE Frames!present_ge_frame
  BY <1>4 DEF FrameTypes, Frames!present_ge_frame
<1>5. CASE Frames!Tell
  <2>1. \A m : m \in [kind : {"render"}] => m \in FrameMessages /\ m.kind = "render"
    BY DEF FrameMessages
  <2>2. queued' = queued \/ queued' = Append(queued, [kind |-> "render"])
    BY <1>5 DEF Frames!Tell, Frames!TellWindow, Frames!DispatchDisplay
  <2>3. queued' \in Seq(FrameMessages) /\ \A k \in DOMAIN queued' : queued'[k].kind = "upload" => system = "macos"
    <3>1. queued \in Seq(FrameMessages) /\ \A k \in DOMAIN queued : queued[k].kind = "upload" => system = "macos"
      BY DEF FrameTypes
    <3> DEFINE m == [kind |-> "render"]
    <3>2. m \in FrameMessages /\ m.kind # "upload"
      BY <2>1
    <3> HIDE DEF m
    <3>3. CASE queued' = queued
      BY <3>1, <3>3
    <3>4. CASE queued' = Append(queued, m)
      <4>1. queued' \in Seq(FrameMessages) /\ DOMAIN queued' = DOMAIN queued \cup {Len(queued) + 1}
        BY <3>1, <3>2, <3>4
      <4>2. queued'[Len(queued) + 1] = m /\ \A k \in DOMAIN queued : queued'[k] = queued[k]
        BY <3>1, <3>2, <3>4
      <4> QED
        BY <3>1, <3>2, <4>1, <4>2
    <3> QED
      BY <2>2, <3>3, <3>4 DEF m
  <2>4. outstanding' \in BOOLEAN
    BY <1>5 DEF FrameTypes, Frames!Tell, Frames!TellWindow, Frames!DispatchDisplay
  <2> QED
    BY <1>5, <2>3, <2>4 DEF FrameTypes, Frames!Tell
<1>6. CASE Frames!present_frame
  <2>1. PICK a \in Addresses, picture \in Pictures :
          /\ frame' = [address |-> a, picture |-> picture, upload |-> FALSE]
          /\ display' = IF system = "macos" THEN a ELSE display
    BY <1>6 DEF Frames!present_frame
  <2>2. frame' \in Pictured /\ display' \in Addresses
    BY <2>1 DEF FrameTypes, Pictured
  <2>3. presents' \in 0..MaxPresents /\ presents' = presents + 1 /\ presents \in Nat
    BY <1>6, FramesFacts DEF FrameTypes, Frames!present_frame
  <2>4. generation \in Nat /\ generation <= presents
    BY <1>6 DEF FrameTypes, Frames!present_frame
  <2> QED
    BY <1>6, <2>2, <2>3, <2>4 DEF FrameTypes, Frames!present_frame
<1>7. CASE Frames!Record
  <2>1. presents > 0 /\ frame \in Pictured
    BY <1>7 DEF FrameTypes, Frames!Record
  <2>2. /\ frame.address \in Addresses /\ frame.picture \in Pictures
        /\ frame = [address |-> frame.address, picture |-> frame.picture, upload |-> frame.upload]
    BY <2>1 DEF Pictured
  <2>3. frame' \in Pictured
    BY <1>7, <2>2 DEF Frames!Record, Pictured
  <2>4. /\ latest' \in [Addresses -> {"none", "cpu", "ge"}]
        /\ sources' \in [Addresses -> [hash : Pictures \cup {Nothing}, cpu : BOOLEAN]]
    <3>1. \/ UNCHANGED sources
          \/ sources' = [sources EXCEPT ![frame.address] = [hash |-> frame.picture, cpu |-> TRUE]]
      BY <1>7 DEF Frames!Record, Frames!record_cpu_frame
    <3>2. latest' = latest \/ latest' = [latest EXCEPT ![frame.address] = "cpu"]
      BY <1>7 DEF Frames!Record
    <3>3. /\ latest \in [Addresses -> {"none", "cpu", "ge"}]
          /\ sources \in [Addresses -> [hash : Pictures \cup {Nothing}, cpu : BOOLEAN]]
      BY DEF FrameTypes
    <3> DEFINE new == [hash |-> frame.picture, cpu |-> TRUE]
    <3>4. new \in [hash : Pictures \cup {Nothing}, cpu : BOOLEAN]
      BY <2>2
    <3> HIDE DEF new
    <3>5. UNCHANGED sources \/ sources' = [sources EXCEPT ![frame.address] = new]
      BY <3>1 DEF new
    <3> QED
      BY <2>2, <3>2, <3>3, <3>4, <3>5
  <2> QED
    BY <1>7, <2>1, <2>3, <2>4 DEF FrameTypes, Frames!Record
<1>8. CASE Frames!StoreFrame
  <2>1. presents > 0 /\ frame.address \in Addresses /\ frame.picture \in Pictures
    BY <1>8 DEF FrameTypes, Frames!StoreFrame, Pictured
  <2>2. generation \in Nat /\ generation + 1 <= presents /\ presents \in Nat
    BY <1>8 DEF FrameTypes, Frames!StoreFrame
  <2>3. IsMap(cpuFrames', CpuPictures) /\ generation' \in Nat /\ generation' <= presents
    <3>1. CASE UNCHANGED <<cpuFrames, generation>>
      <4>1. IsMap(cpuFrames, CpuPictures)
        BY DEF FrameTypes
      <4> QED
        BY <2>2, <3>1, <4>1 DEF IsMap
    <3>2. CASE ~UNCHANGED <<cpuFrames, generation>>
      <4> DEFINE new == [picture |-> frame.picture, generation |-> generation']
      <4>1. generation' = generation + 1 /\ cpuFrames' = Frames!Put(cpuFrames, frame.address, new)
        BY <1>8, <3>2 DEF Frames!StoreFrame
      <4>2. new \in CpuPictures
        BY <2>1, <2>2, <4>1 DEF CpuPictures
      <4> HIDE DEF new
      <4>3. DOMAIN cpuFrames' = DOMAIN cpuFrames \cup {frame.address}
        BY <4>1, PutDomain
      <4>4. cpuFrames'[frame.address] = new
        BY <4>1, PutAt
      <4>5. \A b \in DOMAIN cpuFrames : b # frame.address => cpuFrames'[b] = cpuFrames[b]
        BY <4>1, PutElse
      <4> QED
        <5>1. IsMap(cpuFrames, CpuPictures)
          BY DEF FrameTypes
        <5>2. IsMap(cpuFrames', CpuPictures)
          BY <2>1, <4>2, <4>3, <4>4, <4>5, <5>1 DEF IsMap
        <5> QED
          BY <2>2, <4>1, <5>2
    <3> QED
      BY <3>1, <3>2
  <2> QED
    BY <1>8, <2>1, <2>2, <2>3 DEF FrameTypes, Frames!StoreFrame, IsMap
<1>9. CASE Frames!StoreAddress
  BY <1>9 DEF FrameTypes, Frames!StoreAddress, Pictured, IsMap
<1>10. CASE Frames!DispatchUpload
  <2>1. frame \in Pictured /\ system = "macos" /\ queued' = Append(queued, [kind |-> "upload", frame |-> frame])
    BY <1>10 DEF FrameTypes, Frames!DispatchUpload
  <2>2. [kind |-> "upload", frame |-> frame] \in FrameMessages
    BY <2>1 DEF FrameMessages
  <2>3. queued' \in Seq(FrameMessages)
    <3>1. queued \in Seq(FrameMessages)
      BY DEF FrameTypes
    <3> DEFINE m == [kind |-> "upload", frame |-> frame]
    <3>2. m \in FrameMessages /\ queued' = Append(queued, m)
      BY <2>1, <2>2
    <3> HIDE DEF m
    <3> QED
      BY <3>1, <3>2
  <2> QED
    BY <1>10, <2>1, <2>3 DEF FrameTypes, Frames!DispatchUpload, IsMap
<1>11. CASE Frames!RenderMessage
  <2>1. queued' \in Seq(FrameMessages) /\ \A k \in DOMAIN queued' : k + 1 \in DOMAIN queued /\ queued'[k] = queued[k + 1]
    <3>1. queued \in Seq(FrameMessages) /\ queued # <<>> /\ queued' = Tail(queued)
      BY <1>11 DEF FrameTypes, Frames!RenderMessage, Frames!Handle
    <3> QED
      BY <3>1
  <2> QED
    BY <1>11, <2>1 DEF FrameTypes, Frames!RenderMessage, IsMap
<1>12. CASE Frames!UploadBlock
  <2> DEFINE f == Head(queued).frame
  <2>1. queued # <<>> /\ Head(queued).kind = "upload" /\ queued' = Tail(queued) /\ queued \in Seq(FrameMessages)
    BY <1>12 DEF FrameTypes, Frames!UploadBlock, Frames!Handle
  <2>2. queued' \in Seq(FrameMessages) /\ \A k \in DOMAIN queued' : k + 1 \in DOMAIN queued /\ queued'[k] = queued[k + 1]
    BY <2>1
  <2>3. Head(queued) \in FrameMessages
    BY <2>1
  <2>4. f \in Pictured
    BY <2>1, <2>3 DEF FrameMessages
  <2>5. system = "macos"
    <3>1. 1 \in DOMAIN queued /\ queued[1] = Head(queued)
      BY <2>1
    <3> QED
      BY <2>1, <3>1 DEF FrameTypes
  <2>6. IsMap(cpuTextures', CpuPictures)
    <3> DEFINE new == [picture |-> f.picture, generation |-> 0]
    <3>1. CASE cpuTextures' = cpuTextures
      BY <3>1 DEF FrameTypes, IsMap
    <3>2. CASE cpuTextures' # cpuTextures
      <4>1. cpuTextures' = Frames!Put(cpuTextures, f.address, new)
        BY <1>12, <3>2 DEF Frames!UploadBlock
      <4>2. new \in CpuPictures /\ f.address \in Addresses
        BY <2>4 DEF CpuPictures, Pictured
      <4> HIDE DEF new, f
      <4>3. DOMAIN cpuTextures' = DOMAIN cpuTextures \cup {f.address}
        BY <4>1, PutDomain
      <4>4. cpuTextures'[f.address] = new
        BY <4>1, PutAt
      <4>5. \A b \in DOMAIN cpuTextures : b # f.address => cpuTextures'[b] = cpuTextures[b]
        BY <4>1, PutElse
      <4> QED
        BY <4>2, <4>3, <4>4, <4>5 DEF FrameTypes, IsMap
    <3> QED
      BY <3>1, <3>2
  <2> QED
    BY <1>12, <2>2, <2>5, <2>6 DEF FrameTypes, Frames!UploadBlock, IsMap
<1>13. CASE Frames!Expose
  BY <1>13 DEF FrameTypes, Frames!Expose, IsMap
<1>14. CASE Frames!Draw
  BY <1>14, FramesFacts DEF FrameTypes, Frames!Draw, IsMap
<1>15. CASE Frames!draw_display
  BY <1>15, FramesFacts DEF FrameTypes, Frames!draw_display, IsMap
<1>16. CASE Frames!ShowPicture
  <2>1. wstep \in Addresses /\ wstep' = "idle"
    BY <1>16 DEF Frames!ShowPicture
  <2>2. IsMap(cpuTextures', CpuPictures)
    <3>1. CASE wstep \notin DOMAIN cpuFrames
      BY <1>16, <3>1 DEF FrameTypes, IsMap, Frames!ShowPicture
    <3>2. CASE wstep \in DOMAIN cpuFrames
      <4> DEFINE new == Frames!display_texture(wstep)
      <4>1. cpuTextures' = Frames!Put(cpuTextures, wstep, new)
        BY <1>16, <3>2 DEF Frames!ShowPicture
      <4>2. new \in CpuPictures
        BY <3>2 DEF FrameTypes, IsMap, Frames!display_texture
      <4> HIDE DEF new
      <4>3. DOMAIN cpuTextures' = DOMAIN cpuTextures \cup {wstep}
        BY <4>1, PutDomain
      <4>4. cpuTextures'[wstep] = new
        BY <4>1, PutAt
      <4>5. \A b \in DOMAIN cpuTextures : b # wstep => cpuTextures'[b] = cpuTextures[b]
        BY <4>1, PutElse
      <4> QED
        BY <2>1, <4>2, <4>3, <4>4, <4>5 DEF FrameTypes, IsMap
    <3> QED
      BY <3>1, <3>2
  <2> QED
    BY <1>16, <2>1, <2>2, FramesFacts DEF FrameTypes, Frames!ShowPicture, IsMap
<1>17. CASE Frames!ShowTexture
  BY <1>17, FramesFacts DEF FrameTypes, Frames!ShowTexture, IsMap
<1> QED
  BY <1>1, <1>2, <1>3, <1>4, <1>5, <1>6, <1>7, <1>8, <1>9, <1>10, <1>11, <1>12, <1>13, <1>14, <1>15, <1>16,
     <1>17 DEF Frames!FramesNext
Listed(q) == {q[k] : k \in DOMAIN q}

\* Numbers appended to a rising sequence that they follow.
LEMMA RisesOn ==
  ASSUME NEW S \in SUBSET Nat, NEW q, NEW r, q \in Seq(S), r \in Seq(S), Rises(q), Rises(r), Comes(q, r)
  PROVE  q \o r \in Seq(S) /\ Rises(q \o r) /\ Listed(q \o r) = Listed(q) \cup Listed(r)
<1> DEFINE t == q \o r
<1>1. /\ t \in Seq(S) /\ Len(t) = Len(q) + Len(r) /\ DOMAIN t = 1..(Len(q) + Len(r))
      /\ Len(q) \in Nat /\ Len(r) \in Nat /\ DOMAIN q = 1..Len(q) /\ DOMAIN r = 1..Len(r)
  OBVIOUS
<1>2. \A k \in DOMAIN q : t[k] = q[k] /\ k \in DOMAIN t
  BY <1>1
<1>3. \A k \in DOMAIN r : t[Len(q) + k] = r[k] /\ Len(q) + k \in DOMAIN t
  BY <1>1
<1>4. \A k \in DOMAIN t : k \in DOMAIN q \/ (k - Len(q) \in DOMAIN r /\ t[k] = r[k - Len(q)] /\ Len(q) < k)
  <2> SUFFICES ASSUME NEW k \in DOMAIN t, k \notin DOMAIN q
               PROVE  k - Len(q) \in DOMAIN r /\ t[k] = r[k - Len(q)] /\ Len(q) < k
    OBVIOUS
  <2>1. k \in Nat /\ Len(q) < k /\ k - Len(q) \in DOMAIN r /\ Len(q) + (k - Len(q)) = k
    BY <1>1
  <2> QED
    BY <2>1, <1>3
<1> HIDE DEF t
<1>5. ASSUME NEW i \in DOMAIN t, NEW j \in DOMAIN t, i < j PROVE t[i] < t[j]
  <2>1. CASE i \in DOMAIN q /\ j \in DOMAIN q
    BY <2>1, <1>2, <1>5 DEF Rises
  <2>2. CASE i \in DOMAIN q /\ j \notin DOMAIN q
    BY <2>2, <1>2, <1>4 DEF Comes
  <2>3. CASE i \notin DOMAIN q
    <3>1. j \notin DOMAIN q
      BY <2>3, <1>1, <1>5
    <3>2. i - Len(q) < j - Len(q)
      BY <1>1, <1>5
    <3> QED
      BY <2>3, <3>1, <3>2, <1>4 DEF Rises
  <2> QED
    BY <2>1, <2>2, <2>3
<1>6. Listed(t) = Listed(q) \cup Listed(r)
  BY <1>2, <1>3, <1>4 DEF Listed
<1>7. Rises(t)
  BY <1>5 DEF Rises
<1> QED
  BY <1>1, <1>6, <1>7 DEF t

\* A sequence over a set is one over a larger set.
LEMMA SeqWider ==
  ASSUME NEW S, NEW T, S \subseteq T, NEW q, q \in Seq(S)
  PROVE  q \in Seq(T)
  OBVIOUS

\* The batches that wait, before a step and after it.
LEMMA WaitingIs ==
  /\ Waiting = Listed(building) \cup Listed(pending) \cup Listed(presented)
  /\ Waiting' = Listed(building') \cup Listed(pending') \cup Listed(presented')
  BY DEF Waiting, Listed

\* What has been drawn is neither waiting nor lost.
LEMMA DrawnIs ==
  ASSUME BatchesInOrder
  PROVE  Frames!Drawn = (DOMAIN made \ Waiting) \ lost
<1>1. \A q : Frames!ToSet(q) = Listed(q)
  BY DEF Frames!ToSet, Listed
<1> QED
  BY <1>1, WaitingIs DEF Frames!Drawn, Frames!ToSet, Listed

\* What is handed on changes places.
LEMMA BatchesMove ==
  ASSUME BatchesInOrder, UNCHANGED <<made, building, pending, presented, lost>>,
         gstep' # "list" => gstep # "list"
  PROVE  BatchesInOrder'
  BY DEF BatchesInOrder, Waiting, Rises, Comes

\* An empty queue is in order.
LEMMA EmptyQueue ==
  ASSUME NEW S
  PROVE  /\ <<>> \in Seq(S) /\ Rises(<<>>) /\ Listed(<<>>) = {} /\ DOMAIN <<>> = {}
         /\ \A q : Comes(q, <<>>) /\ Comes(<<>>, q)
  BY DEF Rises, Listed, Comes

\* No step overtakes a batch with another, repeats or forgets one.
LEMMA BatchesInOrderStep ==
  ASSUME FrameTypes, BatchesInOrder, Frames!FramesNext
  PROVE  BatchesInOrder'
<1> DEFINE M == DOMAIN made
<1>0. /\ made \in Seq(Shapes) /\ M = 1..Len(made) /\ Len(made) \in Nat /\ M \in SUBSET Nat
      /\ building \in Seq(M) /\ pending \in Seq(M) /\ presented \in Seq(M)
      /\ Rises(building) /\ Rises(pending) /\ Rises(presented)
      /\ Comes(presented, pending) /\ Comes(presented, building) /\ Comes(pending, building)
      /\ lost \subseteq M \ Waiting /\ (\A n \in M \ Waiting, m \in Waiting : n < m)
      /\ (gstep # "list" => building = <<>>)
      /\ Listed(building) \subseteq M /\ Listed(pending) \subseteq M /\ Listed(presented) \subseteq M
  BY DEF BatchesInOrder, Listed
<1>1. CASE Frames!begin_ge_frame
  <2>1. UNCHANGED <<made, building, pending, presented, lost>>
    BY <1>1 DEF Frames!begin_ge_frame, BatchesInOrder
  <2> QED
    BY <1>1, <2>1, BatchesMove DEF Frames!begin_ge_frame
<1>2. CASE Frames!submit_ge_primitive
  <2> DEFINE n == Len(made) + 1
  <2>1. /\ \E s \in Shapes : made' = Append(made, s)
        /\ building' = Append(building, n) /\ gstep' = "list"
        /\ UNCHANGED <<pending, presented, lost>>
    BY <1>2 DEF Frames!submit_ge_primitive
  <2>2. made' \in Seq(Shapes) /\ DOMAIN made' = M \cup {n} /\ n \in Nat /\ \A m \in M : m < n
    BY <1>0, <2>1
  <2>3. building' \in Seq(M \cup {n}) /\ Listed(building') = Listed(building) \cup {n}
    <3>1. building \in Seq(M \cup {n})
      <4>1. building \in Seq(M)
        BY <1>0
      <4> HIDE DEF M, n
      <4> QED
        BY <4>1, SeqWider
    <3>2. /\ building' \in Seq(M \cup {n}) /\ DOMAIN building' = DOMAIN building \cup {Len(building) + 1}
          /\ building'[Len(building) + 1] = n /\ \A k \in DOMAIN building : building'[k] = building[k]
      BY <3>1, <2>1
    <3> QED
      BY <3>2 DEF Listed
  <2>4. Rises(building')
    <3>1. /\ DOMAIN building' = DOMAIN building \cup {Len(building) + 1}
          /\ building'[Len(building) + 1] = n
          /\ \A k \in DOMAIN building : building'[k] = building[k] /\ building[k] < n
          /\ \A k \in DOMAIN building' : k \in Nat /\ k <= Len(building) + 1
      BY <1>0, <2>1, <2>2
    <3> HIDE DEF n
    <3>2. ASSUME NEW i \in DOMAIN building', NEW j \in DOMAIN building', i < j PROVE building'[i] < building'[j]
      <4>1. Len(building) \in Nat
        BY <1>0
      <4>2. i # Len(building) + 1
        BY <3>1, <3>2, <4>1
      <4>3. i \in DOMAIN building
        BY <3>1, <4>2
      <4> QED
        BY <1>0, <3>1, <3>2, <4>3 DEF Rises
    <3> QED
      BY <3>2 DEF Rises
  <2>5. Comes(pending, building') /\ Comes(presented, building')
    <3>1. \A j \in DOMAIN building' : (j \in DOMAIN building /\ building'[j] = building[j]) \/ building'[j] = n
      BY <1>0, <2>1
    <3>2. (\A i \in DOMAIN pending : pending[i] < n) /\ (\A i \in DOMAIN presented : presented[i] < n)
      BY <1>0, <2>2
    <3> HIDE DEF n
    <3> QED
      BY <1>0, <3>1, <3>2 DEF Comes
  <2>6. Waiting' = Waiting \cup {n}
    BY <2>1, <2>3, WaitingIs DEF Waiting, Listed
  <2>7. n \notin M
    BY <1>0
  <2> HIDE DEF n
  <2>8. pending' \in Seq(DOMAIN made') /\ presented' \in Seq(DOMAIN made') /\ building' \in Seq(DOMAIN made')
    <3>1. pending \in Seq(M) /\ presented \in Seq(M) /\ building' \in Seq(M \cup {n})
      BY <1>0, <2>3
    <3> HIDE DEF M
    <3>2. pending \in Seq(M \cup {n}) /\ presented \in Seq(M \cup {n})
      BY <3>1, SeqWider
    <3> QED
      BY <3>1, <3>2, <2>1, <2>2
  <2>9. /\ lost' \subseteq DOMAIN made' \ Waiting'
        /\ \A a \in DOMAIN made' \ Waiting', m \in Waiting' : a < m
    BY <1>0, <2>1, <2>2, <2>6, <2>7
  <2>10. /\ Rises(pending') /\ Rises(presented') /\ Comes(presented', pending')
         /\ Comes(presented', building') /\ Comes(pending', building')
    BY <1>0, <2>1, <2>5 DEF Rises, Comes
  <2> QED
    BY <2>1, <2>2, <2>4, <2>8, <2>9, <2>10 DEF BatchesInOrder, Rises, Comes
<1>3. CASE Frames!end_ge_frame
  <2>1. pending' = pending \o building /\ building' = <<>> /\ gstep' # "list" /\ UNCHANGED <<made, presented, lost>>
    BY <1>3 DEF Frames!end_ge_frame
  <2>2. pending' \in Seq(M) /\ Rises(pending \o building) /\ Listed(pending \o building) = Listed(pending) \cup Listed(building)
    <3>1. M \in SUBSET Nat /\ pending \in Seq(M) /\ building \in Seq(M)
      BY <1>0
    <3>2. Rises(pending) /\ Rises(building) /\ Comes(pending, building)
      BY <1>0
    <3> HIDE DEF M
    <3> QED
      BY <3>1, <3>2, <2>1, RisesOn
  <2>3. Comes(presented, pending \o building)
    <3>1. \A m \in Listed(pending) \cup Listed(building) : \A i \in DOMAIN presented : presented[i] < m
      BY <1>0 DEF Comes, Listed
    <3> QED
      BY <3>1, <2>2 DEF Comes, Listed
  <2>4. Waiting' = Waiting
    <3>1. Listed(pending') = Listed(pending) \cup Listed(building) /\ Listed(building') = {}
      BY <2>1, <2>2, EmptyQueue
    <3>2. Listed(presented') = Listed(presented)
      BY <2>1
    <3> QED
      BY <3>1, <3>2, WaitingIs
  <2>5. building' \in Seq(M) /\ Rises(building') /\ Comes(presented', building') /\ Comes(pending', building')
    BY <2>1, EmptyQueue DEF Rises, Comes
  <2>6. /\ Rises(pending') /\ Comes(presented', pending') /\ Rises(presented')
    BY <1>0, <2>1, <2>2, <2>3 DEF Rises, Comes
  <2> QED
    BY <1>0, <2>1, <2>2, <2>4, <2>5, <2>6 DEF BatchesInOrder, Rises, Comes
<1>4. CASE Frames!present_ge_frame
  <2>1. Frames!TakePending /\ gstep = "present" /\ gstep' # "list" /\ UNCHANGED <<made, building>> /\ building = <<>>
    BY <1>4, <1>0 DEF Frames!present_ge_frame
  <2>2. CASE pending = <<>>
    BY <2>1, <2>2, BatchesMove DEF Frames!TakePending
  <2>3. CASE pending # <<>>
    <3>1. presented' = pending /\ pending' = <<>> /\ lost' = lost \cup Listed(presented)
      BY <2>1, <2>3 DEF Frames!TakePending, Frames!ToSet, Listed
    <3>2. Waiting = Listed(pending) \cup Listed(presented) /\ Waiting' = Listed(pending)
      BY <2>1, <3>1, WaitingIs, EmptyQueue DEF Waiting, Listed
    <3>3. \A m \in Listed(pending), n \in Listed(presented) : n < m /\ m \in Nat /\ n \in Nat
      BY <1>0 DEF Comes, Listed
    <3>4. lost' \subseteq M \ Waiting' /\ \A n \in M \ Waiting', m \in Waiting' : n < m
      BY <1>0, <3>1, <3>2, <3>3
    <3>5. /\ pending' \in Seq(M) /\ Rises(pending') /\ Comes(presented', pending') /\ Comes(pending', building')
          /\ Comes(presented', building')
      BY <2>1, <3>1, EmptyQueue DEF Rises, Comes
    <3>6. Rises(presented') /\ Rises(building')
      BY <1>0, <2>1, <3>1 DEF Rises
    <3> QED
      BY <1>0, <2>1, <3>1, <3>4, <3>5, <3>6 DEF BatchesInOrder, Rises, Comes
  <2> QED
    BY <2>2, <2>3
<1>5. CASE Frames!Draw
  <2>1. presented' = <<>> /\ UNCHANGED <<made, building, pending, lost, gstep>>
    BY <1>5 DEF Frames!Draw
  <2>2. Waiting' = Listed(building) \cup Listed(pending)
    BY <2>1, WaitingIs, EmptyQueue DEF Waiting, Listed
  <2>3. \A m \in Listed(building) \cup Listed(pending), n \in Listed(presented) : n < m
    BY <1>0 DEF Comes, Listed
  <2>4. lost' \subseteq M \ Waiting' /\ \A n \in M \ Waiting', m \in Waiting' : n < m
    BY <1>0, <2>1, <2>2, <2>3, WaitingIs
  <2>5. presented' \in Seq(M) /\ Rises(presented') /\ Comes(presented', pending') /\ Comes(presented', building')
    BY <2>1, EmptyQueue DEF Rises, Comes
  <2>6. Rises(pending') /\ Rises(building') /\ Comes(pending', building')
    BY <1>0, <2>1 DEF Rises, Comes
  <2> QED
    BY <1>0, <2>1, <2>4, <2>5, <2>6 DEF BatchesInOrder, Rises, Comes
<1>6. CASE \/ Frames!Tell \/ Frames!present_frame \/ Frames!Record \/ Frames!StoreFrame
           \/ Frames!StoreAddress \/ Frames!DispatchUpload
  <2>1. UNCHANGED <<made, building, pending, presented, lost>> /\ gstep # "list"
    BY <1>6 DEF Frames!Tell, Frames!present_frame, Frames!Record, Frames!StoreFrame, Frames!StoreAddress,
       Frames!DispatchUpload, Frames!queues
  <2> QED
    BY <2>1, BatchesMove
<1>7. CASE \/ Frames!RenderMessage \/ Frames!UploadBlock \/ Frames!Expose \/ Frames!draw_display
           \/ Frames!ShowPicture \/ Frames!ShowTexture
  <2>1. UNCHANGED <<made, building, pending, presented, lost, gstep>>
    BY <1>7 DEF Frames!RenderMessage, Frames!UploadBlock, Frames!Expose, Frames!draw_display, Frames!ShowPicture,
       Frames!ShowTexture, Frames!guest, Frames!queues
  <2> QED
    BY <2>1, BatchesMove
<1> QED
  BY <1>1, <1>2, <1>3, <1>4, <1>5, <1>6, <1>7 DEF Frames!FramesNext

\* What has been drawn, before a step and after it.
LEMMA WhatIsDrawn ==
  /\ Frames!Drawn = DOMAIN made \ (Waiting \cup lost)
  /\ Frames!Drawn' = DOMAIN made' \ (Waiting' \cup lost')
<1>1. \A q : Frames!ToSet(q) = Listed(q)
  BY DEF Frames!ToSet, Listed
<1> QED
  BY <1>1, WaitingIs DEF Frames!Drawn

\* Drawing draws what was handed over; nothing else changes what is drawn.
LEMMA DrawnSteps ==
  ASSUME FrameTypes, BatchesInOrder, Frames!FramesNext
  PROVE  /\ system' = system /\ \A n \in DOMAIN made : n \in DOMAIN made' /\ made'[n] = made[n]
         /\ \/ Frames!Drawn' = Frames!Drawn /\ targets' = targets
            \/ Frames!Draw /\ Frames!Drawn' = Frames!Drawn \cup Listed(presented)
<1>0. /\ made \in Seq(Shapes) /\ lost \subseteq DOMAIN made \ Waiting /\ Waiting \subseteq DOMAIN made
      /\ (\A n \in DOMAIN made \ Waiting, m \in Waiting : n < m) /\ (gstep # "list" => building = <<>>)
      /\ \A m \in Listed(pending), n \in Listed(presented) : n < m
      /\ \A m \in Listed(building), n \in Listed(presented) : n < m
  BY DEF BatchesInOrder, Comes, Listed, Waiting
<1>1. CASE Frames!begin_ge_frame \/ Frames!end_ge_frame
  <2>1. /\ UNCHANGED <<system, made, presented, lost, targets>>
        /\ building' = <<>> /\ pending' = IF gstep = "list" THEN pending \o building ELSE pending
    BY <1>1 DEF Frames!begin_ge_frame, Frames!end_ge_frame, Frames!window
  <2>2. Listed(pending') \cup Listed(building') = Listed(pending) \cup Listed(building)
    <3> DEFINE M == DOMAIN made
    <3>1. M \in SUBSET Nat /\ pending \in Seq(M) /\ building \in Seq(M)
      BY <1>0 DEF BatchesInOrder
    <3>2. Rises(pending) /\ Rises(building) /\ Comes(pending, building)
      BY DEF BatchesInOrder
    <3> HIDE DEF M
    <3>3. Listed(pending \o building) = Listed(pending) \cup Listed(building)
      BY <3>1, <3>2, RisesOn
    <3>4. Listed(<<>>) = {}
      BY EmptyQueue
    <3> QED
      BY <1>0, <2>1, <3>3, <3>4
  <2>3. Listed(presented') = Listed(presented)
    BY <2>1
  <2>4. Waiting' = Waiting
    BY <2>2, <2>3, WaitingIs
  <2> QED
    BY <2>1, <2>4, WhatIsDrawn
<1>2. CASE Frames!submit_ge_primitive
  <2> DEFINE n == Len(made) + 1
  <2>1. /\ \E s \in Shapes : made' = Append(made, s)
        /\ building' = Append(building, n)
        /\ UNCHANGED <<system, pending, presented, lost, targets>>
    BY <1>2 DEF Frames!submit_ge_primitive, Frames!window
  <2>2. DOMAIN made' = DOMAIN made \cup {n} /\ \A m \in DOMAIN made : made'[m] = made[m]
    BY <1>0, <2>1
  <2>3. n \notin DOMAIN made
    BY <1>0
  <2>4. Listed(building') = Listed(building) \cup {n}
    <3>1. building \in Seq(DOMAIN made)
      BY DEF BatchesInOrder
    <3> DEFINE M == DOMAIN made \cup {n}
    <3> HIDE DEF n
    <3>2. building \in Seq(M) /\ n \in M
      BY <3>1, SeqWider
    <3> HIDE DEF M
    <3>3. /\ DOMAIN building' = DOMAIN building \cup {Len(building) + 1}
          /\ building'[Len(building) + 1] = n /\ \A k \in DOMAIN building : building'[k] = building[k]
      BY <3>2, <2>1
    <3> QED
      BY <3>3 DEF Listed
  <2>5. Listed(pending') = Listed(pending) /\ Listed(presented') = Listed(presented)
    BY <2>1
  <2>6. Waiting' = Waiting \cup {n}
    BY <2>4, <2>5, WaitingIs
  <2> HIDE DEF n
  <2>7. Frames!Drawn' = Frames!Drawn
    BY <1>0, <2>1, <2>2, <2>3, <2>6, WhatIsDrawn
  <2> QED
    BY <2>1, <2>2, <2>7
<1>3. CASE Frames!present_ge_frame
  <2>1. Frames!TakePending /\ gstep = "present" /\ UNCHANGED <<system, made, building, targets>>
    BY <1>3 DEF Frames!present_ge_frame, Frames!window
  <2>2. CASE pending = <<>>
    <3>1. UNCHANGED <<pending, presented, lost>>
      BY <2>1, <2>2 DEF Frames!TakePending
    <3> QED
      BY <2>1, <3>1, WaitingIs, WhatIsDrawn
  <2>3. CASE pending # <<>>
    <3>1. presented' = pending /\ pending' = <<>> /\ lost' = lost \cup Listed(presented) /\ building = <<>>
      BY <1>0, <2>1, <2>3 DEF Frames!TakePending, Frames!ToSet, Listed
    <3>2. Listed(<<>>) = {}
      BY EmptyQueue
    <3>3. Waiting = Listed(pending) \cup Listed(presented) /\ Waiting' = Listed(pending)
      BY <2>1, <3>1, <3>2, WaitingIs
    <3> QED
      BY <2>1, <3>1, <3>3, WhatIsDrawn
  <2> QED
    BY <2>2, <2>3
<1>4. CASE Frames!Draw
  <2>1. presented' = <<>> /\ UNCHANGED <<system, made, building, pending, lost>>
    BY <1>4 DEF Frames!Draw
  <2>2. Listed(<<>>) = {}
    BY EmptyQueue
  <2>3. Waiting' = Listed(building) \cup Listed(pending) /\ Waiting = Waiting' \cup Listed(presented)
    BY <2>1, <2>2, WaitingIs
  <2>4. \A n \in Listed(presented) : n \notin Waiting' /\ n \notin lost /\ n \in DOMAIN made
    <3>1. \A n \in Listed(presented) : n \in DOMAIN made /\ n \in Nat
      BY <1>0, <2>3
    <3> QED
      BY <1>0, <2>3, <3>1
  <2> QED
    BY <1>4, <2>1, <2>3, <2>4, WhatIsDrawn
<1>5. CASE \/ Frames!Tell \/ Frames!present_frame \/ Frames!Record \/ Frames!StoreFrame
           \/ Frames!StoreAddress \/ Frames!DispatchUpload
  <2>1. UNCHANGED <<system, made, building, pending, presented, lost, targets>>
    BY <1>5 DEF Frames!Tell, Frames!present_frame, Frames!Record, Frames!StoreFrame, Frames!StoreAddress,
       Frames!DispatchUpload, Frames!queues, Frames!window
  <2> QED
    BY <2>1, WaitingIs, WhatIsDrawn
<1>6. CASE \/ Frames!RenderMessage \/ Frames!UploadBlock \/ Frames!Expose \/ Frames!draw_display
           \/ Frames!ShowPicture \/ Frames!ShowTexture
  <2>1. UNCHANGED <<system, made, building, pending, presented, lost, targets>>
    BY <1>6 DEF Frames!RenderMessage, Frames!UploadBlock, Frames!Expose, Frames!draw_display, Frames!ShowPicture,
       Frames!ShowTexture, Frames!guest, Frames!queues, Frames!window
  <2> QED
    BY <2>1, WaitingIs, WhatIsDrawn
<1> QED
  BY <1>1, <1>2, <1>3, <1>4, <1>5, <1>6 DEF Frames!FramesNext

\* Targets are right after a step if they were what the step leaves.
LEMMA TargetsKept ==
  ASSUME NEW ts, NEW D, TargetsRight(ts, D), targets' = ts, Frames!Drawn' = D, system' = system,
         \A n \in D : made'[n] = made[n]
  PROVE  TargetsRight(targets, Frames!Drawn)'
<1>1. \A a : /\ Aimed(a, Frames!Drawn)' = Aimed(a, D)
             /\ \A n \in Aimed(a, D) : n \in D /\ made'[n] = made[n]
  BY DEF Aimed
<1>2. \A a : Grows(a, Frames!Drawn)' = Grows(a, D)
  BY <1>1 DEF Grows
<1>3. \A a : Since(a, Frames!Drawn)' = Since(a, D) /\ Since(a, D) \subseteq Aimed(a, D)
  BY <1>1, <1>2 DEF Since
<1>4. \A n \in D : \A from : SampleRight(n, from)' <=> SampleRight(n, from)
  BY DEF SampleRight
<1>5. DOMAIN targets' = {made'[n].to : n \in Frames!Drawn'}
  BY DEF TargetsRight
<1>6. ASSUME NEW a \in DOMAIN ts
      PROVE  TargetRight(targets[a], a, Frames!Drawn)'
  <2> DEFINE t == ts[a]
  <2>1. /\ t \in RenderTargets
        /\ \E n \in Aimed(a, D) : made[n].size = t.size
        /\ \A n \in Aimed(a, D) : made[n].size <= t.size
        /\ {t.drawn[k][1] : k \in DOMAIN t.drawn} = Since(a, D)
        /\ \A k, l \in DOMAIN t.drawn : k < l => t.drawn[k][1] < t.drawn[l][1]
        /\ \A k \in DOMAIN t.drawn : SampleRight(t.drawn[k][1], t.drawn[k][2])
    BY <1>6 DEF TargetsRight, TargetRight
  <2>2. targets'[a] = t
    OBVIOUS
  <2> HIDE DEF t
  <2>3. \A k \in DOMAIN t.drawn : t.drawn[k][1] \in D
    BY <1>1, <1>3, <2>1
  <2>4. \A k \in DOMAIN t.drawn : SampleRight(t.drawn[k][1], t.drawn[k][2])'
    BY <1>4, <2>1, <2>3
  <2> QED
    BY <1>1, <1>3, <2>1, <2>2, <2>4 DEF TargetRight
<1> QED
  BY <1>5, <1>6 DEF TargetsRight

\* Every target holds the batches drawn to it, in their order.
LEMMA TargetsStep ==
  ASSUME FrameTypes, BatchesInOrder, TargetsRight(targets, Frames!Drawn), Frames!FramesNext
  PROVE  TargetsRight(targets, Frames!Drawn)'
<1>1. Frames!Drawn \subseteq DOMAIN made
  BY WhatIsDrawn
<1>2. CASE Frames!Drawn' = Frames!Drawn /\ targets' = targets
  BY <1>1, <1>2, DrawnSteps, TargetsKept
<1>3. CASE Frames!Draw /\ Frames!Drawn' = Frames!Drawn \cup Listed(presented)
  <2> DEFINE D == Frames!Drawn
             E == D \cup {presented[k] : k \in DOMAIN presented}
             ts == Frames!draw_geometry(presented).targets
  <2>1. targets' = ts
    BY <1>3 DEF Frames!Draw
  <2>2. /\ made \in Seq(Shapes) /\ presented \in Seq(DOMAIN made) /\ Rises(presented)
        /\ \A m \in D, k \in DOMAIN presented : m < presented[k]
    BY <1>1, WhatIsDrawn DEF BatchesInOrder, Waiting
  <2>3. system \in {"windows", "macos"}
    BY DEF FrameTypes
  <2>4. TargetsRight(ts, E)
    <3> HIDE DEF D
    <3>1. D \in SUBSET DOMAIN made /\ TargetsRight(targets, D)
      BY <1>1 DEF D
    <3> QED
      BY <2>2, <2>3, <3>1, GeometryRight
  <2>5. Frames!Drawn' = E
    BY <1>3 DEF Listed
  <2>6. \A n \in E : n \in DOMAIN made
    BY <1>1, <2>2
  <2> HIDE DEF ts, E
  <2>7. system' = system /\ \A n \in E : made'[n] = made[n]
    BY <2>6, DrawnSteps
  <2> QED
    BY <2>1, <2>4, <2>5, <2>7, TargetsKept
<1> QED
  BY <1>2, <1>3, DrawnSteps

\* The last hash and origin of each address are those of its last picture.
LEMMA SourcesStep ==
  ASSUME FrameTypes, made \in Seq(Shapes), SourcesRight, Frames!FramesNext
  PROVE  SourcesRight'
<1>1. CASE \/ Frames!begin_ge_frame \/ Frames!end_ge_frame \/ Frames!present_ge_frame \/ Frames!Tell
           \/ Frames!StoreFrame \/ Frames!DispatchUpload
  <2>1. /\ UNCHANGED <<system, sources, latest, made, frame, presents, display>> /\ gstep # "record"
        /\ system = "macos" \/ gstep' = "address" \/ gstep \notin {"record", "store", "address"}
    BY <1>1 DEF Frames!begin_ge_frame, Frames!end_ge_frame, Frames!present_ge_frame, Frames!Tell, Frames!StoreFrame,
       Frames!DispatchUpload, Frames!OnMac, Frames!queues
  <2> QED
    BY <2>1 DEF SourcesRight
<1>2. CASE Frames!submit_ge_primitive
  <2>1. PICK s \in Shapes : /\ Frames!record_ge_write(s.to) /\ latest' = [latest EXCEPT ![s.to] = "ge"]
                            /\ made' = Append(made, s)
    BY <1>2 DEF Frames!submit_ge_primitive
  <2>2. UNCHANGED <<system, frame, presents, display, gstep>> /\ gstep = "list"
    BY <1>2 DEF Frames!submit_ge_primitive, Frames!window
  <2>3. /\ sources \in [Addresses -> [hash : Pictures \cup {Nothing}, cpu : BOOLEAN]]
        /\ latest \in [Addresses -> {"none", "cpu", "ge"}] /\ s.to \in Addresses
        /\ sources' = [sources EXCEPT ![s.to].cpu = FALSE]
    BY <2>1, FramesFacts DEF FrameTypes, Frames!record_ge_write
  <2>4. \A a \in Addresses : /\ sources'[a].hash = sources[a].hash
                             /\ a # s.to => sources'[a] = sources[a] /\ latest'[a] = latest[a]
    BY <2>1, <2>3
  <2>5. sources'[s.to].cpu = FALSE /\ latest'[s.to] = "ge"
    BY <2>1, <2>3
  <2>6. \A n \in DOMAIN made' : (n \in DOMAIN made /\ made'[n] = made[n]) \/ made'[n] = s
    BY <2>1
  <2>7. \A n \in DOMAIN made : made[n].to \in Addresses
    <3>1. \A n \in DOMAIN made : made[n] \in Shapes
      OBVIOUS
    <3> QED
      BY <3>1, FramesFacts
  <2>8. \A n \in DOMAIN made' : latest'[made'[n].to] # "none"
    BY <2>3, <2>4, <2>5, <2>6, <2>7 DEF SourcesRight
  <2>9. presents > 0 => frame.address \in Addresses
    BY DEF FrameTypes, Pictured
  <2> QED
    BY <2>2, <2>4, <2>5, <2>8, <2>9 DEF SourcesRight
<1>3. CASE Frames!present_frame
  <2>1. PICK a \in Addresses, picture \in Pictures :
          /\ frame' = [address |-> a, picture |-> picture, upload |-> FALSE]
          /\ display' = IF system = "macos" THEN a ELSE display
    BY <1>3 DEF Frames!present_frame, Frames!OnMac
  <2>2. gstep' = "record" /\ UNCHANGED <<system, sources, latest, made>>
    BY <1>3 DEF Frames!present_frame
  <2> QED
    BY <2>1, <2>2 DEF SourcesRight, FrameTypes
<1>4. CASE Frames!Record
  <2> DEFINE a == frame.address
  <2>1. a \in Addresses /\ frame.picture \in Pictures /\ frame.picture # Nothing
    BY <1>4, FramesFacts DEF FrameTypes, Frames!Record, Pictured
  <2>2. frame'.address = a /\ frame'.picture = frame.picture
    BY <1>4 DEF FrameTypes, Frames!Record, Pictured
  <2>3. UNCHANGED <<system, made, presents, display>> /\ gstep' = "store"
    BY <1>4 DEF Frames!Record
  <2>4. /\ sources \in [Addresses -> [hash : Pictures \cup {Nothing}, cpu : BOOLEAN]]
        /\ latest \in [Addresses -> {"none", "cpu", "ge"}]
    BY DEF FrameTypes
  <2>5. CASE sources[a].hash = frame.picture
    <3>1. UNCHANGED <<sources, latest>>
      BY <1>4, <2>5 DEF Frames!Record, Frames!record_cpu_frame
    <3> QED
      BY <2>2, <2>3, <2>5, <3>1 DEF SourcesRight
  <2>6. CASE sources[a].hash # frame.picture
    <3>1. /\ sources' = [sources EXCEPT ![a] = [hash |-> frame.picture, cpu |-> TRUE]]
          /\ latest' = [latest EXCEPT ![a] = "cpu"]
      BY <1>4, <2>6 DEF Frames!Record, Frames!record_cpu_frame
    <3>2. /\ sources'[a].hash = frame.picture /\ sources'[a].cpu = TRUE /\ latest'[a] = "cpu"
          /\ \A b \in Addresses : b # a => sources'[b] = sources[b] /\ latest'[b] = latest[b]
      BY <2>1, <2>4, <3>1
    <3>3. \A n \in DOMAIN made : made[n].to \in Addresses
      <4>1. \A n \in DOMAIN made : made[n] \in Shapes
        OBVIOUS
      <4> QED
        BY <4>1, FramesFacts
    <3>4. \A n \in DOMAIN made : latest'[made[n].to] # "none"
      BY <3>2, <3>3 DEF SourcesRight
    <3> QED
      BY <2>1, <2>2, <2>3, <3>2, <3>4 DEF SourcesRight
  <2> QED
    BY <2>5, <2>6
<1>5. CASE Frames!StoreAddress
  BY <1>5 DEF SourcesRight, Frames!StoreAddress, Frames!queues
<1>6. CASE \/ Frames!RenderMessage \/ Frames!UploadBlock \/ Frames!Expose \/ Frames!Draw \/ Frames!draw_display
           \/ Frames!ShowPicture \/ Frames!ShowTexture
  <2>1. UNCHANGED <<system, sources, latest, made, frame, presents, display, gstep>>
    BY <1>6 DEF Frames!RenderMessage, Frames!UploadBlock, Frames!Expose, Frames!Draw, Frames!draw_display,
       Frames!ShowPicture, Frames!ShowTexture, Frames!guest
  <2> QED
    BY <2>1 DEF SourcesRight
<1> QED
  BY <1>1, <1>2, <1>3, <1>4, <1>5, <1>6 DEF Frames!FramesNext

\* The hash of a source changes in Record, at one address.
LEMMA HashSteps ==
  ASSUME FrameTypes, Frames!FramesNext, ~Frames!Record
  PROVE  \A a \in Addresses : sources'[a].hash = sources[a].hash
<1>1. CASE Frames!submit_ge_primitive
  <2>1. PICK s \in Shapes : sources' = [sources EXCEPT ![s.to].cpu = FALSE]
    BY <1>1 DEF Frames!submit_ge_primitive, Frames!record_ge_write
  <2>2. sources \in [Addresses -> [hash : Pictures \cup {Nothing}, cpu : BOOLEAN]]
    BY DEF FrameTypes
  <2> QED
    BY <2>1, <2>2
<1>2. CASE ~Frames!submit_ge_primitive
  <2>1. UNCHANGED sources
    BY <1>2 DEF Frames!FramesNext, Frames!begin_ge_frame, Frames!end_ge_frame, Frames!present_ge_frame, Frames!Tell,
       Frames!StoreFrame, Frames!DispatchUpload, Frames!present_frame, Frames!StoreAddress, Frames!RenderMessage,
       Frames!UploadBlock, Frames!Expose, Frames!Draw, Frames!draw_display,
       Frames!ShowPicture, Frames!ShowTexture, Frames!guest
  <2> QED
    BY <2>1
<1> QED
  BY <1>1, <1>2

\* Recording a picture that is new leaves it owed.
LEMMA RecordOwes ==
  ASSUME FrameTypes, Frames!Record, NEW a \in Addresses
  PROVE  /\ ~Owed(a)
         /\ Owed(a)' \/ sources'[a] = sources[a]
         /\ frame'.address = frame.address /\ frame'.picture = frame.picture
<1>1. frame \in Pictured /\ frame.address \in Addresses /\ gstep = "record" /\ gstep' = "store"
  BY DEF FrameTypes, Frames!Record, Pictured
<1>2. frame' = [frame EXCEPT !.upload = sources[frame.address].hash # frame.picture]
  BY DEF Frames!Record
<1>3. /\ frame'.address = frame.address /\ frame'.picture = frame.picture
      /\ frame'.upload = (sources[frame.address].hash # frame.picture)
  BY <1>1, <1>2 DEF Pictured
<1>4. sources \in [Addresses -> [hash : Pictures \cup {Nothing}, cpu : BOOLEAN]]
  BY DEF FrameTypes
<1>5. CASE sources[frame.address].hash = frame.picture
  <2>1. UNCHANGED sources
    BY <1>5 DEF Frames!Record, Frames!record_cpu_frame
  <2> QED
    BY <1>1, <1>3, <2>1 DEF Owed
<1>6. CASE sources[frame.address].hash # frame.picture
  <2>1. sources' = [sources EXCEPT ![frame.address] = [hash |-> frame.picture, cpu |-> TRUE]]
    BY <1>6 DEF Frames!Record, Frames!record_cpu_frame
  <2>2. a # frame.address => sources'[a] = sources[a]
    BY <1>4, <2>1
  <2>3. a = frame.address => Owed(a)'
    BY <1>1, <1>3, <1>6 DEF Owed
  <2> QED
    BY <1>1, <1>3, <2>2, <2>3 DEF Owed
<1> QED
  BY <1>5, <1>6

\* On Windows the picture kept for an address is the last one presented there.
LEMMA StoredStep ==
  ASSUME FrameTypes, SourcesRight, Frames!FramesNext, system = "windows", StoredRight
  PROVE  StoredRight'
<1>0. /\ IsMap(cpuFrames, CpuPictures) /\ IsMap(cpuTextures, CpuPictures) /\ generation \in Nat
      /\ \A k \in DOMAIN queued : queued[k].kind # "upload"
  BY DEF FrameTypes
<1>1. CASE Frames!Record
  <2>1. UNCHANGED <<cpuFrames, cpuTextures, generation>>
    BY <1>1 DEF Frames!Record, Frames!window
  <2>2. \A a \in Addresses : Owed(a)' \/ Holds(cpuFrames, a)'
    BY <1>1, <2>1, RecordOwes DEF StoredRight, Holds
  <2> QED
    BY <2>1, <2>2 DEF StoredRight
<1>2. CASE Frames!StoreFrame
  <2> DEFINE a == frame.address
             new == [picture |-> frame.picture, generation |-> generation']
  <2>1. /\ a \in Addresses /\ frame.picture \in Pictures /\ sources[a].hash = frame.picture /\ frame.picture # Nothing
    BY <1>2, FramesFacts DEF FrameTypes, SourcesRight, Frames!StoreFrame, Pictured
  <2>2. gstep' = "address" /\ UNCHANGED <<sources, cpuTextures, frame>>
    BY <1>2 DEF Frames!StoreFrame, Frames!window
  <2>3. CASE frame.upload \/ a \notin DOMAIN cpuFrames
    <3>1. generation' = generation + 1 /\ cpuFrames' = Frames!Put(cpuFrames, a, new)
      BY <1>2, <2>3 DEF Frames!StoreFrame
    <3>2. new.picture = frame.picture /\ new.generation = generation + 1
      BY <3>1
    <3> HIDE DEF new
    <3>3. DOMAIN cpuFrames' = DOMAIN cpuFrames \cup {a}
      BY <3>1, PutDomain
    <3>4. cpuFrames'[a] = new
      BY <3>1, PutAt
    <3>5. \A b \in DOMAIN cpuFrames : b # a => cpuFrames'[b] = cpuFrames[b]
      BY <3>1, PutElse
    <3>6. \A b \in Addresses : Holds(cpuFrames, b)'
      <4> SUFFICES ASSUME NEW b \in Addresses PROVE Holds(cpuFrames, b)'
        OBVIOUS
      <4>1. CASE b = a
        BY <2>1, <2>2, <3>2, <3>3, <3>4, <4>1 DEF Holds
      <4>2. CASE b # a
        <5>1. Holds(cpuFrames, b)
          BY <4>2 DEF StoredRight, Owed
        <5> QED
          BY <2>2, <3>3, <3>5, <4>2, <5>1 DEF Holds
      <4> QED
        BY <4>1, <4>2
    <3>7. \A b \in DOMAIN cpuFrames : cpuFrames[b].generation \in Nat /\ cpuFrames[b].generation <= generation
      BY <1>0 DEF StoredRight, IsMap, CpuPictures
    <3>8. \A b \in DOMAIN cpuFrames' : cpuFrames'[b].generation <= generation'
      BY <1>0, <3>1, <3>2, <3>3, <3>4, <3>5, <3>7
    <3>9. ASSUME NEW b \in DOMAIN cpuTextures'
          PROVE  /\ b \in DOMAIN cpuFrames' /\ cpuTextures'[b].generation <= cpuFrames'[b].generation
                 /\ cpuTextures'[b].generation = cpuFrames'[b].generation =>
                      cpuTextures'[b].picture = cpuFrames'[b].picture
      <4>1. /\ b \in DOMAIN cpuFrames /\ cpuTextures[b].generation <= cpuFrames[b].generation
            /\ cpuTextures[b].generation = cpuFrames[b].generation => cpuTextures[b].picture = cpuFrames[b].picture
        BY <2>2, <3>9 DEF StoredRight
      <4>2. cpuTextures'[b] = cpuTextures[b] /\ cpuTextures[b].generation \in Nat
        BY <1>0, <2>2, <3>9 DEF IsMap, CpuPictures
      <4>3. CASE b = a
        BY <1>0, <3>2, <3>3, <3>4, <3>7, <4>1, <4>2, <4>3
      <4>4. CASE b # a
        BY <3>3, <3>5, <4>1, <4>2, <4>4
      <4> QED
        BY <4>3, <4>4
    <3> QED
      BY <3>6, <3>8, <3>9 DEF StoredRight
  <2>4. CASE ~(frame.upload \/ a \notin DOMAIN cpuFrames)
    <3>1. UNCHANGED <<cpuFrames, generation>>
      BY <1>2, <2>4 DEF Frames!StoreFrame
    <3>2. \A b \in Addresses : Holds(cpuFrames, b)
      BY <2>4 DEF StoredRight, Owed
    <3> QED
      BY <2>2, <3>1, <3>2 DEF StoredRight, Holds
  <2> QED
    BY <2>3, <2>4
<1>3. CASE Frames!ShowPicture
  <2> DEFINE a == wstep
             new == Frames!display_texture(a)
  <2>1. UNCHANGED <<sources, cpuFrames, generation, gstep, frame>> /\ a \in Addresses
    BY <1>3 DEF Frames!ShowPicture, Frames!guest
  <2>2. \A b \in Addresses : Owed(b)' \/ Holds(cpuFrames, b)'
    BY <2>1 DEF StoredRight, Owed, Holds
  <2>3. CASE a \notin DOMAIN cpuFrames
    <3>1. UNCHANGED cpuTextures
      BY <1>3, <2>3 DEF Frames!ShowPicture
    <3> QED
      BY <2>1, <2>2, <3>1 DEF StoredRight
  <2>4. CASE a \in DOMAIN cpuFrames
    <3>1. cpuTextures' = Frames!Put(cpuTextures, a, new)
      BY <1>3, <2>4 DEF Frames!ShowPicture
    <3>2. new.generation = cpuFrames[a].generation /\ new.picture = cpuFrames[a].picture
      BY DEF Frames!display_texture, StoredRight
    <3> HIDE DEF new
    <3>3. DOMAIN cpuTextures' = DOMAIN cpuTextures \cup {a}
      BY <3>1, PutDomain
    <3>4. cpuTextures'[a] = new
      BY <3>1, PutAt
    <3>5. \A b \in DOMAIN cpuTextures : b # a => cpuTextures'[b] = cpuTextures[b]
      BY <3>1, PutElse
    <3>6. cpuFrames[a].generation \in Nat
      BY <1>0, <2>4 DEF IsMap, CpuPictures
    <3>7. \A b \in DOMAIN cpuTextures' :
            /\ b \in DOMAIN cpuFrames /\ cpuTextures'[b].generation <= cpuFrames[b].generation
            /\ cpuTextures'[b].generation = cpuFrames[b].generation => cpuTextures'[b].picture = cpuFrames[b].picture
      BY <2>4, <3>2, <3>3, <3>4, <3>5, <3>6 DEF StoredRight
    <3> QED
      BY <2>1, <2>2, <3>7 DEF StoredRight
  <2> QED
    BY <2>3, <2>4
<1>4. CASE ~Frames!Record /\ ~Frames!StoreFrame /\ ~Frames!ShowPicture
  <2>1. UNCHANGED <<cpuFrames, cpuTextures, generation>>
    <3>1. ~Frames!UploadBlock
      <4>1. Frames!UploadBlock => queued # <<>> /\ Head(queued).kind = "upload" /\ queued \in Seq(FrameMessages)
        BY DEF FrameTypes, Frames!UploadBlock, Frames!Handle
      <4>2. queued # <<>> /\ queued \in Seq(FrameMessages) => 1 \in DOMAIN queued /\ Head(queued) = queued[1]
        OBVIOUS
      <4> QED
        BY <1>0, <4>1, <4>2
    <3> QED
      BY <1>4, <3>1 DEF Frames!FramesNext, Frames!begin_ge_frame, Frames!submit_ge_primitive, Frames!end_ge_frame,
         Frames!present_ge_frame, Frames!Tell, Frames!DispatchUpload, Frames!present_frame, Frames!StoreAddress,
         Frames!RenderMessage, Frames!Expose, Frames!Draw, Frames!draw_display,
         Frames!ShowTexture, Frames!guest, Frames!window
  <2>2. \A a \in Addresses : Owed(a) => Owed(a)'
    BY <1>4 DEF Owed, Frames!FramesNext, Frames!begin_ge_frame, Frames!submit_ge_primitive, Frames!end_ge_frame,
         Frames!present_ge_frame, Frames!Tell, Frames!DispatchUpload, Frames!present_frame, Frames!StoreAddress,
         Frames!RenderMessage, Frames!UploadBlock, Frames!Expose, Frames!Draw, Frames!draw_display,
         Frames!ShowTexture, Frames!guest, Frames!window, Frames!OnMac
  <2>3. \A a \in Addresses : sources'[a].hash = sources[a].hash
    BY <1>4, HashSteps
  <2>4. \A a \in Addresses : Owed(a)' \/ Holds(cpuFrames, a)'
    BY <2>1, <2>2, <2>3 DEF StoredRight, Holds
  <2> QED
    BY <2>1, <2>4 DEF StoredRight
<1> QED
  BY <1>1, <1>2, <1>3, <1>4
\* The parts of UploadsRight about one address.
Lands(a) ==
    Owed(a) \/ IF Uploads(a) = {} THEN Holds(cpuTextures, a)
               ELSE \A k \in Uploads(a) : (\A j \in Uploads(a) : j <= k) => queued[k].frame.picture = sources[a].hash
Follows(a) ==
    \A k \in Uploads(a) : ~queued[k].frame.upload =>
      /\ (\A j \in Uploads(a) : k <= j) /\ a \in DOMAIN cpuTextures => cpuTextures[a].picture = queued[k].frame.picture
      /\ \A j \in Uploads(a) : j < k /\ (\A i \in Uploads(a) : i <= j \/ k <= i) =>
           queued[j].frame.picture = queued[k].frame.picture

\* The messages with a picture for an address, one address at a time.
LEMMA UploadsAre == UploadsRight <=> \A a \in Addresses : Lands(a) /\ Follows(a)
  BY Zenon DEF UploadsRight, Lands, Follows

\* The same after a step.
LEMMA UploadsAreNext == UploadsRight' <=> \A a \in Addresses : Lands(a)' /\ Follows(a)'
  BY Zenon DEF UploadsRight, Lands, Follows

\* The queue without its first message.
LEMMA QueueShifts ==
  ASSUME queued \in Seq(FrameMessages), queued # <<>>, queued' = Tail(queued), NEW a
  PROVE  /\ Uploads(a) \subseteq Nat \ {0}
         /\ \A k : k \in Uploads(a)' <=> k \in Nat \ {0} /\ k + 1 \in Uploads(a)
         /\ \A k \in Uploads(a)' : queued'[k] = queued[k + 1]
         /\ 1 \in DOMAIN queued /\ Head(queued) = queued[1] /\ queued[1] \in FrameMessages
         /\ 1 \in Uploads(a) <=> IsUpload(1, a)
<1>1. /\ DOMAIN queued = 1..Len(queued) /\ Len(queued) \in Nat /\ Len(queued) > 0
      /\ DOMAIN queued' = 1..(Len(queued) - 1) /\ \A k \in DOMAIN queued' : queued'[k] = queued[k + 1]
      /\ Head(queued) = queued[1] /\ queued[1] \in FrameMessages
  OBVIOUS
<1>2. \A k : k \in DOMAIN queued' <=> k \in Nat \ {0} /\ k + 1 \in DOMAIN queued
  BY <1>1
<1>3. \A k \in DOMAIN queued' : IsUpload(k, a)' <=> IsUpload(k + 1, a)
  BY <1>1 DEF IsUpload
<1>4. DOMAIN queued \subseteq Nat \ {0} /\ 1 \in DOMAIN queued
  BY <1>1
<1> QED
  BY <1>1, <1>2, <1>3, <1>4 DEF Uploads

\* The queue with one more message.
LEMMA QueueGrows ==
  ASSUME queued \in Seq(FrameMessages), NEW m \in FrameMessages, queued' = Append(queued, m), NEW a
  PROVE  LET n == Len(queued) + 1
         IN  /\ n \in Nat /\ queued'[n] = m
             /\ Uploads(a) \subseteq Nat /\ \A k \in Uploads(a) : k < n /\ queued'[k] = queued[k]
             /\ Uploads(a)' = Uploads(a) \cup (IF m.kind = "upload" /\ m.frame.address = a THEN {n} ELSE {})
<1> DEFINE n == Len(queued) + 1
<1>1. /\ n \in Nat /\ queued'[n] = m /\ DOMAIN queued' = DOMAIN queued \cup {n}
      /\ \A k \in DOMAIN queued : k \in Nat /\ k < n /\ queued'[k] = queued[k]
  OBVIOUS
<1> HIDE DEF n
<1>2. \A k \in DOMAIN queued : IsUpload(k, a)' <=> IsUpload(k, a)
  BY <1>1 DEF IsUpload
<1>3. \A k : k = n => (IsUpload(k, a)' <=> m.kind = "upload" /\ m.frame.address = a)
  BY <1>1 DEF IsUpload
<1>4. Uploads(a) \subseteq DOMAIN queued
  BY DEF Uploads
<1>5. Uploads(a)' = Uploads(a) \cup (IF m.kind = "upload" /\ m.frame.address = a THEN {n} ELSE {})
  <2>1. \A k : k \in Uploads(a)' <=> k \in Uploads(a) \/ (k = n /\ m.kind = "upload" /\ m.frame.address = a)
    BY <1>1, <1>2, <1>3 DEF Uploads
  <2> QED
    BY <2>1
<1> QED
  BY <1>1, <1>4, <1>5 DEF n

\* Messages that stay where they are.
LEMMA FollowsOn ==
  ASSUME NEW a, Follows(a), Uploads(a)' = Uploads(a), \A k \in Uploads(a) : queued'[k] = queued[k],
         cpuTextures' = cpuTextures
  PROVE  Follows(a)'
<1>1. ASSUME NEW k \in Uploads(a)', ~queued'[k].frame.upload, \A j \in Uploads(a)' : k <= j, a \in DOMAIN cpuTextures'
      PROVE  cpuTextures'[a].picture = queued'[k].frame.picture
  BY <1>1 DEF Follows
<1>2. ASSUME NEW k \in Uploads(a)', ~queued'[k].frame.upload, NEW j \in Uploads(a)', j < k,
             \A i \in Uploads(a)' : i <= j \/ k <= i
      PROVE  queued'[j].frame.picture = queued'[k].frame.picture
  <2>1. /\ k \in Uploads(a) /\ j \in Uploads(a) /\ \A i \in Uploads(a) : i <= j \/ k <= i
        /\ queued'[k] = queued[k] /\ queued'[j] = queued[j]
    BY <1>2
  <2> QED
    BY <1>2, <2>1 DEF Follows
<1> QED
  BY <1>1, <1>2 DEF Follows

\* On macOS the last message for an address brings the last picture there.
LEMMA UploadsStep ==
  ASSUME FrameTypes, SourcesRight, Frames!FramesNext, system = "macos", UploadsRight
  PROVE  UploadsRight'
<1>0. /\ IsMap(cpuTextures, CpuPictures) /\ queued \in Seq(FrameMessages)
      /\ \A a \in Addresses : Lands(a) /\ Follows(a)
  BY UploadsAre DEF FrameTypes
<1> SUFFICES ASSUME NEW a \in Addresses PROVE Lands(a)' /\ Follows(a)'
  BY UploadsAreNext
<1>1. CASE Frames!Record
  <2>1. UNCHANGED <<queued, cpuTextures>>
    BY <1>1 DEF Frames!Record, Frames!window
  <2>2. Uploads(a)' = Uploads(a)
    BY <2>1 DEF Uploads, IsUpload
  <2>3. Follows(a)'
    BY <1>0, <2>1, <2>2, FollowsOn
  <2>4. Lands(a)'
    BY <1>0, <1>1, <2>1, <2>2, RecordOwes DEF Lands, Holds
  <2> QED
    BY <2>3, <2>4
<1>2. CASE Frames!DispatchUpload
  <2> DEFINE m == [kind |-> "upload", frame |-> frame]
             n == Len(queued) + 1
  <2>1. /\ frame \in Pictured /\ sources[frame.address].hash = frame.picture /\ gstep = "store" /\ gstep' = "present"
        /\ queued' = Append(queued, m) /\ UNCHANGED <<sources, cpuTextures, frame>>
    BY <1>2 DEF FrameTypes, SourcesRight, Frames!DispatchUpload, Frames!window
  <2>2. m \in FrameMessages /\ m.kind = "upload" /\ m.frame = frame
    BY <2>1 DEF FrameMessages
  <2> HIDE DEF m
  <2>3. /\ n \in Nat /\ queued'[n] = m
        /\ Uploads(a) \subseteq Nat /\ \A k \in Uploads(a) : k < n /\ queued'[k] = queued[k]
        /\ Uploads(a)' = Uploads(a) \cup (IF frame.address = a THEN {n} ELSE {})
    BY <1>0, <2>1, <2>2, QueueGrows
  <2> HIDE DEF n
  <2>4. CASE frame.address # a
    <3>1. Uploads(a)' = Uploads(a) /\ ~Owed(a)
      BY <2>3, <2>4 DEF Owed
    <3>2. Lands(a)'
      BY <1>0, <2>1, <2>3, <3>1 DEF Lands, Holds
    <3>3. Follows(a)'
      BY <1>0, <2>1, <2>3, <3>1, FollowsOn
    <3> QED
      BY <3>2, <3>3
  <2>5. CASE frame.address = a
    <3>1. Uploads(a)' = Uploads(a) \cup {n} /\ queued'[n].frame = frame /\ sources[a].hash = frame.picture
      BY <2>1, <2>2, <2>3, <2>5
    <3>2. Lands(a)'
      <4> SUFFICES ASSUME NEW k \in Uploads(a)', \A j \in Uploads(a)' : j <= k
                   PROVE  queued'[k].frame.picture = sources[a].hash
        BY <2>1, <3>1 DEF Lands
      <4>1. n <= k /\ (k = n \/ (k \in Uploads(a) /\ k < n /\ k \in Nat))
        BY <2>3, <3>1
      <4>2. k = n
        BY <2>3, <4>1
      <4> QED
        BY <3>1, <4>2
    <3>3. ASSUME NEW k \in Uploads(a)', ~queued'[k].frame.upload, \A j \in Uploads(a)' : k <= j,
                 a \in DOMAIN cpuTextures
          PROVE  cpuTextures[a].picture = queued'[k].frame.picture
      <4>1. CASE k \in Uploads(a)
        BY <1>0, <2>3, <3>1, <3>3, <4>1 DEF Follows
      <4>2. CASE k = n
        <5>1. Uploads(a) = {}
          <6>1. \A j \in Uploads(a) : n <= j /\ j < n /\ j \in Nat
            BY <2>3, <3>1, <3>3, <4>2
          <6>2. \A j \in Uploads(a) : FALSE
            BY <6>1, <2>3
          <6> QED
            BY <6>2
        <5>2. ~Owed(a)
          BY <3>1, <3>3, <4>2 DEF Owed
        <5> QED
          BY <1>0, <3>1, <3>3, <4>2, <5>1, <5>2 DEF Lands, Holds
      <4> QED
        BY <3>1, <4>1, <4>2
    <3>4. ASSUME NEW k \in Uploads(a)', ~queued'[k].frame.upload, NEW j \in Uploads(a)', j < k,
                 \A i \in Uploads(a)' : i <= j \/ k <= i
          PROVE  queued'[j].frame.picture = queued'[k].frame.picture
      <4>1. j \in Uploads(a)
        <5>1. k \in Nat /\ k <= n /\ j # n
          BY <2>3, <3>1, <3>4
        <5> QED
          BY <3>1, <5>1
      <4>2. CASE k \in Uploads(a)
        <5>1. queued'[k] = queued[k] /\ queued'[j] = queued[j]
          BY <2>3, <4>1, <4>2
        <5> QED
          BY <1>0, <3>1, <3>4, <4>1, <4>2, <5>1 DEF Follows
      <4>3. CASE k = n
        <5>1. ~Owed(a)
          BY <3>1, <3>4, <4>3 DEF Owed
        <5>2. \A i \in Uploads(a) : i <= j
          <6>1. \A i \in Uploads(a) : (i <= j \/ n <= i) /\ i < n /\ i \in Nat
            BY <2>3, <3>1, <3>4, <4>3
          <6> QED
            BY <6>1, <2>3
        <5>3. queued[j].frame.picture = sources[a].hash
          BY <1>0, <4>1, <5>1, <5>2 DEF Lands
        <5> QED
          BY <2>3, <3>1, <4>1, <4>3, <5>3
      <4> QED
        BY <3>1, <4>2, <4>3
    <3> QED
      BY <2>1, <3>2, <3>3, <3>4 DEF Follows
  <2> QED
    BY <2>4, <2>5
<1>3. CASE Frames!Tell
  <2>1. /\ queued' = queued \/ queued' = Append(queued, [kind |-> "render"])
        /\ UNCHANGED <<sources, cpuTextures, frame>> /\ gstep # "store" /\ gstep' # "store"
    BY <1>3 DEF Frames!Tell, Frames!TellWindow, Frames!DispatchDisplay, Frames!window
  <2> DEFINE m == [kind |-> "render"]
  <2>2. m \in FrameMessages /\ m.kind # "upload"
    BY DEF FrameMessages
  <2> HIDE DEF m
  <2>3. Uploads(a)' = Uploads(a) /\ \A k \in Uploads(a) : queued'[k] = queued[k]
    <3>1. CASE queued' = queued
      BY <3>1 DEF Uploads, IsUpload
    <3>2. CASE queued' = Append(queued, m)
      <4>1. \A k \in Uploads(a) : queued'[k] = queued[k]
        BY <1>0, <2>2, <3>2, QueueGrows
      <4>2. Uploads(a)' = Uploads(a) \cup (IF m.kind = "upload" /\ m.frame.address = a THEN {Len(queued) + 1} ELSE {})
        BY <1>0, <2>2, <3>2, QueueGrows
      <4> QED
        BY <2>2, <4>1, <4>2
    <3> QED
      BY <2>1, <3>1, <3>2 DEF m
  <2>4. Owed(a)' <=> Owed(a)
    BY <2>1 DEF Owed
  <2>5. Lands(a)'
    BY <1>0, <2>1, <2>3, <2>4 DEF Lands, Holds
  <2>6. Follows(a)'
    BY <1>0, <2>1, <2>3, FollowsOn
  <2> QED
    BY <2>5, <2>6
<1>4. CASE Frames!RenderMessage
  <2>1. queued # <<>> /\ Head(queued).kind = "render" /\ queued' = Tail(queued)
        /\ UNCHANGED <<sources, cpuTextures, frame, gstep>>
    BY <1>4 DEF Frames!RenderMessage, Frames!Handle, Frames!window
  <2>2. /\ Uploads(a) \subseteq Nat \ {0} /\ 1 \notin Uploads(a)
        /\ \A k : k \in Uploads(a)' <=> k \in Nat \ {0} /\ k + 1 \in Uploads(a)
        /\ \A k \in Uploads(a)' : queued'[k] = queued[k + 1]
    BY <1>0, <2>1, QueueShifts DEF IsUpload
  <2>3. \A k \in Uploads(a) : k - 1 \in Uploads(a)' /\ (k - 1) + 1 = k
    BY <2>2
  <2>4. Lands(a)'
    <3>1. CASE Owed(a)
      BY <2>1, <3>1 DEF Lands, Owed
    <3>2. CASE ~Owed(a) /\ Uploads(a) = {}
      <4>1. Uploads(a)' = {} /\ Holds(cpuTextures, a)
        BY <1>0, <2>2, <3>2 DEF Lands
      <4> QED
        BY <2>1, <4>1 DEF Lands, Holds
    <3>3. CASE ~Owed(a) /\ Uploads(a) # {}
      <4>1. Uploads(a)' # {}
        BY <2>3, <3>3
      <4>2. ASSUME NEW k \in Uploads(a)', \A j \in Uploads(a)' : j <= k
            PROVE  queued'[k].frame.picture = sources[a].hash
        <5>1. k + 1 \in Uploads(a) /\ queued'[k] = queued[k + 1] /\ k \in Nat
          BY <2>2, <4>2
        <5>2. \A j \in Uploads(a) : j <= k + 1
          <6>1. \A j \in Uploads(a) : j - 1 <= k /\ j \in Nat
            BY <2>2, <2>3, <4>2
          <6> QED
            BY <5>1, <6>1
        <5> QED
          BY <1>0, <3>3, <5>1, <5>2 DEF Lands
      <4> QED
        BY <2>1, <4>1, <4>2 DEF Lands
    <3> QED
      BY <3>1, <3>2, <3>3
  <2>5. ASSUME NEW k \in Uploads(a)', ~queued'[k].frame.upload, \A j \in Uploads(a)' : k <= j,
               a \in DOMAIN cpuTextures
        PROVE  cpuTextures[a].picture = queued'[k].frame.picture
    <3>1. k + 1 \in Uploads(a) /\ queued'[k] = queued[k + 1] /\ k \in Nat
      BY <2>2, <2>5
    <3>2. \A j \in Uploads(a) : k + 1 <= j
      <4>1. \A j \in Uploads(a) : k <= j - 1 /\ j \in Nat
        BY <2>2, <2>3, <2>5
      <4> QED
        BY <3>1, <4>1
    <3> QED
      BY <1>0, <2>5, <3>1, <3>2 DEF Follows
  <2>6. ASSUME NEW k \in Uploads(a)', ~queued'[k].frame.upload, NEW j \in Uploads(a)', j < k,
               \A i \in Uploads(a)' : i <= j \/ k <= i
        PROVE  queued'[j].frame.picture = queued'[k].frame.picture
    <3>1. /\ k + 1 \in Uploads(a) /\ queued'[k] = queued[k + 1] /\ k \in Nat
          /\ j + 1 \in Uploads(a) /\ queued'[j] = queued[j + 1] /\ j \in Nat
      BY <2>2, <2>6
    <3>2. \A i \in Uploads(a) : i <= j + 1 \/ k + 1 <= i
      <4>1. \A i \in Uploads(a) : (i - 1 <= j \/ k <= i - 1) /\ i \in Nat
        BY <2>2, <2>3, <2>6
      <4> QED
        BY <3>1, <4>1
    <3>3. j + 1 < k + 1
      BY <2>6, <3>1
    <3> QED
      BY <1>0, <2>6, <3>1, <3>2, <3>3 DEF Follows
  <2> QED
    BY <2>1, <2>4, <2>5, <2>6 DEF Follows
<1>5. CASE Frames!UploadBlock
  <2> DEFINE f == Head(queued).frame
             b == f.address
             new == [picture |-> f.picture, generation |-> 0]
  <2>1. /\ queued # <<>> /\ Head(queued).kind = "upload" /\ queued' = Tail(queued)
        /\ UNCHANGED <<sources, frame, gstep>>
        /\ cpuTextures' = IF f.upload \/ b \notin DOMAIN cpuTextures THEN Frames!Put(cpuTextures, b, new) ELSE cpuTextures
    BY <1>5 DEF Frames!UploadBlock, Frames!Handle, Frames!guest
  <2>2. /\ Uploads(a) \subseteq Nat \ {0} /\ (1 \in Uploads(a) <=> a = b)
        /\ \A k : k \in Uploads(a)' <=> k \in Nat \ {0} /\ k + 1 \in Uploads(a)
        /\ \A k \in Uploads(a)' : queued'[k] = queued[k + 1]
        /\ queued[1].frame = f /\ f \in Pictured
    <3>1. /\ Head(queued) = queued[1] /\ queued[1] \in FrameMessages
          /\ Uploads(a) \subseteq Nat \ {0} /\ (1 \in Uploads(a) <=> IsUpload(1, a))
          /\ \A k : k \in Uploads(a)' <=> k \in Nat \ {0} /\ k + 1 \in Uploads(a)
          /\ \A k \in Uploads(a)' : queued'[k] = queued[k + 1]
      BY <1>0, <2>1, QueueShifts
    <3>2. f \in Pictured
      BY <2>1, <3>1 DEF FrameMessages
    <3> QED
      BY <2>1, <3>1, <3>2 DEF IsUpload
  <2>3. \A k \in Uploads(a) : k # 1 => k - 1 \in Uploads(a)' /\ (k - 1) + 1 = k
    BY <2>2
  <2>4. new.picture = f.picture /\ f.picture # Nothing
    BY <2>2, FramesFacts DEF Pictured
  <2> HIDE DEF new, f
  <2>5. a # b => (a \in DOMAIN cpuTextures' <=> a \in DOMAIN cpuTextures)
                 /\ (a \in DOMAIN cpuTextures => cpuTextures'[a] = cpuTextures[a])
    <3>1. CASE cpuTextures' = cpuTextures
      BY <3>1
    <3>2. CASE cpuTextures' = Frames!Put(cpuTextures, b, new)
      <4>1. DOMAIN cpuTextures' = DOMAIN cpuTextures \cup {b}
        BY <3>2, PutDomain
      <4>2. \A c \in DOMAIN cpuTextures : c # b => cpuTextures'[c] = cpuTextures[c]
        BY <3>2, PutElse
      <4> QED
        BY <4>1, <4>2
    <3> QED
      BY <2>1, <3>1, <3>2
  <2>6. a = b => a \in DOMAIN cpuTextures' /\ cpuTextures'[a].picture = f.picture
    <3> SUFFICES ASSUME a = b PROVE b \in DOMAIN cpuTextures' /\ cpuTextures'[b].picture = f.picture
      OBVIOUS
    <3>1. CASE f.upload \/ b \notin DOMAIN cpuTextures
      <4>1. cpuTextures' = Frames!Put(cpuTextures, b, new)
        BY <2>1, <3>1
      <4>2. DOMAIN cpuTextures' = DOMAIN cpuTextures \cup {b}
        BY <4>1, PutDomain
      <4>3. cpuTextures'[b] = new
        BY <4>1, PutAt
      <4> QED
        BY <2>4, <4>2, <4>3
    <3>2. CASE ~(f.upload \/ b \notin DOMAIN cpuTextures)
      <4>1. 1 \in Uploads(a) /\ ~queued[1].frame.upload /\ \A j \in Uploads(a) : 1 <= j
        BY <2>2, <3>2
      <4>2. cpuTextures[a].picture = queued[1].frame.picture
        BY <1>0, <3>2, <4>1 DEF Follows
      <4> QED
        BY <2>1, <2>2, <3>2, <4>2
    <3> QED
      BY <3>1, <3>2
  <2>7. Lands(a)'
    <3>1. CASE Owed(a)
      BY <2>1, <3>1 DEF Lands, Owed
    <3>2. CASE ~Owed(a) /\ Uploads(a)' = {}
      <4>1. CASE a # b
        <5>1. Uploads(a) = {}
          BY <2>2, <2>3, <3>2, <4>1
        <5>2. Holds(cpuTextures, a)
          BY <1>0, <3>2, <5>1 DEF Lands
        <5> QED
          BY <2>1, <2>5, <3>2, <4>1, <5>2 DEF Lands, Holds
      <4>2. CASE a = b
        <5>1. 1 \in Uploads(a) /\ \A k \in Uploads(a) : k = 1
          BY <2>2, <2>3, <3>2, <4>2
        <5>2. queued[1].frame.picture = sources[a].hash
          BY <1>0, <3>2, <5>1 DEF Lands
        <5> QED
          BY <2>1, <2>2, <2>4, <2>6, <3>2, <4>2, <5>2 DEF Lands, Holds
      <4> QED
        BY <4>1, <4>2
    <3>3. CASE ~Owed(a) /\ Uploads(a)' # {}
      <4>1. ASSUME NEW k \in Uploads(a)', \A j \in Uploads(a)' : j <= k
            PROVE  queued'[k].frame.picture = sources[a].hash
        <5>1. k + 1 \in Uploads(a) /\ queued'[k] = queued[k + 1] /\ k \in Nat
          BY <2>2, <4>1
        <5>2. \A j \in Uploads(a) : j <= k + 1
          <6>1. \A j \in Uploads(a) : (j = 1 \/ j - 1 <= k) /\ j \in Nat
            BY <2>2, <2>3, <4>1
          <6> QED
            BY <5>1, <6>1
        <5> QED
          BY <1>0, <3>3, <5>1, <5>2 DEF Lands
      <4> QED
        BY <2>1, <3>3, <4>1 DEF Lands
    <3> QED
      BY <3>1, <3>2, <3>3
  <2>8. ASSUME NEW k \in Uploads(a)', ~queued'[k].frame.upload, \A j \in Uploads(a)' : k <= j,
               a \in DOMAIN cpuTextures'
        PROVE  cpuTextures'[a].picture = queued'[k].frame.picture
    <3>1. k + 1 \in Uploads(a) /\ queued'[k] = queued[k + 1] /\ k \in Nat \ {0}
      BY <2>2, <2>8
    <3>2. \A j \in Uploads(a) : j = 1 \/ k + 1 <= j
      <4>1. \A j \in Uploads(a) : (j = 1 \/ k <= j - 1) /\ j \in Nat
        BY <2>2, <2>3, <2>8
      <4> QED
        BY <3>1, <4>1
    <3>3. CASE a # b
      <4>1. \A j \in Uploads(a) : k + 1 <= j
        BY <2>2, <3>2, <3>3
      <4>2. cpuTextures[a].picture = queued[k + 1].frame.picture
        BY <1>0, <2>5, <2>8, <3>1, <3>3, <4>1 DEF Follows
      <4> QED
        BY <2>5, <2>8, <3>1, <3>3, <4>2
    <3>4. CASE a = b
      <4>1. 1 \in Uploads(a) /\ 1 < k + 1 /\ \A i \in Uploads(a) : i <= 1 \/ k + 1 <= i
        BY <2>2, <3>1, <3>2, <3>4
      <4>2. queued[1].frame.picture = queued[k + 1].frame.picture
        BY <1>0, <2>8, <3>1, <4>1 DEF Follows
      <4> QED
        BY <2>2, <2>6, <3>1, <3>4, <4>2
    <3> QED
      BY <3>3, <3>4
  <2>9. ASSUME NEW k \in Uploads(a)', ~queued'[k].frame.upload, NEW j \in Uploads(a)', j < k,
               \A i \in Uploads(a)' : i <= j \/ k <= i
        PROVE  queued'[j].frame.picture = queued'[k].frame.picture
    <3>1. /\ k + 1 \in Uploads(a) /\ queued'[k] = queued[k + 1] /\ k \in Nat
          /\ j + 1 \in Uploads(a) /\ queued'[j] = queued[j + 1] /\ j \in Nat
      BY <2>2, <2>9
    <3>2. \A i \in Uploads(a) : i <= j + 1 \/ k + 1 <= i
      <4>1. \A i \in Uploads(a) : (i = 1 \/ i - 1 <= j \/ k <= i - 1) /\ i \in Nat
        BY <2>2, <2>3, <2>9
      <4> QED
        BY <3>1, <4>1
    <3>3. j + 1 < k + 1
      BY <2>9, <3>1
    <3> QED
      BY <1>0, <2>9, <3>1, <3>2, <3>3 DEF Follows
  <2> QED
    BY <2>1, <2>7, <2>8, <2>9 DEF Follows
<1>6. CASE ~Frames!Record /\ ~Frames!DispatchUpload /\ ~Frames!Tell /\ ~Frames!RenderMessage /\ ~Frames!UploadBlock
  <2>1. UNCHANGED <<queued, cpuTextures>> /\ ((gstep # "store" /\ gstep' # "store") \/ UNCHANGED <<gstep, frame>>)
    BY <1>6 DEF Frames!FramesNext, Frames!begin_ge_frame, Frames!submit_ge_primitive, Frames!end_ge_frame,
         Frames!present_ge_frame, Frames!present_frame, Frames!StoreFrame, Frames!StoreAddress,
         Frames!Expose, Frames!Draw, Frames!draw_display, Frames!ShowPicture, Frames!ShowTexture, Frames!guest,
         Frames!window, Frames!OnWindows
  <2>2. sources'[a].hash = sources[a].hash
    BY <1>6, HashSteps
  <2>3. Owed(a)' <=> Owed(a)
    BY <2>1 DEF Owed
  <2>4. Uploads(a)' = Uploads(a)
    BY <2>1 DEF Uploads, IsUpload
  <2>5. Lands(a)'
    BY <1>0, <2>1, <2>2, <2>3, <2>4 DEF Lands, Holds
  <2>6. Follows(a)'
    BY <1>0, <2>1, <2>4, FollowsOn
  <2> QED
    BY <2>5, <2>6
<1> QED
  BY <1>1, <1>2, <1>3, <1>4, <1>5, <1>6

\* What the window would show, while none of this changes.
LEMMA ShowingKept ==
  ASSUME UNCHANGED <<system, sources, display, cpuFrames, targets, cpuTextures, lastTexture>>
  PROVE  Showing' = Showing
  BY DEF Showing, Frames!TargetShown

\* The window goes on showing what it showed.
LEMMA WindowKept ==
  ASSUME WindowRight, UNCHANGED <<system, sources, display, cpuFrames, targets, cpuTextures, lastTexture, screen, wstep>>,
         Quiet' => Quiet, Frames!NoFrameForgotten', outstanding' => system' = "windows" /\ queued' # <<>>
  PROVE  WindowRight'
<1>1. Showing' = Showing
  BY ShowingKept
<1> QED
  BY <1>1 DEF WindowRight

\* As long as something is on its way, the screen may be old.
LEMMA WindowBusy ==
  ASSUME ~Quiet', Frames!NoFrameForgotten', outstanding' => system' = "windows" /\ queued' # <<>>
  PROVE  WindowRight'
  BY DEF WindowRight

\* A queue with a message is not empty.
LEMMA AppendedIs ==
  ASSUME NEW S, NEW q \in Seq(S), NEW m
  PROVE  Append(q, m) # <<>>
<1>1. q \in Seq(S \cup {m}) /\ m \in S \cup {m}
  BY SeqWider
<1>2. Len(Append(q, m)) = Len(q) + 1 /\ Len(q) \in Nat
  BY <1>1
<1> QED
  BY <1>2

\* A step that redraws the window shows what is to be shown.
LEMMA ShownStep ==
  ASSUME FrameTypes, BatchesInOrder, Frames!FramesNext, system = "windows" => StoredRight, WindowRight
  PROVE  WindowRight'
<1>0. /\ system \in {"windows", "macos"} /\ queued \in Seq(FrameMessages)
      /\ Frames!NoFrameForgotten /\ (outstanding => system = "windows" /\ queued # <<>>)
      /\ "idle" \notin Addresses /\ "display" \notin Addresses /\ display \in Addresses
  BY FramesFacts DEF FrameTypes, WindowRight
<1>1. CASE Frames!begin_ge_frame
  <2>1. /\ UNCHANGED <<system, sources, display, cpuFrames, targets, cpuTextures, lastTexture, screen, wstep>>
        /\ UNCHANGED <<pending, presented, queued, invalid, outstanding>> /\ gstep = "idle" /\ gstep' = "list"
    BY <1>1 DEF Frames!begin_ge_frame, Frames!window
  <2>2. building = <<>>
    BY <2>1 DEF BatchesInOrder
  <2>3. Quiet' => Quiet
    BY <1>0, <2>1, <2>2 DEF Quiet
  <2>4. Frames!NoFrameForgotten' /\ (outstanding' => system' = "windows" /\ queued' # <<>>)
    BY <1>0, <2>1 DEF Frames!NoFrameForgotten
  <2> QED
    BY <2>1, <2>3, <2>4, WindowKept
<1>2. CASE Frames!submit_ge_primitive
  <2>1. /\ building' = Append(building, Len(made) + 1) /\ UNCHANGED <<system, presented, queued, invalid, outstanding, gstep>>
    BY <1>2 DEF Frames!submit_ge_primitive
  <2>2. building \in Seq(DOMAIN made)
    BY DEF BatchesInOrder
  <2>3. ~Quiet'
    BY <2>1, <2>2, AppendedIs DEF Quiet
  <2>4. Frames!NoFrameForgotten' /\ (outstanding' => system' = "windows" /\ queued' # <<>>)
    BY <1>0, <2>1 DEF Frames!NoFrameForgotten
  <2> QED
    BY <2>3, <2>4, WindowBusy
<1>3. CASE Frames!end_ge_frame
  <2>1. /\ UNCHANGED <<system, sources, display, cpuFrames, targets, cpuTextures, lastTexture, screen, wstep>>
        /\ UNCHANGED <<presented, queued, invalid, outstanding>> /\ gstep = "list"
        /\ pending' = pending \o building
    BY <1>3 DEF Frames!end_ge_frame, Frames!window
  <2>2. pending \in Seq(DOMAIN made) /\ building \in Seq(DOMAIN made)
    BY DEF BatchesInOrder
  <2>3. pending \o building = <<>> => pending = <<>> /\ building = <<>>
    BY <2>2
  <2>4. Quiet' => Quiet
    BY <1>0, <2>1, <2>3 DEF Quiet
  <2>5. Frames!NoFrameForgotten' /\ (outstanding' => system' = "windows" /\ queued' # <<>>)
    BY <1>0, <2>1 DEF Frames!NoFrameForgotten
  <2> QED
    BY <2>1, <2>4, <2>5, WindowKept
<1>4. CASE Frames!present_ge_frame
  <2>1. /\ UNCHANGED <<system, sources, display, cpuFrames, targets, cpuTextures, lastTexture, screen, wstep>>
        /\ UNCHANGED <<building, queued, invalid, outstanding>> /\ gstep = "present"
        /\ IF pending = <<>> THEN gstep' = "tell empty" /\ UNCHANGED <<pending, presented>>
                             ELSE gstep' = "tell" /\ presented' = pending
    BY <1>4 DEF Frames!present_ge_frame, Frames!TakePending, Frames!window
  <2>2. Quiet' => Quiet
    BY <1>0, <2>1 DEF Quiet
  <2>3. Frames!NoFrameForgotten' /\ (outstanding' => system' = "windows" /\ queued' # <<>>)
    BY <1>0, <2>1 DEF Frames!NoFrameForgotten
  <2> QED
    BY <2>1, <2>2, <2>3, WindowKept
<1>5. CASE Frames!Tell
  <2>1. /\ UNCHANGED <<system, sources, display, cpuFrames, targets, cpuTextures, lastTexture, screen, wstep>>
        /\ UNCHANGED <<building, pending, presented, invalid>> /\ gstep \in {"tell", "tell empty"} /\ gstep' = "idle"
        /\ \/ /\ system = "windows" /\ outstanding' = TRUE
              /\ queued' = IF outstanding THEN queued ELSE Append(queued, [kind |-> "render"])
           \/ /\ system = "macos" /\ UNCHANGED outstanding
              /\ queued' = IF gstep = "tell" THEN Append(queued, [kind |-> "render"]) ELSE queued
    BY <1>5 DEF Frames!Tell, Frames!TellWindow, Frames!DispatchDisplay, Frames!OnWindows, Frames!OnMac,
       Frames!queues, Frames!window
  <2>2. Append(queued, [kind |-> "render"]) # <<>>
    BY <1>0, AppendedIs
  <2>3. CASE queued' # <<>> /\ system = "windows"
    <3>1. Frames!NoFrameForgotten' /\ (outstanding' => system' = "windows" /\ queued' # <<>>)
      BY <2>1, <2>3 DEF Frames!NoFrameForgotten
    <3> QED
      BY <2>3, <3>1, WindowBusy DEF Quiet
  <2>4. CASE system = "macos" /\ gstep = "tell"
    <3>1. Frames!NoFrameForgotten' /\ (outstanding' => system' = "windows" /\ queued' # <<>>)
      BY <1>0, <2>1, <2>2, <2>4 DEF Frames!NoFrameForgotten
    <3> QED
      BY <2>1, <2>2, <2>4, <3>1, WindowBusy DEF Quiet
  <2>5. CASE system = "macos" /\ gstep = "tell empty"
    <3>1. UNCHANGED <<queued, outstanding>>
      BY <2>1, <2>5
    <3>2. Frames!NoFrameForgotten' /\ (outstanding' => system' = "windows" /\ queued' # <<>>)
      BY <1>0, <2>1, <2>5, <3>1 DEF Frames!NoFrameForgotten
    <3>3. Quiet' => Quiet
      BY <2>1, <2>5, <3>1 DEF Quiet
    <3> QED
      BY <2>1, <3>2, <3>3, WindowKept
  <2> QED
    BY <1>0, <2>1, <2>2, <2>3, <2>4, <2>5
<1>6. CASE Frames!present_frame \/ Frames!Record \/ Frames!StoreFrame \/ Frames!StoreAddress
  <2>1. /\ UNCHANGED <<system, building, pending, presented, queued, invalid, outstanding>>
        /\ gstep # "tell"
        /\ gstep' \in {"record", "store"} \/ (system = "windows" /\ gstep' \in {"address", "present"})
    BY <1>6 DEF Frames!present_frame, Frames!Record, Frames!StoreFrame, Frames!StoreAddress, Frames!queues, Frames!OnWindows
  <2>2. ~Quiet' /\ gstep # "tell"
    BY <1>6, <2>1 DEF Quiet, Frames!present_frame, Frames!Record, Frames!StoreFrame, Frames!StoreAddress
  <2>3. Frames!NoFrameForgotten' /\ (outstanding' => system' = "windows" /\ queued' # <<>>)
    BY <1>0, <2>1, <2>2 DEF Frames!NoFrameForgotten
  <2> QED
    BY <2>2, <2>3, WindowBusy
<1>7. CASE Frames!DispatchUpload
  <2>1. UNCHANGED <<system, outstanding>> /\ queued' = Append(queued, [kind |-> "upload", frame |-> frame])
    BY <1>7 DEF Frames!DispatchUpload
  <2>2. queued' # <<>>
    BY <1>0, <2>1, AppendedIs
  <2>3. Frames!NoFrameForgotten' /\ (outstanding' => system' = "windows" /\ queued' # <<>>)
    BY <1>0, <2>1, <2>2 DEF Frames!NoFrameForgotten
  <2> QED
    BY <2>2, <2>3, WindowBusy DEF Quiet
<1>8. CASE Frames!RenderMessage \/ Frames!UploadBlock \/ Frames!Expose
  <2>1. /\ invalid' = TRUE /\ system' = system
        /\ outstanding' = FALSE \/ UNCHANGED <<queued, outstanding>> \/ (outstanding' = outstanding /\ Frames!UploadBlock)
    BY <1>8 DEF Frames!RenderMessage, Frames!UploadBlock, Frames!Expose, Frames!guest
  <2>2. Frames!UploadBlock => system = "macos"
    <3> SUFFICES ASSUME Frames!UploadBlock PROVE system = "macos"
      OBVIOUS
    <3>1. queued # <<>> /\ Head(queued).kind = "upload"
      BY DEF Frames!UploadBlock, Frames!Handle
    <3>2. 1 \in DOMAIN queued /\ queued[1] = Head(queued)
      BY <1>0, <3>1
    <3> QED
      BY <3>1, <3>2 DEF FrameTypes
  <2>3. Frames!NoFrameForgotten' /\ (outstanding' => system' = "windows" /\ queued' # <<>>)
    BY <1>0, <2>1, <2>2 DEF Frames!NoFrameForgotten
  <2> QED
    BY <2>1, <2>3, WindowBusy DEF Quiet
<1>9. CASE Frames!Draw
  <2>1. UNCHANGED <<system, queued, outstanding>> /\ presented' = <<>> /\ wstep' = "display"
    BY <1>9 DEF Frames!Draw
  <2>2. Frames!NoFrameForgotten' /\ (outstanding' => system' = "windows" /\ queued' # <<>>)
    BY <1>0, <2>1 DEF Frames!NoFrameForgotten
  <2> QED
    BY <1>0, <2>1, <2>2 DEF WindowRight
<1>10. CASE Frames!draw_display
  <2>1. /\ system = "windows" /\ UNCHANGED <<system, sources, display, cpuFrames, targets, cpuTextures, lastTexture>>
        /\ UNCHANGED <<gstep, building, pending, presented, queued, invalid, outstanding>>
        /\ IF sources[display].cpu THEN wstep' = display ELSE wstep' = "idle" /\ screen' = Frames!TargetShown(display)
    BY <1>10 DEF Frames!draw_display, Frames!OnWindows, Frames!guest, Frames!queues, Frames!cpu_is_latest
  <2>2. Frames!NoFrameForgotten' /\ (outstanding' => system' = "windows" /\ queued' # <<>>)
    BY <1>0, <2>1 DEF Frames!NoFrameForgotten
  <2>3. wstep' = "idle" => screen' = Showing'
    <3>1. Showing' = Showing
      BY <2>1, ShowingKept
    <3>2. wstep' = "idle" => screen' = Showing
      BY <1>0, <2>1 DEF Showing
    <3> QED
      BY <3>1, <3>2
  <2>4. wstep' \in Addresses => wstep' = display' /\ sources'[display'].cpu
    BY <1>0, <2>1
  <2> QED
    BY <2>2, <2>3, <2>4 DEF WindowRight
<1>11. CASE Frames!ShowPicture
  <2>1. /\ system = "windows" /\ UNCHANGED <<system, sources, display, cpuFrames, targets, lastTexture>>
        /\ UNCHANGED <<gstep, building, pending, presented, queued, invalid, outstanding>>
        /\ wstep \in Addresses /\ wstep' = "idle"
    BY <1>11 DEF Frames!ShowPicture, Frames!OnWindows, Frames!guest, Frames!queues
  <2>2. Frames!NoFrameForgotten' /\ (outstanding' => system' = "windows" /\ queued' # <<>>)
    BY <1>0, <2>1 DEF Frames!NoFrameForgotten
  <2>3. ASSUME Quiet' PROVE screen' = Showing'
    <3>1. Quiet
      BY <2>1, <2>3 DEF Quiet
    <3>2. wstep = display /\ sources[display].cpu
      BY <2>1, <3>1 DEF WindowRight
    <3>3. Showing' = IF display \in DOMAIN cpuFrames THEN <<"cpu", cpuFrames[display].picture>> ELSE <<"none", Nothing>>
      BY <2>1, <3>2 DEF Showing
    <3>4. CASE display \in DOMAIN cpuFrames
      <4>1. /\ cpuTextures' = Frames!Put(cpuTextures, display, Frames!display_texture(display))
            /\ screen' = <<"cpu", cpuTextures'[display].picture>>
        BY <1>11, <3>2, <3>4 DEF Frames!ShowPicture
      <4>2. cpuTextures'[display] = Frames!display_texture(display)
        BY <4>1, PutAt
      <4>3. Frames!display_texture(display).picture = cpuFrames[display].picture
        BY <2>1, <3>4 DEF Frames!display_texture, StoredRight
      <4> QED
        BY <3>3, <3>4, <4>1, <4>2, <4>3
    <3>5. CASE display \notin DOMAIN cpuFrames
      BY <1>11, <3>2, <3>3, <3>5 DEF Frames!ShowPicture
    <3> QED
      BY <3>4, <3>5
  <2> QED
    BY <1>0, <2>1, <2>2, <2>3 DEF WindowRight
<1>12. CASE Frames!ShowTexture
  <2>1. /\ system = "macos" /\ UNCHANGED <<system, sources, display, cpuFrames, targets, cpuTextures, lastTexture>>
        /\ UNCHANGED <<gstep, building, pending, presented, queued, invalid, outstanding>> /\ wstep' = "idle"
    BY <1>12 DEF Frames!ShowTexture, Frames!OnMac, Frames!guest, Frames!queues
  <2>2. Frames!NoFrameForgotten' /\ (outstanding' => system' = "windows" /\ queued' # <<>>)
    BY <1>0, <2>1 DEF Frames!NoFrameForgotten
  <2>3. screen' = Showing
    BY <1>12, <2>1 DEF Frames!ShowTexture, Frames!cpu_is_latest, Showing
  <2>4. Showing' = Showing
    BY <2>1, ShowingKept
  <2> QED
    BY <1>0, <2>1, <2>2, <2>3, <2>4 DEF WindowRight
<1> QED
  BY <1>1, <1>2, <1>3, <1>4, <1>5, <1>6, <1>7, <1>8, <1>9, <1>10, <1>11, <1>12 DEF Frames!FramesNext

\* Before anything is drawn or presented.
LEMMA FramesInitially == Init => FramesInv
<1> SUFFICES ASSUME Frames!FramesInit PROVE FramesRight
  BY DEF Init, FramesInv
<1>0. /\ system \in {"windows", "macos"} /\ gstep = "idle" /\ display = VramStart /\ VramStart \in Addresses
      /\ outstanding = FALSE /\ queued = <<>> /\ invalid = FALSE /\ wstep = "idle" /\ "idle" \notin Addresses
      /\ generation = 0 /\ presents = 0 /\ MaxPresents \in Nat /\ lastTexture = Nothing /\ screen = <<"none", Nothing>>
      /\ building = <<>> /\ pending = <<>> /\ presented = <<>> /\ made = <<>> /\ lost = {}
      /\ sources = [a \in Addresses |-> [hash |-> Nothing, cpu |-> FALSE]]
      /\ latest = [a \in Addresses |-> "none"]
  BY FramesFacts DEF Frames!FramesInit
<1>1. DOMAIN cpuFrames = {} /\ DOMAIN cpuTextures = {} /\ DOMAIN targets = {}
  BY DEF Frames!FramesInit, Frames!Empty
<1>2. DOMAIN queued = {} /\ DOMAIN made = {} /\ queued \in Seq(FrameMessages) /\ made \in Seq(Shapes)
  BY <1>0, EmptyQueue
<1>3. FrameTypes
  <2>1. IsMap(cpuFrames, CpuPictures) /\ IsMap(cpuTextures, CpuPictures)
    BY <1>1 DEF IsMap
  <2>2. sources \in [Addresses -> [hash : Pictures \cup {Nothing}, cpu : BOOLEAN]]
    BY <1>0
  <2>3. latest \in [Addresses -> {"none", "cpu", "ge"}]
    BY <1>0
  <2>4. /\ generation \in Nat /\ generation + (IF gstep \in {"record", "store"} THEN 1 ELSE 0) <= presents
        /\ presents \in 0..MaxPresents
    BY <1>0
  <2>5. outstanding \in BOOLEAN /\ invalid \in BOOLEAN
    BY <1>0, Zenon
  <2>6. \A k \in DOMAIN queued : queued[k].kind = "upload" => system = "macos"
    BY <1>2
  <2>7. gstep \notin {"address", "record", "store"} /\ gstep = "idle" /\ wstep = "idle" /\ presents = 0
    BY <1>0
  <2> QED
    BY <1>0, <1>2, <2>1, <2>2, <2>3, <2>4, <2>5, <2>6, <2>7 DEF FrameTypes
<1>4. BatchesInOrder
  <2>1. Waiting = {}
    BY <1>0, EmptyQueue DEF Waiting
  <2>2. \A S : <<>> \in Seq(S) /\ Rises(<<>>) /\ Comes(<<>>, <<>>)
    BY EmptyQueue
  <2> QED
    BY <1>0, <1>2, <2>1, <2>2 DEF BatchesInOrder
<1>5. TargetsRight(targets, Frames!Drawn)
  <2>1. Frames!Drawn = {}
    BY <1>2, <1>4, DrawnIs
  <2> QED
    BY <1>1, <2>1 DEF TargetsRight
<1>6. SourcesRight
  BY <1>0, <1>2 DEF SourcesRight
<1>7. \A a \in Addresses : sources[a].hash = Nothing /\ sources[a].cpu = FALSE
  BY <1>0
<1>8. \A a \in Addresses : Holds(cpuFrames, a) /\ Holds(cpuTextures, a)
  BY <1>1, <1>7 DEF Holds
<1>9. StoredRight
  BY <1>1, <1>8 DEF StoredRight
<1>10. UploadsRight
  <2>1. \A a : Uploads(a) = {}
    BY <1>2 DEF Uploads
  <2> QED
    BY <1>8, <2>1 DEF UploadsRight
<1>11. WindowRight
  <2>1. Showing = <<"none", Nothing>>
    BY <1>0, <1>1, <1>7 DEF Showing, Frames!TargetShown
  <2> QED
    BY <1>0, <2>1 DEF WindowRight, Frames!NoFrameForgotten
<1> QED
  BY <1>3, <1>4, <1>5, <1>6, <1>9, <1>10, <1>11 DEF FramesRight

\* No step of another part touches the frames.
LEMMA FramesStutter ==
  ASSUME FramesInv, UNCHANGED <<part, frames>>
  PROVE  FramesInv'
<1> SUFFICES ASSUME OnFrames, FramesRight PROVE FramesRight'
  BY DEF FramesInv, OnFrames
<1>0. /\ UNCHANGED <<system, gstep, frame, building, pending, presented, sources, cpuFrames, generation, display,
             outstanding, queued, invalid, wstep>>
      /\ UNCHANGED <<targets, cpuTextures, lastTexture, uploads, screen, made, lost, latest, presents>>
  BY DEF frames
<1>1. FrameTypes'
  BY <1>0 DEF FramesRight, FrameTypes
<1>2. BatchesInOrder'
  BY <1>0, BatchesMove DEF FramesRight
<1>3. TargetsRight(targets, Frames!Drawn)'
  <2>1. Frames!Drawn' = Frames!Drawn
    BY <1>0 DEF Frames!Drawn
  <2> QED
    BY <1>0, <2>1, TargetsKept DEF FramesRight
<1>4. SourcesRight'
  BY <1>0 DEF FramesRight, SourcesRight
<1>5. (system = "windows" => StoredRight)'
  BY <1>0 DEF FramesRight, StoredRight, Owed, Holds
<1>6. (system = "macos" => UploadsRight)'
  BY <1>0 DEF FramesRight, UploadsRight, Uploads, IsUpload, Owed, Holds
<1>7. WindowRight'
  <2>1. (Quiet' => Quiet) /\ (Frames!NoFrameForgotten' <=> Frames!NoFrameForgotten)
    BY <1>0 DEF Quiet, Frames!NoFrameForgotten
  <2> QED
    BY <1>0, <2>1, WindowKept DEF FramesRight, WindowRight
<1> QED
  BY <1>1, <1>2, <1>3, <1>4, <1>5, <1>6, <1>7 DEF FramesRight

\* Every step of the frames keeps the invariant.
LEMMA FramesStep ==
  ASSUME FramesInv, part = "frames", part' = part, Frames!FramesNext
  PROVE  FramesInv'
<1>1. /\ FrameTypes /\ BatchesInOrder /\ TargetsRight(targets, Frames!Drawn) /\ SourcesRight /\ WindowRight
      /\ (system = "windows" => StoredRight) /\ (system = "macos" => UploadsRight) /\ made \in Seq(Shapes)
  BY DEF FramesInv, OnFrames, FramesRight, BatchesInOrder
<1>2. system' = system
  BY <1>1, DrawnSteps
<1>3. FrameTypes' /\ BatchesInOrder' /\ TargetsRight(targets, Frames!Drawn)' /\ SourcesRight'
  BY <1>1, FrameTypesStep, BatchesInOrderStep, TargetsStep, SourcesStep
<1>4. (system = "windows" => StoredRight)'
  BY <1>1, <1>2, StoredStep
<1>5. (system = "macos" => UploadsRight)'
  BY <1>1, <1>2, UploadsStep
<1>6. WindowRight'
  BY <1>1, ShownStep
<1> QED
  BY <1>3, <1>4, <1>5, <1>6 DEF FramesInv, FramesRight

\* However the guest's thread and the window's interleave, on both platforms.
THEOREM FramesInvariant == Spec => []FramesInv
<1>1. FramesInv /\ [Next]_vars => FramesInv'
  <2> SUFFICES ASSUME FramesInv, [Next]_vars PROVE FramesInv'
    OBVIOUS
  <2>1. CASE part = "frames" /\ Frames!FramesNext /\ part' = part
    BY <2>1, FramesStep
  <2>2. CASE UNCHANGED <<part, frames>>
    BY <2>2, FramesStutter
  <2> QED
    BY <2>1, <2>2 DEF Next, vars
<1> QED
  BY <1>1, FramesInitially, PTL DEF Spec

\* The last of numbers that rise is the greatest of them.
LEMMA LastIsGreatest ==
  ASSUME NEW S, NEW d \in Seq(Nat \X S), d # <<>>, \A k, l \in DOMAIN d : k < l => d[k][1] < d[l][1]
  PROVE  Frames!Last(d)[1] = Frames!Max({d[k][1] : k \in DOMAIN d})
<1> DEFINE Firsts == {d[k][1] : k \in DOMAIN d}
           top == d[Len(d)][1]
<1>1. Len(d) \in DOMAIN d /\ DOMAIN d = 1..Len(d) /\ Len(d) \in Nat /\ \A k \in DOMAIN d : d[k] \in Nat \X S
  OBVIOUS
<1>2. \A k \in DOMAIN d : d[k][1] \in Nat
  BY <1>1
<1>3. \A k \in DOMAIN d : k = Len(d) \/ k < Len(d)
  BY <1>1
<1>4. top \in Firsts /\ \A m \in Firsts : top >= m /\ m \in Nat
  <2>1. \A k \in DOMAIN d : top >= d[k][1]
    BY <1>1, <1>2, <1>3
  <2> QED
    BY <1>1, <1>2, <2>1
<1>5. \A x \in Firsts : (\A y \in Firsts : x >= y) => x = top
  <2> HIDE DEF Firsts, top
  <2>1. SUFFICES ASSUME NEW x \in Firsts, \A y \in Firsts : x >= y PROVE x = top
    OBVIOUS
  <2>2. x >= top /\ top >= x /\ x \in Nat /\ top \in Nat
    BY <1>4, <2>1
  <2> QED
    BY <2>2
<1>6. Frames!Max(Firsts) = top
  <2> HIDE DEF Firsts, top
  <2> QED
    BY <1>4, <1>5 DEF Frames!Max
<1> QED
  BY <1>6 DEF Frames!Last

\* What the invariant says of each part.
LEMMA FramesSuffice == FramesInv => FramesSound
<1> SUFFICES ASSUME FramesRight PROVE Frames!FramesTypeOK /\ Frames!FramesSound
  BY DEF FramesInv, FramesSound, OnFrames
<1>0. /\ FrameTypes /\ BatchesInOrder /\ TargetsRight(targets, Frames!Drawn) /\ SourcesRight /\ WindowRight
      /\ (system = "windows" => StoredRight) /\ (system = "macos" => UploadsRight)
      /\ DOMAIN targets = {made[n].to : n \in Frames!Drawn}
      /\ \A a \in DOMAIN targets : TargetRight(targets[a], a, Frames!Drawn)
  BY DEF FramesRight, TargetsRight
<1>1. \A a : Frames!Amounts(a) = Since(a, Frames!Drawn)
  BY DEF Frames!Amounts, Since, Grows, Aimed
<1>2. Frames!Drawn \subseteq DOMAIN made
  BY DEF Frames!Drawn
<1>3. Frames!FramesTypeOK
  <2>1. \A q \in {building, pending, presented} : Frames!ToSet(q) \subseteq DOMAIN made
    <3> SUFFICES ASSUME NEW q \in {building, pending, presented} PROVE Frames!ToSet(q) \subseteq DOMAIN made
      OBVIOUS
    <3>1. q \in Seq(DOMAIN made)
      BY <1>0 DEF BatchesInOrder
    <3>2. \A k \in DOMAIN q : q[k] \in DOMAIN made
      BY <3>1
    <3> QED
      BY <3>2 DEF Frames!ToSet
  <2>2. generation \in 0..MaxPresents
    <3>1. /\ generation \in Nat /\ presents \in 0..MaxPresents
          /\ generation + (IF gstep \in {"record", "store"} THEN 1 ELSE 0) <= presents
      BY <1>0 DEF FrameTypes
    <3>2. generation <= presents
      BY <3>1
    <3> QED
      BY <3>1, <3>2, FramesFacts
  <2> QED
    BY <1>0, <2>1, <2>2 DEF Frames!FramesTypeOK, FrameTypes, BatchesInOrder
<1>4. Frames!DrawnOnceInOrder
  <2> SUFFICES ASSUME NEW a \in Addresses
               PROVE  LET drawn == IF a \in DOMAIN targets THEN targets[a].drawn ELSE <<>>
                      IN  /\ {drawn[k][1] : k \in DOMAIN drawn} = Frames!Amounts(a)
                          /\ \A k, l \in DOMAIN drawn : k < l => drawn[k][1] < drawn[l][1]
    BY DEF Frames!DrawnOnceInOrder
  <2>1. CASE a \in DOMAIN targets
    BY <1>0, <1>1, <2>1 DEF TargetRight
  <2>2. CASE a \notin DOMAIN targets
    <3>1. Since(a, Frames!Drawn) = {}
      BY <1>0, <2>2 DEF Since, Aimed
    <3>2. DOMAIN <<>> = {}
      BY EmptyQueue
    <3> QED
      BY <1>1, <2>2, <3>1, <3>2
  <2> QED
    BY <2>1, <2>2
<1>5. Frames!SamplesOwnTexture
  BY <1>0 DEF Frames!SamplesOwnTexture, TargetRight, SampleRight, Frames!OnWindows
<1>6. Frames!NoFrameForgotten
  BY <1>0 DEF WindowRight
<1>7. Frames!ShowsLatest
  <2> SUFFICES ASSUME Frames!Settled
               PROVE  LET drawn == Frames!Amounts(display)
                      IN  CASE latest[display] = "cpu" /\ frame.address = display -> screen = <<"cpu", frame.picture>>
                            [] latest[display] = "ge" /\ display \in DOMAIN targets ->
                                 screen = <<"ge", IF drawn = {} THEN Nothing ELSE Frames!Max(drawn)>>
                            [] OTHER -> screen[1] # "ge"
    BY DEF Frames!ShowsLatest
  <2>1. /\ gstep = "idle" /\ queued = <<>> /\ ~invalid /\ wstep = "idle" /\ presents > 0
        /\ building = <<>> /\ pending = <<>> /\ presented = <<>> /\ system \in {"windows", "macos"}
    BY <1>0, <1>6 DEF Frames!Settled, Frames!NoFrameForgotten, FrameTypes
  <2>2. screen = Showing
    BY <1>0, <2>1 DEF WindowRight, Quiet
  <2>3. /\ display = frame.address /\ display \in Addresses /\ sources[display].hash = frame.picture
        /\ (sources[display].cpu <=> latest[display] = "cpu")
        /\ (latest[display] = "cpu" => sources[display].hash # Nothing)
        /\ latest[display] \in {"none", "cpu", "ge"}
    BY <1>0, <2>1 DEF SourcesRight, FrameTypes
  <2>4. CASE latest[display] = "cpu"
    <3>1. ~Owed(display)
      BY <2>1 DEF Owed
    <3>2. CASE system = "windows"
      <4>1. Holds(cpuFrames, display)
        BY <1>0, <2>3, <3>1, <3>2 DEF StoredRight
      <4> QED
        BY <2>2, <2>3, <2>4, <3>2, <4>1 DEF Holds, Showing
    <3>3. CASE system = "macos"
      <4>1. Uploads(display) = {}
        BY <2>1, EmptyQueue DEF Uploads
      <4>2. Holds(cpuTextures, display)
        BY <1>0, <2>3, <3>1, <3>3, <4>1 DEF UploadsRight
      <4> QED
        BY <2>2, <2>3, <2>4, <3>3, <4>2 DEF Holds, Showing
    <3> QED
      BY <2>1, <2>3, <2>4, <3>2, <3>3
  <2>5. CASE latest[display] # "cpu" /\ display \in DOMAIN targets
    <3> DEFINE d == targets[display].drawn
               drawn == Frames!Amounts(display)
    <3>1. latest[display] = "ge"
      <4>1. PICK n \in DOMAIN made : made[n].to = display
        BY <1>0, <1>2, <2>5
      <4> QED
        BY <1>0, <2>3, <2>5, <4>1 DEF SourcesRight
    <3>2. screen = <<"ge", IF d = <<>> THEN Nothing ELSE Frames!Last(d)[1]>>
      BY <2>1, <2>2, <2>3, <2>5 DEF Showing, Frames!TargetShown
    <3>3. /\ d \in Seq(Nat \X Samples) /\ {d[k][1] : k \in DOMAIN d} = drawn
          /\ \A k, l \in DOMAIN d : k < l => d[k][1] < d[l][1]
      BY <1>0, <1>1, <2>5 DEF TargetRight, RenderTargets
    <3> HIDE DEF d, drawn
    <3>4. screen = <<"ge", IF drawn = {} THEN Nothing ELSE Frames!Max(drawn)>>
      <4>1. CASE d = <<>>
        <5>1. drawn = {}
          BY <3>3, <4>1, EmptyQueue
        <5> QED
          BY <3>2, <4>1, <5>1
      <4>2. CASE d # <<>>
        <5>1. Frames!Last(d)[1] = Frames!Max(drawn)
          BY <3>3, <4>2, LastIsGreatest
        <5>2. drawn # {}
          <6>1. 1 \in DOMAIN d
            BY <3>3, <4>2
          <6> QED
            BY <3>3, <6>1
        <5> QED
          BY <3>2, <4>2, <5>1, <5>2
      <4> QED
        BY <4>1, <4>2
    <3> QED
      BY <2>5, <3>1, <3>4 DEF drawn
  <2>6. CASE latest[display] # "cpu" /\ display \notin DOMAIN targets
    <3>1. screen \in {<<"none", Nothing>>, <<"cpu", lastTexture>>}
      BY <2>1, <2>2, <2>3, <2>6 DEF Showing, Frames!TargetShown
    <3>2. screen[1] # "ge"
      BY <3>1
    <3> QED
      BY <2>6, <3>2
  <2> QED
    BY <2>4, <2>5, <2>6
<1> QED
  BY <1>3, <1>4, <1>5, <1>6, <1>7 DEF Frames!FramesSound

\* Batches are drawn once and in order, each samples its own texture, no frame
\* waits for a message nobody sends, and once everything has been handed over
\* the window shows what was written last.
THEOREM FramesAreSound == Spec => []FramesSound
  BY FramesInvariant, FramesSuffice, PTL
=============================================================================
