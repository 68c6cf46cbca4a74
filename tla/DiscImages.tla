----------------------------- MODULE DiscImages -----------------------------
(***************************************************************************)
(* PSP discs: reading one (iso.cpp) and building one in which some files   *)
(* are replaced and every other keeps its place (iso_patch.cpp, and the    *)
(* same tool written into a project by iso_patch_template.cpp).  A disc is *)
(* its bytes, with the records of each directory kept beside the sectors   *)
(* that hold them: those sectors hold DirByte as long as nothing else is   *)
(* written there.                                                          *)
(***************************************************************************)
EXTENDS Integers, Sequences, FiniteSets, FiniteSetsExt, SequencesExt

CONSTANTS
    SectorSize,
    Discs,              \* [bytes, dirs, root, volume]; a record of a directory
                        \* is [name, isdir, extent, size]
    Upper,              \* the normal form of names
    DirByte,            \* what the sectors of directories hold
    Magic,              \* the first byte of an executable
    Candidates,         \* paths of find_psp_executable, the best first
    CnfPath, CnfTarget, \* SYSTEM.CNF, and the path it names
    Replacements,       \* [path, content]
    MaxReplacements,    \* in one call
    MaxPatches          \* calls after each other

VARIABLES
    disc,               \* the original image
    out,                \* the image being built
    index,              \* records: where each entry's directory record is
    done,               \* the replacements made
    appendSector,       \* append_sector
    patching,           \* "idle", "busy", "done", "failed"
    patches             \* calls so far

dvars == <<disc, out, index, done, appendSector, patching, patches>>

DiscAssumption ==
    /\ SectorSize \in Nat \ {0}
    /\ {MaxReplacements, MaxPatches} \subseteq Nat

Sectors(size) == (size + SectorSize - 1) \div SectorSize
normalized(path) == [k \in DOMAIN path |-> Upper[path[k]]]
-----------------------------------------------------------------------------
(* Reading. *)

InImage(d, extent, size) == (extent * SectorSize) + size <= Len(d.bytes)
read_range(d, extent, size) ==
    SubSeq(d.bytes, (extent * SectorSize) + 1, (extent * SectorSize) + size)

\* The directory at an extent can still be read.
DirectoryThere(d, extent, size) ==
    /\ InImage(d, extent, size) /\ extent \in DOMAIN d.dirs
    /\ \A b \in ToSet(read_range(d, extent, size)) : b = DirByte

\* One turn of the walk over the tree: the directory pushed last.
WalkDirectory(d, w) ==
    LET dir == Last(w.pending)
        rest == Front(w.pending)
        Entry(k) == LET r == d.dirs[dir.extent][k]
                    IN  [path |-> Append(dir.path, r.name), isdir |-> r.isdir,
                         extent |-> r.extent, size |-> r.size, at |-> <<dir.extent, k>>]
        here == [k \in DOMAIN d.dirs[dir.extent] |-> Entry(k)]
    IN  IF <<dir.extent, dir.size>> \in w.visited THEN [w EXCEPT !.pending = rest]
        ELSE IF ~DirectoryThere(d, dir.extent, dir.size)
          THEN [w EXCEPT !.error = TRUE, !.pending = <<>>]
        ELSE [w EXCEPT !.visited = @ \cup {<<dir.extent, dir.size>>},
                       !.entries = @ \cup Range(here),
                       !.pending = rest \o SelectSeq(here, LAMBDA e : e.isdir)]

\* IsoImage::IsoImage and index_directory_records; the former sorts what it
\* finds, so that its entries are a set.
Entries(d) ==
    LET records == {<<x, k>> : x \in DOMAIN d.dirs, k \in 1..4}
        Turns == Cardinality(records)
        W[n \in 0..Turns] ==
            IF n = 0
              THEN [pending |-> <<[path |-> <<>>, extent |-> d.root, size |-> SectorSize]>>,
                    visited |-> {}, entries |-> {}, error |-> FALSE]
            ELSE IF W[n - 1].pending = <<>> THEN W[n - 1] ELSE WalkDirectory(d, W[n - 1])
    IN  W[Turns]

\* IsoImage::find: the wanted path is normalized, the entries' are not.
FindEntry(d, path) == {e \in Entries(d).entries : e.path = normalized(path)}
FileAt(d, path) == {e \in FindEntry(d, path) : ~e.isdir}

Content(d, e) == read_range(d, e.extent, e.size)
Executable(d, e) == e.size > 0 /\ Content(d, e)[1] = Magic

\* find_psp_executable: the first candidate that is one, the first that is a
\* file, what SYSTEM.CNF names, or one of the files that are.
find_psp_executable(d) ==
    LET files == {k \in DOMAIN Candidates : FileAt(d, Candidates[k]) # {}}
        programs == {k \in files : \E e \in FileAt(d, Candidates[k]) : Executable(d, e)}
        named == IF FileAt(d, CnfPath) = {} THEN {} ELSE FileAt(d, CnfTarget)
        any == {e \in Entries(d).entries : ~e.isdir /\ Executable(d, e)}
    IN  IF programs # {} THEN FileAt(d, Candidates[Min(programs)])
        ELSE IF files # {} THEN FileAt(d, Candidates[Min(files)])
        ELSE IF named # {} THEN named
        ELSE any
-----------------------------------------------------------------------------
(* patch_iso_preserving_layout. *)

\* seekp and write: what lies between the end and the place is zero.
WriteAt(bytes, at, content) ==
    [i \in 1..Max({Len(bytes), at + Len(content)}) |->
       IF i \in (at + 1)..(at + Len(content)) THEN content[i - at]
       ELSE IF i <= Len(bytes) THEN bytes[i] ELSE 0]

\* The image is copied and its directories are read.
PatchStarts ==
    /\ patching = "idle" /\ patches < MaxPatches
    /\ IF Entries(disc).error \/ Len(disc.bytes) % SectorSize # 0
         THEN patching' = "failed" /\ UNCHANGED <<index, appendSector>>
         ELSE /\ patching' = "busy"
              /\ index' = Entries(disc).entries
              /\ appendSector' = Len(disc.bytes) \div SectorSize
    /\ out' = disc /\ done' = <<>> /\ patches' = patches + 1
    /\ UNCHANGED disc

\* Mutant of FitsInPlace: the sector in which a file ends may be full.
FitsNearly(info, size) == Sectors(info.size) # 0 /\ size \div SectorSize <= Sectors(info.size)

\* Where a file of the given size goes that was of the size, at the extent.
FitsInPlace(info, size) ==
    Sectors(info.size) # 0 /\ Sectors(size) <= Sectors(info.size)

\* The bytes written: the file, and zeros up to the end of its sectors.
Padded(info, sector, content) ==
    LET sectors == IF sector = info.extent THEN Sectors(info.size) ELSE Sectors(Len(content))
    IN  content \o [k \in 1..Max({0, (sectors * SectorSize) - Len(content)}) |-> 0]

\* A file is written and its directory record points to it.  Directories are
\* found under their paths too.
Replace(r) ==
    LET found == {e \in index : normalized(e.path) = normalized(r.path)}
        info == CHOOSE e \in found : TRUE
        fits == FitsInPlace(info, Len(r.content))
        sector == IF fits THEN info.extent ELSE appendSector
    IN  /\ patching = "busy" /\ Len(done) < MaxReplacements
        /\ IF found = {}
             THEN patching' = "failed" /\ UNCHANGED <<out, done, appendSector>>
             ELSE /\ out' = [out EXCEPT
                              !.bytes = WriteAt(@, sector * SectorSize,
                                                Padded(info, sector, r.content)),
                              !.dirs[info.at[1]][info.at[2]].extent = sector,
                              !.dirs[info.at[1]][info.at[2]].size = Len(r.content)]
                  /\ done' = Append(done, r)
                  /\ appendSector' = IF fits THEN appendSector
                                     ELSE appendSector + Sectors(Len(r.content))
                  /\ UNCHANGED patching
        /\ UNCHANGED <<disc, index, patches>>

\* A replacement cannot be read, or the image cannot be written.
PatchFails ==
    /\ patching = "busy" /\ patching' = "failed"
    /\ UNCHANGED <<disc, out, index, done, appendSector, patches>>

\* The volume's size follows what was appended.
PatchEnds ==
    /\ patching = "busy" /\ patching' = "done"
    /\ out' = IF appendSector > Len(disc.bytes) \div SectorSize
                THEN [out EXCEPT !.volume = appendSector] ELSE out
    /\ UNCHANGED <<disc, index, done, appendSector, patches>>

\* The image that was built is the original of the next call.
PatchAgain ==
    /\ patching = "done" /\ patching' = "idle" /\ disc' = out
    /\ UNCHANGED <<out, index, done, appendSector, patches>>

DiscInit ==
    /\ disc \in Discs /\ out = disc /\ index = {} /\ done = <<>>
    /\ appendSector = 0 /\ patching = "idle" /\ patches = 0

DiscNext ==
    \/ PatchStarts \/ PatchFails \/ PatchEnds \/ PatchAgain
    \/ \E r \in Replacements : Replace(r)
-----------------------------------------------------------------------------
FilesOf(entries) == {e \in entries : ~e.isdir}

\* The entry has sectors in common with another.
Shares(entries, e) ==
    \E f \in entries :
      /\ f.path # e.path
      /\ f.extent < e.extent + Sectors(e.size) /\ e.extent < f.extent + Sectors(f.size)

\* What a call has put in the place of a file, if anything.
Given(e) == {k \in DOMAIN done : normalized(done[k].path) = normalized(e.path)}

(***************************************************************************)
(* In the finished image every file replaced holds the last thing it was   *)
(* given and every other what it held, at the place it had; a file keeps   *)
(* its place if what it is given fits; no two files come to share sectors; *)
(* and the volume is as large as the image, unless an empty file "at" the  *)
(* end of the image was given something, which is then not filled up to a  *)
(* sector.  A program that is replaced by a program is still the one the   *)
(* disc starts.  Calls that replace a directory, or a file that shares its *)
(* sectors with another, are left out: the code lets them destroy both.    *)
(***************************************************************************)
DiscPatched ==
    LET before == index
        now == Entries(out)
        after == now.entries
        OrdinaryCall ==
            \A k \in DOMAIN done :
              \E e \in FilesOf(before) : k \in Given(e) /\ ~Shares(before, e)
        RightContent(e, f) ==
            IF Given(e) = {}
              THEN Content(out, f) = Content(disc, e) /\ f.extent = e.extent
              ELSE LET last == done[Max(Given(e))].content
                   IN  /\ Content(out, f) = last
                       /\ FitsInPlace(e, Len(last)) => f.extent = e.extent
        started == find_psp_executable(disc)
        OnlyProgram ==
            \A k \in DOMAIN done : /\ \E x \in started : k \in Given(x)
                                   /\ done[k].content # <<>> /\ done[k].content[1] = Magic
    IN  patching = "done" /\ OrdinaryCall =>
          /\ ~now.error
          /\ {e.path : e \in after} = {e.path : e \in before}
          /\ \A e \in FilesOf(before) : \A f \in after : f.path = e.path => RightContent(e, f)
          /\ \A f \in FilesOf(after) : Given(f) # {} => ~Shares(after, f)
          /\ \/ out.volume * SectorSize = Len(out.bytes)
             \/ \E e \in FilesOf(before) :
                  Given(e) # {} /\ e.size = 0 /\ e.extent * SectorSize = Len(disc.bytes)
          /\ OnlyProgram => {x.path : x \in started} \subseteq {x.path : x \in find_psp_executable(out)}
=============================================================================
