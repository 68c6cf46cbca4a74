----------------------------- MODULE GuestFiles -----------------------------
(***************************************************************************)
(* Files of the guest (stubs/io): PSP descriptors over host descriptors,   *)
(* windows into the disc image (disc0:/sce_lbn..._size...), the disc read  *)
(* in sectors (umd0:), directories, and the results of the asynchronous    *)
(* calls, which do their work at once and leave the result to be polled or *)
(* waited for.  No stub gives up the guest CPU, so each call is one step.  *)
(* A host call that fails changes nothing here, but for the value of the   *)
(* result; values are left out, a result is the number of its operation.   *)
(***************************************************************************)
EXTENDS Integers, FiniteSets, Functions

CONSTANTS
    Paths,        \* paths to open: [kind, base, size, write]
    Lengths,      \* initial lengths of the host files, by kind
    Entries,      \* entries of a directory
    SectorSize,   \* sector_size
    Limit,        \* the largest host offset
    Sizes,        \* sizes asked for: bytes, or sectors
    Offsets,      \* offsets of a seek
    MaxFiles      \* bound: descriptors given out

FilesAssumption ==
    /\ SectorSize \in Nat \ {0} /\ Limit \in Nat
    /\ Sizes \subseteq Nat /\ Offsets \subseteq Int
    /\ Lengths \in [{"plain", "disc"} -> 0..Limit] /\ Entries \in Nat /\ MaxFiles \in Nat
    /\ Paths \subseteq [kind : {"plain", "raw", "whole"}, base : 0..(2 * Limit), size : Nat, write : BOOLEAN]

VARIABLES
    files,        \* implementation.files: descriptor -> host descriptor
    views,        \* file_views: descriptor -> [base, size]
    sectors,      \* sector_files
    results,      \* async_results: descriptor -> the operation's number
    directories,  \* directories: descriptor -> entries read
    next,         \* next_file
    host,         \* external: open host descriptors -> [kind, at, write]
    length,       \* external: lengths of the host files
    current       \* current_directory: on the disc or on the memory stick

VARIABLES
    started,      \* history: asynchronous operations accepted so far
    latest,       \* history: descriptor -> number of the last one on it
    waited,       \* history: operations whose result has been waited for
    transfer      \* history: what the last read or seek did

tables == <<files, views, sectors, results, directories, next>>
disk == <<host, length>>
fileHist == <<started, latest, waited, transfer>>
fileVars == <<tables, disk, current, fileHist>>

Nothing == [kind |-> "none"]

FilesInit ==
    /\ files = <<>> /\ views = <<>> /\ sectors = {} /\ results = <<>>
    /\ directories = <<>> /\ next = 3
    /\ host = <<>> /\ length = Lengths /\ current = "disc"
    /\ started = 0 /\ latest = <<>> /\ waited = {} /\ transfer = Nothing

Put(f, x, v) == [y \in DOMAIN f \cup {x} |-> IF y = x THEN v ELSE f[y]]
Drop(f, x) == Restrict(f, DOMAIN f \ {x})
Smaller(a, b) == IF a < b THEN a ELSE b

\* The image behind a path: resolve_path, or the disc image itself.
Image(p) == IF p.kind = "plain" THEN "plain" ELSE "disc"

-----------------------------------------------------------------------------
(* io_state.hpp *)

NoView == [base |-> 0, size |-> -1]

CompleteFileView(p) ==
    IF p.size # 0 THEN [base |-> p.base, size |-> p.size]
    ELSE IF p.base > length["disc"] THEN NoView
    ELSE [base |-> p.base, size |-> length["disc"] - p.base]

ReadableSize(view, at, size) ==
    IF at < view.base \/ at >= view.base + view.size THEN 0
    ELSE Smaller(size, view.base + view.size - at)

\* Mutant of CompleteSectorCount: a sector begun counts.
SectorsBegun(bytes) == (bytes + SectorSize - 1) \div SectorSize

CompleteSectorCount(bytes) == bytes \div SectorSize

-----------------------------------------------------------------------------
(* Opening and closing *)

NewDescriptor == next

\* The host gives the lowest free host descriptor.
HostDescriptor == CHOOSE h \in 0..Cardinality(DOMAIN host) : h \notin DOMAIN host

\* Accepting an asynchronous operation on fd, with its result already there.
Accept(fd) ==
    /\ started' = started + 1
    /\ latest' = Put(latest, fd, started + 1)

Open(p, async) ==
    LET fd == NewDescriptor
        h == HostDescriptor
        view == CompleteFileView(p)
    IN  /\ next < 3 + MaxFiles
        /\ p.kind = "raw" => view # NoView
        /\ host' = Put(host, h, [kind |-> Image(p), write |-> p.write,
                                 at |-> IF p.kind = "raw" THEN view.base ELSE 0])
        /\ files' = Put(files, fd, h)
        /\ views' = IF p.kind = "raw" THEN Put(views, fd, view) ELSE views
        /\ sectors' = IF p.kind = "whole" THEN sectors \cup {fd} ELSE sectors
        /\ next' = next + 1
        /\ IF async
             THEN Accept(fd) /\ results' = IF fd \in DOMAIN results THEN results
                                           ELSE Put(results, fd, started + 1)
             ELSE UNCHANGED <<results, started, latest>>
        /\ UNCHANGED <<directories, length, current, waited, transfer>>

\* Files and their windows go at once; the host descriptor is closed, even if
\* close reports an error.
Forget(fd) ==
    /\ host' = Drop(host, files[fd])
    /\ files' = Drop(files, fd)
    /\ views' = Drop(views, fd)
    /\ sectors' = sectors \ {fd}

Close(fd) ==
    /\ fd \in DOMAIN files /\ Forget(fd)
    /\ results' = Drop(results, fd)
    /\ UNCHANGED <<directories, next, length, current, fileHist>>

\* The result outlives the descriptor, until it is waited for.
CloseAsync(fd) ==
    /\ fd \in DOMAIN files /\ Forget(fd)
    /\ Accept(fd) /\ results' = Put(results, fd, started + 1)
    /\ UNCHANGED <<directories, next, length, current, waited, transfer>>

-----------------------------------------------------------------------------
(* Reading, writing and seeking *)

Move(fd, at) == host' = [host EXCEPT ![files[fd]].at = at]

\* The bytes a read asks the host for, and what the host gives.
Asked(fd, size) ==
    LET bytes == IF fd \in sectors THEN size * SectorSize ELSE size
    IN  IF fd \in DOMAIN views
          THEN ReadableSize(views[fd], host[files[fd]].at, bytes) ELSE bytes
Given(fd, bytes) ==
    LET h == host[files[fd]]
    IN  IF h.at >= length[h.kind] THEN 0 ELSE Smaller(bytes, length[h.kind] - h.at)

\* What a read tells the guest: bytes, or complete sectors.
Told(fd, bytes) == IF fd \in sectors THEN CompleteSectorCount(bytes) ELSE bytes

Read(fd, size, async) ==
    /\ fd \in DOMAIN files
    /\ LET at == host[files[fd]].at
           got == Given(fd, Asked(fd, size))
       IN  /\ Move(fd, at + got)
           /\ transfer' = [kind |-> "read", fd |-> fd, from |-> at, to |-> at + got,
                           told |-> Told(fd, got)]
    /\ IF async THEN Accept(fd) /\ results' = Put(results, fd, started + 1)
                ELSE UNCHANGED <<results, started, latest>>
    /\ UNCHANGED <<files, views, sectors, directories, next, length, current, waited>>

Write(fd, size) ==
    /\ fd \in DOMAIN files /\ host[files[fd]].write
    /\ LET h == host[files[fd]]
       IN  /\ h.at + size <= Limit
           /\ Move(fd, h.at + size)
           /\ length' = [length EXCEPT ![h.kind] = IF h.at + size > @ THEN h.at + size ELSE @]
    /\ UNCHANGED <<tables, current, fileHist>>

\* Where a seek counts from: the start, the position or the end.
Origin(fd, whence) ==
    LET h == host[files[fd]]
        unit(n) == IF fd \in sectors THEN CompleteSectorCount(n)
                   ELSE IF fd \in DOMAIN views THEN n - views[fd].base ELSE n
    IN  CASE whence = "set" -> 0
          [] whence = "cur" -> unit(h.at)
          [] whence = "end" /\ fd \in DOMAIN views -> views[fd].size
          [] OTHER -> unit(length[h.kind])

\* The host offset of a logical one.
Absolute(fd, logical) ==
    IF fd \in sectors THEN logical * SectorSize
    ELSE IF fd \in DOMAIN views THEN views[fd].base + logical ELSE logical

\* A failing seek from the end of a sector file has already moved to the end.
Seek(fd, offset, whence, async) ==
    /\ fd \in DOMAIN files
    /\ LET logical == Origin(fd, whence) + offset
           fits == logical >= 0 /\ Absolute(fd, logical) <= Limit
           h == host[files[fd]]
           at == IF fits THEN Absolute(fd, logical)
                 ELSE IF fd \in sectors /\ whence = "end" THEN length[h.kind] ELSE h.at
       IN  /\ Move(fd, at)
           /\ transfer' = [kind |-> "seek", fd |-> fd, to |-> at,
                           told |-> IF fits THEN logical ELSE -1]
    /\ IF async THEN Accept(fd) /\ results' = Put(results, fd, started + 1)
                ELSE UNCHANGED <<results, started, latest>>
    /\ UNCHANGED <<files, views, sectors, directories, next, length, current, waited>>

-----------------------------------------------------------------------------
(* Results *)

Taken(fd) == Drop(results, fd)

WaitAsync(fd) ==
    /\ fd \in DOMAIN results
    /\ results' = Taken(fd)
    /\ waited' = waited \cup {results[fd]}
    /\ UNCHANGED <<files, views, sectors, directories, next, disk, current, started,
                   latest, transfer>>

\* Polling leaves the result where it is.
PollAsync(fd) == fd \in DOMAIN results /\ UNCHANGED fileVars

-----------------------------------------------------------------------------
(* Directories: a snapshot of the entries, read one by one *)

Dopen ==
    /\ next < 3 + MaxFiles
    /\ directories' = Put(directories, NewDescriptor, 0)
    /\ next' = next + 1
    /\ UNCHANGED <<files, views, sectors, results, disk, current, fileHist>>

EntriesLeft(fd) == directories[fd] < Entries

Dread(fd) ==
    /\ fd \in DOMAIN directories /\ EntriesLeft(fd)
    /\ directories' = [directories EXCEPT ![fd] = @ + 1]
    /\ UNCHANGED <<files, views, sectors, results, next, disk, current, fileHist>>

Dclose(fd) ==
    /\ fd \in DOMAIN directories
    /\ directories' = Drop(directories, fd)
    /\ UNCHANGED <<files, views, sectors, results, next, disk, current, fileHist>>

Chdir(d) ==
    /\ current' = d
    /\ UNCHANGED <<tables, disk, fileHist>>

FilesNext ==
    \/ \E p \in Paths, async \in BOOLEAN : Open(p, async)
    \/ \E fd \in 3..next : \/ Close(fd) \/ CloseAsync(fd) \/ WaitAsync(fd)
                           \/ PollAsync(fd) \/ Dread(fd) \/ Dclose(fd)
    \/ \E fd \in 3..next, size \in Sizes, async \in BOOLEAN : Read(fd, size, async)
    \/ \E fd \in 3..next, size \in Sizes : Write(fd, size)
    \/ \E fd \in 3..next, offset \in Offsets, whence \in {"set", "cur", "end"},
          async \in BOOLEAN : Seek(fd, offset, whence, async)
    \/ Dopen
    \/ \E d \in {"disc", "stick"} : Chdir(d)

-----------------------------------------------------------------------------
(* Properties *)

\* Positions stay within what the limits allow, directories within their entries.
FilesTypeOK ==
    /\ \A h \in DOMAIN host : host[h].at \in 0..(2 * Limit)
    /\ \A fd \in DOMAIN directories : directories[fd] \in 0..Entries
    /\ current \in {"disc", "stick"}

(***************************************************************************)
(* The tables agree: every host descriptor belongs to exactly one open     *)
(* file (none leaks, no two files share a position), windows and sector    *)
(* marks exist for open files only, and a number is never both a file and  *)
(* a directory.                                                            *)
(***************************************************************************)
TablesAgree ==
    /\ \A f, g \in DOMAIN files : files[f] = files[g] => f = g
    /\ Range(files) = DOMAIN host
    /\ DOMAIN views \cup sectors \subseteq DOMAIN files
    /\ DOMAIN views \cap sectors = {}
    /\ DOMAIN files \cap DOMAIN directories = {}

(***************************************************************************)
(* A file opened as a window of the disc image is never read outside of    *)
(* it, wherever it was sought to, and a seek tells the position relative   *)
(* to the window (sceIoRead, sceIoLseek, readable_size).                   *)
(***************************************************************************)
ReadsWithinView ==
    transfer.kind # "none" /\ transfer.fd \in DOMAIN views =>
      LET view == views[transfer.fd]
      IN  \/ transfer.kind = "read" /\ transfer.to = transfer.from
          \/ /\ transfer.kind = "read" /\ transfer.from >= view.base
             /\ transfer.to <= view.base + view.size
          \/ transfer.kind = "seek" /\ transfer.told \in {-1, transfer.to - view.base}

(***************************************************************************)
(* The disc read by sectors stays on sector boundaries, except at its very *)
(* end, and a read tells exactly the whole sectors it moved over.          *)
(***************************************************************************)
WholeSectors ==
    \A fd \in sectors :
      LET h == host[files[fd]]
      IN  /\ h.at % SectorSize = 0 \/ h.at = length[h.kind]
          /\ transfer.kind = "read" /\ transfer.fd = fd =>
               transfer.told * SectorSize <= transfer.to - transfer.from

(***************************************************************************)
(* The result waiting at a descriptor is that of the last asynchronous     *)
(* operation accepted on it, and it is delivered by one wait only: the     *)
(* result of an asynchronous close, which outlives its descriptor, is      *)
(* never taken for the result of another file.                             *)
(***************************************************************************)
ResultOfLatest ==
    \A fd \in DOMAIN results : results[fd] = latest[fd] /\ results[fd] \notin waited
=============================================================================
