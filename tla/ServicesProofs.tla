--------------------------- MODULE ServicesProofs ---------------------------
(***************************************************************************)
(* Proofs about the files of the guest (GuestFiles), for any paths, sizes, *)
(* offsets and limits, about ATRAC playback (AtracStream), for any files,  *)
(* buffers and loops, and about display lists (GeLists), for any contents  *)
(* of memory and any lists; for any number of calls.                       *)
(***************************************************************************)
EXTENDS RuntimeServices, FiniteSetTheorems, SequenceTheorems, WellFoundedInduction, TLAPS

Kinds == {"plain", "disc"}
HostFile == [kind : Kinds, at : 0..(2 * Limit), write : BOOLEAN]
Known == 3..(next - 1)

LEMMA FileConstants ==
  /\ SectorSize \in Nat \ {0} /\ Limit \in Nat /\ ReadSizes \subseteq Nat /\ Offsets \subseteq Int
  /\ Lengths \in [Kinds -> 0..Limit] /\ Entries \in Nat
  /\ Paths \subseteq [kind : {"plain", "raw", "whole"}, base : 0..(2 * Limit), size : Nat, write : BOOLEAN]
  BY ServicesAssumption DEF ServicesAssumption, Files!FilesAssumption, Kinds

\* Host descriptors and files belong to each other, one to one.
FilesKept ==
    /\ next \in Nat /\ next >= 3
    /\ DOMAIN files \subseteq Known
    /\ \A f, g \in DOMAIN files : files[f] = files[g] => f = g
    /\ DOMAIN host = {files[f] : f \in DOMAIN files}
    /\ IsFiniteSet(DOMAIN host)
HostKept == length \in [Kinds -> 0..Limit] /\ host \in [DOMAIN host -> HostFile]
ViewsKept ==
    /\ DOMAIN views \subseteq DOMAIN files /\ sectors \subseteq DOMAIN files
    /\ DOMAIN views \cap sectors = {}
    /\ \A fd \in DOMAIN views : views[fd].base \in Nat /\ views[fd].size \in Int
DirectoriesKept ==
    /\ DOMAIN directories \subseteq Known /\ DOMAIN directories \cap DOMAIN files = {}
    /\ \A fd \in DOMAIN directories : directories[fd] \in 0..Entries

\* A result belongs to one descriptor, and is that of its latest operation.
ResultsKept ==
    /\ started \in Nat /\ waited \subseteq 1..started
    /\ DOMAIN results \subseteq Known /\ DOMAIN results \subseteq DOMAIN latest
    /\ \A fd \in DOMAIN results :
         results[fd] = latest[fd] /\ results[fd] \in 1..started /\ results[fd] \notin waited
    /\ \A f, g \in DOMAIN results : results[f] = results[g] => f = g

TransferKept ==
    /\ transfer.kind # "none" => transfer.fd \in Known
    /\ Files!ReadsWithinView

FileInv ==
    /\ FilesKept /\ HostKept /\ ViewsKept /\ DirectoriesKept /\ ResultsKept /\ TransferKept
    /\ current \in {"disc", "stick"}

-----------------------------------------------------------------------------
(* What the helpers do *)

LEMMA DropIs ==
  ASSUME NEW f, NEW x
  PROVE  /\ DOMAIN Files!Drop(f, x) = DOMAIN f \ {x}
         /\ \A y \in DOMAIN f : y # x => Files!Drop(f, x)[y] = f[y]
  BY DEF Files!Drop, Files!Restrict

\* The host's descriptor is a free one.
LEMMA FreshDescriptor ==
  ASSUME IsFiniteSet(DOMAIN host)
  PROVE  Files!HostDescriptor \notin DOMAIN host
<1>1. Cardinality(DOMAIN host) \in Nat
  BY FS_CardinalityType
<1>2. \E h \in 0..Cardinality(DOMAIN host) : h \notin DOMAIN host
  <2> DEFINE n == Cardinality(DOMAIN host)
  <2> SUFFICES ASSUME 0..n \subseteq DOMAIN host PROVE FALSE
    OBVIOUS
  <2>1. Cardinality(0..n) <= n
    BY FS_Subset
  <2>2. Cardinality(0..n) = n + 1
    BY <1>1, FS_Interval
  <2> QED
    BY <1>1, <2>1, <2>2
<1>3. Cardinality(DOMAIN host) = Files!Cardinality(DOMAIN host)
  BY DEF Cardinality, Files!Cardinality
<1> QED
  BY <1>2, <1>3, Zenon DEF Files!HostDescriptor

LEMMA MoveIs ==
  ASSUME FilesKept, HostKept, NEW fd \in DOMAIN files, NEW at \in 0..(2 * Limit), Files!Move(fd, at)
  PROVE  /\ DOMAIN host' = DOMAIN host /\ host' \in [DOMAIN host -> HostFile]
         /\ host'[files[fd]].at = at
         /\ \A h \in DOMAIN host : host'[h].kind = host[h].kind /\ host'[h].write = host[h].write
         /\ \A h \in DOMAIN host : h # files[fd] => host'[h] = host[h]
<1>1. files[fd] \in DOMAIN host
  BY DEF FilesKept
<1>2. host' = [host EXCEPT ![files[fd]].at = at]
  BY DEF Files!Move
<1>3. host[files[fd]] \in HostFile /\ \A h \in DOMAIN host : host[h] \in HostFile
  BY <1>1 DEF HostKept
<1>4. [host[files[fd]] EXCEPT !.at = at] \in HostFile
  BY <1>3 DEF HostFile
<1>5. DOMAIN host' = DOMAIN host /\ host'[files[fd]] = [host[files[fd]] EXCEPT !.at = at]
      /\ \A h \in DOMAIN host : h # files[fd] => host'[h] = host[h]
  BY <1>1, <1>2, <1>3
<1>6. host' \in [DOMAIN host -> HostFile]
  BY <1>1, <1>2, <1>3, <1>4
<1> QED
  BY <1>1, <1>3, <1>5, <1>6 DEF HostFile

\* A read stays in the file and gives no more than it was asked for.
LEMMA GivenIs ==
  ASSUME FilesKept, HostKept, NEW fd \in DOMAIN files, NEW bytes \in Nat
  PROVE  LET h == host[files[fd]]
             given == Files!Given(fd, bytes)
         IN  /\ h \in HostFile /\ length[h.kind] \in 0..Limit
             /\ given \in 0..bytes /\ h.at + given \in 0..(2 * Limit)
             /\ given = 0 \/ given = bytes \/ h.at + given = length[h.kind]
             /\ h.at >= length[h.kind] => given = 0
<1> DEFINE h == host[files[fd]]
<1>1. h \in HostFile
  BY DEF FilesKept, HostKept
<1>2. length[h.kind] \in 0..Limit
  BY <1>1 DEF HostKept, HostFile
<1>3. h.at \in 0..(2 * Limit)
  BY <1>1 DEF HostFile
<1> QED
  BY <1>1, <1>2, <1>3, FileConstants DEF Files!Given, Files!Smaller

LEMMA AskedIs ==
  ASSUME FilesKept, HostKept, ViewsKept, NEW fd \in DOMAIN files, NEW size \in Nat
  PROVE  LET at == host[files[fd]].at
             bytes == Files!Asked(fd, size)
         IN  /\ bytes \in Nat
             /\ fd \in sectors => bytes = size * SectorSize
             /\ fd \in DOMAIN views /\ bytes > 0 =>
                  at >= views[fd].base /\ at + bytes <= views[fd].base + views[fd].size
<1> DEFINE at == host[files[fd]].at
<1>1. at \in Nat
  BY FileConstants DEF FilesKept, HostKept, HostFile
<1>2. size * SectorSize \in Nat
  BY FileConstants
<1>3. PICK n \in Nat : n = IF fd \in sectors THEN size * SectorSize ELSE size
  BY <1>2
<1>4. CASE fd \in DOMAIN views
  <2>1. Files!Asked(fd, size) = Files!ReadableSize(views[fd], at, n) /\ fd \notin sectors
    BY <1>3, <1>4 DEF Files!Asked, ViewsKept
  <2>2. views[fd].base \in Nat /\ views[fd].size \in Int
    BY <1>4 DEF ViewsKept
  <2> QED
    BY <1>1, <1>4, <2>1, <2>2 DEF Files!ReadableSize, Files!Smaller
<1>5. CASE fd \notin DOMAIN views
  BY <1>3, <1>5 DEF Files!Asked
<1> QED
  BY <1>4, <1>5

-----------------------------------------------------------------------------
(* Results *)

\* An operation is accepted, and its result is there.
LEMMA Accepting ==
  ASSUME ResultsKept, NEW fd, next \in Nat, next' \in Nat, next' >= next, fd \in Known',
         Files!Accept(fd), results' = Files!Put(results, fd, started + 1), waited' = waited
  PROVE  ResultsKept'
<1>1. started' = started + 1 /\ latest' = Files!Put(latest, fd, started + 1)
  BY DEF Files!Accept
<1>2. DOMAIN results' = DOMAIN results \cup {fd} /\ results'[fd] = started + 1
      /\ \A f \in DOMAIN results : f # fd => results'[f] = results[f]
  <2>1. results' = Files!Put(results, fd, started + 1)
    OBVIOUS
  <2> QED
    BY <2>1 DEF Files!Put
<1>3. DOMAIN latest' = DOMAIN latest \cup {fd} /\ latest'[fd] = started + 1
      /\ \A f \in DOMAIN latest : f # fd => latest'[f] = latest[f]
  BY <1>1 DEF Files!Put
<1>4. started' \in Nat /\ waited' \subseteq 1..started' /\ started + 1 \notin waited /\ started + 1 \in 1..started'
  BY <1>1 DEF ResultsKept
<1>5. DOMAIN results' \subseteq Known' /\ DOMAIN results' \subseteq DOMAIN latest'
  <2>1. DOMAIN results \subseteq Known'
    BY DEF ResultsKept, Known
  <2>2. DOMAIN results \subseteq DOMAIN latest
    BY DEF ResultsKept
  <2> QED
    BY <1>2, <1>3, <2>1, <2>2
<1>6. \A f \in DOMAIN results' :
        results'[f] = latest'[f] /\ results'[f] \in 1..started' /\ results'[f] \notin waited'
  BY <1>1, <1>2, <1>3, <1>4 DEF ResultsKept
<1>7. \A f, g \in DOMAIN results' : results'[f] = results'[g] => f = g
  <2>1. \A f \in DOMAIN results : results[f] # started + 1
    BY DEF ResultsKept
  <2> QED
    BY <1>2, <2>1 DEF ResultsKept
<1> QED
  BY <1>4, <1>5, <1>6, <1>7 DEF ResultsKept

\* A result goes: it has been waited for, or its descriptor is closed.
LEMMA Taking ==
  ASSUME ResultsKept, NEW fd, results' = Files!Drop(results, fd), next' = next, started' = started, latest' = latest,
         waited' = waited \/ (fd \in DOMAIN results /\ waited' = waited \cup {results[fd]})
  PROVE  ResultsKept'
<1>1. DOMAIN results' = DOMAIN results \ {fd}
      /\ \A f \in DOMAIN results : f # fd => results'[f] = results[f]
  BY DropIs
<1>2. waited' \subseteq 1..started'
  BY DEF ResultsKept
<1>3. \A f \in DOMAIN results' : results'[f] \notin waited'
  BY <1>1 DEF ResultsKept
<1>4. DOMAIN results' \subseteq Known' /\ DOMAIN results' \subseteq DOMAIN latest'
  BY <1>1 DEF ResultsKept, Known
<1>5. \A f \in DOMAIN results' : results'[f] = latest'[f] /\ results'[f] \in 1..started'
  BY <1>1 DEF ResultsKept
<1>6. \A f, g \in DOMAIN results' : results'[f] = results'[g] => f = g
  BY <1>1 DEF ResultsKept
<1> QED
  BY <1>2, <1>3, <1>4, <1>5, <1>6 DEF ResultsKept

LEMMA NoNewResult ==
  ASSUME ResultsKept, next \in Nat, next' \in Nat, next' >= next, UNCHANGED <<results, latest, started, waited>>
  PROVE  ResultsKept'
  BY DEF ResultsKept, Known

\* Either of the two, as the calls have it.
LEMMA Answering ==
  ASSUME ResultsKept, FilesKept, NEW fd \in DOMAIN files, NEW async \in BOOLEAN, next' = next, waited' = waited,
         IF async THEN Files!Accept(fd) /\ results' = Files!Put(results, fd, started + 1)
                  ELSE UNCHANGED <<results, started, latest>>
  PROVE  ResultsKept'
<1>1. next \in Nat /\ fd \in Known'
  BY DEF FilesKept, Known
<1>2. CASE async
  BY <1>1, <1>2, Accepting
<1>3. CASE ~async
  BY <1>1, <1>3, NoNewResult
<1> QED
  BY <1>2, <1>3

-----------------------------------------------------------------------------
(* Opening and closing *)

LEMMA OpenStep ==
  ASSUME FileInv, NEW p \in Paths, NEW async \in BOOLEAN, Files!Open(p, async)
  PROVE  FileInv'
<1> DEFINE h == Files!HostDescriptor
           view == Files!CompleteFileView(p)
<1> USE DEF FileInv
<1>1. next' = next + 1 /\ next \in Nat /\ next >= 3 /\ next \notin DOMAIN files /\ next \notin DOMAIN views
      /\ next \notin sectors /\ next \notin DOMAIN results /\ next \notin DOMAIN directories
  BY DEF Files!Open, FilesKept, ViewsKept, ResultsKept, DirectoriesKept, Known
<1>2. h \notin DOMAIN host
  BY FreshDescriptor DEF FilesKept
<1>3. DOMAIN files' = DOMAIN files \cup {next} /\ files'[next] = h
      /\ \A f \in DOMAIN files : files'[f] = files[f]
  <2>1. files' = Files!Put(files, next, h)
    BY DEF Files!Open, Files!NewDescriptor
  <2> HIDE DEF h
  <2> QED
    BY <2>1, <1>1 DEF Files!Put
<1>4. p \in [kind : {"plain", "raw", "whole"}, base : 0..(2 * Limit), size : Nat, write : BOOLEAN]
  BY FileConstants
<1>5. p.kind = "raw" => view.base \in 0..(2 * Limit) /\ view.size \in Int
  <2>1. length["disc"] \in 0..Limit
    BY DEF HostKept, Kinds
  <2> QED
    BY <1>4, <2>1, FileConstants DEF Files!CompleteFileView, Files!NoView
<1>6. FilesKept'
  <2>1. DOMAIN host' = DOMAIN host \cup {h}
    BY DEF Files!Open, Files!Put
  <2>2. IsFiniteSet(DOMAIN host')
    BY <2>1, FS_AddElement DEF FilesKept
  <2>3. \A f \in DOMAIN files : files[f] # h
    BY <1>2 DEF FilesKept
  <2>4. DOMAIN files' \subseteq Known'
    BY <1>1, <1>3 DEF FilesKept, Known
  <2> QED
    BY <1>1, <1>3, <2>1, <2>2, <2>3, <2>4 DEF FilesKept
<1>7. HostKept'
  <2> DEFINE new == [kind |-> Files!Image(p), write |-> p.write, at |-> IF p.kind = "raw" THEN view.base ELSE 0]
  <2>1. new \in HostFile
    BY <1>4, <1>5, FileConstants DEF HostFile, Files!Image, Kinds
  <2>2. host' = [y \in DOMAIN host \cup {h} |-> IF y = h THEN new ELSE host[y]]
    BY DEF Files!Open, Files!Put
  <2>3. length' = length
    BY DEF Files!Open
  <2> QED
    BY <2>1, <2>2, <2>3 DEF HostKept
<1>8. ViewsKept'
  <2>1. sectors' = IF p.kind = "whole" THEN sectors \cup {next} ELSE sectors
    BY DEF Files!Open, Files!NewDescriptor
  <2>2. \/ p.kind # "raw" /\ views' = views
        \/ /\ p.kind = "raw" /\ DOMAIN views' = DOMAIN views \cup {next} /\ views'[next] = view
           /\ \A f \in DOMAIN views : views'[f] = views[f]
    <3>1. views' = IF p.kind = "raw" THEN Files!Put(views, next, view) ELSE views
      BY DEF Files!Open, Files!NewDescriptor
    <3> HIDE DEF view
    <3> QED
      BY <3>1, <1>1 DEF Files!Put
  <2> HIDE DEF view
  <2> QED
    BY <1>1, <1>3, <1>5, <2>1, <2>2, FileConstants DEF ViewsKept
<1>9. DirectoriesKept'
  <2>1. directories' = directories
    BY DEF Files!Open
  <2> QED
    BY <1>1, <1>3, <2>1 DEF DirectoriesKept, Known
<1>10. ResultsKept'
  <2>1. waited' = waited
    BY DEF Files!Open
  <2>2. CASE async
    <3>1. Files!Accept(next) /\ results' = Files!Put(results, next, started + 1)
      BY <1>1, <2>2 DEF Files!Open, Files!NewDescriptor
    <3>2. next \in Known'
      BY <1>1 DEF Known
    <3> QED
      BY <1>1, <2>1, <3>1, <3>2, Accepting
  <2>3. CASE ~async
    BY <1>1, <2>1, <2>3, NoNewResult DEF Files!Open
  <2> QED
    BY <2>2, <2>3
<1>11. TransferKept'
  <2>1. transfer' = transfer
    BY DEF Files!Open
  <2>2. \A f \in Known : f # next
    BY <1>1 DEF Known
  <2>3. \A f \in Known : f \in DOMAIN views' => f \in DOMAIN views /\ views'[f] = views[f]
    <3>1. views' = IF p.kind = "raw" THEN Files!Put(views, next, view) ELSE views
      BY DEF Files!Open, Files!NewDescriptor
    <3> HIDE DEF view
    <3> QED
      BY <3>1, <2>2 DEF Files!Put
  <2>4. Known \subseteq Known'
    BY <1>1 DEF Known
  <2> QED
    BY <2>1, <2>3, <2>4 DEF TransferKept, Files!ReadsWithinView
<1>12. current' = current
  BY DEF Files!Open
<1> QED
  BY <1>6, <1>7, <1>8, <1>9, <1>10, <1>11, <1>12

LEMMA ForgetIs ==
  ASSUME FilesKept, HostKept, ViewsKept, NEW fd \in DOMAIN files, Files!Forget(fd), next' = next, length' = length
  PROVE  /\ FilesKept' /\ HostKept' /\ ViewsKept'
         /\ DOMAIN files' = DOMAIN files \ {fd}
         /\ \A f \in DOMAIN views' : f \in DOMAIN views /\ views'[f] = views[f]
<1>1. DOMAIN files' = DOMAIN files \ {fd} /\ \A f \in DOMAIN files : f # fd => files'[f] = files[f]
  BY DropIs DEF Files!Forget
<1>2. DOMAIN views' = DOMAIN views \ {fd} /\ \A f \in DOMAIN views : f # fd => views'[f] = views[f]
  BY DropIs DEF Files!Forget
<1>3. DOMAIN host' = DOMAIN host \ {files[fd]} /\ \A h \in DOMAIN host : h # files[fd] => host'[h] = host[h]
  BY DropIs DEF Files!Forget
<1>4. sectors' = sectors \ {fd}
  BY DEF Files!Forget
<1>5. FilesKept'
  <2>1. IsFiniteSet(DOMAIN host')
    BY <1>3, FS_RemoveElement DEF FilesKept
  <2>2. DOMAIN host' = {files'[f] : f \in DOMAIN files'}
    BY <1>1, <1>3 DEF FilesKept
  <2> QED
    BY <1>1, <2>1, <2>2 DEF FilesKept, Known
<1>6. HostKept'
  <2>1. host' = [h \in DOMAIN host \ {files[fd]} |-> host[h]]
    BY DEF Files!Forget, Files!Drop, Files!Restrict
  <2> QED
    BY <2>1 DEF HostKept
<1>7. ViewsKept'
  BY <1>1, <1>2, <1>4 DEF ViewsKept
<1> QED
  BY <1>1, <1>2, <1>5, <1>6, <1>7

LEMMA CloseStep ==
  ASSUME FileInv, NEW fd, Files!Close(fd) \/ Files!CloseAsync(fd)
  PROVE  FileInv'
<1> USE DEF FileInv
<1>1. fd \in DOMAIN files /\ Files!Forget(fd) /\ next' = next /\ length' = length /\ directories' = directories
      /\ current' = current /\ waited' = waited /\ transfer' = transfer
  BY DEF Files!Close, Files!CloseAsync, Files!fileHist
<1>2. FilesKept' /\ HostKept' /\ ViewsKept' /\ DOMAIN files' = DOMAIN files \ {fd}
      /\ \A f \in DOMAIN views' : f \in DOMAIN views /\ views'[f] = views[f]
  BY <1>1, ForgetIs
<1>3. DirectoriesKept'
  BY <1>1, <1>2 DEF DirectoriesKept, Known
<1>4. ResultsKept'
  <2>1. CASE Files!Close(fd)
    <3>1. results' = Files!Drop(results, fd) /\ started' = started /\ latest' = latest
      BY <2>1 DEF Files!Close, Files!fileHist
    <3> QED
      BY <1>1, <3>1, Taking
  <2>2. CASE Files!CloseAsync(fd)
    <3>1. Files!Accept(fd) /\ results' = Files!Put(results, fd, started + 1)
      BY <2>2 DEF Files!CloseAsync
    <3>2. next \in Nat /\ fd \in Known'
      BY <1>1 DEF FilesKept, Known
    <3> QED
      BY <1>1, <3>1, <3>2, Accepting
  <2> QED
    BY <2>1, <2>2
<1>5. TransferKept'
  BY <1>1, <1>2 DEF TransferKept, Known, Files!ReadsWithinView
<1> QED
  BY <1>1, <1>2, <1>3, <1>4, <1>5

-----------------------------------------------------------------------------
(* Reading, writing and seeking *)

\* Moving a position leaves the tables alone.
LEMMA MoveKeeps ==
  ASSUME FileInv, NEW fd \in DOMAIN files, NEW at \in 0..(2 * Limit), Files!Move(fd, at), length' \in [Kinds -> 0..Limit],
         UNCHANGED <<files, views, sectors, directories, next, current>>
  PROVE  FilesKept' /\ HostKept' /\ ViewsKept' /\ DirectoriesKept' /\ current' \in {"disc", "stick"}
<1> USE DEF FileInv
<1>1. DOMAIN host' = DOMAIN host /\ host' \in [DOMAIN host -> HostFile]
  BY MoveIs
<1>2. FilesKept'
  BY <1>1 DEF FilesKept, Known
<1>3. HostKept'
  BY <1>1 DEF HostKept
<1>4. ViewsKept' /\ DirectoriesKept'
  BY DEF ViewsKept, DirectoriesKept, Known
<1> QED
  BY <1>2, <1>3, <1>4

LEMMA ReadStep ==
  ASSUME FileInv, NEW fd, NEW size \in ReadSizes, NEW async \in BOOLEAN, Files!Read(fd, size, async)
  PROVE  FileInv'
<1> DEFINE at == host[files[fd]].at
           bytes == Files!Asked(fd, size)
           given == Files!Given(fd, bytes)
<1> USE DEF FileInv
<1>1. fd \in DOMAIN files /\ size \in Nat
  BY FileConstants DEF Files!Read
<1>2. /\ bytes \in Nat
      /\ fd \in DOMAIN views /\ bytes > 0 => at >= views[fd].base /\ at + bytes <= views[fd].base + views[fd].size
  BY <1>1, AskedIs
<1>3. given \in 0..bytes /\ at \in Nat /\ at + given \in 0..(2 * Limit)
  <2> HIDE DEF bytes
  <2>1. given \in 0..bytes /\ at + given \in 0..(2 * Limit) /\ host[files[fd]] \in HostFile
    BY <1>1, <1>2, GivenIs
  <2> QED
    BY <2>1, FileConstants DEF HostFile
<1>4. /\ Files!Move(fd, at + given) /\ UNCHANGED <<files, views, sectors, directories, next, length, current, waited>>
      /\ transfer' = [kind |-> "read", fd |-> fd, from |-> at, to |-> at + given, told |-> Files!Told(fd, given)]
      /\ IF async THEN Files!Accept(fd) /\ results' = Files!Put(results, fd, started + 1)
                  ELSE UNCHANGED <<results, started, latest>>
  BY DEF Files!Read
<1> HIDE DEF at, bytes, given
<1>5. length' \in [Kinds -> 0..Limit]
  BY <1>4 DEF HostKept
<1>6. FilesKept' /\ HostKept' /\ ViewsKept' /\ DirectoriesKept' /\ current' \in {"disc", "stick"}
  BY <1>1, <1>3, <1>4, <1>5, MoveKeeps
<1>7. ResultsKept'
  BY <1>1, <1>4, Answering
<1>8. TransferKept'
  <2>1. fd \in Known'
    BY <1>1, <1>4 DEF FilesKept, Known
  <2>2. fd \in DOMAIN views => at + given = at \/ (at >= views[fd].base /\ at + given <= views[fd].base + views[fd].size)
    BY <1>2, <1>3 DEF ViewsKept
  <2>3. /\ transfer'.kind = "read" /\ transfer'.fd = fd /\ transfer'.from = at /\ transfer'.to = at + given
        /\ views' = views
    BY <1>4
  <2> QED
    BY <2>1, <2>2, <2>3 DEF TransferKept, Files!ReadsWithinView
<1> QED
  BY <1>6, <1>7, <1>8

\* Where a seek ends: a place the host can be at, which in a window is told relative to it.
LEMMA SeekEnds ==
  ASSUME FileInv, NEW fd \in DOMAIN files, NEW logical \in Int
  PROVE  LET fits == logical >= 0 /\ Files!Absolute(fd, logical) <= Limit
         IN  /\ Files!Absolute(fd, logical) \in Int
             /\ fits => Files!Absolute(fd, logical) \in 0..(2 * Limit)
             /\ fd \in DOMAIN views => Files!Absolute(fd, logical) = views[fd].base + logical
<1>1. SectorSize \in Nat /\ Limit \in Nat
  BY FileConstants
<1>2. CASE fd \in sectors
  <2>1. fd \notin DOMAIN views /\ Files!Absolute(fd, logical) = logical * SectorSize
    BY <1>2 DEF FileInv, ViewsKept, Files!Absolute
  <2>2. logical * SectorSize \in Int
    BY <1>1
  <2>3. logical >= 0 => logical * SectorSize >= 0
    <3>1. logical >= 0 => logical \in Nat
      OBVIOUS
    <3>2. \A n \in Nat : n * SectorSize \in Nat
      BY <1>1
    <3> QED
      BY <3>1, <3>2
  <2> QED
    BY <1>1, <2>1, <2>2, <2>3
<1>3. CASE fd \notin sectors /\ fd \in DOMAIN views
  <2>1. views[fd].base \in Nat /\ Files!Absolute(fd, logical) = views[fd].base + logical
    BY <1>3 DEF FileInv, ViewsKept, Files!Absolute
  <2> QED
    BY <1>1, <2>1
<1>4. CASE fd \notin sectors /\ fd \notin DOMAIN views
  <2>1. Files!Absolute(fd, logical) = logical
    BY <1>4 DEF Files!Absolute
  <2> QED
    BY <1>1, <1>4, <2>1
<1> QED
  BY <1>2, <1>3, <1>4

LEMMA OriginIs ==
  ASSUME FileInv, NEW fd \in DOMAIN files, NEW whence \in {"set", "cur", "end"}
  PROVE  Files!Origin(fd, whence) \in Int
<1> DEFINE h == host[files[fd]]
           unit(n) == IF fd \in sectors THEN Files!CompleteSectorCount(n)
                      ELSE IF fd \in DOMAIN views THEN n - views[fd].base ELSE n
<1>1. h \in HostFile
  BY DEF FileInv, FilesKept, HostKept
<1>2. h.at \in Nat /\ length[h.kind] \in Nat
  BY <1>1, FileConstants DEF FileInv, HostKept, HostFile
<1>3. \A n \in Nat : unit(n) \in Int
  BY FileConstants DEF FileInv, ViewsKept, Files!CompleteSectorCount
<1>4. unit(h.at) \in Int /\ unit(length[h.kind]) \in Int
  BY <1>2, <1>3
<1>5. fd \in DOMAIN views => views[fd].size \in Int
  BY DEF FileInv, ViewsKept
<1>6. CASE whence = "set"
  BY <1>6 DEF Files!Origin
<1>7. CASE whence = "cur"
  <2>1. Files!Origin(fd, whence) = unit(h.at)
    BY <1>7 DEF Files!Origin
  <2> QED
    BY <1>4, <2>1
<1>8. CASE whence = "end" /\ fd \in DOMAIN views
  BY <1>5, <1>8 DEF Files!Origin
<1>9. CASE whence = "end" /\ fd \notin DOMAIN views
  <2>1. Files!Origin(fd, whence) = unit(length[h.kind])
    BY <1>9 DEF Files!Origin
  <2> QED
    BY <1>4, <2>1
<1> QED
  BY <1>6, <1>7, <1>8, <1>9

LEMMA SeekStep ==
  ASSUME FileInv, NEW fd, NEW offset \in Offsets, NEW whence \in {"set", "cur", "end"}, NEW async \in BOOLEAN,
         Files!Seek(fd, offset, whence, async)
  PROVE  FileInv'
<1> DEFINE logical == Files!Origin(fd, whence) + offset
           place == Files!Absolute(fd, logical)
           fits == logical >= 0 /\ place <= Limit
           h == host[files[fd]]
           at == IF fits THEN place ELSE IF fd \in sectors /\ whence = "end" THEN length[h.kind] ELSE h.at
           told == IF fits THEN logical ELSE -1
<1> USE DEF FileInv
<1>1. fd \in DOMAIN files
  BY DEF Files!Seek
<1>2. logical \in Int
  BY <1>1, OriginIs, FileConstants
<1>3. /\ Files!Move(fd, at) /\ UNCHANGED <<files, views, sectors, directories, next, length, current, waited>>
      /\ transfer' = [kind |-> "seek", fd |-> fd, to |-> at, told |-> told]
      /\ IF async THEN Files!Accept(fd) /\ results' = Files!Put(results, fd, started + 1)
                  ELSE UNCHANGED <<results, started, latest>>
  BY DEF Files!Seek
<1>4. h.at \in 0..(2 * Limit) /\ length[h.kind] \in 0..(2 * Limit)
  <2>1. h \in HostFile
    BY <1>1 DEF FilesKept, HostKept
  <2> QED
    BY <2>1, FileConstants DEF HostKept, HostFile
<1>5. place \in Int /\ (fits => place \in 0..(2 * Limit)) /\ (fd \in DOMAIN views => place = views[fd].base + logical)
  <2> HIDE DEF logical
  <2> QED
    BY <1>1, <1>2, SeekEnds
<1> HIDE DEF logical, place, h
<1>6. at \in 0..(2 * Limit)
  BY <1>4, <1>5
<1>7. fd \in DOMAIN views => told \in {-1, at - views[fd].base}
  BY <1>2, <1>5 DEF ViewsKept
<1> HIDE DEF at, told
<1>8. length' \in [Kinds -> 0..Limit]
  BY <1>3 DEF HostKept
<1>9. FilesKept' /\ HostKept' /\ ViewsKept' /\ DirectoriesKept' /\ current' \in {"disc", "stick"}
  BY <1>1, <1>3, <1>6, <1>8, MoveKeeps
<1>10. ResultsKept'
  BY <1>1, <1>3, Answering
<1>11. TransferKept'
  <2>1. fd \in Known'
    BY <1>1, <1>3 DEF FilesKept, Known
  <2>2. transfer'.kind = "seek" /\ transfer'.fd = fd /\ transfer'.to = at /\ transfer'.told = told /\ views' = views
    BY <1>3
  <2> QED
    BY <2>1, <2>2, <1>7 DEF TransferKept, Files!ReadsWithinView
<1> QED
  BY <1>9, <1>10, <1>11

LEMMA WriteStep ==
  ASSUME FileInv, NEW fd, NEW size \in ReadSizes, Files!Write(fd, size)
  PROVE  FileInv'
<1> DEFINE h == host[files[fd]]
<1> USE DEF FileInv
<1>1. fd \in DOMAIN files /\ size \in Nat
  BY FileConstants DEF Files!Write
<1>2. /\ h.at + size <= Limit /\ Files!Move(fd, h.at + size)
      /\ length' = [length EXCEPT ![h.kind] = IF h.at + size > @ THEN h.at + size ELSE @]
      /\ UNCHANGED <<files, views, sectors, results, directories, next, current, started, latest, waited, transfer>>
  BY DEF Files!Write, Files!tables, Files!fileHist
<1>3. h \in HostFile
  BY <1>1 DEF FilesKept, HostKept
<1>4. h.at + size \in 0..Limit /\ h.kind \in Kinds
  BY <1>1, <1>2, <1>3, FileConstants DEF HostFile
<1>5. length' \in [Kinds -> 0..Limit]
  BY <1>2, <1>4 DEF HostKept
<1>6. h.at + size \in 0..(2 * Limit)
  BY <1>4, FileConstants
<1>7. FilesKept' /\ HostKept' /\ ViewsKept' /\ DirectoriesKept' /\ current' \in {"disc", "stick"}
  BY <1>1, <1>2, <1>5, <1>6, MoveKeeps
<1>8. ResultsKept' /\ TransferKept'
  BY <1>2 DEF ResultsKept, TransferKept, Known, Files!ReadsWithinView
<1> QED
  BY <1>7, <1>8

-----------------------------------------------------------------------------
(* Results, directories and the rest *)

LEMMA WaitStep ==
  ASSUME FileInv, NEW fd, Files!WaitAsync(fd)
  PROVE  FileInv'
<1> USE DEF FileInv
<1>1. /\ fd \in DOMAIN results /\ results' = Files!Drop(results, fd) /\ waited' = waited \cup {results[fd]}
      /\ UNCHANGED <<files, views, sectors, directories, next, host, length, current, started, latest, transfer>>
  BY DEF Files!WaitAsync, Files!Taken, Files!disk
<1>2. ResultsKept'
  BY <1>1, Taking
<1>3. FilesKept' /\ HostKept' /\ ViewsKept' /\ DirectoriesKept'
  BY <1>1 DEF FilesKept, HostKept, ViewsKept, DirectoriesKept, Known
<1>4. TransferKept'
  BY <1>1 DEF TransferKept, Known, Files!ReadsWithinView
<1> QED
  BY <1>1, <1>2, <1>3, <1>4

LEMMA DirectoryStep ==
  ASSUME FileInv, NEW fd, Files!Dopen \/ Files!Dread(fd) \/ Files!Dclose(fd)
  PROVE  FileInv'
<1> USE DEF FileInv
<1>1. /\ UNCHANGED <<files, views, sectors, results, host, length, current, started, latest, waited, transfer>>
      /\ next' \in {next, next + 1}
  BY DEF Files!Dopen, Files!Dread, Files!Dclose, Files!disk, Files!fileHist
<1>2. next \in Nat /\ next >= 3 /\ next' \in Nat /\ next' >= next
  BY <1>1 DEF FilesKept
<1>3. FilesKept' /\ HostKept' /\ ViewsKept' /\ ResultsKept'
  BY <1>1, <1>2 DEF FilesKept, HostKept, ViewsKept, ResultsKept, Known
<1>4. TransferKept'
  BY <1>1, <1>2 DEF TransferKept, Known, Files!ReadsWithinView
<1>5. DirectoriesKept'
  <2>1. CASE Files!Dopen
    <3>1. directories' = Files!Put(directories, next, 0) /\ next' = next + 1 /\ files' = files
      BY <2>1 DEF Files!Dopen, Files!NewDescriptor
    <3>2. DOMAIN directories' = DOMAIN directories \cup {next} /\ directories'[next] = 0
          /\ \A f \in DOMAIN directories : f # next => directories'[f] = directories[f]
      BY <3>1 DEF Files!Put
    <3>3. next \notin DOMAIN files
      BY DEF FilesKept, Known
    <3> QED
      BY <1>2, <3>1, <3>2, <3>3, FileConstants DEF DirectoriesKept, Known
  <2>2. CASE Files!Dread(fd)
    <3>1. /\ fd \in DOMAIN directories /\ directories[fd] < Entries
          /\ directories' = [directories EXCEPT ![fd] = directories[fd] + 1] /\ next' = next /\ files' = files
      BY <2>2 DEF Files!Dread, Files!EntriesLeft
    <3>2. directories[fd] + 1 \in 0..Entries
      BY <3>1, FileConstants DEF DirectoriesKept
    <3>3. DOMAIN directories' = DOMAIN directories /\ \A f \in DOMAIN directories' : directories'[f] \in 0..Entries
      BY <3>1, <3>2 DEF DirectoriesKept
    <3> QED
      BY <3>1, <3>3 DEF DirectoriesKept, Known
  <2>3. CASE Files!Dclose(fd)
    <3>1. directories' = Files!Drop(directories, fd) /\ next' = next /\ files' = files
      BY <2>3 DEF Files!Dclose
    <3>2. DOMAIN directories' = DOMAIN directories \ {fd}
          /\ \A f \in DOMAIN directories : f # fd => directories'[f] = directories[f]
      BY <3>1, DropIs
    <3> QED
      BY <3>1, <3>2 DEF DirectoriesKept, Known
  <2> QED
    BY <2>1, <2>2, <2>3
<1> QED
  BY <1>1, <1>3, <1>4, <1>5

LEMMA FileStutter ==
  ASSUME FileInv, UNCHANGED file
  PROVE  FileInv'
  BY DEF file, FileInv, FilesKept, HostKept, ViewsKept, DirectoriesKept, ResultsKept, TransferKept,
         Known, Files!ReadsWithinView

LEMMA ChdirStep ==
  ASSUME FileInv, NEW d \in {"disc", "stick"}, Files!Chdir(d)
  PROVE  FileInv'
<1>1. current' = d /\ UNCHANGED <<files, views, sectors, results, directories, next, host, length, started, latest,
                                  waited, transfer>>
  BY DEF Files!Chdir, Files!tables, Files!disk, Files!fileHist
<1> QED
  BY <1>1 DEF FileInv, FilesKept, HostKept, ViewsKept, DirectoriesKept, ResultsKept, TransferKept,
              Known, Files!ReadsWithinView

LEMMA FileStep ==
  ASSUME FileInv, Files!FilesNext
  PROVE  FileInv'
<1>1. CASE \E p \in Paths, async \in BOOLEAN : Files!Open(p, async)
  BY <1>1, OpenStep
<1>2. CASE \E fd \in 3..next : Files!Close(fd) \/ Files!CloseAsync(fd)
  BY <1>2, CloseStep
<1>3. CASE \E fd \in 3..next : Files!WaitAsync(fd)
  BY <1>3, WaitStep
<1>4. CASE \E fd \in 3..next : Files!PollAsync(fd)
  <2>1. UNCHANGED file
    BY <1>4 DEF Files!PollAsync, Files!fileVars, Files!tables, Files!disk, Files!fileHist, file
  <2> QED
    BY <2>1, FileStutter
<1>5. CASE Files!Dopen \/ \E fd \in 3..next : Files!Dread(fd) \/ Files!Dclose(fd)
  BY <1>5, DirectoryStep
<1>6. CASE \E fd \in 3..next, size \in ReadSizes, async \in BOOLEAN : Files!Read(fd, size, async)
  BY <1>6, ReadStep
<1>7. CASE \E fd \in 3..next, size \in ReadSizes : Files!Write(fd, size)
  BY <1>7, WriteStep
<1>8. CASE \E fd \in 3..next, offset \in Offsets, whence \in {"set", "cur", "end"}, async \in BOOLEAN :
             Files!Seek(fd, offset, whence, async)
  BY <1>8, SeekStep
<1>9. CASE \E d \in {"disc", "stick"} : Files!Chdir(d)
  BY <1>9, ChdirStep
<1> QED
  BY <1>1, <1>2, <1>3, <1>4, <1>5, <1>6, <1>7, <1>8, <1>9 DEF Files!FilesNext

\* A step of the services is a step of the files, or leaves them alone.
LEMMA FilesOrNot ==
  ASSUME [Next]_vars
  PROVE  Files!FilesNext \/ UNCHANGED file
<1>1. CASE UNCHANGED vars
  BY <1>1 DEF vars
<1>2. CASE Call
  BY <1>2, Zenon DEF Call, Frame
<1>3. CASE Step
  BY <1>3, Zenon DEF Step, Frame
<1> QED
  BY <1>1, <1>2, <1>3 DEF Next

LEMMA FilesInitially ==
  ASSUME Init
  PROVE  FileInv
<1>1. /\ files = <<>> /\ views = <<>> /\ sectors = {} /\ results = <<>> /\ directories = <<>> /\ next = 3
      /\ host = <<>> /\ length = Lengths /\ current = "disc" /\ started = 0 /\ latest = <<>> /\ waited = {}
      /\ transfer = [kind |-> "none"]
  BY DEF Init, Files!FilesInit, Files!Nothing
<1>2. DOMAIN files = {} /\ DOMAIN views = {} /\ DOMAIN results = {} /\ DOMAIN directories = {} /\ DOMAIN host = {}
      /\ DOMAIN latest = {}
  BY <1>1
<1>3. IsFiniteSet(DOMAIN host)
  BY <1>2, FS_EmptySet
<1>4. FilesKept
  BY <1>1, <1>2, <1>3 DEF FilesKept
<1>5. HostKept
  BY <1>1, <1>2, FileConstants DEF HostKept
<1>6. ViewsKept /\ DirectoriesKept /\ ResultsKept
  BY <1>1, <1>2 DEF ViewsKept, DirectoriesKept, ResultsKept
<1>7. TransferKept
  BY <1>1 DEF TransferKept, Files!ReadsWithinView
<1> QED
  BY <1>1, <1>4, <1>5, <1>6, <1>7 DEF FileInv

-----------------------------------------------------------------------------
(* Sectors *)

\* A remainder is below the divisor, and a multiple of it away.
LEMMA ModQuotient ==
  ASSUME NEW c \in Nat \ {0}, NEW x \in Int
  PROVE  /\ x % c \in 0..(c - 1)
         /\ \E k \in Int : x = (k * c) + (x % c)
<1>1. x % c \in 0..(c - 1)
  OBVIOUS
<1>2. x \div c \in Int /\ x = ((x \div c) * c) + (x % c)
  OBVIOUS
<1> QED
  BY <1>1, <1>2

\* A positive multiple is at least the divisor.
LEMMA MultipleAtLeast ==
  ASSUME NEW c \in Nat \ {0}, NEW d \in Int, d >= 1
  PROVE  d * c >= c
  OBVIOUS

\* There is one remainder.
LEMMA ModUnique ==
  ASSUME NEW c \in Nat \ {0}, NEW x \in Int, NEW k \in Int, NEW r \in 0..(c - 1), x = (k * c) + r
  PROVE  x % c = r
<1>1. PICK q \in Int : x = (q * c) + (x % c)
  BY ModQuotient
<1>2. x % c \in 0..(c - 1)
  BY ModQuotient
<1>3. ~(k - q >= 1)
  <2>1. (k - q) * c = (x % c) - r
    BY <1>1, <1>2
  <2> QED
    BY <2>1, <1>2, MultipleAtLeast
<1>4. ~(q - k >= 1)
  <2>1. (q - k) * c = r - (x % c)
    BY <1>1, <1>2
  <2> QED
    BY <2>1, <1>2, MultipleAtLeast
<1>5. k = q
  BY <1>3, <1>4
<1> QED
  BY <1>1, <1>2, <1>5

LEMMA MultiplesAreWhole ==
  ASSUME NEW c \in Nat \ {0}, NEW n \in Int
  PROVE  (n * c) % c = 0
<1>1. n * c \in Int /\ n * c = (n * c) + 0 /\ 0 \in 0..(c - 1)
  OBVIOUS
<1> QED
  BY <1>1, ModUnique

LEMMA SectorsOn ==
  ASSUME NEW c \in Nat \ {0}, NEW x \in Nat, NEW n \in Nat, x % c = 0
  PROVE  (x + n * c) % c = 0
<1>1. PICK k \in Int : x = (k * c) + (x % c)
  <2>1. x \in Int
    OBVIOUS
  <2> QED
    BY <2>1, ModQuotient
<1>2. PICK m \in Int : m = k * c
  OBVIOUS
<1>3. x = m
  BY <1>1, <1>2
<1>4. x + (n * c) = (k + n) * c /\ k + n \in Int
  BY <1>2, <1>3
<1> QED
  BY <1>4, MultiplesAreWhole

\* Whole sectors do not exceed the bytes they are counted from.
LEMMA SectorsWithin ==
  ASSUME NEW c \in Nat \ {0}, NEW n \in Nat
  PROVE  (n \div c) * c <= n
<1>1. n \div c \in Nat /\ n = ((n \div c) * c) + (n % c) /\ n % c \in 0..(c - 1)
  OBVIOUS
<1>2. (n \div c) * c \in Nat
  BY <1>1
<1> QED
  BY <1>1, <1>2

\* The disc is read only: what the model's paths give, although nothing in
\* sceIoOpen forbids a guest to open the disc for writing.
DiscIsReadOnly == \A p \in Paths : p.kind # "plain" => ~p.write

OnSector(at) == at % SectorSize = 0 \/ at = length["disc"]
SectorsKept ==
    /\ \A h \in DOMAIN host : host[h].kind = "disc" => ~host[h].write
    /\ \A fd \in sectors : host[files[fd]].kind = "disc" /\ OnSector(host[files[fd]].at)
    /\ transfer.kind = "read" /\ transfer.fd \in sectors =>
         transfer.told * SectorSize <= transfer.to - transfer.from

LEMMA SectorsStay ==
  ASSUME FileInv, SectorsKept, UNCHANGED <<files, sectors, host, length, transfer>>
  PROVE  SectorsKept'
  BY DEF SectorsKept, OnSector

LEMMA SectorsMove ==
  ASSUME FileInv, SectorsKept, NEW fd \in DOMAIN files, NEW at \in 0..(2 * Limit), Files!Move(fd, at),
         UNCHANGED <<files, sectors>>, length'["disc"] = length["disc"],
         fd \in sectors => OnSector(at),
         transfer'.kind = "read" /\ transfer'.fd \in sectors =>
           transfer'.told * SectorSize <= transfer'.to - transfer'.from
  PROVE  SectorsKept'
<1>1. FilesKept /\ HostKept /\ ViewsKept
  BY DEF FileInv
<1>2. /\ DOMAIN host' = DOMAIN host /\ host'[files[fd]].at = at
      /\ \A h \in DOMAIN host : host'[h].kind = host[h].kind /\ host'[h].write = host[h].write
      /\ \A h \in DOMAIN host : h # files[fd] => host'[h] = host[h]
  BY <1>1, MoveIs
<1>3. \A f \in sectors : files[f] \in DOMAIN host /\ (f # fd => files[f] # files[fd])
  BY <1>1 DEF FilesKept, ViewsKept
<1>4. \A f \in sectors : host'[files[f]].kind = "disc"
  BY <1>2, <1>3 DEF SectorsKept
<1>5. \A f \in sectors : f # fd => OnSector(host'[files[f]].at)
  BY <1>2, <1>3 DEF SectorsKept
<1>6. \A f \in sectors : OnSector(host'[files[f]].at)
  BY <1>2, <1>5
<1>7. \A x : OnSector(x)' <=> OnSector(x)
  BY DEF OnSector
<1>8. \A h \in DOMAIN host' : host'[h].kind = "disc" => ~host'[h].write
  BY <1>2 DEF SectorsKept
<1>9. \A f \in sectors' : host'[files'[f]].kind = "disc" /\ (host'[files'[f]].at % SectorSize = 0 \/ host'[files'[f]].at = length'["disc"])
  BY <1>4, <1>6 DEF OnSector
<1> QED
  BY <1>8, <1>9 DEF SectorsKept, OnSector

\* A read of whole sectors ends on a sector, or at the end of the disc.
LEMMA SectorsRead ==
  ASSUME FileInv, SectorsKept, NEW fd, NEW size \in ReadSizes, NEW async \in BOOLEAN, Files!Read(fd, size, async)
  PROVE  SectorsKept'
<1> DEFINE at == host[files[fd]].at
           bytes == Files!Asked(fd, size)
           given == Files!Given(fd, bytes)
<1>1. FilesKept /\ HostKept /\ ViewsKept /\ fd \in DOMAIN files /\ size \in Nat
  BY FileConstants DEF FileInv, Files!Read
<1>2. bytes \in Nat /\ (fd \in sectors => bytes = size * SectorSize)
  BY <1>1, AskedIs
<1>3. /\ given \in 0..bytes /\ at + given \in 0..(2 * Limit) /\ host[files[fd]] \in HostFile
      /\ given = 0 \/ given = bytes \/ at + given = length[host[files[fd]].kind]
      /\ at >= length[host[files[fd]].kind] => given = 0
  <2> HIDE DEF bytes
  <2> QED
    BY <1>1, <1>2, GivenIs
<1>4. at \in Nat
  BY <1>3, FileConstants DEF HostFile
<1>5. /\ Files!Move(fd, at + given) /\ UNCHANGED <<files, sectors, length>>
      /\ transfer'.kind = "read" /\ transfer'.fd = fd /\ transfer'.from = at /\ transfer'.to = at + given
      /\ transfer'.told = Files!Told(fd, given)
  BY DEF Files!Read
<1>6. ASSUME fd \in sectors PROVE OnSector(at + given)
  <2>1. host[files[fd]].kind = "disc" /\ OnSector(at)
    BY <1>6 DEF SectorsKept
  <2>2. CASE given = 0
    <3>1. at + given = at
      BY <1>4, <2>2
    <3> QED
      BY <2>1, <3>1
  <2>3. CASE at + given = length["disc"]
    BY <2>3 DEF OnSector
  <2>4. CASE given = bytes /\ at # length["disc"]
    <3>1. at % SectorSize = 0
      BY <2>1, <2>4 DEF OnSector
    <3>2. (at + size * SectorSize) % SectorSize = 0
      BY <3>1, <1>1, <1>4, FileConstants, SectorsOn
    <3>3. given = size * SectorSize
      BY <1>2, <1>6, <2>4
    <3> HIDE DEF at, given, bytes
    <3> QED
      BY <3>2, <3>3 DEF OnSector
  <2>5. length["disc"] \in Nat
    BY <1>1, FileConstants DEF HostKept, Kinds
  <2> HIDE DEF at, given, bytes
  <2> QED
    BY <1>3, <1>4, <2>1, <2>2, <2>3, <2>4, <2>5
<1>7. fd \in sectors => transfer'.told * SectorSize <= transfer'.to - transfer'.from
  <2> SUFFICES ASSUME fd \in sectors PROVE transfer'.told * SectorSize <= transfer'.to - transfer'.from
    OBVIOUS
  <2> HIDE DEF at, given, bytes
  <2>1. given \in Nat
    BY <1>2, <1>3
  <2>2. transfer'.told = given \div SectorSize
    BY <1>5 DEF Files!Told, Files!CompleteSectorCount
  <2>3. (given \div SectorSize) * SectorSize <= given
    BY <2>1, FileConstants, SectorsWithin
  <2>4. transfer'.to - transfer'.from = given
    BY <1>4, <1>5, <2>1
  <2> QED
    BY <2>2, <2>3, <2>4
<1> HIDE DEF at, given, bytes
<1> QED
  BY <1>1, <1>3, <1>5, <1>6, <1>7, SectorsMove

LEMMA SectorsSeek ==
  ASSUME FileInv, SectorsKept, NEW fd, NEW offset \in Offsets, NEW whence \in {"set", "cur", "end"}, NEW async \in BOOLEAN,
         Files!Seek(fd, offset, whence, async)
  PROVE  SectorsKept'
<1> DEFINE logical == Files!Origin(fd, whence) + offset
           place == Files!Absolute(fd, logical)
           fits == logical >= 0 /\ place <= Limit
           h == host[files[fd]]
           at == IF fits THEN place ELSE IF fd \in sectors /\ whence = "end" THEN length[h.kind] ELSE h.at
<1>1. fd \in DOMAIN files /\ FilesKept /\ HostKept
  BY DEF Files!Seek, FileInv
<1>2. logical \in Int
  BY <1>1, OriginIs, FileConstants
<1>3. Files!Move(fd, at) /\ UNCHANGED <<files, sectors, length>> /\ transfer'.kind = "seek"
  BY DEF Files!Seek
<1>4. h.at \in 0..(2 * Limit) /\ length[h.kind] \in 0..(2 * Limit)
  <2>1. h \in HostFile
    BY <1>1 DEF FilesKept, HostKept
  <2> QED
    BY <1>1, <2>1, FileConstants DEF HostKept, HostFile
<1>5. fits => place \in 0..(2 * Limit)
  <2> HIDE DEF logical
  <2> QED
    BY <1>1, <1>2, SeekEnds
<1>6. fd \in sectors => place % SectorSize = 0 /\ h.kind = "disc" /\ OnSector(h.at)
  <2> SUFFICES ASSUME fd \in sectors PROVE place % SectorSize = 0 /\ h.kind = "disc" /\ OnSector(h.at)
    OBVIOUS
  <2> HIDE DEF logical
  <2>1. place = logical * SectorSize
    BY DEF Files!Absolute
  <2> HIDE DEF place
  <2> QED
    BY <1>2, <2>1, FileConstants, MultiplesAreWhole DEF SectorsKept
<1> HIDE DEF logical, place, h
<1>7. at \in 0..(2 * Limit)
  BY <1>4, <1>5
<1>8. fd \in sectors => OnSector(at)
  BY <1>6 DEF OnSector
<1> HIDE DEF at
<1> QED
  BY <1>1, <1>3, <1>7, <1>8, SectorsMove

\* Only files of the memory stick are written.
LEMMA SectorsWrite ==
  ASSUME FileInv, SectorsKept, NEW fd, NEW size \in ReadSizes, Files!Write(fd, size)
  PROVE  SectorsKept'
<1> DEFINE h == host[files[fd]]
<1>1. fd \in DOMAIN files /\ size \in Nat /\ FilesKept /\ HostKept
  BY FileConstants DEF Files!Write, FileInv
<1>2. /\ h.write /\ h.at + size <= Limit /\ Files!Move(fd, h.at + size)
      /\ length' = [length EXCEPT ![h.kind] = IF h.at + size > @ THEN h.at + size ELSE @]
      /\ UNCHANGED <<files, sectors, transfer>>
  BY DEF Files!Write, Files!tables, Files!fileHist
<1>3. h \in HostFile /\ files[fd] \in DOMAIN host
  BY <1>1 DEF FilesKept, HostKept
<1>4. h.kind # "disc"
  BY <1>2, <1>3 DEF SectorsKept
<1>5. length'["disc"] = length["disc"]
  BY <1>1, <1>2, <1>4 DEF HostKept, Kinds
<1>6. fd \notin sectors
  BY <1>4 DEF SectorsKept
<1>7. h.at + size \in 0..(2 * Limit)
  BY <1>1, <1>2, <1>3, FileConstants DEF HostFile
<1>8. transfer'.kind = "read" /\ transfer'.fd \in sectors =>
        transfer'.told * SectorSize <= transfer'.to - transfer'.from
  BY <1>2 DEF SectorsKept
<1> HIDE DEF h
<1> QED
  BY <1>1, <1>2, <1>5, <1>6, <1>7, <1>8, SectorsMove

LEMMA SectorsOpen ==
  ASSUME FileInv, SectorsKept, DiscIsReadOnly, NEW p \in Paths, NEW async \in BOOLEAN, Files!Open(p, async)
  PROVE  SectorsKept'
<1> DEFINE h == Files!HostDescriptor
           new == [kind |-> Files!Image(p), write |-> p.write,
                   at |-> IF p.kind = "raw" THEN Files!CompleteFileView(p).base ELSE 0]
<1>1. next \notin DOMAIN files /\ h \notin DOMAIN host /\ (transfer.kind # "none" => transfer.fd # next)
  BY FreshDescriptor DEF FileInv, FilesKept, TransferKept, Known
<1>2. /\ files' = Files!Put(files, next, h) /\ host' = Files!Put(host, h, new) /\ length' = length
      /\ transfer' = transfer
      /\ sectors' = IF p.kind = "whole" THEN sectors \cup {next} ELSE sectors
  BY DEF Files!Open, Files!NewDescriptor
<1>3. new.kind = "disc" => ~new.write
  BY DEF DiscIsReadOnly, Files!Image
<1>4. p.kind = "whole" => new.kind = "disc" /\ new.at = 0 /\ OnSector(0)
  <2>1. 0 % SectorSize = 0
    BY FileConstants
  <2> QED
    BY <2>1 DEF Files!Image, OnSector
<1> HIDE DEF h, new
<1>5. DOMAIN host' = DOMAIN host \cup {h} /\ host'[h] = new /\ \A x \in DOMAIN host : host'[x] = host[x]
  BY <1>1, <1>2 DEF Files!Put
<1>6. files'[next] = h /\ \A f \in DOMAIN files : files'[f] = files[f] /\ files[f] \in DOMAIN host
  BY <1>1, <1>2 DEF Files!Put, FileInv, FilesKept
<1>7. \A x \in DOMAIN host' : host'[x].kind = "disc" => ~host'[x].write
  BY <1>3, <1>5 DEF SectorsKept
<1>8. \A f \in sectors' : host'[files'[f]].kind = "disc" /\ OnSector(host'[files'[f]].at)
  BY <1>2, <1>4, <1>5, <1>6 DEF SectorsKept, FileInv, ViewsKept
<1>9. \A x : OnSector(x)' <=> OnSector(x)
  BY <1>2 DEF OnSector
<1>10. transfer'.kind = "read" /\ transfer'.fd \in sectors' =>
         transfer'.told * SectorSize <= transfer'.to - transfer'.from
  BY <1>1, <1>2 DEF SectorsKept
<1>11. \A f \in sectors' : host'[files'[f]].kind = "disc"
         /\ (host'[files'[f]].at % SectorSize = 0 \/ host'[files'[f]].at = length'["disc"])
  BY <1>8, <1>2 DEF OnSector
<1> QED
  BY <1>7, <1>10, <1>11 DEF SectorsKept, OnSector

LEMMA SectorsClose ==
  ASSUME FileInv, SectorsKept, NEW fd, Files!Close(fd) \/ Files!CloseAsync(fd)
  PROVE  SectorsKept'
<1>1. fd \in DOMAIN files /\ Files!Forget(fd) /\ length' = length /\ transfer' = transfer
  BY DEF Files!Close, Files!CloseAsync, Files!fileHist
<1>2. DOMAIN files' = DOMAIN files \ {fd} /\ \A f \in DOMAIN files : f # fd => files'[f] = files[f]
  BY <1>1, DropIs DEF Files!Forget
<1>3. DOMAIN host' = DOMAIN host \ {files[fd]} /\ \A h \in DOMAIN host : h # files[fd] => host'[h] = host[h]
  BY <1>1, DropIs DEF Files!Forget
<1>4. sectors' = sectors \ {fd}
  BY <1>1 DEF Files!Forget
<1>5. \A f \in sectors' : f \in sectors /\ files'[f] = files[f] /\ host'[files[f]] = host[files[f]]
  BY <1>1, <1>2, <1>3, <1>4 DEF FileInv, FilesKept, ViewsKept
<1>6. \A h \in DOMAIN host' : host'[h].kind = "disc" => ~host'[h].write
  BY <1>3 DEF SectorsKept
<1>7. \A f \in sectors' : host'[files'[f]].kind = "disc"
        /\ (host'[files'[f]].at % SectorSize = 0 \/ host'[files'[f]].at = length'["disc"])
  BY <1>1, <1>5 DEF SectorsKept, OnSector
<1> QED
  BY <1>1, <1>4, <1>6, <1>7 DEF SectorsKept, OnSector

LEMMA SectorsStep ==
  ASSUME FileInv, SectorsKept, DiscIsReadOnly, Files!FilesNext
  PROVE  SectorsKept'
<1>1. CASE \E p \in Paths, async \in BOOLEAN : Files!Open(p, async)
  BY <1>1, SectorsOpen
<1>2. CASE \E fd \in 3..next : Files!Close(fd) \/ Files!CloseAsync(fd)
  BY <1>2, SectorsClose
<1>3. CASE \E fd \in 3..next : Files!WaitAsync(fd) \/ Files!PollAsync(fd)
  BY <1>3, SectorsStay DEF Files!WaitAsync, Files!PollAsync, Files!fileVars, Files!tables, Files!disk, Files!fileHist
<1>4. CASE Files!Dopen \/ \E fd \in 3..next : Files!Dread(fd) \/ Files!Dclose(fd)
  BY <1>4, SectorsStay DEF Files!Dopen, Files!Dread, Files!Dclose, Files!disk, Files!fileHist
<1>5. CASE \E fd \in 3..next, size \in ReadSizes, async \in BOOLEAN : Files!Read(fd, size, async)
  BY <1>5, SectorsRead
<1>6. CASE \E fd \in 3..next, size \in ReadSizes : Files!Write(fd, size)
  BY <1>6, SectorsWrite
<1>7. CASE \E fd \in 3..next, offset \in Offsets, whence \in {"set", "cur", "end"}, async \in BOOLEAN :
             Files!Seek(fd, offset, whence, async)
  BY <1>7, SectorsSeek
<1>8. CASE \E d \in {"disc", "stick"} : Files!Chdir(d)
  BY <1>8, SectorsStay DEF Files!Chdir, Files!tables, Files!disk, Files!fileHist
<1> QED
  BY <1>1, <1>2, <1>3, <1>4, <1>5, <1>6, <1>7, <1>8 DEF Files!FilesNext

-----------------------------------------------------------------------------
(* The theorems *)

\* The invariant of the tables of descriptors, views, results and directories.
THEOREM FileInvariant == Spec => []FileInv
<1>1. Init => FileInv
  BY FilesInitially
<1>2. FileInv /\ [Next]_vars => FileInv'
  BY FilesOrNot, FileStep, FileStutter
<1> QED
  BY <1>1, <1>2, PTL DEF Spec

\* Whatever is opened, closed, sought, read, written and waited for, in any order
\* (the stubs of stubs/io over io_state.hpp): every host descriptor belongs to one
\* open file, nothing outside of a window is read, and a wait gets the result of
\* the latest operation of its descriptor, once.
DescriptorsApart ==
    /\ Files!FilesTypeOK /\ Files!TablesAgree /\ Files!ReadsWithinView /\ Files!ResultOfLatest

THEOREM DescriptorsKeptApart == Spec => []DescriptorsApart
<1>1. FileInv => Files!FilesTypeOK
  BY DEF FileInv, HostKept, HostFile, DirectoriesKept, Files!FilesTypeOK
<1>2. FileInv => Files!TablesAgree
  BY DEF FileInv, FilesKept, ViewsKept, DirectoriesKept, Files!TablesAgree, Files!Range
<1>3. FileInv => Files!ReadsWithinView /\ Files!ResultOfLatest
  BY DEF FileInv, TransferKept, ResultsKept, Files!ResultOfLatest
<1>4. FileInv => DescriptorsApart
  BY <1>1, <1>2, <1>3 DEF DescriptorsApart
<1> QED
  BY <1>4, FileInvariant, PTL

\* The same, and the disc is read by whole sectors, as long as no guest opens it
\* for writing (sceIoRead and sceIoLseek on umd0:, complete_sector_count).
THEOREM FilesAreSound ==
  ASSUME DiscIsReadOnly
  PROVE  Spec => []FilesSound
<1> DEFINE Inv == FileInv /\ SectorsKept
<1>1. Init => Inv
  <2> SUFFICES ASSUME Init PROVE SectorsKept
    BY FilesInitially
  <2>1. DOMAIN host = {} /\ sectors = {} /\ transfer.kind = "none"
    BY DEF Init, Files!FilesInit, Files!Nothing
  <2> QED
    BY <2>1 DEF SectorsKept
<1>2. Inv /\ [Next]_vars => Inv'
  <2> SUFFICES ASSUME Inv, [Next]_vars PROVE Inv'
    OBVIOUS
  <2>1. CASE Files!FilesNext
    BY <2>1, FileStep, SectorsStep
  <2>2. CASE UNCHANGED file
    BY <2>2, FileStutter, SectorsStay DEF file
  <2> QED
    BY <2>1, <2>2, FilesOrNot
<1>3. Inv => Files!WholeSectors
  BY DEF SectorsKept, OnSector, Files!WholeSectors
<1>4. Inv /\ DescriptorsApart => FilesSound
  BY <1>3 DEF DescriptorsApart, FilesSound
<1> QED
  BY <1>1, <1>2, <1>4, DescriptorsKeptApart, PTL DEF Spec
-----------------------------------------------------------------------------
(* ATRAC playback: the decoders and their tracks *)

\* A track read from a file, with its loop inside of it.
Track == [end : Nat, loop : {<<>>} \cup [1..2 -> Nat], skip : Nat, dataEnd : Nat, file : Nat, bad : SUBSET Nat]
Loops(t) == t.loop # <<>>
TrackKept(t) ==
    t # Atrac!NoTrack =>
      /\ t \in Track
      /\ Loops(t) => t.loop[1] \in Nat /\ t.loop[2] \in Nat /\ t.loop[1] <= t.loop[2] /\ t.loop[2] <= t.end

\* The fields of a decoder.
Decoder ==
    [track : {Atrac!NoTrack} \cup Track, buffer : Nat, size : Nat, cursor : Nat, samples : Nat, skip : Nat,
     loops : Int, finished : BOOLEAN, looping : BOOLEAN, writable : Nat, fresh : BOOLEAN, true : BOOLEAN]

LEMMA AtracConstants ==
  /\ Offset \in Nat /\ Align \in Nat \ {0} /\ FrameSamples \in Nat \ {0} /\ Delay \in Nat
  /\ LoopCounts \subseteq Int /\ AddSizes \subseteq Nat /\ BufferSizes \subseteq Nat
  /\ RiffFiles \subseteq [fact : Nat, first : Nat, loop : {<<>>} \cup [1..2 -> Nat], bytes : Nat, size : Nat,
                          bad : SUBSET Nat]
  BY ServicesAssumption DEF ServicesAssumption, Atrac!AtracAssumption

LEMMA ParseIs ==
  ASSUME NEW f \in RiffFiles, Atrac!Parse(f) # Atrac!NoTrack
  PROVE  Atrac!Parse(f) \in Track /\ TrackKept(Atrac!Parse(f))
<1> DEFINE loop == Atrac!LoopPoints(f)
           end == Atrac!EndSample(f)
           t == [end |-> end, loop |-> loop, skip |-> f.first + Delay, dataEnd |-> Offset + f.bytes,
                 file |-> f.size, bad |-> f.bad]
<1>1. /\ f.fact \in Nat /\ f.first \in Nat /\ f.bytes \in Nat /\ f.size \in Nat /\ f.bad \subseteq Nat
      /\ f.loop \in {<<>>} \cup [1..2 -> Nat]
  BY AtracConstants
<1>2. end \in Nat
  <2>1. f.bytes \div Align \in Nat
    BY <1>1, AtracConstants
  <2>2. (f.bytes \div Align) * FrameSamples \in Nat
    BY <2>1, AtracConstants
  <2> QED
    BY <1>1, <2>2 DEF Atrac!EndSample
<1>3. loop = <<>> \/ loop \in [1..2 -> Int]
  <2>1. CASE f.loop = <<>>
    BY <2>1 DEF Atrac!LoopPoints
  <2>2. CASE f.loop \in [1..2 -> Nat]
    BY <1>1, <2>2 DEF Atrac!LoopPoints
  <2> QED
    BY <1>1, <2>1, <2>2
<1>4. /\ Atrac!Parse(f) = t
      /\ loop # <<>> => 0 <= loop[1] /\ loop[1] <= loop[2] /\ loop[2] <= end
  BY DEF Atrac!Parse, Atrac!NoLoop
<1>5. loop \in {<<>>} \cup [1..2 -> Nat] /\ (loop # <<>> => loop[1] \in Nat /\ loop[2] \in Nat)
  BY <1>2, <1>3, <1>4
<1>6. t \in Track
  <2> HIDE DEF loop, end
  <2> QED
    BY <1>1, <1>2, <1>5, AtracConstants DEF Track
<1> HIDE DEF loop, end
<1> QED
  BY <1>4, <1>5, <1>6 DEF TrackKept, Loops

\* What dividing says of a number.
LEMMA QuotientAndRest ==
  ASSUME NEW c \in Nat \ {0}, NEW x \in Nat
  PROVE  x \div c \in Nat /\ x % c \in Nat /\ x % c < c /\ x = (x \div c) * c + (x % c)
  OBVIOUS

LEMMA TimesAlign ==
  ASSUME NEW n \in Nat, NEW c \in Nat
  PROVE  n * c \in Nat
  OBVIOUS

\* The data cursor stands at a frame, and the counter of samples says which.
AtFrame(d, n) ==
    /\ d.cursor = Offset + n * Align
    /\ d.true /\ d.samples <= d.track.end /\ ~d.looping => d.track.skip + d.samples = n * FrameSamples + d.skip
Placed(d) == \E n \in Nat : AtFrame(d, n)
Standing(d) == \E n \in Nat : d.cursor = Offset + n * Align

\* A window that was offered stays free.
Window(d) ==
    d.fresh /\ d.writable > 0 =>
      /\ d.size + d.writable <= d.track.file
      /\ d.buffer \in Nat \ {0} /\ (d.size % d.buffer) + d.writable <= d.buffer
      /\ d.size + d.writable <= d.buffer + d.cursor

\* A later state of a decoder, with the same stream.
Kept(e, d) ==
    e \in Decoder /\ e.track = d.track /\ e.buffer = d.buffer /\ e.size = d.size /\ e.writable = d.writable

\* A decoder with a track.
Loaded(d) == d \in Decoder /\ d.track \in Track /\ TrackKept(d.track)

LEMMA LoadedTyped ==
  ASSUME NEW d, Loaded(d)
  PROVE  /\ d.track.end \in Nat /\ d.track.skip \in Nat /\ d.track.dataEnd \in Nat /\ d.track.file \in Nat
         /\ d.track \in Track
         /\ d.buffer \in Nat /\ d.size \in Nat /\ d.cursor \in Nat /\ d.samples \in Nat /\ d.skip \in Nat
         /\ d.loops \in Int /\ d.writable \in Nat
         /\ d.track # Atrac!NoTrack
         /\ Loops(d.track) => d.track.loop[1] \in Nat /\ d.track.loop[2] \in Nat
                              /\ d.track.loop[1] <= d.track.loop[2] /\ d.track.loop[2] <= d.track.end
<1>1. d.track \in Track /\ d.track.end \in Nat
  BY DEF Loaded, Track
<1>2. d.track # Atrac!NoTrack
  <2>1. Atrac!NoTrack.end = -1
    BY DEF Atrac!NoTrack
  <2> QED
    BY <1>1, <2>1
<1>3. d.track.skip \in Nat /\ d.track.dataEnd \in Nat /\ d.track.file \in Nat
  BY <1>1 DEF Track
<1>4. /\ d.buffer \in Nat /\ d.size \in Nat /\ d.cursor \in Nat /\ d.samples \in Nat /\ d.skip \in Nat
      /\ d.loops \in Int /\ d.writable \in Nat
  BY DEF Loaded, Decoder
<1> QED
  BY <1>1, <1>2, <1>3, <1>4 DEF Loaded, TrackKept

LEMMA RewoundIs ==
  ASSUME NEW d, Loaded(d)
  PROVE  LET e == Atrac!Rewound(d)
         IN  /\ Kept(e, d) /\ Loaded(e) /\ e.loops = d.loops /\ (e.looping <=> d.looping)
             /\ e.samples = 0 /\ ~e.fresh /\ Placed(e)
<1> DEFINE e == Atrac!Rewound(d)
<1>1. d.track.skip \in Nat /\ d.track.end \in Nat
  BY LoadedTyped
<1>2. e = [d EXCEPT !.cursor = Offset, !.samples = 0, !.skip = d.track.skip, !.finished = FALSE, !.true = TRUE,
                    !.fresh = FALSE]
  BY DEF Atrac!Rewound
<1> HIDE DEF e
<1>3. e \in Decoder
  <2>1. Offset \in Nat /\ d \in Decoder
    BY AtracConstants DEF Loaded
  <2> QED
    BY <1>1, <1>2, <2>1 DEF Decoder
<1>4. /\ e.track = d.track /\ e.buffer = d.buffer /\ e.size = d.size /\ e.writable = d.writable /\ e.loops = d.loops
      /\ e.cursor = Offset /\ e.samples = 0 /\ e.skip = d.track.skip
  BY <1>2 DEF Loaded, Decoder
<1>5. (e.looping <=> d.looping) /\ ~e.fresh
  BY <1>2 DEF Loaded, Decoder
<1>6. AtFrame(e, 0)
  BY <1>1, <1>4, AtracConstants DEF AtFrame
<1> QED
  BY <1>3, <1>4, <1>5, <1>6 DEF Kept, Loaded, Placed, e

LEMMA SoughtIs ==
  ASSUME NEW d, Loaded(d), NEW sample \in Nat, Atrac!CanSeek(d, sample)
  PROVE  LET e == Atrac!Sought(d, sample)
         IN  /\ Kept(e, d) /\ Loaded(e) /\ e.loops = d.loops /\ (e.looping <=> d.looping)
             /\ e.samples = sample /\ sample <= d.track.end /\ ~e.fresh /\ Placed(e)
<1> DEFINE e == Atrac!Sought(d, sample)
           to == d.track.skip + sample
           n == to \div FrameSamples
<1>1. d.track.skip \in Nat /\ d.track.end \in Nat /\ to \in Nat
  BY LoadedTyped
<1>2. n \in Nat /\ to % FrameSamples \in Nat /\ to = n * FrameSamples + (to % FrameSamples)
  <2> HIDE DEF to
  <2> QED
    BY <1>1, AtracConstants, QuotientAndRest
<1>3. Offset + n * Align \in Nat
  <2>1. n * Align \in Nat
    <3> HIDE DEF n
    <3> QED
      BY <1>2, AtracConstants, TimesAlign
  <2> QED
    BY <2>1, AtracConstants
<1>4. e = [d EXCEPT !.cursor = Offset + n * Align, !.samples = sample, !.skip = to % FrameSamples, !.finished = FALSE,
                    !.true = TRUE, !.fresh = FALSE]
  BY DEF Atrac!Sought, Atrac!FrameOf
<1> HIDE DEF n, to, e
<1>5. e \in Decoder
  BY <1>2, <1>3, <1>4 DEF Loaded, Decoder
<1>6. /\ e.track = d.track /\ e.buffer = d.buffer /\ e.size = d.size /\ e.writable = d.writable /\ e.loops = d.loops
      /\ e.cursor = Offset + n * Align /\ e.samples = sample /\ e.skip = to % FrameSamples
  BY <1>4 DEF Loaded, Decoder
<1>7. (e.looping <=> d.looping) /\ ~e.fresh
  BY <1>4 DEF Loaded, Decoder
<1>8. to = d.track.skip + sample
  BY DEF to
<1>9. AtFrame(e, n)
  BY <1>2, <1>6, <1>8 DEF AtFrame
<1>10. sample <= d.track.end
  BY DEF Atrac!CanSeek
<1>11. Kept(e, d) /\ Loaded(e)
  BY <1>5, <1>6 DEF Kept, Loaded
<1>12. Placed(e)
  BY <1>2, <1>9 DEF Placed
<1> QED
  BY <1>6, <1>7, <1>10, <1>11, <1>12 DEF e

LEMMA CountedDownIs ==
  ASSUME NEW d, Loaded(d)
  PROVE  LET e == Atrac!CountedDown(d)
         IN  /\ Kept(e, d) /\ Loaded(e) /\ (e.looping <=> d.looping) /\ e.samples = d.samples /\ e.skip = d.skip
             /\ (e.fresh <=> d.fresh) /\ (Placed(d) => Placed(e))
<1> DEFINE e == Atrac!CountedDown(d)
           l == IF d.loops > 0 THEN d.loops - 1 ELSE d.loops
<1>1. e = [d EXCEPT !.loops = l]
  BY DEF Atrac!CountedDown
<1>2. l \in Int
  BY LoadedTyped
<1> HIDE DEF l, e
<1>3. e \in Decoder
  BY <1>1, <1>2 DEF Loaded, Decoder
<1>4. /\ e.track = d.track /\ e.buffer = d.buffer /\ e.size = d.size /\ e.writable = d.writable
      /\ e.cursor = d.cursor /\ e.samples = d.samples /\ e.skip = d.skip
  BY <1>1 DEF Loaded, Decoder
<1>5. (e.looping <=> d.looping) /\ (e.fresh <=> d.fresh) /\ (e.true <=> d.true)
  BY <1>1 DEF Loaded, Decoder
<1>6. Placed(d) => Placed(e)
  BY <1>4, <1>5 DEF Placed, AtFrame
<1>7. Kept(e, d) /\ Loaded(e)
  BY <1>3, <1>4 DEF Kept, Loaded
<1> QED
  BY <1>4, <1>5, <1>6, <1>7 DEF e

\* Back at the start of the loop, or waiting for it.
LEMMA LoopedIs ==
  ASSUME NEW d, Loaded(d), Loops(d.track), Standing(d)
  PROVE  LET e == Atrac!Looped(d)
         IN  /\ Kept(e, d) /\ Loaded(e) /\ Placed(e)
             /\ Atrac!CanSeek(d, d.track.loop[1]) => ~e.looping /\ e.samples = d.track.loop[1] /\ ~e.fresh
             /\ ~Atrac!CanSeek(d, d.track.loop[1]) => e.looping /\ e.cursor = d.cursor /\ (e.fresh <=> d.fresh)
<1> DEFINE s == d.track.loop[1]
<1>1. s \in Nat
  BY LoadedTyped
<1>2. CASE Atrac!CanSeek(d, s)
  <2> DEFINE a == Atrac!Sought(d, s)
             b == [a EXCEPT !.looping = FALSE]
             e == Atrac!CountedDown(b)
  <2>1. Kept(a, d) /\ Loaded(a) /\ a.samples = s /\ s <= d.track.end /\ ~a.fresh
    BY <1>1, <1>2, SoughtIs
  <2>2. b \in Decoder /\ b.track = a.track /\ b.buffer = a.buffer /\ b.size = a.size /\ b.writable = a.writable
        /\ b.samples = a.samples /\ b.cursor = a.cursor /\ b.skip = a.skip /\ ~b.looping
    BY <2>1 DEF Loaded, Decoder
  <2>3. ~b.fresh
    BY <2>1 DEF Loaded, Decoder
  <2>4. Placed(b)
    <3> DEFINE to == d.track.skip + s
               n == to \div FrameSamples
    <3>1. to \in Nat
      BY <1>1, LoadedTyped
    <3>2. n \in Nat /\ to = n * FrameSamples + (to % FrameSamples)
      <4> HIDE DEF to
      <4> QED
        BY <3>1, AtracConstants, QuotientAndRest
    <3>3. b.cursor = Offset + n * Align /\ b.skip = to % FrameSamples /\ b.samples = s /\ b.track = d.track
      <4>1. a = [d EXCEPT !.cursor = Offset + n * Align, !.samples = s, !.skip = to % FrameSamples, !.finished = FALSE,
                          !.true = TRUE, !.fresh = FALSE]
        BY DEF Atrac!Sought, Atrac!FrameOf
      <4> HIDE DEF n, to, s, a, b
      <4>2. a.cursor = Offset + n * Align /\ a.skip = to % FrameSamples
        BY <4>1 DEF Loaded, Decoder
      <4> QED
        BY <2>1, <2>2, <4>2 DEF Kept
    <3>4. AtFrame(b, n)
      BY <3>2, <3>3 DEF AtFrame
    <3> QED
      BY <3>2, <3>4 DEF Placed
  <2>5. Loaded(b) /\ Kept(b, d)
    BY <2>1, <2>2 DEF Loaded, Kept
  <2>6. Atrac!Looped(d) = e
    BY <1>2 DEF Atrac!Looped
  <2> HIDE DEF b
  <2>7. Kept(e, b) /\ Loaded(e) /\ (e.looping <=> b.looping) /\ e.samples = b.samples /\ (e.fresh <=> b.fresh) /\ Placed(e)
    BY <2>4, <2>5, CountedDownIs
  <2> HIDE DEF e
  <2>8. Kept(e, d)
    BY <2>5, <2>7 DEF Kept
  <2> QED
    BY <1>2, <2>1, <2>2, <2>3, <2>6, <2>7, <2>8
<1>3. CASE ~Atrac!CanSeek(d, s)
  <2> DEFINE e == [d EXCEPT !.looping = TRUE]
  <2>1. Atrac!Looped(d) = e
    BY <1>3 DEF Atrac!Looped
  <2>2. e \in Decoder /\ e.track = d.track /\ e.buffer = d.buffer /\ e.size = d.size /\ e.writable = d.writable
        /\ e.samples = d.samples /\ e.cursor = d.cursor /\ e.looping
    BY DEF Loaded, Decoder
  <2>3. e.fresh <=> d.fresh
    BY DEF Loaded, Decoder
  <2> HIDE DEF e
  <2>4. Placed(e)
    BY <2>2 DEF Placed, AtFrame, Standing
  <2>5. Kept(e, d) /\ Loaded(e)
    BY <2>2 DEF Kept, Loaded
  <2> QED
    BY <1>3, <2>1, <2>2, <2>3, <2>4, <2>5
<1> QED
  BY <1>2, <1>3

-----------------------------------------------------------------------------
(* Where a decode starts *)

\* What the checks before a decode, PendingLoop and AgainIf, come to.
Starting(r, d) ==
    /\ \E e \in Decoder, s \in {"go", "no_data", "all_decoded"} : r = [d |-> e, status |-> s]
    /\ Loaded(r.d) /\ Kept(r.d, d) /\ Placed(r.d) /\ Window(r.d)
    /\ r.status = "go" =>
         /\ ~r.d.looping
         /\ r.d = d \/ r.d.samples = 0 \/ (Loops(d.track) /\ r.d.samples = d.track.loop[1])

\* What a decode needs to know of the decoder it starts from.
Sound(d) == Loaded(d) /\ Placed(d) /\ Window(d)

LEMMA WindowStays ==
  ASSUME NEW d, NEW e, Loaded(d), Loaded(e), Window(d), Kept(e, d), ~e.fresh \/ ((e.fresh <=> d.fresh) /\ e.cursor >= d.cursor)
  PROVE  Window(e)
<1>1. CASE ~e.fresh
  BY <1>1 DEF Window
<1>2. CASE (e.fresh <=> d.fresh) /\ e.cursor >= d.cursor
  BY <1>2, LoadedTyped DEF Window, Kept
<1> QED
  BY <1>1, <1>2

LEMMA StartingIs ==
  ASSUME NEW d, NEW e, NEW s \in {"go", "no_data", "all_decoded"},
         Loaded(e), Kept(e, d), Placed(e), Window(e),
         s = "go" => ~e.looping /\ (e = d \/ e.samples = 0 \/ (Loops(d.track) /\ e.samples = d.track.loop[1]))
  PROVE  Starting([d |-> e, status |-> s], d)
<1> DEFINE r == [d |-> e, status |-> s]
<1>1. r.d = e /\ r.status = s
  OBVIOUS
<1>2. e \in Decoder
  BY DEF Kept
<1>3. \E x \in Decoder, y \in {"go", "no_data", "all_decoded"} : r = [d |-> x, status |-> y]
  BY <1>2
<1> HIDE DEF r
<1>4. Starting(r, d)
  BY <1>1, <1>3 DEF Starting
<1> QED
  BY <1>4 DEF r

LEMMA PendingLoopIs ==
  ASSUME NEW d, Sound(d)
  PROVE  Starting(Atrac!PendingLoop(d), d)
<1> DEFINE r == Atrac!PendingLoop(d)
           e == Atrac!Looped(d)
<1>0. d \in Decoder /\ Kept(d, d)
  BY DEF Sound, Loaded, Kept
<1>1. CASE ~d.looping
  <2>1. r = [d |-> d, status |-> "go"]
    BY <1>1 DEF Atrac!PendingLoop
  <2> HIDE DEF r
  <2> QED
    BY <1>0, <1>1, <2>1, StartingIs DEF Sound, r
<1>2. CASE d.looping /\ Loops(d.track) /\ Atrac!CanSeek(d, d.track.loop[1])
  <2>1. r = [d |-> e, status |-> "go"]
    BY <1>2 DEF Atrac!PendingLoop, Loops, Atrac!NoLoop
  <2>2. Kept(e, d) /\ Loaded(e) /\ Placed(e) /\ ~e.looping /\ e.samples = d.track.loop[1] /\ ~e.fresh
    <3>1. Standing(d)
      BY DEF Sound, Placed, AtFrame, Standing
    <3> QED
      BY <1>2, <3>1, LoopedIs DEF Sound
  <2>3. Window(e)
    BY <2>2 DEF Window
  <2> HIDE DEF e, r
  <2> QED
    BY <1>2, <2>1, <2>2, <2>3, StartingIs DEF r
<1>3. CASE d.looping /\ ~(Loops(d.track) /\ Atrac!CanSeek(d, d.track.loop[1]))
  <2>1. r = [d |-> d, status |-> "no_data"]
    BY <1>3 DEF Atrac!PendingLoop, Loops, Atrac!NoLoop
  <2> HIDE DEF r
  <2> QED
    BY <1>0, <2>1, StartingIs DEF Sound, r
<1> QED
  BY <1>1, <1>2, <1>3

\* A track that is over starts again or is finished.
Again(r) ==
    IF r.d.loops # 0 THEN [r EXCEPT !.d = Atrac!CountedDown(Atrac!Rewound(r.d))]
    ELSE [d |-> [r.d EXCEPT !.finished = TRUE], status |-> "all_decoded"]

LEMMA AgainIs ==
  ASSUME NEW d, Sound(d), NEW r, Starting(r, d), r.status = "go"
  PROVE  LET t == Again(r)
         IN  Starting(t, d) /\ (t.status = "go" => t.d.samples = 0)
<1> DEFINE t == Again(r)
<1>0. r = [d |-> r.d, status |-> "go"] /\ Loaded(r.d) /\ Kept(r.d, d)
  BY DEF Starting
<1>1. CASE r.d.loops # 0
  <2> DEFINE a == Atrac!Rewound(r.d)
             e == Atrac!CountedDown(a)
  <2>1. t = [d |-> e, status |-> "go"]
    BY <1>0, <1>1 DEF Again
  <2>2. Kept(a, r.d) /\ Loaded(a) /\ (a.looping <=> r.d.looping) /\ a.samples = 0 /\ ~a.fresh /\ Placed(a)
    BY <1>0, RewoundIs
  <2>3. Kept(e, a) /\ Loaded(e) /\ (e.looping <=> a.looping) /\ e.samples = 0 /\ ~e.fresh /\ Placed(e)
    <3> HIDE DEF a
    <3> QED
      BY <2>2, CountedDownIs
  <2>4. ~e.looping
    BY <2>2, <2>3 DEF Starting
  <2>5. Window(e)
    BY <2>3 DEF Window
  <2>6. Kept(e, d)
    <3> HIDE DEF a, e
    <3> QED
      BY <1>0, <2>2, <2>3 DEF Kept
  <2> HIDE DEF a, e
  <2> QED
    <3>1. Starting([d |-> e, status |-> "go"], d)
      BY <2>3, <2>4, <2>5, <2>6, StartingIs
    <3>2. t.d = e
      BY <2>1
    <3> QED
      BY <2>1, <2>3, <3>1, <3>2
<1>2. CASE r.d.loops = 0
  <2> DEFINE e == [r.d EXCEPT !.finished = TRUE]
  <2>1. t = [d |-> e, status |-> "all_decoded"]
    BY <1>0, <1>2 DEF Again
  <2>2. e \in Decoder /\ e.track = r.d.track /\ e.buffer = r.d.buffer /\ e.size = r.d.size /\ e.writable = r.d.writable
        /\ e.samples = r.d.samples /\ e.cursor = r.d.cursor /\ e.skip = r.d.skip
    BY <1>0 DEF Loaded, Decoder
  <2>3. (e.fresh <=> r.d.fresh) /\ (e.looping <=> r.d.looping) /\ (e.true <=> r.d.true)
    BY <1>0 DEF Loaded, Decoder
  <2> HIDE DEF e
  <2>4. Loaded(e) /\ Kept(e, r.d) /\ Kept(e, d)
    BY <1>0, <2>2 DEF Loaded, Kept
  <2>5. Placed(e)
    BY <2>2, <2>3 DEF Starting, Placed, AtFrame
  <2>6. Window(e)
    BY <2>2, <2>3 DEF Starting, Window
  <2>7. Starting([d |-> e, status |-> "all_decoded"], d)
    BY <2>4, <2>5, <2>6, StartingIs
  <2>8. t.status = "all_decoded"
    BY <2>1
  <2> QED
    BY <2>1, <2>7, <2>8
<1> QED
  BY <1>0, <1>1, <1>2

LEMMA ReadyIs ==
  ASSUME NEW d, Sound(d)
  PROVE  LET r == Atrac!Ready(d)
         IN  Starting(r, d) /\ (r.status = "go" => r.d.samples <= d.track.end)
<1> DEFINE r == Atrac!Ready(d)
           a == Atrac!PendingLoop(d)
           b == Atrac!AgainIf(a.d.samples > a.d.track.end, a)
           c == Atrac!AgainIf(Atrac!NeedsData(b.d), b)
<1>1. Starting(a, d)
  BY PendingLoopIs
<1>2. d.track.end \in Nat
  BY LoadedTyped DEF Sound
<1>3. Starting(b, d) /\ (b.status = "go" => b.d.samples <= d.track.end)
  <2>1. CASE a.status = "go" /\ a.d.samples > a.d.track.end
    <3>1. b = Again(a)
      BY <2>1 DEF Atrac!AgainIf, Again
    <3> HIDE DEF a, b
    <3>2. Starting(b, d) /\ (b.status = "go" => b.d.samples = 0)
      BY <1>1, <2>1, <3>1, AgainIs
    <3> QED
      BY <1>2, <3>2
  <2>2. CASE ~(a.status = "go" /\ a.d.samples > a.d.track.end)
    <3>1. b = a
      BY <2>2 DEF Atrac!AgainIf
    <3> HIDE DEF a, b
    <3>2. a.d.track = d.track /\ a.d.samples \in Nat
      BY <1>1, LoadedTyped DEF Starting, Kept
    <3> QED
      BY <1>1, <1>2, <2>2, <3>1, <3>2
  <2> QED
    BY <2>1, <2>2
<1>4. Starting(c, d) /\ (c.status = "go" => c.d.samples <= d.track.end)
  <2>1. CASE b.status = "go" /\ Atrac!NeedsData(b.d)
    <3>1. c = Again(b)
      BY <2>1 DEF Atrac!AgainIf, Again
    <3> HIDE DEF b, c
    <3>2. Starting(c, d) /\ (c.status = "go" => c.d.samples = 0)
      BY <1>3, <2>1, <3>1, AgainIs
    <3> QED
      BY <1>2, <3>2
  <2>2. CASE ~(b.status = "go" /\ Atrac!NeedsData(b.d))
    <3>1. c = b
      BY <2>2 DEF Atrac!AgainIf
    <3> QED
      BY <1>3, <3>1
  <2> QED
    BY <2>1, <2>2
<1>5. ASSUME NEW s, Starting(s, d)
      PROVE  LET u == [s EXCEPT !.status = "no_data"] IN Starting(u, d) /\ u.status # "go"
  <2> DEFINE u == [s EXCEPT !.status = "no_data"]
  <2>1. u = [d |-> s.d, status |-> "no_data"] /\ s.d \in Decoder
    BY <1>5 DEF Starting
  <2> HIDE DEF u
  <2> QED
    BY <1>5, <2>1 DEF Starting
<1>6. r \in {b, c, [b EXCEPT !.status = "no_data"], [c EXCEPT !.status = "no_data"]}
  BY DEF Atrac!Ready
<1> HIDE DEF a, b, c, r
<1> QED
  BY <1>3, <1>4, <1>5, <1>6 DEF r

-----------------------------------------------------------------------------
(* What a decode does *)

LEMMA FrameNumber ==
  ASSUME NEW n \in Nat, NEW c \in Nat \ {0}
  PROVE  (n * c) \div c = n
  OBVIOUS

\* Output as Limited sees it: the frame, the track or the loop ends it.
LEMMA OutputIs ==
  ASSUME NEW d, Loaded(d), d.samples <= d.track.end
  PROVE  LET given == Atrac!Output(d)
             whole == FrameSamples - Atrac!Skipped(d)
             rest == d.track.end + 1 - d.samples
         IN  /\ given \in Nat /\ given <= whole /\ given <= rest
             /\ Atrac!LoopActive(d) /\ d.samples <= d.track.loop[2] => given <= d.track.loop[2] + 1 - d.samples
             /\ given = whole \/ given = rest
                \/ (Atrac!LoopActive(d) /\ d.samples <= d.track.loop[2] /\ given = d.track.loop[2] + 1 - d.samples)
             /\ Atrac!Skipped(d) \in Nat /\ Atrac!Skipped(d) <= d.skip
<1> DEFINE whole == FrameSamples - Atrac!Skipped(d)
           rest == d.track.end + 1 - d.samples
           most == Atrac!Least(whole, rest)
<1>1. d.track.end \in Nat /\ d.samples \in Nat /\ d.skip \in Nat
  BY LoadedTyped
<1>2. Atrac!Skipped(d) \in Nat /\ Atrac!Skipped(d) <= d.skip /\ Atrac!Skipped(d) <= FrameSamples
  BY <1>1, AtracConstants DEF Atrac!Skipped, Atrac!Least
<1>3. whole \in Nat /\ rest \in Nat /\ Atrac!Remaining(d) = rest
  BY <1>1, <1>2, AtracConstants DEF Atrac!Remaining
<1> HIDE DEF whole, rest
<1>4. most \in Nat /\ most <= whole /\ most <= rest /\ (most = whole \/ most = rest)
  BY <1>3 DEF Atrac!Least
<1>5. Atrac!Output(d) = Atrac!Limited(d, most)
  BY <1>3 DEF Atrac!Output, whole
<1> HIDE DEF most
<1>6. CASE Atrac!LoopActive(d) /\ d.samples <= d.track.loop[2]
  <2>1. d.track.loop[2] \in Nat
    BY <1>6, LoadedTyped DEF Atrac!LoopActive, Atrac!NoLoop, Loops
  <2> DEFINE left == d.track.loop[2] + 1 - d.samples
  <2>2. left \in Nat
    BY <1>1, <1>6, <2>1
  <2>3. Atrac!Output(d) = Atrac!Least(most, left)
    BY <1>1, <1>5, <1>6, <2>1 DEF Atrac!Limited
  <2> HIDE DEF left
  <2>4. /\ Atrac!Output(d) \in Nat /\ Atrac!Output(d) <= most /\ Atrac!Output(d) <= left
        /\ Atrac!Output(d) = most \/ Atrac!Output(d) = left
    BY <1>4, <2>2, <2>3 DEF Atrac!Least
  <2>5. Atrac!Output(d) <= whole /\ Atrac!Output(d) <= rest
    BY <1>3, <1>4, <2>4
  <2> QED
    BY <1>2, <1>4, <1>6, <2>4, <2>5 DEF left, whole, rest
<1>7. CASE ~(Atrac!LoopActive(d) /\ d.samples <= d.track.loop[2])
  <2>1. Atrac!Output(d) = most
    <3>1. CASE ~Atrac!LoopActive(d)
      BY <1>5, <3>1 DEF Atrac!Limited
    <3>2. CASE Atrac!LoopActive(d)
      <4>1. d.track.loop[2] \in Nat
        BY <3>2, LoadedTyped DEF Atrac!LoopActive, Atrac!NoLoop, Loops
      <4>2. d.samples > d.track.loop[2]
        BY <1>1, <1>7, <3>2, <4>1
      <4> QED
        BY <1>5, <4>2 DEF Atrac!Limited
    <3> QED
      BY <3>1, <3>2
  <2> QED
    BY <1>2, <1>4, <1>7, <2>1 DEF whole, rest
<1> QED
  BY <1>6, <1>7

\* What sceAtracGetNextSample promises is what the decode will give.
LEMMA PromiseIs ==
  ASSUME NEW d, NEW e, Loaded(d), Loaded(e), e.track = d.track, e.samples = d.samples, e.skip = d.skip,
         e.loops = d.loops
  PROVE  Atrac!NextSamples(d) = Atrac!Output(e)
<1>1. d.skip \in Nat
  BY LoadedTyped
<1>2. Atrac!FrameLeft(d) = FrameSamples - Atrac!Skipped(e)
  BY <1>1, AtracConstants DEF Atrac!FrameLeft, Atrac!Skipped, Atrac!Least
<1>3. Atrac!Remaining(d) = Atrac!Remaining(e)
  BY DEF Atrac!Remaining
<1>4. Atrac!LoopActive(d) <=> Atrac!LoopActive(e)
  BY DEF Atrac!LoopActive
<1> DEFINE m == Atrac!Least(Atrac!FrameLeft(d), Atrac!Remaining(d))
<1>5. Atrac!NextSamples(d) = Atrac!Limited(d, m) /\ Atrac!Output(e) = Atrac!Limited(e, m)
  BY <1>2, <1>3 DEF Atrac!NextSamples, Atrac!Output
<1> HIDE DEF m
<1>6. Atrac!Limited(d, m) = Atrac!Limited(e, m)
  BY <1>4 DEF Atrac!Limited
<1> QED
  BY <1>5, <1>6

\* The samples given are counted, and the loop is closed behind its end.
LEMMA AdvancedIs ==
  ASSUME NEW d, Loaded(d), NEW count \in Nat, NEW n \in Nat, d.cursor = Offset + n * Align,
         \/ d.track.end < d.samples + count
         \/ Atrac!LoopActive(d) /\ d.samples + count > d.track.loop[2]
         \/ d.track.skip + d.samples + count = n * FrameSamples + d.skip
         \/ ~d.true
  PROVE  LET e == Atrac!Advanced(d, count)
         IN  Kept(e, d) /\ Loaded(e) /\ Placed(e)
             /\ (~e.fresh \/ ((e.fresh <=> d.fresh) /\ e.cursor = d.cursor))
<1> DEFINE e == [d EXCEPT !.samples = d.samples + count]
<1>1. d.samples \in Nat /\ d.samples + count \in Nat /\ d.track.end \in Nat /\ d.track.skip \in Nat /\ d.skip \in Nat
  BY LoadedTyped
<1>2. e \in Decoder
  BY <1>1 DEF Loaded, Decoder
<1>3. /\ e.track = d.track /\ e.buffer = d.buffer /\ e.size = d.size /\ e.writable = d.writable
      /\ e.samples = d.samples + count /\ e.cursor = d.cursor /\ e.skip = d.skip /\ e.loops = d.loops
  BY DEF Loaded, Decoder
<1>4. (e.fresh <=> d.fresh) /\ (e.true <=> d.true)
  BY DEF Loaded, Decoder
<1>5. Atrac!Advanced(d, count)
        = IF Atrac!LoopActive(e) /\ e.samples > e.track.loop[2] THEN Atrac!Looped(e) ELSE e
  BY DEF Atrac!Advanced
<1> HIDE DEF e
<1>6. Kept(e, d) /\ Loaded(e) /\ Standing(e)
  BY <1>2, <1>3 DEF Kept, Loaded, Standing
<1>7. Atrac!LoopActive(e) <=> Atrac!LoopActive(d)
  BY <1>3 DEF Atrac!LoopActive
<1>8. CASE Atrac!LoopActive(e) /\ e.samples > e.track.loop[2]
  <2> DEFINE l == Atrac!Looped(e)
  <2>1. Loops(e.track)
    BY <1>8 DEF Atrac!LoopActive, Loops, Atrac!NoLoop
  <2>2. Kept(l, e) /\ Loaded(l) /\ Placed(l) /\ (~l.fresh \/ ((l.fresh <=> e.fresh) /\ l.cursor = e.cursor))
    BY <1>6, <2>1, LoopedIs
  <2>3. Atrac!Advanced(d, count) = l
    BY <1>5, <1>8
  <2> HIDE DEF l
  <2>4. Kept(l, d)
    BY <1>6, <2>2 DEF Kept
  <2> QED
    BY <1>3, <1>4, <2>2, <2>3, <2>4
<1>9. CASE ~(Atrac!LoopActive(e) /\ e.samples > e.track.loop[2])
  <2>1. Atrac!Advanced(d, count) = e
    BY <1>5, <1>9
  <2>2. e.true /\ e.samples <= e.track.end /\ ~e.looping => e.track.skip + e.samples = n * FrameSamples + e.skip
    <3>1. ~(Atrac!LoopActive(d) /\ d.samples + count > d.track.loop[2])
      BY <1>3, <1>7, <1>9
    <3>2. e.samples <= e.track.end => ~(d.track.end < d.samples + count)
      BY <1>1, <1>3
    <3> DEFINE place == n * FrameSamples
    <3>3. d.track.skip + d.samples + count = place + d.skip => e.track.skip + e.samples = place + e.skip
      BY <1>1, <1>3
    <3> QED
      BY <1>4, <3>1, <3>2, <3>3
  <2>3. Placed(e)
    BY <1>3, <2>2 DEF Placed, AtFrame
  <2> QED
    BY <1>3, <1>4, <1>6, <2>1, <2>3
<1> QED
  BY <1>8, <1>9

\* The frame at the cursor is behind the decoder, whatever comes of it.
Passed(d) == [d EXCEPT !.cursor = d.cursor + Align]

LEMMA PassedIs ==
  ASSUME NEW d, Sound(d), NEW n \in Nat, AtFrame(d, n)
  PROVE  LET e == Passed(d)
         IN  /\ Kept(e, d) /\ Loaded(e) /\ e.cursor = Offset + (n + 1) * Align /\ e.cursor >= d.cursor
             /\ e.samples = d.samples /\ e.skip = d.skip /\ e.loops = d.loops
             /\ (e.fresh <=> d.fresh) /\ (e.looping <=> d.looping) /\ (e.true <=> d.true)
<1> DEFINE e == Passed(d)
           c == d.cursor + Align
<1>1. d.cursor \in Nat /\ Align \in Nat /\ c \in Nat /\ c >= d.cursor
  BY LoadedTyped, AtracConstants DEF Sound
<1>2. c = Offset + (n + 1) * Align
  <2>1. d.cursor = Offset + n * Align
    BY DEF AtFrame
  <2>2. PICK k \in Nat : k = n * Align
    BY AtracConstants, TimesAlign
  <2>3. (n + 1) * Align = k + Align
    <3>1. ASSUME NEW x \in Nat PROVE (n + 1) * x = n * x + x
      OBVIOUS
    <3> QED
      BY <2>2, <3>1, AtracConstants
  <2> QED
    BY <2>1, <2>2, <2>3, AtracConstants
<1>3. e = [d EXCEPT !.cursor = c] /\ d \in Decoder
  BY DEF Passed, Sound, Loaded
<1> HIDE DEF c, e
<1>4. e \in Decoder
  BY <1>1, <1>3 DEF Decoder
<1>5. /\ e.track = d.track /\ e.buffer = d.buffer /\ e.size = d.size /\ e.writable = d.writable
      /\ e.samples = d.samples /\ e.cursor = c /\ e.skip = d.skip /\ e.loops = d.loops
  BY <1>3 DEF Decoder
<1>6. (e.fresh <=> d.fresh) /\ (e.looping <=> d.looping) /\ (e.true <=> d.true)
  BY <1>3 DEF Decoder
<1>7. Kept(e, d) /\ Loaded(e)
  BY <1>4, <1>5 DEF Kept, Loaded, Sound
<1> QED
  BY <1>1, <1>2, <1>5, <1>6, <1>7 DEF e

Refused(d) == [Passed(d) EXCEPT !.true = FALSE]

LEMMA RefusedIs ==
  ASSUME NEW d, Sound(d), NEW n \in Nat, AtFrame(d, n)
  PROVE  Kept(Refused(d), d) /\ Sound(Refused(d))
<1> DEFINE e == Passed(d)
           a == Refused(d)
<1>1. /\ Kept(e, d) /\ Loaded(e) /\ e.cursor = Offset + (n + 1) * Align /\ e.cursor >= d.cursor
      /\ (e.fresh <=> d.fresh)
  BY PassedIs
<1>2. a = [e EXCEPT !.true = FALSE]
  BY DEF Refused
<1> HIDE DEF e, a
<1>3. a \in Decoder
  BY <1>1, <1>2 DEF Loaded, Decoder
<1>4. /\ a.track = e.track /\ a.buffer = e.buffer /\ a.size = e.size /\ a.writable = e.writable
      /\ a.cursor = e.cursor
  BY <1>1, <1>2 DEF Loaded, Decoder
<1>5. ~a.true /\ (a.fresh <=> e.fresh)
  BY <1>1, <1>2 DEF Loaded, Decoder
<1>6. Kept(a, d) /\ Loaded(a)
  BY <1>1, <1>3, <1>4 DEF Kept, Loaded
<1>7. Placed(a)
  <2>1. n + 1 \in Nat
    OBVIOUS
  <2>2. AtFrame(a, n + 1)
    BY <1>1, <1>4, <1>5 DEF AtFrame
  <2> QED
    BY <2>1, <2>2 DEF Placed
<1>8. Window(a)
  <2>1. Loaded(d) /\ Window(d)
    BY DEF Sound
  <2> QED
    BY <1>1, <1>4, <1>5, <1>6, <2>1, WindowStays
<1> QED
  BY <1>6, <1>7, <1>8 DEF Sound, a

\* A frame decoded: the samples in front of the position are left given.
Cut(d) == LET e == Passed(d) IN [e EXCEPT !.skip = e.skip - Atrac!Skipped(e)]
Played(d) == Atrac!Advanced(Cut(d), Atrac!Output(Passed(d)))

LEMMA PlayedIs ==
  ASSUME NEW d, Sound(d), NEW n \in Nat, AtFrame(d, n), d.samples <= d.track.end, ~d.looping
  PROVE  Kept(Played(d), d) /\ Sound(Played(d))
<1> DEFINE e == Passed(d)
           k == Atrac!Skipped(e)
           g == [e EXCEPT !.skip = e.skip - k]
           given == Atrac!Output(e)
           f == Atrac!Advanced(g, given)
<1>1. /\ Kept(e, d) /\ Loaded(e) /\ e.cursor = Offset + (n + 1) * Align /\ e.cursor >= d.cursor
      /\ e.samples = d.samples /\ e.skip = d.skip /\ e.loops = d.loops
      /\ (e.fresh <=> d.fresh) /\ (e.looping <=> d.looping) /\ (e.true <=> d.true)
  BY PassedIs
<1>2. e.track = d.track /\ e.samples <= e.track.end
  BY <1>1 DEF Kept
<1>3. Played(d) = f /\ Cut(d) = g
  BY DEF Played, Cut
<1> HIDE DEF e
<1>4. /\ given \in Nat /\ k \in Nat /\ k <= e.skip
      /\ \/ given = FrameSamples - k
         \/ given = e.track.end + 1 - e.samples
         \/ Atrac!LoopActive(e) /\ e.samples <= e.track.loop[2] /\ given = e.track.loop[2] + 1 - e.samples
  BY <1>1, <1>2, OutputIs
<1> HIDE DEF given, k
<1>5. e.skip \in Nat /\ e.skip - k \in Nat /\ e.samples \in Nat /\ e.track.end \in Nat /\ e.track.skip \in Nat
  BY <1>1, <1>4, LoadedTyped
<1>6. g \in Decoder
  BY <1>1, <1>5 DEF Loaded, Decoder
<1>7. /\ g.track = e.track /\ g.buffer = e.buffer /\ g.size = e.size /\ g.writable = e.writable
      /\ g.samples = e.samples /\ g.cursor = e.cursor /\ g.skip = e.skip - k /\ g.loops = e.loops
  BY <1>1 DEF Loaded, Decoder
<1>8. (g.fresh <=> e.fresh) /\ (g.looping <=> e.looping) /\ (g.true <=> e.true)
  BY <1>1 DEF Loaded, Decoder
<1> HIDE DEF g
<1>9. Kept(g, d) /\ Loaded(g)
  BY <1>1, <1>6, <1>7 DEF Kept, Loaded
<1>10. Atrac!LoopActive(g) <=> Atrac!LoopActive(e)
  BY <1>7 DEF Atrac!LoopActive
<1>11. \/ g.track.end < g.samples + given
       \/ Atrac!LoopActive(g) /\ g.samples + given > g.track.loop[2]
       \/ g.track.skip + g.samples + given = (n + 1) * FrameSamples + g.skip
       \/ ~g.true
  <2>1. CASE given = FrameSamples - k
    <3>1. CASE ~g.true
      BY <3>1
    <3>2. CASE g.true
      <4>1. d.track.skip + d.samples = n * FrameSamples + d.skip
        BY <1>1, <1>8, <3>2 DEF AtFrame
      <4>2. PICK p \in Nat : p = n * FrameSamples
        BY AtracConstants, TimesAlign
      <4>3. (n + 1) * FrameSamples = p + FrameSamples
        <5>1. ASSUME NEW x \in Nat PROVE (n + 1) * x = n * x + x
          OBVIOUS
        <5> QED
          BY <4>2, <5>1, AtracConstants
      <4>4. e.track.skip + e.samples = p + e.skip
        BY <1>1, <1>2, <4>1, <4>2
      <4>5. g.track.skip + g.samples + given = p + FrameSamples + g.skip
        BY <1>4, <1>5, <1>7, <2>1, <4>2, <4>4, AtracConstants
      <4> QED
        BY <4>3, <4>5
    <3> QED
      BY <3>1, <3>2
  <2>2. CASE given = e.track.end + 1 - e.samples
    BY <1>5, <1>7, <2>2
  <2>3. CASE Atrac!LoopActive(e) /\ e.samples <= e.track.loop[2] /\ given = e.track.loop[2] + 1 - e.samples
    <3>1. e.track.loop[2] \in Nat
      BY <1>1, <2>3, LoadedTyped DEF Atrac!LoopActive, Atrac!NoLoop, Loops
    <3> QED
      BY <1>5, <1>7, <1>10, <2>3, <3>1
  <2> QED
    BY <1>4, <2>1, <2>2, <2>3
<1>12. Kept(f, g) /\ Loaded(f) /\ Placed(f) /\ (~f.fresh \/ ((f.fresh <=> g.fresh) /\ f.cursor = g.cursor))
  <2>1. n + 1 \in Nat /\ g.cursor = Offset + (n + 1) * Align
    BY <1>1, <1>7
  <2> QED
    BY <1>4, <1>9, <1>11, <2>1, AdvancedIs
<1> HIDE DEF f
<1>13. Kept(f, d)
  BY <1>9, <1>12 DEF Kept
<1>14. ~f.fresh \/ ((f.fresh <=> d.fresh) /\ f.cursor >= d.cursor)
  BY <1>1, <1>7, <1>8, <1>12
<1>15. Window(f)
  <2>1. Loaded(d) /\ Window(d)
    BY DEF Sound
  <2> QED
    BY <1>12, <1>13, <1>14, <2>1, WindowStays
<1> QED
  BY <1>3, <1>12, <1>13, <1>15 DEF Sound

\* What is said of a decode.
Follows(did) ==
    /\ did.status = "ok" /\ did.true /\ did.count > 0 =>
         LET d == did.before
         IN  /\ IF did.again
                  THEN did.from \in {0} \cup {d.track.loop[i] : i \in DOMAIN d.track.loop \ {2}}
                  ELSE did.from = d.samples
             /\ did.from + did.count <= d.track.end + 1
             /\ did.looped /\ did.from <= d.track.loop[2] => did.from + did.count <= d.track.loop[2] + 1
    /\ did.status = "ok" /\ ~did.again => did.promised = did.count

LEMMA FollowsIs ==
  ASSUME NEW d, Sound(d), NEW s, Sound(s), Kept(s, d), NEW n \in Nat, AtFrame(s, n),
         s.samples <= d.track.end, ~s.looping,
         s = d \/ s.samples = 0 \/ (Loops(d.track) /\ s.samples = d.track.loop[1])
  PROVE  Follows([status |-> "ok", from |-> n * FrameSamples + s.skip - d.track.skip,
                  count |-> Atrac!Output(Passed(s)), promised |-> Atrac!NextSamples(d), again |-> s # d,
                  before |-> d, looped |-> Atrac!LoopActive(s), true |-> s.true])
<1> DEFINE e == Passed(s)
           given == Atrac!Output(e)
           from == n * FrameSamples + s.skip - d.track.skip
           promised == Atrac!NextSamples(d)
           did == [status |-> "ok", from |-> from, count |-> given, promised |-> promised, again |-> s # d,
                   before |-> d, looped |-> Atrac!LoopActive(s), true |-> s.true]
<1>1. /\ did.status = "ok" /\ did.from = from /\ did.count = given /\ did.promised = promised /\ did.before = d
  OBVIOUS
<1>2. (did.again <=> s # d) /\ (did.looped <=> Atrac!LoopActive(s)) /\ (did.true <=> s.true)
  OBVIOUS
<1> HIDE DEF did, from, given, promised
<1>3. /\ Kept(e, s) /\ Loaded(e) /\ e.samples = s.samples /\ e.skip = s.skip /\ e.loops = s.loops
  BY PassedIs DEF e
<1>4. s.track = d.track /\ e.track = d.track /\ d.track.end \in Nat /\ s.samples \in Nat /\ s.skip \in Nat
      /\ d.track.skip \in Nat
  BY <1>3, LoadedTyped DEF Kept, Sound
<1>5. Atrac!LoopActive(s) <=> Atrac!LoopActive(e)
  BY <1>3, <1>4 DEF Atrac!LoopActive
<1>6. /\ given \in Nat /\ given <= d.track.end + 1 - s.samples
      /\ Atrac!LoopActive(s) /\ s.samples <= d.track.loop[2] => given <= d.track.loop[2] + 1 - s.samples
  <2> HIDE DEF e
  <2> QED
    BY <1>3, <1>4, <1>5, OutputIs DEF given
<1>7. s = d => promised = given
  <2> SUFFICES ASSUME s = d PROVE promised = given
    OBVIOUS
  <2> HIDE DEF e
  <2> QED
    BY <1>3, <1>4, PromiseIs DEF given, promised, Sound
<1>8. s.true => from = s.samples
  <2> SUFFICES ASSUME s.true PROVE from = s.samples
    OBVIOUS
  <2>1. s.track.skip + s.samples = n * FrameSamples + s.skip
    BY <1>4 DEF AtFrame
  <2>2. PICK p \in Nat : p = n * FrameSamples
    BY AtracConstants, TimesAlign
  <2> QED
    BY <1>4, <2>1, <2>2 DEF from
<1>9. ASSUME s.true
      PROVE  /\ IF did.again
                  THEN did.from \in {0} \cup {d.track.loop[i] : i \in DOMAIN d.track.loop \ {2}}
                  ELSE did.from = d.samples
             /\ did.from + did.count <= d.track.end + 1
             /\ did.looped /\ did.from <= d.track.loop[2] => did.from + did.count <= d.track.loop[2] + 1
  <2>1. did.from = s.samples
    BY <1>1, <1>8, <1>9
  <2>2. ~did.again => did.from = d.samples
    BY <1>2, <2>1
  <2>3. did.again => did.from \in {0} \cup {d.track.loop[i] : i \in DOMAIN d.track.loop \ {2}}
    <3> SUFFICES ASSUME s # d PROVE did.from \in {0} \cup {d.track.loop[i] : i \in DOMAIN d.track.loop \ {2}}
      BY <1>2
    <3>1. CASE s.samples = 0
      BY <2>1, <3>1
    <3>2. CASE Loops(d.track) /\ s.samples = d.track.loop[1]
      <4>1. d.track.loop \in [1..2 -> Nat]
        BY <3>2 DEF Sound, Loaded, Track, Loops
      <4>2. 1 \in DOMAIN d.track.loop \ {2}
        BY <4>1
      <4> QED
        BY <2>1, <3>2, <4>2
    <3> QED
      BY <3>1, <3>2
  <2>4. did.from + did.count <= d.track.end + 1
    BY <1>1, <1>4, <1>6, <2>1
  <2>5. did.looped /\ did.from <= d.track.loop[2] => did.from + did.count <= d.track.loop[2] + 1
    <3> SUFFICES ASSUME Atrac!LoopActive(s), s.samples <= d.track.loop[2]
                 PROVE  s.samples + given <= d.track.loop[2] + 1
      BY <1>1, <1>2, <2>1
    <3>1. d.track.loop[2] \in Nat
      BY <1>4, LoadedTyped DEF Atrac!LoopActive, Atrac!NoLoop, Loops, Sound
    <3> QED
      BY <1>4, <1>6, <3>1
  <2> QED
    BY <2>2, <2>3, <2>4, <2>5
<1>10. Follows(did)
  BY <1>1, <1>2, <1>7, <1>9 DEF Follows
<1> QED
  BY <1>10 DEF did, from, given, promised

LEMMA DecodedIs ==
  ASSUME NEW d, Sound(d)
  PROVE  /\ Sound(Atrac!Decoded(d).d) /\ Kept(Atrac!Decoded(d).d, d)
         /\ Follows(Atrac!Decoded(d).did)
<1> DEFINE r == Atrac!Ready(d)
           s == r.d
           frame == (s.cursor - Offset) \div Align
           f == Played(s)
           over == f.samples > f.track.end /\ f.loops = 0
           g == [f EXCEPT !.finished = over]
           did == [status |-> "ok", from |-> frame * FrameSamples + s.skip - d.track.skip,
                   count |-> Atrac!Output(Passed(s)), promised |-> Atrac!NextSamples(d), again |-> s # d,
                   before |-> d, looped |-> Atrac!LoopActive(s), true |-> s.true]
<1>1. Starting(r, d) /\ (r.status = "go" => s.samples <= d.track.end)
  BY ReadyIs
<1>2. Kept(s, d) /\ Sound(s) /\ r.status \in {"go", "no_data", "all_decoded"}
  BY <1>1 DEF Starting, Sound
<1>3. Atrac!Decoded(d)
        = IF r.status # "go" THEN [d |-> s, did |-> [status |-> r.status]]
          ELSE IF frame \in d.track.bad THEN [d |-> Refused(s), did |-> [status |-> "bad"]]
          ELSE [d |-> g, did |-> did]
  BY DEF Atrac!Decoded, Refused, Played, Passed, Cut
<1> HIDE DEF r
<1>4. CASE r.status # "go"
  <2>1. Atrac!Decoded(d).d = s /\ Atrac!Decoded(d).did = [status |-> r.status]
    BY <1>3, <1>4
  <2>2. Follows([status |-> r.status])
    <3> DEFINE q == [status |-> r.status]
    <3>1. q.status # "ok"
      BY <1>2
    <3> HIDE DEF q
    <3>2. Follows(q)
      BY <3>1 DEF Follows
    <3> QED
      BY <3>2 DEF q
  <2> QED
    BY <1>2, <2>1, <2>2
<1>5. CASE r.status = "go"
  <2>1. ~s.looping /\ (s = d \/ s.samples = 0 \/ (Loops(d.track) /\ s.samples = d.track.loop[1]))
        /\ s.samples <= d.track.end /\ s.track = d.track
    BY <1>1, <1>2, <1>5 DEF Starting, Kept
  <2>2. PICK n \in Nat : AtFrame(s, n)
    BY <1>2 DEF Sound, Placed
  <2>3. frame = n
    <3>1. s.cursor = Offset + n * Align
      BY <2>2 DEF AtFrame
    <3>2. PICK p \in Nat : p = n * Align
      BY AtracConstants, TimesAlign
    <3>3. s.cursor - Offset = p
      BY <3>1, <3>2, AtracConstants
    <3>4. p \div Align = n
      BY <3>2, AtracConstants, FrameNumber
    <3> QED
      BY <3>3, <3>4
  <2>4. CASE n \in d.track.bad
    <3>1. Kept(Refused(s), s) /\ Sound(Refused(s))
      BY <1>2, <2>2, RefusedIs
    <3> DEFINE q == [status |-> "bad"]
    <3>2. q.status # "ok"
      OBVIOUS
    <3>3. Atrac!Decoded(d).d = Refused(s) /\ Atrac!Decoded(d).did = q
      BY <1>3, <1>5, <2>3, <2>4
    <3> HIDE DEF q
    <3>4. Follows(q)
      BY <3>2 DEF Follows
    <3>5. Kept(Refused(s), d)
      BY <1>2, <3>1 DEF Kept
    <3> QED
      BY <3>1, <3>3, <3>4, <3>5
  <2>5. CASE n \notin d.track.bad
    <3>1. Kept(f, s) /\ Sound(f)
      BY <1>2, <2>1, <2>2, PlayedIs
    <3>2. Atrac!Decoded(d).d = g /\ Atrac!Decoded(d).did = did
      BY <1>3, <1>5, <2>3, <2>5
    <3>3. Kept(g, d) /\ Sound(g)
      <4> HIDE DEF f, s, over
      <4>1. over \in BOOLEAN
        BY DEF over
      <4>2. g \in Decoder
        BY <3>1, <4>1 DEF Sound, Loaded, Decoder
      <4>3. /\ g.track = f.track /\ g.buffer = f.buffer /\ g.size = f.size /\ g.writable = f.writable
            /\ g.samples = f.samples /\ g.cursor = f.cursor /\ g.skip = f.skip /\ g.loops = f.loops
        BY <3>1 DEF Sound, Loaded, Decoder
      <4>4. (g.fresh <=> f.fresh) /\ (g.looping <=> f.looping) /\ (g.true <=> f.true)
        BY <3>1 DEF Sound, Loaded, Decoder
      <4> HIDE DEF g
      <4>5. Kept(g, d)
        BY <1>2, <3>1, <4>2, <4>3 DEF Kept
      <4>6. Loaded(g)
        BY <3>1, <4>2, <4>3 DEF Sound, Loaded
      <4>7. Placed(g)
        BY <3>1, <4>3, <4>4 DEF Sound, Placed, AtFrame
      <4>8. Window(g)
        BY <3>1, <4>3, <4>4 DEF Sound, Window
      <4> QED
        BY <4>5, <4>6, <4>7, <4>8 DEF Sound
    <3>4. Follows(did)
      <4> HIDE DEF s
      <4> QED
        BY <1>2, <2>1, <2>2, <2>3, FollowsIs
    <3> HIDE DEF g, did
    <3> QED
      BY <3>2, <3>3, <3>4
  <2> QED
    BY <2>4, <2>5
<1> QED
  BY <1>4, <1>5

-----------------------------------------------------------------------------
(* The invariant of the decoders *)

\* A decoder at rest.
Right(d) ==
    /\ d \in Decoder /\ TrackKept(d.track)
    /\ IF d.track = Atrac!NoTrack THEN ~d.fresh /\ d.writable = 0 ELSE Placed(d) /\ Window(d)

\* The invariant: every decoder stands where it says, and the last decode did
\* what it should.
AtracInv ==
    /\ DOMAIN decoders \subseteq Decoders
    /\ decoders = [i \in DOMAIN decoders |-> decoders[i]]
    /\ \A i \in DOMAIN decoders : Right(decoders[i])
    /\ Follows(decode)

LEMMA RightIs ==
  ASSUME NEW d, Right(d), d.track # Atrac!NoTrack
  PROVE  Sound(d)
  BY DEF Right, Sound, Loaded, TrackKept

LEMMA SoundIsRight ==
  ASSUME NEW d, Sound(d)
  PROVE  Right(d)
<1>1. d.track # Atrac!NoTrack
  BY LoadedTyped DEF Sound
<1> QED
  BY <1>1 DEF Sound, Right, Loaded

\* One decoder changed, the others as they were.
LEMMA ChangeKeeps ==
  ASSUME AtracInv, NEW id \in DOMAIN decoders, NEW e, Right(e), Atrac!Change(id, e), Follows(decode')
  PROVE  AtracInv'
<1>1. decoders' = [decoders EXCEPT ![id] = e]
  BY DEF Atrac!Change
<1>2. DOMAIN decoders' = DOMAIN decoders
  BY <1>1
<1>3. \A i \in DOMAIN decoders : decoders'[i] = IF i = id THEN e ELSE decoders[i]
  BY <1>1
<1>4. \A i \in DOMAIN decoders' : Right(decoders'[i])
  BY <1>2, <1>3 DEF AtracInv
<1>5. decoders' = [i \in DOMAIN decoders' |-> decoders'[i]]
  BY <1>1
<1> QED
  BY <1>2, <1>4, <1>5 DEF AtracInv

LEMMA QuietFollows == Follows(Atrac!Quiet)
<1>1. Atrac!Quiet.status # "ok"
  BY DEF Atrac!Quiet
<1> HIDE DEF Atrac!Quiet
<1> QED
  BY <1>1 DEF Follows

LEMMA GetStep ==
  ASSUME AtracInv, Atrac!GetAtracID
  PROVE  AtracInv'
<1> DEFINE new == [track |-> Atrac!NoTrack, buffer |-> 0, size |-> 0, cursor |-> 0,
                   samples |-> 0, skip |-> 0, loops |-> 0, finished |-> FALSE,
                   looping |-> FALSE, writable |-> 0, fresh |-> FALSE, true |-> TRUE]
<1>1. PICK id \in Decoders \ DOMAIN decoders :
        decoders' = [i \in DOMAIN decoders \cup {id} |-> IF i \in DOMAIN decoders THEN decoders[i] ELSE new]
  BY DEF Atrac!GetAtracID
<1>2. Right(new)
  <2>1. new \in Decoder /\ new.track = Atrac!NoTrack /\ ~new.fresh /\ new.writable = 0
    BY DEF Decoder
  <2> HIDE DEF new
  <2> QED
    BY <2>1 DEF Right, TrackKept
<1> HIDE DEF new
<1>3. DOMAIN decoders' = DOMAIN decoders \cup {id}
  BY <1>1
<1>4. \A i \in DOMAIN decoders' : decoders'[i] = IF i \in DOMAIN decoders THEN decoders[i] ELSE new
  BY <1>1
<1>5. \A i \in DOMAIN decoders' : Right(decoders'[i])
  BY <1>2, <1>4 DEF AtracInv
<1>6. decoders' = [i \in DOMAIN decoders' |-> decoders'[i]]
  BY <1>1, <1>3, Zenon
<1>7. decode' = decode
  BY DEF Atrac!GetAtracID
<1> QED
  BY <1>3, <1>5, <1>6, <1>7 DEF AtracInv

LEMMA ReleaseStep ==
  ASSUME AtracInv, NEW id \in DOMAIN decoders, Atrac!ReleaseAtracID(id)
  PROVE  AtracInv'
<1>1. decoders' = [i \in DOMAIN decoders \ {id} |-> decoders[i]] /\ decode' = Atrac!Quiet
  BY DEF Atrac!ReleaseAtracID
<1>2. DOMAIN decoders' = DOMAIN decoders \ {id} /\ \A i \in DOMAIN decoders' : decoders'[i] = decoders[i]
  BY <1>1
<1>3. decoders' = [i \in DOMAIN decoders' |-> decoders'[i]]
  BY <1>1, <1>2, Zenon
<1>4. Follows(decode')
  BY <1>1, QuietFollows
<1> QED
  BY <1>2, <1>3, <1>4 DEF AtracInv

LEMMA SetDataStep ==
  ASSUME AtracInv, NEW id \in DOMAIN decoders, NEW f \in RiffFiles, NEW size \in BufferSizes,
         Atrac!SetData(id, f, size)
  PROVE  AtracInv'
<1> DEFINE d == decoders[id]
           t == Atrac!Parse(f)
           x == [d EXCEPT !.track = t, !.buffer = size, !.size = size]
           e == Atrac!Rewound(x)
<1>1. t # Atrac!NoTrack /\ Atrac!Change(id, e) /\ decode' = Atrac!Quiet
  BY DEF Atrac!SetData
<1>2. t \in Track /\ TrackKept(t)
  BY <1>1, ParseIs
<1>3. d \in Decoder /\ size \in Nat
  BY AtracConstants DEF AtracInv, Right
<1> HIDE DEF d, t
<1>4. x \in Decoder /\ x.track = t
  BY <1>2, <1>3 DEF Decoder
<1> HIDE DEF x
<1>5. Loaded(x)
  BY <1>2, <1>4 DEF Loaded
<1>6. Loaded(e) /\ Placed(e) /\ ~e.fresh
  BY <1>5, RewoundIs
<1> HIDE DEF e
<1>7. Right(e)
  BY <1>6, SoundIsRight DEF Sound, Window
<1> QED
  BY <1>1, <1>7, ChangeKeeps, QuietFollows

LEMMA SetLoopNumStep ==
  ASSUME AtracInv, NEW id \in DOMAIN decoders, NEW n \in LoopCounts, Atrac!SetLoopNum(id, n)
  PROVE  AtracInv'
<1> DEFINE d == decoders[id]
           e == [d EXCEPT !.loops = n]
<1>1. d.track # Atrac!NoTrack /\ Atrac!Change(id, e) /\ decode' = Atrac!Quiet
  BY DEF Atrac!SetLoopNum
<1>2. Right(d)
  BY DEF AtracInv
<1>3. Sound(d) /\ n \in Int
  BY <1>1, <1>2, RightIs, AtracConstants
<1> HIDE DEF d
<1>4. /\ e \in Decoder
      /\ e.track = d.track /\ e.buffer = d.buffer /\ e.size = d.size /\ e.writable = d.writable
      /\ e.samples = d.samples /\ e.cursor = d.cursor /\ e.skip = d.skip
  BY <1>3 DEF Sound, Loaded, Decoder
<1>5. (e.fresh <=> d.fresh) /\ (e.looping <=> d.looping) /\ (e.true <=> d.true)
  BY <1>3 DEF Sound, Loaded, Decoder
<1> HIDE DEF e
<1>6. Loaded(e)
  BY <1>3, <1>4 DEF Sound, Loaded
<1>7. Placed(e)
  BY <1>3, <1>4, <1>5 DEF Sound, Placed, AtFrame
<1>8. Window(e)
  BY <1>3, <1>4, <1>5 DEF Sound, Window
<1>9. Right(e)
  BY <1>6, <1>7, <1>8, SoundIsRight DEF Sound
<1> QED
  BY <1>1, <1>9, ChangeKeeps, QuietFollows

LEMMA ResetStep ==
  ASSUME AtracInv, NEW id \in DOMAIN decoders, NEW sample \in {0, 1, decoders[id].track.end},
         Atrac!ResetPlayPosition(id, sample)
  PROVE  AtracInv'
<1> DEFINE d == decoders[id]
           e == Atrac!Sought(d, sample)
<1>1. d.track # Atrac!NoTrack /\ Atrac!CanSeek(d, sample) /\ Atrac!Change(id, e) /\ decode' = Atrac!Quiet
  BY DEF Atrac!ResetPlayPosition
<1>2. Right(d)
  BY DEF AtracInv
<1>3. Sound(d)
  BY <1>1, <1>2, RightIs
<1>4. sample \in Nat
  BY <1>3, LoadedTyped DEF Sound
<1> HIDE DEF d
<1>5. Loaded(e) /\ Placed(e) /\ ~e.fresh
  BY <1>1, <1>3, <1>4, SoughtIs DEF Sound
<1> HIDE DEF e
<1>6. Right(e)
  BY <1>5, SoundIsRight DEF Sound, Window
<1> QED
  BY <1>1, <1>6, ChangeKeeps, QuietFollows

LEMMA StreamInfoStep ==
  ASSUME AtracInv, NEW id \in DOMAIN decoders, Atrac!GetStreamDataInfo(id)
  PROVE  AtracInv'
<1> DEFINE d == decoders[id]
           w == Atrac!Writable(d)
           e == [d EXCEPT !.writable = w, !.fresh = TRUE]
<1>1. d.track # Atrac!NoTrack /\ Atrac!Change(id, e) /\ decode' = decode
  BY DEF Atrac!GetStreamDataInfo
<1>2. Right(d)
  BY DEF AtracInv
<1>3. Sound(d)
  BY <1>1, <1>2, RightIs
<1> HIDE DEF d
<1>4. d.size \in Nat /\ d.cursor \in Nat /\ d.buffer \in Nat /\ d.track.file \in Nat
  BY <1>3, LoadedTyped DEF Sound
<1>5. /\ w \in Nat
      /\ w > 0 => /\ d.size + w <= d.track.file
                  /\ d.buffer \in Nat \ {0} /\ (d.size % d.buffer) + w <= d.buffer
                  /\ d.size + w <= d.buffer + d.cursor
  <2> DEFINE retained == IF d.size > d.cursor THEN d.size - d.cursor ELSE 0
  <2>1. retained \in Nat /\ retained >= d.size - d.cursor
    BY <1>4
  <2>2. CASE d.size >= d.track.file \/ retained >= d.buffer
    BY <2>2 DEF Atrac!Writable
  <2>3. CASE d.size < d.track.file /\ retained < d.buffer
    <3>1. d.buffer \in Nat \ {0}
      BY <1>4, <2>1, <2>3
    <3> DEFINE rest == d.size % d.buffer
    <3>2. rest \in Nat /\ rest < d.buffer
      BY <1>4, <3>1, QuotientAndRest
    <3>3. w = Atrac!Least(d.buffer - retained, Atrac!Least(d.buffer - rest, d.track.file - d.size))
      BY <1>4, <2>1, <2>3 DEF Atrac!Writable
    <3> HIDE DEF rest, retained, w
    <3>4. w \in Nat /\ w <= d.buffer - retained /\ w <= d.buffer - rest /\ w <= d.track.file - d.size
      BY <1>4, <2>1, <2>3, <3>2, <3>3 DEF Atrac!Least
    <3>5. d.size + w <= d.track.file /\ rest + w <= d.buffer /\ d.size + w <= d.buffer + d.cursor
      BY <1>4, <2>1, <3>2, <3>4
    <3> QED
      BY <3>1, <3>4, <3>5 DEF rest
  <2> HIDE DEF retained, w
  <2> QED
    BY <1>4, <2>1, <2>2, <2>3
<1> HIDE DEF w
<1>6. /\ e \in Decoder
      /\ e.track = d.track /\ e.buffer = d.buffer /\ e.size = d.size /\ e.writable = w
      /\ e.samples = d.samples /\ e.cursor = d.cursor /\ e.skip = d.skip
  BY <1>3, <1>5 DEF Sound, Loaded, Decoder
<1>7. (e.looping <=> d.looping) /\ (e.true <=> d.true)
  BY <1>3 DEF Sound, Loaded, Decoder
<1> HIDE DEF e
<1>8. Loaded(e)
  BY <1>3, <1>6 DEF Sound, Loaded
<1>9. Placed(e)
  BY <1>3, <1>6, <1>7 DEF Sound, Placed, AtFrame
<1>10. Window(e)
  BY <1>5, <1>6 DEF Window
<1>11. Right(e)
  BY <1>8, <1>9, <1>10, SoundIsRight DEF Sound
<1> QED
  BY <1>1, <1>11, ChangeKeeps DEF AtracInv

\* What is added before the end of the ring moves the place to go on at.
LEMMA AddedToRing ==
  ASSUME NEW c \in Nat \ {0}, NEW x \in Nat, NEW n \in Nat, (x % c) + n < c
  PROVE  (x + n) % c = (x % c) + n
<1>1. x \div c \in Int /\ x % c \in Nat /\ x = (x \div c) * c + (x % c)
  BY QuotientAndRest
<1>2. PICK p \in Int : p = (x \div c) * c
  BY <1>1
<1>3. x + n = (x \div c) * c + ((x % c) + n)
  BY <1>1, <1>2
<1>4. (x % c) + n \in 0 .. c - 1
  BY <1>1
<1> QED
  BY <1>1, <1>3, <1>4, ModUnique

LEMMA AddStep ==
  ASSUME AtracInv, NEW id \in DOMAIN decoders, NEW n \in AddSizes, Atrac!AddStreamData(id, n)
  PROVE  AtracInv'
<1> DEFINE d == decoders[id]
           e == [d EXCEPT !.size = d.size + n, !.writable = d.writable - n]
<1>1. n <= d.writable /\ Atrac!Change(id, e) /\ decode' = decode
  BY DEF Atrac!AddStreamData
<1>2. Right(d)
  BY DEF AtracInv
<1> HIDE DEF d
<1>3. d \in Decoder /\ n \in Nat /\ d.size \in Nat /\ d.writable \in Nat /\ TrackKept(d.track)
  BY <1>2, AtracConstants DEF Right, Decoder
<1>4. d.size + n \in Nat /\ d.writable - n \in Nat
  BY <1>1, <1>3
<1>5. /\ e \in Decoder
      /\ e.track = d.track /\ e.buffer = d.buffer /\ e.size = d.size + n /\ e.writable = d.writable - n
      /\ e.samples = d.samples /\ e.cursor = d.cursor /\ e.skip = d.skip
  BY <1>3, <1>4 DEF Decoder
<1>6. (e.fresh <=> d.fresh) /\ (e.looping <=> d.looping) /\ (e.true <=> d.true)
  BY <1>3 DEF Decoder
<1> HIDE DEF e
<1>7. CASE d.track = Atrac!NoTrack
  <2>1. ~d.fresh /\ d.writable = 0
    BY <1>2, <1>7 DEF Right
  <2>2. e.writable = 0
    BY <1>1, <1>3, <1>5, <2>1
  <2>3. Right(e)
    BY <1>3, <1>5, <1>6, <1>7, <2>1, <2>2 DEF Right
  <2> QED
    BY <1>1, <2>3, ChangeKeeps DEF AtracInv
<1>8. CASE d.track # Atrac!NoTrack
  <2>1. Sound(d)
    BY <1>2, <1>8, RightIs
  <2>2. Loaded(e)
    BY <1>5, <2>1 DEF Sound, Loaded
  <2>3. Placed(e)
    BY <1>5, <1>6, <2>1 DEF Sound, Placed, AtFrame
  <2>4. Window(e)
    <3> SUFFICES ASSUME e.fresh, e.writable > 0
                 PROVE  /\ e.size + e.writable <= e.track.file
                        /\ e.buffer \in Nat \ {0} /\ (e.size % e.buffer) + e.writable <= e.buffer
                        /\ e.size + e.writable <= e.buffer + e.cursor
      BY DEF Window
    <3>1. d.cursor \in Nat /\ d.track.file \in Nat
      BY <2>1, LoadedTyped DEF Sound
    <3>2. d.fresh /\ d.writable > 0 /\ n < d.writable
      BY <1>3, <1>5, <1>6
    <3>3. /\ d.size + d.writable <= d.track.file
          /\ d.buffer \in Nat \ {0} /\ (d.size % d.buffer) + d.writable <= d.buffer
          /\ d.size + d.writable <= d.buffer + d.cursor
      BY <2>1, <3>2 DEF Sound, Window
    <3>4. PICK r \in Nat : r = d.size % d.buffer
      BY <1>3, <3>3, QuotientAndRest
    <3>5. (d.size + n) % d.buffer = r + n
      <4>1. r + n < d.buffer
        BY <1>3, <3>2, <3>3, <3>4
      <4> QED
        BY <1>3, <3>3, <3>4, <4>1, AddedToRing
    <3>6. e.size % e.buffer = r + n
      BY <1>5, <3>5
    <3>7. e.size + e.writable = d.size + d.writable /\ r + n + e.writable = r + d.writable
      BY <1>3, <1>5
    <3>8. (e.size % e.buffer) + e.writable <= e.buffer
      BY <1>3, <1>5, <3>3, <3>4, <3>6, <3>7
    <3> QED
      BY <1>5, <3>3, <3>7, <3>8
  <2>5. Right(e)
    BY <2>2, <2>3, <2>4, SoundIsRight DEF Sound
  <2> QED
    BY <1>1, <2>5, ChangeKeeps DEF AtracInv
<1> QED
  BY <1>7, <1>8

LEMMA DecodeStep ==
  ASSUME AtracInv, NEW id \in DOMAIN decoders, Atrac!DecodeData(id)
  PROVE  AtracInv'
<1> DEFINE d == decoders[id]
           e == Atrac!Decoded(d).d
<1>1. d.track # Atrac!NoTrack /\ Atrac!Change(id, e) /\ decode' = Atrac!Decoded(d).did
  BY DEF Atrac!DecodeData
<1>2. Right(d)
  BY DEF AtracInv
<1>3. Sound(d)
  BY <1>1, <1>2, RightIs
<1> HIDE DEF d
<1>4. Sound(e) /\ Follows(decode')
  BY <1>1, <1>3, DecodedIs
<1> HIDE DEF e
<1> QED
  BY <1>1, <1>4, SoundIsRight, ChangeKeeps

LEMMA AtracStep ==
  ASSUME AtracInv, Atrac!AtracNext
  PROVE  AtracInv'
<1>1. CASE Atrac!GetAtracID
  BY <1>1, GetStep
<1>2. CASE \E id \in DOMAIN decoders :
             Atrac!ReleaseAtracID(id) \/ Atrac!GetStreamDataInfo(id) \/ Atrac!DecodeData(id)
  BY <1>2, ReleaseStep, StreamInfoStep, DecodeStep
<1>3. CASE \E id \in DOMAIN decoders : \E f \in RiffFiles, size \in BufferSizes : Atrac!SetData(id, f, size)
  BY <1>3, SetDataStep
<1>4. CASE \E id \in DOMAIN decoders : \E n \in LoopCounts : Atrac!SetLoopNum(id, n)
  BY <1>4, SetLoopNumStep
<1>5. CASE \E id \in DOMAIN decoders : \E sample \in {0, 1, decoders[id].track.end} :
             Atrac!ResetPlayPosition(id, sample)
  BY <1>5, ResetStep
<1>6. CASE \E id \in DOMAIN decoders : \E n \in AddSizes : Atrac!AddStreamData(id, n)
  BY <1>6, AddStep
<1> QED
  BY <1>1, <1>2, <1>3, <1>4, <1>5, <1>6 DEF Atrac!AtracNext

LEMMA AtracOrNot ==
  ASSUME [Next]_vars
  PROVE  Atrac!AtracNext \/ UNCHANGED atrac
<1>1. CASE UNCHANGED vars
  BY <1>1 DEF vars
<1>2. CASE Call
  BY <1>2, Zenon DEF Call, Frame
<1>3. CASE Step
  BY <1>3, Zenon DEF Step, Frame
<1> QED
  BY <1>1, <1>2, <1>3 DEF Next

\* Any sequence of sceAtracSetData, AddStreamData, GetStreamDataInfo, SetLoopNum,
\* ResetPlayPosition and DecodeData (stubs/audio/atrac_state.hpp), with any file,
\* buffer and loop: a decoder plays what follows, its position is the place its
\* data cursor stands at, the samples announced are those given, and the window
\* offered for more data holds nothing still to be read.
THEOREM AtracPlays == Spec => []AtracPlaysOn
<1>1. Init => AtracInv
  <2> SUFFICES ASSUME Init PROVE AtracInv
    OBVIOUS
  <2>1. decoders = <<>> /\ decode = Atrac!Quiet
    BY DEF Init, Atrac!AtracInit
  <2>2. DOMAIN decoders = {} /\ decoders = [i \in DOMAIN decoders |-> decoders[i]]
    BY <2>1
  <2> QED
    BY <2>1, <2>2, QuietFollows DEF AtracInv
<1>2. AtracInv /\ [Next]_vars => AtracInv'
  <2> SUFFICES ASSUME AtracInv, [Next]_vars PROVE AtracInv'
    OBVIOUS
  <2>1. CASE Atrac!AtracNext
    BY <2>1, AtracStep
  <2>2. CASE UNCHANGED atrac
    BY <2>2 DEF atrac, AtracInv
  <2> QED
    BY <2>1, <2>2, AtracOrNot
<1>3. AtracInv => AtracPlaysOn
  <2> SUFFICES ASSUME AtracInv
               PROVE  /\ Atrac!AtracTypeOK /\ Atrac!PlaysWhatFollows /\ Atrac!PositionTrue
                      /\ Atrac!NextSampleKept /\ Atrac!WindowFree
    BY DEF AtracPlaysOn
  <2>1. Atrac!AtracTypeOK
    BY DEF AtracInv, Right, Decoder, Atrac!AtracTypeOK
  <2>2. Atrac!PlaysWhatFollows /\ Atrac!NextSampleKept
    BY DEF AtracInv, Follows, Atrac!PlaysWhatFollows, Atrac!NextSampleKept
  <2>3. Atrac!PositionTrue
    <3> SUFFICES ASSUME NEW id \in DOMAIN decoders, decoders[id].track # Atrac!NoTrack, decoders[id].true,
                        decoders[id].samples <= decoders[id].track.end, ~decoders[id].looping
                 PROVE  decoders[id].track.skip + decoders[id].samples
                          = ((decoders[id].cursor - Offset) \div Align) * FrameSamples + decoders[id].skip
      BY DEF Atrac!PositionTrue, Atrac!Playing
    <3>1. PICK n \in Nat : AtFrame(decoders[id], n)
      BY DEF AtracInv, Right, Placed
    <3>2. PICK p \in Nat : p = n * Align
      BY AtracConstants, TimesAlign
    <3>3. decoders[id].cursor - Offset = p
      BY <3>1, <3>2, AtracConstants DEF AtFrame
    <3>4. p \div Align = n
      BY <3>2, AtracConstants, FrameNumber
    <3> QED
      BY <3>1, <3>3, <3>4 DEF AtFrame
  <2>4. Atrac!WindowFree
    <3> SUFFICES ASSUME NEW id \in DOMAIN decoders, decoders[id].fresh, decoders[id].writable > 0
                 PROVE  LET d == decoders[id]
                        IN  /\ d.size + d.writable <= d.track.file
                            /\ (d.size % d.buffer) + d.writable <= d.buffer
                            /\ d.size < d.cursor \/ d.size - d.cursor + d.writable <= d.buffer
      BY DEF Atrac!WindowFree
    <3> DEFINE d == decoders[id]
    <3>1. Right(d)
      BY DEF AtracInv
    <3> HIDE DEF d
    <3>2. d.fresh /\ d.writable > 0
      BY DEF d
    <3>3. Sound(d)
      BY <3>1, <3>2, RightIs DEF Right
    <3>4. /\ d.size + d.writable <= d.track.file
          /\ d.buffer \in Nat /\ (d.size % d.buffer) + d.writable <= d.buffer
          /\ d.size + d.writable <= d.buffer + d.cursor
      BY <3>2, <3>3 DEF Sound, Window
    <3>5. d.size \in Nat /\ d.cursor \in Nat /\ d.writable \in Nat
      BY <3>3, LoadedTyped DEF Sound
    <3>6. d.size - d.cursor + d.writable <= d.buffer
      BY <3>4, <3>5
    <3> QED
      BY <3>4, <3>6 DEF d
  <2> QED
    BY <2>1, <2>2, <2>3, <2>4
<1> QED
  BY <1>1, <1>2, <1>3, PTL DEF Spec
-----------------------------------------------------------------------------
(* Display lists: commands, queue and runs *)

\* The kinds of values of the display lists: commands, registers, pairs of numbers (stack
\* entries, and callbacks as list and place in its output), outputs, machines, records.
Words == [op : {"jump", "bjump", "call", "ret", "base", "offset", "origin", "vaddr",
                "prim", "box", "signal", "finish", "clut", "transfer", "end"},
          arg : Nat]
Registers == [offset : Nat, base : Nat, vertex : Nat]
Items == Nat \X Nat
Outputs == Seq({"prim", "signal", "finish"} \X Nat)
Machines == [pc : Nat, stack : Seq(Items), regs : Registers, box : BOOLEAN, out : Outputs]
Unfinished == {"queued", "running", "stalled", "paused"}
ListRecords ==
    [pc : Nat, start : Nat, stall : Nat, cb : Nat, stack : Seq(Items),
     state : Unfinished \cup Ge!Done, box : BOOLEAN]
Runs ==
    [list : Nat \ {0}, thread : Threads, pc : Nat, stall : Nat, cb : Nat, stack : Seq(Items),
     words : 0..MaxWords, texture : {Ge!NoTexture} \cup ({0, 1} \X {0, 1}), todo : Seq(Items)]
CallbackFrames == [todo : Seq(Items), inside : BOOLEAN]

\* The constants of the display lists.
LEMMA GeConstants ==
  /\ Depth \in Nat /\ MaxWords \in Nat /\ MaxLists \in Nat /\ NoStall \in Nat
  /\ CallbackIds \subseteq Nat /\ Starts \subseteq Nat /\ Stalls \subseteq Nat
  /\ \A program \in Programs :
       DOMAIN program \subseteq Nat /\ \A at \in DOMAIN program : program[at] \in Words
  BY ServicesAssumption DEF ServicesAssumption, Ge!GeAssumption, Words

\* A set of numbers that is not empty has a least one.
LEMMA SomePlace ==
  ASSUME NEW I, I \subseteq Nat, I # {}
  PROVE  Ge!Min(I) \in I /\ \A y \in I : Ge!Min(I) <= y
<1> DEFINE R == {ss \in Nat \X Nat : ss[1] < ss[2]}
<1>1. IsWellFoundedOn(R, Nat)
  BY NatLessThanWellFounded DEF OpToRel
<1>2. \A x, y \in Nat : y < x => <<y, x>> \in R
  OBVIOUS
<1> HIDE DEF R
<1>3. PICK x \in I : \A y \in I : ~(<<y, x>> \in R)
  BY <1>1, WFMin
<1>4. \A y \in I : x <= y
  <2> TAKE y \in I
  <2>1. x \in Nat /\ y \in Nat /\ ~(y < x)
    BY <1>2, <1>3
  <2> QED
    BY <2>1
<1> QED
  BY <1>3, <1>4 DEF Ge!Min

\* What a command does to the machine that executes a list.
LEMMA CommandIs ==
  ASSUME NEW m \in Machines, NEW c \in Words, Len(m.stack) <= Depth
  PROVE  LET n == Ge!Command(m, c)
         IN  /\ n \in Machines /\ Len(n.stack) <= Depth
             /\ c.op \in {"signal", "finish"} => Len(n.out) = Len(m.out) + 1
             /\ Len(n.out) >= Len(m.out)
             /\ c.op = "end" => n = m
<1> DEFINE n == Ge!Command(m, c)
<1>0. /\ m.pc \in Nat /\ m.stack \in Seq(Items) /\ m.regs \in Registers /\ m.box \in BOOLEAN
      /\ m.out \in Outputs /\ c.arg \in Nat /\ Ge!Relative(m, c.arg) \in Nat
      /\ m.regs.offset \in Nat /\ m.regs.vertex \in Nat
  BY DEF Machines, Registers, Words, Ge!Relative
<1>1. /\ Ge!Jump(m, c.arg) = [m EXCEPT !.pc = Ge!Relative(m, c.arg)]
      /\ Ge!Jump(m, c.arg) \in Machines /\ Ge!Jump(m, c.arg).stack = m.stack
      /\ Ge!Jump(m, c.arg).out = m.out
  BY <1>0 DEF Ge!Jump, Machines
<1>2. Ge!Skip(m) \in Machines /\ Ge!Skip(m).stack = m.stack /\ Ge!Skip(m).out = m.out
  BY <1>0 DEF Ge!Skip, Machines
<1>3. Len(m.out) \in Nat /\ Len(m.stack) \in Nat
  BY <1>0 DEF Outputs
<1>jump. CASE c.op = "jump"
  <2>1. n = Ge!Jump(m, c.arg)
    BY <1>jump DEF Ge!Command
  <2> QED
    BY <2>1, <1>1, <1>3, <1>jump
<1>bjump. CASE c.op = "bjump"
  <2>1. n = Ge!Jump(m, c.arg) \/ n = Ge!Skip(m)
    BY <1>bjump DEF Ge!Command
  <2>2. CASE n = Ge!Jump(m, c.arg)
    BY <2>2, <1>1, <1>3, <1>bjump
  <2>3. CASE n = Ge!Skip(m)
    BY <2>3, <1>2, <1>3, <1>bjump
  <2> QED
    BY <2>1, <2>2, <2>3
<1>call. CASE c.op = "call"
  <2>1. n = Ge!Call(m, c.arg)
    BY <1>call DEF Ge!Command
  <2>2. CASE Len(m.stack) < Depth
    <3> DEFINE s == Append(m.stack, <<m.pc + 1, m.regs.offset>>)
    <3>1. <<m.pc + 1, m.regs.offset>> \in Items
      BY <1>0 DEF Items
    <3>2. s \in Seq(Items) /\ Len(s) = Len(m.stack) + 1
      BY <1>0, <3>1, AppendProperties
    <3> HIDE DEF s
    <3>3. n = [Ge!Jump(m, c.arg) EXCEPT !.stack = s]
      BY <2>1, <2>2, <1>1 DEF Ge!Call, s, Machines
    <3>4. n \in Machines /\ n.stack = s /\ n.out = m.out
      BY <3>2, <3>3, <1>1 DEF Machines
    <3> QED
      BY <3>2, <3>4, <2>2, <1>3, <1>call, GeConstants
  <2>3. CASE ~(Len(m.stack) < Depth)
    <3>1. n = Ge!Skip(m)
      BY <2>1, <2>3 DEF Ge!Call
    <3> QED
      BY <3>1, <1>2, <1>3, <1>call
  <2> QED
    BY <2>2, <2>3
<1>ret. CASE c.op = "ret"
  <2>1. n = Ge!Ret(m)
    BY <1>ret DEF Ge!Command
  <2>2. CASE m.stack = <<>>
    <3>1. n = Ge!Skip(m)
      BY <2>1, <2>2 DEF Ge!Ret
    <3> QED
      BY <3>1, <1>2, <1>3, <1>ret
  <2>3. CASE m.stack # <<>>
    <3> DEFINE e == Ge!Last(m.stack)
               s == Ge!Front(m.stack)
    <3>1. e \in Items
      <4>1. Len(m.stack) \in 1..Len(m.stack)
        BY <1>0, <1>3, <2>3
      <4> QED
        BY <4>1, <1>0 DEF Ge!Last
    <3>2. s \in Seq(Items) /\ Len(s) = Len(m.stack) - 1
      <4>1. Len(m.stack) > 0
        BY <1>0, <1>3, <2>3
      <4>2. s = SubSeq(m.stack, 1, Len(m.stack) - 1)
        BY DEF Ge!Front
      <4> HIDE DEF s
      <4> QED
        BY <4>1, <4>2, <1>0, <1>3, SubSeqProperties
    <3>3. n = [m EXCEPT !.pc = e[1], !.regs.offset = e[2], !.stack = s]
      BY <2>1, <2>3 DEF Ge!Ret, e, s
    <3> HIDE DEF e, s
    <3>4. e[1] \in Nat /\ e[2] \in Nat
      BY <3>1 DEF Items
    <3> DEFINE r == [m.regs EXCEPT !.offset = e[2]]
    <3>5. r \in Registers
      BY <3>4, <1>0 DEF Registers
    <3>6. n = [m EXCEPT !.pc = e[1], !.regs = r, !.stack = s]
      BY <3>3, <1>0 DEF Machines
    <3> HIDE DEF r
    <3>7. n \in Machines /\ n.stack = s /\ n.out = m.out
      BY <3>2, <3>4, <3>5, <3>6, <1>0 DEF Machines
    <3>8. Len(s) <= Depth /\ Len(n.out) >= Len(m.out)
      BY <3>2, <3>7, <1>3, GeConstants
    <3> QED
      BY <3>7, <3>8, <1>ret
  <2> QED
    BY <2>2, <2>3
<1>regs. CASE c.op \in {"base", "offset", "origin", "vaddr", "box", "clut", "transfer", "end"}
  <2>1. CASE c.op = "base"
    <3>1. n = [Ge!Skip(m) EXCEPT !.regs.base = c.arg]
      BY <2>1 DEF Ge!Command
    <3> DEFINE r == [Ge!Skip(m).regs EXCEPT !.base = c.arg]
    <3>2. r \in Registers
      BY <1>0, <1>2 DEF Machines, Registers
    <3>3. n = [Ge!Skip(m) EXCEPT !.regs = r]
      BY <3>1, <1>2 DEF Machines
    <3> HIDE DEF r
    <3>4. n \in Machines /\ n.stack = m.stack /\ n.out = m.out
      BY <3>2, <3>3, <1>2 DEF Machines
    <3> QED
      BY <3>4, <2>1, <1>3
  <2>2. CASE c.op = "offset"
    <3>1. n = [Ge!Skip(m) EXCEPT !.regs.offset = c.arg]
      BY <2>2 DEF Ge!Command
    <3> DEFINE r == [Ge!Skip(m).regs EXCEPT !.offset = c.arg]
    <3>2. r \in Registers
      BY <1>0, <1>2 DEF Machines, Registers
    <3>3. n = [Ge!Skip(m) EXCEPT !.regs = r]
      BY <3>1, <1>2 DEF Machines
    <3> HIDE DEF r
    <3>4. n \in Machines /\ n.stack = m.stack /\ n.out = m.out
      BY <3>2, <3>3, <1>2 DEF Machines
    <3> QED
      BY <3>4, <2>2, <1>3
  <2>3. CASE c.op = "origin"
    <3>1. n = [Ge!Skip(m) EXCEPT !.regs.offset = m.pc]
      BY <2>3 DEF Ge!Command
    <3> QED
      BY <3>1, <2>3, <1>0, <1>2, <1>3, SMTT(30) DEF Machines, Registers
  <2>4. CASE c.op = "vaddr"
    <3>1. n = [Ge!Skip(m) EXCEPT !.regs.vertex = Ge!Relative(m, c.arg)]
      BY <2>4 DEF Ge!Command
    <3> QED
      BY <3>1, <2>4, <1>0, <1>2, <1>3, SMTT(30) DEF Machines, Registers
  <2>5. CASE c.op = "box"
    <3>1. n = [Ge!Skip(m) EXCEPT !.box = c.arg # 0, !.regs.vertex = @ + c.arg]
      BY <2>5 DEF Ge!Command, Ge!Box
    <3>2. Ge!Skip(m).regs.vertex + c.arg \in Nat /\ (c.arg # 0) \in BOOLEAN
      BY <1>0, <1>2 DEF Machines, Registers
    <3> DEFINE seen == c.arg # 0
               v == Ge!Skip(m).regs.vertex + c.arg
    <3>3. n = [Ge!Skip(m) EXCEPT !.box = seen, !.regs.vertex = v]
      BY <3>1
    <3>4. seen \in BOOLEAN /\ v \in Nat
      BY <3>2
    <3> HIDE DEF seen, v
    <3> DEFINE r == [Ge!Skip(m).regs EXCEPT !.vertex = v]
    <3>5. r \in Registers
      BY <3>4, <1>0, <1>2 DEF Machines, Registers
    <3>6. n = [Ge!Skip(m) EXCEPT !.box = seen, !.regs = r]
      BY <3>3, <1>2 DEF Machines
    <3> HIDE DEF r
    <3>7. n \in Machines /\ n.stack = m.stack /\ n.out = m.out
      BY <3>4, <3>5, <3>6, <1>2 DEF Machines
    <3> QED
      BY <3>7, <2>5, <1>3
  <2>6. CASE c.op \in {"clut", "transfer"}
    <3>1. n = Ge!Skip(m)
      BY <2>6 DEF Ge!Command
    <3> QED
      BY <3>1, <2>6, <1>2, <1>3
  <2>7. CASE c.op = "end"
    <3>1. n = m
      BY <2>7 DEF Ge!Command
    <3> QED
      BY <3>1, <2>7, <1>3
  <2> QED
    BY <1>regs, <2>1, <2>2, <2>3, <2>4, <2>5, <2>6, <2>7
<1>prim. CASE c.op = "prim"
  <2> DEFINE o == Append(m.out, <<"prim", m.regs.vertex>>)
             v == m.regs.vertex + c.arg
  <2>1. n = [Ge!Skip(m) EXCEPT !.out = Append(m.out, <<"prim", m.regs.vertex>>), !.regs.vertex = m.regs.vertex + c.arg]
    BY <1>prim, <1>2 DEF Ge!Command, Ge!Prim, Ge!Skip, Machines
  <2>2. o \in Outputs /\ Len(o) = Len(m.out) + 1 /\ v \in Nat
    BY <1>0, AppendProperties DEF Outputs
  <2>3. n = [Ge!Skip(m) EXCEPT !.out = o, !.regs.vertex = v]
    BY <2>1
  <2> HIDE DEF o, v
  <2>4. n \in Machines /\ n.stack = m.stack /\ n.out = o
    BY <2>2, <2>3, <1>0, <1>2, Zenon DEF Machines, Registers
  <2> QED
    BY <2>2, <2>4, <1>3, <1>prim
<1>signal. CASE c.op \in {"signal", "finish"}
  <2> DEFINE o == Append(m.out, <<c.op, c.arg>>)
  <2>1. n = [Ge!Skip(m) EXCEPT !.out = Append(m.out, <<c.op, c.arg>>)]
    BY <1>signal, <1>2 DEF Ge!Command
  <2>2. o \in Outputs /\ Len(o) = Len(m.out) + 1
    BY <1>0, <1>signal, AppendProperties DEF Outputs
  <2>3. n = [Ge!Skip(m) EXCEPT !.out = o]
    BY <2>1
  <2> HIDE DEF o
  <2>4. n \in Machines /\ n.stack = m.stack /\ n.out = o
    BY <2>2, <2>3, <1>0, <1>2 DEF Machines
  <2> QED
    BY <2>2, <2>4, <1>3, <1>signal
<1>9. c.op \in {"jump", "bjump", "call", "ret", "base", "offset", "origin", "vaddr",
                "prim", "box", "signal", "finish", "clut", "transfer", "end"}
  BY DEF Words
<1> QED
  BY <1>9, <1>jump, <1>bjump, <1>call, <1>ret, <1>regs, <1>prim, <1>signal

-----------------------------------------------------------------------------

\* The types of the variables.
GeTyped ==
    /\ memory \in Programs
    /\ lists \in Seq(ListRecords) /\ \A l \in DOMAIN lists : Len(lists[l].stack) <= Depth
    /\ queue \in Seq(Nat)
    /\ regs \in Registers /\ saved \in Registers \cup {Ge!NoRegs}
    /\ run \in Runs \cup {Ge!NoRun}
    /\ callbacks \subseteq CallbackIds /\ texels \in {0, 1} /\ palette \in {0, 1} /\ clut \in {0, 1}
    /\ pending \in [Threads -> Seq(CallbackFrames)]
    /\ out \in Seq(Outputs) /\ Len(out) = Len(lists)
    /\ origin \in Seq(Registers) /\ Len(origin) = Len(lists)
    /\ executed \in Seq(Nat) /\ Len(executed) = Len(lists)
    /\ raised \subseteq Items /\ dispatched \in Seq(Items)

\* The queue, and the list that is being executed.
GeQueue ==
    /\ Ge!QueueHoldsUnfinished
    /\ Ge!Running => /\ run.list \in DOMAIN lists /\ lists[run.list].state = "running"
                     /\ Len(run.stack) <= Depth

\* A run in progress is a record of its locals.
LEMMA RunIs ==
  ASSUME GeTyped
  PROVE  Ge!Running <=> run \in Runs
  BY DEF GeTyped, Ge!Running, Ge!NoRun, Runs

\* A list is taken up: the head of execute_ge_list.
LEMMA BeginIs ==
  ASSUME NEW t \in Threads, NEW ls \in Seq(ListRecords), NEW l \in DOMAIN ls,
         NEW pc \in Nat, NEW stall \in Nat, NEW cb \in Nat, Ge!Begin(t, ls, l, pc, stall, cb)
  PROVE  /\ lists' \in Seq(ListRecords) /\ Len(lists') = Len(ls)
         /\ \A i \in DOMAIN ls :
              /\ lists'[i].pc = ls[i].pc /\ lists'[i].start = ls[i].start
              /\ lists'[i].stack = ls[i].stack /\ lists'[i].box = ls[i].box
              /\ lists'[i].state = IF i = l THEN "running" ELSE ls[i].state
         /\ run' \in Runs /\ run'.list = l /\ run'.pc = pc /\ run'.stack = ls[l].stack
         /\ run'.todo = <<>> /\ run'.thread = t /\ run'.texture = Ge!NoTexture
         /\ Ge!Running'
<1>1. DOMAIN ls = 1..Len(ls) /\ Len(ls) \in Nat
  OBVIOUS
<1>2. lists' = [ls EXCEPT ![l].state = "running"]
  BY DEF Ge!Begin
<1>3. \A i \in DOMAIN ls : ls[i] \in ListRecords
  OBVIOUS
<1> DEFINE r == [ls[l] EXCEPT !.state = "running"]
<1>4. r \in ListRecords
  BY <1>3 DEF ListRecords, Unfinished
<1>5. lists' = [ls EXCEPT ![l] = r]
  BY <1>2
<1>6. /\ r.pc = ls[l].pc /\ r.start = ls[l].start /\ r.stack = ls[l].stack /\ r.box = ls[l].box
      /\ r.state = "running"
  BY <1>3 DEF ListRecords
<1> HIDE DEF r
<1>7. lists' \in Seq(ListRecords) /\ Len(lists') = Len(ls)
  BY <1>4, <1>5, ExceptSeq
<1>8. \A i \in DOMAIN ls : lists'[i] = IF i = l THEN r ELSE ls[i]
  BY <1>5
<1>9. run' = [list |-> l, thread |-> t, pc |-> pc, stall |-> stall, cb |-> cb,
              stack |-> ls[l].stack, words |-> 0, texture |-> Ge!NoTexture, todo |-> <<>>]
  BY DEF Ge!Begin
<1>10. l \in Nat \ {0} /\ 0 \in 0..MaxWords /\ <<>> \in Seq(Items) /\ ls[l].stack \in Seq(Items)
  <2>1. ls[l].stack \in Seq(Items)
    BY <1>3 DEF ListRecords
  <2>2. l \in Nat \ {0} /\ 0 \in 0..MaxWords
    BY <1>1, GeConstants
  <2> QED
    BY <2>1, <2>2
<1>11. run' \in Runs
  BY <1>9, <1>10 DEF Runs
<1>12. Ge!Running'
  BY <1>9, <1>10 DEF Ge!Running, Ge!NoRun
<1> QED
  BY <1>6, <1>7, <1>8, <1>9, <1>11, <1>12

\* A new list comes to one end of the queue and is executed at once.
LEMMA EnQueueTyped ==
  ASSUME GeTyped, GeQueue, NEW t \in Threads, NEW start \in Starts, NEW stall \in Stalls,
         NEW cb \in CallbackIds, NEW head \in BOOLEAN, Ge!ListEnQueue(t, start, stall, cb, head)
  PROVE  LET l == Len(lists) + 1
         IN  /\ GeTyped' /\ GeQueue' /\ ~Ge!Running
             /\ l \notin DOMAIN lists /\ DOMAIN lists' = DOMAIN lists \cup {l}
             /\ \A i \in DOMAIN lists :
                  /\ lists'[i].pc = lists[i].pc /\ lists'[i].start = lists[i].start
                  /\ lists'[i].stack = lists[i].stack /\ lists'[i].box = lists[i].box
                  /\ lists'[i].state = lists[i].state
                  /\ out'[i] = out[i] /\ origin'[i] = origin[i] /\ executed'[i] = executed[i]
             /\ lists'[l].start = start /\ lists'[l].state = "running" /\ ~lists'[l].box
             /\ run'.list = l /\ run'.pc = start /\ run'.stack = <<>> /\ run'.todo = <<>>
             /\ run'.texture = Ge!NoTexture /\ Ge!Running'
             /\ out'[l] = <<>> /\ origin'[l] = regs /\ executed'[l] = 0
             /\ DOMAIN out = DOMAIN lists /\ DOMAIN out' = DOMAIN lists'
             /\ UNCHANGED <<memory, regs, pending, disturbed, raised, dispatched>>
<1> DEFINE l == Len(lists) + 1
           rec == Ge!NewList(start, stall, cb)
           ls == Append(lists, rec)
<1>1. /\ ~Ge!Running /\ queue' = (IF head THEN <<l>> \o queue ELSE Append(queue, l))
      /\ Ge!Begin(t, ls, l, start, stall, cb)
      /\ out' = Append(out, <<>>) /\ origin' = Append(origin, regs)
      /\ executed' = Append(executed, 0)
      /\ UNCHANGED <<memory, regs, pending, callbacks, texels, palette, clut, saved,
                     disturbed, raised, dispatched>>
  BY DEF Ge!ListEnQueue, Ge!Calls
<1>2. start \in Nat /\ stall \in Nat /\ cb \in Nat
  BY GeConstants
<1>3. /\ rec \in ListRecords /\ rec.stack = <<>> /\ rec.state = "queued"
      /\ rec.start = start /\ ~rec.box
  BY <1>2 DEF Ge!NewList, ListRecords, Unfinished
<1> HIDE DEF rec
<1>4. lists \in Seq(ListRecords) /\ Len(lists) \in Nat /\ DOMAIN lists = 1..Len(lists)
  BY DEF GeTyped
<1>5. /\ ls \in Seq(ListRecords) /\ Len(ls) = l /\ DOMAIN ls = 1..l /\ l \in DOMAIN ls /\ ls[l] = rec
      /\ \A i \in DOMAIN lists : i \in DOMAIN ls /\ i # l /\ ls[i] = lists[i]
      /\ \A i \in DOMAIN ls : i = l \/ i \in DOMAIN lists
  BY <1>3, <1>4, AppendProperties
<1>begin. Ge!Begin(t, ls, l, start, stall, cb)
  BY <1>1
<1> HIDE DEF ls
<1>6. /\ lists' \in Seq(ListRecords) /\ Len(lists') = l
      /\ \A i \in DOMAIN ls : /\ lists'[i].stack = ls[i].stack
                              /\ lists'[i].state = IF i = l THEN "running" ELSE ls[i].state
                              /\ lists'[i].pc = ls[i].pc /\ lists'[i].start = ls[i].start
                              /\ lists'[i].box = ls[i].box
      /\ run' \in Runs /\ run'.list = l /\ run'.stack = ls[l].stack /\ Ge!Running'
      /\ run'.pc = start /\ run'.todo = <<>> /\ run'.texture = Ge!NoTexture
  BY <1>begin, <1>2, <1>5, BeginIs
<1>7. DOMAIN lists' = DOMAIN ls /\ l \in Nat
  BY <1>4, <1>5, <1>6
<1>8. \A i \in DOMAIN lists' : Len(lists'[i].stack) <= Depth
  <2> TAKE i \in DOMAIN lists'
  <2>1. CASE i = l
    <3>1. lists'[i].stack = <<>>
      BY <2>1, <1>3, <1>5, <1>6, <1>7
    <3> QED
      BY <3>1, GeConstants
  <2>2. CASE i \in DOMAIN lists
    BY <2>2, <1>5, <1>6, <1>7 DEF GeTyped
  <2> QED
    BY <2>1, <2>2, <1>5, <1>7
<1>9. queue \in Seq(Nat) /\ Len(queue) \in Nat /\ DOMAIN queue = 1..Len(queue)
  BY DEF GeTyped
<1>10. /\ queue' \in Seq(Nat)
       /\ Ge!IsInjective(queue') /\ Ge!ToSet(queue') = Ge!ToSet(queue) \cup {l}
  <2>1. l \notin Ge!ToSet(queue)
    BY <1>4 DEF GeQueue, Ge!QueueHoldsUnfinished
  <2>2. \A j \in 1..Len(queue) : queue[j] # l
    BY <2>1, <1>9 DEF Ge!ToSet
  <2>3. \A j, k \in 1..Len(queue) : queue[j] = queue[k] => j = k
    BY <1>9 DEF GeQueue, Ge!QueueHoldsUnfinished, Ge!IsInjective
  <2>4. CASE head
    <3>1. queue' = <<l>> \o queue
      BY <2>4, <1>1
    <3>2. /\ <<l>> \in Seq(Nat) /\ Len(<<l>>) = 1 /\ <<l>>[1] = l
      BY <1>7
    <3>3. /\ queue' \in Seq(Nat) /\ Len(queue') = 1 + Len(queue) /\ queue'[1] = l
          /\ \A j \in 2..(1 + Len(queue)) : queue'[j] = queue[j - 1]
      BY <3>1, <3>2, <1>9, ConcatProperties
    <3>4. /\ DOMAIN queue' = 1..(1 + Len(queue)) /\ Len(queue') \in Nat
          /\ 1 \in DOMAIN queue'
      BY <3>3, <1>9
    <3>5. \A j \in DOMAIN queue' : j # 1 => j - 1 \in 1..Len(queue) /\ queue'[j] = queue[j - 1]
      <4> TAKE j \in DOMAIN queue'
      <4> HAVE j # 1
      <4>1. j \in 2..(1 + Len(queue)) /\ j - 1 \in 1..Len(queue)
        BY <3>4, <1>9
      <4> QED
        BY <4>1, <3>3
    <3>6. \A j \in 1..Len(queue) : j + 1 \in DOMAIN queue' /\ queue'[j + 1] = queue[j]
      <4> TAKE j \in 1..Len(queue)
      <4>1. j + 1 \in 2..(1 + Len(queue)) /\ j + 1 \in DOMAIN queue' /\ j + 1 - 1 = j
        BY <3>4, <1>9
      <4>2. queue'[j + 1] = queue[j + 1 - 1]
        BY <4>1, <3>3
      <4> QED
        BY <4>1, <4>2
    <3>7. Ge!IsInjective(queue')
      <4>1. ASSUME NEW j \in DOMAIN queue', NEW k \in DOMAIN queue', queue'[j] = queue'[k]
            PROVE  j = k
        <5>1. CASE j = 1 \/ k = 1
          BY <4>1, <5>1, <3>3, <3>5, <2>2
        <5>2. CASE j # 1 /\ k # 1
          <6>1. j - 1 = k - 1
            BY <4>1, <5>2, <3>5, <2>3
          <6> QED
            BY <6>1, <3>4, <1>9
        <5> QED
          BY <5>1, <5>2
      <4> QED
        BY <4>1 DEF Ge!IsInjective
    <3>8. Ge!ToSet(queue') = Ge!ToSet(queue) \cup {l}
      <4>1. ASSUME NEW x \in Ge!ToSet(queue') PROVE x \in Ge!ToSet(queue) \cup {l}
        <5>1. PICK j \in DOMAIN queue' : queue'[j] = x
          BY DEF Ge!ToSet
        <5> QED
          BY <5>1, <3>3, <3>5, <1>9 DEF Ge!ToSet
      <4>2. ASSUME NEW x \in Ge!ToSet(queue) PROVE x \in Ge!ToSet(queue')
        BY <3>6, <1>9 DEF Ge!ToSet
      <4>3. l \in Ge!ToSet(queue')
        BY <3>3, <3>4 DEF Ge!ToSet
      <4> QED
        BY <4>1, <4>2, <4>3
    <3> QED
      BY <3>3, <3>7, <3>8
  <2>5. CASE ~head
    <3>1. queue' = Append(queue, l)
      BY <2>5, <1>1
    <3>2. /\ queue' \in Seq(Nat) /\ Len(queue') = Len(queue) + 1 /\ queue'[Len(queue) + 1] = l
          /\ \A j \in 1..Len(queue) : queue'[j] = queue[j]
      BY <3>1, <1>7, <1>9, AppendProperties
    <3>3. Ge!IsInjective(queue')
      BY <3>2, <2>2, <2>3, <1>9 DEF Ge!IsInjective
    <3>4. Ge!ToSet(queue') = Ge!ToSet(queue) \cup {l}
      BY <3>2, <1>9 DEF Ge!ToSet
    <3> QED
      BY <3>2, <3>3, <3>4
  <2> QED
    BY <2>4, <2>5
<1>11. \A i \in DOMAIN lists : i \in DOMAIN lists' /\ lists'[i].state = lists[i].state
  BY <1>5, <1>6, <1>7
<1>12. l \in DOMAIN lists' /\ lists'[l].state = "running"
  BY <1>5, <1>6, <1>7
<1>13. \A i \in DOMAIN lists' : i = l \/ i \in DOMAIN lists
  BY <1>5, <1>7
<1>14. Ge!ToSet(queue') = {i \in DOMAIN lists' : lists'[i].state \notin Ge!Done}
  <2>1. Ge!ToSet(queue) = {i \in DOMAIN lists : lists[i].state \notin Ge!Done}
    BY DEF GeQueue, Ge!QueueHoldsUnfinished
  <2>2. "running" \notin Ge!Done
    BY DEF Ge!Done
  <2> QED
    BY <2>1, <2>2, <1>10, <1>11, <1>12, <1>13
<1>15. \A i \in DOMAIN lists : lists[i].state \notin {"queued", "running"}
  BY <1>1 DEF GeQueue, Ge!QueueHoldsUnfinished
<1>16. GeQueue'
  <2>1. \A i \in DOMAIN lists' : lists'[i].state \in {"queued", "running"} => Ge!Running' /\ run'.list = i
    BY <1>6, <1>11, <1>13, <1>15
  <2>2. Len(run'.stack) <= Depth
    BY <1>3, <1>5, <1>6, GeConstants
  <2>3. run'.list \in DOMAIN lists' /\ lists'[run'.list].state = "running"
    BY <1>6, <1>12
  <2> QED
    BY <2>1, <2>2, <2>3, <1>10, <1>14 DEF GeQueue, Ge!QueueHoldsUnfinished
<1>17. out' \in Seq(Outputs) /\ Len(out') = Len(lists') /\ origin' \in Seq(Registers) /\ Len(origin') = Len(lists')
  <2>1. <<>> \in Outputs /\ out \in Seq(Outputs) /\ origin \in Seq(Registers) /\ regs \in Registers
    BY DEF Outputs, GeTyped
  <2>2. /\ out' \in Seq(Outputs) /\ Len(out') = Len(out) + 1
    BY <2>1, <1>1, AppendProperties
  <2>3. origin' \in Seq(Registers) /\ Len(origin') = Len(origin) + 1
    BY <2>1, <1>1, AppendProperties
  <2> QED
    BY <2>2, <2>3, <1>6 DEF GeTyped
<1>18. executed' \in Seq(Nat) /\ Len(executed') = Len(lists')
  <2>1. executed \in Seq(Nat) /\ Len(executed) = Len(lists)
    BY DEF GeTyped
  <2> QED
    BY <2>1, <1>1, <1>6, AppendProperties
<1>19. GeTyped'
  BY <1>1, <1>6, <1>8, <1>10, <1>17, <1>18 DEF GeTyped
<1>20. /\ DOMAIN out = DOMAIN lists /\ DOMAIN origin = DOMAIN lists /\ DOMAIN executed = DOMAIN lists
       /\ DOMAIN out' = DOMAIN lists' /\ Len(out) + 1 = l /\ Len(origin) + 1 = l /\ Len(executed) + 1 = l
  <2>1. out \in Seq(Outputs) /\ origin \in Seq(Registers) /\ executed \in Seq(Nat)
    BY DEF GeTyped
  <2>2. Len(out) = Len(lists) /\ Len(origin) = Len(lists) /\ Len(executed) = Len(lists)
    BY DEF GeTyped
  <2> QED
    BY <2>1, <2>2, <1>4, <1>6, <1>17
<1>21. /\ \A i \in DOMAIN lists : out'[i] = out[i] /\ origin'[i] = origin[i] /\ executed'[i] = executed[i]
       /\ out'[l] = <<>> /\ origin'[l] = regs /\ executed'[l] = 0
  <2>1. out \in Seq(Outputs) /\ origin \in Seq(Registers) /\ executed \in Seq(Nat) /\ regs \in Registers
    BY DEF GeTyped
  <2>2. out'[l] = <<>> /\ \A i \in DOMAIN out : out'[i] = out[i]
    <3>1. <<>> \in Outputs /\ out' = Append(out, <<>>) /\ DOMAIN out = 1..Len(out)
      BY <2>1, <1>1 DEF Outputs
    <3> QED
      BY <3>1, <2>1, <1>20, AppendProperties
  <2>3. origin'[l] = regs /\ \A i \in DOMAIN origin : origin'[i] = origin[i]
    <3>1. origin' = Append(origin, regs) /\ DOMAIN origin = 1..Len(origin)
      BY <2>1, <1>1
    <3> QED
      BY <3>1, <2>1, <1>20, AppendProperties
  <2>4. executed'[l] = 0 /\ \A i \in DOMAIN executed : executed'[i] = executed[i]
    <3>1. executed' = Append(executed, 0) /\ DOMAIN executed = 1..Len(executed)
      BY <2>1, <1>1
    <3> QED
      BY <3>1, <2>1, <1>20, AppendProperties
  <2> QED
    BY <2>2, <2>3, <2>4, <1>20
<1>22. \A i \in DOMAIN lists :
         /\ lists'[i].pc = lists[i].pc /\ lists'[i].start = lists[i].start
         /\ lists'[i].stack = lists[i].stack /\ lists'[i].box = lists[i].box
         /\ lists'[i].state = lists[i].state
  BY <1>5, <1>6
<1>23. /\ lists'[l].start = start /\ lists'[l].state = "running" /\ ~lists'[l].box
       /\ run'.stack = <<>>
  BY <1>3, <1>5, <1>6
<1>24. DOMAIN lists' = DOMAIN lists \cup {l} /\ l \notin DOMAIN lists
  BY <1>5, <1>7
<1> HIDE DEF l
<1>25. ~Ge!Running /\ UNCHANGED <<memory, regs, pending, disturbed, raised, dispatched>>
  BY <1>1
<1> QED
  BY <1>6, <1>16, <1>19, <1>20, <1>21, <1>22, <1>23, <1>24, <1>25 DEF l

\* The queue stays as it is while lists are taken up, put down and paused.
LEMMA QueueStays ==
  ASSUME GeQueue, queue' = queue, DOMAIN lists' = DOMAIN lists,
         \A i \in DOMAIN lists : lists'[i].state \in Ge!Done <=> lists[i].state \in Ge!Done,
         \A i \in DOMAIN lists : lists'[i].state \in {"queued", "running"} => Ge!Running' /\ run'.list = i,
         Ge!Running' => /\ run'.list \in DOMAIN lists /\ lists'[run'.list].state = "running"
                        /\ Len(run'.stack) <= Depth
  PROVE  GeQueue'
<1>1. Ge!ToSet(queue') = {i \in DOMAIN lists' : lists'[i].state \notin Ge!Done}
  BY DEF GeQueue, Ge!QueueHoldsUnfinished
<1>2. Ge!IsInjective(queue')
  BY DEF GeQueue, Ge!QueueHoldsUnfinished
<1> QED
  BY <1>1, <1>2 DEF GeQueue, Ge!QueueHoldsUnfinished

\* The fields of the lists.
LEMMA ListsAre ==
  ASSUME GeTyped
  PROVE  /\ lists \in Seq(ListRecords) /\ Len(lists) \in Nat /\ DOMAIN lists = 1..Len(lists)
         /\ \A i \in DOMAIN lists :
              /\ lists[i] \in ListRecords /\ Len(lists[i].stack) <= Depth
              /\ lists[i].pc \in Nat /\ lists[i].stall \in Nat /\ lists[i].cb \in Nat
              /\ lists[i].stack \in Seq(Items) /\ lists[i].start \in Nat /\ lists[i].box \in BOOLEAN
              /\ lists[i].state \in Unfinished \cup Ge!Done
<1>1. lists \in Seq(ListRecords) /\ Len(lists) \in Nat /\ DOMAIN lists = 1..Len(lists)
  BY DEF GeTyped
<1>2. \A i \in DOMAIN lists : lists[i] \in ListRecords
  BY <1>1
<1> QED
  BY <1>1, <1>2 DEF GeTyped, ListRecords

\* A list that is taken up again, as it was but for its stall address.
LEMMA TakenUp ==
  ASSUME GeTyped, GeQueue, NEW t \in Threads, NEW ls \in Seq(ListRecords), NEW l \in DOMAIN lists,
         NEW stall \in Nat, ~Ge!Running, lists[l].state \notin Ge!Done,
         DOMAIN ls = DOMAIN lists,
         \A i \in DOMAIN lists : /\ ls[i].pc = lists[i].pc /\ ls[i].start = lists[i].start
                                 /\ ls[i].stack = lists[i].stack /\ ls[i].box = lists[i].box
                                 /\ i # l => ls[i].state = lists[i].state,
         Ge!Begin(t, ls, l, lists[l].pc, stall, lists[l].cb),
         UNCHANGED <<memory, queue, regs, pending, callbacks, texels, palette, clut,
                     saved, out, origin, executed, disturbed, raised, dispatched>>
  PROVE  /\ GeTyped' /\ GeQueue' /\ DOMAIN lists' = DOMAIN lists
         /\ \A i \in DOMAIN lists : /\ lists'[i].pc = lists[i].pc /\ lists'[i].start = lists[i].start
                                    /\ lists'[i].stack = lists[i].stack /\ lists'[i].box = lists[i].box
                                    /\ i # l => lists'[i].state = lists[i].state
         /\ lists'[l].state = "running"
         /\ Ge!Running' /\ run'.list = l /\ run'.pc = lists[l].pc /\ run'.stack = lists[l].stack
         /\ run'.todo = <<>> /\ run'.thread = t /\ run'.texture = Ge!NoTexture
<1>1. /\ lists' \in Seq(ListRecords) /\ Len(lists') = Len(ls)
      /\ \A i \in DOMAIN ls :
           /\ lists'[i].pc = ls[i].pc /\ lists'[i].start = ls[i].start
           /\ lists'[i].stack = ls[i].stack /\ lists'[i].box = ls[i].box
           /\ lists'[i].state = IF i = l THEN "running" ELSE ls[i].state
      /\ run' \in Runs /\ run'.list = l /\ run'.pc = lists[l].pc /\ run'.stack = ls[l].stack
      /\ run'.todo = <<>> /\ run'.thread = t /\ run'.texture = Ge!NoTexture
      /\ Ge!Running'
  <2>1. lists[l].pc \in Nat /\ lists[l].cb \in Nat /\ l \in DOMAIN ls
    BY ListsAre
  <2> QED
    BY <2>1, BeginIs
<1>2. DOMAIN lists' = DOMAIN lists /\ Len(lists') = Len(lists)
  BY <1>1, ListsAre
<1>3. \A i \in DOMAIN lists : /\ lists'[i].pc = lists[i].pc /\ lists'[i].start = lists[i].start
                              /\ lists'[i].stack = lists[i].stack /\ lists'[i].box = lists[i].box
                              /\ i # l => lists'[i].state = lists[i].state
  BY <1>1
<1>4. lists'[l].state = "running" /\ run'.stack = lists[l].stack
  BY <1>1
<1>5. GeQueue'
  <2>1. "running" \notin Ge!Done
    BY DEF Ge!Done
  <2>2. \A i \in DOMAIN lists : lists[i].state \notin {"queued", "running"}
    BY DEF GeQueue, Ge!QueueHoldsUnfinished
  <2>3. \A i \in DOMAIN lists : lists'[i].state \in Ge!Done <=> lists[i].state \in Ge!Done
    BY <2>1, <1>3, <1>4
  <2>4. \A i \in DOMAIN lists : lists'[i].state \in {"queued", "running"} => Ge!Running' /\ run'.list = i
    BY <2>2, <1>1, <1>3
  <2>5. run'.list \in DOMAIN lists /\ lists'[run'.list].state = "running" /\ Len(run'.stack) <= Depth
    BY <1>1, <1>4, ListsAre
  <2> QED
    BY <2>3, <2>4, <2>5, <1>2, QueueStays
<1>6. \A i \in DOMAIN lists' : Len(lists'[i].stack) <= Depth
  BY <1>2, <1>3, ListsAre
<1>7. GeTyped'
  BY <1>1, <1>2, <1>6 DEF GeTyped
<1> QED
  BY <1>1, <1>2, <1>3, <1>4, <1>5, <1>7

\* A new stall address changes nothing else of the lists.
LEMMA UpdateStallIs ==
  ASSUME GeTyped, GeQueue, NEW t \in Threads, NEW l \in DOMAIN lists, NEW stall \in Stalls,
         Ge!ListUpdateStallAddr(t, l, stall)
  PROVE  \E ls \in Seq(ListRecords) :
           /\ ~Ge!Running /\ lists[l].state \notin Ge!Done
           /\ DOMAIN ls = DOMAIN lists
           /\ \A i \in DOMAIN lists : /\ ls[i].pc = lists[i].pc /\ ls[i].start = lists[i].start
                                      /\ ls[i].stack = lists[i].stack /\ ls[i].box = lists[i].box
                                      /\ i # l => ls[i].state = lists[i].state
           /\ Ge!Begin(t, ls, l, lists[l].pc, stall, lists[l].cb)
           /\ UNCHANGED <<memory, queue, regs, pending, callbacks, texels, palette, clut,
                          saved, out, origin, executed, disturbed, raised, dispatched>>
<1> DEFINE ls == Ge!UpdatedStall(l, stall)
           s == IF lists[l].state = "stalled" /\ lists[l].pc # stall THEN "queued" ELSE lists[l].state
           r == [lists[l] EXCEPT !.stall = stall, !.state = s]
<1>1. lists[l] \in ListRecords /\ stall \in Nat /\ s \in Unfinished \cup Ge!Done
  BY ListsAre, GeConstants DEF Unfinished
<1>2. ls = [lists EXCEPT ![l] = r]
  BY <1>1, ListsAre DEF Ge!UpdatedStall, ListRecords
<1> HIDE DEF s
<1>3. /\ r \in ListRecords /\ r.pc = lists[l].pc /\ r.start = lists[l].start
      /\ r.stack = lists[l].stack /\ r.box = lists[l].box
  BY <1>1 DEF ListRecords
<1> HIDE DEF r
<1>4. /\ ~Ge!Running /\ lists[l].state \notin Ge!Done
      /\ Ge!Begin(t, ls, l, lists[l].pc, stall, lists[l].cb)
      /\ UNCHANGED <<memory, queue, regs, pending, callbacks, texels, palette, clut,
                     saved, out, origin, executed, disturbed, raised, dispatched>>
  BY DEF Ge!ListUpdateStallAddr, Ge!Calls, Ge!geHist
<1> HIDE DEF ls
<1>5. ls \in Seq(ListRecords) /\ DOMAIN ls = DOMAIN lists
  BY <1>2, <1>3, ListsAre, ExceptSeq
<1>6. \A i \in DOMAIN lists : ls[i] = IF i = l THEN r ELSE lists[i]
  BY <1>2
<1>7. \A i \in DOMAIN lists : /\ ls[i].pc = lists[i].pc /\ ls[i].start = lists[i].start
                              /\ ls[i].stack = lists[i].stack /\ ls[i].box = lists[i].box
                              /\ i # l => ls[i].state = lists[i].state
  BY <1>3, <1>6
<1> QED
  BY <1>4, <1>5, <1>7

\* sceGeContinue takes up the first paused list of the queue.
LEMMA ContinueIs ==
  ASSUME GeTyped, GeQueue, NEW t \in Threads, Ge!Continue(t)
  PROVE  \E ls \in Seq(ListRecords) : \E l \in DOMAIN lists : \E stall \in Nat :
           /\ ~Ge!Running /\ lists[l].state \notin Ge!Done
           /\ DOMAIN ls = DOMAIN lists
           /\ \A i \in DOMAIN lists : /\ ls[i].pc = lists[i].pc /\ ls[i].start = lists[i].start
                                      /\ ls[i].stack = lists[i].stack /\ ls[i].box = lists[i].box
                                      /\ i # l => ls[i].state = lists[i].state
           /\ Ge!Begin(t, ls, l, lists[l].pc, stall, lists[l].cb)
           /\ UNCHANGED <<memory, queue, regs, pending, callbacks, texels, palette, clut,
                          saved, out, origin, executed, disturbed, raised, dispatched>>
<1> DEFINE l == Ge!FirstPaused
           ls == Ge!SetState(l, "queued")
           r == [lists[l] EXCEPT !.state = "queued"]
           I == {i \in 1..Len(queue) : lists[queue[i]].state = "paused"}
<1>1. /\ ~Ge!Running /\ l # 0
      /\ Ge!Begin(t, ls, l, lists[l].pc, lists[l].stall, lists[l].cb)
      /\ UNCHANGED <<memory, queue, regs, pending, callbacks, texels, palette, clut,
                     saved, out, origin, executed, disturbed, raised, dispatched>>
  BY DEF Ge!Continue, Ge!Calls, Ge!geHist
<1>2. queue \in Seq(Nat) /\ Len(queue) \in Nat /\ DOMAIN queue = 1..Len(queue)
  BY DEF GeTyped
<1>3. \E i \in 1..Len(queue) : l = queue[i] /\ lists[l].state = "paused"
  <2>1. l = (LET c == IF I # {} THEN Ge!Min(I) ELSE 0 IN IF c = 0 THEN 0 ELSE queue[c])
    BY DEF Ge!FirstPaused, Ge!SelectInSeq
  <2>2. I # {}
    BY <2>1, <1>1, Zenon
  <2>3. Ge!Min(I) \in I
    <3>1. I \subseteq Nat
      BY <1>2
    <3> QED
      BY <2>2, <3>1, SomePlace
  <2> DEFINE c == Ge!Min(I)
  <2>4. c \in 1..Len(queue) /\ lists[queue[c]].state = "paused" /\ l = queue[c]
    BY <2>1, <2>2, <2>3, <1>2
  <2> QED
    BY <2>4
<1> HIDE DEF I
<1>4. l \in DOMAIN lists /\ lists[l].state \notin Ge!Done
  <2>1. l \in Ge!ToSet(queue)
    BY <1>2, <1>3 DEF Ge!ToSet
  <2> QED
    BY <2>1 DEF GeQueue, Ge!QueueHoldsUnfinished
<1> HIDE DEF l
<1>5. lists[l] \in ListRecords /\ lists[l].stall \in Nat
  BY <1>4, ListsAre
<1>6. ls = [lists EXCEPT ![l] = r]
  BY <1>4, <1>5 DEF Ge!SetState
<1>7. /\ r \in ListRecords /\ r.pc = lists[l].pc /\ r.start = lists[l].start
      /\ r.stack = lists[l].stack /\ r.box = lists[l].box
  BY <1>5 DEF ListRecords, Unfinished
<1> HIDE DEF r, ls
<1>8. ls \in Seq(ListRecords) /\ DOMAIN ls = DOMAIN lists
  BY <1>4, <1>6, <1>7, ListsAre, ExceptSeq
<1>9. \A i \in DOMAIN lists : ls[i] = IF i = l THEN r ELSE lists[i]
  BY <1>6
<1>10. \A i \in DOMAIN lists : /\ ls[i].pc = lists[i].pc /\ ls[i].start = lists[i].start
                               /\ ls[i].stack = lists[i].stack /\ ls[i].box = lists[i].box
                               /\ i # l => ls[i].state = lists[i].state
  BY <1>7, <1>9
<1> QED
  BY <1>1, <1>4, <1>5, <1>8, <1>10

\* The list sceGeBreak pauses is in the queue.
LEMMA CurrentQueued ==
  ASSUME GeTyped, Ge!Current # 0
  PROVE  Ge!Current \in Ge!ToSet(queue)
<1> DEFINE I == {i \in 1..Len(queue) : lists[queue[i]].state # "paused"}
<1>1. queue \in Seq(Nat) /\ Len(queue) \in Nat /\ DOMAIN queue = 1..Len(queue)
  BY DEF GeTyped
<1>2. Ge!Current = (LET c == IF I # {} THEN Ge!Min(I) ELSE 0 IN IF c = 0 THEN 0 ELSE queue[c])
  BY DEF Ge!Current, Ge!SelectInSeq
<1>3. I # {}
  BY <1>2
<1>4. Ge!Min(I) \in I
  <2>1. I \subseteq Nat
    BY <1>1
  <2> QED
    BY <1>3, <2>1, SomePlace
<1> DEFINE c == Ge!Min(I)
<1>5. c \in 1..Len(queue) /\ Ge!Current = queue[c]
  BY <1>1, <1>2, <1>3, <1>4
<1> QED
  BY <1>1, <1>5 DEF Ge!ToSet

\* Lists that are paused stay where they are.
LEMMA BreakTyped ==
  ASSUME GeTyped, GeQueue, NEW t, NEW mode \in {0, 1}, Ge!Break(t, mode)
  PROVE  /\ GeTyped' /\ GeQueue' /\ DOMAIN lists' = DOMAIN lists /\ ~Ge!Running
         /\ UNCHANGED <<memory, queue, regs, run, pending, callbacks, texels, palette,
                        clut, saved, out, origin, executed, disturbed, raised, dispatched>>
         /\ \A i \in DOMAIN lists :
              /\ lists'[i].pc = lists[i].pc /\ lists'[i].start = lists[i].start
              /\ lists'[i].stack = lists[i].stack /\ lists'[i].box = lists[i].box
              /\ lists[i].state \in Ge!Done => lists'[i].state = lists[i].state
              /\ lists[i].state \notin Ge!Done => lists'[i].state \notin Ge!Done
<1>1. /\ ~Ge!Running
      /\ lists' = [i \in DOMAIN lists |->
                     IF i \in Ge!Broken(mode) THEN [lists[i] EXCEPT !.state = "paused"] ELSE lists[i]]
      /\ UNCHANGED <<memory, queue, regs, run, pending, callbacks, texels, palette,
                     clut, saved, out, origin, executed, disturbed, raised, dispatched>>
  BY DEF Ge!Break, Ge!Calls, Ge!geHist
<1>2. Ge!Broken(mode) \subseteq Ge!ToSet(queue)
  BY CurrentQueued DEF Ge!Broken
<1>3. \A i \in DOMAIN lists : i \in Ge!Broken(mode) => lists[i].state \notin Ge!Done
  BY <1>2 DEF GeQueue, Ge!QueueHoldsUnfinished
<1> DEFINE p(i) == [lists[i] EXCEPT !.state = "paused"]
<1>4. \A i \in DOMAIN lists : /\ p(i) \in ListRecords /\ p(i).state = "paused"
                              /\ p(i).pc = lists[i].pc /\ p(i).start = lists[i].start
                              /\ p(i).stack = lists[i].stack /\ p(i).box = lists[i].box
  <2> TAKE i \in DOMAIN lists
  <2>1. lists[i] \in ListRecords
    BY ListsAre
  <2> QED
    BY <2>1 DEF ListRecords, Unfinished
<1>5. \A i \in DOMAIN lists : lists'[i] = IF i \in Ge!Broken(mode) THEN p(i) ELSE lists[i]
  BY <1>1
<1> HIDE DEF p
<1>6. DOMAIN lists' = DOMAIN lists
  BY <1>1
<1>7. lists' \in Seq(ListRecords) /\ Len(lists') = Len(lists)
  <2>1. \A i \in 1..Len(lists) : lists'[i] \in ListRecords
    BY <1>4, <1>5, ListsAre
  <2>2. lists' = [i \in 1..Len(lists) |-> lists'[i]]
    BY <1>1, ListsAre
  <2> QED
    BY <2>1, <2>2, ListsAre, IsASeq
<1>8. "paused" \notin Ge!Done
  BY DEF Ge!Done
<1>9. \A i \in DOMAIN lists :
        /\ lists'[i].pc = lists[i].pc /\ lists'[i].start = lists[i].start
        /\ lists'[i].stack = lists[i].stack /\ lists'[i].box = lists[i].box
        /\ lists[i].state \in Ge!Done => lists'[i].state = lists[i].state
        /\ lists[i].state \notin Ge!Done => lists'[i].state \notin Ge!Done
        /\ lists'[i].state = "paused" \/ lists'[i].state = lists[i].state
  BY <1>3, <1>4, <1>5, <1>8
<1>10. GeQueue'
  <2>1. \A i \in DOMAIN lists : lists'[i].state \in {"queued", "running"} => Ge!Running' /\ run'.list = i
    BY <1>1, <1>9 DEF GeQueue, Ge!QueueHoldsUnfinished
  <2>2. ~Ge!Running'
    BY <1>1 DEF Ge!Running
  <2> QED
    BY <2>1, <2>2, <1>1, <1>6, <1>9, QueueStays
<1>11. \A i \in DOMAIN lists' : Len(lists'[i].stack) <= Depth
  BY <1>6, <1>9, ListsAre
<1>12. GeTyped'
  BY <1>1, <1>7, <1>11 DEF GeTyped
<1> QED
  BY <1>1, <1>6, <1>9, <1>10, <1>12

\* The calls that leave lists, runs and callbacks alone.
LEMMA OtherTyped ==
  ASSUME GeTyped, GeQueue, NEW t,
         \/ Ge!SetCallback(t) \/ Ge!SaveContext(t) \/ Ge!RestoreContext(t)
         \/ \E id \in callbacks : Ge!UnsetCallback(t, id)
         \/ Ge!GuestWrites
  PROVE  /\ GeTyped' /\ GeQueue' /\ ~Ge!Running
         /\ UNCHANGED <<memory, lists, queue, run, pending, out, origin, executed, disturbed, raised, dispatched>>
         /\ regs' = regs \/ \A i \in DOMAIN lists : lists[i].state \in Ge!Done
<1>1. /\ ~Ge!Running
      /\ UNCHANGED <<memory, lists, queue, run, pending, out, origin, executed, disturbed, raised, dispatched>>
  BY DEF Ge!SetCallback, Ge!SaveContext, Ge!RestoreContext, Ge!UnsetCallback, Ge!GuestWrites,
         Ge!Calls, Ge!geHist
<1>2. callbacks' \subseteq CallbackIds
  BY DEF Ge!SetCallback, Ge!SaveContext, Ge!RestoreContext, Ge!UnsetCallback, Ge!GuestWrites, GeTyped
<1>3. texels' \in {0, 1} /\ palette' \in {0, 1} /\ clut' \in {0, 1}
  BY DEF Ge!SetCallback, Ge!SaveContext, Ge!RestoreContext, Ge!UnsetCallback, Ge!GuestWrites, GeTyped
<1>4. /\ regs' \in Registers /\ saved' \in Registers \cup {Ge!NoRegs}
      /\ regs' = regs \/ \A i \in DOMAIN lists : lists[i].state \in Ge!Done
  <2>1. CASE Ge!RestoreContext(t)
    <3>1. regs' = saved /\ saved # Ge!NoRegs /\ ~Ge!Busy /\ saved' = saved
      BY <2>1 DEF Ge!RestoreContext
    <3>2. \A i \in DOMAIN lists : lists[i].state \in Ge!Done
      BY <3>1 DEF Ge!Busy, GeQueue, Ge!QueueHoldsUnfinished
    <3> QED
      BY <3>1, <3>2 DEF GeTyped
  <2>2. CASE Ge!SaveContext(t)
    BY <2>2 DEF Ge!SaveContext, GeTyped
  <2>3. CASE \/ Ge!SetCallback(t) \/ Ge!GuestWrites
             \/ \E id \in callbacks : Ge!UnsetCallback(t, id)
    BY <2>3 DEF Ge!SetCallback, Ge!UnsetCallback, Ge!GuestWrites, GeTyped
  <2> QED
    BY <2>1, <2>2, <2>3
<1>5. GeQueue'
  BY <1>1 DEF GeQueue, Ge!QueueHoldsUnfinished, Ge!Running
<1>6. GeTyped'
  BY <1>1, <1>2, <1>3, <1>4 DEF GeTyped
<1> QED
  BY <1>1, <1>4, <1>5, <1>6

-----------------------------------------------------------------------------
\* The machine of the list that is being executed.
Engine == [pc |-> run.pc, stack |-> run.stack, regs |-> regs, box |-> lists[run.list].box,
           out |-> out[run.list]]

\* The machine that is being executed, and the rest of the run.
LEMMA EngineTyped ==
  ASSUME GeTyped, GeQueue, Ge!Running
  PROVE  /\ run \in Runs /\ run.list \in DOMAIN lists /\ run.list \in DOMAIN out /\ DOMAIN out = DOMAIN lists
         /\ run.list \in Nat \ {0} /\ run.thread \in Threads /\ run.words \in 0..MaxWords
         /\ run.pc \in Nat /\ run.stack \in Seq(Items) /\ run.stall \in Nat /\ run.todo \in Seq(Items)
         /\ out[run.list] \in Outputs /\ Len(run.stack) <= Depth
         /\ Engine \in Machines /\ Engine.stack = run.stack /\ Engine.out = out[run.list]
         /\ lists[run.list].state = "running"
<1>1. run \in Runs
  BY RunIs
<1>2. /\ run.list \in Nat \ {0} /\ run.thread \in Threads /\ run.words \in 0..MaxWords
      /\ run.pc \in Nat /\ run.stack \in Seq(Items) /\ run.stall \in Nat /\ run.todo \in Seq(Items)
  BY <1>1 DEF Runs
<1>3. run.list \in DOMAIN lists /\ Len(run.stack) <= Depth /\ lists[run.list].state = "running"
  BY DEF GeQueue
<1>4. out \in Seq(Outputs) /\ DOMAIN out = DOMAIN lists
  BY ListsAre DEF GeTyped
<1>5. out[run.list] \in Outputs
  BY <1>3, <1>4
<1>6. regs \in Registers /\ lists[run.list].box \in BOOLEAN
  BY <1>3, ListsAre DEF GeTyped
<1>7. Engine \in Machines
  BY <1>2, <1>5, <1>6 DEF Engine, Machines
<1>8. Engine.stack = run.stack /\ Engine.out = out[run.list]
  BY DEF Engine
<1> QED
  BY <1>1, <1>2, <1>3, <1>4, <1>5, <1>7, <1>8

\* One command: what it does to the machine, the texture and the callbacks asked for.
LEMMA StepIs ==
  ASSUME GeTyped, GeQueue, Ge!Step
  PROVE  \E c \in Words, m \in Machines :
           /\ Ge!Running /\ run.pc \in DOMAIN memory /\ c = memory[run.pc] /\ c.op # "end"
           /\ m = Ge!Command(Engine, c) /\ Len(m.stack) <= Depth /\ run.words < MaxWords
           /\ run'.pc = m.pc /\ run'.stack = m.stack /\ run'.list = run.list /\ run'.thread = run.thread
           /\ run' \in Runs
           /\ run'.todo = IF Ge!Asks(c) THEN Append(run.todo, <<run.list, Len(m.out)>>) ELSE run.todo
           /\ Ge!Asks(c) => Len(m.out) = Len(out[run.list]) + 1
           /\ Len(m.out) >= Len(out[run.list])
           /\ texels' \in {0, 1} /\ clut' \in {0, 1}
           /\ run'.texture # Ge!NoTexture =>
                \/ run'.texture = <<texels', clut'>>
                \/ run.texture # Ge!NoTexture /\ run'.texture = run.texture /\ texels' = texels /\ clut' = clut
           /\ regs' = m.regs
           /\ lists' = [lists EXCEPT ![run.list].box = m.box]
           /\ out' = [out EXCEPT ![run.list] = m.out]
           /\ executed' = [executed EXCEPT ![run.list] = executed[run.list] + 1]
           /\ raised' = IF Ge!Asks(c) THEN raised \cup {<<run.list, Len(m.out)>>} ELSE raised
           /\ disturbed' = IF m.regs = regs THEN disturbed
                           ELSE disturbed \cup {i \in Ge!ToSet(queue) : i # run.list}
           /\ UNCHANGED <<memory, queue, pending, callbacks, palette, saved, origin, dispatched>>
<1>1. Ge!Running /\ ~Ge!Halted /\ memory[run.pc].op # "end"
  BY DEF Ge!Step
<1>2. run.pc \in DOMAIN memory /\ run.words # MaxWords
  BY <1>1 DEF Ge!Halted, Ge!Unmapped
<1> DEFINE c == memory[run.pc]
           m == Ge!Command(Engine, c)
           asked == <<run.list, Len(m.out)>>
           shown == CASE c.op = "prim" /\ run.texture = Ge!NoTexture -> <<texels, clut>>
                      [] c.op = "transfer" \/ (c.op = "clut" /\ palette # clut) ->
                           Ge!Invalidate(run.texture)
                      [] OTHER -> run.texture
           w == run.words + 1
           td == IF Ge!Asks(c) THEN Append(run.todo, asked) ELSE run.todo
<1>3. c \in Words
  BY <1>2, GeConstants DEF GeTyped
<1>4. /\ m \in Machines /\ Len(m.stack) <= Depth /\ Len(m.out) >= Len(out[run.list])
      /\ c.op \in {"signal", "finish"} => Len(m.out) = Len(out[run.list]) + 1
  BY <1>1, <1>3, EngineTyped, CommandIs
<1>5. /\ run' = [run EXCEPT !.pc = m.pc, !.stack = m.stack, !.words = w,
                            !.texture = shown, !.todo = td]
      /\ clut' = (IF c.op = "clut" THEN palette ELSE clut)
      /\ texels' \in (IF c.op = "transfer" THEN {0, 1} ELSE {texels})
      /\ regs' = m.regs
      /\ lists' = [lists EXCEPT ![run.list].box = m.box]
      /\ out' = [out EXCEPT ![run.list] = m.out]
      /\ executed' = [executed EXCEPT ![run.list] = executed[run.list] + 1]
      /\ raised' = (IF Ge!Asks(c) THEN raised \cup {asked} ELSE raised)
      /\ disturbed' = (IF m.regs = regs THEN disturbed
                       ELSE disturbed \cup {i \in Ge!ToSet(queue) : i # run.list})
      /\ UNCHANGED <<memory, queue, pending, callbacks, palette, saved, origin, dispatched>>
  BY <1>1 DEF Ge!Step, Engine
<1>6. texels' \in {0, 1} /\ clut' \in {0, 1}
  BY <1>5 DEF GeTyped
<1>7. run \in Runs /\ run.texture \in {Ge!NoTexture} \cup ({0, 1} \X {0, 1}) /\ <<texels, clut>> \in {0, 1} \X {0, 1}
  BY <1>1, EngineTyped DEF Runs, GeTyped
<1>8. \/ c.op = "prim" /\ run.texture = Ge!NoTexture /\ shown = <<texels, clut>>
      \/ (c.op = "transfer" \/ (c.op = "clut" /\ palette # clut)) /\ shown = Ge!NoTexture
      \/ /\ shown = run.texture
         /\ c.op = "prim" => run.texture # Ge!NoTexture
         /\ c.op # "transfer" /\ (c.op = "clut" => palette = clut)
  BY DEF Ge!Invalidate
<1>9. m.pc \in Nat /\ m.stack \in Seq(Items) /\ Len(m.out) \in Nat
  BY <1>4 DEF Machines, Outputs
<1>10. w \in 0..MaxWords /\ run.words < MaxWords
  BY <1>1, <1>2, EngineTyped, GeConstants
<1>11. td \in Seq(Items)
  <2>1. asked \in Items
    BY <1>1, <1>9, EngineTyped DEF Items
  <2>2. run.todo \in Seq(Items)
    BY <1>1, EngineTyped
  <2> QED
    BY <2>1, <2>2, AppendProperties
<1>12. shown \in {Ge!NoTexture} \cup ({0, 1} \X {0, 1})
  BY <1>7, <1>8
<1>13. shown # Ge!NoTexture =>
         \/ shown = <<texels', clut'>>
         \/ run.texture # Ge!NoTexture /\ shown = run.texture /\ texels' = texels /\ clut' = clut
  BY <1>5, <1>8
<1>14. Ge!Asks(c) => Len(m.out) = Len(out[run.list]) + 1
  BY <1>4 DEF Ge!Asks
<1>15. td = IF Ge!Asks(c) THEN Append(run.todo, <<run.list, Len(m.out)>>) ELSE run.todo
  OBVIOUS
<1>16. asked = <<run.list, Len(m.out)>> /\ m = Ge!Command(Engine, c) /\ c = memory[run.pc]
  OBVIOUS
<1> HIDE DEF asked, shown, w, td, m, c
<1>17. /\ run' \in Runs /\ run'.pc = m.pc /\ run'.stack = m.stack /\ run'.list = run.list
       /\ run'.thread = run.thread /\ run'.todo = td /\ run'.texture = shown
  BY <1>5, <1>7, <1>9, <1>10, <1>11, <1>12 DEF Runs
<1> QED
  BY <1>1, <1>2, <1>3, <1>4, <1>5, <1>6, <1>10, <1>13, <1>14, <1>15, <1>16, <1>17

\* One command changes nothing of the lists but a bounding-box flag.
LEMMA StepTyped ==
  ASSUME GeTyped, GeQueue, Ge!Step
  PROVE  /\ GeTyped' /\ GeQueue' /\ DOMAIN lists' = DOMAIN lists
         /\ \A i \in DOMAIN lists :
              /\ lists'[i].pc = lists[i].pc /\ lists'[i].start = lists[i].start
              /\ lists'[i].stack = lists[i].stack /\ lists'[i].state = lists[i].state
              /\ i # run.list => lists'[i].box = lists[i].box
<1> DEFINE l == run.list
<1>1. PICK c \in Words, m \in Machines :
           /\ Ge!Running /\ run.pc \in DOMAIN memory /\ c = memory[run.pc] /\ c.op # "end"
           /\ m = Ge!Command(Engine, c) /\ Len(m.stack) <= Depth /\ run.words < MaxWords
           /\ run'.pc = m.pc /\ run'.stack = m.stack /\ run'.list = run.list /\ run'.thread = run.thread
           /\ run' \in Runs
           /\ Ge!Asks(c) => Len(m.out) = Len(out[run.list]) + 1
           /\ Len(m.out) >= Len(out[run.list])
           /\ texels' \in {0, 1} /\ clut' \in {0, 1}
           /\ regs' = m.regs
           /\ lists' = [lists EXCEPT ![run.list].box = m.box]
           /\ out' = [out EXCEPT ![run.list] = m.out]
           /\ executed' = [executed EXCEPT ![run.list] = executed[run.list] + 1]
           /\ raised' = IF Ge!Asks(c) THEN raised \cup {<<run.list, Len(m.out)>>} ELSE raised
           /\ UNCHANGED <<memory, queue, pending, callbacks, palette, saved, origin, dispatched>>
  BY StepIs
<1>2. /\ l \in DOMAIN lists /\ l \in DOMAIN out /\ DOMAIN out = DOMAIN lists /\ l \in Nat \ {0}
      /\ lists[l].state = "running"
  BY <1>1, EngineTyped
<1>3. lists[l] \in ListRecords /\ m.box \in BOOLEAN /\ m.out \in Outputs /\ m.regs \in Registers
  BY <1>2, ListsAre DEF Machines
<1> DEFINE r == [lists[l] EXCEPT !.box = m.box]
<1>4. lists' = [lists EXCEPT ![l] = r]
  BY <1>1
<1>5. /\ r \in ListRecords /\ r.pc = lists[l].pc /\ r.start = lists[l].start
      /\ r.stack = lists[l].stack /\ r.state = lists[l].state
  BY <1>3 DEF ListRecords
<1> HIDE DEF r
<1>6. lists' \in Seq(ListRecords) /\ Len(lists') = Len(lists) /\ DOMAIN lists' = DOMAIN lists
  BY <1>2, <1>4, <1>5, ListsAre, ExceptSeq
<1>7. \A i \in DOMAIN lists : lists'[i] = IF i = l THEN r ELSE lists[i]
  BY <1>4
<1>8. \A i \in DOMAIN lists :
        /\ lists'[i].pc = lists[i].pc /\ lists'[i].start = lists[i].start
        /\ lists'[i].stack = lists[i].stack /\ lists'[i].state = lists[i].state
        /\ i # l => lists'[i].box = lists[i].box
  BY <1>5, <1>7
<1>9. Ge!Running'
  BY <1>1, <1>2 DEF Ge!Running, Ge!NoRun, Runs
<1>10. GeQueue'
  <2>1. \A i \in DOMAIN lists : lists[i].state \in {"queued", "running"} => l = i
    BY <1>1 DEF GeQueue, Ge!QueueHoldsUnfinished
  <2>2. \A i \in DOMAIN lists : lists'[i].state \in {"queued", "running"} => Ge!Running' /\ run'.list = i
    BY <2>1, <1>1, <1>8, <1>9
  <2>3. run'.list \in DOMAIN lists /\ lists'[run'.list].state = "running" /\ Len(run'.stack) <= Depth
    BY <1>1, <1>2, <1>8
  <2>4. queue' = queue
    BY <1>1
  <2>5. \A i \in DOMAIN lists : lists'[i].state \in Ge!Done <=> lists[i].state \in Ge!Done
    BY <1>8
  <2> QED
    BY <2>2, <2>3, <2>4, <2>5, <1>6, QueueStays
<1>11. \A i \in DOMAIN lists' : Len(lists'[i].stack) <= Depth
  BY <1>6, <1>8, ListsAre
<1>12. out' \in Seq(Outputs) /\ Len(out') = Len(lists')
  <2>1. out \in Seq(Outputs) /\ Len(out) = Len(lists)
    BY DEF GeTyped
  <2> QED
    BY <2>1, <1>1, <1>2, <1>3, <1>6, ExceptSeq
<1>count. executed' \in Seq(Nat) /\ Len(executed') = Len(lists')
  <2>1. executed \in Seq(Nat) /\ Len(executed) = Len(lists)
    BY DEF GeTyped
  <2>2. l \in 1..Len(executed)
    BY <2>1, <1>2, ListsAre
  <2>3. l \in DOMAIN executed /\ executed[l] + 1 \in Nat
    BY <2>1, <2>2
  <2> QED
    BY <2>1, <2>3, <1>1, <1>6, ExceptSeq
<1>13. raised' \subseteq Items
  <2>1. Len(m.out) \in Nat
    BY <1>3 DEF Outputs
  <2>2. <<l, Len(m.out)>> \in Items
    BY <2>1, <1>2 DEF Items
  <2> QED
    BY <2>2, <1>1 DEF GeTyped
<1>14. GeTyped'
  <2>1. /\ memory \in Programs /\ queue \in Seq(Nat) /\ saved \in Registers \cup {Ge!NoRegs}
        /\ callbacks \subseteq CallbackIds /\ palette \in {0, 1}
        /\ pending \in [Threads -> Seq(CallbackFrames)]
        /\ origin \in Seq(Registers) /\ Len(origin) = Len(lists) /\ dispatched \in Seq(Items)
    BY DEF GeTyped
  <2> QED
    BY <2>1, <1>1, <1>3, <1>6, <1>11, <1>12, <1>13, <1>count DEF GeTyped
<1> QED
  BY <1>6, <1>8, <1>10, <1>14

\* What is left of a queue when a list leaves it.
LEMMA LeaveQueue ==
  ASSUME NEW s \in Seq(Nat), Ge!IsInjective(s), NEW e \in Ge!ToSet(s)
  PROVE  LET r == Ge!RemoveFirst(s, e)
         IN  r \in Seq(Nat) /\ Ge!IsInjective(r) /\ Ge!ToSet(r) = Ge!ToSet(s) \ {e}
<1>1. PICK i \in 1..Len(s) : s[i] = e
  BY DEF Ge!ToSet
<1>once. \A j, k \in 1..Len(s) : s[j] = s[k] => j = k
  BY DEF Ge!IsInjective
<1>2. Ge!RemoveFirst(s, e) = SubSeq(s, 1, i - 1) \o SubSeq(s, i + 1, Len(s))
  <2>1. {j \in 1..Len(s) : s[j] = e} = {i}
    BY <1>1, <1>once
  <2>2. Ge!SelectInSeq(s, LAMBDA v : v = e) = Ge!Min({j \in 1..Len(s) : s[j] = e})
    BY <2>1 DEF Ge!SelectInSeq
  <2>3. Ge!Min({i}) = i
    BY DEF Ge!Min
  <2> QED
    BY <1>1, <2>1, <2>2, <2>3 DEF Ge!RemoveFirst, Ge!RemoveAt
<1> DEFINE a == SubSeq(s, 1, i - 1)
           b == SubSeq(s, i + 1, Len(s))
           r == a \o b
           n == Len(s)
<1>3. a \in Seq(Nat) /\ Len(a) = i - 1 /\ \A j \in 1..(i - 1) : a[j] = s[j]
  BY SubSeqProperties
<1>4. b \in Seq(Nat) /\ Len(b) = n - i /\ \A j \in 1..(n - i) : b[j] = s[i + j]
  BY SubSeqProperties
<1>5. Ge!RemoveFirst(s, e) = r
  BY <1>2
<1> HIDE DEF a, b
<1>6. r \in Seq(Nat) /\ Len(r) = n - 1
  <2>1. r \in Seq(Nat) /\ Len(r) = Len(a) + Len(b)
    BY <1>3, <1>4, ConcatProperties
  <2> QED
    BY <1>3, <1>4, <2>1
<1>7. \A j \in 1..(n - 1) : r[j] = IF j < i THEN s[j] ELSE s[j + 1]
  <2> TAKE j \in 1..(n - 1)
  <2>1. CASE j < i
    BY <2>1, <1>3, <1>4, SMTT(30)
  <2>2. CASE ~(j < i)
    <3>1. (a \o b)[j] = b[j - (i - 1)]
      <4>1. j \in 1..(Len(a) + Len(b)) /\ ~(j <= Len(a)) /\ j - Len(a) = j - (i - 1)
        BY <2>2, <1>3, <1>4
      <4>2. (a \o b)[j] = b[j - Len(a)]
        BY <4>1, <1>3, <1>4, ConcatProperties
      <4> QED
        BY <4>1, <4>2
    <3>2. j - (i - 1) \in 1..(n - i) /\ i + (j - (i - 1)) = j + 1
      BY <2>2
    <3> QED
      BY <2>2, <3>1, <3>2, <1>4
  <2> QED
    BY <2>1, <2>2
<1> HIDE DEF r
<1>8. DOMAIN r = 1..(n - 1) /\ n \in Nat /\ i \in 1..n
  BY <1>6
<1>9. Ge!IsInjective(r)
  <2>1. ASSUME NEW j \in 1..(n - 1), NEW k \in 1..(n - 1), r[j] = r[k]
        PROVE  j = k
    <3> DEFINE x == IF j < i THEN j ELSE j + 1
               y == IF k < i THEN k ELSE k + 1
    <3>1. x \in 1..n /\ y \in 1..n /\ s[x] = r[j] /\ s[y] = r[k]
      BY <1>7, <1>8, SMTT(30)
    <3>2. x = y
      BY <2>1, <3>1, <1>once
    <3> QED
      BY <3>2, <1>8
  <2> QED
    BY <2>1, <1>8 DEF Ge!IsInjective
<1>10. Ge!ToSet(r) = Ge!ToSet(s) \ {e}
  <2>1. ASSUME NEW j \in 1..(n - 1)
        PROVE  r[j] \in Ge!ToSet(s) \ {e}
    <3> DEFINE x == IF j < i THEN j ELSE j + 1
    <3>1. x \in 1..n /\ x # i /\ s[x] = r[j]
      BY <1>7, <1>8
    <3>2. s[x] # e
      BY <3>1, <1>1, <1>once
    <3> QED
      BY <3>1, <3>2 DEF Ge!ToSet
  <2>2. ASSUME NEW j \in 1..n, s[j] # e
        PROVE  s[j] \in Ge!ToSet(r)
    <3> DEFINE x == IF j < i THEN j ELSE j - 1
    <3>1. j # i
      BY <2>2, <1>1
    <3>2. x \in 1..(n - 1) /\ r[x] = s[j]
      BY <3>1, <1>7, <1>8
    <3> QED
      BY <3>2, <1>8 DEF Ge!ToSet
  <2> QED
    BY <2>1, <2>2, <1>8 DEF Ge!ToSet
<1> QED
  BY <1>5, <1>6, <1>9, <1>10

\* What an execution stores when it stops.
LEMMA StopIs ==
  ASSUME GeTyped, GeQueue, Ge!Stop
  PROVE  \E state \in {"stalled"} \cup Ge!Done :
           /\ Ge!Running
           /\ lists' = [lists EXCEPT ![run.list] = [@ EXCEPT !.pc = run.pc, !.stall = run.stall,
                                                             !.stack = run.stack, !.state = state]]
           /\ queue' = IF state = "stalled" THEN queue ELSE Ge!RemoveFirst(queue, run.list)
           /\ state = "completed" => run.pc \in DOMAIN memory /\ memory[run.pc].op = "end"
           /\ pending' = IF run.todo = <<>> THEN pending
                         ELSE [pending EXCEPT ![run.thread] =
                                 Append(@, [todo |-> run.todo, inside |-> FALSE])]
           /\ run' = Ge!NoRun
           /\ UNCHANGED <<memory, regs, callbacks, texels, palette, clut, saved,
                          out, origin, executed, disturbed, raised, dispatched>>
<1>1. /\ Ge!Running /\ run' = Ge!NoRun
      /\ pending' = (IF run.todo = <<>> THEN pending
                     ELSE [pending EXCEPT ![run.thread] =
                             Append(@, [todo |-> run.todo, inside |-> FALSE])])
      /\ UNCHANGED <<memory, regs, callbacks, texels, palette, clut, saved,
                     out, origin, executed, disturbed, raised, dispatched>>
  BY DEF Ge!Stop, Ge!geHist
<1> DEFINE l == run.list
           left(state) == [lists[l] EXCEPT !.pc = run.pc, !.stall = run.stall,
                                           !.stack = run.stack, !.state = state]
<1>2. l \in DOMAIN lists /\ lists[l] \in ListRecords
  BY <1>1, EngineTyped, ListsAre
<1>3. \A state \in {"stalled"} \cup Ge!Done : [Ge!Left EXCEPT !.state = state] = left(state)
  BY <1>2 DEF Ge!Left, ListRecords
<1>4. \A state \in {"stalled"} \cup Ge!Done :
        [lists EXCEPT ![l] = [@ EXCEPT !.pc = run.pc, !.stall = run.stall,
                                       !.stack = run.stack, !.state = state]]
          = [lists EXCEPT ![l] = left(state)]
  OBVIOUS
<1> HIDE DEF left
<1>5. CASE Ge!AtStall /\ lists' = [lists EXCEPT ![run.list] = [Ge!Left EXCEPT !.state = "stalled"]] /\ queue' = queue
  <2>1. lists' = [lists EXCEPT ![l] = left("stalled")]
    BY <1>3, <1>5
  <2>2. "stalled" \in {"stalled"} \cup Ge!Done /\ "stalled" # "completed"
    OBVIOUS
  <2> QED
    BY <2>1, <2>2, <1>1, <1>4, <1>5
<1>6. CASE Ge!Finish(run.list, Ge!Left, "error")
  <2>1. lists' = [lists EXCEPT ![l] = left("error")] /\ queue' = Ge!RemoveFirst(queue, l)
    BY <1>3, <1>6 DEF Ge!Finish, Ge!Done
  <2>2. "error" \in {"stalled"} \cup Ge!Done /\ "error" # "completed" /\ "error" # "stalled"
    BY DEF Ge!Done
  <2> QED
    BY <2>1, <2>2, <1>1, <1>4
<1>7. CASE ~Ge!Halted /\ memory[run.pc].op = "end" /\ Ge!Finish(run.list, Ge!Left, "completed")
  <2>1. lists' = [lists EXCEPT ![l] = left("completed")] /\ queue' = Ge!RemoveFirst(queue, l)
    BY <1>3, <1>7 DEF Ge!Finish, Ge!Done
  <2>2. "completed" \in {"stalled"} \cup Ge!Done /\ "completed" # "stalled"
    BY DEF Ge!Done
  <2>3. run.pc \in DOMAIN memory
    BY <1>7 DEF Ge!Halted, Ge!Unmapped
  <2> QED
    BY <2>1, <2>2, <2>3, <1>1, <1>4, <1>7
<1> QED
  BY <1>5, <1>6, <1>7, Zenon DEF Ge!Stop

\* A list that is done leaves the queue, one that stalls stays.
LEMMA StopTyped ==
  ASSUME GeTyped, GeQueue, Ge!Stop
  PROVE  /\ GeTyped' /\ GeQueue' /\ DOMAIN lists' = DOMAIN lists
         /\ \A i \in DOMAIN lists :
              /\ lists'[i].start = lists[i].start /\ lists'[i].box = lists[i].box
              /\ i # run.list => /\ lists'[i].pc = lists[i].pc /\ lists'[i].stack = lists[i].stack
                                 /\ lists'[i].state = lists[i].state
         /\ lists'[run.list].pc = run.pc /\ lists'[run.list].stack = run.stack
         /\ lists'[run.list].state \in {"stalled"} \cup Ge!Done
         /\ lists'[run.list].state = "completed" => run.pc \in DOMAIN memory /\ memory[run.pc].op = "end"
<1> DEFINE l == run.list
<1>1. PICK state \in {"stalled"} \cup Ge!Done :
           /\ Ge!Running
           /\ lists' = [lists EXCEPT ![run.list] = [@ EXCEPT !.pc = run.pc, !.stall = run.stall,
                                                             !.stack = run.stack, !.state = state]]
           /\ queue' = IF state = "stalled" THEN queue ELSE Ge!RemoveFirst(queue, run.list)
           /\ state = "completed" => run.pc \in DOMAIN memory /\ memory[run.pc].op = "end"
           /\ pending' = IF run.todo = <<>> THEN pending
                         ELSE [pending EXCEPT ![run.thread] =
                                 Append(@, [todo |-> run.todo, inside |-> FALSE])]
           /\ run' = Ge!NoRun
           /\ UNCHANGED <<memory, regs, callbacks, texels, palette, clut, saved,
                          out, origin, executed, disturbed, raised, dispatched>>
  BY StopIs
<1>2. /\ l \in DOMAIN lists /\ lists[l] \in ListRecords /\ lists[l].state = "running"
      /\ run.pc \in Nat /\ run.stack \in Seq(Items) /\ run.stall \in Nat /\ Len(run.stack) <= Depth
      /\ run.thread \in Threads /\ run.todo \in Seq(Items)
  BY <1>1, EngineTyped, ListsAre
<1> DEFINE r == [lists[l] EXCEPT !.pc = run.pc, !.stall = run.stall, !.stack = run.stack, !.state = state]
<1>3. lists' = [lists EXCEPT ![l] = r]
  BY <1>1
<1>4. /\ r \in ListRecords /\ r.pc = run.pc /\ r.start = lists[l].start
      /\ r.stack = run.stack /\ r.state = state /\ r.box = lists[l].box
  BY <1>2 DEF ListRecords, Unfinished
<1> HIDE DEF r
<1>5. lists' \in Seq(ListRecords) /\ Len(lists') = Len(lists) /\ DOMAIN lists' = DOMAIN lists
  BY <1>2, <1>3, <1>4, ListsAre, ExceptSeq
<1>6. \A i \in DOMAIN lists : lists'[i] = IF i = l THEN r ELSE lists[i]
  BY <1>3
<1>7. /\ \A i \in DOMAIN lists :
           /\ lists'[i].start = lists[i].start /\ lists'[i].box = lists[i].box
           /\ i # l => /\ lists'[i].pc = lists[i].pc /\ lists'[i].stack = lists[i].stack
                       /\ lists'[i].state = lists[i].state
      /\ lists'[l].pc = run.pc /\ lists'[l].stack = run.stack /\ lists'[l].state = state
  BY <1>2, <1>4, <1>6
<1>8. \A i \in DOMAIN lists' : Len(lists'[i].stack) <= Depth
  <2> TAKE i \in DOMAIN lists'
  <2>1. CASE i = l
    BY <2>1, <1>2, <1>7
  <2>2. CASE i # l
    BY <2>2, <1>5, <1>7, ListsAre
  <2> QED
    BY <2>1, <2>2
<1>9. ~Ge!Running'
  BY <1>1 DEF Ge!Running
<1>10. queue \in Seq(Nat) /\ Ge!IsInjective(queue) /\ l \in Ge!ToSet(queue)
       /\ Ge!ToSet(queue) = {i \in DOMAIN lists : lists[i].state \notin Ge!Done}
  <2>1. "running" \notin Ge!Done
    BY DEF Ge!Done
  <2> QED
    BY <2>1, <1>2 DEF GeTyped, GeQueue, Ge!QueueHoldsUnfinished
<1>11. /\ queue' \in Seq(Nat) /\ Ge!IsInjective(queue')
       /\ Ge!ToSet(queue') = {i \in DOMAIN lists' : lists'[i].state \notin Ge!Done}
  <2>1. CASE state = "stalled"
    <3>1. queue' = queue
      BY <2>1, <1>1
    <3>2. "stalled" \notin Ge!Done /\ "running" \notin Ge!Done
      BY DEF Ge!Done
    <3>3. \A i \in DOMAIN lists : lists'[i].state \in Ge!Done <=> lists[i].state \in Ge!Done
      BY <2>1, <3>2, <1>2, <1>7
    <3> QED
      BY <3>1, <3>3, <1>5, <1>10
  <2>2. CASE state # "stalled"
    <3>1. state \in Ge!Done
      BY <2>2
    <3>2. /\ queue' \in Seq(Nat) /\ Ge!IsInjective(queue')
          /\ Ge!ToSet(queue') = Ge!ToSet(queue) \ {l}
      BY <2>2, <1>1, <1>10, LeaveQueue
    <3>3. {i \in DOMAIN lists' : lists'[i].state \notin Ge!Done}
            = {i \in DOMAIN lists : lists[i].state \notin Ge!Done} \ {l}
      BY <3>1, <1>2, <1>5, <1>7
    <3> QED
      BY <3>2, <3>3, <1>10
  <2> QED
    BY <2>1, <2>2
<1>12. GeQueue'
  <2>1. \A i \in DOMAIN lists : i # l => lists[i].state \notin {"queued", "running"}
    BY <1>1 DEF GeQueue, Ge!QueueHoldsUnfinished
  <2>2. lists'[l].state \notin {"queued", "running"}
    BY <1>7 DEF Ge!Done
  <2>3. \A i \in DOMAIN lists' : lists'[i].state \notin {"queued", "running"}
    BY <2>1, <2>2, <1>5, <1>7
  <2> QED
    BY <2>3, <1>9, <1>11 DEF GeQueue, Ge!QueueHoldsUnfinished
<1>13. pending' \in [Threads -> Seq(CallbackFrames)]
  <2>1. pending \in [Threads -> Seq(CallbackFrames)]
    BY DEF GeTyped
  <2> DEFINE f == [todo |-> run.todo, inside |-> FALSE]
             p == Append(pending[run.thread], f)
  <2>2. f \in CallbackFrames
    BY <1>2 DEF CallbackFrames
  <2> HIDE DEF f
  <2>3. p \in Seq(CallbackFrames)
    BY <2>1, <2>2, <1>2, AppendProperties
  <2>4. pending' = pending \/ pending' = [pending EXCEPT ![run.thread] = p]
    BY <1>1 DEF f
  <2> HIDE DEF p
  <2> QED
    BY <2>1, <2>3, <2>4, <1>2
<1>14. GeTyped'
  <2>1. /\ memory \in Programs /\ regs \in Registers /\ saved \in Registers \cup {Ge!NoRegs}
        /\ callbacks \subseteq CallbackIds /\ texels \in {0, 1} /\ palette \in {0, 1} /\ clut \in {0, 1}
        /\ out \in Seq(Outputs) /\ Len(out) = Len(lists)
        /\ origin \in Seq(Registers) /\ Len(origin) = Len(lists)
        /\ executed \in Seq(Nat) /\ Len(executed) = Len(lists)
        /\ raised \subseteq Items /\ dispatched \in Seq(Items)
    BY DEF GeTyped
  <2> QED
    BY <2>1, <1>1, <1>5, <1>8, <1>11, <1>13 DEF GeTyped
<1> QED
  BY <1>1, <1>5, <1>7, <1>12, <1>14

\* The frames of a thread that dispatches callbacks.
LEMMA FramesAre ==
  ASSUME GeTyped, NEW t \in Threads, pending[t] # <<>>
  PROVE  LET n == Len(pending[t])
         IN  /\ pending[t] \in Seq(CallbackFrames) /\ n \in Nat /\ n > 0 /\ DOMAIN pending[t] = 1..n
             /\ n \in DOMAIN pending[t] /\ pending[t][n] \in CallbackFrames
             /\ Ge!Last(pending[t]) = pending[t][n]
             /\ Ge!Front(pending[t]) \in Seq(CallbackFrames) /\ Len(Ge!Front(pending[t])) = n - 1
             /\ \A i \in 1..(n - 1) : Ge!Front(pending[t])[i] = pending[t][i]
<1> DEFINE n == Len(pending[t])
<1>1. pending[t] \in Seq(CallbackFrames) /\ n \in Nat /\ n > 0 /\ DOMAIN pending[t] = 1..n
  BY DEF GeTyped
<1>2. n \in DOMAIN pending[t] /\ pending[t][n] \in CallbackFrames
  BY <1>1
<1>3. Ge!Last(pending[t]) = pending[t][n]
  BY DEF Ge!Last
<1>4. Ge!Front(pending[t]) = SubSeq(pending[t], 1, n - 1)
  BY DEF Ge!Front
<1>5. /\ Ge!Front(pending[t]) \in Seq(CallbackFrames) /\ Len(Ge!Front(pending[t])) = n - 1
      /\ \A i \in 1..(n - 1) : Ge!Front(pending[t])[i] = pending[t][i]
  BY <1>1, <1>4, SubSeqProperties
<1> QED
  BY <1>1, <1>2, <1>3, <1>5
-----------------------------------------------------------------------------
(* Callbacks of display lists *)

\* Callbacks in the frames of threads, those of them still to be made, and each once.
Held(p, x) ==
    \E t \in Threads : \E i \in DOMAIN p[t] : \E a \in DOMAIN p[t][i].todo : p[t][i].todo[a] = x
Awaited(p, x) ==
    \E t \in Threads : \E i \in DOMAIN p[t] : \E a \in DOMAIN p[t][i].todo :
      p[t][i].todo[a] = x /\ (p[t][i].inside => a # 1)
Distinct(p) ==
    \A t, u \in Threads : \A i \in DOMAIN p[t], k \in DOMAIN p[u] :
      \A a \in DOMAIN p[t][i].todo, b \in DOMAIN p[u][k].todo :
        p[t][i].todo[a] = p[u][k].todo[b] => t = u /\ i = k /\ a = b

\* Every callback asked for was made, is in one frame or is collected by the run.
CallbacksKept ==
    /\ \A t \in Threads : \A i \in DOMAIN pending[t] : pending[t][i].todo # <<>>
    /\ Distinct(pending)
    /\ \A x : Held(pending, x) => x \in raised
    /\ Ge!IsInjective(dispatched)
    /\ Ge!Running =>
         /\ Ge!IsInjective(run.todo)
         /\ \A j \in DOMAIN run.todo : /\ run.todo[j] \in raised /\ ~Held(pending, run.todo[j])
                                       /\ run.todo[j] \notin Ge!ToSet(dispatched)
    /\ \A x \in raised : \/ x \in Ge!ToSet(dispatched) \/ Awaited(pending, x)
                         \/ Ge!Running /\ x \in Ge!ToSet(run.todo)
    /\ \A x \in Ge!ToSet(dispatched) : x \in raised /\ ~Awaited(pending, x)
    /\ \A x \in raised : x[1] \in DOMAIN out /\ x[2] <= Len(out[x[1]])

\* The fields of a frame.
LEMMA FrameIs ==
  ASSUME GeTyped, NEW t \in Threads, NEW i \in DOMAIN pending[t]
  PROVE  /\ pending[t][i] \in CallbackFrames /\ pending[t][i].todo \in Seq(Items)
         /\ Len(pending[t][i].todo) \in Nat /\ DOMAIN pending[t][i].todo = 1..Len(pending[t][i].todo)
         /\ pending[t][i].inside \in BOOLEAN
<1>1. pending[t] \in Seq(CallbackFrames)
  BY DEF GeTyped
<1>2. pending[t][i] \in CallbackFrames
  BY <1>1
<1>3. pending[t][i].todo \in Seq(Items) /\ pending[t][i].inside \in BOOLEAN
  BY <1>2 DEF CallbackFrames
<1> QED
  BY <1>2, <1>3

\* The callbacks still to be made.
LEMMA WaitingAre ==
  ASSUME GeTyped, CallbacksKept, NEW x
  PROVE  x \in UNION {Ge!Waiting[t] : t \in Threads} <=> Awaited(pending, x)
<1> DEFINE Rest(t, i) == Ge!ToSet(IF pending[t][i].inside THEN Tail(pending[t][i].todo) ELSE pending[t][i].todo)
<1>1. ASSUME NEW t \in Threads, NEW i \in DOMAIN pending[t]
      PROVE  x \in Rest(t, i) <=> \E a \in DOMAIN pending[t][i].todo :
                                    pending[t][i].todo[a] = x /\ (pending[t][i].inside => a # 1)
  <2> DEFINE s == pending[t][i].todo
  <2>1. s \in Seq(Items) /\ Len(s) \in Nat /\ DOMAIN s = 1..Len(s) /\ s # <<>> /\ pending[t][i].inside \in BOOLEAN
    BY FrameIs DEF CallbacksKept
  <2>2. Tail(s) \in Seq(Items) /\ Len(Tail(s)) = Len(s) - 1 /\ \A a \in 1..(Len(s) - 1) : Tail(s)[a] = s[a + 1]
    BY <2>1, HeadTailProperties
  <2>3. CASE pending[t][i].inside
    <3>1. Rest(t, i) = Ge!ToSet(Tail(s))
      BY <2>3
    <3> HIDE DEF s, Rest
    <3>2. DOMAIN Tail(s) = 1..(Len(s) - 1)
      BY <2>1, <2>2
    <3>3. ASSUME x \in Rest(t, i) PROVE \E a \in DOMAIN s : s[a] = x /\ a # 1
      <4>1. PICK a \in 1..(Len(s) - 1) : Tail(s)[a] = x
        BY <3>1, <3>2, <3>3 DEF Ge!ToSet
      <4>2. a + 1 \in DOMAIN s /\ a + 1 # 1 /\ s[a + 1] = x
        BY <4>1, <2>1, <2>2
      <4> QED
        BY <4>2
    <3>4. ASSUME NEW a \in DOMAIN s, s[a] = x, a # 1 PROVE x \in Rest(t, i)
      <4>1. a - 1 \in 1..(Len(s) - 1) /\ Tail(s)[a - 1] = s[a - 1 + 1] /\ a - 1 + 1 = a
        BY <3>4, <2>1, <2>2
      <4> QED
        BY <4>1, <3>1, <3>2, <3>4 DEF Ge!ToSet
    <3> QED
      BY <2>3, <3>3, <3>4 DEF s
  <2>4. CASE ~pending[t][i].inside
    BY <2>4 DEF Ge!ToSet
  <2> QED
    BY <2>1, <2>3, <2>4
<1>2. \A t \in Threads : Ge!Waiting[t] = UNION {Rest(t, i) : i \in DOMAIN pending[t]}
  BY DEF Ge!Waiting
<1> HIDE DEF Rest
<1>3. x \in UNION {Ge!Waiting[t] : t \in Threads}
        <=> \E t \in Threads : \E i \in DOMAIN pending[t] : x \in Rest(t, i)
  BY <1>2
<1> QED
  BY <1>1, <1>3 DEF Awaited

\* A callback that was refused was dispatched.
RefusedKept == refused \subseteq Ge!ToSet(dispatched)

\* What is kept is what EveryCallbackOnce says.
LEMMA OnceFromKept ==
  ASSUME GeTyped, CallbacksKept, RefusedKept
  PROVE  Ge!EveryCallbackOnce
<1> DEFINE made == Ge!ToSet(dispatched) \ refused
           waits == UNION {Ge!Waiting[t] : t \in Threads}
           collected == IF Ge!Running THEN Ge!ToSet(run.todo) ELSE {}
<1>1. \A x : x \in waits <=> Awaited(pending, x)
  BY WaitingAre
<1> HIDE DEF waits
<1>2. \A x : Awaited(pending, x) => x \in raised
  BY DEF CallbacksKept, Awaited, Held
<1>3. \A x : x \in collected => x \in raised /\ x \notin Ge!ToSet(dispatched)
  BY DEF CallbacksKept, Ge!ToSet
<1>4. \A x \in raised : x \in Ge!ToSet(dispatched) \/ Awaited(pending, x) \/ x \in collected
  BY DEF CallbacksKept
<1> HIDE DEF collected
<1>5. raised = Ge!ToSet(dispatched) \cup waits \cup collected
  <2>1. \A x \in Ge!ToSet(dispatched) : x \in raised
    BY DEF CallbacksKept
  <2> QED
    BY <2>1, <1>1, <1>2, <1>3, <1>4
<1>6. Ge!ToSet(dispatched) \cap (waits \cup collected) = {}
  <2>1. \A x \in Ge!ToSet(dispatched) : ~Awaited(pending, x)
    BY DEF CallbacksKept
  <2> QED
    BY <2>1, <1>1, <1>3
<1>7. Ge!IsInjective(dispatched)
  BY DEF CallbacksKept
<1> QED
  <2>1. made \cup refused = Ge!ToSet(dispatched)
    BY DEF RefusedKept
  <2> HIDE DEF made
  <2>2. raised = made \cup refused \cup waits \cup collected
    BY <2>1, <1>5
  <2>3. (made \cup refused) \cap (waits \cup collected) = {}
    BY <2>1, <1>6
  <2> QED
    BY <2>2, <2>3, <1>7 DEF Ge!EveryCallbackOnce, made, waits, collected

\* Nothing happens to callbacks while nothing is executed or dispatched.
LEMMA CallbacksStay ==
  ASSUME CallbacksKept, ~Ge!Running, UNCHANGED <<pending, raised, dispatched>>,
         Ge!Running' => run'.todo = <<>>,
         \A i \in DOMAIN out : i \in DOMAIN out' /\ out'[i] = out[i]
  PROVE  CallbacksKept'
<1>1. \A x : Held(pending', x) <=> Held(pending, x)
  BY DEF Held
<1>2. \A x : Awaited(pending', x) <=> Awaited(pending, x)
  BY DEF Awaited
<1>3. Distinct(pending') /\ \A t \in Threads : \A i \in DOMAIN pending'[t] : pending'[t][i].todo # <<>>
  BY DEF CallbacksKept
<1>4. Ge!Running' =>
        /\ Ge!IsInjective(run'.todo)
        /\ \A j \in DOMAIN run'.todo : FALSE
  BY DEF Ge!IsInjective
<1>5. \A x \in raised' : x \in Ge!ToSet(dispatched') \/ Awaited(pending', x)
  BY DEF CallbacksKept
<1>6. \A x \in raised' : x[1] \in DOMAIN out' /\ x[2] <= Len(out'[x[1]])
  BY DEF CallbacksKept
<1>7. /\ \A x : Held(pending', x) => x \in raised'
      /\ Ge!IsInjective(dispatched')
      /\ \A x \in Ge!ToSet(dispatched') : x \in raised' /\ ~Awaited(pending', x)
  BY <1>1, <1>2 DEF CallbacksKept
<1> QED
  BY <1>3, <1>4, <1>5, <1>6, <1>7 DEF CallbacksKept

\* A SIGNAL or FINISH collects a callback nobody asked for before.
LEMMA StepKeepsCallbacks ==
  ASSUME GeTyped, GeQueue, CallbacksKept, Ge!Step
  PROVE  CallbacksKept'
<1> DEFINE l == run.list
<1>1. PICK c \in Words, m \in Machines :
           /\ Ge!Running
           /\ run'.list = run.list /\ run' \in Runs
           /\ run'.todo = IF Ge!Asks(c) THEN Append(run.todo, <<run.list, Len(m.out)>>) ELSE run.todo
           /\ Ge!Asks(c) => Len(m.out) = Len(out[run.list]) + 1
           /\ Len(m.out) >= Len(out[run.list])
           /\ out' = [out EXCEPT ![run.list] = m.out]
           /\ raised' = IF Ge!Asks(c) THEN raised \cup {<<run.list, Len(m.out)>>} ELSE raised
           /\ UNCHANGED <<pending, dispatched>>
  BY StepIs
<1>2. /\ l \in DOMAIN out /\ l \in Nat \ {0} /\ run.todo \in Seq(Items) /\ out[l] \in Outputs
  BY <1>1, EngineTyped
<1>3. Len(m.out) \in Nat /\ Len(out[l]) \in Nat
  BY <1>2 DEF Machines, Outputs
<1> DEFINE new == <<l, Len(m.out)>>
<1>4. /\ DOMAIN out' = DOMAIN out /\ out'[l] = m.out
      /\ \A i \in DOMAIN out : i # l => out'[i] = out[i]
  BY <1>1, <1>2
<1>5. \A x \in raised : x \in Items /\ x[1] \in DOMAIN out /\ x[2] <= Len(out[x[1]])
  BY DEF CallbacksKept, GeTyped
<1>6. \A x \in raised : x[1] \in DOMAIN out' /\ x[2] <= Len(out'[x[1]])
  <2> TAKE x \in raised
  <2>1. CASE x[1] = l
    <3>1. x[2] \in Nat /\ x[2] <= Len(out[l])
      BY <2>1, <1>5 DEF Items
    <3> QED
      BY <2>1, <3>1, <1>1, <1>2, <1>3, <1>4
  <2>2. CASE x[1] # l
    BY <2>2, <1>4, <1>5
  <2> QED
    BY <2>1, <2>2
<1>7. /\ Ge!Running'
  BY <1>1, <1>2 DEF Ge!Running, Ge!NoRun, Runs
<1>8. /\ Ge!IsInjective(run.todo)
      /\ \A j \in DOMAIN run.todo : /\ run.todo[j] \in raised /\ ~Held(pending, run.todo[j])
                                    /\ run.todo[j] \notin Ge!ToSet(dispatched)
  BY <1>1 DEF CallbacksKept
<1>9. CASE ~Ge!Asks(c)
  <2>1. run'.todo = run.todo /\ raised' = raised /\ UNCHANGED <<pending, dispatched>>
    BY <1>1, <1>9
  <2>2. \A x \in raised : x[1] \in DOMAIN out' /\ x[2] <= Len(out'[x[1]])
    BY <1>6
  <2>3. /\ \A t \in Threads : \A i \in DOMAIN pending[t] : pending[t][i].todo # <<>>
        /\ Distinct(pending)
        /\ \A x : Held(pending, x) => x \in raised
        /\ Ge!IsInjective(dispatched)
        /\ \A x \in raised : \/ x \in Ge!ToSet(dispatched) \/ Awaited(pending, x)
                             \/ x \in Ge!ToSet(run.todo)
        /\ \A x \in Ge!ToSet(dispatched) : x \in raised /\ ~Awaited(pending, x)
    BY DEF CallbacksKept
  <2> QED
    BY <2>1, <2>2, <2>3, <1>7, <1>8 DEF CallbacksKept
<1>10. CASE Ge!Asks(c)
  <2>1. run'.todo = Append(run.todo, new) /\ raised' = raised \cup {new} /\ Len(m.out) = Len(out[l]) + 1
        /\ pending' = pending /\ dispatched' = dispatched
    BY <1>1, <1>10
  <2>2. new \in Items /\ new \notin raised
    <3>1. new[1] = l /\ new[2] = Len(m.out) /\ ~(Len(m.out) <= Len(out[l]))
      BY <2>1, <1>3
    <3> QED
      BY <3>1, <1>2, <1>3, <1>5 DEF Items
  <2>3. new[1] \in DOMAIN out' /\ new[2] <= Len(out'[new[1]])
    BY <1>2, <1>3, <1>4
  <2> HIDE DEF new
  <2> DEFINE td == Append(run.todo, new)
             n == Len(run.todo)
  <2>4. /\ n \in Nat /\ DOMAIN run.todo = 1..n /\ DOMAIN td = 1..(n + 1) /\ td[n + 1] = new
        /\ \A j \in 1..n : td[j] = run.todo[j]
    BY <2>2, <1>2, AppendProperties
  <2> HIDE DEF td
  <2>5. /\ \A x : Held(pending, x) => x \in raised
        /\ \A x \in Ge!ToSet(dispatched) : x \in raised
    BY DEF CallbacksKept
  <2>6. Ge!IsInjective(td)
    <3>1. \A j \in 1..n : td[j] # new
      BY <2>2, <2>4, <1>8
    <3>2. \A j, k \in 1..n : td[j] = td[k] => j = k
      BY <2>4, <1>8 DEF Ge!IsInjective
    <3> QED
      BY <3>1, <3>2, <2>4 DEF Ge!IsInjective
  <2>7. \A j \in DOMAIN td : /\ td[j] \in raised \cup {new} /\ ~Held(pending, td[j])
                             /\ td[j] \notin Ge!ToSet(dispatched)
    <3> TAKE j \in DOMAIN td
    <3>1. CASE j \in 1..n
      BY <3>1, <2>4, <1>8
    <3>2. CASE j = n + 1
      BY <3>2, <2>2, <2>4, <2>5
    <3> QED
      BY <3>1, <3>2, <2>4
  <2>8. Ge!ToSet(run.todo) \subseteq Ge!ToSet(td) /\ new \in Ge!ToSet(td)
    <3>1. n + 1 \in DOMAIN td /\ \A j \in 1..n : j \in DOMAIN td
      BY <2>4
    <3> QED
      BY <3>1, <2>4 DEF Ge!ToSet
  <2>9. \A x \in raised \cup {new} : \/ x \in Ge!ToSet(dispatched) \/ Awaited(pending, x)
                                     \/ x \in Ge!ToSet(td)
    BY <2>8, <1>1 DEF CallbacksKept
  <2>10. \A x \in raised \cup {new} : x[1] \in DOMAIN out' /\ x[2] <= Len(out'[x[1]])
    BY <2>3, <1>6
  <2>11. /\ \A t \in Threads : \A i \in DOMAIN pending[t] : pending[t][i].todo # <<>>
         /\ Distinct(pending) /\ Ge!IsInjective(dispatched)
         /\ \A x \in Ge!ToSet(dispatched) : x \in raised \cup {new} /\ ~Awaited(pending, x)
         /\ \A x : Held(pending, x) => x \in raised \cup {new}
    BY DEF CallbacksKept
  <2>12. run'.todo = td
    BY <2>1 DEF td
  <2> QED
    BY <2>1, <2>6, <2>7, <2>9, <2>10, <2>11, <2>12, <1>7 DEF CallbacksKept
<1> QED
  BY <1>9, <1>10

\* The callbacks an execution has collected become a frame of its thread.
LEMMA StopKeepsCallbacks ==
  ASSUME GeTyped, GeQueue, CallbacksKept, Ge!Stop
  PROVE  CallbacksKept'
<1> DEFINE th == run.thread
           td == run.todo
           f == [todo |-> td, inside |-> FALSE]
           n == Len(pending[th])
           q == Append(pending[th], f)
<1>1. /\ Ge!Running /\ run' = Ge!NoRun
      /\ pending' = IF td = <<>> THEN pending ELSE [pending EXCEPT ![th] = q]
      /\ UNCHANGED <<out, raised, dispatched>>
  BY StopIs
<1>2. th \in Threads /\ td \in Seq(Items)
  BY <1>1, EngineTyped
<1>3. ~Ge!Running'
  BY <1>1 DEF Ge!Running
<1>4. /\ Ge!IsInjective(td)
      /\ \A j \in DOMAIN td : /\ td[j] \in raised /\ ~Held(pending, td[j])
                              /\ td[j] \notin Ge!ToSet(dispatched)
  BY <1>1 DEF CallbacksKept
<1>5. /\ \A x \in raised : x[1] \in DOMAIN out /\ x[2] <= Len(out[x[1]])
      /\ Ge!IsInjective(dispatched)
      /\ \A x \in raised : x \in Ge!ToSet(dispatched) \/ Awaited(pending, x) \/ x \in Ge!ToSet(td)
      /\ \A t \in Threads : \A i \in DOMAIN pending[t] : pending[t][i].todo # <<>>
      /\ Distinct(pending)
      /\ \A x : Held(pending, x) => x \in raised
      /\ \A x \in Ge!ToSet(dispatched) : x \in raised /\ ~Awaited(pending, x)
  BY <1>1 DEF CallbacksKept
<1>6. CASE td = <<>>
  <2>1. pending' = pending
    BY <1>1, <1>6
  <2>2. Ge!ToSet(td) = {}
    BY <1>6 DEF Ge!ToSet
  <2> QED
    BY <2>1, <2>2, <1>1, <1>3, <1>5 DEF CallbacksKept
<1>7. CASE td # <<>>
  <2>1. pending' = [pending EXCEPT ![th] = q] /\ pending \in [Threads -> Seq(CallbackFrames)]
    BY <1>1, <1>7 DEF GeTyped
  <2>2. f \in CallbackFrames /\ f.todo = td /\ ~f.inside
    BY <1>2 DEF CallbackFrames
  <2> HIDE DEF f
  <2>3. /\ n \in Nat /\ DOMAIN pending[th] = 1..n /\ DOMAIN q = 1..(n + 1) /\ q[n + 1] = f
        /\ \A i \in 1..n : q[i] = pending[th][i]
    BY <2>1, <2>2, <1>2, AppendProperties
  <2> HIDE DEF q
  <2>4. \A t \in Threads : pending'[t] = IF t = th THEN q ELSE pending[t]
    BY <2>1, <1>2
  <2>5. \A t \in Threads : \A i \in DOMAIN pending'[t] :
          \/ i \in DOMAIN pending[t] /\ pending'[t][i] = pending[t][i]
          \/ t = th /\ i = n + 1 /\ pending'[t][i] = f
    BY <2>3, <2>4
  <2>6. \A t \in Threads : \A i \in DOMAIN pending[t] :
          i \in DOMAIN pending'[t] /\ pending'[t][i] = pending[t][i] /\ (t = th => i # n + 1)
    <3> TAKE t \in Threads
    <3> TAKE i \in DOMAIN pending[t]
    <3>1. CASE t = th
      BY <3>1, <2>3, <2>4
    <3>2. CASE t # th
      BY <3>2, <2>4
    <3> QED
      BY <3>1, <3>2
  <2>7. n + 1 \in DOMAIN pending'[th] /\ pending'[th][n + 1] = f
    BY <2>3, <2>4, <1>2
  <2>8. \A x : Held(pending', x) <=> Held(pending, x) \/ x \in Ge!ToSet(td)
    <3>1. ASSUME NEW x, Held(pending', x) PROVE Held(pending, x) \/ x \in Ge!ToSet(td)
      <4>1. PICK t \in Threads : \E i \in DOMAIN pending'[t] : \E a \in DOMAIN pending'[t][i].todo : pending'[t][i].todo[a] = x
        BY <3>1 DEF Held
      <4> QED
        BY <4>1, <2>2, <2>5 DEF Held, Ge!ToSet
    <3>2. ASSUME NEW x, Held(pending, x) PROVE Held(pending', x)
      BY <3>2, <2>6 DEF Held
    <3>3. ASSUME NEW x \in Ge!ToSet(td) PROVE Held(pending', x)
      BY <2>2, <2>7, <1>2 DEF Held, Ge!ToSet
    <3> QED
      BY <3>1, <3>2, <3>3
  <2>9. \A x : Awaited(pending', x) <=> Awaited(pending, x) \/ x \in Ge!ToSet(td)
    <3>1. ASSUME NEW x, Awaited(pending', x) PROVE Awaited(pending, x) \/ x \in Ge!ToSet(td)
      <4>1. PICK t \in Threads : \E i \in DOMAIN pending'[t] :
              \E a \in DOMAIN pending'[t][i].todo :
                pending'[t][i].todo[a] = x /\ (pending'[t][i].inside => a # 1)
        BY <3>1 DEF Awaited
      <4> QED
        BY <4>1, <2>2, <2>5 DEF Awaited, Ge!ToSet
    <3>2. ASSUME NEW x, Awaited(pending, x) PROVE Awaited(pending', x)
      BY <3>2, <2>6 DEF Awaited
    <3>3. ASSUME NEW x \in Ge!ToSet(td) PROVE Awaited(pending', x)
      BY <2>2, <2>7, <1>2 DEF Awaited, Ge!ToSet
    <3> QED
      BY <3>1, <3>2, <3>3
  <2>10. Distinct(pending')
    <3> SUFFICES ASSUME NEW t \in Threads, NEW u \in Threads, NEW i \in DOMAIN pending'[t], NEW k \in DOMAIN pending'[u],
                        NEW a \in DOMAIN pending'[t][i].todo, NEW b \in DOMAIN pending'[u][k].todo,
                        pending'[t][i].todo[a] = pending'[u][k].todo[b]
                 PROVE  t = u /\ i = k /\ a = b
      BY DEF Distinct
    <3>1. CASE (t = th /\ i = n + 1) /\ (u = th /\ k = n + 1)
      BY <3>1, <2>2, <2>7, <1>4 DEF Ge!IsInjective
    <3>2. CASE (t = th /\ i = n + 1) /\ ~(u = th /\ k = n + 1)
      BY <3>2, <2>2, <2>5, <2>7, <1>4 DEF Held
    <3>3. CASE ~(t = th /\ i = n + 1) /\ (u = th /\ k = n + 1)
      BY <3>3, <2>2, <2>5, <2>7, <1>4 DEF Held
    <3>4. CASE ~(t = th /\ i = n + 1) /\ ~(u = th /\ k = n + 1)
      BY <3>4, <2>5, <1>5 DEF Distinct
    <3> QED
      BY <3>1, <3>2, <3>3, <3>4
  <2>11. \A t \in Threads : \A i \in DOMAIN pending'[t] : pending'[t][i].todo # <<>>
    BY <2>2, <2>5, <1>5, <1>7
  <2>12. \A x \in Ge!ToSet(td) : x \in raised /\ x \notin Ge!ToSet(dispatched)
    BY <1>4 DEF Ge!ToSet
  <2> HIDE DEF td
  <2> QED
    BY <2>8, <2>9, <2>10, <2>11, <2>12, <1>1, <1>3, <1>5 DEF CallbacksKept
<1> QED
  BY <1>6, <1>7

\* A callback is made: the first of the innermost frame.
LEMMA StartIs ==
  ASSUME GeTyped, CallbacksKept, NEW t \in Threads, Ge!StartCallback(t)
  PROVE  \E n \in DOMAIN pending[t] :
           /\ ~Ge!Running /\ ~pending[t][n].inside
           /\ 1 \in DOMAIN pending[t][n].todo /\ pending[t][n].todo[1] \in Items
           /\ dispatched' = Append(dispatched, pending[t][n].todo[1])
           /\ pending' \in [Threads -> Seq(CallbackFrames)]
           /\ \A u \in Threads :
                /\ DOMAIN pending'[u] = DOMAIN pending[u]
                /\ \A i \in DOMAIN pending[u] :
                     /\ pending'[u][i].todo = pending[u][i].todo
                     /\ pending'[u][i].inside <=> (u = t /\ i = n) \/ pending[u][i].inside
           /\ UNCHANGED <<memory, lists, queue, regs, run, callbacks, texels, palette, clut,
                          saved, out, origin, executed, disturbed, raised>>
<1> DEFINE n == Len(pending[t])
           f == [pending[t][n] EXCEPT !.inside = TRUE]
           s == [pending[t] EXCEPT ![n] = f]
<1>1. /\ ~Ge!Running /\ pending[t] # <<>> /\ ~Ge!Last(pending[t]).inside
      /\ pending' = [pending EXCEPT ![t][n].inside = TRUE]
      /\ dispatched' = Append(dispatched, Head(Ge!Last(pending[t]).todo))
      /\ UNCHANGED <<memory, lists, queue, regs, run, callbacks, texels, palette, clut,
                     saved, out, origin, executed, disturbed, raised>>
  BY DEF Ge!StartCallback, Ge!InDispatch
<1>2. /\ n \in DOMAIN pending[t] /\ pending[t][n] \in CallbackFrames /\ Ge!Last(pending[t]) = pending[t][n]
      /\ pending[t] \in Seq(CallbackFrames) /\ n \in 1..Len(pending[t])
  BY <1>1, FramesAre
<1>3. /\ pending[t][n].todo \in Seq(Items) /\ pending[t][n].todo # <<>>
      /\ Head(pending[t][n].todo) = pending[t][n].todo[1]
      /\ 1 \in DOMAIN pending[t][n].todo
  BY <1>2, FrameIs DEF CallbacksKept
<1>4. f \in CallbackFrames /\ f.todo = pending[t][n].todo /\ f.inside
  BY <1>2 DEF CallbackFrames
<1>5. pending' = [pending EXCEPT ![t] = s]
  BY <1>1
<1> HIDE DEF f
<1>6. s \in Seq(CallbackFrames) /\ DOMAIN s = DOMAIN pending[t] /\ s[n] = f
      /\ \A i \in DOMAIN pending[t] : i # n => s[i] = pending[t][i]
  BY <1>2, <1>4, ExceptSeq
<1> HIDE DEF s
<1>7. /\ pending' \in [Threads -> Seq(CallbackFrames)]
      /\ \A u \in Threads : pending'[u] = IF u = t THEN s ELSE pending[u]
  BY <1>5, <1>6 DEF GeTyped
<1>8. \A u \in Threads :
        /\ DOMAIN pending'[u] = DOMAIN pending[u]
        /\ \A i \in DOMAIN pending[u] :
             /\ pending'[u][i].todo = pending[u][i].todo
             /\ pending'[u][i].inside <=> (u = t /\ i = n) \/ pending[u][i].inside
  <2> TAKE u \in Threads
  <2>1. CASE u = t
    BY <2>1, <1>4, <1>6, <1>7
  <2>2. CASE u # t
    BY <2>2, <1>7
  <2> QED
    BY <2>1, <2>2
<1>9. pending[t][n].todo[1] \in Items
  BY <1>3
<1> QED
  BY <1>1, <1>2, <1>3, <1>7, <1>8, <1>9

\* The callback that is made is no longer still to be made.
LEMMA StartTyped ==
  ASSUME GeTyped, GeQueue, CallbacksKept, NEW t \in Threads, Ge!StartCallback(t)
  PROVE  /\ GeTyped' /\ GeQueue' /\ CallbacksKept' /\ ~Ge!Running
         /\ UNCHANGED <<memory, lists, queue, regs, run, out, origin, executed, disturbed>>
<1>1. PICK n \in DOMAIN pending[t] :
           /\ ~Ge!Running /\ ~pending[t][n].inside
           /\ 1 \in DOMAIN pending[t][n].todo /\ pending[t][n].todo[1] \in Items
           /\ dispatched' = Append(dispatched, pending[t][n].todo[1])
           /\ pending' \in [Threads -> Seq(CallbackFrames)]
           /\ \A u \in Threads :
                /\ DOMAIN pending'[u] = DOMAIN pending[u]
                /\ \A i \in DOMAIN pending[u] :
                     /\ pending'[u][i].todo = pending[u][i].todo
                     /\ pending'[u][i].inside <=> (u = t /\ i = n) \/ pending[u][i].inside
           /\ UNCHANGED <<memory, lists, queue, regs, run, callbacks, texels, palette, clut,
                          saved, out, origin, executed, disturbed, raised>>
  BY StartIs
<1> DEFINE h == pending[t][n].todo[1]
           d == Append(dispatched, h)
           m == Len(dispatched)
<1>2. /\ m \in Nat /\ DOMAIN dispatched = 1..m /\ d \in Seq(Items) /\ DOMAIN d = 1..(m + 1) /\ d[m + 1] = h
      /\ \A i \in 1..m : d[i] = dispatched[i]
  <2>1. dispatched \in Seq(Items) /\ h \in Items
    BY <1>1 DEF GeTyped
  <2> QED
    BY <2>1, AppendProperties
<1>3. GeTyped'
  BY <1>1, <1>2 DEF GeTyped
<1>4. GeQueue'
  BY <1>1 DEF GeQueue, Ge!QueueHoldsUnfinished, Ge!Running
<1>5. ~Ge!Running'
  BY <1>1 DEF Ge!Running
<1>6. /\ \A x \in raised : x[1] \in DOMAIN out /\ x[2] <= Len(out[x[1]])
      /\ Ge!IsInjective(dispatched)
      /\ \A x \in raised : x \in Ge!ToSet(dispatched) \/ Awaited(pending, x)
      /\ \A u \in Threads : \A i \in DOMAIN pending[u] : pending[u][i].todo # <<>>
      /\ Distinct(pending)
      /\ \A x : Held(pending, x) => x \in raised
      /\ \A x \in Ge!ToSet(dispatched) : x \in raised /\ ~Awaited(pending, x)
  BY <1>1 DEF CallbacksKept
<1>same. \A u \in Threads : /\ DOMAIN pending'[u] = DOMAIN pending[u]
                           /\ \A i \in DOMAIN pending[u] : pending'[u][i].todo = pending[u][i].todo
  BY <1>1
<1>7. ASSUME NEW x PROVE Held(pending', x) <=> Held(pending, x)
  <2>1. ASSUME Held(pending', x) PROVE Held(pending, x)
    <3>1. PICK u \in Threads : \E i \in DOMAIN pending'[u] : \E a \in DOMAIN pending'[u][i].todo : pending'[u][i].todo[a] = x
      BY <2>1 DEF Held
    <3>2. PICK i \in DOMAIN pending'[u] : \E a \in DOMAIN pending'[u][i].todo : pending'[u][i].todo[a] = x
      BY <3>1
    <3>3. i \in DOMAIN pending[u] /\ pending'[u][i].todo = pending[u][i].todo
      BY <1>same
    <3> QED
      BY <3>2, <3>3 DEF Held
  <2>2. ASSUME Held(pending, x) PROVE Held(pending', x)
    <3>1. PICK u \in Threads : \E i \in DOMAIN pending[u] : \E a \in DOMAIN pending[u][i].todo : pending[u][i].todo[a] = x
      BY <2>2 DEF Held
    <3>2. PICK i \in DOMAIN pending[u] : \E a \in DOMAIN pending[u][i].todo : pending[u][i].todo[a] = x
      BY <3>1
    <3>3. i \in DOMAIN pending'[u] /\ pending'[u][i].todo = pending[u][i].todo
      BY <1>same
    <3> QED
      BY <3>2, <3>3 DEF Held
  <2> QED
    BY <2>1, <2>2
<1>8. Distinct(pending')
  <2> SUFFICES ASSUME NEW r \in Threads, NEW u \in Threads, NEW i \in DOMAIN pending'[r], NEW k \in DOMAIN pending'[u],
                      NEW a \in DOMAIN pending'[r][i].todo, NEW b \in DOMAIN pending'[u][k].todo,
                      pending'[r][i].todo[a] = pending'[u][k].todo[b]
               PROVE  r = u /\ i = k /\ a = b
    BY DEF Distinct
  <2>1. /\ i \in DOMAIN pending[r] /\ pending'[r][i].todo = pending[r][i].todo
        /\ k \in DOMAIN pending[u] /\ pending'[u][k].todo = pending[u][k].todo
    BY <1>same
  <2> QED
    BY <2>1, <1>6 DEF Distinct
<1>9. Awaited(pending, h) /\ Held(pending, h)
  BY <1>1 DEF Awaited, Held
<1>10. ASSUME NEW x PROVE Awaited(pending', x) <=> Awaited(pending, x) /\ x # h
  <2>1. ASSUME Awaited(pending', x) PROVE Awaited(pending, x) /\ x # h
    <3>1. PICK u \in Threads : \E i \in DOMAIN pending'[u] : \E a \in DOMAIN pending'[u][i].todo :
            pending'[u][i].todo[a] = x /\ (pending'[u][i].inside => a # 1)
      BY <2>1 DEF Awaited
    <3>2. PICK i \in DOMAIN pending[u] : \E a \in DOMAIN pending[u][i].todo :
            /\ pending[u][i].todo[a] = x
            /\ ((u = t /\ i = n) \/ pending[u][i].inside) => a # 1
      BY <3>1, <1>1
    <3>3. Awaited(pending, x)
      BY <3>2 DEF Awaited
    <3>4. x # h
      <4>1. PICK a \in DOMAIN pending[u][i].todo :
              /\ pending[u][i].todo[a] = x
              /\ ((u = t /\ i = n) \/ pending[u][i].inside) => a # 1
        BY <3>2
      <4>2. ASSUME x = h PROVE FALSE
        <5>1. u = t /\ i = n /\ a = 1
          BY <4>1, <4>2, <1>1, <1>6 DEF Distinct
        <5> QED
          BY <5>1, <4>1
      <4> QED
        BY <4>2
    <3> QED
      BY <3>3, <3>4
  <2>2. ASSUME Awaited(pending, x), x # h PROVE Awaited(pending', x)
    <3>1. PICK u \in Threads : \E i \in DOMAIN pending[u] : \E a \in DOMAIN pending[u][i].todo :
            pending[u][i].todo[a] = x /\ (pending[u][i].inside => a # 1)
      BY <2>2 DEF Awaited
    <3>2. PICK i \in DOMAIN pending[u] : \E a \in DOMAIN pending[u][i].todo :
            pending[u][i].todo[a] = x /\ (pending[u][i].inside => a # 1)
      BY <3>1
    <3>3. PICK a \in DOMAIN pending[u][i].todo :
            pending[u][i].todo[a] = x /\ (pending[u][i].inside => a # 1)
      BY <3>2
    <3>4. (u = t /\ i = n) => a # 1
      BY <3>3, <2>2
    <3>5. i \in DOMAIN pending'[u] /\ a \in DOMAIN pending'[u][i].todo /\ pending'[u][i].todo[a] = x
          /\ (pending'[u][i].inside => a # 1)
      BY <3>3, <3>4, <1>1
    <3> QED
      BY <3>5 DEF Awaited
  <2> QED
    BY <2>1, <2>2
<1>11. h \notin Ge!ToSet(dispatched)
  BY <1>6, <1>9
<1>12. Ge!ToSet(d) = Ge!ToSet(dispatched) \cup {h}
  BY <1>2 DEF Ge!ToSet
<1>13. Ge!IsInjective(d)
  <2>1. \A i \in 1..m : d[i] # h
    BY <1>2, <1>11 DEF Ge!ToSet
  <2>2. \A i, k \in 1..m : d[i] = d[k] => i = k
    BY <1>2, <1>6 DEF Ge!IsInjective
  <2> QED
    BY <2>1, <2>2, <1>2 DEF Ge!IsInjective
<1>14. \A u \in Threads : \A i \in DOMAIN pending'[u] : pending'[u][i].todo # <<>>
  BY <1>1, <1>6
<1>15. dispatched' = d
  BY <1>1
<1> HIDE DEF d
<1>16. \A x \in Ge!ToSet(d) : x \in raised /\ ~Awaited(pending', x)
  <2> TAKE x \in Ge!ToSet(d)
  <2>1. CASE x = h
    BY <2>1, <1>6, <1>9, <1>10
  <2>2. CASE x \in Ge!ToSet(dispatched)
    BY <2>2, <1>6, <1>10
  <2> QED
    BY <2>1, <2>2, <1>12
<1>17. \A x \in raised : x \in Ge!ToSet(d) \/ Awaited(pending', x)
  BY <1>6, <1>10, <1>12
<1> HIDE DEF h
<1>18. CallbacksKept'
  BY <1>1, <1>5, <1>6, <1>7, <1>8, <1>13, <1>14, <1>15, <1>16, <1>17 DEF CallbacksKept
<1> QED
  BY <1>1, <1>3, <1>4, <1>18

\* A callback returns: its frame goes on with the rest, or is left.
LEMMA EndIs ==
  ASSUME GeTyped, CallbacksKept, NEW t \in Threads, Ge!EndCallback(t)
  PROVE  \E n \in DOMAIN pending[t] :
           /\ ~Ge!Running /\ pending[t][n].inside
           /\ pending' \in [Threads -> Seq(CallbackFrames)]
           /\ \A u \in Threads : u # t => pending'[u] = pending[u]
           /\ \A i \in DOMAIN pending'[t] :
                /\ i \in DOMAIN pending[t]
                /\ i # n => pending'[t][i] = pending[t][i]
                /\ i = n => /\ pending'[t][i].todo = Tail(pending[t][i].todo)
                            /\ ~pending'[t][i].inside /\ Len(pending[t][i].todo) > 1
           /\ \A i \in DOMAIN pending[t] :
                (i # n \/ Len(pending[t][i].todo) > 1) => i \in DOMAIN pending'[t]
           /\ UNCHANGED <<memory, lists, queue, regs, run, callbacks, texels, palette, clut,
                          saved, out, origin, executed, disturbed, raised, dispatched>>
<1> DEFINE n == Len(pending[t])
           rest == Tail(pending[t][n].todo)
           front == Ge!Front(pending[t])
           f == [todo |-> rest, inside |-> FALSE]
           s == IF rest = <<>> THEN front ELSE Append(front, f)
<1>1. /\ ~Ge!Running /\ pending[t] # <<>> /\ Ge!Last(pending[t]).inside
      /\ pending' = [pending EXCEPT ![t] = Ge!Returned(pending[t])]
      /\ UNCHANGED <<memory, lists, queue, regs, run, callbacks, texels, palette, clut,
                     saved, out, origin, executed, disturbed, raised, dispatched>>
  BY DEF Ge!EndCallback, Ge!InDispatch, Ge!geHist
<1>2. /\ n \in DOMAIN pending[t] /\ Ge!Last(pending[t]) = pending[t][n]
      /\ pending[t] \in Seq(CallbackFrames) /\ n \in Nat /\ DOMAIN pending[t] = 1..n /\ n > 0
      /\ front \in Seq(CallbackFrames) /\ Len(front) = n - 1
      /\ \A i \in 1..(n - 1) : front[i] = pending[t][i]
  BY <1>1, FramesAre
<1>3. /\ rest \in Seq(Items) /\ Len(rest) = Len(pending[t][n].todo) - 1
      /\ Len(pending[t][n].todo) \in Nat /\ Len(pending[t][n].todo) > 0
  <2>1. pending[t][n].todo \in Seq(Items) /\ pending[t][n].todo # <<>>
    BY <1>2, FrameIs DEF CallbacksKept
  <2> QED
    BY <2>1, HeadTailProperties
<1>4. Ge!Returned(pending[t]) = s
  BY <1>2 DEF Ge!Returned
<1>5. f \in CallbackFrames /\ f.todo = rest /\ ~f.inside
  BY <1>3 DEF CallbackFrames
<1>6. rest = <<>> <=> ~(Len(pending[t][n].todo) > 1)
  <2> DEFINE k == Len(rest)
             o == Len(pending[t][n].todo)
  <2>1. rest = <<>> <=> k = 0
    BY <1>3, EmptySeq
  <2>2. k = o - 1 /\ o \in Nat /\ o > 0
    BY <1>3
  <2> HIDE DEF k, o
  <2>3. k = 0 <=> ~(o > 1)
    BY <2>2
  <2> QED
    BY <2>1, <2>3 DEF o
<1>7. DOMAIN front = 1..(n - 1)
  BY <1>2
<1> HIDE DEF f, rest, front
<1>8. /\ s \in Seq(CallbackFrames)
      /\ \A i \in DOMAIN s :
           /\ i \in DOMAIN pending[t]
           /\ i # n => s[i] = pending[t][i]
           /\ i = n => s[i] = f /\ Len(pending[t][n].todo) > 1
      /\ \A i \in DOMAIN pending[t] : (i # n \/ Len(pending[t][n].todo) > 1) => i \in DOMAIN s
  <2>1. CASE rest = <<>>
    <3>1. s = front
      BY <2>1
    <3> HIDE DEF s
    <3> QED
      BY <2>1, <3>1, <1>2, <1>6, <1>7
  <2>2. CASE rest # <<>>
    <3>1. s = Append(front, f)
      BY <2>2
    <3> HIDE DEF s
    <3>2. /\ s \in Seq(CallbackFrames) /\ DOMAIN s = 1..n /\ s[n] = f
          /\ \A i \in 1..(n - 1) : s[i] = front[i]
      BY <3>1, <1>2, <1>5, AppendProperties
    <3> QED
      BY <2>2, <3>2, <1>2, <1>6
  <2> QED
    BY <2>1, <2>2
<1>9. pending' = [pending EXCEPT ![t] = s]
  BY <1>1, <1>4
<1> HIDE DEF s
<1>10. /\ pending' \in [Threads -> Seq(CallbackFrames)] /\ pending'[t] = s
       /\ \A u \in Threads : u # t => pending'[u] = pending[u]
  BY <1>8, <1>9 DEF GeTyped
<1>11. /\ \A i \in DOMAIN pending'[t] :
            /\ i \in DOMAIN pending[t]
            /\ i # n => pending'[t][i] = pending[t][i]
            /\ i = n => /\ pending'[t][i].todo = Tail(pending[t][i].todo)
                        /\ ~pending'[t][i].inside /\ Len(pending[t][i].todo) > 1
       /\ \A i \in DOMAIN pending[t] :
            (i # n \/ Len(pending[t][i].todo) > 1) => i \in DOMAIN pending'[t]
  BY <1>5, <1>8, <1>10 DEF rest
<1> QED
  BY <1>1, <1>2, <1>10, <1>11

\* A callback that returns leaves what is still to be made as it was.
LEMMA EndTyped ==
  ASSUME GeTyped, GeQueue, CallbacksKept, NEW t \in Threads, Ge!EndCallback(t)
  PROVE  /\ GeTyped' /\ GeQueue' /\ CallbacksKept' /\ ~Ge!Running
         /\ UNCHANGED <<memory, lists, queue, regs, run, out, origin, executed, disturbed>>
<1>1. PICK n \in DOMAIN pending[t] :
           /\ ~Ge!Running /\ pending[t][n].inside
           /\ pending' \in [Threads -> Seq(CallbackFrames)]
           /\ \A u \in Threads : u # t => pending'[u] = pending[u]
           /\ \A i \in DOMAIN pending'[t] :
                /\ i \in DOMAIN pending[t]
                /\ i # n => pending'[t][i] = pending[t][i]
                /\ i = n => /\ pending'[t][i].todo = Tail(pending[t][i].todo)
                            /\ ~pending'[t][i].inside /\ Len(pending[t][i].todo) > 1
           /\ \A i \in DOMAIN pending[t] :
                (i # n \/ Len(pending[t][i].todo) > 1) => i \in DOMAIN pending'[t]
           /\ UNCHANGED <<memory, lists, queue, regs, run, callbacks, texels, palette, clut,
                          saved, out, origin, executed, disturbed, raised, dispatched>>
  BY EndIs
<1> DEFINE s == pending[t][n].todo
           z == Len(s)
<1>2. /\ s \in Seq(Items) /\ z \in Nat /\ z > 0 /\ DOMAIN s = 1..z
      /\ Tail(s) \in Seq(Items) /\ DOMAIN Tail(s) = 1..(z - 1)
      /\ \A a \in 1..(z - 1) : Tail(s)[a] = s[a + 1]
  <2>1. s \in Seq(Items) /\ z \in Nat /\ DOMAIN s = 1..z /\ s # <<>>
    BY FrameIs DEF CallbacksKept
  <2>2. Tail(s) \in Seq(Items) /\ Len(Tail(s)) = z - 1 /\ \A a \in 1..(z - 1) : Tail(s)[a] = s[a + 1]
    BY <2>1, HeadTailProperties
  <2>3. z > 0
    BY <2>1, EmptySeq
  <2>4. DOMAIN Tail(s) = 1..(z - 1)
    <3>1. DOMAIN Tail(s) = 1..Len(Tail(s))
      BY <2>2
    <3> QED
      BY <3>1, <2>2
  <2> QED
    BY <2>1, <2>2, <2>3, <2>4
<1>3. GeTyped'
  BY <1>1 DEF GeTyped
<1>4. GeQueue'
  BY <1>1 DEF GeQueue, Ge!QueueHoldsUnfinished, Ge!Running
<1>5. ~Ge!Running'
  BY <1>1 DEF Ge!Running
<1>6. /\ \A x \in raised : x[1] \in DOMAIN out /\ x[2] <= Len(out[x[1]])
      /\ Ge!IsInjective(dispatched)
      /\ \A x \in raised : x \in Ge!ToSet(dispatched) \/ Awaited(pending, x)
      /\ \A u \in Threads : \A i \in DOMAIN pending[u] : pending[u][i].todo # <<>>
      /\ Distinct(pending)
      /\ \A x : Held(pending, x) => x \in raised
      /\ \A x \in Ge!ToSet(dispatched) : x \in raised /\ ~Awaited(pending, x)
  BY <1>1 DEF CallbacksKept
<1> DEFINE At(u, i, a) == IF u = t /\ i = n THEN a + 1 ELSE a
\* Where a callback of the new frames was in the old ones.
<1>7. ASSUME NEW u \in Threads, NEW i \in DOMAIN pending'[u], NEW a \in DOMAIN pending'[u][i].todo
      PROVE  /\ i \in DOMAIN pending[u] /\ At(u, i, a) \in DOMAIN pending[u][i].todo
             /\ pending'[u][i].todo[a] = pending[u][i].todo[At(u, i, a)]
             /\ a \in Nat /\ a >= 1
  <2>1. CASE u = t /\ i = n
    <3>1. i \in DOMAIN pending[t] /\ pending'[t][i].todo = Tail(s)
      BY <2>1, <1>1
    <3>2. a \in 1..(z - 1)
      BY <2>1, <3>1, <1>2
    <3>3. a + 1 \in 1..z /\ Tail(s)[a] = s[a + 1] /\ a \in Nat /\ a >= 1
      BY <3>2, <1>2
    <3> QED
      BY <2>1, <3>1, <3>3, <1>2
  <2>2. CASE ~(u = t /\ i = n)
    <3>1. i \in DOMAIN pending[u] /\ pending'[u][i] = pending[u][i]
      BY <2>2, <1>1
    <3>2. DOMAIN pending[u][i].todo = 1..Len(pending[u][i].todo)
      BY <3>1, FrameIs
    <3>3. At(u, i, a) = a
      BY <2>2
    <3> QED
      BY <3>1, <3>2, <3>3
  <2> QED
    BY <2>1, <2>2
\* And where one of the old frames that is still to be made is in the new ones.
<1>8. ASSUME NEW u \in Threads, NEW i \in DOMAIN pending[u], NEW a \in DOMAIN pending[u][i].todo,
             pending[u][i].inside => a # 1
      PROVE  /\ i \in DOMAIN pending'[u]
             /\ \E b \in DOMAIN pending'[u][i].todo :
                  /\ pending'[u][i].todo[b] = pending[u][i].todo[a]
                  /\ pending'[u][i].inside => b # 1
  <2>1. CASE u = t /\ i = n
    <3>1. a \in 1..z /\ a # 1
      BY <2>1, <1>1, <1>2, <1>8
    <3>2. z > 1 /\ a - 1 \in 1..(z - 1) /\ a - 1 + 1 = a
      BY <3>1, <1>2
    <3>3. i \in DOMAIN pending'[t]
      BY <2>1, <3>2, <1>1
    <3>4. pending'[t][i].todo = Tail(s) /\ ~pending'[t][i].inside
      BY <2>1, <3>3, <1>1
    <3>5. a - 1 \in DOMAIN Tail(s) /\ Tail(s)[a - 1] = s[a]
      BY <3>2, <1>2
    <3> QED
      BY <2>1, <3>3, <3>4, <3>5
  <2>2. CASE ~(u = t /\ i = n)
    <3>1. i \in DOMAIN pending'[u] /\ pending'[u][i] = pending[u][i]
      BY <2>2, <1>1
    <3> QED
      BY <3>1, <1>8
  <2> QED
    BY <2>1, <2>2
<1>9. ASSUME NEW u \in Threads, NEW i \in DOMAIN pending'[u], NEW a \in DOMAIN pending'[u][i].todo,
             pending'[u][i].inside => a # 1
      PROVE  pending[u][i].inside => At(u, i, a) # 1
  <2>1. CASE u = t /\ i = n
    <3>1. a \in Nat /\ a >= 1 /\ At(u, i, a) = a + 1
      BY <2>1, <1>7
    <3> QED
      BY <3>1
  <2>2. CASE ~(u = t /\ i = n)
    <3>1. pending'[u][i] = pending[u][i] /\ At(u, i, a) = a
      BY <2>2, <1>1
    <3> QED
      BY <3>1, <1>9
  <2> QED
    BY <2>1, <2>2
<1>10. ASSUME NEW u \in Threads, NEW i \in DOMAIN pending'[u] PROVE pending'[u][i].todo # <<>>
  <2>1. CASE u = t /\ i = n
    <3>1. z > 1 /\ pending'[t][i].todo = Tail(s)
      BY <2>1, <1>1
    <3>2. 1 \in DOMAIN Tail(s)
      BY <3>1, <1>2
    <3> QED
      BY <2>1, <3>1, <3>2
  <2>2. CASE ~(u = t /\ i = n)
    BY <2>2, <1>1, <1>6
  <2> QED
    BY <2>1, <2>2
<1>11. ASSUME NEW x, Held(pending', x) PROVE Held(pending, x)
  <2>1. PICK u \in Threads : \E i \in DOMAIN pending'[u] : \E a \in DOMAIN pending'[u][i].todo : pending'[u][i].todo[a] = x
    BY <1>11 DEF Held
  <2>2. PICK i \in DOMAIN pending'[u] : \E a \in DOMAIN pending'[u][i].todo : pending'[u][i].todo[a] = x
    BY <2>1
  <2>3. PICK a \in DOMAIN pending'[u][i].todo : pending'[u][i].todo[a] = x
    BY <2>2
  <2> HIDE DEF At
  <2> QED
    BY <2>3, <1>7 DEF Held
<1>12. ASSUME NEW x PROVE Awaited(pending', x) <=> Awaited(pending, x)
  <2> HIDE DEF At
  <2>1. ASSUME Awaited(pending', x) PROVE Awaited(pending, x)
    <3>1. PICK u \in Threads : \E i \in DOMAIN pending'[u] : \E a \in DOMAIN pending'[u][i].todo :
            pending'[u][i].todo[a] = x /\ (pending'[u][i].inside => a # 1)
      BY <2>1 DEF Awaited
    <3>2. PICK i \in DOMAIN pending'[u] : \E a \in DOMAIN pending'[u][i].todo :
            pending'[u][i].todo[a] = x /\ (pending'[u][i].inside => a # 1)
      BY <3>1
    <3>3. PICK a \in DOMAIN pending'[u][i].todo :
            pending'[u][i].todo[a] = x /\ (pending'[u][i].inside => a # 1)
      BY <3>2
    <3> QED
      BY <3>3, <1>7, <1>9 DEF Awaited
  <2>2. ASSUME Awaited(pending, x) PROVE Awaited(pending', x)
    <3>1. PICK u \in Threads : \E i \in DOMAIN pending[u] : \E a \in DOMAIN pending[u][i].todo :
            pending[u][i].todo[a] = x /\ (pending[u][i].inside => a # 1)
      BY <2>2 DEF Awaited
    <3>2. PICK i \in DOMAIN pending[u] : \E a \in DOMAIN pending[u][i].todo :
            pending[u][i].todo[a] = x /\ (pending[u][i].inside => a # 1)
      BY <3>1
    <3>3. PICK a \in DOMAIN pending[u][i].todo :
            pending[u][i].todo[a] = x /\ (pending[u][i].inside => a # 1)
      BY <3>2
    <3> QED
      BY <3>3, <1>8 DEF Awaited
  <2> QED
    BY <2>1, <2>2
<1>13. Distinct(pending')
  <2> SUFFICES ASSUME NEW r \in Threads, NEW u \in Threads, NEW i \in DOMAIN pending'[r], NEW k \in DOMAIN pending'[u],
                      NEW a \in DOMAIN pending'[r][i].todo, NEW b \in DOMAIN pending'[u][k].todo,
                      pending'[r][i].todo[a] = pending'[u][k].todo[b]
               PROVE  r = u /\ i = k /\ a = b
    BY DEF Distinct
  <2>1. /\ i \in DOMAIN pending[r] /\ At(r, i, a) \in DOMAIN pending[r][i].todo
        /\ pending'[r][i].todo[a] = pending[r][i].todo[At(r, i, a)] /\ a \in Nat
    BY <1>7
  <2>2. /\ k \in DOMAIN pending[u] /\ At(u, k, b) \in DOMAIN pending[u][k].todo
        /\ pending'[u][k].todo[b] = pending[u][k].todo[At(u, k, b)] /\ b \in Nat
    BY <1>7
  <2> DEFINE aa == At(r, i, a)
             bb == At(u, k, b)
  <2>3. r = u /\ i = k /\ aa = bb
    <3> HIDE DEF aa, bb, At
    <3>1. /\ aa \in DOMAIN pending[r][i].todo /\ bb \in DOMAIN pending[u][k].todo
          /\ pending[r][i].todo[aa] = pending[u][k].todo[bb]
      BY <2>1, <2>2 DEF aa, bb
    <3> QED
      BY <3>1, <2>1, <2>2, <1>6 DEF Distinct
  <2> QED
    BY <2>1, <2>2, <2>3
<1> HIDE DEF s, z, At
<1>14. CallbacksKept'
  BY <1>1, <1>5, <1>6, <1>10, <1>11, <1>12, <1>13 DEF CallbacksKept
<1> QED
  BY <1>1, <1>3, <1>4, <1>14
-----------------------------------------------------------------------------
(* Straight executions: After is what a run of single commands reaches *)

\* A function with the first n + 1 machines of an execution that starts with m.
First(f, m, n) == f = [i \in 0..n |-> IF i = 0 THEN m ELSE Ge!Executed(f[i - 1])]

\* Two executions from one machine agree as far as both go.
LEMMA FirstsAgree ==
  ASSUME NEW m, NEW n \in Nat, NEW k \in Nat, NEW f, NEW g, First(f, m, n), First(g, m, k)
  PROVE  \A i \in Nat : i <= n /\ i <= k => f[i] = g[i]
<1> DEFINE I == {i \in Nat : i <= n /\ i <= k /\ f[i] # g[i]}
<1>1. ASSUME I # {} PROVE FALSE
  <2>1. PICK i \in I : \A y \in I : i <= y
    BY <1>1, SomePlace
  <2>2. i \in Nat /\ i <= n /\ i <= k /\ f[i] # g[i]
    BY <2>1
  <2>3. f[i] = (IF i = 0 THEN m ELSE Ge!Executed(f[i - 1]))
    BY <2>2 DEF First
  <2>4. g[i] = (IF i = 0 THEN m ELSE Ge!Executed(g[i - 1]))
    BY <2>2 DEF First
  <2>5. i # 0 /\ f[i - 1] # g[i - 1]
    BY <2>2, <2>3, <2>4
  <2>6. i - 1 \in I /\ ~(i <= i - 1)
    BY <2>2, <2>5
  <2> QED
    BY <2>1, <2>6
<1> QED
  BY <1>1

\* Every machine can execute any number of commands.
LEMMA FirstIs ==
  ASSUME NEW m, NEW n \in Nat
  PROVE  \E f : First(f, m, n)
<1> DEFINE None == {k \in Nat : ~\E f : First(f, m, k)}
<1>1. ASSUME None # {} PROVE FALSE
  <2>1. PICK k \in None : \A y \in None : k <= y
    BY <1>1, SomePlace
  <2>2. k \in Nat /\ ~\E f : First(f, m, k)
    BY <2>1
  <2>3. CASE k = 0
    <3> DEFINE f == [i \in 0..0 |-> m]
    <3>1. \A i \in 0..0 : i = 0
      OBVIOUS
    <3>2. f = [i \in 0..0 |-> IF i = 0 THEN m ELSE Ge!Executed(f[i - 1])]
      BY <3>1
    <3> HIDE DEF f
    <3>3. First(f, m, k)
      BY <2>3, <3>2 DEF First
    <3> QED
      BY <2>2, <3>3
  <2>4. CASE k # 0
    <3>1. k - 1 \in Nat /\ k - 1 \notin None
      BY <2>1, <2>2, <2>4
    <3>2. PICK f : First(f, m, k - 1)
      BY <3>1
    <3> DEFINE g == [i \in 0..k |-> IF i = k THEN Ge!Executed(f[k - 1]) ELSE f[i]]
    <3>3. \A i \in 0..(k - 1) : f[i] = IF i = 0 THEN m ELSE Ge!Executed(f[i - 1])
      BY <3>2, Zenon DEF First
    <3>4. ASSUME NEW i \in 0..k
          PROVE  g[i] = IF i = 0 THEN m ELSE Ge!Executed(g[i - 1])
      <4>1. CASE i = k
        <5>1. k - 1 \in 0..k /\ k - 1 # k
          BY <2>2, <2>4
        <5>2. g[k - 1] = f[k - 1] /\ g[k] = Ge!Executed(f[k - 1])
          BY <5>1
        <5> QED
          BY <4>1, <5>2, <2>4
      <4>2. CASE i # k
        <5>1. i \in 0..(k - 1) /\ g[i] = f[i]
          BY <4>2, <2>2
        <5>2. CASE i = 0
          BY <5>1, <5>2, <3>3
        <5>3. CASE i # 0
          <6>1. i - 1 \in 0..k /\ i - 1 # k
            BY <5>1, <5>3, <2>2
          <6>2. g[i - 1] = f[i - 1]
            BY <6>1
          <6> QED
            BY <5>1, <5>3, <6>2, <3>3
        <5> QED
          BY <5>2, <5>3
      <4> QED
        BY <4>1, <4>2
    <3>5. g = [i \in 0..k |-> g[i]]
      OBVIOUS
    <3> HIDE DEF g
    <3>6. First(g, m, k)
      BY <3>4, <3>5 DEF First
    <3> QED
      BY <2>2, <3>6
  <2> QED
    BY <2>3, <2>4
<1> QED
  BY <1>1

\* The machine after n commands is the one after n - 1, and one command more.
LEMMA AfterIs ==
  ASSUME NEW m, NEW n \in Nat
  PROVE  /\ Ge!After(m, 0) = m
         /\ Ge!After(m, n + 1) = Ge!Executed(Ge!After(m, n))
<1> DEFINE g(k) == CHOOSE f : First(f, m, k)
<1>1. \A k \in Nat : Ge!After(m, k) = g(k)[k]
  BY DEF Ge!After, First
<1>2. \A k \in Nat : First(g(k), m, k)
  BY FirstIs
<1> HIDE DEF g
<1>3. \A k \in Nat : \A i \in 0..k : g(k)[i] = IF i = 0 THEN m ELSE Ge!Executed(g(k)[i - 1])
  BY <1>2 DEF First
<1>4. g(0)[0] = m
  BY <1>3
<1>5. g(n + 1)[n + 1] = Ge!Executed(g(n + 1)[n])
  <2>1. n + 1 \in Nat /\ n + 1 \in 0..(n + 1) /\ n + 1 # 0 /\ n + 1 - 1 = n
    OBVIOUS
  <2> QED
    BY <2>1, <1>3
<1>6. g(n + 1)[n] = g(n)[n]
  <2>1. First(g(n + 1), m, n + 1) /\ First(g(n), m, n)
    BY <1>2
  <2> QED
    BY <2>1, FirstsAgree
<1> QED
  BY <1>1, <1>4, <1>5, <1>6

\* The machine of a list: the one that runs, or what it left behind.
Here(l) ==
    IF Ge!Running /\ run.list = l THEN Engine
    ELSE [pc |-> lists[l].pc, stack |-> lists[l].stack, regs |-> regs, box |-> lists[l].box,
          out |-> out[l]]
\* Whatever interrupted it, a list nobody disturbed is where a straight execution
\* is after as many commands, and one that is done put out the same.
Undisturbed(l) ==
    LET m == Ge!Straight(l, executed[l])
    IN  /\ lists[l].state \notin Ge!Done => m = Here(l)
        /\ m.out = out[l]
        /\ lists[l].state = "completed" => m.pc \in DOMAIN memory /\ memory[m.pc].op = "end"

\* All lists nobody disturbed.
RunsStraight == \A l \in DOMAIN lists : l \notin disturbed => Undisturbed(l)

\* A straight execution depends on start, registers and memory alone.
LEMMA StraightStays ==
  ASSUME UNCHANGED memory, NEW l, lists'[l].start = lists[l].start, origin'[l] = origin[l],
         executed'[l] = executed[l]
  PROVE  Ge!Straight(l, executed[l])' = Ge!Straight(l, executed[l])
<1>1. PICK m : m = [pc |-> lists[l].start, stack |-> <<>>, regs |-> origin[l], box |-> FALSE, out |-> <<>>]
  OBVIOUS
<1>2. PICK n : n = executed[l]
  OBVIOUS
<1>3. Ge!Straight(l, executed[l]) = Ge!After(m, n)
  BY <1>1, <1>2 DEF Ge!Straight
<1>4. Ge!Straight(l, executed[l])' = Ge!After(m, n)'
  BY <1>1, <1>2 DEF Ge!Straight
<1>5. Ge!After(m, n)' = Ge!After(m, n)
  BY DEF Ge!After, Ge!Executed
<1> QED
  BY <1>3, <1>4, <1>5

\* What leaves a list as it is leaves it where a straight execution is.
LEMMA UndisturbedStays ==
  ASSUME UNCHANGED memory, NEW l, lists'[l].start = lists[l].start, origin'[l] = origin[l],
         executed'[l] = executed[l], out'[l] = out[l],
         lists'[l].state \in Ge!Done <=> lists[l].state \in Ge!Done,
         lists'[l].state = "completed" => lists[l].state = "completed",
         lists[l].state \notin Ge!Done => Here(l)' = Here(l),
         Undisturbed(l)
  PROVE  Undisturbed(l)'
<1>1. PICK m : m = Ge!Straight(l, executed[l])
  OBVIOUS
<1>2. Ge!Straight(l, executed[l])' = m
  BY <1>1, StraightStays
<1> QED
  BY <1>1, <1>2 DEF Undisturbed

\* A step of no list: nothing of a list changes but pauses and what takes it up.
LEMMA NothingExecuted ==
  ASSUME GeTyped, RunsStraight, UNCHANGED <<memory, out, origin, executed, disturbed>>,
         DOMAIN lists' = DOMAIN lists,
         \A i \in DOMAIN lists :
           /\ lists'[i].pc = lists[i].pc /\ lists'[i].start = lists[i].start
           /\ lists'[i].stack = lists[i].stack /\ lists'[i].box = lists[i].box
           /\ lists'[i].state \in Ge!Done <=> lists[i].state \in Ge!Done
           /\ lists'[i].state = "completed" => lists[i].state = "completed",
         regs' = regs \/ \A i \in DOMAIN lists : lists[i].state \in Ge!Done,
         ~Ge!Running,
         Ge!Running' => run'.pc = lists[run'.list].pc /\ run'.stack = lists[run'.list].stack
  PROVE  RunsStraight'
<1> SUFFICES ASSUME NEW i \in DOMAIN lists, i \notin disturbed PROVE Undisturbed(i)'
  BY DEF RunsStraight
<1>1. Undisturbed(i)
  BY DEF RunsStraight
<1>2. ASSUME lists[i].state \notin Ge!Done PROVE Here(i)' = Here(i)
  <2>1. regs' = regs
    BY <1>2
  <2>2. Here(i) = [pc |-> lists[i].pc, stack |-> lists[i].stack, regs |-> regs, box |-> lists[i].box,
                   out |-> out[i]]
    BY DEF Here
  <2>3. CASE Ge!Running' /\ run'.list = i
    <3>1. Here(i)' = [pc |-> run'.pc, stack |-> run'.stack, regs |-> regs', box |-> lists'[i].box,
                      out |-> out'[i]]
      BY <2>3 DEF Here, Engine
    <3> QED
      BY <2>1, <2>2, <2>3, <3>1
  <2>4. CASE ~(Ge!Running' /\ run'.list = i)
    <3>1. Here(i)' = [pc |-> lists'[i].pc, stack |-> lists'[i].stack, regs |-> regs', box |-> lists'[i].box,
                      out |-> out'[i]]
      BY <2>4 DEF Here
    <3> QED
      BY <2>1, <2>2, <3>1
  <2> QED
    BY <2>3, <2>4
<1> QED
  BY <1>1, <1>2, UndisturbedStays

\* A new list stands at its start.
LEMMA NewListStraight ==
  ASSUME GeTyped, GeQueue, RunsStraight, NEW t \in Threads, NEW start \in Starts, NEW stall \in Stalls,
         NEW cb \in CallbackIds, NEW head \in BOOLEAN, Ge!ListEnQueue(t, start, stall, cb, head)
  PROVE  RunsStraight'
<1>0. PICK l : l = Len(lists) + 1
  OBVIOUS
<1>1. /\ ~Ge!Running
      /\ l \notin DOMAIN lists /\ DOMAIN lists' = DOMAIN lists \cup {l}
      /\ \A i \in DOMAIN lists :
           /\ lists'[i].pc = lists[i].pc /\ lists'[i].start = lists[i].start
           /\ lists'[i].stack = lists[i].stack /\ lists'[i].box = lists[i].box
           /\ lists'[i].state = lists[i].state
           /\ out'[i] = out[i] /\ origin'[i] = origin[i] /\ executed'[i] = executed[i]
      /\ lists'[l].start = start /\ lists'[l].state = "running" /\ ~lists'[l].box
      /\ run'.list = l /\ run'.pc = start /\ run'.stack = <<>> /\ Ge!Running'
      /\ out'[l] = <<>> /\ origin'[l] = regs /\ executed'[l] = 0
      /\ UNCHANGED <<memory, regs, disturbed>> /\ GeTyped' /\ GeQueue'
  BY <1>0, EnQueueTyped
<1>2. ASSUME NEW i \in DOMAIN lists, i \notin disturbed PROVE Undisturbed(i)'
  <2>1. Undisturbed(i)
    BY <1>2 DEF RunsStraight
  <2>2. i # l
    BY <1>1
  <2>3. Here(i)' = Here(i)
    BY <1>1, <2>2 DEF Here
  <2>4. /\ lists'[i].start = lists[i].start /\ lists'[i].state = lists[i].state /\ out'[i] = out[i]
        /\ origin'[i] = origin[i] /\ executed'[i] = executed[i] /\ memory' = memory
    BY <1>1
  <2> QED
    BY <2>1, <2>3, <2>4, UndisturbedStays
<1>3. Undisturbed(l)'
  <2>1. PICK m : m = [pc |-> start, stack |-> <<>>, regs |-> regs, box |-> FALSE, out |-> <<>>]
    OBVIOUS
  <2>2. Ge!Straight(l, executed[l])' = Ge!After(m, 0)'
    BY <2>1, <1>1 DEF Ge!Straight
  <2>3. Ge!After(m, 0)' = Ge!After(m, 0)
    BY <1>1 DEF Ge!After, Ge!Executed
  <2>4. Ge!After(m, 0) = m
    BY AfterIs
  <2>5. Here(l)' = [pc |-> run'.pc, stack |-> run'.stack, regs |-> regs', box |-> lists'[l].box,
                    out |-> out'[l]]
    BY <1>1 DEF Here, Engine
  <2>6. lists'[l].box = FALSE
    <3>1. lists'[l].box \in BOOLEAN
      <4>1. l \in DOMAIN lists' /\ lists' \in Seq(ListRecords)
        BY <1>1 DEF GeTyped
      <4>2. lists'[l] \in ListRecords
        BY <4>1
      <4> QED
        BY <4>2 DEF ListRecords
    <3> QED
      BY <3>1, <1>1, Zenon
  <2>7. Here(l)' = m
    BY <2>1, <2>5, <2>6, <1>1
  <2>8. m.out = out'[l] /\ lists'[l].state # "completed"
    BY <2>1, <1>1
  <2> QED
    BY <2>2, <2>3, <2>4, <2>7, <2>8 DEF Undisturbed
<1> QED
  BY <1>1, <1>2, <1>3 DEF RunsStraight

\* A command executed is one command more of the straight execution.
LEMMA StepStraight ==
  ASSUME GeTyped, GeQueue, RunsStraight, Ge!Step
  PROVE  RunsStraight'
<1>0. PICK l : l = run.list
  OBVIOUS
<1>1. PICK c \in Words, m \in Machines :
           /\ Ge!Running /\ run.pc \in DOMAIN memory /\ c = memory[run.pc]
           /\ m = Ge!Command(Engine, c)
           /\ run'.pc = m.pc /\ run'.stack = m.stack /\ run'.list = l /\ run' \in Runs
           /\ regs' = m.regs
           /\ lists' = [lists EXCEPT ![l].box = m.box]
           /\ out' = [out EXCEPT ![l] = m.out]
           /\ executed' = [executed EXCEPT ![l] = executed[l] + 1]
           /\ disturbed' = IF m.regs = regs THEN disturbed
                           ELSE disturbed \cup {i \in Ge!ToSet(queue) : i # l}
           /\ UNCHANGED <<memory, queue, origin>>
  BY <1>0, StepIs
<1>2. /\ l \in DOMAIN lists /\ l \in DOMAIN out /\ lists[l].state = "running" /\ DOMAIN out = DOMAIN lists
      /\ DOMAIN executed = DOMAIN lists /\ executed[l] \in Nat /\ l \in Nat \ {0}
  <2>1. /\ l \in DOMAIN lists /\ l \in DOMAIN out /\ lists[l].state = "running" /\ DOMAIN out = DOMAIN lists
        /\ l \in Nat \ {0}
    BY <1>0, <1>1, EngineTyped
  <2>2. executed \in Seq(Nat) /\ Len(executed) = Len(lists)
    BY DEF GeTyped
  <2>3. DOMAIN executed = DOMAIN lists
    BY <2>2, ListsAre
  <2>4. executed[l] \in Nat
    BY <2>1, <2>2, <2>3
  <2> QED
    BY <2>1, <2>3, <2>4
<1>3. /\ DOMAIN lists' = DOMAIN lists
      /\ \A i \in DOMAIN lists :
           /\ lists'[i].pc = lists[i].pc /\ lists'[i].start = lists[i].start
           /\ lists'[i].stack = lists[i].stack /\ lists'[i].state = lists[i].state
           /\ i # l => lists'[i].box = lists[i].box
  BY <1>0, StepTyped
<1>4. /\ out'[l] = m.out /\ executed'[l] = executed[l] + 1 /\ lists'[l].box = m.box
      /\ \A i \in DOMAIN lists : i # l => out'[i] = out[i] /\ executed'[i] = executed[i]
  <2>1. lists[l] \in ListRecords
    BY <1>2, ListsAre
  <2> QED
    BY <2>1, <1>1, <1>2 DEF ListRecords
<1>5. Ge!Running'
  BY <1>1, <1>2 DEF Ge!Running, Ge!NoRun, Runs
<1>6. ASSUME NEW i \in DOMAIN lists, i # l, i \notin disturbed' PROVE Undisturbed(i)'
  <2>1. i \notin disturbed /\ (m.regs # regs => i \notin Ge!ToSet(queue))
    BY <1>1, <1>6
  <2>2. Undisturbed(i)
    BY <2>1 DEF RunsStraight
  <2>3. ASSUME lists[i].state \notin Ge!Done PROVE Here(i)' = Here(i)
    <3>1. i \in Ge!ToSet(queue)
      BY <2>3 DEF GeQueue, Ge!QueueHoldsUnfinished
    <3>2. regs' = regs
      BY <3>1, <2>1, <1>1
    <3>3. Here(i) = [pc |-> lists[i].pc, stack |-> lists[i].stack, regs |-> regs, box |-> lists[i].box,
                     out |-> out[i]]
      BY <1>0, <1>6 DEF Here
    <3>4. Here(i)' = [pc |-> lists'[i].pc, stack |-> lists'[i].stack, regs |-> regs', box |-> lists'[i].box,
                      out |-> out'[i]]
      BY <1>1, <1>6 DEF Here
    <3> QED
      BY <3>2, <3>3, <3>4, <1>3, <1>4, <1>6
  <2>4. /\ lists'[i].start = lists[i].start /\ lists'[i].state = lists[i].state /\ out'[i] = out[i]
        /\ origin'[i] = origin[i] /\ executed'[i] = executed[i] /\ memory' = memory
    BY <1>1, <1>3, <1>4, <1>6
  <2> QED
    BY <2>2, <2>3, <2>4, UndisturbedStays
<1>7. ASSUME l \notin disturbed' PROVE Undisturbed(l)'
  <2>1. l \notin disturbed
    BY <1>1, <1>7
  <2>2. Undisturbed(l)
    BY <2>1, <1>2 DEF RunsStraight
  <2>3. PICK n \in Nat : n = executed[l]
    BY <1>2
  <2>4. PICK b : b = [pc |-> lists[l].start, stack |-> <<>>, regs |-> origin[l], box |-> FALSE, out |-> <<>>]
    OBVIOUS
  <2>5. PICK e : e = Engine
    OBVIOUS
  <2>6. Ge!After(b, n) = e
    <3>1. lists[l].state \notin Ge!Done
      BY <1>2 DEF Ge!Done
    <3>2. Here(l) = Engine
      BY <1>0, <1>1 DEF Here
    <3> QED
      BY <3>1, <3>2, <2>2, <2>3, <2>4, <2>5 DEF Undisturbed, Ge!Straight
  <2>7. Ge!After(b, n + 1) = m
    <3>1. Ge!After(b, n + 1) = Ge!Executed(Ge!After(b, n))
      BY AfterIs
    <3>2. e.pc = run.pc
      BY <2>5 DEF Engine
    <3>3. Ge!Executed(e) = Ge!Command(e, memory[e.pc])
      BY <3>2, <1>1 DEF Ge!Executed
    <3> QED
      BY <3>1, <3>2, <3>3, <2>5, <2>6, <1>1
  <2>8. Ge!Straight(l, executed[l])' = Ge!After(b, n + 1)'
    <3>1. executed'[l] = n + 1 /\ lists'[l].start = lists[l].start /\ origin' = origin
      BY <1>1, <1>2, <1>3, <1>4, <2>3
    <3> QED
      BY <3>1, <2>4 DEF Ge!Straight
  <2>9. Ge!After(b, n + 1)' = Ge!After(b, n + 1)
    BY <1>1 DEF Ge!After, Ge!Executed
  <2>10. Here(l)' = m
    <3>1. Here(l)' = [pc |-> run'.pc, stack |-> run'.stack, regs |-> regs', box |-> lists'[l].box,
                      out |-> out'[l]]
      BY <1>1, <1>5 DEF Here, Engine
    <3>2. m = [pc |-> m.pc, stack |-> m.stack, regs |-> m.regs, box |-> m.box, out |-> m.out]
      BY DEF Machines
    <3> QED
      BY <3>1, <3>2, <1>1, <1>4
  <2>11. m.out = out'[l] /\ lists'[l].state # "completed"
    BY <1>2, <1>3, <1>4
  <2> QED
    BY <2>7, <2>8, <2>9, <2>10, <2>11 DEF Undisturbed
<1> QED
  BY <1>3, <1>6, <1>7 DEF RunsStraight

\* A list that is left has its machine stored in it, or is done.
LEMMA StopStraight ==
  ASSUME GeTyped, GeQueue, RunsStraight, Ge!Stop
  PROVE  RunsStraight'
<1>0. PICK l : l = run.list
  OBVIOUS
<1>1. /\ Ge!Running /\ run' = Ge!NoRun
      /\ UNCHANGED <<memory, regs, out, origin, executed, disturbed>>
  BY StopIs
<1>2. /\ DOMAIN lists' = DOMAIN lists
      /\ \A i \in DOMAIN lists :
           /\ lists'[i].start = lists[i].start /\ lists'[i].box = lists[i].box
           /\ i # l => /\ lists'[i].pc = lists[i].pc /\ lists'[i].stack = lists[i].stack
                       /\ lists'[i].state = lists[i].state
      /\ lists'[l].pc = run.pc /\ lists'[l].stack = run.stack
      /\ lists'[l].state = "completed" => run.pc \in DOMAIN memory /\ memory[run.pc].op = "end"
  BY <1>0, StopTyped
<1>3. ~Ge!Running'
  BY <1>1 DEF Ge!Running
<1>4. l \in DOMAIN lists /\ lists[l].state = "running"
  BY <1>0, <1>1, EngineTyped
<1>5. ASSUME NEW i \in DOMAIN lists, i # l, i \notin disturbed PROVE Undisturbed(i)'
  <2>1. Undisturbed(i)
    BY <1>5 DEF RunsStraight
  <2>2. Here(i)' = Here(i)
    BY <1>0, <1>1, <1>2, <1>3, <1>5 DEF Here
  <2>3. /\ lists'[i].start = lists[i].start /\ lists'[i].state = lists[i].state /\ out'[i] = out[i]
        /\ origin'[i] = origin[i] /\ executed'[i] = executed[i] /\ memory' = memory
    BY <1>1, <1>2, <1>5
  <2> QED
    BY <2>1, <2>2, <2>3, UndisturbedStays
<1>6. ASSUME l \notin disturbed PROVE Undisturbed(l)'
  <2>1. Undisturbed(l)
    BY <1>4, <1>6 DEF RunsStraight
  <2>2. PICK m : m = Ge!Straight(l, executed[l])
    OBVIOUS
  <2>3. Ge!Straight(l, executed[l])' = m
    <3>1. /\ lists'[l].start = lists[l].start
          /\ origin'[l] = origin[l] /\ executed'[l] = executed[l] /\ memory' = memory
      BY <1>1, <1>2, <1>4
    <3> QED
      BY <3>1, <2>2, StraightStays
  <2>4. m = Engine
    <3>1. lists[l].state \notin Ge!Done
      BY <1>4 DEF Ge!Done
    <3>2. Here(l) = Engine
      BY <1>0, <1>1 DEF Here
    <3> QED
      BY <3>1, <3>2, <2>1, <2>2 DEF Undisturbed
  <2>5. m = [pc |-> run.pc, stack |-> run.stack, regs |-> regs, box |-> lists[l].box, out |-> out[l]]
    BY <2>4, <1>0 DEF Engine
  <2>6. Here(l)' = [pc |-> lists'[l].pc, stack |-> lists'[l].stack, regs |-> regs', box |-> lists'[l].box,
                    out |-> out'[l]]
    BY <1>3 DEF Here
  <2>7. Here(l)' = m
    BY <2>5, <2>6, <1>1, <1>2, <1>4
  <2>8. m.out = out'[l]
    BY <2>5, <1>1
  <2>9. lists'[l].state = "completed" => m.pc \in DOMAIN memory' /\ memory'[m.pc].op = "end"
    BY <2>5, <1>1, <1>2
  <2> QED
    BY <2>3, <2>7, <2>8, <2>9 DEF Undisturbed
<1> QED
  BY <1>1, <1>2, <1>5, <1>6 DEF RunsStraight
-----------------------------------------------------------------------------
(* The display lists as a whole *)

\* The inductive invariant of the display lists.
GeInv == GeTyped /\ GeQueue /\ CallbacksKept /\ Ge!TexturesFresh /\ RunsStraight

\* A list is taken up by sceGeListUpdateStallAddr and sceGeContinue alike.
LEMMA TakenUpKeeps ==
  ASSUME GeInv, NEW t \in Threads, NEW l \in DOMAIN lists,
         (\E stall \in Stalls : Ge!ListUpdateStallAddr(t, l, stall)) \/ Ge!Continue(t)
  PROVE  GeInv'
<1>0. GeTyped /\ GeQueue /\ CallbacksKept /\ RunsStraight
  BY DEF GeInv
<1>1. \E ls \in Seq(ListRecords) : \E k \in DOMAIN lists : \E stall \in Nat :
           /\ ~Ge!Running /\ lists[k].state \notin Ge!Done
           /\ DOMAIN ls = DOMAIN lists
           /\ \A i \in DOMAIN lists : /\ ls[i].pc = lists[i].pc /\ ls[i].start = lists[i].start
                                      /\ ls[i].stack = lists[i].stack /\ ls[i].box = lists[i].box
                                      /\ i # k => ls[i].state = lists[i].state
           /\ Ge!Begin(t, ls, k, lists[k].pc, stall, lists[k].cb)
           /\ UNCHANGED <<memory, queue, regs, pending, callbacks, texels, palette, clut,
                          saved, out, origin, executed, disturbed, raised, dispatched>>
  <2>1. CASE Ge!Continue(t)
    BY <2>1, <1>0, ContinueIs
  <2>2. CASE \E stall \in Stalls : Ge!ListUpdateStallAddr(t, l, stall)
    <3>1. PICK stall \in Stalls : Ge!ListUpdateStallAddr(t, l, stall)
      BY <2>2
    <3>2. stall \in Nat
      BY GeConstants
    <3> QED
      BY <3>1, <3>2, <1>0, UpdateStallIs
  <2> QED
    BY <2>1, <2>2
<1>2. PICK ls \in Seq(ListRecords) : \E k \in DOMAIN lists : \E stall \in Nat :
           /\ ~Ge!Running /\ lists[k].state \notin Ge!Done
           /\ DOMAIN ls = DOMAIN lists
           /\ \A i \in DOMAIN lists : /\ ls[i].pc = lists[i].pc /\ ls[i].start = lists[i].start
                                      /\ ls[i].stack = lists[i].stack /\ ls[i].box = lists[i].box
                                      /\ i # k => ls[i].state = lists[i].state
           /\ Ge!Begin(t, ls, k, lists[k].pc, stall, lists[k].cb)
           /\ UNCHANGED <<memory, queue, regs, pending, callbacks, texels, palette, clut,
                          saved, out, origin, executed, disturbed, raised, dispatched>>
  BY <1>1
<1>3. PICK k \in DOMAIN lists : \E stall \in Nat :
           /\ ~Ge!Running /\ lists[k].state \notin Ge!Done
           /\ DOMAIN ls = DOMAIN lists
           /\ \A i \in DOMAIN lists : /\ ls[i].pc = lists[i].pc /\ ls[i].start = lists[i].start
                                      /\ ls[i].stack = lists[i].stack /\ ls[i].box = lists[i].box
                                      /\ i # k => ls[i].state = lists[i].state
           /\ Ge!Begin(t, ls, k, lists[k].pc, stall, lists[k].cb)
           /\ UNCHANGED <<memory, queue, regs, pending, callbacks, texels, palette, clut,
                          saved, out, origin, executed, disturbed, raised, dispatched>>
  BY <1>2
<1>4. PICK stall \in Nat :
           /\ ~Ge!Running /\ lists[k].state \notin Ge!Done
           /\ DOMAIN ls = DOMAIN lists
           /\ \A i \in DOMAIN lists : /\ ls[i].pc = lists[i].pc /\ ls[i].start = lists[i].start
                                      /\ ls[i].stack = lists[i].stack /\ ls[i].box = lists[i].box
                                      /\ i # k => ls[i].state = lists[i].state
           /\ Ge!Begin(t, ls, k, lists[k].pc, stall, lists[k].cb)
           /\ UNCHANGED <<memory, queue, regs, pending, callbacks, texels, palette, clut,
                          saved, out, origin, executed, disturbed, raised, dispatched>>
  BY <1>3
<1>5. /\ GeTyped' /\ GeQueue' /\ DOMAIN lists' = DOMAIN lists
      /\ \A i \in DOMAIN lists : /\ lists'[i].pc = lists[i].pc /\ lists'[i].start = lists[i].start
                                 /\ lists'[i].stack = lists[i].stack /\ lists'[i].box = lists[i].box
                                 /\ i # k => lists'[i].state = lists[i].state
      /\ lists'[k].state = "running"
      /\ Ge!Running' /\ run'.list = k /\ run'.pc = lists[k].pc /\ run'.stack = lists[k].stack
      /\ run'.todo = <<>> /\ run'.texture = Ge!NoTexture
  BY <1>0, <1>4, TakenUp
<1>6. ~Ge!Running /\ UNCHANGED <<memory, regs, pending, out, origin, executed, disturbed, raised, dispatched>>
  BY <1>4
<1>7. CallbacksKept'
  BY <1>0, <1>5, <1>6, CallbacksStay
<1>8. Ge!TexturesFresh'
  BY <1>5 DEF Ge!TexturesFresh
<1>9. \A i \in DOMAIN lists :
        /\ lists'[i].state \in Ge!Done <=> lists[i].state \in Ge!Done
        /\ lists'[i].state = "completed" => lists[i].state = "completed"
  <2>1. "running" \notin Ge!Done /\ lists[k].state \notin Ge!Done
    BY <1>4 DEF Ge!Done
  <2> QED
    BY <2>1, <1>5
<1>10. RunsStraight'
  BY <1>0, <1>5, <1>6, <1>9, NothingExecuted
<1> QED
  BY <1>5, <1>7, <1>8, <1>10 DEF GeInv

\* sceGeListEnQueue and sceGeListEnQueueHead.
LEMMA EnQueueKeeps ==
  ASSUME GeInv, NEW t \in Threads, NEW start \in Starts, NEW stall \in Stalls,
         NEW cb \in CallbackIds, NEW head \in BOOLEAN, Ge!ListEnQueue(t, start, stall, cb, head)
  PROVE  GeInv'
<1>0. GeTyped /\ GeQueue /\ CallbacksKept /\ RunsStraight
  BY DEF GeInv
<1>1. /\ GeTyped' /\ GeQueue' /\ ~Ge!Running
      /\ DOMAIN lists' = DOMAIN lists \cup {Len(lists) + 1}
      /\ \A i \in DOMAIN lists : out'[i] = out[i]
      /\ run'.todo = <<>> /\ run'.texture = Ge!NoTexture
      /\ DOMAIN out = DOMAIN lists /\ DOMAIN out' = DOMAIN lists'
      /\ UNCHANGED <<pending, raised, dispatched>>
  BY <1>0, EnQueueTyped
<1>2. \A i \in DOMAIN out : i \in DOMAIN out' /\ out'[i] = out[i]
  BY <1>1
<1>3. CallbacksKept'
  BY <1>0, <1>1, <1>2, CallbacksStay
<1>4. Ge!TexturesFresh'
  BY <1>1 DEF Ge!TexturesFresh
<1>5. RunsStraight'
  BY <1>0, NewListStraight
<1> QED
  BY <1>1, <1>3, <1>4, <1>5 DEF GeInv

\* Calls that take up no list.
LEMMA OtherKeeps ==
  ASSUME GeInv, NEW t,
         \/ Ge!SetCallback(t) \/ Ge!SaveContext(t) \/ Ge!RestoreContext(t)
         \/ \E id \in callbacks : Ge!UnsetCallback(t, id)
         \/ Ge!GuestWrites
         \/ \E mode \in {0, 1} : Ge!Break(t, mode)
  PROVE  GeInv'
<1>0. GeTyped /\ GeQueue /\ CallbacksKept /\ RunsStraight
  BY DEF GeInv
<1>1. /\ GeTyped' /\ GeQueue' /\ ~Ge!Running /\ DOMAIN lists' = DOMAIN lists
      /\ UNCHANGED <<memory, run, pending, out, origin, executed, disturbed, raised, dispatched>>
      /\ \A i \in DOMAIN lists :
           /\ lists'[i].pc = lists[i].pc /\ lists'[i].start = lists[i].start
           /\ lists'[i].stack = lists[i].stack /\ lists'[i].box = lists[i].box
           /\ lists[i].state \in Ge!Done => lists'[i].state = lists[i].state
           /\ lists[i].state \notin Ge!Done => lists'[i].state \notin Ge!Done
      /\ regs' = regs \/ \A i \in DOMAIN lists : lists[i].state \in Ge!Done
  <2>1. CASE \E mode \in {0, 1} : Ge!Break(t, mode)
    BY <2>1, <1>0, BreakTyped
  <2>2. CASE \/ Ge!SetCallback(t) \/ Ge!SaveContext(t) \/ Ge!RestoreContext(t)
             \/ \E id \in callbacks : Ge!UnsetCallback(t, id)
             \/ Ge!GuestWrites
    BY <2>2, <1>0, OtherTyped
  <2> QED
    BY <2>1, <2>2
<1>2. ~Ge!Running'
  BY <1>1 DEF Ge!Running
<1>3. CallbacksKept'
  BY <1>0, <1>1, <1>2, CallbacksStay
<1>4. Ge!TexturesFresh'
  BY <1>2 DEF Ge!TexturesFresh
<1>5. \A i \in DOMAIN lists :
        /\ lists'[i].state \in Ge!Done <=> lists[i].state \in Ge!Done
        /\ lists'[i].state = "completed" => lists[i].state = "completed"
  BY <1>1 DEF Ge!Done
<1>6. RunsStraight'
  BY <1>0, <1>1, <1>2, <1>5, NothingExecuted
<1> QED
  BY <1>1, <1>3, <1>4, <1>6 DEF GeInv

\* Commands, and the end of an execution.
LEMMA ExecutionKeeps ==
  ASSUME GeInv, Ge!Step \/ Ge!Stop
  PROVE  GeInv'
<1>0. GeTyped /\ GeQueue /\ CallbacksKept /\ Ge!TexturesFresh /\ RunsStraight
  BY DEF GeInv
<1>1. CASE Ge!Step
  <2>1. GeTyped' /\ GeQueue'
    BY <1>0, <1>1, StepTyped
  <2>2. CallbacksKept' /\ RunsStraight'
    BY <1>0, <1>1, StepKeepsCallbacks, StepStraight
  <2>3. /\ Ge!Running
        /\ run'.texture # Ge!NoTexture =>
             \/ run'.texture = <<texels', clut'>>
             \/ run.texture # Ge!NoTexture /\ run'.texture = run.texture /\ texels' = texels /\ clut' = clut
    BY <1>0, <1>1, StepIs
  <2>4. Ge!TexturesFresh'
    BY <2>3, <1>0 DEF Ge!TexturesFresh
  <2> QED
    BY <2>1, <2>2, <2>4 DEF GeInv
<1>2. CASE Ge!Stop
  <2>1. GeTyped' /\ GeQueue'
    BY <1>0, <1>2, StopTyped
  <2>2. CallbacksKept' /\ RunsStraight'
    BY <1>0, <1>2, StopKeepsCallbacks, StopStraight
  <2>3. run' = Ge!NoRun
    BY <1>2 DEF Ge!Stop
  <2>4. Ge!TexturesFresh'
    BY <2>3 DEF Ge!TexturesFresh, Ge!Running
  <2> QED
    BY <2>1, <2>2, <2>4 DEF GeInv
<1> QED
  BY <1>1, <1>2

\* Callbacks begin and return.
LEMMA DispatchKeeps ==
  ASSUME GeInv, NEW t \in Threads, Ge!StartCallback(t) \/ Ge!EndCallback(t)
  PROVE  GeInv'
<1>0. GeTyped /\ GeQueue /\ CallbacksKept /\ Ge!TexturesFresh /\ RunsStraight
  BY DEF GeInv
<1>1. /\ GeTyped' /\ GeQueue' /\ CallbacksKept' /\ ~Ge!Running
      /\ UNCHANGED <<memory, lists, queue, regs, run, out, origin, executed, disturbed>>
  BY <1>0, StartTyped, EndTyped
<1>2. ~Ge!Running'
  BY <1>1 DEF Ge!Running
<1>3. Ge!TexturesFresh'
  BY <1>2 DEF Ge!TexturesFresh
<1>4. RunsStraight'
  BY <1>0, <1>1, <1>2, NothingExecuted
<1> QED
  BY <1>1, <1>3, <1>4 DEF GeInv

\* Steps that leave the display lists alone.
LEMMA GeStutter ==
  ASSUME GeInv, UNCHANGED ge
  PROVE  GeInv'
<1>0. GeTyped /\ GeQueue /\ CallbacksKept /\ Ge!TexturesFresh /\ RunsStraight
  BY DEF GeInv
<1>1. UNCHANGED <<memory, lists, queue, regs, run, pending, callbacks, texels, palette, clut,
                  saved, out, origin, executed, disturbed, raised, dispatched>>
  BY DEF ge
<1>2. GeTyped'
  BY <1>0, <1>1 DEF GeTyped
<1>3. GeQueue'
  BY <1>0, <1>1 DEF GeQueue, Ge!QueueHoldsUnfinished, Ge!Running
<1>4. CallbacksKept'
  BY <1>0, <1>1 DEF CallbacksKept, Ge!Running, Held, Awaited, Distinct
<1>5. Ge!TexturesFresh'
  BY <1>0, <1>1 DEF Ge!TexturesFresh, Ge!Running
<1>6. RunsStraight'
  <2> SUFFICES ASSUME NEW i \in DOMAIN lists, i \notin disturbed PROVE Undisturbed(i)'
    BY <1>1 DEF RunsStraight
  <2>1. Undisturbed(i)
    BY <1>0 DEF RunsStraight
  <2>2. Here(i)' = Here(i)
    BY <1>1 DEF Here, Engine, Ge!Running
  <2> QED
    BY <2>1, <2>2, <1>1, UndisturbedStays
<1> QED
  BY <1>2, <1>3, <1>4, <1>5, <1>6 DEF GeInv

\* All steps of the display lists.
LEMMA GeKept ==
  ASSUME GeInv, Ge!GeCalls \/ Ge!GeSteps
  PROVE  GeInv'
<1>1. CASE Ge!GuestWrites
  BY <1>1, OtherKeeps
<1>2. ASSUME NEW t \in Threads, Ge!Guest(t) PROVE GeInv'
  <2>1. CASE \E start \in Starts, stall \in Stalls, cb \in CallbackIds, head \in BOOLEAN :
               Ge!ListEnQueue(t, start, stall, cb, head)
    BY <2>1, EnQueueKeeps
  <2>2. CASE \E l \in DOMAIN lists, stall \in Stalls : Ge!ListUpdateStallAddr(t, l, stall)
    BY <2>2, TakenUpKeeps
  <2>3. CASE Ge!Continue(t)
    <3>1. PICK l : l \in DOMAIN lists
      BY <2>3, ContinueIs DEF GeInv
    <3> QED
      BY <3>1, <2>3, TakenUpKeeps
  <2>4. CASE \/ \E mode \in {0, 1} : Ge!Break(t, mode)
             \/ Ge!SetCallback(t) \/ Ge!SaveContext(t) \/ Ge!RestoreContext(t)
             \/ \E id \in callbacks : Ge!UnsetCallback(t, id)
    BY <2>4, OtherKeeps
  <2> QED
    BY <1>2, <2>1, <2>2, <2>3, <2>4 DEF Ge!Guest
<1> QED
  BY <1>1, <1>2, ExecutionKeeps, DispatchKeeps DEF Ge!GeCalls, Ge!GeSteps

\* Only a dispatch refuses a callback, and it is the one it dispatches.
LEMMA RefusedStays ==
  ASSUME GeInv, RefusedKept, (Ge!GeCalls \/ Ge!GeSteps) \/ UNCHANGED ge
  PROVE  RefusedKept'
<1>1. CASE UNCHANGED <<dispatched, refused>>
  BY <1>1 DEF RefusedKept
<1>2. ASSUME NEW t \in Threads, Ge!StartCallback(t) PROVE RefusedKept'
  <2> DEFINE h == Head(Ge!Last(pending[t]).todo)
  <2>1. /\ dispatched' = Append(dispatched, h)
        /\ refused' \in {refused, refused \cup {h}}
    BY <1>2 DEF Ge!StartCallback
  <2>2. h \in Items /\ dispatched \in Seq(Items)
    <3>1. GeTyped /\ CallbacksKept
      BY DEF GeInv
    <3>2. dispatched \in Seq(Items)
      BY <3>1 DEF GeTyped
    <3>3. pending[t] # <<>>
      BY <1>2 DEF Ge!StartCallback
    <3>4. Len(pending[t]) \in DOMAIN pending[t] /\ Ge!Last(pending[t]) = pending[t][Len(pending[t])]
      BY <3>1, <3>3, FramesAre
    <3>5. pending[t][Len(pending[t])].todo \in Seq(Items) /\ pending[t][Len(pending[t])].todo # <<>>
      BY <3>1, <3>4, FrameIs DEF CallbacksKept
    <3> QED
      BY <3>2, <3>4, <3>5
  <2> HIDE DEF h
  <2>3. Ge!ToSet(dispatched') = Ge!ToSet(dispatched) \cup {h}
    <3> DEFINE m == Len(dispatched)
    <3>1. /\ DOMAIN dispatched = 1..m /\ m \in Nat /\ DOMAIN dispatched' = 1..(m + 1)
          /\ dispatched'[m + 1] = h /\ \A i \in 1..m : dispatched'[i] = dispatched[i]
      BY <2>1, <2>2, AppendProperties
    <3> QED
      BY <3>1 DEF Ge!ToSet
  <2> QED
    BY <2>1, <2>3 DEF RefusedKept
<1>3. CASE Ge!Step \/ Ge!Stop \/ \E t \in Threads : Ge!EndCallback(t)
  <2>1. UNCHANGED <<dispatched, refused>>
    BY <1>3, Zenon DEF Ge!Step, Ge!Stop, Ge!EndCallback, Ge!geHist
  <2> QED
    BY <2>1, <1>1
<1>4. CASE Ge!GeCalls
  <2>1. CASE Ge!GuestWrites
    BY <2>1, <1>1 DEF Ge!GuestWrites, Ge!geHist
  <2>2. ASSUME NEW t \in Threads, Ge!Guest(t) PROVE UNCHANGED <<dispatched, refused>>
    BY <2>2, Zenon DEF Ge!Guest, Ge!ListEnQueue, Ge!ListUpdateStallAddr, Ge!Break, Ge!Continue,
              Ge!SetCallback, Ge!UnsetCallback, Ge!SaveContext, Ge!RestoreContext, Ge!geHist
  <2> QED
    BY <1>4, <1>1, <2>1, <2>2 DEF Ge!GeCalls
<1>5. CASE UNCHANGED ge
  BY <1>5, <1>1 DEF ge
<1> QED
  BY <1>2, <1>3, <1>4, <1>5 DEF Ge!GeSteps

\* A step of the services is a step of the display lists, or leaves them alone.
LEMMA GeOrNot ==
  ASSUME [Next]_vars
  PROVE  (Ge!GeCalls \/ Ge!GeSteps) \/ UNCHANGED ge
<1>1. CASE UNCHANGED vars
  BY <1>1 DEF vars
<1>2. CASE Call
  BY <1>2, Zenon DEF Call, Frame
<1>3. CASE Step
  BY <1>3, Zenon DEF Step, Frame
<1> QED
  BY <1>1, <1>2, <1>3 DEF Next

\* The initial states.
LEMMA GeInitially ==
  ASSUME Init
  PROVE  GeInv
<1>1. /\ memory \in Programs /\ lists = <<>> /\ queue = <<>> /\ run = Ge!NoRun
      /\ regs = [offset |-> 0, base |-> 0, vertex |-> 0] /\ pending = [t \in Threads |-> <<>>]
      /\ callbacks = {} /\ texels = 0 /\ palette = 0 /\ clut = 0 /\ saved = Ge!NoRegs
      /\ out = <<>> /\ origin = <<>> /\ executed = <<>> /\ raised = {} /\ dispatched = <<>>
  BY DEF Init, Ge!GeInit
<1>2. ~Ge!Running
  BY <1>1 DEF Ge!Running
<1>3. GeTyped
  <2>1. regs \in Registers
    BY <1>1 DEF Registers
  <2>2. DOMAIN lists = {} /\ Len(lists) = 0
    BY <1>1
  <2>3. pending \in [Threads -> Seq(CallbackFrames)]
    BY <1>1
  <2> QED
    BY <1>1, <2>1, <2>2, <2>3 DEF GeTyped
<1>4. GeQueue
  BY <1>1, <1>2 DEF GeQueue, Ge!QueueHoldsUnfinished, Ge!IsInjective, Ge!ToSet
<1>5. CallbacksKept
  <2>1. \A t \in Threads : DOMAIN pending[t] = {}
    BY <1>1
  <2>2. Ge!IsInjective(dispatched) /\ Ge!ToSet(dispatched) = {}
    BY <1>1 DEF Ge!IsInjective, Ge!ToSet
  <2>3. Distinct(pending) /\ \A x : ~Held(pending, x)
    BY <2>1 DEF Distinct, Held
  <2> QED
    BY <1>1, <1>2, <2>1, <2>2, <2>3 DEF CallbacksKept
<1>6. Ge!TexturesFresh
  BY <1>2 DEF Ge!TexturesFresh
<1>7. RunsStraight
  BY <1>1 DEF RunsStraight
<1> QED
  BY <1>3, <1>4, <1>5, <1>6, <1>7 DEF GeInv

\* The queue, the callbacks and the machines of the lists stay as GeInv says, through
\* any calls of any threads, nested in callbacks or not (ge_scheduler.hpp, execute_ge_list).
THEOREM GeInvariant == Spec => [](GeInv /\ RefusedKept)
<1>1. Init => GeInv /\ RefusedKept
  BY GeInitially DEF Init, Ge!GeInit, RefusedKept
<1>2. GeInv /\ RefusedKept /\ [Next]_vars => GeInv' /\ RefusedKept'
  BY GeOrNot, GeKept, GeStutter, RefusedStays
<1> QED
  BY <1>1, <1>2, PTL DEF Spec

\* Whatever is enqueued, stalled, broken off and continued, from callbacks too: the queue
\* holds the unfinished lists, each once; every callback a list asked for is dispatched once,
\* and made unless the heap has no stack for it; no stale texture is drawn; and a list whose registers no other list changed has put out what
\* as many commands put out without a stop (ge_scheduler.hpp, execute_ge_list, stubs/ge).
THEOREM GeIsSound == Spec => []GeSound
<1>1. ASSUME GeInv, RefusedKept PROVE GeSound
  <2>0. GeTyped /\ GeQueue /\ CallbacksKept /\ Ge!TexturesFresh /\ RunsStraight
    BY <1>1 DEF GeInv
  <2>1. Ge!GeTypeOK
    <3>1. \A l \in DOMAIN lists :
            /\ lists[l].state \in {"queued", "running", "stalled", "paused"} \cup Ge!Done
            /\ Len(lists[l].stack) <= Depth
      BY <2>0, ListsAre DEF Unfinished
    <3> QED
      BY <3>1, <2>0 DEF GeTyped, Ge!GeTypeOK
  <2>2. Ge!QueueHoldsUnfinished
    BY <2>0 DEF GeQueue
  <2>3. Ge!EveryCallbackOnce
    BY <1>1, <2>0, OnceFromKept
  <2>4. Ge!StallsInvisible
    BY <2>0 DEF RunsStraight, Undisturbed, Ge!StallsInvisible
  <2> QED
    BY <2>0, <2>1, <2>2, <2>3, <2>4 DEF GeSound
<1> QED
  BY <1>1, GeInvariant, PTL
=============================================================================
