----------------------------- MODULE Executables -----------------------------
(***************************************************************************)
(* What psprism knows of an executable: its load segments and memory image *)
(* (loader.cpp, image.cpp), its relocations, written to the project as a   *)
(* compact stream of bytes (relocations.cpp) and applied by the generated  *)
(* program, on the desktop from records and on the PSP from the stream     *)
(* (relocation.hpp), and the code map (code_map.cpp).  A word has four     *)
(* bytes of GuestByteBits bits, the bytes of the stream are real ones.     *)
(*                                                                         *)
(* Before it is read, a file is decrypted if need be (decrypt.cpp) and its *)
(* fingerprint is taken (hash.cpp).                                        *)
(***************************************************************************)
EXTENDS Integers, Sequences, FiniteSets, SequencesExt, TLC

CONSTANTS
    GuestByteBits,      \* bits of a byte of the guest
    GuestBase,          \* where an image without a base of its own is loaded
    UserBase, UserEnd,  \* psp_user_base, psp_user_end
    InfoSize, GpField,  \* size of SceModuleInfo, offset of its gp_value
    NoInfo,             \* no section is named .rodata.sceModuleInfo
    Elfs,               \* files: [data, headers, entry, prx, named, pool, max]
    SegmentNumbers,     \* numbers a relocation may use
    Lines, MaxLines     \* lines of code maps, and how many

VARIABLES
    elf,                \* the file; relocations are taken from its pool
    segments,           \* image.load_segments
    records,            \* image.relocations
    lines               \* the code map's lines

CONSTANTS
    Hosts,                   \* [configured, path, files]: the environment and the disc
    Names,                   \* what the program is called, in order
    WellKnown,               \* places that are tried in the end
    InputSize,               \* size of the encrypted executable
    NoPlace,                 \* no configured place, or an empty directory of PATH
    BlockSize, LengthSize,   \* 64 and 8
    ByteValues,              \* the values of a byte
    Mark,                    \* 0x80
    MaxPieces, PieceSizes    \* reads of sha256_file

VARIABLES
    host, place, attempted, opened, verdict,    \* decryption
    message,                 \* all bytes up to now
    block,                   \* the first block_size_ bytes of block_
    hashed,                  \* the blocks that were worked on: state_
    pieces                   \* number of pieces up to now

evars == <<elf, segments, records, lines>>

Word == 2^(4 * GuestByteBits)
Half == 2^(2 * GuestByteBits)
Byte == 2^GuestByteBits
Signed(h) == IF h >= Half \div 2 THEN h - Half ELSE h

ExecutablesAssumption ==
    /\ {GuestByteBits, GuestBase, UserBase, UserEnd, InfoSize, GpField, MaxLines} \subseteq Nat
    /\ NoInfo \notin Nat
    /\ \A r \in UNION {e.pool : e \in Elfs} :
         r.patch \in SegmentNumbers /\ r.target \in SegmentNumbers
-----------------------------------------------------------------------------
(* load_elf.  A program header is [load, offset, address, paddr, fsize,    *)
(* msize], a load segment [index, address, size, bytes].                   *)

LoadHeaders ==
    {i \in DOMAIN elf.headers : elf.headers[i].load}
InvalidHeader(h) == h.fsize > h.msize \/ h.offset + h.fsize > Len(elf.data)

\* An image whose segments are all in user memory is moved to offset 0.
preferred_base ==
    IF /\ LoadHeaders # {}
       /\ \A i \in LoadHeaders :
            LET h == elf.headers[i]
            IN  h.address >= UserBase /\ h.address < UserEnd /\ h.msize <= UserEnd - h.address
      THEN UserBase ELSE 0

ElfRefused ==
    \/ \E i \in LoadHeaders : InvalidHeader(elf.headers[i])
    \/ preferred_base # 0 /\ elf.entry < preferred_base

\* In the order of the headers, each under its number in the table.
load_segments ==
    LET indices == SortSeq([k \in 1..Len(elf.headers) |-> k], <)
        Segment(i) ==
            LET h == elf.headers[i]
            IN  [index |-> i - 1, address |-> h.address - preferred_base, size |-> h.msize,
                 bytes |-> SubSeq(elf.data, h.offset + 1, h.offset + h.fsize)]
        loads == SelectSeq(indices, LAMBDA i : elf.headers[i].load)
    IN  [k \in DOMAIN loads |-> Segment(loads[k])]

memory_size ==
    LET ends == {segments[k].address + segments[k].size : k \in DOMAIN segments} \cup {0}
    IN  CHOOSE e \in ends : \A f \in ends : f <= e

\* The segments are copied in their order, the rest is zero.
memory_image ==
    LET Over(a) == {k \in DOMAIN segments :
                      a \in segments[k].address
                              ..(segments[k].address + Len(segments[k].bytes) - 1)}
        LastOf(S) == CHOOSE k \in S : \A j \in S : j <= k
    IN  [a \in 0..(memory_size - 1) |->
           IF Over(a) = {} THEN 0
           ELSE LET s == segments[LastOf(Over(a))] IN s.bytes[a - s.address + 1]]

\* The address of SceModuleInfo: of the section with its name, or, in a PRX,
\* of the place in the file that the first segment's p_paddr gives.
module_info_address ==
    LET first == CHOOSE i \in LoadHeaders : \A j \in LoadHeaders : i <= j
        at == elf.headers[first].paddr
        Holds(h) == at >= h.offset /\ at - h.offset <= h.fsize
                    /\ h.fsize - (at - h.offset) >= InfoSize
        holders == {i \in LoadHeaders : Holds(elf.headers[i])}
        holder == elf.headers[CHOOSE i \in holders : \A j \in holders : i <= j]
    IN  IF elf.named # NoInfo THEN elf.named
        ELSE IF ~elf.prx \/ LoadHeaders = {} THEN NoInfo
        ELSE IF holders = {} THEN NoInfo
        ELSE holder.address + (at - holder.offset)

gp_pointer_offset == module_info_address - preferred_base + GpField

read_u32(mem, a) ==
    mem[a] + (Byte * mem[a + 1]) + (Byte^2 * mem[a + 2]) + (Byte^3 * mem[a + 3])
write_u32(mem, a, v) ==
    [b \in DOMAIN mem |-> IF b \in a..(a + 3) THEN (v \div Byte^(b - a)) % Byte ELSE mem[b]]
-----------------------------------------------------------------------------
(* compact_relocations. *)

TypeCode(t) == CASE t = 0 -> 0 [] t = 2 -> 1 [] t = 4 -> 2 [] t = 5 -> 3 [] t = 6 -> 4 [] OTHER -> 255
ExtendedCode(t) == CASE t = 2 -> 5 [] t = 4 -> 6 [] t = 6 -> 7 [] OTHER -> 255

\* Mutant of CanUseShort: three bits for the distance hold one more.
CanUseShortFar(r, delta) ==
    /\ TypeCode(r.type) # 255 /\ r.patch < 2 /\ r.target < 2
    /\ delta >= 0 /\ delta % 4 = 0 /\ delta <= 32

CanUseShort(r, delta) ==
    /\ TypeCode(r.type) # 255 /\ r.patch < 2 /\ r.target < 2
    /\ delta >= 0 /\ delta % 4 = 0 /\ delta <= 28

\* The last conjunct keeps the byte 0xff for the long form.
CanUseExtendedShort(r, delta) ==
    /\ ExtendedCode(r.type) # 255 /\ r.patch = 0 /\ r.target = 0
    /\ delta >= 0 /\ delta % 4 = 0 /\ delta <= 124
    /\ ~(ExtendedCode(r.type) = 7 /\ delta = 124)

\* Seven bits in each byte, the lowest first.
Varint(tag) ==
    LET V[t \in 0..tag] == IF t < 128 THEN <<t>> ELSE <<128 + (t % 128)>> \o V[t \div 128]
    IN  V[tag]

PackedMetadata(r) ==
    LET packed == r.type + (16 * r.patch) + (64 * r.target)
    IN  IF r.type < 16 /\ r.patch < 4 /\ r.target < 4 /\ packed # 255
          THEN <<packed>> ELSE <<255, r.type, r.patch, r.target>>

\* The bytes of a relocation, after one (or none) with the metadata `previous'.
EncodedRecord(r, delta, previous) ==
    LET zigzag == IF delta >= 0 THEN delta * 2 ELSE (-(delta + 1) * 2) + 1
        changed == previous # <<r.type, r.patch, r.target>>
    IN  IF CanUseShort(r, delta)
          THEN <<((32 * (delta \div 4)) + (16 * r.target) + (8 * r.patch) + TypeCode(r.type)) % 256>>
        ELSE IF CanUseExtendedShort(r, delta)
          THEN <<((8 * (delta \div 4)) + ExtendedCode(r.type)) % 256>>
        ELSE <<255>> \o Varint((zigzag * 2) + (IF changed THEN 1 ELSE 0))
             \o (IF changed THEN PackedMetadata(r) ELSE <<>>)

compact_relocations(rs) ==
    LET E[n \in 0..Len(rs)] ==
          IF n = 0
            THEN [bytes |-> <<>>, prev |-> [s \in SegmentNumbers |-> 0], meta |-> <<>>]
            ELSE LET r == rs[n]
                     e == E[n - 1]
                 IN  [bytes |-> e.bytes \o EncodedRecord(r, r.offset - e.prev[r.patch], e.meta),
                      prev |-> [e.prev EXCEPT ![r.patch] = r.offset],
                      meta |-> <<r.type, r.patch, r.target>>]
    IN  E[Len(rs)].bytes
-----------------------------------------------------------------------------
(* CompactRelocationDecoder. *)

Decoder == [cursor |-> 1, type |-> 0, patch |-> 0, target |-> 0, known |-> FALSE,
            prev |-> [s \in SegmentNumbers |-> 0], valid |-> TRUE, record |-> <<>>]
Invalid(d) == [d EXCEPT !.valid = FALSE]

\* next(), from the metadata and the difference on.
Produce(d, delta) ==
    LET offset == d.prev[d.patch] + delta
    IN  IF offset < 0 THEN Invalid(d)
        ELSE [d EXCEPT !.prev[d.patch] = offset,
                       !.record = [offset |-> offset, type |-> d.type, patch |-> d.patch,
                                   target |-> d.target]]

ShortForm(d, first) ==
    LET code == first % 8
        Type == CASE code = 0 -> 0 [] code \in {1, 5} -> 2 [] code \in {2, 6} -> 4
                  [] code = 3 -> 5 [] code \in {4, 7} -> 6
        e == [d EXCEPT !.type = Type, !.known = TRUE, !.cursor = @ + 1,
                       !.patch = IF code <= 4 THEN (first \div 8) % 2 ELSE 0,
                       !.target = IF code <= 4 THEN (first \div 16) % 2 ELSE 0]
    IN  Produce(e, 4 * (IF code <= 4 THEN first \div 32 ELSE first \div 8))

LongForm(d, bytes) ==
    LET ends == {k \in (d.cursor + 1)..Len(bytes) : bytes[k] < 128}
        end == CHOOSE k \in ends : \A j \in ends : k <= j
        Tag[k \in (d.cursor + 1)..(end + 1)] ==
            IF k > end THEN 0 ELSE (bytes[k] % 128) + (128 * Tag[k + 1])
        tag == Tag[d.cursor + 1]
        at == end + 1                                   \* behind the tag
        Packed(e) == IF bytes[at] # 255
                       THEN [e EXCEPT !.type = bytes[at] % 16, !.patch = (bytes[at] \div 16) % 4,
                                      !.target = bytes[at] \div 64, !.cursor = at + 1]
                       ELSE [e EXCEPT !.type = bytes[at + 1], !.patch = bytes[at + 2],
                                      !.target = bytes[at + 3], !.cursor = at + 4]
        e == IF tag % 2 = 1 THEN [Packed(d) EXCEPT !.known = TRUE] ELSE [d EXCEPT !.cursor = at]
        zigzag == tag \div 2
        magnitude == zigzag \div 2
    IN  IF \/ ends = {}
           \/ tag % 2 = 1 /\ (at > Len(bytes) \/ (bytes[at] = 255 /\ at + 3 > Len(bytes)))
          THEN Invalid(d)
        ELSE IF ~e.known THEN Invalid(e)
        ELSE Produce(e, IF zigzag % 2 = 1 THEN -(magnitude + 1) ELSE magnitude)

DecodeNext(d, bytes) ==
    IF ~d.valid \/ d.cursor > Len(bytes) THEN Invalid(d)
    ELSE IF bytes[d.cursor] # 255 THEN ShortForm(d, bytes[d.cursor])
    ELSE LongForm(d, bytes)

\* The decoder after each of `count' relocations.
Decoded(bytes, count) ==
    LET D[n \in 0..count] == IF n = 0 THEN Decoder ELSE DecodeNext(D[n - 1], bytes)
    IN  D

Consumed(d, bytes) == d.valid /\ d.cursor = Len(bytes) + 1
-----------------------------------------------------------------------------
(* apply_psp_relocations and apply_compact_psp_relocations. *)

\* find_segment: the first with the number.
find_segment(n) ==
    LET found == {k \in DOMAIN segments : segments[k].index = n}
    IN  IF found = {} THEN <<>> ELSE segments[CHOOSE k \in found : \A j \in found : k <= j]

\* Where the generated program puts the image.
LoadBase == IF preferred_base = 0 THEN GuestBase ELSE preferred_base

WordOffset(r) == find_segment(r.patch).address + r.offset
Patches(r) ==
    /\ find_segment(r.patch) # <<>>
    /\ r.offset + 4 <= find_segment(r.patch).size /\ WordOffset(r) + 4 <= memory_size

HighPart(w) == w - (w % Half)

\* The word a relocation leaves; low is the word of the LO16 behind a HI16.
Patched(r, word, low) ==
    LET to == (LoadBase + find_segment(r.target).address) % Word
        field == Word \div 64
        full == (((word % Half) * Half) + Signed(low % Half) + to) % Word
    IN  CASE r.type = 0 -> word
          [] r.type = 2 -> (word + to) % Word
          [] r.type = 4 -> ((word \div field) * field) + (((word % field) + (to \div 4)) % field)
          [] r.type = 5 -> HighPart(word) + (((full + (Half \div 2)) % Word) \div Half)
          [] r.type = 6 -> HighPart(word) + ((Signed(word % Half) + to) % Half)

\* The gp the PSP's loader is given: the stored value is what the first
\* relocation of the field adds to.
gp_value_offset(rs, mem) ==
    LET here == {i \in DOMAIN rs :
                   /\ find_segment(rs[i].patch) # <<>> /\ rs[i].type = 2
                   /\ WordOffset(rs[i]) = gp_pointer_offset}
        first == rs[CHOOSE i \in here : \A j \in here : i <= j]
        raw == read_u32(mem, gp_pointer_offset)
    IN  IF here = {} THEN raw ELSE (raw + find_segment(first.target).address) % Word

\* The relocation a HI16 is paired with: the next LO16 of its target.
PairOf(rs, i) ==
    LET lows == {j \in (i + 1)..Len(rs) : rs[j].type = 6 /\ rs[j].target = rs[i].target}
    IN  IF lows = {} THEN 0 ELSE CHOOSE j \in lows : \A k \in lows : j <= k

\* One turn of the loop.
ApplyOne(rs, i, m) ==
    LET r == rs[i]
        pair == PairOf(rs, i)
        Fails(why) == [m EXCEPT !.result = why]
        Low == IF r.type = 5 THEN read_u32(m.mem, WordOffset(rs[pair])) ELSE 0
    IN  CASE find_segment(r.target) = <<>> -> Fails("invalid_segment")
          [] find_segment(r.target) # <<>> /\ ~Patches(r) -> Fails("invalid_patch")
          [] find_segment(r.target) # <<>> /\ Patches(r) ->
               IF r.type \notin {0, 2, 4, 5, 6} THEN Fails("unsupported_type")
               ELSE IF r.type = 5 /\ pair = 0 THEN Fails("missing_lo16")
               ELSE IF r.type = 5 /\ ~Patches(rs[pair]) THEN Fails("invalid_patch")
               ELSE [m EXCEPT !.mem = write_u32(@, WordOffset(r),
                                                Patched(r, read_u32(@, WordOffset(r)), Low))]

apply_psp_relocations(rs, mem) ==
    LET A[n \in 0..Len(rs)] ==
          IF n = 0 THEN [mem |-> mem, result |-> "success"]
          ELSE IF A[n - 1].result # "success" THEN A[n - 1] ELSE ApplyOne(rs, n, A[n - 1])
    IN  A[Len(rs)]

\* The same, with the relocations decoded on the way, also to look ahead.
apply_compact_psp_relocations(bytes, count, mem) ==
    LET d == Decoded(bytes, count)
        known == {n \in 0..count : d[n].valid}
        upto == CHOOSE n \in known : \A k \in known : k <= n
        done == apply_psp_relocations([k \in 1..upto |-> d[k].record], mem)
    IN  IF done.result \notin {"success", "missing_lo16"} THEN done
        ELSE IF upto < count THEN [done EXCEPT !.result = "invalid_stream"]
        ELSE IF done.result = "success" /\ ~Consumed(d[count], bytes)
          THEN [done EXCEPT !.result = "invalid_stream"] ELSE done
-----------------------------------------------------------------------------
(* load_code_map.  A line is [kind, first, second, name]. *)

EmptyMap == [starts |-> {}, ranges |-> <<>>, blocks |-> {}, overlays |-> {},
             excluded |-> <<>>, symbols |-> <<>>, entry |-> 0, error |-> FALSE]

BadRange(l) == l.first >= l.second \/ l.first % 4 # 0 \/ l.second % 4 # 0

WithLine(m, l) ==
    LET named == IF l.name = "" THEN m.symbols
                 ELSE Append(m.symbols, [address |-> l.first, name |-> l.name])
        RangeOf == [begin |-> l.first, end |-> l.second]
        failed == [m EXCEPT !.error = TRUE]
    IN  CASE l.kind = "entry" -> [m EXCEPT !.entry = l.first]
          [] l.kind = "version" -> IF l.first \in {1, 2} THEN m ELSE failed
          [] l.kind = "function" ->
               [m EXCEPT !.starts = @ \cup {l.first}, !.symbols = named]
          [] l.kind = "function_range" ->
               IF BadRange(l) THEN failed
               ELSE [m EXCEPT !.ranges = Append(@, RangeOf), !.starts = @ \cup {l.first},
                              !.symbols = named]
          [] l.kind = "block" -> [m EXCEPT !.blocks = @ \cup {l.first}]
          [] l.kind = "overlay" -> [m EXCEPT !.overlays = @ \cup {l.first}]
          [] l.kind = "exclude" ->
               IF BadRange(l) THEN failed ELSE [m EXCEPT !.excluded = Append(@, RangeOf)]
          [] OTHER -> failed

ByBegin(x, y) == x.begin < y.begin

\* Exclusions that touch become one.
Merged(sorted) ==
    LET M[n \in 0..Len(sorted)] ==
          IF n = 0 THEN <<>>
          ELSE LET done == M[n - 1]
                   last == done[Len(done)]
                   r == sorted[n]
               IN  IF done # <<>> /\ r.begin <= last.end
                     THEN [done EXCEPT ![Len(done)].end = IF last.end < r.end THEN r.end ELSE last.end]
                     ELSE Append(done, r)
    IN  M[Len(sorted)]

load_code_map(ls) ==
    LET L[n \in 0..Len(ls)] == IF n = 0 THEN EmptyMap
                               ELSE IF L[n - 1].error THEN L[n - 1] ELSE WithLine(L[n - 1], ls[n])
        all == L[Len(ls)]
        ranges == SortSeq(all.ranges, ByBegin)
    IN  [all EXCEPT !.error = @ \/ \E i \in 2..Len(ranges) : ranges[i].begin < ranges[i - 1].end,
                    !.ranges = ranges,
                    !.excluded = Merged(SortSeq(all.excluded, ByBegin))]

\* upper_bound and one back: the last range that begins at or before a; or none.
LastBefore(ranges, a) ==
    LET before == {k \in DOMAIN ranges : ranges[k].begin <= a}
    IN  IF before = {} THEN 0 ELSE CHOOSE k \in before : \A j \in before : j <= k

contains(m, a) ==
    LET k == LastBefore(m.excluded, a)
    IN  IF k = 0 THEN TRUE ELSE a < m.excluded[k].begin \/ a >= m.excluded[k].end

function_containing(m, a) ==
    LET k == LastBefore(m.ranges, a)
    IN  IF k = 0 THEN <<>> ELSE IF a < m.ranges[k].end THEN <<m.ranges[k]>> ELSE <<>>
-----------------------------------------------------------------------------
ExecutablesInit ==
    /\ elf \in Elfs
    /\ segments = (IF ElfRefused THEN <<>> ELSE load_segments)
    /\ records = <<>> /\ lines = <<>>

\* The executable has one more relocation.
AddRelocation ==
    /\ lines = <<>> /\ Len(records) < elf.max
    /\ \E r \in elf.pool : records' = Append(records, r)
    /\ UNCHANGED <<elf, segments, lines>>

\* The code map has one more line.
AddLine ==
    /\ elf.max = 0 /\ LoadHeaders = {} /\ Len(lines) < MaxLines
    /\ \E l \in Lines : lines' = Append(lines, l)
    /\ UNCHANGED <<elf, segments, records>>
-----------------------------------------------------------------------------
Stream == compact_relocations(records)

\* Relocation i's word is no other's.
Alone(i) ==
    \A j \in (1..Len(records)) \ {i} :
      Patches(records[j]) => WordOffset(records[j]) \notin (WordOffset(records[i]) - 3)
                                                            ..(WordOffset(records[i]) + 3)

(***************************************************************************)
(* The stream holds every relocation, whatever mixture of its three forms  *)
(* it is written in, and ends with the last; applying it is applying the   *)
(* records, failures included.  What a pair of instructions loads, or a    *)
(* pointer or a jump holds, has moved by exactly where its target is.      *)
(***************************************************************************)
RelocationsRight ==
    LET d == Decoded(Stream, Len(records))
        old == memory_image
        done == apply_psp_relocations(records, old)
        To(r) == LoadBase + find_segment(r.target).address
        New(r) == read_u32(done.mem, WordOffset(r))
        Old(r) == read_u32(old, WordOffset(r))
        Pair(hi, lo) == ((hi % Half) * Half) + Signed(lo % Half)
    IN  /\ \A n \in 1..Len(records) : d[n].valid /\ d[n].record = records[n]
        /\ Consumed(d[Len(records)], Stream)
        /\ apply_compact_psp_relocations(Stream, Len(records), old) = done
        /\ done.result = "success" =>
             \A i \in 1..Len(records) :
               LET r == records[i]
               IN  Alone(i) =>
                   /\ r.type = 2 => New(r) = (Old(r) + To(r)) % Word
                   /\ r.type = 4 => (New(r) - Old(r) - (To(r) \div 4)) % (Word \div 64) = 0
                   /\ r.type = 5 /\ Alone(PairOf(records, i)) =>
                        LET low == records[PairOf(records, i)]
                        IN  (Pair(New(r), New(low)) - Pair(Old(r), Old(low)) - To(r)) % Word = 0

(***************************************************************************)
(* The module information found through the file lies in memory as it does *)
(* in the file, and the gp the PSP's loader is given is the one the        *)
(* program reads from memory once its relocations are applied.             *)
(***************************************************************************)
ModuleInfoRight ==
    LET old == memory_image
        done == apply_psp_relocations(records, old)
        first == elf.headers[CHOOSE i \in LoadHeaders : \A j \in LoadHeaders : i <= j]
        Apart == \A i, j \in LoadHeaders :
                   i = j \/ LET h == elf.headers[i]
                                g == elf.headers[j]
                            IN  h.address + h.msize <= g.address \/ g.address + g.msize <= h.address
    IN  module_info_address # NoInfo /\ ~ElfRefused =>
          /\ elf.named = NoInfo /\ Apart =>
               \A k \in 0..(InfoSize - 1) :
                 old[module_info_address - preferred_base + k] = elf.data[first.paddr + k + 1]
          /\ \A i \in DOMAIN records :
               /\ done.result = "success" /\ Alone(i) /\ records[i].type = 2
               /\ WordOffset(records[i]) = gp_pointer_offset
               => read_u32(done.mem, gp_pointer_offset)
                    = (LoadBase + gp_value_offset(records, old)) % Word

(***************************************************************************)
(* An address is code unless a line excludes it, and belongs to the        *)
(* function whose line covers it, in whatever order the lines come and     *)
(* however exclusions overlap; functions that overlap are refused.         *)
(***************************************************************************)
CodeMapMeans ==
    LET m == load_code_map(lines)
        Of(kind) == {k \in DOMAIN lines : lines[k].kind = kind}
        Inside(k, a) == a \in lines[k].first..(lines[k].second - 1)
    IN  ~m.error =>
          \A a \in 0..24 :
            /\ contains(m, a) <=> ~\E k \in Of("exclude") : Inside(k, a)
            /\ function_containing(m, a) # <<>> <=> \E k \in Of("function_range") : Inside(k, a)
            /\ \A j, k \in Of("function_range") : j # k => ~(Inside(j, a) /\ Inside(k, a))
-----------------------------------------------------------------------------
(* Decryption: an encrypted executable is decrypted by the library an      *)
(* installed PPSSPP is (src/decrypt.cpp): the places where one may be are  *)
(* tried in order, each real file once, until one of them gives an         *)
(* executable.                                                             *)

\* The configured place, the directories of PATH, the well-known places.
ppsspp_candidates ==
    LET In(d) == [k \in DOMAIN Names |-> <<d, Names[k]>>]
        dirs == SelectSeq(host.path, LAMBDA d : d # NoPlace)
    IN  (IF host.configured = NoPlace THEN <<>> ELSE <<host.configured>>)
          \o FlattenSeq([k \in DOMAIN dirs |-> In(dirs[k])])
          \o WellKnown

\* What is at a place: `real' is the file behind links, `size' what its
\* library answers, `elf' whether it gave an executable.
Nothing == [regular |-> FALSE, real |-> 0, loads |-> FALSE, symbol |-> FALSE, size |-> 0, elf |-> FALSE]
FileAt(p) == IF p \in DOMAIN host.files THEN host.files[p] ELSE Nothing

Decrypts(f) == f.loads /\ f.symbol /\ f.size > 0 /\ f.size <= InputSize

DecryptionInit ==
    /\ host \in Hosts
    /\ place = 1 /\ attempted = {} /\ opened = <<>> /\ verdict = "trying"

Verdict(f) ==
    IF ~Decrypts(f) THEN "trying" ELSE IF f.elf THEN "decrypted" ELSE "not an executable"

decrypt_psp_executable ==
    /\ verdict = "trying"
    /\ IF place > Len(ppsspp_candidates)
         THEN verdict' = "not installed" /\ UNCHANGED <<place, attempted, opened>>
         ELSE LET f == FileAt(ppsspp_candidates[place])
              IN  /\ place' = place + 1
                  /\ IF ~f.regular \/ f.real \in attempted
                       THEN UNCHANGED <<attempted, opened, verdict>>
                       ELSE /\ attempted' = attempted \cup {f.real}
                            /\ opened' = IF f.loads THEN Append(opened, f.real) ELSE opened
                            /\ verdict' = Verdict(f)
    /\ UNCHANGED host
-----------------------------------------------------------------------------
(***************************************************************************)
(* No file is loaded twice, the first one that can decrypt decides, what   *)
(* is handed on is an executable, and "not installed" means that no place  *)
(* has a file that can.                                                    *)
(***************************************************************************)
DecryptionSound ==
    LET can == {k \in DOMAIN ppsspp_candidates :
                  FileAt(ppsspp_candidates[k]).regular /\ Decrypts(FileAt(ppsspp_candidates[k]))}
        first == CHOOSE k \in can : \A j \in can : k <= j
    IN  /\ IsInjective(opened)
        /\ verdict = "not installed" => can = {}
        /\ verdict \in {"decrypted", "not an executable"} =>
             /\ can # {} /\ place = first + 1
             /\ (verdict = "decrypted") = FileAt(ppsspp_candidates[first]).elf
        /\ (verdict = "trying" /\ can # {}) => place <= first
-----------------------------------------------------------------------------
(* Fingerprints (src/hash.cpp): SHA-256 takes bytes in pieces of any size, *)
(* collects them in a block and works on every full block; the last one,   *)
(* or two, hold a mark and the number of bits.  What is done with a block  *)
(* is not modelled: the digest is a function of the blocks, so that here   *)
(* the digest is the sequence of blocks.                                   *)

FingerprintsAssumption ==
    /\ {BlockSize, LengthSize, MaxPieces} \subseteq Nat \ {0}
    /\ 2 <= LengthSize /\ LengthSize < BlockSize
    /\ ByteValues \subseteq Nat

\* The state of the digest behind one block more.
transform(hs, full) == Append(hs, full)

\* A byte: a full block is worked on and started again.
AddByte(h, b) ==
    LET full == Append(h.block, b)
    IN  IF Len(full) = BlockSize THEN [block |-> <<>>, hashed |-> transform(h.hashed, full)]
        ELSE [h EXCEPT !.block = full]
AddBytes(h, bs) == FoldLeft(AddByte, h, bs)

Zeros(n) == [i \in 1..n |-> 0]
\* The number of bits, the highest byte first; it has two here.
BitCount(n) == [i \in 1..LengthSize |->
                  IF i = LengthSize THEN (8 * n) % 256
                  ELSE IF i = LengthSize - 1 THEN (8 * n) \div 256 ELSE 0]

\* The mark always fits; if the number does not, it gets a block of its own.
finish(h, n) ==
    LET marked == Append(h.block, Mark)
        room == BlockSize - LengthSize
        second == Len(marked) > room
        first == [block |-> IF second THEN <<>> ELSE marked,
                  hashed |-> IF second
                               THEN transform(h.hashed, marked \o Zeros(BlockSize - Len(marked)))
                               ELSE h.hashed]
        last == first.block \o Zeros(room - Len(first.block)) \o BitCount(n)
    IN  transform(first.hashed, last)

sha256_hex(bs) == finish(AddBytes([block |-> <<>>, hashed |-> <<>>], bs), Len(bs))

FingerprintsInit == message = <<>> /\ block = <<>> /\ hashed = <<>> /\ pieces = 0

\* update, with what one read of the file has given.
update ==
    /\ pieces < MaxPieces
    /\ \E n \in PieceSizes, b \in ByteValues :
         LET bs == [i \in 1..n |-> b]
             h == AddBytes([block |-> block, hashed |-> hashed], bs)
         IN  /\ message' = message \o bs
             /\ block' = h.block /\ hashed' = h.hashed
    /\ pieces' = pieces + 1
-----------------------------------------------------------------------------
(***************************************************************************)
(* A file has the same fingerprint however it is read, it is made of whole *)
(* blocks, and two files with one fingerprint are the same file: from the  *)
(* blocks the message can be read again.                                   *)
(***************************************************************************)
Unpadded(blocks) ==
    LET all == FlattenSeq(blocks)
        bits == (all[Len(all) - 1] * 256) + all[Len(all)]
    IN  SubSeq(all, 1, bits \div 8)

FingerprintSound ==
    LET digest == finish([block |-> block, hashed |-> hashed], Len(message))
    IN  /\ digest = sha256_hex(message)
        /\ \A k \in DOMAIN digest : Len(digest[k]) = BlockSize
        /\ Unpadded(digest) = message
        /\ Len(digest) = ((Len(message) + LengthSize) \div BlockSize) + 1
=============================================================================
