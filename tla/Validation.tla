----------------------------- MODULE Validation -----------------------------
(***************************************************************************)
(* The integrity report of an image (core/validation.py): sizes, free list   *)
(* and directory tree are read entry by entry, under a budget, then sorted    *)
(* scans decide whether every sector has exactly one owner.  Only a report    *)
(* with no fatal finding lets a writable session start.                       *)
(*                                                                          *)
(* The disc is whatever the walk reads: an entry is chosen when it is read,   *)
(* which is once, as a directory sector already seen is not read again.       *)
(***************************************************************************)
EXTENDS Integers, Sequences, FiniteSets

CONSTANTS
  MapSectors,  \* sectors of the free-space map, at 0 (2 on the disc)
  DirSectors,  \* sectors of a directory; the root follows the map (5)
  SectorSize,  \* bytes in a sector (256)
  Totals,      \* bound: sector counts the map may declare
  MaxStart,    \* bound: sectors an entry may start at
  MaxBytes,    \* bound: bytes of a file, and of a free extent in sectors
  MaxItems     \* the budget's limit on free-list and directory entries

ASSUME ValidationAssumption ==
  /\ {MapSectors, DirSectors, SectorSize} \subseteq Nat \ {0}
  /\ Totals \subseteq Nat
  /\ {MaxStart, MaxBytes, MaxItems} \subseteq Nat
  /\ MapSectors <= MaxStart

Root == MapSectors
Allocatable == MapSectors + DirSectors

VARIABLES
  vpc,       \* the place in the validation
  sizes,     \* sectors of the DAT, the DSC and the map; whether the DAT has a
             \* partial sector
  used,      \* extents of the map and of what the walk has met
  free,      \* extents of the free list
  visited,   \* start sectors of the directories met
  depth,     \* how deep the walk is
  items,     \* entries the budget has counted
  fatal      \* codes of the fatal findings; "unread" is for every error in reading

validationVars ==
  <<vpc, sizes, used, free, visited, depth, items, fatal>>

Extent(start, length) == [start |-> start, end |-> start + length]

\* Bytes of a file in sectors.
Sectors(bytes) == (bytes + SectorSize - 1) \div SectorSize

Sizes ==
  UNION {[adfs : {t}, dat : {t - 1, t, t + 1}, dsc : {t - 1, t, t + 1},
          ragged : BOOLEAN] : t \in Totals}

ValidationInit ==
  /\ vpc = "sizes" /\ sizes \in Sizes
  /\ used = <<Extent(0, MapSectors), Extent(Root, DirSectors)>>
  /\ free = <<>> /\ visited = {Root} /\ depth = 0 /\ items = 0
  /\ fatal = {}

Code(condition, code) == IF condition THEN {code} ELSE {}

-----------------------------------------------------------------------------
\* A DAT that ends where the map does only lacks the reserved tail: a warning.
\* Warnings and advice refuse nothing and are left out.
MissingTail == ~sizes.ragged /\ sizes.dat = sizes.adfs /\ sizes.adfs < sizes.dsc

\* The sizes are compared in bytes: a partial sector counts.
DatShort == sizes.dat < sizes.dsc
DatOversized == sizes.dat > sizes.dsc \/ (sizes.dat = sizes.dsc /\ sizes.ragged)

\* The engine's own validator runs after them.
ReadSizes(sound) ==
  /\ vpc = "sizes" /\ vpc' = "free"
  /\ fatal' = Code(sizes.ragged, "dat_unaligned")
              \cup Code(DatShort /\ ~MissingTail, "dat_short")
              \cup Code(DatOversized, "dat_oversized")
              \cup Code(sizes.adfs > sizes.dat, "map_exceeds_dat")
              \cup Code(sizes.adfs > sizes.dsc, "map_exceeds_dsc")
              \cup Code(~sound, "structure")
  /\ UNCHANGED <<sizes, used, free, visited, depth, items>>

OutOfFreeRange(x) == x.start < Allocatable \/ x.end > sizes.adfs

MutantCounts == items <= MaxItems /\ items' = items + 1

\* The budget of the whole validation counts each entry.
Counts == items < MaxItems /\ items' = items + 1

\* An entry of no length is reported and left out.
ReadFreeEntry(start, length) ==
  /\ vpc = "free" /\ Counts
  /\ IF length = 0
     THEN fatal' = fatal \cup {"unread"} /\ free' = free
     ELSE /\ free' = Append(free, Extent(start, length))
          /\ fatal' = fatal \cup
               Code(OutOfFreeRange(Extent(start, length)), "free_out_of_range")
  /\ UNCHANGED <<vpc, sizes, used, visited, depth>>

\* The end of the list, or an error in reading it, after which the walk goes on.
EndFree ==
  /\ vpc = "free" /\ vpc' = "walk"
  /\ fatal' \in {fatal, fatal \cup {"unread"}}
  /\ UNCHANGED <<sizes, used, free, visited, depth, items>>

-----------------------------------------------------------------------------
\* One entry of the directory the walk is in.
WalkFile(start, bytes) ==
  /\ vpc = "walk" /\ Counts
  /\ used' = IF Sectors(bytes) = 0 THEN used
             ELSE Append(used, Extent(start, Sectors(bytes)))
  /\ UNCHANGED <<vpc, sizes, free, visited, depth, fatal>>

\* Whatever length is recorded, its sectors are the fixed ones.  A start sector met
\* before is not read again; nor is one that cannot be.
WalkDirectory(start, readable) ==
  /\ vpc = "walk" /\ Counts
  /\ used' = Append(used, Extent(start, DirSectors))
  /\ visited' = visited \cup {start}
  /\ fatal' = fatal \cup Code(start \in visited, "cycle")
              \cup Code(start \notin visited /\ ~readable, "unread")
  /\ depth' = IF start \notin visited /\ readable THEN depth + 1 ELSE depth
  /\ UNCHANGED <<vpc, sizes, free>>

\* The directory has no further entry.
EndDirectory ==
  /\ vpc = "walk"
  /\ IF depth = 0 THEN vpc' = "scan" /\ depth' = depth
     ELSE vpc' = vpc /\ depth' = depth - 1
  /\ UNCHANGED <<sizes, used, free, visited, items, fatal>>

\* Any other error in the walk ends it, all the way up.
WalkFails ==
  /\ vpc = "walk" /\ vpc' = "scan" /\ depth' = 0
  /\ fatal' = fatal \cup {"unread"}
  /\ UNCHANGED <<sizes, used, free, visited, items>>

\* The user cancels, or the budget is used up: no report is made, and what has been
\* read is gone.
StopValidation ==
  /\ vpc \in {"free", "walk", "scan"} /\ vpc' = "stopped"
  /\ used' = <<>> /\ free' = <<>> /\ visited' = {}
  /\ depth' = 0 /\ items' = 0 /\ fatal' = {} /\ sizes' = sizes

-----------------------------------------------------------------------------
Least(a, b) == IF a < b THEN a ELSE b
Greatest(a, b) == IF a > b THEN a ELSE b

Before(x, y) == x.start < y.start \/ (x.start = y.start /\ x.end < y.end)

\* sorted(): an extent's place is after those before it, and equal ones keep their
\* order.  The scans that sort by start alone find the same: two extents that start
\* together overlap in either order.
Position(extents, i) ==
  Cardinality({j \in DOMAIN extents :
                 \/ Before(extents[j], extents[i])
                 \/ ~Before(extents[i], extents[j]) /\ j <= i})
InOrder(extents) ==
  [k \in DOMAIN extents |->
     extents[CHOOSE i \in DOMAIN extents : Position(extents, i) = k]]

OutOfUsedRange(x) == x.start < 0 \/ x.end > sizes.adfs \/ x.start >= x.end

\* _overlap_findings: one starts before the furthest end of those before it.
Overlaps(extents) ==
  LET o == InOrder(extents)
  IN  \E i \in DOMAIN o : \E j \in 1 .. i - 1 : o[i].start < o[j].end

MutantMeets(u, f) ==
  LET meets[p \in (1 .. Len(u) + 1) \X (1 .. Len(f) + 1)] ==
        LET i == p[1]  j == p[2]
        IN  /\ i <= Len(u) /\ j <= Len(f)
            /\ \/ Greatest(u[i].start, f[j].start) < Least(u[i].end, f[j].end)
               \/ meets[<<i + 1, j + 1>>]
  IN  meets

\* _cross_overlap_findings: a merge, the extent that ends first is passed.
Meets(u, f) ==
  LET meets[p \in (1 .. Len(u) + 1) \X (1 .. Len(f) + 1)] ==
        LET i == p[1]  j == p[2]
        IN  /\ i <= Len(u) /\ j <= Len(f)
            /\ \/ Greatest(u[i].start, f[j].start) < Least(u[i].end, f[j].end)
               \/ IF u[i].end <= f[j].end THEN meets[<<i + 1, j>>]
                                          ELSE meets[<<i, j + 1>>]
  IN  meets

CrossOverlaps(us, fs) == Meets(InOrder(us), InOrder(fs))[<<1, 1>>]

\* _gap_ranges: the cursor is the furthest end so far.
Cursor(o, total) ==
  LET cursor[i \in 0 .. Len(o)] ==
        IF i = 0 THEN 0 ELSE Greatest(cursor[i - 1], Least(total, o[i].end))
  IN  cursor

Gaps(extents, total) ==
  LET o == InOrder(extents)
      cursor == Cursor(o, total)
  IN  \/ \E i \in DOMAIN o : Greatest(0, o[i].start) > cursor[i - 1]
      \/ cursor[Len(o)] < total

Elements(s) == {s[i] : i \in DOMAIN s}

ScanExtents ==
  /\ vpc = "scan" /\ vpc' = "reported"
  /\ fatal' = fatal
       \cup Code(\E x \in Elements(used) : OutOfUsedRange(x), "used_out_of_range")
       \cup Code(Overlaps(used), "used_overlap")
       \cup Code(Overlaps(free), "free_overlap")
       \cup Code(CrossOverlaps(used, free), "free_used_overlap")
       \cup Code(Gaps(used \o free, sizes.adfs), "unaccounted")
  /\ UNCHANGED <<sizes, used, free, visited, depth, items>>

\* Other formats have the engine's validator only; an image that cannot be opened, or
\* whose descriptor is invalid, has that one finding.
ShortReport ==
  /\ vpc = "sizes" /\ vpc' = "short"
  /\ fatal' \in {{}, {"structure"}, {"open_failed"}}
  /\ UNCHANGED <<sizes, used, free, visited, depth, items>>

SafeForWrite == fatal = {}

ValidationNext ==
  \/ \E sound \in BOOLEAN : ReadSizes(sound)
  \/ ShortReport
  \/ \E start \in 0 .. MaxStart, length \in 0 .. MaxBytes \div SectorSize :
       ReadFreeEntry(start, length)
  \/ EndFree
  \/ \E start \in 0 .. MaxStart, bytes \in 0 .. MaxBytes : WalkFile(start, bytes)
  \/ \E start \in 0 .. MaxStart, readable \in BOOLEAN :
       WalkDirectory(start, readable)
  \/ EndDirectory \/ WalkFails \/ StopValidation \/ ScanExtents

ValidationSpec == ValidationInit /\ [][ValidationNext]_validationVars

-----------------------------------------------------------------------------
Extents == [start : 0 .. MaxStart,
            end : 0 .. MaxStart + DirSectors + Sectors(MaxBytes)]

\* Type invariant of the validation.
ValidationTypeOK ==
  /\ vpc \in {"sizes", "free", "walk", "scan", "reported", "short", "stopped"}
  /\ sizes \in Sizes
  /\ used \in Seq(Extents) /\ free \in Seq(Extents)
  /\ visited \in SUBSET (0 .. MaxStart) /\ depth \in 0 .. MaxItems
  /\ items \in 0 .. MaxItems
  /\ Len(used) + Len(free) <= items + 2

Owners(s) ==
  {i \in DOMAIN (used \o free) :
     (used \o free)[i].start <= s /\ s < (used \o free)[i].end}

\* Every sector of the map has one owner and one only, and no owner has sectors
\* outside it.
Partitioned ==
  /\ \A s \in 0 .. sizes.adfs - 1 :
       \E i \in Owners(s) : Owners(s) = {i}
  /\ \A x \in Elements(used \o free) : x.end <= sizes.adfs

\* The sizes agree, or only the reserved tail is missing.
SizesAgree ==
  /\ ~sizes.ragged
  /\ sizes.adfs <= sizes.dat /\ sizes.adfs <= sizes.dsc
  /\ sizes.dat \in {sizes.adfs, sizes.dsc} /\ sizes.dat <= sizes.dsc

\* A report has no fatal finding exactly if the disc was read without an error, sizes
\* agree, the engine finds no fault, no directory is met twice, and each sector has
\* one owner: what the sorted scans and the merge of validation.py decide is the
\* pairwise truth.
ReportIsExact ==
  vpc = "reported" =>
    (SafeForWrite <=>
       /\ Partitioned /\ SizesAgree
       /\ fatal \cap {"structure", "unread"} = {})
=============================================================================
