----------------------------- MODULE Containers -----------------------------
(***************************************************************************)
(* One image, several DFS discs: the slots of an MMB (core/mmb.py) and the    *)
(* two sides of a DSD (core/dfs.py), each a directory of one mount.           *)
(*                                                                          *)
(* The engine works on one part at a time, on the window of the image it was  *)
(* given, and is assumed to stay in it.  Which window that is and which parts *)
(* may be written is this code's doing.  Reading a part changes nothing but   *)
(* the cache of engine mounts, which is left out.                            *)
(***************************************************************************)
EXTENDS Integers

CONSTANTS
  HeaderBytes,  \* an extent's catalogue (8192)
  SlotBytes,    \* a slot (204800)
  ExtentSlots,  \* slots of an extent (511)
  MaxExtents    \* extents a marker may declare (16)

ASSUME ContainerAssumption ==
  /\ {HeaderBytes, SlotBytes, ExtentSlots, MaxExtents} \subseteq Nat \ {0}
  /\ ExtentSlots > 1

VARIABLES
  shape,    \* "none", "mmb", "dsd" or "refused"
  extents,  \* MMB: extents declared
  status,   \* what the catalogue says of each part
  altered,  \* history: bytes the operations have changed
  asked     \* history: parts that a mutation was asked of and was not refused

containerVars == <<shape, extents, status, altered, asked>>

ExtentBytes == HeaderBytes + ExtentSlots * SlotBytes

Statuses == {"locked", "writable", "unformatted"}

\* A slot's place in the image, as read_mmb_layout computes it.
MutantSlotOffset(index) ==
  (index \div ExtentSlots) * ExtentBytes + (index % ExtentSlots) * SlotBytes

SlotOffset(index) ==
  (index \div ExtentSlots) * ExtentBytes + HeaderBytes + (index % ExtentSlots) * SlotBytes

\* The window a mount of the part is given.  The sides of a DSD share no sector.
Window(part) ==
  IF shape = "mmb" THEN SlotOffset(part) .. SlotOffset(part) + SlotBytes - 1
  ELSE part * SlotBytes .. (part + 1) * SlotBytes - 1

ContainerInit ==
  /\ shape = "none" /\ extents = 0 /\ status = <<>>
  /\ altered = {} /\ asked = {}

\* The size must be that of the extents declared, every status a known one, and a
\* formatted slot of each extent a DFS disc: else the file is refused.
ReadLayout ==
  /\ shape = "none"
  /\ \/ \E n \in 1 .. MaxExtents :
          /\ shape' = "mmb" /\ extents' = n
          /\ status' \in [0 .. n * ExtentSlots - 1 -> Statuses]
     \/ shape' = "refused" /\ UNCHANGED <<extents, status>>
  /\ UNCHANGED <<altered, asked>>

OpenSides ==
  /\ shape = "none" /\ shape' = "dsd"
  /\ status' = [side \in {0, 1} |-> "writable"]
  /\ UNCHANGED <<extents, altered, asked>>

\* An unformatted slot is no directory of the mount.
Listed(part) == part \in DOMAIN status /\ status[part] # "unformatted"

\* _require_writable_slot comes before the mount of the slot is even looked for.
MayAlter(part) == Listed(part) /\ status[part] = "writable"

Alters(part) ==
  /\ MayAlter(part)
  /\ \E b \in Window(part) : altered' = altered \cup {b}
  /\ asked' = asked \cup {part}
  /\ UNCHANGED <<shape, extents, status>>

\* write_bytes, remove and set_acorn_meta; a part itself cannot be removed.
WritePart(part) == Alters(part)

\* A rename stays in its part: the engine is given the new name inside the old part.
RenamePart(old, new) ==
  /\ Listed(new) /\ old = new
  /\ Alters(old)

ContainerParts == 0 .. MaxExtents * ExtentSlots - 1

ContainerNext ==
  \/ ReadLayout \/ OpenSides
  \/ \E part \in ContainerParts : WritePart(part)
  \/ \E old, new \in ContainerParts : RenamePart(old, new)

ContainerSpec == ContainerInit /\ [][ContainerNext]_containerVars

-----------------------------------------------------------------------------
\* Type invariant of the image's parts.
ContainerTypeOK ==
  /\ shape \in {"none", "mmb", "dsd", "refused"} /\ extents \in 0 .. MaxExtents
  /\ \A part \in DOMAIN status : part \in ContainerParts /\ status[part] \in Statuses
  /\ altered \subseteq 0 .. MaxExtents * ExtentBytes - 1
  /\ asked \subseteq ContainerParts

\* What a mutation below one part changes lies in that part and inside the image, is
\* no byte of a catalogue, of another slot or of a locked one, in whatever order slots
\* are used (mmb.py, dfs.py).
PartsAreIsolated ==
  \A b \in altered : \E part \in asked :
    /\ status[part] = "writable" /\ b \in Window(part)
    /\ shape = "mmb" => b < extents * ExtentBytes /\ b % ExtentBytes >= HeaderBytes
    /\ \A other \in DOMAIN status \ {part} : b \notin Window(other)
=============================================================================
