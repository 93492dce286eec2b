----------------------------- MODULE HostImport -----------------------------
(***************************************************************************)
(* import_file (core/transfer.py): one host file and its metadata become     *)
(* one new entry of an image.                                               *)
(*                                                                          *)
(* The image is opened twice: read-only, to see that the name is free and    *)
(* how much room there is, and writable, to create the entry; other          *)
(* sessions may change it in between.  The host file is read block by block  *)
(* while other programs write to it; its size and time stamps before and     *)
(* after the read tell whether it was still.  Each of their writes is        *)
(* assumed to leave a time stamp of its own.                                *)
(***************************************************************************)
EXTENDS Integers, Sequences

CONSTANTS
  Blocks,     \* contents of a block of a host file
  MaxBlocks,  \* bound: blocks of a host file
  Capacity,   \* free blocks of the image at first
  MaxStamp,   \* bound: writes of the other programs to the host file
  Nobody,     \* no entry is under the target name
  Another     \* an entry that is not the import's

ASSUME ImportAssumption ==
  MaxBlocks \in Nat /\ Capacity \in Nat /\ MaxStamp \in Nat

Contents == UNION {[1 .. n -> Blocks] : n \in 0 .. MaxBlocks}

VARIABLES
  source,   \* content of the host file
  stamp,    \* its time stamps
  seen,     \* history: its contents since the import opened it
  entry,    \* what the image has under the target name
  room,     \* free blocks of the image
  ipc,      \* import: where it is
  inf,      \* import: the length the sidecar records, or -1
  maximum,  \* import: the room it has measured
  before,   \* import: size and stamps before the read
  data,     \* import: what it has read
  ires      \* import: how it ended

hostFile == <<source, stamp, seen>>
imageVars == <<entry, room>>
importVars == <<ipc, inf, maximum, before, data, ires>>
importAll == <<hostFile, imageVars, importVars>>

Signature == [size |-> Len(source), stamp |-> stamp]

ImportInit ==
  /\ source \in Contents /\ stamp = 0 /\ seen = {}
  /\ entry \in {Nobody, Another} /\ room = Capacity
  /\ ipc = "metadata" /\ inf = -1 /\ maximum = 0
  /\ before = Signature /\ data = <<>> /\ ires = "none"

Proceeds(pc) == ipc' = pc /\ ires' = ires

Refused == ipc' = "done" /\ ires' = "refused"

\* No sidecar, or one that records a length, or a sidecar that is not accepted.
ImportMetadata ==
  /\ ipc = "metadata"
  /\ \/ inf' \in {-1} \cup 0 .. MaxBlocks /\ Proceeds("measure")
     \/ inf' = inf /\ Refused
  /\ UNCHANGED <<hostFile, imageVars, maximum, before, data>>

\* Under a shared lock, which is released before the file is read.
Measure ==
  /\ ipc = "measure"
  /\ IF entry # Nobody THEN Refused /\ maximum' = maximum
     ELSE Proceeds("open") /\ maximum' = room
  /\ UNCHANGED <<hostFile, imageVars, inf, before, data>>

OpenSource ==
  /\ ipc = "open"
  /\ IF Len(source) > maximum THEN Refused /\ UNCHANGED <<before, seen>>
     ELSE Proceeds("read") /\ before' = Signature /\ seen' = {source}
  /\ UNCHANGED <<source, stamp, imageVars, inf, maximum, data>>

\* read(maximum + 1): up to the end of the file as it is now, one block too many at
\* most.
ReadBlock ==
  /\ ipc = "read"
  /\ IF Len(data) < Len(source) /\ Len(data) <= maximum
     THEN data' = Append(data, source[Len(data) + 1]) /\ UNCHANGED <<ipc, ires>>
     ELSE data' = data /\ Proceeds("compare")
  /\ UNCHANGED <<hostFile, imageVars, inf, maximum, before>>

MutantUnchanged == Len(data) = before.size

Unchanged == before = Signature /\ Len(data) = before.size

\* The file was still, and has the length its sidecar records.
Compare ==
  /\ ipc = "compare"
  /\ IF Len(data) <= maximum /\ Unchanged /\ inf \in {-1, Len(data)}
     THEN Proceeds("create") ELSE Refused
  /\ UNCHANGED <<hostFile, imageVars, inf, maximum, before, data>>

MutantCreatable == room >= Len(data)

\* ReadOnlyImage.import_file looks the name up again; the engine refuses what does
\* not fit, and the mutation is rolled back.
Creatable == entry = Nobody /\ room >= Len(data)

\* The writable opening may be refused, and the mutation may fail.
CreateEntry ==
  /\ ipc = "create"
  /\ \/ /\ Creatable
        /\ entry' = data /\ room' = room - Len(data)
        /\ ipc' = "done" /\ ires' = "imported"
     \/ Refused /\ UNCHANGED imageVars
  /\ UNCHANGED <<hostFile, inf, maximum, before, data>>

\* A writable session of somebody else, when the import has no opening.
OtherSession ==
  /\ entry' \in {Nobody, Another}
  /\ room' \in 0 .. Capacity
  /\ ires # "imported"
  /\ imageVars' # imageVars
  /\ UNCHANGED <<hostFile, importVars>>

\* Another program writes the host file, one block or its end at a time.
WriteSource ==
  /\ stamp < MaxStamp /\ stamp' = stamp + 1
  /\ \/ \E i \in DOMAIN source, b \in Blocks :
          b # source[i] /\ source' = [source EXCEPT ![i] = b]
     \/ Len(source) < MaxBlocks /\ \E b \in Blocks : source' = Append(source, b)
     \/ source # <<>> /\ source' = SubSeq(source, 1, Len(source) - 1)
  /\ seen' = IF ipc = "read" THEN seen \cup {source'} ELSE seen
  /\ UNCHANGED <<imageVars, importVars>>

ImportNext ==
  \/ ImportMetadata \/ Measure \/ OpenSource \/ ReadBlock \/ Compare \/ CreateEntry
  \/ OtherSession \/ WriteSource

ImportSpec == ImportInit /\ [][ImportNext]_importAll

-----------------------------------------------------------------------------
\* Type invariant of the import, the host file and the image.
ImportTypeOK ==
  /\ source \in Contents /\ stamp \in 0 .. MaxStamp /\ seen \in SUBSET Contents
  /\ entry \in Contents \cup {Nobody, Another} /\ room \in 0 .. Capacity
  /\ ipc \in {"metadata", "measure", "open", "read", "compare", "create", "done"}
  /\ inf \in -1 .. MaxBlocks /\ maximum \in 0 .. Capacity
  /\ before \in [size : 0 .. MaxBlocks, stamp : 0 .. MaxStamp]
  /\ data \in Contents
  /\ ires \in {"none", "refused", "imported"}

\* What is imported is the whole host file as it was at one moment of the import, of
\* the length its sidecar records, however it was written to meanwhile
\* (transfer.py _read_stable_file).
ImportIsFaithful ==
  ires = "imported" => entry \in seen /\ inf \in {-1, Len(entry)}

\* The import's own steps create the entry under a free name or leave the image as it
\* is, although name and room were last measured in an earlier opening.
ImportReplacesNothing ==
  [][ipc' # ipc /\ entry' # entry => entry = Nobody /\ room' >= 0]_importAll
=============================================================================
