---------------------------- MODULE ImageSession ----------------------------
(***************************************************************************)
(* One writable session on a mounted image: the before-image transaction    *)
(* every mutation runs in (_run_atomic), its rollback, the external-change  *)
(* signature, and the close that decides whether the recovery checkpoint    *)
(* may be removed (core/image.py, core/transaction.py).                     *)
(*                                                                          *)
(* The image is a set of blocks.  A block holds one directory or the data   *)
(* of one file; `live` is what the free-space map calls allocated.  The     *)
(* in-memory inode index is abstracted to the catalogue it describes: the   *)
(* contents it expects of every allocated block.                            *)
(***************************************************************************)
EXTENDS Naturals, FiniteSets

CONSTANTS
  Blocks,      \* allocation units of the image besides the map sectors
  Values,      \* block contents
  OldMap,      \* TRUE: SectorTransaction (old-map ADFS); FALSE: FileTransaction
  Container,   \* TRUE: an HFE workspace that is re-encoded on close
  IdMod,       \* width of the disc cycle id (65536 in the code)
  MaxCommits,  \* bound: mutations that may commit
  MaxSig       \* bound: changes made outside AcornFS

ASSUME SessionAssumption ==
  /\ OldMap \in BOOLEAN /\ Container \in BOOLEAN
  /\ IdMod \in Nat \ {0} /\ MaxCommits \in Nat /\ MaxSig \in Nat

VARIABLES
  blk,        \* contents of every block of the mapped image
  live,       \* blocks the free-space map records as allocated
  id,         \* disc cycle id kept in the map sectors
  tail,       \* the DAT reaches the capacity its DSC declares
  index,      \* the catalogue the in-memory index describes
  phase,      \* where the session is in _run_atomic or close
  plan,       \* the mutation being run
  saved,      \* its before-image
  backup,     \* FileTransaction's operation-*.bin exists
  failed,     \* self._failed
  sig,        \* identity, size and times others gave the file at the image's path
  expected,   \* self._expected_signature
  source,     \* catalogue in the HFE source file (Container only)
  checkpoint, \* "held" until close, then "removed" or "retained"
  commits,    \* history: committed mutations
  padded,     \* history: the tail was there, or padding it was reported done
  tampered    \* history: first change outside AcornFS: "no", "session" or "close"

vars == <<blk, live, id, tail, index, phase, plan, saved, backup, failed, sig,
          expected, source, checkpoint, commits, padded, tampered>>

\* What the mapped file holds.
image == <<blk, live, id, tail>>
transaction == <<plan, saved, backup>>
identity == <<sig, expected>>
history == <<commits, padded, tampered>>

Free == Blocks \ live

AtMostOne(S) == {{}} \cup {{b} : b \in S}

Captured(p) == IF OldMap THEN p.captures ELSE Blocks

\* The image with block set S of the plan written.
Written(p, S) == [b \in Blocks |-> IF b \in S THEN p.vals[b] ELSE blk[b]]

Catalogue == [b \in live |-> blk[b]]

\* commit: the index entries the mutation adds, drops or changes.
Applied(p) == [b \in p.live |-> IF b \in p.writes THEN p.vals[b] ELSE index[b]]

Nothing == [b \in {} |-> b]
NoPlan == [writes |-> {}, captures |-> {}, live |-> {}, vals |-> Nothing]
NoSaved == [blk |-> Nothing, live |-> {}, id |-> 0]

-----------------------------------------------------------------------------
Init ==
  /\ blk \in [Blocks -> Values]
  /\ live \in (SUBSET Blocks) \ {{}}
  /\ id = 0
  /\ tail \in BOOLEAN
  /\ index = Catalogue
  /\ phase = "idle"
  /\ plan = NoPlan /\ saved = NoSaved /\ backup = FALSE
  /\ failed = FALSE
  /\ sig = 0 /\ expected = 0
  /\ source = IF Container THEN Catalogue ELSE Nothing
  /\ checkpoint = "held"
  /\ commits = 0 /\ padded = tail /\ tampered = "no"

-----------------------------------------------------------------------------
(* _mutation and _prepare_mutation                                          *)

MutantMayMutateAfterFailure == phase = "idle" /\ sig = expected

MayMutate == phase = "idle" /\ ~failed /\ sig = expected

\* The image changed outside AcornFS; further writes are blocked.
DetectExternalChange ==
  /\ phase = "idle" /\ ~failed /\ sig # expected
  /\ failed' = TRUE
  /\ UNCHANGED <<image, index, phase, transaction, identity, source, checkpoint, history>>

\* preflight_file_size, asked before a FUSE buffer grows and so outside a mutation,
\* could not read the free-space map.
GrowthPreflightFails ==
  /\ phase = "idle"
  /\ failed' = TRUE
  /\ UNCHANGED <<image, index, phase, transaction, identity, source, checkpoint, history>>

BeforeImage(p) ==
  [blk |-> [b \in Captured(p) |-> blk[b]], live |-> live, id |-> id]

\* The transaction is constructed and prepare() has captured what it must.
Begin(writes, captures, newLive) ==
  /\ MayMutate
  /\ commits < MaxCommits
  /\ \E vals \in [writes -> Values] :
       plan' = [writes |-> writes, captures |-> captures, live |-> newLive, vals |-> vals]
  /\ saved' = BeforeImage(plan')
  /\ backup' = ~OldMap
  /\ phase' = "prepared"
  /\ UNCHANGED <<image, index, failed, identity, source, checkpoint, history>>

\* FileTransaction's constructor could not copy the image.  A PermissionError or
\* FileNotFoundError passes the guard of _mutation; any other error fails the session.
SnapshotFails ==
  /\ MayMutate /\ ~OldMap
  /\ failed' = TRUE
  /\ UNCHANGED <<image, index, phase, transaction, identity, source, checkpoint, history>>

-----------------------------------------------------------------------------
(* The mutations, each as the blocks it writes, the blocks it captures and  *)
(* the allocation it leaves.  `d` is the block of a parent directory.       *)

MutantReplaceCaptures(d, old) == {d}

\* Oaknut may reuse the file's old allocation at once, so it is captured too.
ReplaceCaptures(d, old) == {d} \cup old

ReplaceFile ==
  \E d \in live, old \in AtMostOne(live), new \in AtMostOne(Blocks) :
    /\ d \notin old \cup new
    /\ new \subseteq Free \cup old
    /\ Begin({d} \cup new, ReplaceCaptures(d, old), (live \ old) \cup new)

\* create_file, import_file and make_directory: an entry and at most one new block.
AddObject ==
  \E d \in live, new \in AtMostOne(Free) : Begin({d} \cup new, {d}, live \cup new)

Remove ==
  \E d \in live, old \in AtMostOne(live) :
    d \notin old /\ Begin({d}, {d}, live \ old)

\* Both parents, a moved directory's own block, and a replaced destination.
Rename ==
  \E d1, d2 \in live, dir, old \in AtMostOne(live) :
    /\ {d1, d2} \cap (dir \cup old) = {} /\ dir \cap old = {}
    /\ Begin({d1, d2} \cup dir, {d1, d2} \cup dir, live \ old)

SetAcornMetadata == \E d \in live : Begin({d}, {d}, live)

ApplyCatalogueRepair ==
  \E ds \in (SUBSET live) \ {{}} : OldMap /\ Begin(ds, ds, live)

-----------------------------------------------------------------------------
(* _run_atomic                                                              *)

Mutate ==
  /\ phase = "prepared"
  /\ blk' = Written(plan, plan.writes)
  /\ live' = plan.live
  /\ phase' = "mutated"
  /\ UNCHANGED <<id, tail, index, transaction, failed, identity, source, checkpoint, history>>

\* prepare or mutate raised: any of the writes may have been made, and the old
\* allocation may be released with the new one not yet claimed.
MutateFails ==
  /\ phase = "prepared"
  /\ \E S \in SUBSET plan.writes : blk' = Written(plan, S)
  /\ live' \in {live, live \cap plan.live, plan.live}
  /\ phase' = "rollback"
  /\ UNCHANGED <<id, tail, index, transaction, failed, identity, source, checkpoint, history>>

\* _preflight_file_size could not read the map: the session fails inside prepare.
PreflightFails ==
  /\ phase = "prepared"
  /\ failed' = TRUE
  /\ phase' = "rollback"
  /\ UNCHANGED <<image, index, transaction, identity, source, checkpoint, history>>

MutantNextDiscId == IF OldMap THEN id + 1 ELSE id

NextDiscId == IF OldMap THEN (id + 1) % IdMod ELSE id

AdvanceDiscId ==
  /\ phase = "mutated"
  /\ id' = NextDiscId
  /\ phase' = "advanced"
  /\ UNCHANGED <<blk, live, tail, index, transaction, failed, identity, source,
                 checkpoint, history>>

\* The transaction object goes out of scope with the call.
Release == plan' = NoPlan /\ saved' = NoSaved

\* _finish_mutation: flush, fsync and take the signature again.
FinishMutation ==
  /\ phase = "advanced"
  /\ expected' = sig
  /\ phase' = "synced"
  /\ UNCHANGED <<image, index, transaction, failed, sig, source, checkpoint, history>>

FinishMutationFails ==
  /\ phase \in {"mutated", "advanced"}
  /\ phase' = "rollback"
  /\ UNCHANGED <<image, index, transaction, failed, identity, source, checkpoint, history>>

Commit ==
  /\ phase = "synced"
  /\ backup' = FALSE /\ Release
  /\ index' = Applied(plan)
  /\ commits' = commits + 1
  /\ phase' = "idle"
  /\ UNCHANGED <<image, failed, identity, source, checkpoint, padded, tampered>>

\* transaction.complete() raised before or after it unlinked the before-image.
CompleteFails ==
  /\ phase = "synced" /\ ~OldMap
  /\ backup' \in BOOLEAN
  /\ phase' = "rollback"
  /\ UNCHANGED <<image, index, plan, saved, failed, identity, source, checkpoint, history>>

MutantRestoredId == id

RestoredId == saved.id

Restore ==
  /\ phase = "rollback"
  /\ OldMap \/ backup
  /\ blk' = [b \in Blocks |-> IF b \in Captured(plan) THEN saved.blk[b] ELSE blk[b]]
  /\ live' = saved.live
  /\ id' = RestoredId
  /\ phase' = "restored"
  /\ UNCHANGED <<tail, index, transaction, failed, identity, source, checkpoint, history>>

\* _finish_rollback: validate, flush, take the signature again; then complete().
FinishRollback ==
  /\ phase = "restored"
  /\ expected' = sig
  /\ backup' = FALSE /\ Release
  /\ phase' = "idle"
  /\ UNCHANGED <<image, index, failed, sig, source, checkpoint, history>>

MutantFailedByRollback == failed

FailedByRollback == TRUE

\* The before-image is gone or unreadable, validation found fatal problems, or
\* the flush failed: the rollback is not verified.
RollbackFails ==
  /\ phase \in {"rollback", "restored"}
  /\ failed' = FailedByRollback /\ Release
  /\ phase' = "idle"
  /\ UNCHANGED <<image, index, backup, identity, source, checkpoint, history>>

-----------------------------------------------------------------------------
(* pad_reserved_tail, on a BeebSCSI pair                                    *)

PadReservedTail ==
  /\ MayMutate /\ OldMap /\ ~Container /\ ~tail
  /\ tail' = TRUE
  /\ phase' = "padding"
  /\ UNCHANGED <<blk, live, id, index, transaction, failed, identity, source,
                 checkpoint, history>>

\* No descriptor, or a DAT that does not end at the ADFS boundary.
PadRefused ==
  /\ MayMutate /\ (~OldMap \/ Container \/ tail)
  /\ failed' = TRUE
  /\ UNCHANGED <<image, index, phase, transaction, identity, source, checkpoint, history>>

PadFinish ==
  /\ phase = "padding"
  /\ expected' = sig
  /\ padded' = TRUE
  /\ phase' = "idle"
  /\ UNCHANGED <<image, index, transaction, failed, sig, source, checkpoint,
                 commits, tampered>>

MutantTailAfterRollback == tail

TailAfterRollback == FALSE

PadRollback ==
  /\ phase = "padding"
  /\ tail' = TailAfterRollback
  /\ expected' = sig
  /\ phase' = "idle"
  /\ UNCHANGED <<blk, live, id, index, transaction, failed, sig, source, checkpoint, history>>

PadRollbackFails ==
  /\ phase = "padding"
  /\ tail' \in BOOLEAN
  /\ failed' = TRUE
  /\ phase' = "idle"
  /\ UNCHANGED <<blk, live, id, index, transaction, identity, source, checkpoint, history>>

-----------------------------------------------------------------------------
(* Another program writes the image, or replaces the file at its path.  The *)
(* session's own writes change the times too, but every path that writes    *)
(* takes the signature again or fails the session, so sig counts others'    *)
(* changes only.                                                            *)

ClosePhases == {"closing", "closing-unclean", "exported"}

ExternalChange ==
  /\ sig < MaxSig /\ phase # "closed"
  /\ sig' = sig + 1
  /\ tampered' = CASE tampered # "no" -> tampered
                   [] phase \in ClosePhases -> "close"
                   [] OTHER -> "session"
  /\ \/ Container /\ source' \in [live -> Values] /\ blk' = blk
     \/ ~Container /\ source' = source
        /\ \E b \in Blocks, v \in Values : blk' = [blk EXCEPT ![b] = v]
  /\ UNCHANGED <<live, id, tail, index, phase, transaction, failed, expected,
                 checkpoint, commits, padded>>

-----------------------------------------------------------------------------
(* close                                                                    *)

\* close(clean) flushes first, which takes the signature again, then validates.
CloseSync(clean) ==
  /\ phase = "idle"
  /\ expected' = sig
  /\ phase' = IF clean THEN "closing" ELSE "closing-unclean"
  /\ UNCHANGED <<image, index, transaction, failed, sig, source, checkpoint, history>>

\* The flush failed or validation found fatal problems.
CloseSyncFails(clean) ==
  /\ phase = "idle"
  /\ expected' \in {expected, sig}
  /\ failed' = TRUE
  /\ phase' = IF clean THEN "closing" ELSE "closing-unclean"
  /\ UNCHANGED <<image, index, transaction, sig, source, checkpoint, history>>

MutantExportDue == phase = "closing" /\ Container

ExportDue == phase = "closing" /\ ~failed /\ Container

\* The HFE source is replaced by the re-encoded workspace.
CloseExport ==
  /\ ExportDue /\ sig = expected
  /\ source' = Catalogue
  /\ phase' = "exported"
  /\ UNCHANGED <<image, index, transaction, failed, identity, checkpoint, history>>

\* The source changed since the flush, or the conversion failed.
CloseExportFails ==
  /\ ExportDue
  /\ failed' = TRUE
  /\ UNCHANGED <<image, index, phase, transaction, identity, source, checkpoint, history>>

MutantMayComplete == phase # "closing-unclean"

MayComplete == phase # "closing-unclean" /\ ~failed

CloseFinish ==
  /\ phase \in ClosePhases /\ ~ExportDue
  /\ checkpoint' = IF MayComplete THEN "removed" ELSE "retained"
  /\ phase' = "closed"
  /\ UNCHANGED <<image, index, transaction, failed, identity, source, history>>

\* The session object is spent; nothing more happens.
Closed == phase = "closed" /\ UNCHANGED vars

-----------------------------------------------------------------------------
Operation ==
  \/ ReplaceFile \/ AddObject \/ Remove \/ Rename \/ SetAcornMetadata
  \/ ApplyCatalogueRepair

\* What the session does by itself once a mutation has begun.
RunAtomic ==
  \/ Mutate \/ MutateFails \/ PreflightFails \/ AdvanceDiscId \/ FinishMutation
  \/ FinishMutationFails \/ Commit \/ CompleteFails \/ Restore \/ FinishRollback
  \/ RollbackFails

Padding == PadFinish \/ PadRollback \/ PadRollbackFails

BeginClose == \E clean \in BOOLEAN : CloseSync(clean) \/ CloseSyncFails(clean)

Closing == CloseExport \/ CloseExportFails \/ CloseFinish

Next ==
  \/ DetectExternalChange \/ GrowthPreflightFails \/ SnapshotFails
  \/ Operation \/ RunAtomic
  \/ PadReservedTail \/ PadRefused \/ Padding
  \/ ExternalChange
  \/ BeginClose \/ Closing \/ Closed

Spec == Init /\ [][Next]_vars

-----------------------------------------------------------------------------
Catalogues == UNION {[S -> Values] : S \in SUBSET Blocks}

PlanType ==
  [writes : SUBSET Blocks, captures : SUBSET Blocks, live : SUBSET Blocks, vals : Catalogues]

SavedType == [blk : Catalogues, live : SUBSET Blocks, id : 0 .. IdMod - 1]

Phases ==
  {"idle", "prepared", "mutated", "advanced", "synced", "rollback", "restored",
   "padding", "closed"} \cup ClosePhases

\* Type invariant: the disc cycle id of _advance_disc_id stays within its width.
TypeOK ==
  /\ blk \in [Blocks -> Values] /\ live \in SUBSET Blocks
  /\ id \in 0 .. IdMod - 1 /\ tail \in BOOLEAN
  /\ index \in Catalogues /\ source \in Catalogues
  /\ phase \in Phases /\ plan \in PlanType /\ saved \in SavedType
  /\ backup \in BOOLEAN /\ failed \in BOOLEAN
  /\ sig \in 0 .. MaxSig /\ expected \in 0 .. MaxSig
  /\ checkpoint \in {"held", "removed", "retained"}
  /\ commits \in 0 .. MaxCommits /\ padded \in BOOLEAN
  /\ tampered \in {"no", "session", "close"}

Settled == phase \in {"idle", "closed"} \cup ClosePhases

\* Between mutations a session that has not failed describes exactly what the
\* image holds, whichever step of _run_atomic raised and however much of the
\* mutation had reached the mapping when its rollback began.
IndexMatchesImage == Settled /\ ~failed /\ tampered = "no" => index = Catalogue

\* The disc cycle id counts the committed mutations, modulo its width: a rolled
\* back mutation leaves it where it was (advance_disc_id and restore).
CycleIdCountsCommits == Settled /\ ~failed /\ OldMap => id = commits % IdMod

\* pad_reserved_tail leaves the DAT long exactly when it reported success.
TailMatchesOutcome == Settled /\ ~failed => tail = padded

\* When close() removes the checkpoint, the file the user keeps (the image, or
\* the HFE source the workspace was exported to) holds every committed mutation.
CleanCloseIsCommitted ==
  checkpoint = "removed" /\ tampered = "no"
    => /\ Catalogue = index
       /\ Container => source = index

\* Once _failed is set the session never recovers: no later mutation begins,
\* nothing more is committed or exported, and the checkpoint is not removed.
FailClosed ==
  [][failed => /\ failed'
               /\ phase' # "prepared"
               /\ UNCHANGED <<index, commits, padded>>
               /\ source' # source => tampered' # "no"
               /\ checkpoint' # "removed"]_vars

\* The image between calls: a mutation in progress has not happened yet.
AtRest == IF Settled THEN Catalogue ELSE index

SessionState ==
  IF phase = "closed" THEN checkpoint ELSE IF failed THEN "failed" ELSE "open"

Promise ==
  INSTANCE AtomicImage WITH
    Contents <- Catalogues, visible <- index, disc <- AtRest, state <- SessionState

\* A session whose image nobody else changes implements AtomicImage: _run_atomic
\* makes each mutation happen at once or not at all, or fails the session.
MutationsAreAtomic == Promise!Spec

\* docs/architecture.md: "External identity, size or timestamp changes fail the
\* writable session closed."  A change made before close() began must therefore
\* leave the checkpoint in place.
ExternalChangeFailsClosed == tampered = "session" => checkpoint # "removed"
=============================================================================
