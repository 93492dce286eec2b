# A formal model of AcornFS

AcornFS mounts Acorn disc images (ADFS, DFS, MMB, BeebSCSI DAT/DSC pairs, HFE
containers) through FUSE and lets ordinary programs write to them. Its central
promise is that a writable mount never leaves an image worse than it found it:
a mutation happens or does not, and a session that goes wrong leaves a
checkpoint from which the image can be restored. These modules model the code
that keeps that promise, and the commands around it. Paths below are relative to `src/acornfs/` of the
repository; `PROJECT.json` maps every definition to the lines it stands for.

## The system

| part | state | operations | with whom |
|---|---|---|---|
| Image session, `core/image.py` | mapped image, in-memory inode index, `_failed`, expected signature, checkpoint | open, the mutations through `_run_atomic`, `pad_reserved_tail`, sync, close | transactions, checkpoints, Oaknut |
| Transactions, `core/transaction.py` | before-images (sectors, or one private file) | capture, advance the disc cycle id, restore, complete | session |
| Locked opening, `core/storage.py` | an open, locked handle | open, flock, compare with the path | session |
| Checkpoints, `recovery.py` | manifest, backups | create, complete, recover (restore, discard) | session, command line |
| Retention, `retention.py` | none | sweep of logs, audits, orphan backups | checkpoints, mounts |
| FUSE operations, `fuse_adapter/operations.py` | handles, shared write buffers, dirty inodes, queued attributes, read-ahead | the FUSE requests, `flush_pending` | kernel, session |
| FUSE runner, `fuse_adapter/runner.py` | the loop | register, serve, flush, detach, close, unregister | operations, session, registry |
| Mount registry, `mounts.py` | one record per daemon | register, look up, expire, wait for shutdown | runner, desktop, command line |
| Front ends, `desktop.py`, `cli.py`, `handoff.py`, Nautilus extension | none that lasts | mount, unmount, remount, inspect | all of the above |
| Repair, `core/repair.py` | a plan, an audit file | plan, apply | session, validation |
| Validation, `core/validation.py` | none | check map and catalogue | session, repair |
| Transfer and creation, `core/transfer.py`, `core/create.py` | temporary files | export, import, create a pair | session |
| Formats, `core/formats.py`, `beebscsi.py`, `dfs.py`, `mmb.py`, `hfe.py` | geometry, HFE workspace | detect, parse, decode, encode | session |
| Greaseweazle, `greaseweazle.py` | a subprocess | read and write physical discs | desktop |

What is hard in it: a mutation that fails after some of its writes; rollbacks
that fail; another program, or another AcornFS, on the same image; a process
killed or power lost between any two file operations; several handles on one
file whose flushes fail; what is still queued when the mount goes. `PROJECT.json`
lists these hazards at their lines, with the properties that cover each, or the
reason none does.

The properties that make the parts correct:

- session: index and image agree between mutations, a failed session does
  nothing more, a clean close keeps every committed mutation;
- checkpoints: an image that may be damaged can always be restored, and recover
  never makes it worse;
- FUSE: what was accepted is what is read, is queued until it is stored, and is
  stored when the mount ends clean;
- registry and front ends: an unmount that reports a flushed mount is right about
  the session it detached;
- repair: whatever stops it, a changed and unchecked image has its checkpoint, and
  the audit file keeps up with what was done;
- validation: a clean verdict means that every sector has one owner;
- transfer and creation: two files are published or none, nobody's file is replaced,
  and what is imported is the host file of one moment;
- HFE containers: what one session saved no other one writes over;
- images of several discs: a change stays in the disc it was made below;
- Greaseweazle: what is reported as written is the image of one moment.

## The modules

`AtomicImage` is the abstract specification of a writable image: callers' view
and disc change together, or the session says that it has failed, for good.

`ImageSession` is one session: each mutation, every step of `_run_atomic`, every
point where a step raises, rollback and its failures, padding, changes by other
programs, and close. An image is a set of blocks with contents, the set of
allocated blocks, the cycle id and whether the tail is there; the inode index is
the catalogue of allocated contents that it describes. `plan` is the mutation
being run, `saved` its before-image. A mutation is given by the blocks it writes,
the blocks it captures and the allocation it leaves: what tells a correct
capture from a wrong one is whether an old allocation that is written again was
saved. `ImageSession` instantiates `AtomicImage` (`Promise`) with the refinement
mapping visible = index, disc = catalogue of the image at rest, and
`MutationsAreAtomic` says that it implements it.

`FuseBuffers` is the adapter of a writable mount. No handler awaits anything, so
trio runs each to its end and a handler is one action; what the image calls do
inside a handler is what `AtomicImage` promises: effect, refusal without effect,
or refusal that fails the session. The tree is one directory, a file's contents
one value, attributes the load address and the lock. `pending`, `dirty`, `buf`
and `handles` are `_metadata_updates`, `_dirty`, `_write_buffers` and `_handles`;
`held` and `wr` are the kernel's side, and `latest` is a history variable: what
the last accepted change left. The runner's shutdown flush commits one inode per
action. Once a session has failed, what its image holds is left open and the
mount can only end with its checkpoint retained.

`WriteBack` is the abstract specification of a writable mount, for whoever uses its
files: no handles, buffers, queues or image calls. A request changes one file at once
or not at all; what the image stores of a file is, data and attributes each, what was
made of it; a failed mount stores nothing more; one that ends clean has stored
everything. `FuseBuffers` instantiates it (`Mount`) with `current` the accepted
contents of the live inodes (`Accepted`), `stored` the image, and `state` read off the
session's failure and the runner's place (`MountState`); `MountIsWriteBack` says that
it implements it. `AtomicImage` is the layer below: what the adapter assumes of the
session and `ImageSession` implements.

`Recovery` is the checkpoint directory, the image's paths and the locks, shared
by processes that each play a session, a recover or a sweep. A step is one
file-system operation, in the order of the code, fsyncs included. Paths, manifest
and backups have a durable copy; `PowerLoss` lets every directory entry fall
back to it or not, independently. The checkpoint directory is such an entry itself, of a
directory that no code syncs: `dir` says that it exists, `dirD` that its entry is
durable, and `past` what the durable entry names when the directory was removed or made
again since. Contents are `good` (accepted by a clean
close or by the user), `bad` (a session has written since) or `partial`.

The commands around a session have a module each.

| module | code | the state it keeps | what its steps are |
|---|---|---|---|
| `MountLifecycle` | `fuse_adapter/runner.py`, `mounts.py`, `background_mount` and `desktop_unmount` of `desktop.py`, `_unmount` of `cli.py` | file at the image path, its checkpoint, the kernel's stack of mounts on the point, the record, daemons, front ends | each call of `mount_image`; each read of the mount table or the registry by a front end; a daemon killed anywhere |
| `Publish` | `export_file`, `create_beebscsi_image` | the directory now and after a power loss, temporary names, links made | one file operation each |
| `HostImport` | `import_file` | the host file, the target entry, the room left | the first opening, the read block by block, the second opening |
| `Validation` | `validate_open_mount` | sizes, extents, directories seen, items counted | one entry of the free list or of a directory; the scans as operators |
| `Repair` | `apply_repairs` | what a validation would find, the checkpoint, the audit in memory and on disc | each stage, and each audit write, which may fail |
| `FloppyWrite` | `write_floppy`, the floppy dialogs | image, floppies, gw, watchdog | each stage, gw track by track |
| `HfeContainer` | `core/hfe.py`, container paths of `core/image.py` | the file at the path, locks, signatures, workspaces | each stage of a session |
| `Containers` | `core/mmb.py`, `core/dfs.py` | catalogue, bytes changed | each mutation below a slot or a side |

`MountLifecycle` treats the flush, the validation and the close of a session as one
step with two outcomes, clean or with its checkpoint left: `FuseBuffers`,
`ImageSession` and `Recovery` take that step apart. A front end reads the mount
table, then the records, then unlinks what it holds for dead, and acts on what it
read: those are separate steps, so a daemon may go or come in between.

`Validation` writes the sorted scans the way the code runs them (a running end, a
merge of two lists, a cursor; sorting gives each extent its place by counting those
before it) and `ReportIsExact` compares their verdict with the
definition: each sector in one extent and one only.

`Repair` separates `payload`, the audit as it should be, from `audit`, the file: a
write that raises sends the repair to its handler and leaves the old file or the new
one, since `atomic_write_private_text` syncs the directory after it has replaced the
file.

`HfeContainer` names a file by its inode and a time stamp, which other programs'
changes move; `SigOf` is the signature the code takes. The lock that
`decode_hfe` holds is released before the conversion, as in the code.

`CommandLine` is `main`: the eight components above in one specification. A handler
calls no other handler and components share no variable, so a behaviour is that of
one component and `command` says which; the others stay in their first state. It
adds no interaction. It is what lets one run, with one configuration, check them.

`FuseBuffers` has the read-ahead as well: which handles hold data and of which
contents, within the budget of the mount. Which others make room for a new range
depends on lengths and on the order of use, which are left out, so any of them may.

`Containers` has no reads: they change nothing but the cache of slot mounts, which is
left out.

`MCImageSession`, `MCFuseBuffers`, `MCRecovery` and `MCCommandLine` hold the definitions
the configurations need: symmetry sets, member tuples, a view.
The theorems about a module are in a module of their own: `ImageSessionProofs`,
`FuseBuffersProofs`, `RecoveryProofs`, `MountLifecycleProofs`, `IntegrityProofs`
(`Validation`, `Repair`), `TransferProofs` (`Publish`, `HostImport`), `MediaProofs`
(`HfeContainer`, `FloppyWrite`, `Containers`) and `CommandLineProofs` (`CommandLine`).

## The runs

| run | what it asks | instance |
|---|---|---|
| `session_sector` | `TypeOK`, `IndexMatchesImage`, `CycleIdCountsCommits`, `TailMatchesOutcome`, `FailClosed` with sector before-images | 3 blocks, 2 values, 2 commits, 1 outside change, cycle id modulo 2 |
| `session_container` | the same index and failure properties, `CleanCloseIsCommitted` and the refinement, with a whole-image before-image and an HFE container | 2 blocks, 2 values, 1 commit, 1 outside change |
| `session_external` | violation of `ExternalChangeFailsClosed` | as above |
| `fuse_buffers` | visibility, queueing, buffers, read-ahead, durability, the refinement of `WriteBack`, and that shutdown ends | 1 file, 2 handles, 2 contents, 1 address, refusals and failed sessions |
| `fuse_namespace` | queueing, buffers and the refinement of `WriteBack` under create, mkdir, remove, rename | 2 names, 3 inodes, 1 handle, 2 contents, refusals |
| `fuse_queued` | violation of `QueuedAttributesAreLive` | 2 names, no failures |
| `recovery_pair` | recoverability under crash and power loss, and that who may write holds the lock of the file at the path | DAT/DSC pair, 2 processes in any role, none working beside one without a lock, 4 inodes |
| `recovery_race` | violation of `LiveIsProtected` | 2 sessions |
| `recovery_stale` | violation of `NothingHalfPublished` | 2 processes, one may recover |
| `recovery_advertised` | violation of `DeletedBackupsAreNotAdvertised` | DAT/DSC pair, 1 process |
| `command_line` | the properties of the eight command modules, below | below |
| `mount_record` | violation of `RecordsOutliveTheImage` | 2 daemons, 1 front end |

What `command_line` asks of each component, and on which instance:

| component | properties | instance |
|---|---|---|
| all | `CommandTypeOK`, the type invariant of the one that runs | |
| mount, unmount | `UnmountReportsTruth` | 2 daemons, 1 front end, one replacement of the image file, both ways to launch |
| export, create | `PublishedWhole`, `OthersAreKept`, `ExportSurvivesPowerLoss` | 2 publishers, names that differ in case, 1 file of another program |
| import | `ImportIsFaithful`, `ImportReplacesNothing` | files of up to 2 blocks of 2 values, room for 2, 2 writes by another program |
| validate | `ReportIsExact` | 4 sectors, extents that start anywhere to sector 3, 2 items |
| repair | `UncheckedRepairIsRecoverable`, `AuditKeepsUp` | all three actions and a finding that needs a decision |
| floppy | `WrittenIsTheImage` | 2 tracks, 2 changes of the image, a drive of each bus |
| HFE | `SavedEditsAreKept` | 3 sessions of either mode, 1 change by another program |
| MMB, DSD | `PartsAreIsolated` | 2 extents of 2 slots of 1 byte |

Why the bounds are enough. Sector rollback needs a directory, an old allocation
and a new one: three blocks. Two commits and a cycle id modulo 2 (65536 in the
code) let the id wrap and be rolled back at the wrap. A second handle is what
sharing a buffer needs; a second name is what a replacing rename needs; inode
numbers run out after one creation, and no property depends on later numbers.
A pair has two members, and a restore takes a new inode for each: four hold the
old files and the new ones, and an inode that no path and no handle has is used again,
so any number of restores may follow each other, whatever crashes come between; when
no inode is unused a recover waits. Two processes are what the lock and race questions
need: one opens, waits at the lock, or is refused while the other works. `recovery_pair`
explores no further than states in which one works beside another that holds no lock
(`NoneWorksBeside`, the hypothesis of the theorems): beyond them are `recovery_race` and
`recovery_stale`, and `LiveOwnsImage`, which `LiveOwnsImageHolds` proves there as well
with one recover at a time. The
configurations declare blocks, or names and handle slots, symmetric; inode
numbers are not, because `flush_pending` sorts them, and the run with a liveness
property declares no symmetry. The processes of `recovery_pair` are symmetric, too.
`command_line` has a view: the components that do not run stay in their first state, and
of a session on an HFE container that is over nothing is read again.

Two daemons are the one a record names and the one that takes its place; the front
end may meet either. Two publishers at one name, or at names that differ in case,
are what a collision needs. Validation's map and root take a sector each and leave
two; two further entries, free or used, give every way in which two extents can lie
(apart, touching, overlapping, nested, out of range, empty), with each other and with
the two that are always there; an overlap or a gap among more shows between two that
are neighbours after sorting, or before the furthest end so far. Three sessions on an HFE container
are what the loss of an edit takes: one that saves, one that runs on a file that is
gone, and one that replaced it. Two slots in each of two extents have every kind of
neighbour, a slot, a catalogue and the end; sizes are scaled down, and the offsets are
computed by the code's arithmetic. The terminal states of these components are real
ends, so `command_line` does not check deadlock.

Fairness is used once: `FairSpec` of `FuseBuffers` gives the shutdown flush and
the close weak fairness, because the mount process runs them itself, in
straight-line code, once the loop has returned. Nothing is assumed of the kernel,
the user or other processes.

What the six violations show is in `findings` of `PROJECT.json`: `close()`
adopts an outside change made since the last mutation; a rename leaves the queued
attributes of the file it replaces, so a clean shutdown ends with a retained
checkpoint; `unregister_mount` unlinks whatever record its mount point has;
`complete()` works on shared file names after the locks are gone;
`recover` acts on a manifest read before it locks; `create` unlinks the backups of a
checkpoint whose manifest a power loss may still bring back.

Where the model departs from what the code says of itself and no run records it, the
hazards of `PROJECT.json` have a note:

- two recovers at a time: the second opens the image, the first replaces it, and the
  second, which compares nothing with the paths, locks the file that is gone
  (`recovery.py:159`). `LiveOwnsImage` then fails, so its theorem assumes `OneRecovery`;
- nothing syncs the directory in which the checkpoint directory is made
  (`safe_paths.py:37`): with `SyncReachesEntry = FALSE` in `recovery_pair.cfg`,
  `AlwaysRecoverable` fails, because a power loss takes the whole checkpoint;
- a repair whose `close()` raises after `complete()` has removed the manifest is reported
  and audited as failed with its checkpoint retained (`core/repair.py:443`), although
  there is none; the image has been validated by then, which is what `AuditKeepsUp` says;
- a repair of which only the end of the audit fails says that the verified audit was
  retained (`core/repair.py:439`), but the handler has marked it as failed;
- attributes queued for the root, and the sweep that overlaps a new checkpoint.

## What is proved

Every invariant, every action property and both refinements that the passing runs check
are theorems for all values of the constants; only `ShutdownEnds`, which is liveness, is
not. A proof has the shape of its module: an inductive invariant named in the proof
module, one lemma that the first state satisfies it, one that each action of the next-state relation keeps it, and the
property as a consequence. The assumptions are those named in the modules
(`SessionAssumption`, `FuseAssumption`, `UnsetAssumption`, `RecoveryAssumption`,
`MountAssumption`, `RepairAssumption`, `PublishAssumption`, `ImportAssumption`,
`HfeAssumption`, `FloppyAssumption`, `ContainerAssumption`, `ValidationAssumption`),
which TLC evaluates on the runs. They say that names are different names, that bounds
are numbers, that handle slots and inodes are finitely many, that an extent has more
than one slot (511 in the code), that an image has at least one member and a file for
each, and that the bound on where an extent may start lets the root start where it does.

| theorems | of | hypotheses besides the specification |
|---|---|---|
| `TypeCorrect`, `IndexIsFaithful`, `CleanClose`, `CycleIdIsFaithful`, `TailIsFaithful`, `FailedStaysFailed` | `ImageSession` | none |
| `Atomicity`: a session implements `AtomicImage` | `ImageSession` | nobody else changes the image |
| `FuseTypes`, `VisibleIsLatestHolds`, `UncommittedIsQueuedHolds`, `WritableHandleHasBufferHolds`, `ReadAheadIsCurrentHolds`, `CleanShutdownIsDurableHolds` | `FuseBuffers` | none |
| `MountIsWriteBackHolds`: the adapter and its runner implement `WriteBack` | `FuseBuffers` | none |
| `RecoveryTypes` | `Recovery` | none |
| `LiveOwnsImageHolds` | `Recovery` | `OneRecovery`: recover is not run twice at a time |
| `ExclusionHolds`: one process at a time is past its opening (`OneAtATime`) | `Recovery` | `NoneWorksBeside`: nobody works beside a process at a stage without a lock |
| `AlwaysRecoverableHolds`, `LiveIsProtectedHolds` | `Recovery` | `NoneWorksBeside`; `SyncReachesEntry` |
| `NothingHalfPublishedHolds`, `AdvertisedBackupsExistHolds` | `Recovery` | `NoneWorksBeside` |
| `MountTypes`, `UnmountReportsTruthHolds` | `MountLifecycle` | none |
| `PublishedWholeHolds`, `OthersAreKeptHolds`, `ExportSurvivesPowerLossHolds` | `Publish` | none |
| `ImportIsFaithfulHolds`, `ImportReplacesNothingHolds` | `HostImport` | none |
| `ReportIsExactHolds` | `Validation` | none |
| `UncheckedRepairIsRecoverableHolds`, `AuditKeepsUpHolds` | `Repair` | none |
| `WrittenIsTheImageHolds` | `FloppyWrite` | none |
| `SavedEditsAreKeptHolds` | `HfeContainer` | none |
| `PartsAreIsolatedHolds` | `Containers` | none |
| `CommandTypesHold`, `CommandsKeepTheirPromises`, `CommandsReplaceNothing` | `CommandLine` | none |

Why the invariants are what they are:

- **ImageSession.** `IndexMatchesImage` is not inductive: it says nothing while a
  mutation is running. `Inv` adds what each phase must know: before the image is
  durable, `saved` together with the blocks that were not captured still determines
  the catalogue the index describes (`Undoable`), because every block written was
  captured or was free (`PlanFits`); after it, the image is the one `commit` will put
  in the index. `Atomicity` uses the same invariant: only `Commit` changes what is
  visible, only the steps that set `_failed` map to `Fail`, and every other step of
  `_run_atomic` is a stutter.
- **FuseBuffers.** `IInv` adds that inodes not yet handed out have nothing anywhere
  (`Fresh`), that names and handles are of inodes there are, that a buffer exists
  exactly where a handle or a dirty mark needs it, and that image, buffer and queue
  laid over each other give `latest` (`Faithful`). `flush_pending` takes the least
  inode; that there is one follows from well-foundedness of inclusion of finite sets.
  `MountIsWriteBackHolds` rests on the same invariant: what a flush puts in the image
  is the buffer and the queue, and `Faithful` says that those laid over the image are
  `latest`, so a commit stores parts of what was accepted; a clean end finds nothing
  buffered or queued, so what is stored is what was accepted. A handler that flushes
  and then changes the tree maps to one step, a shutdown flush to `Commit` or a stutter.
- **Recovery.** `RecoveryInv` says for each place of each process what image and
  checkpoint are, now and after a power loss (`SessionStage`, `RecoverStage`), that
  one of them is good (`Kept`), and that no half copy is kept. What a power loss leaves is
  the present directory, what its durable entry named before (`past`) or nothing: with
  `SyncReachesEntry` the first sync of `create` rules the last two out before anything
  depends on the checkpoint; without it, what comes back from `past` has no ready
  manifest and no half copy of an image in use (`CleanPast`), which is what
  `AdvertisedBackupsExist` and `NothingHalfPublished` need. The proof needs
  one process at a time past its opening, and `ExclusionHolds` derives that: whoever
  is at a stage that holds locks has locked the file the DAT path names (`GuardedOwns`),
  so two of them are one. What is left as the hypothesis `NoneWorksBeside` concerns the
  stages without a lock: `complete` after the locks are gone, `recover` before it
  locks and after it has replaced the DAT, which is the last, the sweep. It cannot be
  dropped: in `recovery_race` and `recovery_stale` the properties fail at just those
  stages. It lets any number of sessions and recovers meet at the locks, be killed,
  wait, or come later.
  `LiveOwnsImage` needs less: sessions exclude each other by their locks and the
  comparison with the path, but two recovers may each replace files the other locked.
- **MountLifecycle.** `MountInv` ties the checkpoint at the path to the one daemon
  that writes, or to one that was lost, and says that a front end waits only for a
  daemon that was mounted: what it finds gone has ended or was lost.
- **Publish.** A name is a publisher's exactly if it is in its list of links, and an
  export links only what is synced (`Placed`, `SyncedFirst`). **HostImport.** What has
  been read is, as long as the stamp stands, a prefix of the file.
- **Validation.** `ReportInv` says what the errors noted so far leave to be true of the
  extents read so far: within the map, of at least one sector. The rest is that each
  scan is exact (`OverlapsExact`, `CrossOverlapsExact`, `GapsExact`): with no overlap
  the sorted extents end before the next begins (`SortedApart`), the merge passes an
  extent only when nothing later can meet it, and a cursor that never jumps and ends at
  the end leaves no sector out. Sorting puts each extent at a place of its own
  (`PositionsDiffer`), and as many places as extents leave none empty (`SortedFacts`).
  A recursive function is unfolded once it is shown that a function with that equation
  exists (`MeetsUnfolds`, `CursorUnfolds`); the induction is over a set of places
  (`Reaches`, `Minimum`), since the library's induction rules cannot be instantiated.
- **Repair.** Each stage knows what the image has had done to it, and that `payload`
  is never behind it; the file may be behind by one action. `Retention` says that a
  checkpoint recorded as made is there until the image has been validated, so the word
  `retained` of the handler is never false of an image that needs it.
- **FloppyWrite.** The copy is a prefix of the image as long as the stamp stands, and
  each track gw has passed is the copy's or bad.
- **HfeContainer.** A workspace whose source is still the file at the path has all the
  edits there (`Workspaces`); locks leave one writer per file (`LocksExclude`); and
  while a session works on a file that is gone nothing is promised (`NoPromises`). The
  proof attempt showed that `Undisturbed` said too little: see below.
- **Containers.** Quotient and remainder are unique, so the windows of two slots are
  disjoint and lie behind the catalogue of their extent (`SlotsAreDisjoint`,
  `SlotsAreInside`).
- **CommandLine.** A behaviour of the command line is one of each component
  (`CommandsAreComponents`), so their theorems are about `CommandSpec`, too, which is
  what the run checks.

What the proofs changed. `SavedEditsAreKept` was false for three sessions and one
outside change, a bound the run did not have: `image.py:158` takes a session's first
signature from the inode that the path names by then and the stamps of its own open
file, and compares it with nothing, so a session may run on a file that is gone and save
its old workspace over what others saved. `Undisturbed` now leaves such sessions
out, the run has three sessions, and the case is a hazard in `PROJECT.json`. `Detached`
no longer filters a sequence, and the read-ahead is a
function: what a filter computes cannot be proved without induction over data. The refinement of
`WriteBack` needed an action of its own for a request that fails the mount and changes
no file (`Fail`): with no file left, no change of a file stands for it, a case the
runs' bounds did not show. The Recovery theorems had assumed `OneAtATime`
outright, where the locks give most of it.

Only model-checked:

- `ShutdownEnds`: liveness under fairness and `ENABLED` are beyond the prover;
- the six violations, which are counterexamples.

## Assumptions and what is left out

- Oaknut is external. A call of it writes some of the blocks of the plan and
  raises or returns; its allocation choices are nondeterministic within the free
  space and the old allocation. That a logical sector lies at offset 256 times its
  number in the mapping is taken from the code.
- `sig` counts other programs' changes. The session's own writes change the
  times too, but every path that writes takes the signature again or fails.
- `commit()` is modelled as unable to raise. A killed process in the middle of a
  mutation is `Recovery`'s business: its session leaves `bad` contents.
- `SyncReachesEntry` of `Recovery` says that an fsync of a new directory makes the
  directory's entry in its parent durable too. A journalled file
  system such as ext4 does that, POSIX does not promise it, and the code syncs no parent.
  All runs of `Recovery` and the two theorems on `AlwaysRecoverable` and `LiveIsProtected` assume it; the type
  invariant and the other Recovery theorems do not. The removal of the directory is
  never synced and may be undone in either case.
- In `Recovery`, another program that ignores the locks does not exist; a
  directory's age is that of its last change; enough time to age a directory is
  enough for the kernel to write everything back; `discard` accepts the file a
  path may fall back to as well as the one it names.
- A rename of a manifest or an image publishes a file that was synced before it.
- `FuseBuffers` leaves out directory listings, permission bits and kernel
  invalidations. Read-ahead is one range per handle and whole contents: offsets
  within a file are left out.
- `MountLifecycle` has one image and one mount point. A process id is not used again
  while a record names it. The user resolves a checkpoint only when no writable
  session of the image runs: `recovery_stale` shows what happens otherwise. An image
  mounted anywhere counts as a mount point that is not empty. The directories of the
  mount points, which both ends remove, are left out.
- In `Publish` other programs create files but replace and remove none. In
  `ExportSurvivesPowerLoss` the data of a synced file and the entries of a synced
  directory survive. The property is about exports: `create_beebscsi_image` syncs no
  contents.
- Every write by another program moves the time stamp of `HostImport`, `FloppyWrite`
  and `HfeContainer`: a change within the granularity of the stamps is not seen by the
  code either.
- `HfeContainer` makes and removes a checkpoint in one step, because `Recovery` and
  `recovery_race` take those apart. `kept` forgets what was saved when another program
  changes the file, and counts no session that such a change overlaps (`Undisturbed`):
  the code blocks the write-back of a session whose file was written, but a session on
  a file that is gone from the path may save over what others saved.
- In `Containers` the engine is assumed to stay in the window it is given.
- The gw process is external: it may write a track badly, write it again, stop, and
  says that all tracks are verified only when none is bad.
- In `Validation` warnings and advice are left out, since they decide nothing; in
  `Repair` a finding is known by the action that answers it.
- Formatting, translation, progress and diagnostics are left out; no property
  concerns them.

## Not modelled

- `core/properties.py`, diagnostics, the benchmark, preferences, translation, privacy
  and path checks: read-only summaries and settings without a protocol.
- The rules of `core/formats.py`, `beebscsi.py` and `greaseweazle_format` that choose a
  geometry or a format name: pure tests on an image's size and bytes, whose answer the
  modules take as an input.
- The INF dialect and the names of Acorn files: text conversion.
- The Nautilus extension, `handoff.py` and `file_forge.py`: they start programs.
- Index, children and names against the catalogue of the disc through rename of a
  directory: `FuseBuffers` has one directory, `ImageSession` no names. Paths below a
  renamed directory are rebuilt by one loop over the descendants.
- The reading side of `ReadOnlyImage` (its whole-file cache, ranged reads).

## Plan

Done: the modules, their runs, and the theorems above. What could follow:

1. `Recovery` of a single process as an implementation of a two-state specification of
   the image (good, or restorable), the way `FuseBuffers` implements `WriteBack`.
2. `FuseBuffers` over several directories, so that the paths below a renamed directory
   are part of what `WriteBack` promises.
3. The hazards of `PROJECT.json` that no property covers: an error of `commit()` after
   the image is durable, the slot that a failed release leaves, a queued update of the
   root, the sweep that overlaps a new checkpoint, `discard` without a sync.
