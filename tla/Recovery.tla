------------------------------ MODULE Recovery ------------------------------
(***************************************************************************)
(* The recovery checkpoint of one image: a writable session that creates    *)
(* and completes it, `recover` that restores or discards it, and the        *)
(* retention sweep of orphans, with process crashes and power loss between  *)
(* any two steps (recovery.py, retention.py, core/storage.py, the open and  *)
(* close of core/image.py).                                                 *)
(*                                                                          *)
(* A process may play any role, one after another.  Directory entries have  *)
(* a durable copy: without an fsync of the directory, power loss may undo   *)
(* each entry's last changes independently of the others.  The checkpoint   *)
(* directory is itself such an entry, of a directory that nothing syncs: it *)
(* is made and removed here, and whether an fsync of the directory makes its *)
(* own entry durable is for the file system to say (SyncReachesEntry).      *)
(***************************************************************************)
EXTENDS Naturals, Sequences, FiniteSets

CONSTANTS
  Procs,     \* AcornFS processes
  Files,     \* members in the order they are copied: <<"dat", "dsc">> or <<"bin">>
  Nobody,    \* no process
  Recoverers,\* the processes that may run recover
  Sweepers,  \* the processes that may run the retention sweep
  Inodes,    \* bound: inodes the members of the image may occupy over time
  SyncReachesEntry \* fsync of a new directory makes its entry in the parent durable too

ASSUME RecoveryAssumption ==
  /\ Files \in Seq({"dat", "dsc", "bin"}) \ {<<>>}
  /\ \A j, k \in 1 .. Len(Files) : Files[j] = Files[k] => j = k
  /\ Nobody \notin Procs /\ Recoverers \subseteq Procs /\ Sweepers \subseteq Procs
  /\ Inodes \subseteq Nat \ {0} /\ IsFiniteSet(Inodes) /\ 1 .. Len(Files) \subseteq Inodes
  /\ SyncReachesEntry \in BOOLEAN

Members == {Files[k] : k \in 1 .. Len(Files)}
Data == Files[1]   \* the only member a session writes

VARIABLES
  path, pathD,   \* member -> inode its path names, and durably names
  content,       \* inode -> "good" (accepted by a clean close or the user), "bad" or "partial"
  lock,          \* inode -> process holding its exclusive flock
  man, manD,     \* manifest.json: "none", "creating" or "ready"
  bak, bakD,     \* member -> backup: "none", or the content it copied
  dir, dirD,     \* the checkpoint directory exists, and its entry is durable
  past,          \* what the durable entry names while that is not the present directory
  aged,          \* the checkpoint directory is older than the retention period
  pc,            \* process -> where it is
  at,            \* process -> index in Files of a loop over the members
  opened,        \* process -> member -> inode its handle is open on
  info,          \* process -> manifest state recover read
  staged,        \* process -> member -> content staged beside the target, or listed to sweep
  armed          \* history: a session went live under the present checkpoint ("yes"), whose
                 \* backups the next create has begun to unlink ("cleared")

image == <<path, pathD, content>>
ckpt == <<man, manD, bak, bakD, dir, dirD, past>>
history == <<aged, armed>>
locals == <<at, opened, info, staged>>
vars == <<image, lock, ckpt, history, pc, locals>>

NoInodes == [m \in Members |-> 0]
NoBackups == [m \in Members |-> "none"]
NoPast == [there |-> FALSE, man |-> "none", bak |-> NoBackups]

Init ==
  /\ path = [m \in Members |-> CHOOSE i \in 1 .. Len(Files) : Files[i] = m]
  /\ pathD = path
  /\ content = [i \in Inodes |-> "good"]
  /\ lock = [i \in Inodes |-> Nobody]
  /\ man = "none" /\ manD = "none"
  /\ bak = NoBackups /\ bakD = NoBackups
  /\ dir = FALSE /\ dirD = FALSE /\ past = NoPast
  /\ aged = FALSE /\ armed = "no"
  /\ pc = [p \in Procs |-> "idle"]
  /\ at = [p \in Procs |-> 1]
  /\ opened = [p \in Procs |-> NoInodes]
  /\ info = [p \in Procs |-> "none"]
  /\ staged = [p \in Procs |-> NoBackups]

-----------------------------------------------------------------------------
Go(p, from, to) == pc[p] = from /\ pc' = [pc EXCEPT ![p] = to]

Locked(p) == {i \in Inodes : lock[i] = p}

\* Closing the handles drops the locks; the process is done.
Quit(p) ==
  /\ pc' = [pc EXCEPT ![p] = "idle"]
  /\ lock' = [i \in Inodes |-> IF lock[i] = p THEN Nobody ELSE lock[i]]
  /\ at' = [at EXCEPT ![p] = 1]
  /\ opened' = [opened EXCEPT ![p] = NoInodes]
  /\ info' = [info EXCEPT ![p] = "none"]
  /\ staged' = [staged EXCEPT ![p] = NoBackups]

OpensPath(p) == opened' = [opened EXCEPT ![p] = path]

Handles(p) == {opened[p][m] : m \in Members}

Free(p) == \A i \in Handles(p) : lock[i] = Nobody

MutantNextMember(p) == at[p] + 1

NextMember(p) == IF at[p] < Len(Files) THEN at[p] + 1 ELSE 1

MutantSameFile(p) == TRUE

\* The handles' device and inode are still those of the paths.
SameFile(p) == opened[p] = path

TakeLocks(p) == lock' = [i \in Inodes |-> IF i \in Handles(p) THEN p ELSE lock[i]]

FsyncDirectory ==
  /\ manD' = man /\ bakD' = bak
  /\ dirD' = (dirD \/ (dir /\ SyncReachesEntry))
  /\ past' = IF dirD' THEN NoPast ELSE past
  /\ UNCHANGED <<man, bak, dir>>

\* A change of the directory's entries makes the directory young again, an unlink of
\* what is not there does not.  A write makes the directory again if it has gone.
SetManifest(s) ==
  /\ man' = s /\ dir' = (dir \/ s # "none")
  /\ aged' = (aged /\ s = "none" /\ man = "none")
  /\ UNCHANGED <<manD, bak, bakD, dirD, past, armed>>

SetBackup(m, c) ==
  /\ bak' = [bak EXCEPT ![m] = c]
  /\ aged' = (aged /\ bak[m] = c)
  /\ UNCHANGED <<man, manD, bakD, dir, dirD, past>>

\* rmdir, of an empty directory only; its errors are ignored.  The removal is not
\* synced: until a new directory's entry is, the old directory may come back.
RemoveDirectory ==
  \/ /\ dir /\ man = "none" /\ bak = NoBackups
     /\ dir' = FALSE /\ dirD' = FALSE
     /\ manD' = "none" /\ bakD' = NoBackups
     /\ past' = IF dirD THEN [there |-> TRUE, man |-> manD, bak |-> bakD] ELSE past
     /\ aged' = FALSE
     /\ UNCHANGED <<man, bak, armed>>
  \/ UNCHANGED <<ckpt, history>>

-----------------------------------------------------------------------------
(* A writable session: open, checkpoint, write, close                       *)

SessionOpen(p) ==
  /\ Go(p, "idle", "opened")
  /\ OpensPath(p)
  /\ UNCHANGED <<image, lock, ckpt, history, at, info, staged>>

\* open_locked_handle: LOCK_NB, then the path must still name the locked inode.
SessionLock(p) ==
  /\ Go(p, "opened", "check")
  /\ Free(p) /\ SameFile(p)
  /\ TakeLocks(p)
  /\ UNCHANGED <<image, ckpt, history, locals>>

\* Locked elsewhere, replaced, refused by validation, a checkpoint is pending, or an
\* error before the manifest is begun.
SessionRefused(p) ==
  /\ \/ pc[p] = "opened" /\ ~(Free(p) /\ SameFile(p))
     \/ pc[p] \in {"check", "made", "cleared"}
  /\ Quit(p)
  /\ UNCHANGED <<image, ckpt, history>>

MutantMayCreate == TRUE

MayCreate == man = "none"

\* _ensure_checkpoint_directory: nothing syncs the directory it is made in.
MakeDirectory(p) ==
  /\ Go(p, "check", "made")
  /\ MayCreate
  /\ dir' = TRUE
  /\ aged' = (aged /\ dir)
  /\ UNCHANGED <<image, lock, man, manD, bak, bakD, dirD, past, armed, locals>>

\* Orphans of an earlier clean session are unlinked, one after the other.
CreateClears(p) ==
  /\ Go(p, "made", IF at[p] < Len(Files) THEN "made" ELSE "cleared")
  /\ SetBackup(Files[at[p]], "none")
  /\ armed' = IF armed = "no" THEN "no" ELSE "cleared"
  /\ at' = [at EXCEPT ![p] = NextMember(p)]
  /\ UNCHANGED <<image, lock, opened, info, staged>>

\* The manifest's directory is synced through its descriptor, the cleared one by name.
\* From the first sync on nothing is left of an earlier checkpoint.
CreateSyncs(p) ==
  \/ Go(p, "cleared", "announce") /\ dir /\ FsyncDirectory /\ armed' = "no"
     /\ UNCHANGED <<image, lock, aged, locals>>
  \/ Go(p, "announced", "copy") /\ FsyncDirectory
     /\ UNCHANGED <<image, lock, history, locals>>
  \/ Go(p, "readied", "created") /\ FsyncDirectory
     /\ UNCHANGED <<image, lock, history, locals>>

\* _write_manifest renames a complete, synced file over manifest.json.
CreateAnnounces(p) ==
  /\ Go(p, "announce", "announced")
  /\ SetManifest("creating")
  /\ UNCHANGED <<image, lock, locals>>

CopyBegins(p) ==
  /\ Go(p, "copy", "copying")
  /\ dir /\ bak[Files[at[p]]] = "none"
  /\ SetBackup(Files[at[p]], "partial")
  /\ UNCHANGED <<image, lock, armed, locals>>

\* The copy reads the locked handle and is synced before the next one begins: a
\* directory entry that is durable already names the whole copy from here on.  The
\* copy is given its mode by name, which fails if someone has unlinked it.
CopyEnds(p) ==
  LET m == Files[at[p]]
      copy == content[opened[p][m]]
  IN
    /\ Go(p, "copying", IF at[p] < Len(Files) THEN "copy" ELSE "copied")
    /\ bak[m] # "none"
    /\ bak' = [bak EXCEPT ![m] = copy]
    /\ bakD' = [bakD EXCEPT ![m] = IF @ = "none" THEN @ ELSE copy]
    /\ UNCHANGED <<man, manD, dir, dirD, past>>
    /\ at' = [at EXCEPT ![p] = NextMember(p)]
    /\ UNCHANGED <<image, lock, history, opened, info, staged>>

CreateReadies(p) ==
  /\ Go(p, "copied", "readied")
  /\ SetManifest("ready")
  /\ UNCHANGED <<image, lock, locals>>

\* An error once the manifest was begun: complete(), with the locks still held.
CreateFails(p) ==
  /\ pc[p] \in {"announce", "announced", "copy", "copying", "copied", "readied"}
  /\ pc' = [pc EXCEPT ![p] = "complete"]
  /\ at' = [at EXCEPT ![p] = 1]
  /\ UNCHANGED <<image, lock, ckpt, history, opened, info, staged>>

\* _prepare_mutation checks the identity once more before the image is handed over.
SessionLive(p) ==
  /\ Go(p, "created", "live")
  /\ SameFile(p)
  /\ armed' = "yes"
  /\ UNCHANGED <<image, lock, ckpt, aged, locals>>

SessionWrite(p) ==
  /\ pc[p] = "live"
  /\ content' = [content EXCEPT ![opened[p][Data]] = "bad"]
  /\ UNCHANGED <<path, pathD, lock, ckpt, history, pc, locals>>

\* Synced and validated: what the image holds is accepted.  The handles are
\* closed before the checkpoint is completed.
SessionCloseClean(p) ==
  /\ Go(p, "live", "complete")
  /\ content' = [content EXCEPT ![opened[p][Data]] = "good"]
  /\ lock' = [i \in Inodes |-> IF lock[i] = p THEN Nobody ELSE lock[i]]
  /\ UNCHANGED <<path, pathD, ckpt, history, locals>>

\* A failed session, or one whose image was replaced: the checkpoint is retained.
SessionCloseUnclean(p) ==
  /\ pc[p] \in {"created", "live"}
  /\ Quit(p)
  /\ UNCHANGED <<image, ckpt, history>>

-----------------------------------------------------------------------------
(* complete(): the manifest, then the backups, then the directory           *)

UnlinkManifest(p) ==
  /\ Go(p, "complete", "unlinked")
  /\ SetManifest("none")
  /\ UNCHANGED <<image, lock, locals>>

MutantSyncUnlink == UNCHANGED ckpt

\* The removal of the manifest is durable before a backup goes.
SyncUnlink == FsyncDirectory

SyncManifest(p) ==
  /\ Go(p, "unlinked", "unlink")
  /\ SyncUnlink
  /\ UNCHANGED <<image, lock, history, locals>>

UnlinkBackup(p) ==
  /\ Go(p, "unlink", IF at[p] < Len(Files) THEN "unlink" ELSE "gone")
  /\ SetBackup(Files[at[p]], "none")
  /\ at' = [at EXCEPT ![p] = NextMember(p)]
  /\ UNCHANGED <<image, lock, armed, opened, info, staged>>

CompleteEnds(p) ==
  /\ Go(p, "gone", "emptied")
  /\ FsyncDirectory
  /\ UNCHANGED <<image, lock, history, locals>>

CompleteRemoves(p) ==
  /\ pc[p] = "emptied"
  /\ RemoveDirectory
  /\ Quit(p)
  /\ UNCHANGED image

-----------------------------------------------------------------------------
(* recover_image                                                            *)

RecoverReads(p) ==
  /\ p \in Recoverers /\ Go(p, "idle", "informed")
  /\ man # "none"
  /\ info' = [info EXCEPT ![p] = man]
  /\ UNCHANGED <<image, lock, ckpt, history, at, opened, staged>>

RecoverOpens(p) ==
  /\ Go(p, "informed", "ropened")
  /\ OpensPath(p)
  /\ UNCHANGED <<image, lock, ckpt, history, at, info, staged>>

\* The locked inodes are not compared with the paths again.
RecoverLocks(p) ==
  /\ Go(p, "ropened", "recover")
  /\ Free(p) /\ TakeLocks(p)
  /\ UNCHANGED <<image, ckpt, history, locals>>

\* --discard: the user accepts the current image.  Nothing of it is synced, so an
\* earlier file the paths may fall back to is accepted with it.
Discard(p) ==
  /\ Go(p, "recover", "complete")
  /\ content' = [i \in Inodes |-> IF i \in Handles(p) \cup {pathD[m] : m \in Members}
                                  THEN "good" ELSE content[i]]
  /\ UNCHANGED <<path, pathD, lock, ckpt, history, locals>>

MutantMayRestore(p) == TRUE

MayRestore(p) == info[p] = "ready"

\* --restore: every member is staged, whole and synced, before any is replaced.
Stage(p) ==
  /\ Go(p, "recover", "replace")
  /\ MayRestore(p)
  /\ \A m \in Members : bak[m] # "none"
  /\ staged' = [staged EXCEPT ![p] = bak]
  /\ at' = [at EXCEPT ![p] = Len(Files)]
  /\ UNCHANGED <<image, lock, ckpt, history, opened, info>>

\* Locked elsewhere, checkpoint incomplete, backup missing, or cancelled.
RecoverRefused(p) ==
  /\ pc[p] \in {"ropened", "recover"} \/ (pc[p] = "replace" /\ at[p] = Len(Files))
  /\ Quit(p)
  /\ UNCHANGED <<image, ckpt, history>>

Unused ==
  Inodes \ ({path[m] : m \in Members} \cup {pathD[m] : m \in Members}
            \cup UNION {Handles(p) : p \in Procs})

\* The descriptor first and the data last; each is synced before the next.
Replace(p) ==
  LET m == Files[at[p]] IN
    /\ Go(p, "replace", "replaced")
    /\ \E i \in Unused :
         /\ \A j \in Unused : i <= j
         /\ path' = [path EXCEPT ![m] = i]
         /\ content' = [content EXCEPT ![i] = staged[p][m]]
    /\ UNCHANGED <<pathD, lock, ckpt, history, locals>>

MutantSyncTarget(m) == pathD

SyncTarget(m) == [pathD EXCEPT ![m] = path[m]]

ReplaceSyncs(p) ==
  /\ Go(p, "replaced", IF at[p] > 1 THEN "replace" ELSE "complete")
  /\ pathD' = SyncTarget(Files[at[p]])
  /\ at' = [at EXCEPT ![p] = IF @ > 1 THEN @ - 1 ELSE 1]
  /\ UNCHANGED <<path, content, lock, ckpt, history, opened, info, staged>>

-----------------------------------------------------------------------------
(* _cleanup_orphan_checkpoints                                              *)

\* _ORPHAN_CHECKPOINT_FILES: the backup of a standalone image is not among them.
OrphanFiles == {"dat", "dsc"}

\* An aged directory without a manifest: its entries are listed, to be unlinked.
SweepFinds(p) ==
  /\ p \in Sweepers /\ Go(p, "idle", "sweep")
  /\ dir /\ man = "none" /\ aged
  /\ \A m \in Members : bak[m] # "none" => m \in OrphanFiles
  /\ staged' = [staged EXCEPT ![p] = bak]
  /\ UNCHANGED <<image, lock, ckpt, history, at, opened, info>>

\* iterdir lists in any order; the manifest is not looked for again.
SweepUnlinks(p) ==
  /\ pc[p] = "sweep"
  /\ \E m \in Members :
       /\ staged[p][m] # "none" /\ bak[m] # "none"
       /\ SetBackup(m, "none")
       /\ staged' = [staged EXCEPT ![p][m] = "none"]
  /\ UNCHANGED <<image, lock, armed, pc, at, opened, info>>

\* Everything listed is gone and the directory is removed, or an entry was gone already.
SweepEnds(p) ==
  /\ pc[p] = "sweep"
  /\ \/ staged[p] = NoBackups /\ RemoveDirectory
     \/ /\ \E m \in Members : staged[p][m] # "none" /\ bak[m] = "none"
        /\ UNCHANGED <<ckpt, history>>
  /\ Quit(p)
  /\ UNCHANGED image

\* Over the retention period the kernel has long written everything back.
TimePasses ==
  /\ Sweepers # {} /\ dir /\ ~aged
  /\ aged' = TRUE
  /\ manD' = man /\ bakD' = bak /\ dirD' = TRUE /\ past' = NoPast /\ pathD' = path
  /\ UNCHANGED <<path, content, lock, man, bak, dir, armed, pc, locals>>

-----------------------------------------------------------------------------
(* Failures                                                                 *)

\* The process dies; the kernel drops its locks and keeps every file change.
Crash(p) ==
  /\ pc[p] # "idle"
  /\ Quit(p)
  /\ UNCHANGED <<image, ckpt, history>>

\* The entries a power loss may leave: of each, the last one or the durable one.
Left(f, d) ==
  {g \in [Members -> {f[m] : m \in Members} \cup {d[m] : m \in Members}] :
     \A m \in Members : g[m] \in {f[m], d[m]}}

\* The directory is the present one, or what its durable entry named before.
PowerLoss ==
  /\ pc' = [p \in Procs |-> "idle"]
  /\ lock' = [i \in Inodes |-> Nobody]
  /\ at' = [p \in Procs |-> 1]
  /\ opened' = [p \in Procs |-> NoInodes]
  /\ info' = [p \in Procs |-> "none"]
  /\ staged' = [p \in Procs |-> NoBackups]
  /\ \/ dir' = dir /\ man' \in {man, manD} /\ bak' \in Left(bak, bakD)
     \/ /\ ~dirD /\ past.there /\ dir' = TRUE
        /\ man' \in {"none", past.man} /\ bak' \in Left(NoBackups, past.bak)
     \/ ~dirD /\ dir' = FALSE /\ man' = "none" /\ bak' = NoBackups
  /\ manD' = man' /\ bakD' = bak' /\ dirD' = dir' /\ past' = NoPast
  /\ path' \in Left(path, pathD) /\ pathD' = path'
  /\ UNCHANGED <<content, history>>

-----------------------------------------------------------------------------
Session(p) ==
  \/ SessionOpen(p) \/ SessionLock(p) \/ SessionRefused(p)
  \/ MakeDirectory(p) \/ CreateClears(p) \/ CreateSyncs(p) \/ CreateAnnounces(p) \/ CopyBegins(p)
  \/ CopyEnds(p) \/ CreateReadies(p) \/ CreateFails(p)
  \/ SessionLive(p) \/ SessionWrite(p) \/ SessionCloseClean(p) \/ SessionCloseUnclean(p)

Complete(p) ==
  \/ UnlinkManifest(p) \/ SyncManifest(p) \/ UnlinkBackup(p) \/ CompleteEnds(p)
  \/ CompleteRemoves(p)

Recover(p) ==
  \/ RecoverReads(p) \/ RecoverOpens(p) \/ RecoverLocks(p) \/ Discard(p) \/ Stage(p)
  \/ RecoverRefused(p) \/ Replace(p) \/ ReplaceSyncs(p)

Sweep(p) == SweepFinds(p) \/ SweepUnlinks(p) \/ SweepEnds(p)

Next ==
  \/ \E p \in Procs : Session(p) \/ Complete(p) \/ Recover(p) \/ Sweep(p) \/ Crash(p)
  \/ TimePasses \/ PowerLoss

Spec == Init /\ [][Next]_vars

-----------------------------------------------------------------------------
(* The processes that work without a lock: what complete, recover and the      *)
(* sweep do there is safe only while nobody else is at work.                   *)

\* The process is past opening the image.
Working(p) == pc[p] \notin {"idle", "opened"}

\* At work on the image or its checkpoint without a lock of a file the image's paths name.
Unguarded(p) ==
  \/ pc[p] \in {"complete", "unlinked", "unlink", "gone", "emptied", "informed", "ropened",
               "sweep"}
  \/ pc[p] = "replaced" /\ at[p] = 1

\* Where the locks do not reach, nobody else is at work.
NoneWorksBeside == \A p, q \in Procs : Unguarded(p) /\ Working(q) => p = q

-----------------------------------------------------------------------------
Contents == {"good", "bad", "partial"}

ProcStates ==
  {"idle", "opened", "check", "made", "cleared", "announce", "announced", "copy", "copying",
   "copied", "readied", "created", "live", "complete", "unlinked", "unlink", "gone", "emptied",
   "informed", "ropened", "recover", "replace", "replaced", "sweep"}

Manifests == {"none", "creating", "ready"}
Pasts == [there : BOOLEAN, man : Manifests, bak : [Members -> Contents \cup {"none"}]]

\* Type invariant of the checkpoint directory, the image's paths and the processes.
TypeOK ==
  /\ path \in [Members -> Inodes] /\ pathD \in [Members -> Inodes]
  /\ content \in [Inodes -> Contents]
  /\ lock \in [Inodes -> Procs \cup {Nobody}]
  /\ man \in Manifests /\ manD \in Manifests
  /\ bak \in [Members -> Contents \cup {"none"}]
  /\ bakD \in [Members -> Contents \cup {"none"}]
  /\ dir \in BOOLEAN /\ dirD \in BOOLEAN /\ past \in Pasts
  /\ aged \in BOOLEAN /\ armed \in {"no", "yes", "cleared"}
  /\ pc \in [Procs -> ProcStates] /\ at \in [Procs -> 1 .. Len(Files)]
  /\ opened \in [Procs -> [Members -> Inodes \cup {0}]]
  /\ info \in [Procs -> Manifests]
  /\ staged \in [Procs -> [Members -> Contents \cup {"none"}]]

ImageGood == \A m \in Members : content[path[m]] = "good"

Restorable == man = "ready" /\ \A m \in Members : bak[m] = "good"

\* "retains a persistent pre-session checkpoint until clean validation and unmount"
\* (docs/architecture.md): an image that holds anything but a state accepted by a clean
\* close or by the user can be restored: whatever crashed or lost power, and whenever,
\* a ready manifest and a whole backup of every member are there.  It needs a file
\* system with SyncReachesEntry; on another one a power loss may take the directory.
AlwaysRecoverable == ImageGood \/ Restorable

\* A session that may be writing has its checkpoint, from before its first write.
LiveIsProtected == \A p \in Procs : pc[p] = "live" => Restorable

\* "the recovery command locks every image member" (docs/damaged-images.md) and a session
\* the files it opened: a session that may write holds the lock of the file its path
\* names, whatever one recover has put there meanwhile (open_locked_handle,
\* _prepare_mutation).  With two recovers at a time it does not hold: the second may have
\* opened, and then lock, the file that the first replaces.
LiveOwnsImage ==
  \A p \in Procs : pc[p] = "live" => SameFile(p) /\ \A m \in Members : lock[path[m]] = p

\* "The interrupted checkpoint was not completed and cannot be restored.": recover
\* never publishes an incomplete copy of a member.
NothingHalfPublished == \A m \in Members : content[path[m]] # "partial"

\* What complete's order is for: once a checkpoint has protected a session, and until a
\* later create begins to clear what is left of it, a ready manifest, present or brought
\* back by a power loss, never outlives a backup.  Across that create it does not hold: see
\* DeletedBackupsAreNotAdvertised.
AdvertisedBackupsExist == armed = "yes" /\ man = "ready" => \A m \in Members : bak[m] # "none"

\* complete: "Remove and sync it first so a crash cannot advertise already-deleted backup
\* images.", create: "They are not authoritative": the same across the next create, which
\* unlinks the backups although nothing has synced the removal of the manifest.
DeletedBackupsAreNotAdvertised ==
  armed # "no" /\ man = "ready" => \A m \in Members : bak[m] # "none"
=============================================================================
