----------------------------- MODULE HfeContainer -----------------------------
(***************************************************************************)
(* Sessions on one HFE container (core/hfe.py, and its part of               *)
(* core/image.py).  A session decodes the container into a private workspace  *)
(* under a lock that it gives up before the slow conversion, opens and locks  *)
(* the container again, works in the workspace, and in the end replaces the   *)
(* container by a newly encoded file.                                        *)
(*                                                                          *)
(* Locks are on the file, and a replacement is another file.  Sessions are   *)
(* processes that may be killed; other programs, which know nothing of the   *)
(* locks, may write the file or put another at its path.  A checkpoint is    *)
(* made and removed in one step here: Recovery.tla takes those apart.        *)
(***************************************************************************)
EXTENDS Naturals

CONSTANTS
  Sessions,   \* processes; each runs one session
  NoSession,  \* no checkpoint
  MaxOutside  \* bound: changes by other programs

ASSUME HfeAssumption == NoSession \notin Sessions /\ MaxOutside \in Nat

VARIABLES
  box,       \* the file at the path: its inode, its time stamp, which counts the
             \* changes by other programs, and the sessions whose edits it has
  owner,     \* the session whose checkpoint is pending
  backup,    \* the edits in that checkpoint
  hpc,       \* session: where it is
  hrw,       \* session: it is to be writable
  held,      \* session: the inode it has locked, or 0
  sourceSig, \* session: the signature of what it decoded
  work,      \* session: the edits in its workspace
  expected,  \* session: the signature it expects
  kept       \* history: sessions whose edits were saved, undisturbed by other programs

checkpointVars == <<owner, backup>>
sessionVars == <<hpc, hrw, held, sourceSig, work, expected, kept>>
hfeVars == <<box, checkpointVars, sessionVars>>

SigOf(inode, stamp) == [inode |-> inode, stamp |-> stamp]

BoxSig == SigOf(box.inode, box.stamp)

HfeInit ==
  /\ box = [inode |-> 1, stamp |-> 0, edits |-> {}]
  /\ owner = NoSession /\ backup = {}
  /\ hpc = [s \in Sessions |-> "idle"]
  /\ hrw \in [Sessions -> BOOLEAN]
  /\ held = [s \in Sessions |-> 0]
  /\ sourceSig = [s \in Sessions |-> SigOf(0, 0)]
  /\ work = [s \in Sessions |-> {}]
  /\ expected = [s \in Sessions |-> SigOf(0, 0)]
  /\ kept = {}

To(s, pc) == hpc' = [hpc EXCEPT ![s] = pc]

\* The session is over and its locks are gone.
Over(s) == To(s, "over") /\ held' = [held EXCEPT ![s] = 0]

\* A decoding has a shared lock, a session the one of its mode.
Exclusive(s) == hrw[s] /\ hpc[s] # "copying"

Lockable(s, exclusive) ==
  \A r \in Sessions \ {s} : held[r] = box.inode => ~exclusive /\ ~Exclusive(r)

-----------------------------------------------------------------------------
(* decode_hfe                                                               *)

DecodeLocks(s) ==
  /\ hpc[s] = "idle"
  /\ \/ /\ Lockable(s, FALSE) /\ To(s, "copying")
        /\ held' = [held EXCEPT ![s] = box.inode]
        /\ sourceSig' = [sourceSig EXCEPT ![s] = BoxSig]
     \/ ~Lockable(s, FALSE) /\ Over(s) /\ sourceSig' = sourceSig
  /\ UNCHANGED <<box, checkpointVars, hrw, work, expected, kept>>

\* The copy is good if path and file are what they were; the lock is released.
DecodeCopies(s) ==
  /\ hpc[s] = "copying"
  /\ IF BoxSig = sourceSig[s]
     THEN To(s, "decoded") /\ held' = [held EXCEPT ![s] = 0]
          /\ work' = [work EXCEPT ![s] = box.edits]
     ELSE Over(s) /\ work' = work
  /\ UNCHANGED <<box, checkpointVars, hrw, sourceSig, expected, kept>>

-----------------------------------------------------------------------------
(* ReadOnlyImage.open                                                       *)

MutantSameSource(s) == TRUE

SameSource(s) == sourceSig[s] = BoxSig

\* The conversion may have failed; open_locked_handle, and the signature.
OpenContainer(s) ==
  /\ hpc[s] = "decoded"
  /\ \/ /\ Lockable(s, hrw[s]) /\ SameSource(s)
        /\ To(s, "opened") /\ held' = [held EXCEPT ![s] = box.inode]
     \/ Over(s)
  /\ UNCHANGED <<box, checkpointVars, hrw, sourceSig, work, expected, kept>>

\* _current_signature: the inode at the path, the stamps of the open file.
CurrentSig(s) == SigOf(box.inode, IF held[s] = box.inode THEN box.stamp ELSE 0)

\* ReadOnlyImage.__init__, once the workspace has been validated.
IndexContainer(s) ==
  /\ hpc[s] = "opened"
  /\ \/ /\ To(s, IF hrw[s] THEN "indexed" ELSE "serving")
        /\ expected' = [expected EXCEPT ![s] = IF hrw[s] THEN CurrentSig(s) ELSE @]
        /\ held' = held
     \/ Over(s) /\ expected' = expected
  /\ UNCHANGED <<box, checkpointVars, hrw, sourceSig, work, kept>>

\* What the locked file has, at the path or not.
LockedEdits(s) == IF held[s] = box.inode THEN box.edits ELSE work[s]

\* SingleImageCheckpoint.create copies the locked file, and _prepare_mutation looks
\* once more; a checkpoint that is there by then stays.
CheckpointContainer(s) ==
  /\ hpc[s] = "indexed"
  /\ \/ /\ owner = NoSession
        /\ owner' = s /\ backup' = LockedEdits(s)
        /\ \/ CurrentSig(s) = expected[s] /\ To(s, "serving") /\ held' = held
           \/ CurrentSig(s) # expected[s] /\ Over(s)
     \/ Over(s) /\ UNCHANGED checkpointVars
  /\ UNCHANGED <<box, hrw, sourceSig, work, expected, kept>>

-----------------------------------------------------------------------------
(* The session, and its close                                               *)

\* Each mutation compares the signature first and takes it again when it syncs.
EditContainer(s) ==
  /\ hpc[s] = "serving" /\ hrw[s]
  /\ IF CurrentSig(s) = expected[s]
     THEN s \notin work[s] /\ work' = [work EXCEPT ![s] = @ \cup {s}] /\ hpc' = hpc
     ELSE work' = work /\ To(s, "failed")
  /\ UNCHANGED <<box, checkpointVars, hrw, held, sourceSig, expected, kept>>

\* close() syncs, which takes the signature, and validates.
CloseContainer(s) ==
  /\ hpc[s] \in {"serving", "failed"}
  /\ \/ /\ hpc[s] = "serving" /\ hrw[s] /\ To(s, "validated")
        /\ expected' = [expected EXCEPT ![s] = CurrentSig(s)] /\ held' = held
     \/ Over(s) /\ expected' = expected
  /\ UNCHANGED <<box, checkpointVars, hrw, sourceSig, work, kept>>

CompareContainer(s) ==
  /\ hpc[s] = "validated"
  /\ IF CurrentSig(s) = expected[s] THEN To(s, "encoding") /\ held' = held ELSE Over(s)
  /\ UNCHANGED <<box, checkpointVars, hrw, sourceSig, work, expected, kept>>

\* HFEWorkspace.export: encoded under a name of its own, synced, and put at the path
\* by os.replace; until then every failure leaves the container.
ReplaceContainer(s) ==
  /\ hpc[s] = "encoding"
  /\ \/ /\ box' = [box EXCEPT !.inode = @ + 1, !.edits = work[s]]
        /\ \/ To(s, "replaced") /\ held' = held
           \/ Over(s)
     \/ box' = box /\ Over(s)
  /\ UNCHANGED <<checkpointVars, hrw, sourceSig, work, expected, kept>>

ReleaseContainer(s) ==
  /\ hpc[s] = "replaced" /\ To(s, "released")
  /\ held' = [held EXCEPT ![s] = 0]
  /\ UNCHANGED <<box, checkpointVars, hrw, sourceSig, work, expected, kept>>

\* No session runs on a file that another program has changed since, or on one that is
\* not at the path any more.
Undisturbed ==
  \A s \in Sessions : hpc[s] \notin {"idle", "over"} =>
    sourceSig[s].stamp = box.stamp /\ held[s] \in {0, box.inode}

\* The user hears that all is saved.
CompleteContainer(s) ==
  /\ hpc[s] = "released" /\ Over(s)
  /\ owner' = NoSession /\ backup' = {}
  /\ kept' = IF Undisturbed THEN kept \cup ({s} \cap work[s]) ELSE kept
  /\ UNCHANGED <<box, hrw, sourceSig, work, expected>>

KilledSession(s) ==
  /\ hpc[s] \notin {"idle", "over"} /\ Over(s)
  /\ UNCHANGED <<box, checkpointVars, hrw, sourceSig, work, expected, kept>>

-----------------------------------------------------------------------------
\* Another program writes the file, or puts its own at the path.
OutsideChange ==
  /\ box.stamp < MaxOutside
  /\ \E inode \in {box.inode, box.inode + 1} :
       box' = [inode |-> inode, stamp |-> box.stamp + 1, edits |-> {}]
  /\ kept' = {}
  /\ UNCHANGED <<checkpointVars, hpc, hrw, held, sourceSig, work, expected>>

\* The user restores or discards the checkpoint of a session that has ended, with an
\* exclusive lock.
ResolveCheckpoint ==
  /\ owner # NoSession /\ \A s \in Sessions : hrw[s] => hpc[s] \in {"idle", "over"}
  /\ \A s \in Sessions : held[s] # box.inode
  /\ owner' = NoSession /\ backup' = {}
  /\ box' \in {box, [box EXCEPT !.inode = @ + 1, !.edits = backup]}
  /\ UNCHANGED sessionVars

HfeNext ==
  \/ \E s \in Sessions :
       \/ DecodeLocks(s) \/ DecodeCopies(s) \/ OpenContainer(s) \/ IndexContainer(s)
       \/ CheckpointContainer(s) \/ EditContainer(s) \/ CloseContainer(s)
       \/ CompareContainer(s) \/ ReplaceContainer(s) \/ ReleaseContainer(s)
       \/ CompleteContainer(s) \/ KilledSession(s)
  \/ OutsideChange \/ ResolveCheckpoint

HfeSpec == HfeInit /\ [][HfeNext]_hfeVars

-----------------------------------------------------------------------------
Sigs == [inode : Nat, stamp : Nat]

\* Type invariant of the container, its checkpoint and the sessions.
HfeTypeOK ==
  /\ box \in [inode : Nat \ {0}, stamp : 0 .. MaxOutside, edits : SUBSET Sessions]
  /\ owner \in Sessions \cup {NoSession} /\ backup \in SUBSET Sessions
  /\ hpc \in [Sessions -> {"idle", "copying", "decoded", "opened", "indexed", "serving",
                            "failed", "validated", "encoding", "replaced", "released",
                            "over"}]
  /\ hrw \in [Sessions -> BOOLEAN]
  /\ held \in [Sessions -> Nat]
  /\ sourceSig \in [Sessions -> Sigs] /\ expected \in [Sessions -> Sigs]
  /\ work \in [Sessions -> SUBSET Sessions]
  /\ kept \in SUBSET Sessions

\* The edits of every session that ended clean, with no session on a file that another
\* program had changed or that was gone from the path, are in the container, and in the
\* checkpoint that would be restored, until another program changes it: no session
\* works on from what it decoded before another one replaced the file, although no lock
\* is held during the conversion (image.py, hfe.py).
SavedEditsAreKept ==
  kept \subseteq box.edits /\ (owner # NoSession => kept \subseteq backup)
=============================================================================
