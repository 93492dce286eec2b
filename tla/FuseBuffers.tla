----------------------------- MODULE FuseBuffers -----------------------------
(***************************************************************************)
(* The writable FUSE adapter: one shared buffer per inode, dirty inodes,    *)
(* coalesced extended attributes, handles, and the flush the runner makes   *)
(* when the loop stops (fuse_adapter/operations.py, fuse_adapter/runner.py).*)
(*                                                                          *)
(* pyfuse3 serves requests from one trio task and no handler awaits, so a   *)
(* handler is one action.  File contents are abstracted to values and the   *)
(* tree to one directory; an image call is atomic (AtomicImage): it takes   *)
(* effect, is refused with nothing changed, or is refused and fails the     *)
(* session, after which what the image holds is promised by nobody.         *)
(***************************************************************************)
EXTENDS Integers, FiniteSets

CONSTANTS
  Names,     \* names in the directory
  Values,    \* file contents
  Loads,     \* load addresses that setxattr may give
  Empty,     \* the contents of a new file
  Fhs,       \* handle slots; the code numbers handles and never reuses one
  Unset,     \* absent name, buffer, node or attribute
  Failures,  \* how an image call may fail: "refused", "fatal", both or neither
  AheadLimit, \* how many prefetched extents the read-ahead budget holds at most
  MaxInode   \* bound: inode numbers 2 .. MaxInode

ASSUME FuseAssumption ==
  /\ Empty \in Values
  /\ Unset \notin Values \cup Loads \cup BOOLEAN
  /\ Failures \subseteq {"refused", "fatal"}
  /\ IsFiniteSet(Fhs)
  /\ AheadLimit \in Nat
  /\ MaxInode \in Nat \ {0, 1}

Root == 1
Inodes == 2 .. MaxInode

VARIABLES
  entry,    \* image: name -> inode
  node,     \* image: inode -> what a commit has stored for it
  nextIno,  \* image: next inode number; numbers are not reused
  failed,   \* image._failed
  handles,  \* self._handles: slot -> inode
  held,     \* slots the kernel has not released
  wr,       \* slots the kernel opened for writing
  ahead,    \* slot -> read-ahead still to be served
  buf,      \* self._write_buffers
  dirty,    \* self._dirty
  pending,  \* self._metadata_updates
  phase,    \* "serving", "flushing" or "stopped"
  result,   \* how the mount ended: "none", "clean", "retained", or "aborted" by the loop
  latest    \* history: what the last accepted write or setxattr left in each inode

imageVars == <<entry, node, nextIno>>
handleVars == <<handles, held, wr>>
vars == <<imageVars, failed, handleVars, ahead, buf, dirty, pending, phase, result, latest>>

NoUpdate == [load |-> Unset, locked |-> Unset]

MutantNewNode(dir) == [dir |-> dir, data |-> Unset, load |-> Unset, locked |-> FALSE]

NewNode(dir) == [dir |-> dir, data |-> Empty, load |-> Unset, locked |-> FALSE]

Nodes == [dir : BOOLEAN, data : Values, load : Loads \cup {Unset}, locked : BOOLEAN]

Updates == [load : Loads \cup {Unset}, locked : BOOLEAN \cup {Unset}]

ASSUME UnsetAssumption == Unset \notin Inodes \cup Nodes

Live == {i \in Inodes : node[i] # Unset}

Opened(i) == \E fh \in Fhs : handles[fh] = i

\* _node_locked
NodeLocked(i) == IF pending[i].locked # Unset THEN pending[i].locked ELSE node[i].locked

\* The fields an update sets replace the stored ones.
Updated(n, u) ==
  [n EXCEPT !.load = IF u.load # Unset THEN u.load ELSE @,
            !.locked = IF u.locked # Unset THEN u.locked ELSE @]

\* How an image call on inode i may end.  A dead inode or the root raises before
\* the transaction starts, and a failed session refuses everything.  What Oaknut
\* refuses (a full disc, a locked entry) is among the Failures.
Outcomes(i) ==
  IF failed \/ i \notin Live THEN {"refused"} ELSE {"ok"} \cup Failures

\* What the calls made by one handler do to the session.
Note(outcomes) == failed' = (failed \/ "fatal" \in outcomes)

Serving == phase = "serving"

-----------------------------------------------------------------------------
Init ==
  /\ \E n \in Names : entry = [m \in Names |-> IF m = n THEN 2 ELSE Unset]
  /\ node = [i \in Inodes |-> IF i = 2 THEN NewNode(FALSE) ELSE Unset]
  /\ nextIno = 3
  /\ failed = FALSE
  /\ handles = [fh \in Fhs |-> Unset] /\ held = {} /\ wr = {}
  /\ ahead = [fh \in Fhs |-> Unset]
  /\ buf = [i \in Inodes |-> Unset] /\ dirty = {}
  /\ pending = [i \in Inodes \cup {Root} |-> NoUpdate]
  /\ phase = "serving" /\ result = "none"
  /\ latest = [i \in Inodes |-> NewNode(FALSE)]

-----------------------------------------------------------------------------
(* Handles                                                                  *)

NewHandle(fh, i, write) ==
  /\ handles[fh] = Unset
  /\ handles' = [handles EXCEPT ![fh] = i]
  /\ held' = held \cup {fh}
  /\ wr' = IF write THEN wr \cup {fh} ELSE wr \ {fh}

\* _write_buffer: the inode's buffer, read from the image if there is none.
Loaded(i) == IF buf[i] = Unset THEN node[i].data ELSE buf[i]

\* _clear_read_ahead and _clear_inode_read_ahead.
AheadWithoutHandle(fh) == [ahead EXCEPT ![fh] = Unset]
AheadWithoutInode(i) == [fh \in Fhs |-> IF handles[fh] = i THEN Unset ELSE ahead[fh]]

MutantAheadOnceLoaded(i) == ahead

\* A buffer that _write_buffer creates ends the read-ahead of every handle on the inode.
AheadOnceLoaded(i) == IF buf[i] = Unset THEN AheadWithoutInode(i) ELSE ahead

Prefetched(a) == {fh \in Fhs : a[fh] # Unset}

\* _store_read_ahead: others make room.  The budget counts bytes, so which of them and
\* how many depends on their lengths and on the order of use, which are left out.
AheadStored(fh, v, evicted) ==
  [g \in Fhs |-> IF g = fh THEN v ELSE IF g \in evicted THEN Unset ELSE ahead[g]]

OpenRead(fh, i) ==
  /\ Serving /\ i \in Live /\ ~node[i].dir
  /\ NewHandle(fh, i, FALSE)
  /\ UNCHANGED <<imageVars, failed, ahead, buf, dirty, pending, phase, result, latest>>

OpenWrite(fh, i, trunc) ==
  /\ Serving /\ i \in Live /\ ~node[i].dir /\ ~NodeLocked(i)
  /\ NewHandle(fh, i, TRUE)
  /\ ahead' = AheadOnceLoaded(i)
  /\ buf' = [buf EXCEPT ![i] = IF trunc THEN Empty ELSE Loaded(i)]
  /\ dirty' = IF trunc THEN dirty \cup {i} ELSE dirty
  /\ latest' = IF trunc THEN [latest EXCEPT ![i].data = Empty] ELSE latest
  /\ UNCHANGED <<imageVars, failed, pending, phase, result>>

\* A buffered inode is read from its buffer.  Otherwise a read is served from the
\* handle's read-ahead, in part or to its end, or from the image; a handle that
\* reads a large file in order has more fetched for it than it asked for.
Read(fh) ==
  /\ Serving /\ fh \in held
  /\ LET i == handles[fh] IN
       \/ ahead' = AheadWithoutHandle(fh)
       \/ /\ buf[i] = Unset
          /\ \/ ahead[fh] # Unset /\ ahead' = ahead
             \/ /\ \E evicted \in SUBSET Fhs : ahead' = AheadStored(fh, node[i].data, evicted)
                /\ Cardinality(Prefetched(ahead')) <= AheadLimit
  /\ UNCHANGED <<imageVars, failed, handleVars, buf, dirty, pending, phase, result, latest>>

\* A write that grows the file may be refused by preflight_file_size.
Write(fh, v, o) ==
  /\ Serving /\ fh \in held \cap wr
  /\ LET i == handles[fh] IN
       /\ buf[i] # Unset
       /\ ahead' = AheadWithoutInode(i)
       /\ o \in {"ok"} \cup Outcomes(i)
       /\ IF o = "ok"
          THEN /\ buf' = [buf EXCEPT ![i] = v]
               /\ dirty' = dirty \cup {i}
               /\ latest' = [latest EXCEPT ![i].data = v]
          ELSE UNCHANGED <<buf, dirty, latest>>
  /\ Note({o})
  /\ UNCHANGED <<imageVars, handleVars, pending, phase, result>>

-----------------------------------------------------------------------------
(* Commits                                                                  *)

\* Does _commit_buffer, and then _commit_metadata, store anything?
StoresData(i, o) == i \in dirty /\ o = "ok"
PassesData(i, o) == i \in dirty => o = "ok"
StoresMeta(i, o) == pending[i] # NoUpdate /\ o = "ok"
PassesMeta(i, o) == pending[i] # NoUpdate => o = "ok"

MutantStillDirty(i, o) == dirty \ {i}

\* _commit_buffer discards the inode once replace_file has returned.
StillDirty(i, o) == IF StoresData(i, o) THEN dirty \ {i} ELSE dirty

Stored(i, data, meta) ==
  LET n == IF data THEN [node[i] EXCEPT !.data = buf[i]] ELSE node[i]
  IN  IF meta THEN Updated(n, pending[i]) ELSE n

\* _flush_inode then _commit_metadata; an error in the first skips the second.
FlushInode(i, o1, o2) ==
  LET data == StoresData(i, o1)
      meta == PassesData(i, o1) /\ StoresMeta(i, o2)
  IN  /\ o1 \in (IF i \in dirty THEN Outcomes(i) ELSE {"ok"})
      /\ o2 \in (IF PassesData(i, o1) /\ pending[i] # NoUpdate THEN Outcomes(i) ELSE {"ok"})
      /\ node' = [node EXCEPT ![i] = Stored(i, data, meta)]
      /\ dirty' = StillDirty(i, o1)
      /\ pending' = IF meta THEN [pending EXCEPT ![i] = NoUpdate] ELSE pending
      /\ Note({o1, o2})

Flush(fh, o1, o2) ==
  /\ Serving /\ fh \in held
  /\ FlushInode(handles[fh], o1, o2)
  /\ UNCHANGED <<entry, nextIno, handleVars, ahead, buf, phase, result, latest>>

MutantReleaseEnds(i, o1, o2) == TRUE

ReleaseEnds(i, o1, o2) == PassesData(i, o1) /\ PassesMeta(i, o2)

\* release flushes first: when the flush raises, the slot and the buffer stay,
\* although the kernel will not name that handle again.
Release(fh, o1, o2) ==
  /\ Serving /\ fh \in held
  /\ held' = held \ {fh} /\ wr' = wr \ {fh}
  /\ LET i == handles[fh] IN
       /\ FlushInode(i, o1, o2)
       /\ IF ReleaseEnds(i, o1, o2)
          THEN /\ handles' = [handles EXCEPT ![fh] = Unset]
               /\ ahead' = AheadWithoutHandle(fh)
               /\ buf' = IF \E g \in Fhs \ {fh} : handles[g] = i
                         THEN buf ELSE [buf EXCEPT ![i] = Unset]
          ELSE UNCHANGED <<handles, ahead, buf>>
  /\ UNCHANGED <<entry, nextIno, phase, result, latest>>

MutantKeepBuffer(i) == FALSE

\* _commit_buffer keeps the buffer while a handle is open on the inode.
KeepBuffer(i) == Opened(i)

\* setattr with a size; owner says the request also changes uid or gid.
SetSize(i, v, owner, o1, o2) ==
  /\ Serving /\ i \in Live /\ ~node[i].dir
  /\ ahead' = AheadOnceLoaded(i)
  /\ o1 \in {"ok"} \cup Outcomes(i)
  /\ IF o1 # "ok"
     THEN /\ o2 = "ok" /\ Note({o1})
          /\ buf' = [buf EXCEPT ![i] = Loaded(i)]
          /\ UNCHANGED <<node, dirty, latest>>
     ELSE /\ latest' = [latest EXCEPT ![i].data = v]
          /\ \/ /\ owner /\ o2 = "ok" /\ Note({})
                /\ buf' = [buf EXCEPT ![i] = v] /\ dirty' = dirty \cup {i}
                /\ node' = node
             \/ /\ ~owner /\ o2 \in Outcomes(i) /\ Note({o2})
                /\ IF o2 = "ok"
                   THEN /\ node' = [node EXCEPT ![i].data = v]
                        /\ dirty' = dirty \ {i}
                        /\ buf' = [buf EXCEPT ![i] = IF KeepBuffer(i) THEN v ELSE Unset]
                   ELSE /\ buf' = [buf EXCEPT ![i] = v] /\ dirty' = dirty \cup {i}
                        /\ node' = node
  /\ UNCHANGED <<entry, nextIno, handleVars, pending, phase, result>>

\* setxattr coalesces into the inode's pending update.
SetXattr(i, u) ==
  /\ Serving /\ i \in Live \cup {Root}
  /\ pending' = [pending EXCEPT ![i] = Updated(@, u)]
  /\ latest' = IF i = Root THEN latest ELSE [latest EXCEPT ![i] = Updated(@, u)]
  /\ UNCHANGED <<imageVars, failed, handleVars, ahead, buf, dirty, phase, result>>

-----------------------------------------------------------------------------
(* Namespace                                                                *)

\* create_file or make_directory in the image.
Adds(name, dir, o) ==
  /\ Serving /\ entry[name] = Unset /\ nextIno \in Inodes
  /\ o \in (IF failed THEN {"refused"} ELSE {"ok"} \cup Failures)
  /\ Note({o})
  /\ IF o = "ok"
     THEN /\ entry' = [entry EXCEPT ![name] = nextIno]
          /\ node' = [node EXCEPT ![nextIno] = NewNode(dir)]
          /\ latest' = [latest EXCEPT ![nextIno] = NewNode(dir)]
          /\ nextIno' = nextIno + 1
     ELSE UNCHANGED <<imageVars, latest>>

Create(fh, name, o) ==
  /\ Adds(name, FALSE, o)
  /\ IF o = "ok"
     THEN NewHandle(fh, nextIno, TRUE) /\ buf' = [buf EXCEPT ![nextIno] = Empty]
     ELSE handles[fh] = Unset /\ UNCHANGED <<handleVars, buf>>
  /\ UNCHANGED <<ahead, dirty, pending, phase, result>>

Mkdir(name, o) ==
  /\ Adds(name, TRUE, o)
  /\ UNCHANGED <<handleVars, ahead, buf, dirty, pending, phase, result>>

\* _commit_metadata before the namespace call, whose outcome is o2.
CommitsFirst(i, o1, o2) ==
  /\ o1 \in (IF pending[i] # NoUpdate THEN Outcomes(i) ELSE {"ok"})
  /\ o2 \in (IF PassesMeta(i, o1) THEN Outcomes(i) ELSE {"ok"})
  /\ Note({o1, o2})
  /\ UNCHANGED <<nextIno, handleVars, ahead, dirty, phase, result>>

MutantMayRemove(i) == TRUE

\* EBUSY while any handle names the inode.
MayRemove(i) == ~Opened(i)

\* unlink, and rmdir for a directory (no handle is ever opened on one).
Remove(name, o1, o2) ==
  /\ Serving /\ entry[name] # Unset
  /\ LET i == entry[name] IN
       /\ MayRemove(i)
       /\ CommitsFirst(i, o1, o2)
       /\ IF PassesMeta(i, o1) /\ o2 = "ok"
          THEN /\ entry' = [entry EXCEPT ![name] = Unset]
               /\ node' = [node EXCEPT ![i] = Unset]
               /\ pending' = [pending EXCEPT ![i] = NoUpdate]
               /\ latest' = [latest EXCEPT ![i] = NewNode(FALSE)]
          ELSE /\ UNCHANGED <<entry, latest>>
               /\ node' = [node EXCEPT ![i] = Stored(i, FALSE, StoresMeta(i, o1))]
               /\ pending' = IF StoresMeta(i, o1) THEN [pending EXCEPT ![i] = NoUpdate]
                             ELSE pending
  /\ buf' = buf

\* image.rename: neither end may be locked, and a file cannot replace a directory.
RenameAllowed(i, j, locked) ==
  /\ ~locked
  /\ j # Unset => ~node[j].locked /\ node[j].dir = node[i].dir

\* The source's pending attributes are committed first.  A replaced destination
\* goes from the image; its own pending state is not looked at.
Rename(old, new, o1, o2) ==
  /\ Serving /\ entry[old] # Unset /\ old # new
  /\ LET i == entry[old]
         j == entry[new]
         stored == Stored(i, FALSE, StoresMeta(i, o1))
     IN
       /\ j # Unset => MayRemove(j)
       /\ CommitsFirst(i, o1, o2)
       /\ PassesMeta(i, o1) /\ ~RenameAllowed(i, j, stored.locked) => o2 # "ok"
       /\ pending' = IF StoresMeta(i, o1) THEN [pending EXCEPT ![i] = NoUpdate] ELSE pending
       /\ IF PassesMeta(i, o1) /\ o2 = "ok"
          THEN /\ entry' = [entry EXCEPT ![old] = Unset, ![new] = i]
               /\ node' = [k \in Inodes |-> CASE k = i -> stored
                                              [] k = j -> Unset
                                              [] OTHER -> node[k]]
               /\ latest' = [k \in Inodes |-> IF k = j THEN NewNode(FALSE) ELSE latest[k]]
          ELSE /\ node' = [node EXCEPT ![i] = stored]
               /\ UNCHANGED <<entry, latest>>
  /\ buf' = buf

-----------------------------------------------------------------------------
(* The end of the loop: runner.mount_image                                  *)

\* Unmounted, or interrupted: flush_pending runs next.
StopLoop ==
  /\ Serving
  /\ phase' = "flushing"
  /\ UNCHANGED <<imageVars, failed, handleVars, ahead, buf, dirty, pending, result, latest>>

\* The loop raised: nothing is flushed and the image is closed unclean.
LoopRaises ==
  /\ Serving
  /\ phase' = "stopped" /\ result' = "aborted"
  /\ UNCHANGED <<imageVars, failed, handleVars, ahead, buf, dirty, pending, latest>>

Least(S) == CHOOSE i \in S : \A j \in S : i <= j

PendingMeta == {i \in Inodes \cup {Root} : pending[i] # NoUpdate}

MutantAfterFlushError == "flushing"

\* The first error leaves flush_pending.
AfterFlushError == "stopped"

\* flush_pending: the dirty inodes in order.
FlushNextBuffer(o) ==
  /\ phase = "flushing" /\ dirty # {}
  /\ LET i == Least(dirty) IN
       /\ o \in Outcomes(i) /\ Note({o})
       /\ IF o = "ok"
          THEN /\ node' = [node EXCEPT ![i] = Stored(i, TRUE, FALSE)]
               /\ dirty' = dirty \ {i}
               /\ buf' = [buf EXCEPT ![i] = IF KeepBuffer(i) THEN @ ELSE Unset]
               /\ UNCHANGED <<phase, result>>
          ELSE /\ phase' = AfterFlushError /\ result' = "retained"
               /\ UNCHANGED <<node, dirty, buf>>
  /\ UNCHANGED <<entry, nextIno, handleVars, ahead, pending, latest>>

MutantBuffersFlushed == TRUE

BuffersFlushed == dirty = {}

FlushNextMetadata(o) ==
  /\ phase = "flushing" /\ BuffersFlushed /\ PendingMeta # {}
  /\ LET i == Least(PendingMeta) IN
       /\ o \in Outcomes(i) /\ Note({o})
       /\ IF o = "ok"
          THEN /\ node' = [node EXCEPT ![i] = Stored(i, FALSE, TRUE)]
               /\ pending' = [pending EXCEPT ![i] = NoUpdate]
               /\ UNCHANGED <<phase, result>>
          ELSE /\ phase' = AfterFlushError /\ result' = "retained"
               /\ UNCHANGED <<node, pending>>
  /\ UNCHANGED <<entry, nextIno, handleVars, ahead, buf, dirty, latest>>

\* Everything is flushed; the image closes clean unless its final validation fails.
CloseImage(valid) ==
  /\ valid \/ Failures # {}
  /\ phase = "flushing" /\ BuffersFlushed /\ PendingMeta = {}
  /\ phase' = "stopped"
  /\ result' = IF valid /\ ~failed THEN "clean" ELSE "retained"
  /\ UNCHANGED <<imageVars, failed, handleVars, ahead, buf, dirty, pending, latest>>

Stopped == phase = "stopped" /\ UNCHANGED vars

-----------------------------------------------------------------------------
Outcome == {"ok", "refused", "fatal"}

FileRequest ==
  \/ \E fh \in Fhs, i \in Inodes :
       OpenRead(fh, i) \/ \E trunc \in BOOLEAN : OpenWrite(fh, i, trunc)
  \/ \E fh \in Fhs : Read(fh) \/ \E v \in Values, o \in Outcome : Write(fh, v, o)
  \/ \E fh \in Fhs, o1, o2 \in Outcome : Flush(fh, o1, o2) \/ Release(fh, o1, o2)
  \/ \E i \in Inodes, v \in Values, owner \in BOOLEAN, o1, o2 \in Outcome :
       SetSize(i, v, owner, o1, o2)
  \/ \E i \in Inodes \cup {Root} :
       \/ \E v \in Loads : SetXattr(i, [NoUpdate EXCEPT !.load = v])
       \/ \E b \in BOOLEAN : SetXattr(i, [NoUpdate EXCEPT !.locked = b])

NamespaceRequest ==
  \E name \in Names, o \in Outcome :
    \/ \E fh \in Fhs : Create(fh, name, o)
    \/ Mkdir(name, o)
    \/ \E o2 \in Outcome : Remove(name, o, o2) \/ \E new \in Names : Rename(name, new, o, o2)

Shutdown ==
  \/ \E o \in Outcome : FlushNextBuffer(o) \/ FlushNextMetadata(o)
  \/ \E valid \in BOOLEAN : CloseImage(valid)

Next ==
  \/ FileRequest \/ NamespaceRequest
  \/ StopLoop \/ LoopRaises \/ Shutdown \/ Stopped

Spec == Init /\ [][Next]_vars

\* flush_pending and the close run in the mount process once the loop has stopped.
FairSpec == Spec /\ WF_vars(Shutdown)

-----------------------------------------------------------------------------
\* Type invariant of the adapter's tables.
TypeOK ==
  /\ entry \in [Names -> Inodes \cup {Unset}]
  /\ node \in [Inodes -> Nodes \cup {Unset}]
  /\ nextIno \in 3 .. MaxInode + 1
  /\ failed \in BOOLEAN
  /\ handles \in [Fhs -> Inodes \cup {Unset}]
  /\ held \in SUBSET Fhs /\ wr \in SUBSET Fhs
  /\ ahead \in [Fhs -> Values \cup {Unset}] /\ Cardinality(Prefetched(ahead)) <= AheadLimit
  /\ buf \in [Inodes -> Values \cup {Unset}]
  /\ dirty \in SUBSET Inodes
  /\ pending \in [Inodes \cup {Root} -> Updates]
  /\ phase \in {"serving", "flushing", "stopped"}
  /\ result \in {"none", "clean", "retained", "aborted"}
  /\ latest \in [Inodes -> Nodes]

\* What read and getxattr return for an inode.
Visible(i) ==
  Updated([node[i] EXCEPT !.data = IF buf[i] # Unset THEN buf[i] ELSE @], pending[i])

\* A write, truncation or attribute change that was accepted through any handle is
\* what every later read and getxattr returns, whatever flushes, failed flushes,
\* releases and renames come between.
VisibleIsLatest == \A i \in Live : Visible(i) = latest[i]

\* An accepted change that the image does not hold yet is still queued for a
\* commit: no path drops an inode from _dirty or _metadata_updates early.
UncommittedIsQueued ==
  \A i \in Live : /\ node[i].data # latest[i].data => i \in dirty /\ buf[i] # Unset
                  /\ node[i] # latest[i] => i \in dirty \/ pending[i] # NoUpdate

\* A handle the kernel writes through finds its inode alive and its buffer in
\* place: an earlier flush, truncation, unlink or rename never took them away.
WritableHandleHasBuffer ==
  \A fh \in held : /\ handles[fh] \in Live
                   /\ fh \in wr => buf[handles[fh]] # Unset

\* Data fetched ahead for one handle is what the file reads now, whatever other
\* handles have written, truncated or committed since, and belongs to an open file.
ReadAheadIsCurrent ==
  \A fh \in Prefetched(ahead) :
    LET i == handles[fh]
    IN  i \in Live /\ buf[i] = Unset /\ ahead[fh] = latest[i].data

\* When the checkpoint is removed the image holds every accepted change.
CleanShutdownIsDurable == result = "clean" => \A i \in Live : node[i] = latest[i]

\* What whoever uses the mount has made of every live inode, which is what VisibleIsLatest
\* says they read, and how the mount goes or ended.
Accepted == [i \in Inodes |-> IF i \in Live THEN latest[i] ELSE Unset]

MountState ==
  CASE result = "clean" -> "clean"
    [] result \in {"retained", "aborted"} -> "kept"
    [] result = "none" /\ failed -> "failed"
    [] OTHER -> "mounted"

Mount ==
  INSTANCE WriteBack WITH
    Files <- Inodes, None <- Unset,
    names <- entry, current <- Accepted, stored <- node, state <- MountState

\* The buffers, the queue and the order of the commits never show: a handler accepts a
\* change of one file or stores more of what was accepted, and nothing else; the image
\* stays as it was once an image call has failed the session, or the mount has ended; and
\* it ends clean only with everything stored (fuse_adapter/operations.py, runner.py).
MountIsWriteBack == Mount!Spec

\* A mount whose loop has stopped gets to the end of its flush and close.
ShutdownEnds == phase = "flushing" ~> phase = "stopped"

\* docs/architecture.md: attribute changes "commit together at a durability
\* boundary or before a conflicting namespace mutation", so no update stays queued
\* for an inode that unlink, rmdir or rename has removed.
QueuedAttributesAreLive == PendingMeta \subseteq Live \cup {Root}
=============================================================================
