--------------------------- MODULE MountLifecycle ---------------------------
(***************************************************************************)
(* One mount point: the daemons that serve images there, the kernel's       *)
(* mount table, the private record that says who serves the mount, and the  *)
(* front ends that mount and unmount (mounts.py, fuse_adapter/runner.py,    *)
(* desktop.py, cli.py).                                                     *)
(*                                                                          *)
(* The image is one path whose file other programs may replace.  A record   *)
(* lies under the name of the mount point, so daemons that follow each      *)
(* other there share it.  Daemons and front ends are processes: a daemon    *)
(* may die at any step; a front end reads the kernel's table and the        *)
(* records, and later removes the record of a process it found dead.        *)
(***************************************************************************)
EXTENDS Integers, Sequences

CONSTANTS
  MaxDaemon,  \* bound: daemon processes 1 .. MaxDaemon, in the order they start
  Fronts,     \* front-end processes; each runs one command
  Launchers,  \* how the desktop may start a daemon: "systemd", "process"
  NoRecord,   \* no record, or no daemon
  MaxFile     \* bound: files 1 .. MaxFile are at the image path in turn

ASSUME MountAssumption ==
  /\ MaxDaemon \in Nat \ {0} /\ NoRecord \notin Nat
  /\ Launchers \subseteq {"systemd", "process"}
  /\ MaxFile \in Nat \ {0}

\* Each runs once: a process id is not used again while a record names it.
Daemons == 1 .. MaxDaemon

VARIABLES
  file,   \* the file at the image path
  pend,   \* a recovery checkpoint of the path exists
  kern,   \* daemons whose mount is on the point, the visible one last
  rec,    \* the record under the mount point's name
  dpc,    \* daemon: where it is
  dimg,   \* daemon: the file it has opened
  drw,    \* daemon: writable
  busy,   \* daemon: a program holds something open in its mount
  how,    \* daemon: "terminal", "process" or "systemd"
  lost,   \* history: daemons whose session left a checkpoint nobody has resolved
  fpc,    \* front end: where it is
  fop,    \* front end: "mount" or "unmount"
  frw,    \* front end: it mounts writable
  fstep,  \* front end: what its look at the mounts is for
  saw,    \* front end: what the look has read
  child,  \* front end: the daemon it started, or whose mount it detached
  fres    \* front end: what it reported last

imageAtPath == <<file, pend>>
daemonVars == <<dpc, dimg, drw, busy, how, lost>>
frontVars == <<fpc, fop, frw, fstep, saw, child, fres>>
mountVars == <<imageAtPath, kern, rec, daemonVars, frontVars>>

NothingSeen == [mounted |-> FALSE, rec |-> NoRecord]

Gone(d) == dpc[d] = "ended"

\* _process_alive; a daemon that ends has exited once its record is gone.
Alive(r) == r # NoRecord /\ ~Gone(r.pid)

\* The image is open, and locked, from the return of open to the end of close.
Holds(d) == dpc[d] \in {"opened", "registered", "serving", "detaching", "aborting"}

\* Shared for a read-only opening, exclusive for a writable one.
MayLock(d) ==
  \A e \in Daemons \ {d} : Holds(e) /\ dimg[e] = file => ~drw[d] /\ ~drw[e]

Attached(d) == \E k \in DOMAIN kern : kern[k] = d

Top == kern[Len(kern)]

\* The endpoint answers ENOTCONN: its session is closed or its process gone.
Stale(d) == dpc[d] \in {"aborting", "closed", "ended"}

\* A daemon has one mount at most.
Place(d) == CHOOSE k \in DOMAIN kern : kern[k] = d

Detached(d) ==
  IF Attached(d)
  THEN SubSeq(kern, 1, Place(d) - 1) \o SubSeq(kern, Place(d) + 1, Len(kern))
  ELSE kern

-----------------------------------------------------------------------------
MountInit ==
  /\ file = 1 /\ pend = FALSE
  /\ kern = <<>> /\ rec = NoRecord
  /\ dpc = [d \in Daemons |-> "unborn"]
  /\ dimg = [d \in Daemons |-> 0]
  /\ drw = [d \in Daemons |-> FALSE]
  /\ busy = [d \in Daemons |-> FALSE]
  /\ how = [d \in Daemons |-> "terminal"]
  /\ lost = {}
  /\ fpc = [f \in Fronts |-> "unborn"]
  /\ fop = [f \in Fronts |-> "unmount"]
  /\ frw = [f \in Fronts |-> FALSE]
  /\ fstep = [f \in Fronts |-> "none"]
  /\ saw = [f \in Fronts |-> NothingSeen]
  /\ child = [f \in Fronts |-> NoRecord]
  /\ fres = [f \in Fronts |-> "none"]

-----------------------------------------------------------------------------
(* A daemon: runner.mount_image                                             *)

GoesTo(d, pc) == dpc' = [dpc EXCEPT ![d] = pc]

\* The process is gone: its opening, its locks and its handles with it.
Exits(d) ==
  /\ GoesTo(d, "ended")
  /\ dimg' = [dimg EXCEPT ![d] = 0]
  /\ drw' = [drw EXCEPT ![d] = FALSE]
  /\ busy' = [busy EXCEPT ![d] = FALSE]
  /\ how' = [how EXCEPT ![d] = "terminal"]

\* The mount point must be an empty directory; a mounted image is not empty and a
\* stale endpoint cannot be listed.
Begins(d, rw, by) ==
  /\ dpc[d] = "unborn" /\ \A e \in Daemons : e < d => dpc[e] # "unborn"
  /\ GoesTo(d, IF kern = <<>> THEN "inspected" ELSE "ended")
  /\ drw' = [drw EXCEPT ![d] = rw /\ kern = <<>>]
  /\ how' = [how EXCEPT ![d] = by]
  /\ UNCHANGED <<dimg, busy, lost>>

\* acornfs mount, from a terminal.
TerminalMount(d, rw) ==
  /\ Begins(d, rw, "terminal")
  /\ UNCHANGED <<imageAtPath, kern, rec, frontVars>>

\* A writable session that does not close clean leaves its checkpoint.
Unclean(d) == lost' = IF drw[d] THEN lost \cup {d} ELSE lost

\* RecoveryCheckpoint.create refuses a path whose checkpoint is pending.
MayOpen(d) == MayLock(d) /\ (drw[d] => ~pend)

\* ReadOnlyImage.open: lock, validate, checkpoint.  It may fail after the
\* checkpoint is there, and then closes the image unclean.
OpenImage(d) ==
  /\ dpc[d] = "inspected"
  /\ \/ /\ MayOpen(d)
        /\ GoesTo(d, "opened")
        /\ dimg' = [dimg EXCEPT ![d] = file]
        /\ pend' = (pend \/ drw[d])
        /\ UNCHANGED <<drw, busy, how, lost>>
     \/ /\ Exits(d)
        /\ \/ UNCHANGED <<pend, lost>>
           \/ drw[d] /\ MayOpen(d) /\ pend' = TRUE /\ Unclean(d)
  /\ UNCHANGED <<file, kern, rec, frontVars>>

\* register_mount looks the path up again: the record names the file that is there
\* now.  When it fails the image is closed unclean and nothing is unregistered.
Register(d) ==
  /\ dpc[d] = "opened"
  /\ \/ /\ rec' = [inode |-> file, pid |-> d, rw |-> drw[d]]
        /\ GoesTo(d, "registered")
        /\ UNCHANGED <<dimg, drw, busy, how, lost>>
     \/ rec' = rec /\ Exits(d) /\ Unclean(d)
  /\ UNCHANGED <<imageAtPath, kern, frontVars>>

KernelMount(d) ==
  /\ dpc[d] = "registered"
  /\ \/ GoesTo(d, "serving") /\ kern' = Append(kern, d)
     \/ GoesTo(d, "aborting") /\ kern' = kern
  /\ UNCHANGED <<imageAtPath, rec, dimg, drw, busy, how, lost, frontVars>>

\* The loop returns once the mount is detached and nothing is open in it, or on an
\* interrupt; when it raises, close(unmount=False) leaves the endpoint behind.
LoopReturns(d) ==
  /\ dpc[d] = "serving" /\ ~Attached(d) /\ ~busy[d]
  /\ GoesTo(d, "detaching")
  /\ UNCHANGED <<imageAtPath, kern, rec, dimg, drw, busy, how, lost, frontVars>>

Interrupt(d) ==
  /\ dpc[d] = "serving"
  /\ dpc' \in {[dpc EXCEPT ![d] = "detaching"], [dpc EXCEPT ![d] = "aborting"]}
  /\ busy' = [busy EXCEPT ![d] = FALSE]
  /\ UNCHANGED <<imageAtPath, kern, rec, dimg, drw, how, lost, frontVars>>

\* flush_pending, pyfuse3.close whether it raised or not, and the image's close:
\* the checkpoint goes if the flush and the final validation were good.
Finish(d) ==
  /\ dpc[d] = "detaching"
  /\ GoesTo(d, "closed")
  /\ kern' = Detached(d)
  /\ \/ pend' = (pend /\ ~drw[d]) /\ lost' = lost
     \/ drw[d] /\ pend' = pend /\ Unclean(d)
  /\ UNCHANGED <<file, rec, dimg, drw, busy, how, frontVars>>

CloseUnclean(d) ==
  /\ dpc[d] = "aborting"
  /\ GoesTo(d, "closed") /\ Unclean(d)
  /\ UNCHANGED <<imageAtPath, kern, rec, dimg, drw, busy, how, frontVars>>

\* unregister_mount unlinks whatever record the mount point has.
Unregister(d) ==
  /\ dpc[d] = "closed"
  /\ Exits(d) /\ rec' = NoRecord
  /\ UNCHANGED <<imageAtPath, kern, lost, frontVars>>

DaemonStep(d) ==
  \/ OpenImage(d) \/ Register(d) \/ KernelMount(d)
  \/ LoopReturns(d) \/ Finish(d) \/ CloseUnclean(d) \/ Unregister(d)

\* Killed: nothing of it runs any more, the kernel entry and the record stay.
Dies(d) ==
  /\ Exits(d)
  /\ IF Holds(d) THEN Unclean(d) ELSE lost' = lost

Crash(d) ==
  /\ dpc[d] # "unborn" /\ ~Gone(d)
  /\ Dies(d)
  /\ UNCHANGED <<imageAtPath, kern, rec, frontVars>>

-----------------------------------------------------------------------------
(* The kernel, the user's programs, other programs                          *)

\* The auto_unmount helper removes an endpoint that nobody serves any more.
AutoUnmount(d) ==
  /\ Attached(d) /\ Gone(d)
  /\ kern' = Detached(d)
  /\ UNCHANGED <<imageAtPath, rec, daemonVars, frontVars>>

OpenSomething(d) ==
  /\ kern # <<>> /\ Top = d /\ dpc[d] = "serving"
  /\ busy' = [busy EXCEPT ![d] = TRUE]
  /\ UNCHANGED <<imageAtPath, kern, rec, dpc, dimg, drw, how, lost, frontVars>>

CloseEverything(d) ==
  /\ busy[d]
  /\ busy' = [busy EXCEPT ![d] = FALSE]
  /\ UNCHANGED <<imageAtPath, kern, rec, dpc, dimg, drw, how, lost, frontVars>>

\* Another program puts a new file at the path.  (When nobody has the old one open,
\* that is the initial state again.)
ReplaceFile ==
  /\ file < MaxFile /\ file' = file + 1
  /\ \E d \in Daemons : Holds(d)
  /\ UNCHANGED <<pend, kern, rec, daemonVars, frontVars>>

\* The user resolves a checkpoint, once no writable session runs.
Resolve ==
  /\ pend /\ \A d \in Daemons : drw[d] => Gone(d) \/ dpc[d] = "unborn"
  /\ pend' = FALSE
  /\ lost' = {}
  /\ UNCHANGED <<file, kern, rec, dpc, dimg, drw, busy, how, frontVars>>

-----------------------------------------------------------------------------
(* A front end's look at the mounts: active_mounts                          *)

Moves(f, pc) == fpc' = [fpc EXCEPT ![f] = pc]

Looks(f, step) ==
  /\ Moves(f, "read")
  /\ fstep' = [fstep EXCEPT ![f] = step]
  /\ saw' = [saw EXCEPT ![f] = NothingSeen]

\* The command is over; which daemon it was about is kept for the reader.
Reports(f, result) ==
  /\ Moves(f, "done")
  /\ fres' = [fres EXCEPT ![f] = result]
  /\ saw' = [saw EXCEPT ![f] = NothingSeen]
  /\ fstep' = [fstep EXCEPT ![f] = "none"]
  /\ frw' = [frw EXCEPT ![f] = FALSE]
  /\ child' = [child EXCEPT ![f] = IF result = "flushed" THEN @ ELSE NoRecord]

\* The kernel's table is read before the records are.
ReadMounts(f) ==
  /\ \/ /\ fpc[f] = "read" /\ Moves(f, "records")
        /\ saw' = [saw EXCEPT ![f].mounted = kern # <<>>]
     \/ /\ fpc[f] = "records" /\ Moves(f, "prune")
        /\ saw' = [saw EXCEPT ![f].rec = rec]
  /\ UNCHANGED <<imageAtPath, kern, rec, daemonVars, fop, frw, fstep, child, fres>>

\* A record whose process is dead enriches nothing, and is unlinked by its name.
Prune(f) ==
  /\ fpc[f] = "prune"
  /\ Moves(f, "look")
  /\ IF saw[f].rec # NoRecord /\ ~Alive(saw[f].rec)
     THEN rec' = NoRecord /\ saw' = [saw EXCEPT ![f].rec = NoRecord]
     ELSE UNCHANGED <<rec, saw>>
  /\ UNCHANGED <<imageAtPath, kern, daemonVars, fop, frw, fstep, child, fres>>

Looked(f, step) == fpc[f] = "look" /\ fstep[f] = step

Known(f) == saw[f].mounted /\ saw[f].rec # NoRecord

\* mount_for_image: the mount whose record names the file now at the path.
MountForImage(f) == Known(f) /\ saw[f].rec.inode = file

-----------------------------------------------------------------------------
(* background_mount, under the flock of the mount point                     *)

FlockFree == \A g \in Fronts : fop[g] = "mount" => fpc[g] = "done"

StartMount(f, rw) ==
  /\ fpc[f] = "unborn" /\ FlockFree
  /\ Looks(f, "find")
  /\ fop' = [fop EXCEPT ![f] = "mount"]
  /\ frw' = [frw EXCEPT ![f] = rw]
  /\ UNCHANGED <<imageAtPath, kern, rec, daemonVars, child, fres>>

\* The image is mounted already, or a stale endpoint is cleaned away; then a second
\* look at the mount point.
FindMount(f) ==
  /\ Looked(f, "find")
  /\ Looks(f, IF MountForImage(f) THEN "again" ELSE "free")
  /\ kern' = IF ~MountForImage(f) /\ kern # <<>> /\ Stale(Top)
             THEN Detached(Top) ELSE kern
  /\ UNCHANGED <<imageAtPath, rec, daemonVars, fop, frw, child, fres>>

\* A location that something else's mount has taken is refused.
Occupied(f) ==
  /\ \/ Looked(f, "again") /\ saw[f].mounted /\ Reports(f, "mounted")
     \/ Looked(f, "free") /\ saw[f].mounted /\ Reports(f, "failed")
  /\ UNCHANGED <<imageAtPath, kern, rec, daemonVars, fop>>

\* systemd-run refuses a unit that is still active; either start may fail.
Launch(f, d, by) ==
  /\ Looked(f, "again") \/ Looked(f, "free")
  /\ ~saw[f].mounted
  /\ \/ /\ by = "systemd" => \A e \in Daemons : how[e] = "systemd" => Gone(e)
        /\ Begins(d, frw[f], by)
        /\ child' = [child EXCEPT ![f] = d]
        /\ Looks(f, "poll")
        /\ frw' = [frw EXCEPT ![f] = FALSE]
        /\ fres' = fres
     \/ Reports(f, "failed") /\ UNCHANGED daemonVars
  /\ UNCHANGED <<imageAtPath, kern, rec, fop>>

Poll(f) ==
  /\ Looked(f, "poll")
  /\ \/ MountForImage(f) /\ Reports(f, "mounted")
     \/ ~MountForImage(f) /\ Gone(child[f]) /\ Reports(f, "failed")
     \/ /\ ~MountForImage(f) /\ ~Gone(child[f]) /\ Looks(f, "poll")
        /\ UNCHANGED <<frw, child, fres>>
  /\ UNCHANGED <<imageAtPath, kern, rec, daemonVars, fop>>

\* The wait is over.  SIGTERM kills a process where it is.
Terminate(f) ==
  /\ Looked(f, "poll") /\ ~MountForImage(f)
  /\ how[child[f]] = "process" /\ ~Gone(child[f])
  /\ Dies(child[f]) /\ Reports(f, "failed")
  /\ UNCHANGED <<imageAtPath, kern, rec, fop>>

\* A unit is interrupted, and killed in the end; systemctl stop returns after that.
StopUnit(f) ==
  /\ Looked(f, "poll") /\ ~MountForImage(f)
  /\ how[child[f]] = "systemd"
  /\ Moves(f, "stopping")
  /\ saw' = [saw EXCEPT ![f] = NothingSeen]
  /\ UNCHANGED <<imageAtPath, kern, rec, daemonVars, fop, frw, fstep, child, fres>>

UnitStopped(f) ==
  /\ fpc[f] = "stopping" /\ Gone(child[f])
  /\ Reports(f, "failed")
  /\ UNCHANGED <<imageAtPath, kern, rec, daemonVars, fop>>

-----------------------------------------------------------------------------
(* desktop_unmount and acornfs unmount                                      *)

StartUnmount(f) ==
  /\ fpc[f] = "unborn"
  /\ Looks(f, "at")
  /\ UNCHANGED <<imageAtPath, kern, rec, daemonVars, fop, frw, child, fres>>

\* Nothing is mounted, or no record says in which mode: nothing is unmounted.
Refuse(f) ==
  /\ Looked(f, "at") /\ ~Known(f)
  /\ Reports(f, IF saw[f].mounted THEN "refused" ELSE "absent")
  /\ UNCHANGED <<imageAtPath, kern, rec, daemonVars, fop>>

\* fusermount3 -u on whatever is mounted by now, -z only for a read-only record; a
\* busy mount can only be detached lazily.
Fusermount(f, lazy) ==
  /\ Looked(f, "at") /\ Known(f)
  /\ lazy => ~saw[f].rec.rw
  /\ \/ /\ kern # <<>> => busy[Top] /\ ~lazy
        /\ Reports(f, "failed") /\ kern' = kern
     \/ /\ kern # <<>> /\ (busy[Top] => lazy)
        /\ kern' = Detached(Top)
        /\ \/ ~saw[f].rec.rw /\ Reports(f, "detached")
           \/ /\ saw[f].rec.rw /\ Moves(f, "wait")
              /\ child' = [child EXCEPT ![f] = Top]
              /\ saw' = [saw EXCEPT ![f] = NothingSeen]
              /\ fstep' = [fstep EXCEPT ![f] = "none"]
              /\ UNCHANGED <<frw, fres>>
  /\ UNCHANGED <<imageAtPath, rec, daemonVars, fop>>

\* wait_for_mount_shutdown: until no live process is registered, or 35 s.
Wait(f) ==
  /\ fpc[f] = "wait" /\ ~Alive(rec)
  /\ Moves(f, IF rec = NoRecord THEN "verify" ELSE "expire")
  /\ UNCHANGED <<imageAtPath, kern, rec, daemonVars, fop, frw, fstep, saw, child, fres>>

\* registered_mount_at unlinks the record of the dead process it has read.
ExpireRecord(f) ==
  /\ fpc[f] = "expire"
  /\ rec' = NoRecord /\ Moves(f, "verify")
  /\ UNCHANGED <<imageAtPath, kern, daemonVars, fop, frw, fstep, saw, child, fres>>

WaitTimesOut(f) ==
  /\ fpc[f] = "wait" /\ Alive(rec)
  /\ Reports(f, "unconfirmed")
  /\ UNCHANGED <<imageAtPath, kern, rec, daemonVars, fop>>

MutantConfirmed == TRUE

\* pending_recovery: no checkpoint is left.
Confirmed == ~pend

Verify(f) ==
  /\ fpc[f] = "verify"
  /\ Reports(f, IF Confirmed THEN "flushed" ELSE "unsafe")
  /\ UNCHANGED <<imageAtPath, kern, rec, daemonVars, fop>>

FrontStep(f) ==
  \/ ReadMounts(f) \/ Prune(f)
  \/ FindMount(f) \/ Occupied(f) \/ Poll(f)
  \/ Terminate(f) \/ StopUnit(f) \/ UnitStopped(f)
  \/ \E d \in Daemons, by \in Launchers : Launch(f, d, by)
  \/ Refuse(f) \/ \E lazy \in BOOLEAN : Fusermount(f, lazy)
  \/ Wait(f) \/ ExpireRecord(f) \/ WaitTimesOut(f) \/ Verify(f)

-----------------------------------------------------------------------------
Environment ==
  \/ \E d \in Daemons :
       \/ AutoUnmount(d) \/ OpenSomething(d) \/ CloseEverything(d)
       \/ Interrupt(d) \/ Crash(d)
       \/ \E rw \in BOOLEAN : TerminalMount(d, rw)
  \/ \E f \in Fronts : StartUnmount(f) \/ \E rw \in BOOLEAN : StartMount(f, rw)
  \/ ReplaceFile \/ Resolve

MountNext ==
  \/ \E d \in Daemons : DaemonStep(d)
  \/ \E f \in Fronts : FrontStep(f)
  \/ Environment

MountSpec == MountInit /\ [][MountNext]_mountVars

-----------------------------------------------------------------------------
DaemonPlaces ==
  {"unborn", "inspected", "opened", "registered", "serving", "detaching", "aborting",
   "closed", "ended"}

FrontPlaces ==
  {"unborn", "read", "records", "prune", "look", "stopping", "wait", "expire", "verify", "done"}

Records == [inode : 1 .. MaxFile, pid : Daemons, rw : BOOLEAN]

\* Type invariant of the mount point, the daemons and the front ends.
MountTypeOK ==
  /\ file \in 1 .. MaxFile /\ pend \in BOOLEAN
  /\ kern \in Seq(Daemons)
  /\ rec \in Records \cup {NoRecord}
  /\ dpc \in [Daemons -> DaemonPlaces]
  /\ dimg \in [Daemons -> 0 .. MaxFile]
  /\ drw \in [Daemons -> BOOLEAN]
  /\ busy \in [Daemons -> BOOLEAN]
  /\ how \in [Daemons -> Launchers \cup {"terminal"}]
  /\ lost \in SUBSET Daemons
  /\ fpc \in [Fronts -> FrontPlaces]
  /\ fop \in [Fronts -> {"mount", "unmount"}]
  /\ frw \in [Fronts -> BOOLEAN]
  /\ fstep \in [Fronts -> {"none", "find", "again", "free", "poll", "at"}]
  /\ saw \in [Fronts -> [mounted : BOOLEAN, rec : Records \cup {NoRecord}]]
  /\ child \in [Fronts -> Daemons \cup {NoRecord}]
  /\ fres \in [Fronts -> {"none", "mounted", "failed", "absent", "refused", "detached",
                          "unconfirmed", "flushed", "unsafe"}]

\* An unmount that reports a writable mount flushed and validated is right about the
\* mount it detached: that session has closed clean, or the user has resolved its
\* checkpoint, whatever died, expired or took its record in the meantime.
UnmountReportsTruth ==
  \A f \in Fronts : fres[f] = "flushed" =>
                    child[f] \notin lost /\ ~(Holds(child[f]) /\ drw[child[f]])

\* docs/architecture.md says of the records: "They are removed only after the image
\* context has completed close-time flush and validation."
RecordsOutliveTheImage ==
  \A d \in Daemons : dpc[d] = "serving" => rec # NoRecord
=============================================================================
