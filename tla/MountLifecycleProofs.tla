------------------------ MODULE MountLifecycleProofs ------------------------
(***************************************************************************)
(* Proofs about MountLifecycle: any number of daemons, front ends and files   *)
(* at the image path.                                                        *)
(***************************************************************************)
EXTENDS MountLifecycle, SequenceTheorems, TLAPS

\* The daemon has been through its mounting.
Past(d) == dpc[d] \notin {"unborn", "inspected", "opened", "registered"}

Writing(d) == Holds(d) /\ drw[d]

\* A writable session, or one that was lost, has the checkpoint of the path; while one
\* is open there is no other, and none was lost.
CheckpointHeld ==
  /\ \A d \in Daemons : Writing(d) =>
       pend /\ lost = {} /\ \A e \in Daemons : Writing(e) => e = d
  /\ lost # {} => pend

\* Only daemons that got so far are in the kernel's table, and only of those does a front
\* end wait for one.
Mounted ==
  /\ \A k \in DOMAIN kern : Past(kern[k])
  /\ \A f \in Fronts : fpc[f] \in {"wait", "expire", "verify"} =>
       child[f] \in Daemons /\ Past(child[f])

\* A daemon that was reported flushed stays so.
Flushed ==
  \A f \in Fronts : fres[f] = "flushed" =>
    /\ fpc[f] = "done" /\ child[f] \in Daemons /\ Past(child[f])
    /\ child[f] \notin lost /\ ~Writing(child[f])

\* Nothing has been reported before the end, and a poll is for a daemon.
Polling ==
  \A f \in Fronts :
    /\ fres[f] # "none" => fpc[f] = "done"
    /\ fstep[f] = "poll" => child[f] \in Daemons

MountInv == MountTypeOK /\ CheckpointHeld /\ Mounted /\ Flushed /\ Polling

\* Taking a daemon out of the kernel's table leaves the others.
LEMMA DetachedKern ==
  ASSUME MountTypeOK, NEW d
  PROVE  /\ Detached(d) \in Seq(Daemons)
         /\ \A k \in DOMAIN Detached(d) : \E j \in DOMAIN kern : Detached(d)[k] = kern[j]
<1>1. CASE ~Attached(d)
  BY <1>1 DEF Detached, MountTypeOK
<1>2. CASE Attached(d)
  <2>1. Place(d) \in 1 .. Len(kern) /\ kern \in Seq(Daemons)
    BY <1>2 DEF Attached, Place, MountTypeOK
  <2> DEFINE n == Place(d)
  <2> HIDE DEF n
  <2>2. /\ SubSeq(kern, 1, n - 1) \in Seq(Daemons) /\ Len(SubSeq(kern, 1, n - 1)) = n - 1
        /\ \A k \in 1 .. n - 1 : SubSeq(kern, 1, n - 1)[k] = kern[k]
    BY <2>1 DEF n
  <2>3. /\ SubSeq(kern, n + 1, Len(kern)) \in Seq(Daemons)
        /\ Len(SubSeq(kern, n + 1, Len(kern))) = Len(kern) - n
        /\ \A k \in 1 .. Len(kern) - n : SubSeq(kern, n + 1, Len(kern))[k] = kern[n + k]
    BY <2>1 DEF n
  <2>4. Detached(d) = SubSeq(kern, 1, n - 1) \o SubSeq(kern, n + 1, Len(kern))
    BY <1>2 DEF Detached, n
  <2>5. Detached(d) \in Seq(Daemons) /\ Len(Detached(d)) = Len(kern) - 1
    BY <2>1, <2>2, <2>3, <2>4, ConcatProperties DEF n
  <2>6. ASSUME NEW k \in DOMAIN Detached(d)
        PROVE  \E j \in DOMAIN kern : Detached(d)[k] = kern[j]
    <3>0. k \in 1 .. Len(kern) - 1 /\ n \in 1 .. Len(kern)
      BY <2>1, <2>5 DEF n
    <3>1. CASE k <= n - 1
      BY <2>1, <2>2, <2>3, <2>4, <3>0, <3>1
    <3>2. CASE k > n - 1
      <4>1. Detached(d)[k] = kern[k + 1]
        BY <2>1, <2>2, <2>3, <2>4, <3>0, <3>2
      <4> QED
        BY <2>1, <3>0, <4>1
    <3> QED
      BY <2>1, <3>0, <3>1, <3>2
  <2> QED
    BY <2>5, <2>6
<1> QED
  BY <1>1, <1>2

\* The first state satisfies the invariant.
LEMMA MountInitInv == MountInit => MountInv
<1> SUFFICES ASSUME MountInit PROVE MountInv
  OBVIOUS
<1>1. MountTypeOK
  <2>1. kern \in Seq(Daemons) /\ file \in 1 .. MaxFile /\ 0 \in 0 .. MaxFile
    BY MountAssumption DEF MountInit
  <2>2. saw \in [Fronts -> [mounted : BOOLEAN, rec : Records \cup {NoRecord}]]
    BY DEF MountInit, NothingSeen
  <2> QED
    BY <2>1, <2>2, MountAssumption DEF MountInit, MountTypeOK, DaemonPlaces, FrontPlaces
<1> QED
  BY <1>1 DEF MountInit, MountInv, CheckpointHeld, Mounted, Flushed, Polling, Writing, Holds

-----------------------------------------------------------------------------
(* Steps                                                                    *)

DaemonTypes ==
  /\ dpc \in [Daemons -> DaemonPlaces] /\ dimg \in [Daemons -> 0 .. MaxFile]
  /\ drw \in [Daemons -> BOOLEAN] /\ busy \in [Daemons -> BOOLEAN]
  /\ how \in [Daemons -> Launchers \cup {"terminal"}] /\ lost \in SUBSET Daemons

FrontTypes ==
  /\ fpc \in [Fronts -> FrontPlaces] /\ fop \in [Fronts -> {"mount", "unmount"}]
  /\ frw \in [Fronts -> BOOLEAN]
  /\ fstep \in [Fronts -> {"none", "find", "again", "free", "poll", "at"}]
  /\ saw \in [Fronts -> [mounted : BOOLEAN, rec : Records \cup {NoRecord}]]
  /\ child \in [Fronts -> Daemons \cup {NoRecord}]
  /\ fres \in [Fronts -> {"none", "mounted", "failed", "absent", "refused", "detached",
                          "unconfirmed", "flushed", "unsafe"}]

\* The type invariant in parts.
LEMMA MountTypeParts ==
  /\ MountTypeOK => DaemonTypes /\ FrontTypes
  /\ /\ file \in 1 .. MaxFile /\ pend \in BOOLEAN /\ kern \in Seq(Daemons)
     /\ rec \in Records \cup {NoRecord} /\ DaemonTypes /\ FrontTypes
     => MountTypeOK
BY DEF MountTypeOK, DaemonTypes, FrontTypes

\* A process that ends holds nothing.
LEMMA ExitsEffect ==
  ASSUME DaemonTypes, NEW d \in Daemons, Exits(d), lost' \in SUBSET Daemons
  PROVE  /\ DaemonTypes'
         /\ dpc'[d] = "ended" /\ drw'[d] = FALSE
         /\ \A e \in Daemons : e # d => dpc'[e] = dpc[e] /\ drw'[e] = drw[e]
<1>1. "ended" \in DaemonPlaces /\ 0 \in 0 .. MaxFile
  BY MountAssumption DEF DaemonPlaces
<1> QED
  BY <1>1 DEF Exits, GoesTo, DaemonTypes

\* A checkpoint is left by a session that was writable.
LEMMA UncleanEffect ==
  ASSUME DaemonTypes, NEW d \in Daemons, Unclean(d)
  PROVE  /\ lost' \in SUBSET Daemons
         /\ \/ lost' = lost
            \/ drw[d] /\ lost' = lost \cup {d}
BY DEF Unclean, DaemonTypes

\* A killed session leaves its checkpoint if it was writable.
LEMMA DiesEffect ==
  ASSUME DaemonTypes, NEW d \in Daemons, Dies(d)
  PROVE  /\ DaemonTypes'
         /\ dpc'[d] = "ended" /\ drw'[d] = FALSE
         /\ \A e \in Daemons : e # d => dpc'[e] = dpc[e] /\ drw'[e] = drw[e]
         /\ \/ lost' = lost
            \/ Writing(d) /\ lost' = lost \cup {d}
<1>1. Exits(d) /\ (lost' = lost \/ (Writing(d) /\ lost' = lost \cup {d}))
  BY UncleanEffect DEF Dies, Writing
<1>2. lost' \in SUBSET Daemons
  BY <1>1 DEF DaemonTypes
<1> QED
  BY <1>1, <1>2, ExitsEffect

\* A daemon that begins has not locked anything.
LEMMA BeginsEffect ==
  ASSUME DaemonTypes, NEW d \in Daemons, NEW rw \in BOOLEAN,
         NEW by \in Launchers \cup {"terminal"}, Begins(d, rw, by)
  PROVE  /\ DaemonTypes' /\ lost' = lost /\ dpc[d] = "unborn"
         /\ dpc'[d] \in {"inspected", "ended"}
         /\ \A e \in Daemons : e # d => dpc'[e] = dpc[e] /\ drw'[e] = drw[e]
<1>1. PICK pc \in {"inspected", "ended"}, w \in BOOLEAN :
        dpc' = [dpc EXCEPT ![d] = pc] /\ drw' = [drw EXCEPT ![d] = w]
  BY DEF Begins, GoesTo
<1> QED
  BY <1>1 DEF Begins, DaemonTypes, DaemonPlaces

Results == {"mounted", "failed", "absent", "refused", "detached", "unconfirmed",
            "flushed", "unsafe"}

\* A command that is over reports something, and keeps its daemon if that is flushed.
LEMMA ReportsEffect ==
  ASSUME FrontTypes, fop' = fop, NEW f \in Fronts, NEW result \in Results,
         Reports(f, result)
  PROVE  /\ FrontTypes'
         /\ fpc'[f] = "done" /\ fres'[f] = result /\ fstep'[f] = "none"
         /\ result = "flushed" => child'[f] = child[f]
         /\ \A g \in Fronts : g # f =>
              /\ fpc'[g] = fpc[g] /\ fres'[g] = fres[g] /\ fstep'[g] = fstep[g]
              /\ child'[g] = child[g]
<1>1. NothingSeen \in [mounted : BOOLEAN, rec : Records \cup {NoRecord}]
  BY DEF NothingSeen
<1>2. PICK c \in Daemons \cup {NoRecord} :
        child' = [child EXCEPT ![f] = c] /\ (result = "flushed" => c = child[f])
  BY DEF Reports, FrontTypes
<1> QED
  BY <1>1, <1>2 DEF Reports, Moves, FrontTypes, FrontPlaces, Results

\* A look at the mounts begins with nothing seen.
LEMMA LooksEffect ==
  ASSUME FrontTypes, fop' \in [Fronts -> {"mount", "unmount"}], frw' \in [Fronts -> BOOLEAN],
         child' \in [Fronts -> Daemons \cup {NoRecord}], fres' = fres, NEW f \in Fronts,
         NEW step \in {"find", "again", "free", "poll", "at"}, Looks(f, step)
  PROVE  /\ FrontTypes'
         /\ fpc'[f] = "read" /\ fstep'[f] = step
         /\ \A g \in Fronts : g # f => fpc'[g] = fpc[g] /\ fstep'[g] = fstep[g]
<1>1. NothingSeen \in [mounted : BOOLEAN, rec : Records \cup {NoRecord}]
  BY DEF NothingSeen
<1> QED
  BY <1>1 DEF Looks, Moves, FrontTypes, FrontPlaces

\* The invariant under a step of a front end that leaves the daemons, the kernel's table
\* and the checkpoint alone: what is left to show about the front end itself.
LEMMA FrontKeeps ==
  ASSUME MountInv, UNCHANGED <<imageAtPath, daemonVars>>,
         kern' \in Seq(Daemons), rec' \in Records \cup {NoRecord}, FrontTypes',
         \A k \in DOMAIN kern' : \E j \in DOMAIN kern : kern'[k] = kern[j],
         NEW f \in Fronts,
         \A g \in Fronts : g # f =>
           /\ fpc'[g] = fpc[g] /\ fres'[g] = fres[g] /\ fstep'[g] = fstep[g]
           /\ child'[g] = child[g],
         fpc'[f] \in {"wait", "expire", "verify"} => child'[f] \in Daemons /\ Past(child'[f]),
         fres'[f] # "none" => fpc'[f] = "done",
         fres'[f] = "flushed" =>
           /\ child'[f] \in Daemons /\ Past(child'[f])
           /\ child'[f] \notin lost /\ ~Writing(child'[f]),
         fstep'[f] = "poll" => child'[f] \in Daemons
  PROVE  MountInv'
<1>1. MountTypeOK'
  <2>1. file' \in 1 .. MaxFile /\ pend' \in BOOLEAN /\ DaemonTypes'
    BY DEF MountInv, MountTypeOK, DaemonTypes, imageAtPath, daemonVars
  <2> QED
    BY <2>1, MountTypeParts DEF MountTypeOK, DaemonTypes, FrontTypes
<1>2. CheckpointHeld'
  BY DEF MountInv, CheckpointHeld, Writing, Holds, imageAtPath, daemonVars
<1>3. Mounted'
  BY DEF MountInv, Mounted, Past, daemonVars
<1>4. Flushed' /\ Polling'
  BY DEF MountInv, Flushed, Polling, Past, Writing, Holds, daemonVars
<1> QED
  BY <1>1, <1>2, <1>3, <1>4 DEF MountInv

\* Every step keeps the invariant.
LEMMA MountStepInv == MountInv /\ [MountNext]_mountVars => MountInv'
<1> SUFFICES ASSUME MountInv, [MountNext]_mountVars PROVE MountInv'
  OBVIOUS
<1> USE MountAssumption DEF MountInv, imageAtPath, daemonVars, frontVars, GoesTo, Moves
<1>1. ASSUME NEW d \in Daemons, OpenImage(d) PROVE MountInv'
  <2>0. DaemonTypes /\ FrontTypes
    BY MountTypeParts
  <2>1. ASSUME MayOpen(d), dpc' = [dpc EXCEPT ![d] = "opened"], dimg' = [dimg EXCEPT ![d] = file],
               pend' = (pend \/ drw[d]), UNCHANGED <<drw, busy, how, lost, file, kern, rec, frontVars>>
        PROVE  MountInv'
    <3>1. MountTypeOK'
      <4>1. DaemonTypes'
        BY <2>0, <2>1 DEF DaemonTypes, DaemonPlaces, MountTypeOK
      <4> QED
        BY <2>0, <2>1, <4>1 DEF MountTypeOK, DaemonTypes, FrontTypes
    <3>2. CheckpointHeld'
      BY <1>1, <2>0, <2>1 DEF MayOpen, OpenImage, DaemonTypes, CheckpointHeld, Writing, Holds
    <3>3. Mounted'
      BY <1>1, <2>0, <2>1 DEF OpenImage, DaemonTypes, Mounted, Past
    <3>4. Flushed' /\ Polling'
      BY <1>1, <2>0, <2>1 DEF OpenImage, DaemonTypes, Flushed, Polling, Past, Writing, Holds
    <3> QED
      BY <3>1, <3>2, <3>3, <3>4
  <2>2. ASSUME Exits(d),
               \/ pend' = pend /\ lost' = lost
               \/ drw[d] /\ MayOpen(d) /\ pend' = TRUE /\ Unclean(d),
               UNCHANGED <<file, kern, rec, frontVars>>
        PROVE  MountInv'
    <3>1. \/ pend' = pend /\ lost' = lost
          \/ drw[d] /\ ~pend /\ pend' = TRUE /\ lost' = lost \cup {d}
      BY <2>0, <2>2 DEF MayOpen, Unclean
    <3>2. /\ DaemonTypes' /\ dpc'[d] = "ended" /\ drw'[d] = FALSE
          /\ \A e \in Daemons : e # d => dpc'[e] = dpc[e] /\ drw'[e] = drw[e]
      <4>1. lost' \in SUBSET Daemons
        BY <2>0, <3>1 DEF DaemonTypes
      <4> QED
        BY <2>0, <2>2, <4>1, ExitsEffect
    <3>3. MountTypeOK'
      BY <2>2, <3>1, <3>2 DEF MountTypeOK, DaemonTypes
    <3>4. CheckpointHeld'
      BY <2>0, <3>1, <3>2 DEF CheckpointHeld, Writing, Holds
    <3>5. Mounted'
      BY <1>1, <2>2, <3>2 DEF OpenImage, Mounted, Past, MountTypeOK
    <3>6. ASSUME NEW f \in Fronts, fres[f] = "flushed" PROVE child[f] # d
      BY <1>1, <3>6 DEF Flushed, Past, OpenImage
    <3>7. Flushed' /\ Polling'
      BY <2>2, <3>1, <3>2, <3>6 DEF Flushed, Polling, Past, Writing, Holds
    <3> QED
      BY <3>3, <3>4, <3>5, <3>7
  <2> QED
    BY <1>1, <2>1, <2>2 DEF OpenImage
<1>2. ASSUME NEW d \in Daemons, Register(d) PROVE MountInv'
  <2>0. DaemonTypes /\ FrontTypes
    BY MountTypeParts
  <2>1. ASSUME rec' = [inode |-> file, pid |-> d, rw |-> drw[d]], dpc' = [dpc EXCEPT ![d] = "registered"],
               UNCHANGED <<dimg, drw, busy, how, lost, file, pend, kern, frontVars>>
        PROVE  MountInv'
    <3>1. MountTypeOK'
      <4>1. DaemonTypes' /\ rec' \in Records
        BY <2>0, <2>1 DEF DaemonTypes, DaemonPlaces, Records, MountTypeOK
      <4> QED
        BY <2>0, <2>1, <4>1 DEF MountTypeOK, DaemonTypes
    <3>2. CheckpointHeld'
      BY <1>2, <2>0, <2>1 DEF Register, DaemonTypes, CheckpointHeld, Writing, Holds
    <3>3. Mounted'
      BY <1>2, <2>0, <2>1 DEF Register, DaemonTypes, Mounted, Past
    <3>4. Flushed' /\ Polling'
      BY <1>2, <2>0, <2>1 DEF Register, DaemonTypes, Flushed, Polling, Past, Writing, Holds
    <3> QED
      BY <3>1, <3>2, <3>3, <3>4
  <2>2. ASSUME Exits(d), Unclean(d), UNCHANGED <<file, pend, kern, rec, frontVars>>
        PROVE  MountInv'
    <3>1. lost' \in SUBSET Daemons /\ (lost' = lost \/ (drw[d] /\ lost' = lost \cup {d}))
      BY <2>0, <2>2, UncleanEffect
    <3>2. /\ DaemonTypes' /\ dpc'[d] = "ended" /\ drw'[d] = FALSE
          /\ \A e \in Daemons : e # d => dpc'[e] = dpc[e] /\ drw'[e] = drw[e]
      BY <2>0, <2>2, <3>1, ExitsEffect
    <3>3. MountTypeOK'
      BY <2>2, <3>2 DEF MountTypeOK, DaemonTypes
    <3>4. CheckpointHeld'
      BY <1>2, <2>0, <2>2, <3>1, <3>2 DEF Register, CheckpointHeld, Writing, Holds
    <3>5. Mounted'
      BY <1>2, <2>2, <3>2 DEF Register, Mounted, Past, MountTypeOK
    <3>6. ASSUME NEW f \in Fronts, fres[f] = "flushed" PROVE child[f] # d
      BY <1>2, <3>6 DEF Flushed, Past, Register
    <3>7. Flushed' /\ Polling'
      BY <2>2, <3>1, <3>2, <3>6 DEF Flushed, Polling, Past, Writing, Holds
    <3> QED
      BY <3>3, <3>4, <3>5, <3>7
  <2> QED
    BY <1>2, <2>1, <2>2 DEF Register
<1>3. ASSUME NEW d \in Daemons, KernelMount(d) PROVE MountInv'
  <2>0. DaemonTypes /\ FrontTypes /\ kern \in Seq(Daemons)
    BY MountTypeParts DEF MountTypeOK
  <2>1. /\ kern' \in Seq(Daemons)
        /\ \A k \in DOMAIN kern' : \/ k \in DOMAIN kern /\ kern'[k] = kern[k]
                                   \/ kern'[k] = d /\ dpc'[d] = "serving"
    <3>1. CASE kern' = kern
      BY <2>0, <3>1
    <3>2. CASE dpc' = [dpc EXCEPT ![d] = "serving"] /\ kern' = Append(kern, d)
      <4>1. /\ kern' \in Seq(Daemons) /\ Len(kern') = Len(kern) + 1
            /\ \A k \in 1 .. Len(kern) : kern'[k] = kern[k]
            /\ kern'[Len(kern) + 1] = d
        BY <2>0, <3>2, AppendProperties
      <4>2. dpc'[d] = "serving"
        BY <2>0, <3>2 DEF DaemonTypes
      <4> QED
        BY <2>0, <4>1, <4>2
    <3> QED
      BY <1>3, <3>1, <3>2 DEF KernelMount
  <2>2. /\ DaemonTypes' /\ dpc'[d] \in {"serving", "aborting"} /\ dpc[d] = "registered"
        /\ \A e \in Daemons : e # d => dpc'[e] = dpc[e]
        /\ drw' = drw /\ lost' = lost
    BY <1>3, <2>0 DEF KernelMount, DaemonTypes, DaemonPlaces
  <2>3. MountTypeOK'
    BY <1>3, <2>1, <2>2 DEF KernelMount, MountTypeOK, DaemonTypes
  <2>4. CheckpointHeld'
    BY <1>3, <2>2 DEF KernelMount, CheckpointHeld, Writing, Holds
  <2>5. Mounted'
    BY <1>3, <2>0, <2>1, <2>2 DEF KernelMount, Mounted, Past
  <2>6. Flushed' /\ Polling'
    BY <1>3, <2>2 DEF KernelMount, Flushed, Polling, Past, Writing, Holds
  <2> QED
    BY <2>3, <2>4, <2>5, <2>6
<1>4. ASSUME NEW d \in Daemons, LoopReturns(d) PROVE MountInv'
  <2>1. MountTypeOK'
    BY <1>4 DEF LoopReturns, MountTypeOK, DaemonPlaces, FrontPlaces, Records
  <2>2. CheckpointHeld'
    BY <1>4 DEF LoopReturns, MountTypeOK, CheckpointHeld, Writing, Holds
  <2>3. Mounted'
    BY <1>4 DEF LoopReturns, MountTypeOK, Mounted, Past
  <2>4. Flushed' /\ Polling'
    BY <1>4
    DEF LoopReturns, MountTypeOK, CheckpointHeld, Mounted, Flushed, Polling, Past, Writing, Holds
  <2> QED
    BY <2>1, <2>2, <2>3, <2>4
<1>5. ASSUME NEW d \in Daemons, Finish(d) PROVE MountInv'
  <2>1. MountTypeOK'
    BY <1>5, DetachedKern DEF Finish, Unclean, MountTypeOK, DaemonPlaces, FrontPlaces, Records
  <2>2. CheckpointHeld'
    BY <1>5 DEF Finish, Unclean, MountTypeOK, CheckpointHeld, Writing, Holds
  <2>3. Mounted'
    BY <1>5, DetachedKern DEF Finish, Unclean, MountTypeOK, Mounted, Past
  <2>4. Flushed' /\ Polling'
    BY <1>5
    DEF Finish, Unclean, MountTypeOK, CheckpointHeld, Mounted, Flushed, Polling, Past, Writing,
        Holds
  <2> QED
    BY <2>1, <2>2, <2>3, <2>4
<1>6. ASSUME NEW d \in Daemons, CloseUnclean(d) PROVE MountInv'
  <2>1. MountTypeOK'
    BY <1>6 DEF CloseUnclean, Unclean, MountTypeOK, DaemonPlaces, FrontPlaces, Records
  <2>2. CheckpointHeld'
    BY <1>6 DEF CloseUnclean, Unclean, MountTypeOK, CheckpointHeld, Writing, Holds
  <2>3. Mounted'
    BY <1>6 DEF CloseUnclean, Unclean, MountTypeOK, Mounted, Past
  <2>4. Flushed' /\ Polling'
    BY <1>6
    DEF CloseUnclean, Unclean, MountTypeOK, CheckpointHeld, Mounted, Flushed, Polling, Past,
        Writing, Holds
  <2> QED
    BY <2>1, <2>2, <2>3, <2>4
<1>7. ASSUME NEW d \in Daemons, Unregister(d) PROVE MountInv'
  <2>1. MountTypeOK'
    BY <1>7 DEF Unregister, Exits, MountTypeOK, DaemonPlaces, FrontPlaces, Records
  <2>2. CheckpointHeld'
    BY <1>7 DEF Unregister, Exits, MountTypeOK, CheckpointHeld, Writing, Holds
  <2>3. Mounted'
    BY <1>7 DEF Unregister, Exits, MountTypeOK, Mounted, Past
  <2>4. Flushed' /\ Polling'
    BY <1>7
    DEF Unregister, Exits, MountTypeOK, CheckpointHeld, Mounted, Flushed, Polling, Past, Writing,
        Holds
  <2> QED
    BY <2>1, <2>2, <2>3, <2>4
<1>8. ASSUME NEW d \in Daemons, AutoUnmount(d) PROVE MountInv'
  <2>1. MountTypeOK'
    BY <1>8, DetachedKern DEF AutoUnmount, MountTypeOK, DaemonPlaces, FrontPlaces, Records
  <2>2. CheckpointHeld'
    BY <1>8 DEF AutoUnmount, MountTypeOK, CheckpointHeld, Writing, Holds
  <2>3. Mounted'
    BY <1>8, DetachedKern DEF AutoUnmount, MountTypeOK, Mounted, Past
  <2>4. Flushed' /\ Polling'
    BY <1>8
    DEF AutoUnmount, MountTypeOK, CheckpointHeld, Mounted, Flushed, Polling, Past, Writing, Holds
  <2> QED
    BY <2>1, <2>2, <2>3, <2>4
<1>9. ASSUME NEW d \in Daemons, OpenSomething(d) PROVE MountInv'
  <2>1. MountTypeOK'
    BY <1>9 DEF OpenSomething, Top, MountTypeOK, DaemonPlaces, FrontPlaces, Records
  <2>2. CheckpointHeld'
    BY <1>9 DEF OpenSomething, Top, MountTypeOK, CheckpointHeld, Writing, Holds
  <2>3. Mounted'
    BY <1>9 DEF OpenSomething, Top, MountTypeOK, Mounted, Past
  <2>4. Flushed' /\ Polling'
    BY <1>9
    DEF OpenSomething, Top, MountTypeOK, CheckpointHeld, Mounted, Flushed, Polling, Past, Writing,
        Holds
  <2> QED
    BY <2>1, <2>2, <2>3, <2>4
<1>10. ASSUME NEW d \in Daemons, CloseEverything(d) PROVE MountInv'
  <2>1. MountTypeOK'
    BY <1>10 DEF CloseEverything, MountTypeOK, DaemonPlaces, FrontPlaces, Records
  <2>2. CheckpointHeld'
    BY <1>10 DEF CloseEverything, MountTypeOK, CheckpointHeld, Writing, Holds
  <2>3. Mounted'
    BY <1>10 DEF CloseEverything, MountTypeOK, Mounted, Past
  <2>4. Flushed' /\ Polling'
    BY <1>10
    DEF CloseEverything, MountTypeOK, CheckpointHeld, Mounted, Flushed, Polling, Past, Writing,
        Holds
  <2> QED
    BY <2>1, <2>2, <2>3, <2>4
<1>11. ASSUME NEW d \in Daemons, Interrupt(d) PROVE MountInv'
  <2>1. MountTypeOK'
    BY <1>11 DEF Interrupt, MountTypeOK, DaemonPlaces, FrontPlaces, Records
  <2>2. CheckpointHeld'
    BY <1>11 DEF Interrupt, MountTypeOK, CheckpointHeld, Writing, Holds
  <2>3. Mounted'
    BY <1>11 DEF Interrupt, MountTypeOK, Mounted, Past
  <2>4. Flushed' /\ Polling'
    BY <1>11
    DEF Interrupt, MountTypeOK, CheckpointHeld, Mounted, Flushed, Polling, Past, Writing, Holds
  <2> QED
    BY <2>1, <2>2, <2>3, <2>4
<1>12. ASSUME NEW d \in Daemons, Crash(d) PROVE MountInv'
  <2>1. MountTypeOK'
    BY <1>12 DEF Crash, Dies, Exits, Unclean, MountTypeOK, DaemonPlaces, FrontPlaces, Records
  <2>2. CheckpointHeld'
    BY <1>12 DEF Crash, Dies, Exits, Unclean, MountTypeOK, CheckpointHeld, Writing, Holds
  <2>3. Mounted'
    BY <1>12 DEF Crash, Dies, Exits, Unclean, MountTypeOK, Mounted, Past
  <2>4. Flushed' /\ Polling'
    BY <1>12
    DEF Crash, Dies, Exits, Unclean, MountTypeOK, CheckpointHeld, Mounted, Flushed, Polling, Past,
        Writing, Holds
  <2> QED
    BY <2>1, <2>2, <2>3, <2>4
<1>13. ASSUME NEW d \in Daemons, NEW rw \in BOOLEAN, TerminalMount(d, rw) PROVE MountInv'
  <2>1. MountTypeOK'
    BY <1>13 DEF TerminalMount, Begins, MountTypeOK, DaemonPlaces, FrontPlaces, Records
  <2>2. CheckpointHeld'
    BY <1>13 DEF TerminalMount, Begins, MountTypeOK, CheckpointHeld, Writing, Holds
  <2>3. Mounted'
    BY <1>13 DEF TerminalMount, Begins, MountTypeOK, Mounted, Past
  <2>4. Flushed' /\ Polling'
    BY <1>13
    DEF TerminalMount, Begins, MountTypeOK, CheckpointHeld, Mounted, Flushed, Polling, Past,
        Writing, Holds
  <2> QED
    BY <2>1, <2>2, <2>3, <2>4
<1>14. ASSUME NEW f \in Fronts, ReadMounts(f) PROVE MountInv'
  <2>0. FrontTypes /\ rec \in Records \cup {NoRecord} /\ kern \in Seq(Daemons)
    BY MountTypeParts DEF MountTypeOK
  <2>1. saw' \in [Fronts -> [mounted : BOOLEAN, rec : Records \cup {NoRecord}]]
    <3>1. PICK b \in BOOLEAN, r \in Records \cup {NoRecord} :
            saw' = [saw EXCEPT ![f].mounted = b] \/ saw' = [saw EXCEPT ![f].rec = r]
      <4>1. (kern # <<>>) \in BOOLEAN
        OBVIOUS
      <4> QED
        BY <1>14, <2>0, <4>1 DEF ReadMounts
    <3> QED
      BY <2>0, <3>1 DEF FrontTypes
  <2>2. FrontTypes' /\ fpc'[f] \in {"records", "prune"} /\ fpc[f] \in {"read", "records"}
    BY <1>14, <2>0, <2>1 DEF ReadMounts, FrontTypes, FrontPlaces
  <2>3. \A g \in Fronts : g # f => fpc'[g] = fpc[g]
    BY <1>14, <2>0 DEF ReadMounts, FrontTypes
  <2>4. fres[f] = "none"
    BY <2>2 DEF Polling
  <2> QED
    BY <1>14, <2>0, <2>2, <2>3, <2>4, FrontKeeps DEF ReadMounts, Polling
<1>15. ASSUME NEW f \in Fronts, Prune(f) PROVE MountInv'
  <2>0. FrontTypes /\ rec \in Records \cup {NoRecord} /\ kern \in Seq(Daemons)
    BY MountTypeParts DEF MountTypeOK
  <2>1. /\ saw' \in [Fronts -> [mounted : BOOLEAN, rec : Records \cup {NoRecord}]]
        /\ rec' \in Records \cup {NoRecord}
    <3>1. \/ rec' = rec /\ saw' = saw
          \/ rec' = NoRecord /\ saw' = [saw EXCEPT ![f].rec = NoRecord]
      BY <1>15 DEF Prune
    <3> QED
      BY <2>0, <3>1 DEF FrontTypes
  <2>2. FrontTypes' /\ fpc'[f] = "look" /\ fpc[f] = "prune"
    BY <1>15, <2>0, <2>1 DEF Prune, FrontTypes, FrontPlaces
  <2>3. \A g \in Fronts : g # f => fpc'[g] = fpc[g]
    BY <1>15, <2>0 DEF Prune, FrontTypes
  <2>4. fres[f] = "none"
    BY <2>2 DEF Polling
  <2> QED
    BY <1>15, <2>0, <2>1, <2>2, <2>3, <2>4, FrontKeeps DEF Prune, Polling
<1>16. ASSUME NEW f \in Fronts, FindMount(f) PROVE MountInv'
  <2>1. MountTypeOK'
    BY <1>16, DetachedKern
    DEF FindMount, Looked, Looks, NothingSeen, MountTypeOK, DaemonPlaces, FrontPlaces, Records
  <2>2. CheckpointHeld'
    BY <1>16 DEF FindMount, Looked, Looks, NothingSeen, MountTypeOK, CheckpointHeld, Writing, Holds
  <2>3. Mounted'
    BY <1>16, DetachedKern DEF FindMount, Looked, Looks, NothingSeen, MountTypeOK, Mounted, Past
  <2>4. Flushed' /\ Polling'
    BY <1>16
    DEF FindMount, Looked, Looks, NothingSeen, MountTypeOK, CheckpointHeld, Mounted, Flushed,
        Polling, Past, Writing, Holds
  <2> QED
    BY <2>1, <2>2, <2>3, <2>4
<1>17. ASSUME NEW f \in Fronts, Occupied(f) PROVE MountInv'
  <2>0. FrontTypes /\ rec \in Records \cup {NoRecord} /\ kern \in Seq(Daemons)
    BY MountTypeParts DEF MountTypeOK
  <2>1. PICK result \in {"mounted", "failed"} : Reports(f, result)
    BY <1>17 DEF Occupied
  <2>2. /\ FrontTypes' /\ fpc'[f] = "done" /\ fres'[f] = result /\ fstep'[f] = "none"
        /\ \A g \in Fronts : g # f =>
             /\ fpc'[g] = fpc[g] /\ fres'[g] = fres[g] /\ fstep'[g] = fstep[g]
             /\ child'[g] = child[g]
    BY <1>17, <2>0, <2>1, ReportsEffect DEF Occupied, Results
  <2> QED
    BY <1>17, <2>0, <2>2, FrontKeeps DEF Occupied
<1>18. ASSUME NEW f \in Fronts, Poll(f) PROVE MountInv'
  <2>0. FrontTypes /\ rec \in Records \cup {NoRecord} /\ kern \in Seq(Daemons)
    BY MountTypeParts DEF MountTypeOK
  <2>1. ASSUME NEW result \in {"mounted", "failed"}, Reports(f, result) PROVE MountInv'
    <3>1. /\ FrontTypes' /\ fpc'[f] = "done" /\ fres'[f] = result /\ fstep'[f] = "none"
          /\ \A g \in Fronts : g # f =>
               /\ fpc'[g] = fpc[g] /\ fres'[g] = fres[g] /\ fstep'[g] = fstep[g]
               /\ child'[g] = child[g]
      BY <1>18, <2>0, <2>1, ReportsEffect DEF Poll, Results
    <3> QED
      BY <1>18, <2>0, <3>1, FrontKeeps DEF Poll
  <2>2. ASSUME Looks(f, "poll"), UNCHANGED <<frw, child, fres>> PROVE MountInv'
    <3>1. /\ FrontTypes' /\ fpc'[f] = "read" /\ fstep'[f] = "poll"
          /\ \A g \in Fronts : g # f => fpc'[g] = fpc[g] /\ fstep'[g] = fstep[g]
      BY <1>18, <2>0, <2>2, LooksEffect DEF Poll, FrontTypes
    <3>2. child[f] \in Daemons /\ fres[f] = "none"
      BY <1>18 DEF Poll, Looked, Polling
    <3> QED
      BY <1>18, <2>0, <2>2, <3>1, <3>2, FrontKeeps DEF Poll
  <2> QED
    BY <1>18, <2>1, <2>2 DEF Poll
<1>19. ASSUME NEW f \in Fronts, Terminate(f) PROVE MountInv'
  <2>0. FrontTypes /\ DaemonTypes
    BY MountTypeParts
  <2>1. child[f] \in Daemons /\ fres[f] = "none"
    BY <1>19 DEF Terminate, Looked, Polling
  <2> DEFINE d == child[f]
  <2> HIDE DEF d
  <2>2. /\ DaemonTypes' /\ d \in Daemons
        /\ dpc'[d] = "ended" /\ drw'[d] = FALSE
        /\ \A e \in Daemons : e # d => dpc'[e] = dpc[e] /\ drw'[e] = drw[e]
        /\ \/ lost' = lost
           \/ Writing(d) /\ lost' = lost \cup {d}
    BY <1>19, <2>0, <2>1, DiesEffect DEF Terminate, d
  <2>3. /\ FrontTypes' /\ fpc'[f] = "done" /\ fres'[f] = "failed" /\ fstep'[f] = "none"
        /\ \A g \in Fronts : g # f =>
             /\ fpc'[g] = fpc[g] /\ fres'[g] = fres[g] /\ fstep'[g] = fstep[g]
             /\ child'[g] = child[g]
    BY <1>19, <2>0, ReportsEffect DEF Terminate, Results
  <2>4. file' = file /\ pend' = pend /\ kern' = kern /\ rec' = rec
    BY <1>19 DEF Terminate
  <2>5. MountTypeOK'
    BY <2>2, <2>3, <2>4 DEF MountTypeOK, DaemonTypes, FrontTypes
  <2>6. CheckpointHeld'
    BY <2>2, <2>4 DEF CheckpointHeld, Writing, Holds
  <2>7. Mounted'
    <3>1. \A e \in Daemons : Past(e) => Past(e)'
      BY <2>2 DEF Past
    <3>2. \A k \in DOMAIN kern : kern[k] \in Daemons /\ Past(kern[k])
      BY DEF Mounted, MountTypeOK
    <3>3. \A k \in DOMAIN kern' : Past(kern[k])'
      BY <2>4, <3>1, <3>2 DEF Past
    <3> QED
      BY <2>3, <3>1, <3>3 DEF Mounted, Past
  <2>8. Flushed' /\ Polling'
    BY <2>2, <2>3, <2>4 DEF Flushed, Polling, Past, Writing, Holds
  <2> QED
    BY <2>5, <2>6, <2>7, <2>8
<1>20. ASSUME NEW f \in Fronts, StopUnit(f) PROVE MountInv'
  <2>1. MountTypeOK'
    BY <1>20 DEF StopUnit, Looked, NothingSeen, MountTypeOK, DaemonPlaces, FrontPlaces, Records
  <2>2. CheckpointHeld'
    BY <1>20 DEF StopUnit, Looked, NothingSeen, MountTypeOK, CheckpointHeld, Writing, Holds
  <2>3. Mounted'
    BY <1>20 DEF StopUnit, Looked, NothingSeen, MountTypeOK, Mounted, Past
  <2>4. Flushed' /\ Polling'
    BY <1>20
    DEF StopUnit, Looked, NothingSeen, MountTypeOK, CheckpointHeld, Mounted, Flushed, Polling,
        Past, Writing, Holds
  <2> QED
    BY <2>1, <2>2, <2>3, <2>4
<1>21. ASSUME NEW f \in Fronts, UnitStopped(f) PROVE MountInv'
  <2>1. MountTypeOK'
    BY <1>21 DEF UnitStopped, Reports, NothingSeen, MountTypeOK, DaemonPlaces, FrontPlaces, Records
  <2>2. CheckpointHeld'
    BY <1>21 DEF UnitStopped, Reports, NothingSeen, MountTypeOK, CheckpointHeld, Writing, Holds
  <2>3. Mounted'
    BY <1>21 DEF UnitStopped, Reports, NothingSeen, MountTypeOK, Mounted, Past
  <2>4. Flushed' /\ Polling'
    BY <1>21
    DEF UnitStopped, Reports, NothingSeen, MountTypeOK, CheckpointHeld, Mounted, Flushed, Polling,
        Past, Writing, Holds
  <2> QED
    BY <2>1, <2>2, <2>3, <2>4
<1>22. ASSUME NEW f \in Fronts, NEW d \in Daemons, NEW by \in Launchers, Launch(f, d, by)
     PROVE  MountInv'
  <2>0. FrontTypes /\ DaemonTypes /\ rec \in Records \cup {NoRecord} /\ kern \in Seq(Daemons)
    BY MountTypeParts DEF MountTypeOK
  <2>1. ASSUME Begins(d, frw[f], by), child' = [child EXCEPT ![f] = d], Looks(f, "poll"),
               frw' = [frw EXCEPT ![f] = FALSE], fres' = fres
        PROVE  MountInv'
    <3>1. fop' = fop /\ pend' = pend /\ file' = file /\ kern' = kern /\ rec' = rec /\ fpc[f] = "look"
      BY <1>22 DEF Launch, Looked
    <3>2. /\ FrontTypes' /\ fpc'[f] = "read" /\ fstep'[f] = "poll" /\ child'[f] = d
          /\ \A g \in Fronts : g # f =>
               fpc'[g] = fpc[g] /\ fstep'[g] = fstep[g] /\ child'[g] = child[g]
      <4>1. /\ child' \in [Fronts -> Daemons \cup {NoRecord}] /\ child'[f] = d
            /\ \A g \in Fronts : g # f => child'[g] = child[g]
        BY <2>0, <2>1 DEF FrontTypes
      <4>2. fop' \in [Fronts -> {"mount", "unmount"}] /\ frw' \in [Fronts -> BOOLEAN]
        BY <2>0, <2>1, <3>1 DEF FrontTypes
      <4> QED
        BY <2>0, <2>1, <4>1, <4>2, LooksEffect
    <3>3. /\ DaemonTypes' /\ lost' = lost /\ dpc[d] = "unborn"
          /\ dpc'[d] \in {"inspected", "ended"}
          /\ \A e \in Daemons : e # d => dpc'[e] = dpc[e] /\ drw'[e] = drw[e]
      <4>1. frw[f] \in BOOLEAN
        BY <2>0 DEF FrontTypes
      <4> QED
        BY <2>0, <2>1, <4>1, BeginsEffect
    <3>4. fres[f] = "none"
      BY <3>1 DEF Polling
    <3>5. MountTypeOK'
      BY <3>1, <3>2, <3>3 DEF MountTypeOK, DaemonTypes, FrontTypes
    <3>6. CheckpointHeld'
      BY <3>1, <3>3 DEF CheckpointHeld, Writing, Holds
    <3>7. Mounted'
      <4>1. \A e \in Daemons : Past(e) => Past(e)'
        BY <3>3 DEF Past
      <4>2. \A k \in DOMAIN kern : kern[k] \in Daemons /\ Past(kern[k])
        BY DEF Mounted, MountTypeOK
      <4>3. \A k \in DOMAIN kern' : Past(kern[k])'
        BY <3>1, <4>1, <4>2 DEF Past
      <4> QED
        BY <3>1, <3>2, <4>1, <4>3 DEF Mounted, Past
    <3>8. Flushed' /\ Polling'
      BY <2>1, <3>1, <3>2, <3>3, <3>4 DEF Flushed, Polling, Past, Writing, Holds
    <3> QED
      BY <3>5, <3>6, <3>7, <3>8
  <2>2. ASSUME Reports(f, "failed"), UNCHANGED daemonVars PROVE MountInv'
    <3>1. /\ FrontTypes' /\ fpc'[f] = "done" /\ fres'[f] = "failed" /\ fstep'[f] = "none"
          /\ \A g \in Fronts : g # f =>
               /\ fpc'[g] = fpc[g] /\ fres'[g] = fres[g] /\ fstep'[g] = fstep[g]
               /\ child'[g] = child[g]
      BY <1>22, <2>0, <2>2, ReportsEffect DEF Launch, Results
    <3> QED
      BY <1>22, <2>0, <2>2, <3>1, FrontKeeps DEF Launch
  <2> QED
    BY <1>22, <2>1, <2>2 DEF Launch
<1>23. ASSUME NEW f \in Fronts, Refuse(f) PROVE MountInv'
  <2>1. MountTypeOK'
    BY <1>23
    DEF Refuse, Looked, Reports, NothingSeen, MountTypeOK, DaemonPlaces, FrontPlaces, Records
  <2>2. CheckpointHeld'
    BY <1>23 DEF Refuse, Looked, Reports, NothingSeen, MountTypeOK, CheckpointHeld, Writing, Holds
  <2>3. Mounted'
    BY <1>23 DEF Refuse, Looked, Reports, NothingSeen, MountTypeOK, Mounted, Past
  <2>4. Flushed' /\ Polling'
    BY <1>23
    DEF Refuse, Looked, Reports, NothingSeen, MountTypeOK, CheckpointHeld, Mounted, Flushed,
        Polling, Past, Writing, Holds
  <2> QED
    BY <2>1, <2>2, <2>3, <2>4
<1>24. ASSUME NEW f \in Fronts, NEW lazy \in BOOLEAN, Fusermount(f, lazy) PROVE MountInv'
  <2>0. /\ FrontTypes /\ rec \in Records \cup {NoRecord} /\ kern \in Seq(Daemons)
        /\ fpc[f] = "look" /\ fres[f] = "none"
    BY <1>24, MountTypeParts DEF Fusermount, Looked, Polling, MountTypeOK
  <2>1. /\ kern' \in Seq(Daemons)
        /\ \A k \in DOMAIN kern' : \E j \in DOMAIN kern : kern'[k] = kern[j]
    BY <1>24, <2>0, DetachedKern DEF Fusermount
  <2>2. ASSUME NEW result \in {"failed", "detached"}, Reports(f, result) PROVE MountInv'
    <3>1. /\ FrontTypes' /\ fpc'[f] = "done" /\ fres'[f] = result /\ fstep'[f] = "none"
          /\ \A g \in Fronts : g # f =>
               /\ fpc'[g] = fpc[g] /\ fres'[g] = fres[g] /\ fstep'[g] = fstep[g]
               /\ child'[g] = child[g]
      BY <1>24, <2>0, <2>2, ReportsEffect DEF Fusermount, Results
    <3> QED
      BY <1>24, <2>0, <2>1, <3>1, FrontKeeps DEF Fusermount
  <2>3. ASSUME kern # <<>>, fpc' = [fpc EXCEPT ![f] = "wait"], child' = [child EXCEPT ![f] = Top],
               saw' = [saw EXCEPT ![f] = NothingSeen], fstep' = [fstep EXCEPT ![f] = "none"],
               UNCHANGED <<frw, fres, fop>>
        PROVE  MountInv'
    <3>1. Top \in Daemons /\ Past(Top)
      BY <2>0, <2>3 DEF Top, Mounted
    <3>2. NothingSeen \in [mounted : BOOLEAN, rec : Records \cup {NoRecord}]
      BY DEF NothingSeen
    <3>3. /\ FrontTypes' /\ fpc'[f] = "wait" /\ child'[f] = Top /\ fstep'[f] = "none"
          /\ \A g \in Fronts : g # f =>
               fpc'[g] = fpc[g] /\ fstep'[g] = fstep[g] /\ child'[g] = child[g]
      BY <2>0, <2>3, <3>1, <3>2 DEF FrontTypes, FrontPlaces
    <3> QED
      BY <1>24, <2>0, <2>1, <2>3, <3>1, <3>3, FrontKeeps DEF Fusermount
  <2> QED
    BY <1>24, <2>2, <2>3 DEF Fusermount
<1>25. ASSUME NEW f \in Fronts, Wait(f) PROVE MountInv'
  <2>1. MountTypeOK'
    BY <1>25 DEF Wait, MountTypeOK, DaemonPlaces, FrontPlaces, Records
  <2>2. CheckpointHeld'
    BY <1>25 DEF Wait, MountTypeOK, CheckpointHeld, Writing, Holds
  <2>3. Mounted'
    BY <1>25 DEF Wait, MountTypeOK, Mounted, Past
  <2>4. Flushed' /\ Polling'
    BY <1>25 DEF Wait, MountTypeOK, CheckpointHeld, Mounted, Flushed, Polling, Past, Writing, Holds
  <2> QED
    BY <2>1, <2>2, <2>3, <2>4
<1>26. ASSUME NEW f \in Fronts, ExpireRecord(f) PROVE MountInv'
  <2>1. MountTypeOK'
    BY <1>26 DEF ExpireRecord, MountTypeOK, DaemonPlaces, FrontPlaces, Records
  <2>2. CheckpointHeld'
    BY <1>26 DEF ExpireRecord, MountTypeOK, CheckpointHeld, Writing, Holds
  <2>3. Mounted'
    BY <1>26 DEF ExpireRecord, MountTypeOK, Mounted, Past
  <2>4. Flushed' /\ Polling'
    BY <1>26
    DEF ExpireRecord, MountTypeOK, CheckpointHeld, Mounted, Flushed, Polling, Past, Writing, Holds
  <2> QED
    BY <2>1, <2>2, <2>3, <2>4
<1>27. ASSUME NEW f \in Fronts, WaitTimesOut(f) PROVE MountInv'
  <2>1. MountTypeOK'
    BY <1>27 DEF WaitTimesOut, Reports, NothingSeen, MountTypeOK, DaemonPlaces, FrontPlaces, Records
  <2>2. CheckpointHeld'
    BY <1>27 DEF WaitTimesOut, Reports, NothingSeen, MountTypeOK, CheckpointHeld, Writing, Holds
  <2>3. Mounted'
    BY <1>27 DEF WaitTimesOut, Reports, NothingSeen, MountTypeOK, Mounted, Past
  <2>4. Flushed' /\ Polling'
    BY <1>27
    DEF WaitTimesOut, Reports, NothingSeen, MountTypeOK, CheckpointHeld, Mounted, Flushed,
        Polling, Past, Writing, Holds
  <2> QED
    BY <2>1, <2>2, <2>3, <2>4
<1>28. ASSUME NEW f \in Fronts, Verify(f) PROVE MountInv'
  <2>1. MountTypeOK'
    BY <1>28
    DEF Verify, Confirmed, Reports, NothingSeen, MountTypeOK, DaemonPlaces, FrontPlaces, Records
  <2>2. CheckpointHeld'
    BY <1>28
    DEF Verify, Confirmed, Reports, NothingSeen, MountTypeOK, CheckpointHeld, Writing, Holds
  <2>3. Mounted'
    BY <1>28 DEF Verify, Confirmed, Reports, NothingSeen, MountTypeOK, Mounted, Past
  <2>4. Flushed' /\ Polling'
    BY <1>28
    DEF Verify, Confirmed, Reports, NothingSeen, MountTypeOK, CheckpointHeld, Mounted, Flushed,
        Polling, Past, Writing, Holds
  <2> QED
    BY <2>1, <2>2, <2>3, <2>4
<1>29. ASSUME NEW f \in Fronts, StartUnmount(f) PROVE MountInv'
  <2>1. MountTypeOK'
    BY <1>29 DEF StartUnmount, Looks, NothingSeen, MountTypeOK, DaemonPlaces, FrontPlaces, Records
  <2>2. CheckpointHeld'
    BY <1>29 DEF StartUnmount, Looks, NothingSeen, MountTypeOK, CheckpointHeld, Writing, Holds
  <2>3. Mounted'
    BY <1>29 DEF StartUnmount, Looks, NothingSeen, MountTypeOK, Mounted, Past
  <2>4. Flushed' /\ Polling'
    BY <1>29
    DEF StartUnmount, Looks, NothingSeen, MountTypeOK, CheckpointHeld, Mounted, Flushed, Polling,
        Past, Writing, Holds
  <2> QED
    BY <2>1, <2>2, <2>3, <2>4
<1>30. ASSUME NEW f \in Fronts, NEW rw \in BOOLEAN, StartMount(f, rw) PROVE MountInv'
  <2>1. MountTypeOK'
    BY <1>30 DEF StartMount, Looks, NothingSeen, MountTypeOK, DaemonPlaces, FrontPlaces, Records
  <2>2. CheckpointHeld'
    BY <1>30 DEF StartMount, Looks, NothingSeen, MountTypeOK, CheckpointHeld, Writing, Holds
  <2>3. Mounted'
    BY <1>30 DEF StartMount, Looks, NothingSeen, MountTypeOK, Mounted, Past
  <2>4. Flushed' /\ Polling'
    BY <1>30
    DEF StartMount, Looks, NothingSeen, MountTypeOK, CheckpointHeld, Mounted, Flushed, Polling,
        Past, Writing, Holds
  <2> QED
    BY <2>1, <2>2, <2>3, <2>4
<1>31. CASE ReplaceFile
  <2>1. MountTypeOK'
    BY <1>31 DEF ReplaceFile, MountTypeOK, DaemonPlaces, FrontPlaces, Records
  <2>2. CheckpointHeld'
    BY <1>31 DEF ReplaceFile, MountTypeOK, CheckpointHeld, Writing, Holds
  <2>3. Mounted'
    BY <1>31 DEF ReplaceFile, MountTypeOK, Mounted, Past
  <2>4. Flushed' /\ Polling'
    BY <1>31
    DEF ReplaceFile, MountTypeOK, CheckpointHeld, Mounted, Flushed, Polling, Past, Writing, Holds
  <2> QED
    BY <2>1, <2>2, <2>3, <2>4
<1>32. CASE Resolve
  <2>1. MountTypeOK'
    BY <1>32 DEF Resolve, Gone, MountTypeOK, DaemonPlaces, FrontPlaces, Records
  <2>2. CheckpointHeld'
    BY <1>32 DEF Resolve, Gone, MountTypeOK, CheckpointHeld, Writing, Holds
  <2>3. Mounted'
    BY <1>32 DEF Resolve, Gone, MountTypeOK, Mounted, Past
  <2>4. Flushed' /\ Polling'
    BY <1>32
    DEF Resolve, Gone, MountTypeOK, CheckpointHeld, Mounted, Flushed, Polling, Past, Writing,
        Holds
  <2> QED
    BY <2>1, <2>2, <2>3, <2>4
<1>33. CASE UNCHANGED mountVars
  BY <1>33
  DEF mountVars, MountTypeOK, CheckpointHeld, Mounted, Flushed, Polling, Past, Writing, Holds
<1> QED
  BY <1>1, <1>2, <1>3, <1>4, <1>5, <1>6, <1>7, <1>8, <1>9, <1>10, <1>11, <1>12, <1>13, <1>14,
     <1>15, <1>16, <1>17, <1>18, <1>19, <1>20, <1>21, <1>22, <1>23, <1>24, <1>25, <1>26, <1>27,
     <1>28, <1>29, <1>30, <1>31, <1>32, <1>33
  DEF MountNext, DaemonStep, FrontStep, Environment

-----------------------------------------------------------------------------
(* What holds of every behaviour                                            *)

\* The invariant holds of every state the mount point, its daemons and its front ends reach.
THEOREM MountInvariance == MountSpec => []MountInv
<1>1. MountInit => MountInv
  BY MountInitInv
<1>2. MountInv /\ [MountNext]_mountVars => MountInv'
  BY MountStepInv
<1> QED
  BY <1>1, <1>2, PTL DEF MountSpec

\* The kernel's table, the record, the daemons and the front ends keep their types.
THEOREM MountTypes == MountSpec => []MountTypeOK
<1>1. MountInv => MountTypeOK
  BY DEF MountInv
<1> QED
  BY <1>1, MountInvariance, PTL

\* A front end that reports a writable mount flushed and validated is right about the mount
\* it detached, however many daemons and front ends run there (desktop_unmount).
THEOREM UnmountReportsTruthHolds == MountSpec => []UnmountReportsTruth
<1>1. MountInv => UnmountReportsTruth
  BY DEF MountInv, Flushed, Writing, UnmountReportsTruth
<1> QED
  BY <1>1, MountInvariance, PTL
=============================================================================
