---------------------------- MODULE MediaProofs -----------------------------
(***************************************************************************)
(* Proofs about HfeContainer, for any number of sessions and of changes by    *)
(* other programs, about FloppyWrite, for any drives, tracks and changes of   *)
(* the image, and about Containers, for any sizes of slots and extents.       *)
(***************************************************************************)
EXTENDS HfeContainer, FloppyWrite, Containers, SequenceTheorems, TLAPS

-----------------------------------------------------------------------------
(* HFE containers                                                           *)

\* From the opening of the container to its replacement.
InUse == {"opened", "indexed", "serving", "failed", "validated", "encoding"}

\* From the checkpoint to its removal.
Protected == {"serving", "failed", "validated", "encoding", "replaced", "released"}

Replacing == {"replaced", "released"}

\* Nothing is older than what is at the path.
NothingNewer ==
  \A s \in Sessions : /\ held[s] <= box.inode /\ sourceSig[s].inode <= box.inode
                      /\ sourceSig[s].stamp <= box.stamp

\* Who has a lock, on which file; only a writable session replaces one.
Stages ==
  \A s \in Sessions :
    /\ hpc[s] \in {"idle", "decoded", "released", "over"} => held[s] = 0
    /\ hpc[s] \in InUse \cup {"copying"} => held[s] = sourceSig[s].inode /\ held[s] # 0
    /\ hpc[s] \in {"indexed", "failed", "validated", "encoding", "replaced", "released"} =>
         hrw[s]
    /\ hrw[s] /\ hpc[s] \in Protected => owner = s

\* A writable session has its file for itself.
LocksExclude ==
  \A s, r \in Sessions :
    s # r /\ held[s] = held[r] /\ held[s] # 0 => ~Exclusive(s) /\ ~Exclusive(r)

AtPath(s) == sourceSig[s].stamp = box.stamp /\ held[s] \in {0, box.inode}

\* While a session works from a file that is not at the path, no edit is promised.
NoPromises ==
  \A s \in Sessions :
    hpc[s] \in InUse \cup {"copying", "decoded"} /\ ~AtPath(s) => kept = {}

\* What it decoded is still all there is.
Fresh(s) == sourceSig[s].inode = box.inode /\ sourceSig[s].stamp = box.stamp

\* What a session has decoded it has kept, and what it has replaced the file by is there.
Workspaces ==
  \A s \in Sessions :
    /\ hpc[s] \in InUse \cup {"decoded"} /\ Fresh(s) => box.edits \subseteq work[s]
    /\ hpc[s] \in Replacing /\ sourceSig[s].stamp = box.stamp => box.edits = work[s]

HfeInv ==
  /\ HfeTypeOK /\ NothingNewer /\ Stages /\ LocksExclude /\ NoPromises /\ Workspaces
  /\ SavedEditsAreKept

\* The first state satisfies the invariant.
LEMMA HfeInitInv == HfeInit => HfeInv
BY HfeAssumption DEF HfeInit, HfeInv, HfeTypeOK, NothingNewer, Stages, LocksExclude, NoPromises,
   Workspaces, SavedEditsAreKept, InUse, Protected, Replacing, SigOf, Sigs

\* The parts of the container's record, and the signatures made of them.
HfeParts ==
  /\ box.inode \in Nat \ {0} /\ box.stamp \in 0 .. MaxOutside /\ box.stamp \in Nat
  /\ box.edits \in SUBSET Sessions
  /\ BoxSig \in Sigs /\ BoxSig.inode = box.inode /\ BoxSig.stamp = box.stamp
  /\ \A s \in Sessions :
       /\ CurrentSig(s) \in Sigs
       /\ held[s] \in Nat /\ sourceSig[s].inode \in Nat /\ sourceSig[s].stamp \in Nat
       /\ LockedEdits(s) \in SUBSET Sessions
       /\ (sourceSig[s] = BoxSig) <=> Fresh(s)

\* In states of the right type the parts are.
LEMMA HfeFacts == HfeTypeOK => HfeParts
BY HfeAssumption DEF HfeParts, Fresh, HfeTypeOK, Sigs, BoxSig, SigOf, CurrentSig, LockedEdits

\* What a replacement puts at the path: another file, with the edits in it.
LEMMA Replacement ==
  ASSUME HfeTypeOK, NEW edits \in SUBSET Sessions
  PROVE  LET b == [box EXCEPT !.inode = @ + 1, !.edits = edits]
         IN  /\ b \in [inode : Nat \ {0}, stamp : 0 .. MaxOutside, edits : SUBSET Sessions]
             /\ b.inode = box.inode + 1 /\ b.stamp = box.stamp /\ b.edits = edits
<1>1. box.inode \in Nat \ {0} /\ box.inode + 1 \in Nat \ {0}
  BY DEF HfeTypeOK
<1> QED
  BY <1>1 DEF HfeTypeOK

\* Every step keeps the invariant.
LEMMA HfeStepInv == HfeInv /\ [HfeNext]_hfeVars => HfeInv'
<1> SUFFICES ASSUME HfeInv, [HfeNext]_hfeVars PROVE HfeInv'
  OBVIOUS
<1>0. HfeParts
  BY HfeFacts DEF HfeInv
<1> USE HfeAssumption, <1>0 DEF HfeParts, To, Over, checkpointVars, sessionVars, HfeInv
<1>1. ASSUME NEW s \in Sessions, DecodeLocks(s) PROVE HfeInv'
  <2>0. UNCHANGED <<box, owner, backup, hrw, work, expected, kept>> /\ hpc[s] = "idle"
    BY <1>1 DEF DecodeLocks
  <2>1. CASE /\ Lockable(s, FALSE) /\ To(s, "copying") /\ held' = [held EXCEPT ![s] = box.inode]
             /\ sourceSig' = [sourceSig EXCEPT ![s] = BoxSig]
    <3>0. /\ hpc'[s] = "copying" /\ held'[s] = box.inode /\ sourceSig'[s] = BoxSig
          /\ \A r \in Sessions \ {s} : /\ hpc'[r] = hpc[r] /\ held'[r] = held[r]
                                    /\ sourceSig'[r] = sourceSig[r]
      BY <2>1 DEF HfeTypeOK
    <3>1. HfeTypeOK'
      <4>1. held' \in [Sessions -> Nat] /\ sourceSig' \in [Sessions -> Sigs]
        BY <2>1 DEF HfeTypeOK
      <4> QED
        BY <2>0, <2>1, <4>1 DEF HfeTypeOK
    <3>2. NothingNewer' /\ Stages'
      BY <2>0, <3>0 DEF NothingNewer, Stages, InUse, Protected
    <3>3. LocksExclude'
      BY <2>0, <2>1, <3>0 DEF LocksExclude, Exclusive, Lockable
    <3>4. NoPromises'
      BY <2>0, <3>0 DEF NoPromises, AtPath, InUse
    <3>5. Workspaces' /\ SavedEditsAreKept'
      BY <2>0, <3>0 DEF Workspaces, Fresh, InUse, Replacing, SavedEditsAreKept
    <3> QED
      BY <3>1, <3>2, <3>3, <3>4, <3>5 DEF HfeInv
  <2>2. CASE Over(s) /\ sourceSig' = sourceSig
    <3>1. HfeTypeOK'
      BY <2>0, <2>2 DEF HfeTypeOK
    <3>2. NothingNewer' /\ Stages'
      BY <2>0, <2>2 DEF HfeTypeOK, NothingNewer, Stages, InUse, Protected
    <3>3. LocksExclude'
      BY <2>0, <2>2 DEF HfeTypeOK, LocksExclude, Exclusive
    <3>4. NoPromises'
      BY <2>0, <2>2 DEF HfeTypeOK, NoPromises, AtPath, InUse
    <3>5. Workspaces' /\ SavedEditsAreKept'
      BY <2>0, <2>2 DEF HfeTypeOK, Workspaces, Fresh, InUse, Replacing, SavedEditsAreKept
    <3> QED
      BY <3>1, <3>2, <3>3, <3>4, <3>5 DEF HfeInv
  <2> QED
    BY <1>1, <2>1, <2>2 DEF DecodeLocks
<1>2. ASSUME NEW s \in Sessions, DecodeCopies(s) PROVE HfeInv'
  <2>1. HfeTypeOK'
    BY <1>2 DEF DecodeCopies, HfeTypeOK
  <2>2. NothingNewer' /\ Stages'
    BY <1>2 DEF DecodeCopies, HfeTypeOK, NothingNewer, Stages, InUse, Protected
  <2>3. LocksExclude'
    BY <1>2 DEF DecodeCopies, HfeTypeOK, Stages, LocksExclude, Exclusive, InUse
  <2>4. NoPromises'
    BY <1>2 DEF DecodeCopies, HfeTypeOK, NothingNewer, Stages, LocksExclude,
       NoPromises, AtPath, InUse, Exclusive
  <2>5. Workspaces'
    BY <1>2 DEF DecodeCopies, HfeTypeOK, NothingNewer, Stages, Workspaces,
       Fresh, InUse, Protected, Replacing
  <2>6. SavedEditsAreKept'
    BY <1>2 DEF DecodeCopies, HfeTypeOK, NoPromises, AtPath, Workspaces, Fresh,
       SavedEditsAreKept, Stages, InUse, Protected, Replacing
  <2> QED
    BY <2>1, <2>2, <2>3, <2>4, <2>5, <2>6 DEF HfeInv
<1>3. ASSUME NEW s \in Sessions, OpenContainer(s) PROVE HfeInv'
  <2>1. HfeTypeOK'
    BY <1>3 DEF OpenContainer, SameSource, HfeTypeOK
  <2>2. NothingNewer' /\ Stages'
    BY <1>3 DEF OpenContainer, SameSource, HfeTypeOK, NothingNewer, Stages, InUse, Protected
  <2>3. LocksExclude'
    BY <1>3
    DEF OpenContainer, SameSource, HfeTypeOK, Stages, LocksExclude, Exclusive, InUse, Lockable
  <2>4. NoPromises'
    BY <1>3 DEF OpenContainer, SameSource, HfeTypeOK, NothingNewer, Stages, LocksExclude,
       NoPromises, AtPath, InUse, Exclusive
  <2>5. Workspaces'
    BY <1>3 DEF OpenContainer, SameSource, HfeTypeOK, NothingNewer, Stages, Workspaces,
       Fresh, InUse, Protected, Replacing
  <2>6. SavedEditsAreKept'
    BY <1>3 DEF OpenContainer, SameSource, HfeTypeOK, NoPromises, AtPath, Workspaces, Fresh,
       SavedEditsAreKept, Stages, InUse, Protected, Replacing
  <2> QED
    BY <2>1, <2>2, <2>3, <2>4, <2>5, <2>6 DEF HfeInv
<1>4. ASSUME NEW s \in Sessions, IndexContainer(s) PROVE HfeInv'
  <2>1. HfeTypeOK'
    BY <1>4 DEF IndexContainer, HfeTypeOK
  <2>2. NothingNewer' /\ Stages'
    BY <1>4 DEF IndexContainer, HfeTypeOK, NothingNewer, Stages, InUse, Protected
  <2>3. LocksExclude'
    BY <1>4 DEF IndexContainer, HfeTypeOK, Stages, LocksExclude, Exclusive, InUse
  <2>4. NoPromises'
    BY <1>4 DEF IndexContainer, HfeTypeOK, NothingNewer, Stages, LocksExclude,
       NoPromises, AtPath, InUse, Exclusive
  <2>5. Workspaces'
    BY <1>4 DEF IndexContainer, HfeTypeOK, NothingNewer, Stages, Workspaces,
       Fresh, InUse, Protected, Replacing
  <2>6. SavedEditsAreKept'
    BY <1>4 DEF IndexContainer, HfeTypeOK, NoPromises, AtPath, Workspaces, Fresh,
       SavedEditsAreKept, Stages, InUse, Protected, Replacing
  <2> QED
    BY <2>1, <2>2, <2>3, <2>4, <2>5, <2>6 DEF HfeInv
<1>5. ASSUME NEW s \in Sessions, CheckpointContainer(s) PROVE HfeInv'
  <2>1. HfeTypeOK'
    BY <1>5 DEF CheckpointContainer, LockedEdits, HfeTypeOK
  <2>2. NothingNewer' /\ Stages'
    BY <1>5 DEF CheckpointContainer, LockedEdits, HfeTypeOK, NothingNewer, Stages, InUse, Protected
  <2>3. LocksExclude'
    BY <1>5 DEF CheckpointContainer, LockedEdits, HfeTypeOK, Stages, LocksExclude, Exclusive, InUse
  <2>4. NoPromises'
    BY <1>5 DEF CheckpointContainer, LockedEdits, HfeTypeOK, NothingNewer, Stages, LocksExclude,
       NoPromises, AtPath, InUse, Exclusive
  <2>5. Workspaces'
    BY <1>5 DEF CheckpointContainer, LockedEdits, HfeTypeOK, NothingNewer, Stages, Workspaces,
       Fresh, InUse, Protected, Replacing
  <2>6. SavedEditsAreKept'
    BY <1>5 DEF CheckpointContainer, LockedEdits, HfeTypeOK, NoPromises, AtPath, Workspaces, Fresh,
       SavedEditsAreKept, Stages, InUse, Protected, Replacing
  <2> QED
    BY <2>1, <2>2, <2>3, <2>4, <2>5, <2>6 DEF HfeInv
<1>6. ASSUME NEW s \in Sessions, EditContainer(s) PROVE HfeInv'
  <2>1. HfeTypeOK'
    BY <1>6 DEF EditContainer, HfeTypeOK
  <2>2. NothingNewer' /\ Stages'
    BY <1>6 DEF EditContainer, HfeTypeOK, NothingNewer, Stages, InUse, Protected
  <2>3. LocksExclude'
    BY <1>6 DEF EditContainer, HfeTypeOK, Stages, LocksExclude, Exclusive, InUse
  <2>4. NoPromises'
    BY <1>6 DEF EditContainer, HfeTypeOK, NothingNewer, Stages, LocksExclude,
       NoPromises, AtPath, InUse, Exclusive
  <2>5. Workspaces'
    BY <1>6 DEF EditContainer, HfeTypeOK, NothingNewer, Stages, Workspaces,
       Fresh, InUse, Protected, Replacing
  <2>6. SavedEditsAreKept'
    BY <1>6 DEF EditContainer, HfeTypeOK, NoPromises, AtPath, Workspaces, Fresh,
       SavedEditsAreKept, Stages, InUse, Protected, Replacing
  <2> QED
    BY <2>1, <2>2, <2>3, <2>4, <2>5, <2>6 DEF HfeInv
<1>7. ASSUME NEW s \in Sessions, CloseContainer(s) PROVE HfeInv'
  <2>1. HfeTypeOK'
    BY <1>7 DEF CloseContainer, HfeTypeOK
  <2>2. NothingNewer' /\ Stages'
    BY <1>7 DEF CloseContainer, HfeTypeOK, NothingNewer, Stages, InUse, Protected
  <2>3. LocksExclude'
    BY <1>7 DEF CloseContainer, HfeTypeOK, Stages, LocksExclude, Exclusive, InUse
  <2>4. NoPromises'
    BY <1>7 DEF CloseContainer, HfeTypeOK, NothingNewer, Stages, LocksExclude,
       NoPromises, AtPath, InUse, Exclusive
  <2>5. Workspaces'
    BY <1>7 DEF CloseContainer, HfeTypeOK, NothingNewer, Stages, Workspaces,
       Fresh, InUse, Protected, Replacing
  <2>6. SavedEditsAreKept'
    BY <1>7 DEF CloseContainer, HfeTypeOK, NoPromises, AtPath, Workspaces, Fresh,
       SavedEditsAreKept, Stages, InUse, Protected, Replacing
  <2> QED
    BY <2>1, <2>2, <2>3, <2>4, <2>5, <2>6 DEF HfeInv
<1>8. ASSUME NEW s \in Sessions, CompareContainer(s) PROVE HfeInv'
  <2>1. HfeTypeOK'
    BY <1>8 DEF CompareContainer, HfeTypeOK
  <2>2. NothingNewer' /\ Stages'
    BY <1>8 DEF CompareContainer, HfeTypeOK, NothingNewer, Stages, InUse, Protected
  <2>3. LocksExclude'
    BY <1>8 DEF CompareContainer, HfeTypeOK, Stages, LocksExclude, Exclusive, InUse
  <2>4. NoPromises'
    BY <1>8 DEF CompareContainer, HfeTypeOK, NothingNewer, Stages, LocksExclude,
       NoPromises, AtPath, InUse, Exclusive
  <2>5. Workspaces'
    BY <1>8 DEF CompareContainer, HfeTypeOK, NothingNewer, Stages, Workspaces,
       Fresh, InUse, Protected, Replacing
  <2>6. SavedEditsAreKept'
    BY <1>8 DEF CompareContainer, HfeTypeOK, NoPromises, AtPath, Workspaces, Fresh,
       SavedEditsAreKept, Stages, InUse, Protected, Replacing
  <2> QED
    BY <2>1, <2>2, <2>3, <2>4, <2>5, <2>6 DEF HfeInv
<1>9. ASSUME NEW s \in Sessions, ReplaceContainer(s) PROVE HfeInv'
  <2>0. /\ box' \in [inode : Nat \ {0}, stamp : 0 .. MaxOutside, edits : SUBSET Sessions]
        /\ \/ box' = box
           \/ box'.inode = box.inode + 1 /\ box'.stamp = box.stamp /\ box'.edits = work[s]
    <3>1. work[s] \in SUBSET Sessions
      BY DEF HfeTypeOK
    <3>2. CASE box' = [box EXCEPT !.inode = @ + 1, !.edits = work[s]]
      BY <3>1, <3>2, Replacement
    <3>3. CASE box' = box
      BY <3>3 DEF HfeTypeOK
    <3> QED
      BY <1>9, <3>2, <3>3 DEF ReplaceContainer
  <2>1. HfeTypeOK'
    <3>1. hpc' \in [Sessions -> {"idle", "copying", "decoded", "opened", "indexed", "serving",
                                "failed", "validated", "encoding", "replaced", "released",
                                "over"}]
          /\ held' \in [Sessions -> Nat]
      BY <1>9 DEF ReplaceContainer, HfeTypeOK
    <3>2. UNCHANGED <<owner, backup, hrw, sourceSig, work, expected, kept>>
      BY <1>9 DEF ReplaceContainer
    <3> QED
      BY <2>0, <3>1, <3>2 DEF HfeTypeOK
  <2>2. NothingNewer' /\ Stages'
    BY <1>9, <2>0 DEF ReplaceContainer, HfeTypeOK, NothingNewer, Stages, InUse, Protected
  <2>3. LocksExclude'
    BY <1>9, <2>0 DEF ReplaceContainer, HfeTypeOK, Stages, LocksExclude, Exclusive, InUse
  <2>4. NoPromises'
    BY <1>9, <2>0 DEF ReplaceContainer, HfeTypeOK, NothingNewer, Stages, LocksExclude,
       NoPromises, AtPath, InUse, Exclusive
  <2>5. Workspaces'
    <3>1. /\ \A r \in Sessions \ {s} : hpc'[r] = hpc[r] /\ hpc[r] \notin Replacing
          /\ hpc'[s] \in {"replaced", "over"} /\ (box' = box => hpc'[s] = "over")
          /\ UNCHANGED <<sourceSig, work>>
      <4>1. hpc[s] = "encoding" /\ UNCHANGED <<sourceSig, work>>
        BY <1>9 DEF ReplaceContainer
      <4>2. owner = s /\ \A r \in Sessions : hpc[r] \in Replacing => owner = r
        BY <4>1 DEF Stages, Protected, Replacing
      <4>3. \A r \in Sessions \ {s} : hpc'[r] = hpc[r]
        BY <1>9 DEF ReplaceContainer, HfeTypeOK
      <4>4. hpc'[s] \in {"replaced", "over"}
        BY <1>9 DEF ReplaceContainer, HfeTypeOK
      <4>5. hpc'[s] = "over" \/ box'.inode = box.inode + 1
        <5>1. work[s] \in SUBSET Sessions
          BY DEF HfeTypeOK
        <5>2. CASE box' = [box EXCEPT !.inode = @ + 1, !.edits = work[s]]
          BY <5>1, <5>2, Replacement
        <5>3. CASE hpc' = [hpc EXCEPT ![s] = "over"]
          BY <5>3 DEF HfeTypeOK
        <5> QED
          BY <1>9, <5>2, <5>3 DEF ReplaceContainer
      <4> QED
        BY <4>1, <4>2, <4>3, <4>4, <4>5
    <3>2. ASSUME NEW r \in Sessions, hpc'[r] \in InUse \cup {"decoded"}, Fresh(r)'
          PROVE  box'.edits \subseteq work'[r]
      <4>1. r # s /\ sourceSig[r].inode <= box.inode
        BY <3>1, <3>2 DEF InUse, NothingNewer
      <4>2. box' = box
        BY <2>0, <3>1, <3>2, <4>1 DEF Fresh
      <4> QED
        BY <3>1, <3>2, <4>1, <4>2 DEF Fresh, Workspaces
    <3>3. ASSUME NEW r \in Sessions, hpc'[r] \in Replacing PROVE box'.edits = work'[r]
      BY <2>0, <3>1, <3>3 DEF Replacing
    <3> QED
      BY <3>2, <3>3 DEF Workspaces
  <2>6. SavedEditsAreKept'
    BY <1>9, <2>0 DEF ReplaceContainer, HfeTypeOK, NoPromises, AtPath, Workspaces, Fresh,
       SavedEditsAreKept, Stages, InUse, Protected, Replacing
  <2> QED
    BY <2>1, <2>2, <2>3, <2>4, <2>5, <2>6 DEF HfeInv
<1>10. ASSUME NEW s \in Sessions, ReleaseContainer(s) PROVE HfeInv'
  <2>1. HfeTypeOK'
    BY <1>10 DEF ReleaseContainer, HfeTypeOK
  <2>2. NothingNewer' /\ Stages'
    BY <1>10 DEF ReleaseContainer, HfeTypeOK, NothingNewer, Stages, InUse, Protected
  <2>3. LocksExclude'
    BY <1>10 DEF ReleaseContainer, HfeTypeOK, Stages, LocksExclude, Exclusive, InUse
  <2>4. NoPromises'
    BY <1>10 DEF ReleaseContainer, HfeTypeOK, NothingNewer, Stages, LocksExclude,
       NoPromises, AtPath, InUse, Exclusive
  <2>5. Workspaces'
    BY <1>10 DEF ReleaseContainer, HfeTypeOK, NothingNewer, Stages, Workspaces,
       Fresh, InUse, Protected, Replacing
  <2>6. SavedEditsAreKept'
    BY <1>10 DEF ReleaseContainer, HfeTypeOK, NoPromises, AtPath, Workspaces, Fresh,
       SavedEditsAreKept, Stages, InUse, Protected, Replacing
  <2> QED
    BY <2>1, <2>2, <2>3, <2>4, <2>5, <2>6 DEF HfeInv
<1>11. ASSUME NEW s \in Sessions, CompleteContainer(s) PROVE HfeInv'
  <2>1. HfeTypeOK'
    BY <1>11 DEF CompleteContainer, Undisturbed, HfeTypeOK
  <2>2. NothingNewer' /\ Stages'
    BY <1>11 DEF CompleteContainer, Undisturbed, HfeTypeOK, NothingNewer, Stages, InUse, Protected
  <2>3. LocksExclude'
    BY <1>11 DEF CompleteContainer, Undisturbed, HfeTypeOK, Stages, LocksExclude, Exclusive, InUse
  <2>4. NoPromises'
    BY <1>11 DEF CompleteContainer, Undisturbed, HfeTypeOK, NothingNewer, Stages, LocksExclude,
       NoPromises, AtPath, InUse, Exclusive
  <2>5. Workspaces'
    BY <1>11 DEF CompleteContainer, Undisturbed, HfeTypeOK, NothingNewer, Stages, Workspaces,
       Fresh, InUse, Protected, Replacing
  <2>6. SavedEditsAreKept'
    BY <1>11 DEF CompleteContainer, Undisturbed, HfeTypeOK, NoPromises, AtPath, Workspaces, Fresh,
       SavedEditsAreKept, Stages, InUse, Protected, Replacing
  <2> QED
    BY <2>1, <2>2, <2>3, <2>4, <2>5, <2>6 DEF HfeInv
<1>12. ASSUME NEW s \in Sessions, KilledSession(s) PROVE HfeInv'
  <2>1. HfeTypeOK'
    BY <1>12 DEF KilledSession, HfeTypeOK
  <2>2. NothingNewer' /\ Stages'
    BY <1>12 DEF KilledSession, HfeTypeOK, NothingNewer, Stages, InUse, Protected
  <2>3. LocksExclude'
    BY <1>12 DEF KilledSession, HfeTypeOK, Stages, LocksExclude, Exclusive, InUse
  <2>4. NoPromises'
    BY <1>12 DEF KilledSession, HfeTypeOK, NothingNewer, Stages, LocksExclude,
       NoPromises, AtPath, InUse, Exclusive
  <2>5. Workspaces'
    BY <1>12 DEF KilledSession, HfeTypeOK, NothingNewer, Stages, Workspaces,
       Fresh, InUse, Protected, Replacing
  <2>6. SavedEditsAreKept'
    BY <1>12 DEF KilledSession, HfeTypeOK, NoPromises, AtPath, Workspaces, Fresh,
       SavedEditsAreKept, Stages, InUse, Protected, Replacing
  <2> QED
    BY <2>1, <2>2, <2>3, <2>4, <2>5, <2>6 DEF HfeInv
<1>13. CASE OutsideChange
  <2>0. /\ box'.inode \in {box.inode, box.inode + 1} /\ box'.stamp = box.stamp + 1
        /\ box'.edits = {} /\ box.stamp < MaxOutside
    BY <1>13 DEF OutsideChange
  <2>1. HfeTypeOK'
    BY <1>13, <2>0 DEF OutsideChange, HfeTypeOK
  <2>2. NothingNewer' /\ Stages'
    BY <1>13, <2>0 DEF OutsideChange, HfeTypeOK, NothingNewer, Stages, InUse, Protected
  <2>3. LocksExclude'
    BY <1>13, <2>0 DEF OutsideChange, HfeTypeOK, Stages, LocksExclude, Exclusive, InUse
  <2>4. NoPromises'
    BY <1>13, <2>0 DEF OutsideChange, HfeTypeOK, NothingNewer, Stages, LocksExclude,
       NoPromises, AtPath, InUse, Exclusive
  <2>5. Workspaces'
    BY <1>13, <2>0 DEF OutsideChange, HfeTypeOK, NothingNewer, Stages, Workspaces,
       Fresh, InUse, Protected, Replacing
  <2>6. SavedEditsAreKept'
    BY <1>13, <2>0 DEF OutsideChange, HfeTypeOK, NoPromises, AtPath, Workspaces, Fresh,
       SavedEditsAreKept, Stages, InUse, Protected, Replacing
  <2> QED
    BY <2>1, <2>2, <2>3, <2>4, <2>5, <2>6 DEF HfeInv
<1>14. CASE ResolveCheckpoint
  <2>0. /\ box' \in [inode : Nat \ {0}, stamp : 0 .. MaxOutside, edits : SUBSET Sessions]
        /\ \/ box' = box
           \/ box'.inode = box.inode + 1 /\ box'.stamp = box.stamp /\ box'.edits = backup
    <3>1. /\ backup \in SUBSET Sessions
          /\ box \in [inode : Nat \ {0}, stamp : 0 .. MaxOutside, edits : SUBSET Sessions]
      BY DEF HfeInv, HfeTypeOK
    <3>2. box' = box \/ box' = [box EXCEPT !.inode = @ + 1, !.edits = backup]
      BY <1>14 DEF ResolveCheckpoint
    <3>3. CASE box' = box
      BY <3>1, <3>3
    <3>4. CASE box' = [box EXCEPT !.inode = @ + 1, !.edits = backup]
      BY <1>0, <3>1, <3>4, Replacement
    <3> QED
      BY <3>2, <3>3, <3>4
  <2>1. HfeTypeOK'
    <3>1. UNCHANGED sessionVars /\ owner' = NoSession /\ backup' = {}
      BY <1>14 DEF ResolveCheckpoint
    <3> QED
      BY <2>0, <3>1 DEF HfeTypeOK
  <2>2. NothingNewer' /\ Stages'
    BY <1>14, <2>0 DEF ResolveCheckpoint, HfeTypeOK, NothingNewer, Stages, InUse, Protected
  <2>3. LocksExclude'
    BY <1>14, <2>0 DEF ResolveCheckpoint, HfeTypeOK, Stages, LocksExclude, Exclusive, InUse
  <2>4. NoPromises'
    BY <1>14, <2>0 DEF ResolveCheckpoint, HfeTypeOK, NothingNewer, Stages, LocksExclude,
       NoPromises, AtPath, InUse, Exclusive
  <2>5. Workspaces'
    BY <1>14, <2>0 DEF ResolveCheckpoint, HfeTypeOK, NothingNewer, Stages, Workspaces,
       Fresh, InUse, Protected, Replacing
  <2>6. SavedEditsAreKept'
    BY <1>14, <2>0 DEF ResolveCheckpoint, HfeTypeOK, NoPromises, AtPath, Workspaces, Fresh,
       SavedEditsAreKept, Stages, InUse, Protected, Replacing
  <2> QED
    BY <2>1, <2>2, <2>3, <2>4, <2>5, <2>6 DEF HfeInv
<1>15. CASE UNCHANGED hfeVars
  BY <1>15 DEF hfeVars, HfeTypeOK, NothingNewer, Stages, LocksExclude, Exclusive,
     NoPromises, AtPath, Workspaces, Fresh, SavedEditsAreKept
<1> QED
  BY <1>1, <1>2, <1>3, <1>4, <1>5, <1>6, <1>7, <1>8, <1>9, <1>10, <1>11, <1>12, <1>13, <1>14,
     <1>15
  DEF HfeNext

\* HfeInv is an invariant of the container and its sessions.
THEOREM HfeInvariance == HfeSpec => []HfeInv
<1>1. HfeInv /\ [HfeNext]_hfeVars => HfeInv'
  BY HfeStepInv
<1> QED
  BY HfeInitInv, <1>1, PTL DEF HfeSpec

\* The variables keep their types, with any number of sessions and of changes.
THEOREM HfeTypes == HfeSpec => []HfeTypeOK
<1>1. HfeInv => HfeTypeOK
  BY DEF HfeInv
<1> QED
  BY HfeInvariance, <1>1, PTL

\* What sessions that nothing disturbed have saved stays in the container and in the
\* checkpoint that would be restored (image.py, hfe.py).
THEOREM SavedEditsAreKeptHolds == HfeSpec => []SavedEditsAreKept
<1>1. HfeInv => SavedEditsAreKept
  BY DEF HfeInv
<1> QED
  BY HfeInvariance, <1>1, PTL

-----------------------------------------------------------------------------
(* Writing a floppy                                                         *)

\* The copy is the image as long as the image has the stat from before it.
CopyIsCurrent ==
  /\ wpc \in {"stat", "copy"} => floppyImage \in wholes
  /\ wpc \in {"probe", "select", "confirm", "stat"} => snapshot = <<>>
  /\ wpc = "copy" =>
       /\ Len(snapshot) <= MaxTrack /\ statBefore <= edition
       /\ edition = statBefore =>
            \A t \in 1 .. Len(snapshot) : snapshot[t] = floppyImage[t]

\* gw is started on a whole copy, for a drive that was offered.
CopyIsWhole ==
  /\ wpc \in {"probe", "select", "confirm", "stat", "copy", "start"} => gw = "none"
  /\ wpc \in {"confirm", "stat", "copy", "start"} \/ gw # "none" => drive \in offered
  /\ wpc = "start" \/ gw # "none" => snapshot \in wholes /\ Len(snapshot) = MaxTrack
  /\ wpc \in {"cancel", "judge"} => gw = "ended"

\* What gw has written so far, and what it may say of it.
Written ==
  /\ gw = "none" => gwTrack = 0 /\ ~gwSays
  /\ \A d \in Drives, t \in Tracks :
       IF d = drive /\ t <= gwTrack THEN floppies[d][t] \in {snapshot[t], Bad}
       ELSE floppies[d][t] = Old
  /\ gwSays => gwTrack = MaxTrack /\ \A t \in Tracks : floppies[drive][t] # Bad

\* The watchdog runs while the output is read; the verdict is the last step.
Verdicts ==
  /\ gw = "none" => watchdog = "off"
  /\ wpc \in {"judge", "done"} => watchdog # "armed"
  /\ wpc # "done" => wres = "none"
  /\ wres = "written" => gw = "ended" /\ gwSays /\ watchdog = "off"

FloppyInv == FloppyTypeOK /\ CopyIsCurrent /\ CopyIsWhole /\ Written /\ Verdicts

\* No drive has the name of none, and the surfaces are told apart.
LEMMA FloppyConstants ==
  /\ NoDrive \notin Drives /\ Old \notin Editions /\ Bad \notin Editions /\ Old # Bad
  /\ MaxTrack \in Nat \ {0} /\ MaxEdition \in Nat
BY FloppyAssumption DEF Drives, Editions

\* The first state satisfies the invariant.
LEMMA FloppyInitInv == FloppyInit => FloppyInv
<1> SUFFICES ASSUME FloppyInit PROVE FloppyInv
  OBVIOUS
<1>1. FloppyTypeOK
  <2>1. 0 \in Editions /\ 0 \in 0 .. MaxTrack
    BY FloppyConstants DEF Editions
  <2>2. floppyImage \in [Tracks -> Editions] /\ floppies \in [Drives -> [Tracks -> Surface]]
    BY <2>1 DEF FloppyInit, Surface
  <2>3. snapshot \in Seq(Editions) /\ wholes \in SUBSET [Tracks -> Editions]
    BY DEF FloppyInit
  <2> QED
    BY <2>1, <2>2, <2>3 DEF FloppyInit, FloppyTypeOK
<1>2. Written
  BY FloppyConstants DEF FloppyInit, Written, Tracks
<1>3. CopyIsCurrent /\ CopyIsWhole /\ Verdicts
  BY DEF FloppyInit, CopyIsCurrent, CopyIsWhole, Verdicts
<1> QED
  BY <1>1, <1>2, <1>3 DEF FloppyInv

\* Every step keeps the invariant.
LEMMA FloppyStepInv == FloppyInv /\ [FloppyNext]_floppyVars => FloppyInv'
<1> SUFFICES ASSUME FloppyInv, [FloppyNext]_floppyVars PROVE FloppyInv'
  OBVIOUS
<1> USE FloppyConstants DEF FloppyInv, Stage, Result, fileVars, gwVars, writerVars
<1>1. CASE ProbeDrives
  <2>1. FloppyTypeOK'
    BY <1>1 DEF ProbeDrives, Offer, FloppyTypeOK, Tracks, Editions, Surface
  <2>2. CopyIsCurrent'
    BY <1>1 DEF ProbeDrives, Offer, FloppyTypeOK, CopyIsCurrent, CopyIsWhole, Tracks, Editions
  <2>3. CopyIsWhole'
    BY <1>1 DEF ProbeDrives, Offer, FloppyTypeOK, CopyIsCurrent, CopyIsWhole, Tracks
  <2>4. Written'
    BY <1>1 DEF ProbeDrives, Offer, FloppyTypeOK, CopyIsWhole, Written, Tracks
  <2>5. Verdicts'
    BY <1>1 DEF ProbeDrives, Offer, FloppyTypeOK, CopyIsWhole, Verdicts
  <2> QED
    BY <2>1, <2>2, <2>3, <2>4, <2>5
<1>2. CASE SelectDrive
  <2>1. FloppyTypeOK'
    BY <1>2 DEF SelectDrive, FloppyTypeOK, Tracks, Editions, Surface
  <2>2. CopyIsCurrent'
    BY <1>2 DEF SelectDrive, FloppyTypeOK, CopyIsCurrent, CopyIsWhole, Tracks, Editions
  <2>3. CopyIsWhole'
    BY <1>2 DEF SelectDrive, FloppyTypeOK, CopyIsCurrent, CopyIsWhole, Tracks
  <2>4. Written'
    BY <1>2 DEF SelectDrive, FloppyTypeOK, CopyIsWhole, Written, Tracks
  <2>5. Verdicts'
    BY <1>2 DEF SelectDrive, FloppyTypeOK, CopyIsWhole, Verdicts
  <2> QED
    BY <2>1, <2>2, <2>3, <2>4, <2>5
<1>3. CASE ConfirmOverwrite
  <2>1. FloppyTypeOK'
    BY <1>3 DEF ConfirmOverwrite, FloppyTypeOK, Tracks, Editions, Surface
  <2>2. CopyIsCurrent'
    BY <1>3 DEF ConfirmOverwrite, FloppyTypeOK, CopyIsCurrent, CopyIsWhole, Tracks, Editions
  <2>3. CopyIsWhole'
    BY <1>3 DEF ConfirmOverwrite, FloppyTypeOK, CopyIsCurrent, CopyIsWhole, Tracks
  <2>4. Written'
    BY <1>3 DEF ConfirmOverwrite, FloppyTypeOK, CopyIsWhole, Written, Tracks
  <2>5. Verdicts'
    BY <1>3 DEF ConfirmOverwrite, FloppyTypeOK, CopyIsWhole, Verdicts
  <2> QED
    BY <2>1, <2>2, <2>3, <2>4, <2>5
<1>4. CASE StatImage
  <2>1. FloppyTypeOK'
    BY <1>4 DEF StatImage, FloppyTypeOK, Tracks, Editions, Surface
  <2>2. CopyIsCurrent'
    BY <1>4 DEF StatImage, FloppyTypeOK, CopyIsCurrent, CopyIsWhole, Tracks, Editions
  <2>3. CopyIsWhole'
    BY <1>4 DEF StatImage, FloppyTypeOK, CopyIsCurrent, CopyIsWhole, Tracks
  <2>4. Written'
    BY <1>4 DEF StatImage, FloppyTypeOK, CopyIsWhole, Written, Tracks
  <2>5. Verdicts'
    BY <1>4 DEF StatImage, FloppyTypeOK, CopyIsWhole, Verdicts
  <2> QED
    BY <2>1, <2>2, <2>3, <2>4, <2>5
<1>5. CASE CopyTrack
  <2>1. FloppyTypeOK'
    BY <1>5 DEF CopyTrack, FloppyTypeOK, Tracks, Editions, Surface
  <2>2. CopyIsCurrent'
    BY <1>5 DEF CopyTrack, FloppyTypeOK, CopyIsCurrent, CopyIsWhole, Tracks, Editions
  <2>3. CopyIsWhole'
    BY <1>5 DEF CopyTrack, FloppyTypeOK, CopyIsCurrent, CopyIsWhole, Tracks
  <2>4. Written'
    BY <1>5 DEF CopyTrack, FloppyTypeOK, CopyIsWhole, Written, Tracks
  <2>5. Verdicts'
    BY <1>5 DEF CopyTrack, FloppyTypeOK, CopyIsWhole, Verdicts
  <2> QED
    BY <2>1, <2>2, <2>3, <2>4, <2>5
<1>6. CASE CompareStat
  <2>1. FloppyTypeOK'
    BY <1>6 DEF CompareStat, Stable, FloppyTypeOK, Tracks, Editions, Surface
  <2>2. CopyIsCurrent'
    BY <1>6 DEF CompareStat, Stable, FloppyTypeOK, CopyIsCurrent, CopyIsWhole, Tracks, Editions
  <2>3. CopyIsWhole'
    BY <1>6 DEF CompareStat, Stable, FloppyTypeOK, CopyIsCurrent, CopyIsWhole, Tracks
  <2>4. Written'
    BY <1>6 DEF CompareStat, Stable, FloppyTypeOK, CopyIsWhole, Written, Tracks
  <2>5. Verdicts'
    BY <1>6 DEF CompareStat, Stable, FloppyTypeOK, CopyIsWhole, Verdicts
  <2> QED
    BY <2>1, <2>2, <2>3, <2>4, <2>5
<1>7. CASE StartGw
  <2>1. FloppyTypeOK'
    BY <1>7 DEF StartGw, FloppyTypeOK, Tracks, Editions, Surface
  <2>2. CopyIsCurrent'
    BY <1>7 DEF StartGw, FloppyTypeOK, CopyIsCurrent, CopyIsWhole, Tracks, Editions
  <2>3. CopyIsWhole'
    BY <1>7 DEF StartGw, FloppyTypeOK, CopyIsCurrent, CopyIsWhole, Tracks
  <2>4. Written'
    BY <1>7 DEF StartGw, FloppyTypeOK, CopyIsWhole, Written, Tracks
  <2>5. Verdicts'
    BY <1>7 DEF StartGw, FloppyTypeOK, CopyIsWhole, Verdicts
  <2> QED
    BY <2>1, <2>2, <2>3, <2>4, <2>5
<1>8. CASE AwaitGw
  <2>1. FloppyTypeOK'
    BY <1>8 DEF AwaitGw, FloppyTypeOK, Tracks, Editions, Surface
  <2>2. CopyIsCurrent'
    BY <1>8 DEF AwaitGw, FloppyTypeOK, CopyIsCurrent, CopyIsWhole, Tracks, Editions
  <2>3. CopyIsWhole'
    BY <1>8 DEF AwaitGw, FloppyTypeOK, CopyIsCurrent, CopyIsWhole, Tracks
  <2>4. Written'
    BY <1>8 DEF AwaitGw, FloppyTypeOK, CopyIsWhole, Written, Tracks
  <2>5. Verdicts'
    BY <1>8 DEF AwaitGw, FloppyTypeOK, CopyIsWhole, Verdicts
  <2> QED
    BY <2>1, <2>2, <2>3, <2>4, <2>5
<1>9. CASE InterruptWrite
  <2>1. FloppyTypeOK'
    BY <1>9 DEF InterruptWrite, FloppyTypeOK, Tracks, Editions, Surface
  <2>2. CopyIsCurrent'
    BY <1>9 DEF InterruptWrite, FloppyTypeOK, CopyIsCurrent, CopyIsWhole, Tracks, Editions
  <2>3. CopyIsWhole'
    BY <1>9 DEF InterruptWrite, FloppyTypeOK, CopyIsCurrent, CopyIsWhole, Tracks
  <2>4. Written'
    BY <1>9 DEF InterruptWrite, FloppyTypeOK, CopyIsWhole, Written, Tracks
  <2>5. Verdicts'
    BY <1>9 DEF InterruptWrite, FloppyTypeOK, CopyIsWhole, Verdicts
  <2> QED
    BY <2>1, <2>2, <2>3, <2>4, <2>5
<1>10. CASE CancelWatchdog
  <2>1. FloppyTypeOK'
    BY <1>10 DEF CancelWatchdog, FloppyTypeOK, Tracks, Editions, Surface
  <2>2. CopyIsCurrent'
    BY <1>10 DEF CancelWatchdog, FloppyTypeOK, CopyIsCurrent, CopyIsWhole, Tracks, Editions
  <2>3. CopyIsWhole'
    BY <1>10 DEF CancelWatchdog, FloppyTypeOK, CopyIsCurrent, CopyIsWhole, Tracks
  <2>4. Written'
    BY <1>10 DEF CancelWatchdog, FloppyTypeOK, CopyIsWhole, Written, Tracks
  <2>5. Verdicts'
    BY <1>10 DEF CancelWatchdog, FloppyTypeOK, CopyIsWhole, Verdicts
  <2> QED
    BY <2>1, <2>2, <2>3, <2>4, <2>5
<1>11. CASE JudgeWrite
  <2>1. FloppyTypeOK'
    BY <1>11 DEF JudgeWrite, Verdict, FloppyTypeOK, Tracks, Editions, Surface
  <2>2. CopyIsCurrent'
    BY <1>11 DEF JudgeWrite, Verdict, FloppyTypeOK, CopyIsCurrent, CopyIsWhole, Tracks, Editions
  <2>3. CopyIsWhole'
    BY <1>11 DEF JudgeWrite, Verdict, FloppyTypeOK, CopyIsCurrent, CopyIsWhole, Tracks
  <2>4. Written'
    BY <1>11 DEF JudgeWrite, Verdict, FloppyTypeOK, CopyIsWhole, Written, Tracks
  <2>5. Verdicts'
    BY <1>11 DEF JudgeWrite, Verdict, FloppyTypeOK, CopyIsWhole, Verdicts
  <2> QED
    BY <2>1, <2>2, <2>3, <2>4, <2>5
<1>12. CASE WatchdogFires
  <2>1. FloppyTypeOK'
    BY <1>12 DEF WatchdogFires, FloppyTypeOK, Tracks, Editions, Surface
  <2>2. CopyIsCurrent'
    BY <1>12 DEF WatchdogFires, FloppyTypeOK, CopyIsCurrent, CopyIsWhole, Tracks, Editions
  <2>3. CopyIsWhole'
    BY <1>12 DEF WatchdogFires, FloppyTypeOK, CopyIsCurrent, CopyIsWhole, Tracks
  <2>4. Written'
    BY <1>12 DEF WatchdogFires, FloppyTypeOK, CopyIsWhole, Written, Tracks
  <2>5. Verdicts'
    BY <1>12 DEF WatchdogFires, FloppyTypeOK, CopyIsWhole, Verdicts
  <2> QED
    BY <2>1, <2>2, <2>3, <2>4, <2>5
<1>13. CASE GwWrites
  <2>0. PICK x \in Surface :
          /\ floppies' = [floppies EXCEPT ![drive][gwTrack + 1] = x]
          /\ x \in {snapshot[gwTrack + 1], Bad}
    <3>1. gwTrack + 1 \in 1 .. Len(snapshot)
      BY <1>13 DEF GwWrites, FloppyTypeOK, CopyIsWhole
    <3>2. snapshot[gwTrack + 1] \in Surface /\ Bad \in Surface
      BY <3>1 DEF FloppyTypeOK, Surface
    <3> QED
      BY <1>13, <3>2 DEF GwWrites
  <2>a. /\ drive \in Drives /\ gwTrack \in Nat /\ gwTrack + 1 \in Tracks
        /\ gwTrack < MaxTrack /\ gwTrack' = gwTrack + 1
        /\ UNCHANGED <<fileVars, gw, gwSays, gwCode, watchdog, writerVars>>
    BY <1>13 DEF GwWrites, CopyIsWhole, FloppyTypeOK, Tracks
  <2>b. /\ floppies' \in [Drives -> [Tracks -> Surface]]
        /\ \A d \in Drives, t \in Tracks :
             floppies'[d][t] = IF d = drive /\ t = gwTrack + 1 THEN x ELSE floppies[d][t]
    BY <2>0, <2>a DEF FloppyTypeOK
  <2>1. FloppyTypeOK'
    BY <2>a, <2>b DEF FloppyTypeOK, Tracks
  <2>2. CopyIsCurrent'
    BY <1>13 DEF GwWrites, FloppyTypeOK, CopyIsCurrent, CopyIsWhole, Tracks, Editions
  <2>3. CopyIsWhole'
    BY <1>13 DEF GwWrites, FloppyTypeOK, CopyIsCurrent, CopyIsWhole, Tracks
  <2>4. Written'
    <3>1. ~gwSays /\ gw # "none"
      BY <1>13, <2>a DEF GwWrites, Written
    <3>2. \A t \in Tracks : t <= gwTrack + 1 <=> t <= gwTrack \/ t = gwTrack + 1
      BY <2>a DEF Tracks
    <3> QED
      BY <2>0, <2>a, <2>b, <3>1, <3>2 DEF Written
  <2>5. Verdicts'
    BY <1>13 DEF GwWrites, FloppyTypeOK, CopyIsWhole, Verdicts
  <2> QED
    BY <2>1, <2>2, <2>3, <2>4, <2>5
<1>14. CASE GwRetries
  <2>0. PICK t \in 1 .. gwTrack : floppies' = [floppies EXCEPT ![drive][t] = snapshot[t]]
    BY <1>14 DEF GwRetries
  <2>a. /\ drive \in Drives /\ t \in Tracks /\ snapshot[t] \in Editions /\ gw = "running"
        /\ UNCHANGED <<fileVars, gw, gwTrack, gwSays, gwCode, watchdog, writerVars>>
    <3>1. gw = "running" /\ UNCHANGED <<fileVars, gw, gwTrack, gwSays, gwCode, watchdog, writerVars>>
      BY <1>14 DEF GwRetries
    <3>2. drive \in Drives /\ t \in 1 .. Len(snapshot) /\ t \in Tracks
      BY <3>1 DEF CopyIsWhole, FloppyTypeOK, Tracks
    <3> QED
      BY <3>1, <3>2 DEF FloppyTypeOK
  <2>b. /\ floppies' \in [Drives -> [Tracks -> Surface]]
        /\ \A d \in Drives, u \in Tracks :
             floppies'[d][u] = IF d = drive /\ u = t THEN snapshot[t] ELSE floppies[d][u]
    BY <2>0, <2>a DEF FloppyTypeOK, Surface
  <2>1. FloppyTypeOK'
    BY <2>a, <2>b DEF FloppyTypeOK
  <2>2. CopyIsCurrent'
    BY <1>14 DEF GwRetries, FloppyTypeOK, CopyIsCurrent, CopyIsWhole, Tracks, Editions
  <2>3. CopyIsWhole'
    BY <1>14 DEF GwRetries, FloppyTypeOK, CopyIsCurrent, CopyIsWhole, Tracks
  <2>4. Written'
    BY <2>0, <2>a, <2>b DEF Written
  <2>5. Verdicts'
    BY <1>14 DEF GwRetries, FloppyTypeOK, CopyIsWhole, Verdicts
  <2> QED
    BY <2>1, <2>2, <2>3, <2>4, <2>5
<1>15. CASE GwConfirms
  <2>1. FloppyTypeOK'
    BY <1>15 DEF GwConfirms, FloppyTypeOK, Tracks, Editions, Surface
  <2>2. CopyIsCurrent'
    BY <1>15 DEF GwConfirms, FloppyTypeOK, CopyIsCurrent, CopyIsWhole, Tracks, Editions
  <2>3. CopyIsWhole'
    BY <1>15 DEF GwConfirms, FloppyTypeOK, CopyIsCurrent, CopyIsWhole, Tracks
  <2>4. Written'
    BY <1>15 DEF GwConfirms, FloppyTypeOK, CopyIsWhole, Written, Tracks
  <2>5. Verdicts'
    BY <1>15 DEF GwConfirms, FloppyTypeOK, CopyIsWhole, Verdicts
  <2> QED
    BY <2>1, <2>2, <2>3, <2>4, <2>5
<1>16. CASE GwEnds
  <2>1. FloppyTypeOK'
    BY <1>16 DEF GwEnds, FloppyTypeOK, Tracks, Editions, Surface
  <2>2. CopyIsCurrent'
    BY <1>16 DEF GwEnds, FloppyTypeOK, CopyIsCurrent, CopyIsWhole, Tracks, Editions
  <2>3. CopyIsWhole'
    BY <1>16 DEF GwEnds, FloppyTypeOK, CopyIsCurrent, CopyIsWhole, Tracks
  <2>4. Written'
    BY <1>16 DEF GwEnds, FloppyTypeOK, CopyIsWhole, Written, Tracks
  <2>5. Verdicts'
    BY <1>16 DEF GwEnds, FloppyTypeOK, CopyIsWhole, Verdicts
  <2> QED
    BY <2>1, <2>2, <2>3, <2>4, <2>5
<1>17. CASE ImageChanges
  <2>1. FloppyTypeOK'
    <3>1. edition' \in Editions /\ UNCHANGED <<gwVars, watchdog, writerVars>>
      BY <1>17 DEF ImageChanges, FloppyTypeOK, Editions
    <3>2. floppyImage' \in [Tracks -> Editions]
      BY <1>17, <3>1 DEF ImageChanges, FloppyTypeOK
    <3>3. wholes' \in SUBSET [Tracks -> Editions]
      BY <1>17, <3>2 DEF ImageChanges, FloppyTypeOK
    <3> QED
      BY <3>1, <3>2, <3>3 DEF FloppyTypeOK
  <2>2. CopyIsCurrent'
    BY <1>17 DEF ImageChanges, FloppyTypeOK, CopyIsCurrent, CopyIsWhole, Tracks, Editions
  <2>3. CopyIsWhole'
    BY <1>17 DEF ImageChanges, FloppyTypeOK, CopyIsCurrent, CopyIsWhole, Tracks
  <2>4. Written'
    BY <1>17 DEF ImageChanges, FloppyTypeOK, CopyIsWhole, Written, Tracks
  <2>5. Verdicts'
    BY <1>17 DEF ImageChanges, FloppyTypeOK, CopyIsWhole, Verdicts
  <2> QED
    BY <2>1, <2>2, <2>3, <2>4, <2>5
<1>18. CASE UNCHANGED floppyVars
  BY <1>18 DEF floppyVars, FloppyTypeOK, CopyIsCurrent, CopyIsWhole, Written, Verdicts
<1> QED
  BY <1>1, <1>2, <1>3, <1>4, <1>5, <1>6, <1>7, <1>8, <1>9, <1>10, <1>11, <1>12, <1>13, <1>14,
     <1>15, <1>16, <1>17, <1>18
  DEF FloppyNext

\* FloppyInv is an invariant of the writing of a floppy.
THEOREM FloppyInvariance == FloppySpec => []FloppyInv
<1>1. FloppyInv /\ [FloppyNext]_floppyVars => FloppyInv'
  BY FloppyStepInv
<1> QED
  BY FloppyInitInv, <1>1, PTL DEF FloppySpec

\* The variables keep their types, for any drives, tracks and changes of the image.
THEOREM FloppyTypes == FloppySpec => []FloppyTypeOK
<1>1. FloppyInv => FloppyTypeOK
  BY DEF FloppyInv
<1> QED
  BY FloppyInvariance, <1>1, PTL

\* The invariant says all that the report promises.
LEMMA WrittenFloppy == FloppyInv => WrittenIsTheImage
<1> SUFFICES ASSUME FloppyInv PROVE WrittenIsTheImage
  OBVIOUS
<1> USE FloppyConstants DEF FloppyInv
<1>1. ASSUME wres = "written" PROVE floppies[drive] \in wholes /\ gw = "ended" /\ watchdog = "off"
  <2>1. gw = "ended" /\ gwSays /\ watchdog = "off"
    BY <1>1 DEF Verdicts
  <2>2. drive \in Drives /\ snapshot \in wholes
    BY <2>1 DEF CopyIsWhole, FloppyTypeOK
  <2>3. \A t \in Tracks : floppies[drive][t] = snapshot[t]
    BY <2>1, <2>2 DEF Written, Tracks
  <2>4. floppies[drive] \in [Tracks -> Surface] /\ snapshot \in [Tracks -> Editions]
    BY <2>2 DEF FloppyTypeOK
  <2>5. floppies[drive] = snapshot
    BY <2>3, <2>4
  <2> QED
    BY <2>1, <2>2, <2>5
<1>2. ASSUME NEW d \in Drives, NEW t \in Tracks, floppies[d][t] # Old
      PROVE  d = drive /\ d \in offered /\ wholes # {}
  <2>1. d = drive /\ t <= gwTrack
    BY <1>2 DEF Written
  <2>2. gw # "none"
    BY <2>1 DEF Written, Tracks, FloppyTypeOK
  <2> QED
    BY <2>1, <2>2 DEF CopyIsWhole
<1> QED
  BY <1>1, <1>2 DEF WrittenIsTheImage

\* What is reported as written and verified is on the floppy of the chosen drive, and is
\* the image of one moment; no other floppy is touched (greaseweazle.py write_floppy).
THEOREM WrittenIsTheImageHolds == FloppySpec => []WrittenIsTheImage
<1>1. FloppyInv => WrittenIsTheImage
  BY WrittenFloppy
<1> QED
  BY FloppyInvariance, <1>1, PTL

-----------------------------------------------------------------------------
(* Images of several discs                                                  *)

\* Multiplication keeps the order.
LEMMA TimesKeepsOrder ==
  ASSUME NEW a \in Nat, NEW b \in Nat, NEW n \in Nat, a <= b
  PROVE  a * n <= b * n
OBVIOUS

\* What division and remainder are.
LEMMA DivideFacts ==
  ASSUME NEW x \in Nat, NEW n \in Nat \ {0}
  PROVE  /\ x \div n \in Nat /\ x % n \in 0 .. n - 1
         /\ x = (x \div n) * n + (x % n)
OBVIOUS

\* A number has one quotient and one remainder.
LEMMA DivideUnique ==
  ASSUME NEW q \in Nat, NEW n \in Nat \ {0}, NEW r \in 0 .. n - 1
  PROVE  (q * n + r) \div n = q /\ (q * n + r) % n = r
<1>1. PICK d \in Nat, m \in 0 .. n - 1 :
        q * n + r = d * n + m /\ d = (q * n + r) \div n /\ m = (q * n + r) % n
  BY DivideFacts
<1>2. ~(d < q)
  <2>1. ASSUME d < q PROVE FALSE
    <3>1. (d + 1) * n <= q * n
      BY <2>1, TimesKeepsOrder
    <3> QED
      BY <1>1, <3>1
  <2> QED
    BY <2>1
<1>3. ~(q < d)
  <2>1. ASSUME q < d PROVE FALSE
    <3>1. (q + 1) * n <= d * n
      BY <2>1, TimesKeepsOrder
    <3> QED
      BY <1>1, <3>1
  <2> QED
    BY <2>1
<1> QED
  BY <1>1, <1>2, <1>3

\* A byte of a slot: which extent it is in, and where.
LEMMA SlotBytePlace ==
  ASSUME NEW i \in Nat, NEW x \in SlotOffset(i) .. SlotOffset(i) + SlotBytes - 1
  PROVE  /\ x \in Nat /\ x \div ExtentBytes = i \div ExtentSlots
         /\ x % ExtentBytes >= HeaderBytes
         /\ ((x % ExtentBytes) - HeaderBytes) \div SlotBytes = i % ExtentSlots
<1> DEFINE q == i \div ExtentSlots
<1> DEFINE r == i % ExtentSlots
<1> DEFINE t == x - SlotOffset(i)
<1>1. /\ HeaderBytes \in Nat \ {0} /\ SlotBytes \in Nat \ {0} /\ ExtentSlots \in Nat \ {0}
      /\ ExtentBytes \in Nat \ {0}
  BY ContainerAssumption DEF ExtentBytes
<1>2. q \in Nat /\ r \in 0 .. ExtentSlots - 1
  BY <1>1, DivideFacts
<1>3. SlotOffset(i) = q * ExtentBytes + HeaderBytes + r * SlotBytes
  BY DEF SlotOffset
<1> HIDE DEF q, r
<1>4. SlotOffset(i) \in Nat
  BY <1>1, <1>2, <1>3
<1>5. t \in 0 .. SlotBytes - 1 /\ x = q * ExtentBytes + (HeaderBytes + r * SlotBytes + t) /\ x \in Nat
  BY <1>1, <1>2, <1>3, <1>4
<1> HIDE DEF t
<1>6. HeaderBytes + r * SlotBytes + t \in 0 .. ExtentBytes - 1
  <2>1. (r + 1) * SlotBytes <= ExtentSlots * SlotBytes
    BY <1>1, <1>2, TimesKeepsOrder
  <2>2. r * SlotBytes + SlotBytes <= ExtentSlots * SlotBytes /\ r * SlotBytes \in Nat
    BY <1>1, <1>2, <2>1
  <2> QED
    BY <1>1, <1>5, <2>2 DEF ExtentBytes
<1>7. x \div ExtentBytes = q /\ x % ExtentBytes = HeaderBytes + r * SlotBytes + t
  <2> DEFINE y == HeaderBytes + r * SlotBytes + t
  <2>1. x = q * ExtentBytes + y /\ y \in 0 .. ExtentBytes - 1
    BY <1>5, <1>6
  <2> HIDE DEF y
  <2>2. (q * ExtentBytes + y) \div ExtentBytes = q /\ (q * ExtentBytes + y) % ExtentBytes = y
    BY <1>1, <1>2, <2>1, DivideUnique
  <2>3. x \div ExtentBytes = q /\ x % ExtentBytes = y
    BY <2>1, <2>2
  <2> QED
    BY <2>3 DEF y
<1>8. (r * SlotBytes + t) \div SlotBytes = r /\ r * SlotBytes + t \in Nat
  <2>1. r \in Nat /\ SlotBytes \in Nat \ {0} /\ t \in 0 .. SlotBytes - 1
    BY <1>1, <1>2, <1>5
  <2>2. r * SlotBytes \in Nat
    BY <2>1
  <2>3. (r * SlotBytes + t) \div SlotBytes = r
    BY <2>1, DivideUnique
  <2> QED
    BY <2>1, <2>2, <2>3
<1>9. (x % ExtentBytes) - HeaderBytes = r * SlotBytes + t
  BY <1>1, <1>2, <1>5, <1>7, <1>8
<1> QED
  BY <1>1, <1>5, <1>7, <1>8, <1>9 DEF q, r

\* No byte is in two slots.
LEMMA SlotsAreDisjoint ==
  ASSUME NEW i \in Nat, NEW j \in Nat,
         NEW x \in SlotOffset(i) .. SlotOffset(i) + SlotBytes - 1,
         x \in SlotOffset(j) .. SlotOffset(j) + SlotBytes - 1
  PROVE  i = j
<1>1. i \div ExtentSlots = j \div ExtentSlots /\ i % ExtentSlots = j % ExtentSlots
  BY SlotBytePlace
<1>2. ExtentSlots \in Nat \ {0}
  BY ContainerAssumption
<1> QED
  BY <1>1, <1>2, DivideFacts

\* The slots of the extents declared lie in the image, behind each catalogue.
LEMMA SlotsAreInside ==
  ASSUME NEW n \in Nat, NEW i \in 0 .. n * ExtentSlots - 1,
         NEW x \in SlotOffset(i) .. SlotOffset(i) + SlotBytes - 1
  PROVE  x \in 0 .. n * ExtentBytes - 1 /\ x % ExtentBytes >= HeaderBytes
<1>1. ExtentSlots \in Nat \ {0} /\ ExtentBytes \in Nat \ {0}
  BY ContainerAssumption DEF ExtentBytes
<1>2. i \in Nat /\ i < n * ExtentSlots
  BY <1>1
<1> DEFINE q == i \div ExtentSlots
<1>3. q \in Nat /\ q * ExtentSlots <= i
  <2>1. /\ q \in Nat /\ i % ExtentSlots \in 0 .. ExtentSlots - 1
        /\ i = q * ExtentSlots + (i % ExtentSlots)
    BY <1>1, <1>2, DivideFacts
  <2> HIDE DEF q
  <2> QED
    BY <1>1, <1>2, <2>1
<1>4. x \in Nat /\ x \div ExtentBytes = q /\ x % ExtentBytes >= HeaderBytes
  BY <1>2, SlotBytePlace
<1> HIDE DEF q
<1>5. q < n
  <2>1. ASSUME n <= q PROVE FALSE
    <3>1. n * ExtentSlots <= q * ExtentSlots
      BY <1>1, <1>3, <2>1, TimesKeepsOrder
    <3> QED
      BY <1>1, <1>2, <1>3, <3>1
  <2> QED
    BY <1>3, <2>1
<1>6. (q + 1) * ExtentBytes <= n * ExtentBytes
  BY <1>1, <1>3, <1>5, TimesKeepsOrder
<1>7. x < (q + 1) * ExtentBytes
  <2>1. x = q * ExtentBytes + (x % ExtentBytes) /\ x % ExtentBytes \in 0 .. ExtentBytes - 1
    BY <1>1, <1>4, DivideFacts
  <2> QED
    BY <1>1, <1>3, <2>1
<1> QED
  BY <1>1, <1>3, <1>4, <1>6, <1>7

\* What the layout that was read says of the parts, and that bytes are altered in parts
\* that may be.
ContainerInv ==
  /\ ContainerTypeOK
  /\ shape = "mmb" => DOMAIN status = 0 .. extents * ExtentSlots - 1
  /\ shape = "dsd" => DOMAIN status = {0, 1}
  /\ shape \in {"none", "refused"} => status = <<>>
  /\ \A b \in altered : \E part \in asked :
       part \in DOMAIN status /\ status[part] = "writable" /\ b \in Window(part)

\* The invariant says that the parts are isolated.
LEMMA ContainerIsolated == ContainerInv => PartsAreIsolated
<1> SUFFICES ASSUME ContainerInv, NEW b \in altered
             PROVE  \E part \in asked :
                      /\ status[part] = "writable" /\ b \in Window(part)
                      /\ shape = "mmb" => b < extents * ExtentBytes /\ b % ExtentBytes >= HeaderBytes
                      /\ \A other \in DOMAIN status \ {part} : b \notin Window(other)
  BY DEF PartsAreIsolated
<1>1. PICK part \in asked :
        part \in DOMAIN status /\ status[part] = "writable" /\ b \in Window(part)
  BY DEF ContainerInv
<1>2. CASE shape = "mmb"
  <2>1. /\ extents \in Nat /\ DOMAIN status = 0 .. extents * ExtentSlots - 1
        /\ b \in SlotOffset(part) .. SlotOffset(part) + SlotBytes - 1
    BY <1>1, <1>2, ContainerAssumption DEF ContainerInv, ContainerTypeOK, Window
  <2>2. b \in 0 .. extents * ExtentBytes - 1 /\ b % ExtentBytes >= HeaderBytes
    BY <1>1, <2>1, SlotsAreInside
  <2>3. extents * ExtentBytes \in Nat
    BY <2>1, ContainerAssumption DEF ExtentBytes
  <2>4. ASSUME NEW other \in DOMAIN status \ {part} PROVE b \notin Window(other)
    <3>1. other \in Nat /\ part \in Nat
      BY <1>1, <2>1
    <3> QED
      BY <1>2, <2>1, <3>1, SlotsAreDisjoint DEF Window
  <2> QED
    BY <1>1, <2>2, <2>3, <2>4
<1>3. CASE shape # "mmb"
  <2>1. DOMAIN status = {0, 1}
    BY <1>1, <1>3 DEF ContainerInv, ContainerTypeOK
  <2>2. ASSUME NEW other \in DOMAIN status \ {part} PROVE b \notin Window(other)
    <3>1. SlotBytes \in Nat \ {0}
      BY ContainerAssumption
    <3> QED
      BY <1>1, <1>3, <2>1, <3>1 DEF Window
  <2> QED
    BY <1>1, <1>3, <2>2
<1> QED
  BY <1>2, <1>3

\* The parts of an image are among those of the largest one.
LEMMA PartsAreParts ==
  /\ \A n \in 1 .. MaxExtents : 0 .. n * ExtentSlots - 1 \subseteq ContainerParts
  /\ {0, 1} \subseteq ContainerParts
<1>1. MaxExtents \in Nat \ {0} /\ ExtentSlots \in Nat \ {0, 1}
  BY ContainerAssumption
<1>2. ASSUME NEW n \in 1 .. MaxExtents
      PROVE  n * ExtentSlots <= MaxExtents * ExtentSlots /\ n * ExtentSlots \in Nat
  BY <1>1, TimesKeepsOrder
<1>3. MaxExtents * ExtentSlots \in Nat
  BY <1>1
<1>4. 1 * ExtentSlots = ExtentSlots /\ 1 \in 1 .. MaxExtents
  BY <1>1
<1>5. ExtentSlots <= MaxExtents * ExtentSlots
  BY <1>2, <1>4
<1> QED
  BY <1>1, <1>2, <1>3, <1>5 DEF ContainerParts

\* A part's window is in the largest image.
LEMMA WindowsAreInside ==
  ASSUME ContainerInv, NEW part \in DOMAIN status, NEW b \in Window(part)
  PROVE  b \in 0 .. MaxExtents * ExtentBytes - 1
<1>1. /\ MaxExtents \in Nat \ {0} /\ ExtentSlots \in Nat \ {0, 1}
      /\ SlotBytes \in Nat \ {0} /\ HeaderBytes \in Nat \ {0} /\ ExtentBytes \in Nat \ {0}
  BY ContainerAssumption DEF ExtentBytes
<1>2. CASE shape = "mmb"
  <2>1. /\ extents \in 0 .. MaxExtents /\ part \in 0 .. extents * ExtentSlots - 1
        /\ b \in SlotOffset(part) .. SlotOffset(part) + SlotBytes - 1
    BY <1>2 DEF ContainerInv, ContainerTypeOK, Window
  <2>2. b \in 0 .. extents * ExtentBytes - 1
    BY <1>1, <2>1, SlotsAreInside
  <2>3. extents * ExtentBytes <= MaxExtents * ExtentBytes
    BY <1>1, <2>1, TimesKeepsOrder
  <2>4. extents * ExtentBytes \in Nat /\ MaxExtents * ExtentBytes \in Nat
    BY <1>1, <2>1
  <2> QED
    BY <2>2, <2>3, <2>4
<1>3. CASE shape = "dsd"
  <2>1. b \in 0 .. 2 * SlotBytes - 1
    BY <1>1, <1>3 DEF ContainerInv, Window
  <2>2. 2 * SlotBytes <= ExtentSlots * SlotBytes
    BY <1>1, TimesKeepsOrder
  <2>3. 1 * ExtentBytes <= MaxExtents * ExtentBytes /\ MaxExtents * ExtentBytes \in Nat
    BY <1>1, TimesKeepsOrder
  <2>4. ExtentSlots * SlotBytes \in Nat /\ ExtentBytes = HeaderBytes + ExtentSlots * SlotBytes
    BY <1>1 DEF ExtentBytes
  <2> QED
    BY <1>1, <2>1, <2>2, <2>3, <2>4
<1>4. CASE shape \in {"none", "refused"}
  BY <1>4 DEF ContainerInv
<1> QED
  BY <1>2, <1>3, <1>4 DEF ContainerInv, ContainerTypeOK

\* Every step keeps the invariant.
LEMMA ContainerStepInv == ContainerInv /\ [ContainerNext]_containerVars => ContainerInv'
<1> SUFFICES ASSUME ContainerInv, [ContainerNext]_containerVars PROVE ContainerInv'
  OBVIOUS
<1>1. ASSUME ReadLayout PROVE ContainerInv'
  <2>1. altered = {} /\ status = <<>>
    BY <1>1 DEF ReadLayout, ContainerInv, ContainerTypeOK
  <2>2. CASE \E n \in 1 .. MaxExtents :
               /\ shape' = "mmb" /\ extents' = n
               /\ status' \in [0 .. n * ExtentSlots - 1 -> Statuses]
    <3>1. PICK n \in 1 .. MaxExtents :
            /\ shape' = "mmb" /\ extents' = n
            /\ status' \in [0 .. n * ExtentSlots - 1 -> Statuses]
      BY <2>2
    <3>2. n \in 0 .. MaxExtents /\ DOMAIN status' = 0 .. n * ExtentSlots - 1
      BY <3>1, ContainerAssumption
    <3>3. \A part \in DOMAIN status' : part \in ContainerParts /\ status'[part] \in Statuses
      BY <3>1, <3>2, PartsAreParts
    <3> QED
      BY <1>1, <2>1, <3>1, <3>2, <3>3
      DEF ReadLayout, ContainerInv, ContainerTypeOK
  <2>3. CASE shape' = "refused" /\ UNCHANGED <<extents, status>>
    BY <1>1, <2>1, <2>3 DEF ReadLayout, ContainerInv, ContainerTypeOK
  <2> QED
    BY <1>1, <2>2, <2>3 DEF ReadLayout
<1>2. ASSUME OpenSides PROVE ContainerInv'
  <2>1. altered = {}
    BY <1>2 DEF OpenSides, ContainerInv, ContainerTypeOK
  <2>2. DOMAIN status' = {0, 1} /\ \A part \in {0, 1} : status'[part] = "writable"
    BY <1>2 DEF OpenSides
  <2> QED
    BY <1>2, <2>1, <2>2, PartsAreParts
    DEF OpenSides, ContainerInv, ContainerTypeOK, Statuses
<1>3. ASSUME NEW part, Alters(part) PROVE ContainerInv'
  <2>1. part \in DOMAIN status /\ status[part] = "writable"
    BY <1>3 DEF Alters, MayAlter, Listed
  <2>2. PICK b \in Window(part) : altered' = altered \cup {b}
    BY <1>3 DEF Alters
  <2>3. b \in 0 .. MaxExtents * ExtentBytes - 1
    BY <2>1, WindowsAreInside
  <2> QED
    BY <1>3, <2>1, <2>2, <2>3 DEF Alters, ContainerInv, ContainerTypeOK, Window
<1>4. CASE UNCHANGED containerVars
  BY <1>4 DEF containerVars, ContainerInv, ContainerTypeOK, Window
<1> QED
  BY <1>1, <1>2, <1>3, <1>4 DEF ContainerNext, WritePart, RenamePart

\* The layout, and the parts that bytes were altered in, in every state.
THEOREM ContainerInvariance == ContainerSpec => []ContainerInv
<1>1. ContainerInit => ContainerInv
  <2> SUFFICES ASSUME ContainerInit PROVE ContainerInv
    OBVIOUS
  <2>1. 0 \in 0 .. MaxExtents
    BY ContainerAssumption
  <2> QED
    BY <2>1 DEF ContainerInit, ContainerInv, ContainerTypeOK
<1> QED
  BY <1>1, ContainerStepInv, PTL DEF ContainerSpec

\* The type invariant of the image's parts.
THEOREM ContainerTypes == ContainerSpec => []ContainerTypeOK
<1>1. ContainerInv => ContainerTypeOK
  BY DEF ContainerInv
<1> QED
  BY <1>1, ContainerInvariance, PTL

\* What a mutation changes lies in its own slot or side, for any sizes of catalogues and
\* slots and any number of them (mmb.py read_mmb_layout, dfs.py).
THEOREM PartsAreIsolatedHolds == ContainerSpec => []PartsAreIsolated
BY ContainerInvariance, ContainerIsolated, PTL
=============================================================================
