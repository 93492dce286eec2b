--------------------------- MODULE RecoveryProofs ---------------------------
(***************************************************************************)
(* Proofs about Recovery: images of any number of members, any number of   *)
(* processes, crashes and power losses.                                    *)
(*                                                                          *)
(* The types and LiveOwnsImage hold with all processes at once.  The locks *)
(* exclude whoever works with them; what the checkpoint is worth holds     *)
(* while nobody works beside a process at a stage that holds no lock of    *)
(* the image: a session that has closed its handles, a recover that has    *)
(* read the manifest and not locked, or has replaced the last file, and    *)
(* the sweep.  TLC shows what is lost when somebody does.                  *)
(*                                                                          *)
(* The invariant holds whether or not an fsync of the checkpoint directory *)
(* reaches the directory's own entry.  Where it does not, the whole         *)
(* checkpoint may be lost and what a session left unfinished may be copied *)
(* by the next: then a backup is only known to be a whole copy.            *)
(***************************************************************************)
EXTENDS Recovery, TLAPS

\* A process that has opened the image has its files; what is staged is whole files.
OpenTypes(p) ==
  /\ pc[p] \notin {"idle", "informed", "sweep"} => opened[p] \in [Members -> Inodes]
  /\ pc[p] \in {"replace", "replaced"} => staged[p] \in [Members -> Contents]

TypesInv == TypeOK /\ \A p \in Procs : OpenTypes(p)

\* The sessions, recovers and sweeps follow each other; others may wait at the lock.
OneAtATime == \A p, q \in Procs : Working(p) /\ Working(q) => p = q

\* What the image and the backups may hold beside a session's unfinished work: what
\* somebody has accepted, if the checkpoint cannot be lost, or any whole file.
Fine == IF SyncReachesEntry THEN {"good"} ELSE {"good", "bad"}

\* The image is good, whichever entries of its directory a power loss undoes.
Good == \A m \in Members : content[path[m]] \in Fine /\ content[pathD[m]] \in Fine

\* The checkpoint can be restored, whichever entries are undone, the directory's own too.
Protected ==
  /\ man = "ready" /\ manD = "ready"
  /\ \A m \in Members : bak[m] \in Fine /\ bakD[m] \in Fine
  /\ SyncReachesEntry => dir /\ dirD

Ready == man = "ready" \/ manD = "ready"

Kinds == Fine \cup {"none", "partial"}

\* No backup holds a session's unfinished work, no file of the image half a copy.
Clean ==
  /\ \A i \in Inodes : content[i] # "partial"
  /\ \A m \in Members : bak[m] \in Kinds /\ bakD[m] \in Kinds

\* What a removed directory may bring back is not a checkpoint.
CleanPast == past.man # "ready" /\ \A m \in Members : past.bak[m] \in Kinds

\* What a ready manifest promises, before and after a power loss.
Promised ==
  Ready => \A m \in Members :
             /\ bak[m] # "partial" /\ bakD[m] # "partial"
             /\ armed = "yes" => bak[m] # "none" /\ bakD[m] # "none"

Copied(k) == bak[Files[k]] \in Fine /\ bakD[Files[k]] \in Fine \cup {"none"}

\* The members from k on are the staged ones, durably.
Restored(k) ==
  \A j \in k .. Len(Files) : content[path[Files[j]]] \in Fine /\ content[pathD[Files[j]]] \in Fine

Indexes == 1 .. Len(Files)

\* A session writes the file of the data member only.
Written ==
  \A m \in Members : /\ path[m] # path[Data] => content[path[m]] \in Fine
                     /\ pathD[m] # path[Data] => content[pathD[m]] \in Fine

\* What a process that creates the checkpoint, writes and closes relies on.
SessionStage(p) ==
  /\ pc[p] \in {"idle", "opened", "check", "cleared", "announce", "announced"} => at[p] = 1
  /\ pc[p] \in {"check", "made", "cleared", "announce", "announced", "copy", "copying", "copied",
                "readied", "created", "live"} => opened[p] = path
  /\ pc[p] \in {"made", "cleared", "announce", "announced", "copy", "copying", "copied",
                "readied", "created"} => Good
  /\ pc[p] \in {"cleared", "announce", "announced", "copy", "copying", "copied",
                "readied", "created"} => armed # "yes"
  /\ pc[p] \in {"made", "cleared", "announce"} => man = "none"
  /\ pc[p] = "made" => /\ \A k \in Indexes : k < at[p] => bak[Files[k]] = "none"
                       /\ at[p] > 1 => armed # "yes"
  /\ pc[p] \in {"cleared", "announce"} => \A k \in Indexes : bak[Files[k]] = "none"
  /\ pc[p] = "announce" => manD = "none" /\ \A k \in Indexes : bakD[Files[k]] = "none"
  /\ pc[p] \in {"announced", "copy", "copying", "copied"} => man = "creating" /\ manD # "ready"
  /\ pc[p] \in {"announced", "copy", "copying", "copied", "readied"} => dir
  /\ pc[p] \in {"copy", "copying"} => \A k \in Indexes : k < at[p] => Copied(k)
  /\ pc[p] \in {"copied", "readied"} => \A k \in Indexes : Copied(k)
  /\ pc[p] = "readied" => man = "ready"
  /\ pc[p] \in {"created", "live"} => Protected
  /\ pc[p] = "live" => Written

\* What completing a checkpoint, recover and the sweep rely on.
RecoverStage(p) ==
  /\ pc[p] \in {"complete", "unlinked", "unlink", "gone", "emptied"} => Good
  /\ pc[p] = "unlinked" => man = "none"
  /\ pc[p] \in {"unlink", "gone", "emptied", "sweep"} => ~Ready
  /\ pc[p] \in {"informed", "ropened", "recover"} => info[p] = man
  /\ pc[p] \in {"ropened", "recover"} => opened[p] = path
  /\ pc[p] \in {"replace", "replaced"} => \A m \in Members : staged[p][m] \in Fine
  /\ pc[p] \in {"replace", "replaced"} => Restored(at[p] + 1)
  /\ pc[p] = "replaced" => content[path[Files[at[p]]]] \in Fine

Stages == \A p \in Procs : SessionStage(p) /\ RecoverStage(p)

\* A directory that has aged is durable.
Aged == aged => man = manD

Kept == (Good \/ Protected) /\ Clean /\ CleanPast /\ Promised /\ Aged

RecoveryInv == TypesInv /\ Kept /\ Stages

-----------------------------------------------------------------------------
(* Who may write the image                                                  *)

Recovering(p) == pc[p] \in {"ropened", "recover", "replace", "replaced"}

\* recover_image is not run twice at the same time.
OneRecovery == \A p, q \in Procs : Recovering(p) /\ Recovering(q) => p = q

\* A session has locked what its paths name.
SessionOwns(p) ==
  pc[p] \in {"check", "made", "cleared", "announce", "announced", "copy", "copying",
             "copied", "readied", "created", "live"} =>
    opened[p] = path /\ \A m \in Members : lock[path[m]] = p

\* A recover has locked what it has yet to replace.
RecoverOwns(p) ==
  /\ pc[p] \in {"ropened", "recover"} => opened[p] = path
  /\ pc[p] = "recover" => \A m \in Members : lock[path[m]] = p
  /\ pc[p] = "replace" => \A k \in 1 .. at[p] : lock[path[Files[k]]] = p
  /\ pc[p] = "replaced" => \A k \in 1 .. at[p] - 1 : lock[path[Files[k]]] = p

OwnersInv == TypesInv /\ \A p \in Procs : SessionOwns(p) /\ RecoverOwns(p)

-----------------------------------------------------------------------------
(* Members and types                                                        *)

\* What the constants are.
LEMMA FilesFacts ==
  /\ Len(Files) \in Nat \ {0} /\ DOMAIN Files = 1 .. Len(Files)
  /\ \A k \in 1 .. Len(Files) : Files[k] \in Members
  /\ \A m \in Members : \E k \in 1 .. Len(Files) : Files[k] = m
  /\ \A j, k \in 1 .. Len(Files) : Files[j] = Files[k] => j = k
  /\ Data \in Members /\ 0 \notin Inodes
  /\ 1 .. Len(Files) \subseteq Inodes
<1>1. Len(Files) \in Nat \ {0} /\ DOMAIN Files = 1 .. Len(Files)
  BY RecoveryAssumption
<1>2. \A k \in 1 .. Len(Files) : Files[k] \in Members
  BY DEF Members
<1>3. \A m \in Members : \E k \in 1 .. Len(Files) : Files[k] = m
  BY DEF Members
<1>4. Data \in Members
  BY <1>1, <1>2 DEF Data
<1> QED
  BY <1>1, <1>2, <1>3, <1>4, RecoveryAssumption

ImageTypes ==
  /\ path \in [Members -> Inodes] /\ pathD \in [Members -> Inodes]
  /\ content \in [Inodes -> Contents]

CheckpointTypes ==
  /\ man \in {"none", "creating", "ready"} /\ manD \in {"none", "creating", "ready"}
  /\ bak \in [Members -> Contents \cup {"none"}]
  /\ bakD \in [Members -> Contents \cup {"none"}]
  /\ dir \in BOOLEAN /\ dirD \in BOOLEAN /\ past \in Pasts
  /\ aged \in BOOLEAN /\ armed \in {"no", "yes", "cleared"}

ProcessTypes ==
  /\ lock \in [Inodes -> Procs \cup {Nobody}]
  /\ pc \in [Procs -> ProcStates] /\ at \in [Procs -> 1 .. Len(Files)]
  /\ opened \in [Procs -> [Members -> Inodes \cup {0}]]
  /\ info \in [Procs -> {"none", "creating", "ready"}]
  /\ staged \in [Procs -> [Members -> Contents \cup {"none"}]]

\* The type invariant in parts.
LEMMA TypeParts == TypeOK <=> ImageTypes /\ CheckpointTypes /\ ProcessTypes
BY DEF TypeOK, ImageTypes, CheckpointTypes, ProcessTypes, Manifests

\* Nothing to come back is one of the things that may.
LEMMA PastFacts == NoPast \in Pasts
BY DEF NoPast, Pasts, NoBackups, Manifests, Contents

\* What the backups may hold.
LEMMA FineFacts ==
  /\ "good" \in Fine /\ "none" \notin Fine /\ "partial" \notin Fine
  /\ Fine \subseteq {"good", "bad"}
  /\ SyncReachesEntry => Fine = {"good"}
  /\ ~SyncReachesEntry => "bad" \in Fine
  /\ Kinds = Fine \cup {"none", "partial"}
BY DEF Fine, Kinds

\* A process that is done holds nothing.
LEMMA QuitEffect ==
  ASSUME ProcessTypes, NEW p \in Procs, Quit(p)
  PROVE  /\ ProcessTypes' /\ pc'[p] = "idle" /\ at'[p] = 1
         /\ \A i \in Inodes : lock'[i] = IF lock[i] = p THEN Nobody ELSE lock[i]
         /\ \A q \in Procs : q # p =>
              /\ pc'[q] = pc[q] /\ at'[q] = at[q] /\ opened'[q] = opened[q]
              /\ info'[q] = info[q] /\ staged'[q] = staged[q]
<1>1. /\ NoInodes \in [Members -> Inodes \cup {0}] /\ NoBackups \in [Members -> Contents \cup {"none"}]
      /\ "idle" \in ProcStates /\ 1 \in 1 .. Len(Files) /\ "none" \in {"none", "creating", "ready"}
  BY FilesFacts DEF NoInodes, NoBackups, ProcStates
<1>2. lock' \in [Inodes -> Procs \cup {Nobody}]
  BY DEF Quit, ProcessTypes
<1>3. /\ pc' \in [Procs -> ProcStates] /\ at' \in [Procs -> 1 .. Len(Files)]
      /\ opened' \in [Procs -> [Members -> Inodes \cup {0}]]
  BY <1>1 DEF Quit, ProcessTypes
<1>4. /\ info' \in [Procs -> {"none", "creating", "ready"}]
      /\ staged' \in [Procs -> [Members -> Contents \cup {"none"}]]
  BY <1>1 DEF Quit, ProcessTypes
<1>5. ProcessTypes'
  BY <1>2, <1>3, <1>4 DEF ProcessTypes
<1> QED
  BY <1>5 DEF Quit, ProcessTypes

\* Removing the directory leaves its types, and nothing else is touched.
LEMMA RemoveTypes ==
  ASSUME CheckpointTypes, RemoveDirectory
  PROVE  CheckpointTypes'
<1>1. NoBackups \in [Members -> Contents \cup {"none"}]
  BY DEF NoBackups
<1>2. past' \in Pasts
  <2>1. [there |-> TRUE, man |-> manD, bak |-> bakD] \in Pasts
    BY DEF CheckpointTypes, Pasts, Manifests
  <2> QED
    BY <2>1 DEF RemoveDirectory, CheckpointTypes, ckpt
<1> QED
  BY <1>1, <1>2 DEF RemoveDirectory, CheckpointTypes, ckpt, history

\* What a power loss leaves of some entries is one of the two of each.
LEMMA LeftFacts ==
  ASSUME NEW S, NEW g, NEW h \in [Members -> S], NEW d \in [Members -> S], g \in Left(h, d)
  PROVE  g \in [Members -> S] /\ \A m \in Members : g[m] \in {h[m], d[m]}
<1>1. g \in [Members -> {h[m] : m \in Members} \cup {d[m] : m \in Members}]
  BY DEF Left
<1>2. {h[m] : m \in Members} \cup {d[m] : m \in Members} \subseteq S
  OBVIOUS
<1> QED
  BY <1>1, <1>2 DEF Left

\* The first state has its types.
LEMMA InitTypes == Init => TypeOK
<1> SUFFICES ASSUME Init PROVE TypeOK
  OBVIOUS
<1>1. path \in [Members -> Inodes]
  BY FilesFacts DEF Init
<1>2. NoInodes \in [Members -> Inodes \cup {0}] /\ NoBackups \in [Members -> Contents \cup {"none"}]
  BY DEF NoInodes, NoBackups
<1>3. ImageTypes /\ CheckpointTypes
  BY <1>1, <1>2, PastFacts DEF Init, ImageTypes, CheckpointTypes, Contents
<1>4. ProcessTypes
  BY <1>2, FilesFacts DEF Init, ProcessTypes, ProcStates
<1> QED
  BY <1>3, <1>4, TypeParts

\* Every step keeps the types.
LEMMA TypesStep == TypesInv /\ [Next]_vars => TypesInv'
<1> SUFFICES ASSUME TypesInv, [Next]_vars PROVE TypesInv'
  OBVIOUS
<1>0. /\ ImageTypes /\ CheckpointTypes /\ ProcessTypes
      /\ \A p \in Procs : OpenTypes(p) /\ at[p] \in 1 .. Len(Files) /\ Files[at[p]] \in Members
  BY TypeParts, FilesFacts DEF TypesInv, ProcessTypes
<1> USE FilesFacts, PastFacts DEF image, ckpt, history, locals, Go, Manifests
<1>1. ASSUME NEW p \in Procs, SessionOpen(p) PROVE TypesInv'
  <2>1. ImageTypes'
    BY <1>0, <1>1 DEF SessionOpen, OpensPath, ImageTypes, CheckpointTypes, ProcessTypes, Contents
  <2>2. CheckpointTypes'
    BY <1>0, <1>1 DEF SessionOpen, OpensPath, ImageTypes, CheckpointTypes, ProcessTypes, Contents
  <2>3. ProcessTypes'
    BY <1>0, <1>1 DEF SessionOpen, OpensPath, ImageTypes, CheckpointTypes, ProcessTypes, ProcStates
  <2>4. \A q \in Procs : OpenTypes(q)'
    BY <1>0, <1>1 DEF SessionOpen, OpensPath, ImageTypes, CheckpointTypes, ProcessTypes, OpenTypes
  <2> QED
    BY <2>1, <2>2, <2>3, <2>4 DEF TypesInv, TypeOK, ImageTypes, CheckpointTypes, ProcessTypes
<1>2. ASSUME NEW p \in Procs, SessionLock(p) PROVE TypesInv'
  <2>1. ImageTypes'
    BY <1>0, <1>2 DEF SessionLock, TakeLocks, ImageTypes, CheckpointTypes, ProcessTypes, Contents
  <2>2. CheckpointTypes'
    BY <1>0, <1>2 DEF SessionLock, TakeLocks, ImageTypes, CheckpointTypes, ProcessTypes, Contents
  <2>3. ProcessTypes'
    BY <1>0, <1>2 DEF SessionLock, TakeLocks, ImageTypes, CheckpointTypes, ProcessTypes, ProcStates
  <2>4. \A q \in Procs : OpenTypes(q)'
    BY <1>0, <1>2 DEF SessionLock, TakeLocks, ImageTypes, CheckpointTypes, ProcessTypes, OpenTypes
  <2> QED
    BY <2>1, <2>2, <2>3, <2>4 DEF TypesInv, TypeOK, ImageTypes, CheckpointTypes, ProcessTypes
<1>3. ASSUME NEW p \in Procs, SessionRefused(p) PROVE TypesInv'
  <2>1. /\ ProcessTypes' /\ pc'[p] = "idle"
        /\ \A q \in Procs : q # p => pc'[q] = pc[q] /\ opened'[q] = opened[q] /\ staged'[q] = staged[q]
    BY <1>0, <1>3, QuitEffect DEF SessionRefused
  <2>2. ImageTypes' /\ CheckpointTypes'
    BY <1>0, <1>3 DEF SessionRefused, ImageTypes, CheckpointTypes
  <2>3. \A q \in Procs : OpenTypes(q)'
    BY <1>0, <2>1 DEF OpenTypes
  <2> QED
    BY <2>1, <2>2, <2>3 DEF TypesInv, TypeOK, ImageTypes, CheckpointTypes, ProcessTypes
<1>3a. ASSUME NEW p \in Procs, MakeDirectory(p) PROVE TypesInv'
  <2>1. ImageTypes'
    BY <1>0, <1>3a DEF MakeDirectory, MayCreate, ImageTypes, CheckpointTypes, ProcessTypes, Contents
  <2>2. CheckpointTypes'
    BY <1>0, <1>3a DEF MakeDirectory, MayCreate, ImageTypes, CheckpointTypes, ProcessTypes, Contents
  <2>3. ProcessTypes'
    BY <1>0, <1>3a
    DEF MakeDirectory, MayCreate, ImageTypes, CheckpointTypes, ProcessTypes, ProcStates
  <2>4. \A q \in Procs : OpenTypes(q)'
    BY <1>0, <1>3a
    DEF MakeDirectory, MayCreate, ImageTypes, CheckpointTypes, ProcessTypes, OpenTypes
  <2> QED
    BY <2>1, <2>2, <2>3, <2>4 DEF TypesInv, TypeOK, ImageTypes, CheckpointTypes, ProcessTypes
<1>4. ASSUME NEW p \in Procs, CreateClears(p) PROVE TypesInv'
  <2>1. ImageTypes'
    BY <1>0, <1>4
    DEF CreateClears, SetBackup, NextMember, ImageTypes, CheckpointTypes, ProcessTypes, Contents
  <2>2. CheckpointTypes'
    BY <1>0, <1>4
    DEF CreateClears, SetBackup, NextMember, ImageTypes, CheckpointTypes, ProcessTypes, Contents
  <2>3. ProcessTypes'
    BY <1>0, <1>4
    DEF CreateClears, SetBackup, NextMember, ImageTypes, CheckpointTypes, ProcessTypes, ProcStates
  <2>4. \A q \in Procs : OpenTypes(q)'
    BY <1>0, <1>4
    DEF CreateClears, SetBackup, NextMember, ImageTypes, CheckpointTypes, ProcessTypes, OpenTypes
  <2> QED
    BY <2>1, <2>2, <2>3, <2>4 DEF TypesInv, TypeOK, ImageTypes, CheckpointTypes, ProcessTypes
<1>5. ASSUME NEW p \in Procs, CreateSyncs(p) PROVE TypesInv'
  <2>1. ImageTypes'
    BY <1>0, <1>5
    DEF CreateSyncs, FsyncDirectory, ImageTypes, CheckpointTypes, ProcessTypes, Contents
  <2>2. CheckpointTypes'
    BY <1>0, <1>5
    DEF CreateSyncs, FsyncDirectory, ImageTypes, CheckpointTypes, ProcessTypes, Contents
  <2>3. ProcessTypes'
    BY <1>0, <1>5
    DEF CreateSyncs, FsyncDirectory, ImageTypes, CheckpointTypes, ProcessTypes, ProcStates
  <2>4. \A q \in Procs : OpenTypes(q)'
    <3>1. /\ pc[p] \in {"cleared", "announced", "readied"} /\ pc'[p] \in {"announce", "copy", "created"}
          /\ opened' = opened /\ staged' = staged /\ \A q \in Procs : q # p => pc'[q] = pc[q]
      BY <1>0, <1>5 DEF CreateSyncs, ProcessTypes
    <3> QED
      BY <1>0, <3>1 DEF OpenTypes
  <2> QED
    BY <2>1, <2>2, <2>3, <2>4 DEF TypesInv, TypeOK, ImageTypes, CheckpointTypes, ProcessTypes
<1>6. ASSUME NEW p \in Procs, CreateAnnounces(p) PROVE TypesInv'
  <2>1. ImageTypes'
    BY <1>0, <1>6
    DEF CreateAnnounces, SetManifest, ImageTypes, CheckpointTypes, ProcessTypes, Contents
  <2>2. CheckpointTypes'
    BY <1>0, <1>6
    DEF CreateAnnounces, SetManifest, ImageTypes, CheckpointTypes, ProcessTypes, Contents
  <2>3. ProcessTypes'
    BY <1>0, <1>6
    DEF CreateAnnounces, SetManifest, ImageTypes, CheckpointTypes, ProcessTypes, ProcStates
  <2>4. \A q \in Procs : OpenTypes(q)'
    BY <1>0, <1>6
    DEF CreateAnnounces, SetManifest, ImageTypes, CheckpointTypes, ProcessTypes, OpenTypes
  <2> QED
    BY <2>1, <2>2, <2>3, <2>4 DEF TypesInv, TypeOK, ImageTypes, CheckpointTypes, ProcessTypes
<1>7. ASSUME NEW p \in Procs, CopyBegins(p) PROVE TypesInv'
  <2>1. ImageTypes'
    BY <1>0, <1>7 DEF CopyBegins, SetBackup, ImageTypes, CheckpointTypes, ProcessTypes, Contents
  <2>2. CheckpointTypes'
    BY <1>0, <1>7 DEF CopyBegins, SetBackup, ImageTypes, CheckpointTypes, ProcessTypes, Contents
  <2>3. ProcessTypes'
    BY <1>0, <1>7 DEF CopyBegins, SetBackup, ImageTypes, CheckpointTypes, ProcessTypes, ProcStates
  <2>4. \A q \in Procs : OpenTypes(q)'
    BY <1>0, <1>7 DEF CopyBegins, SetBackup, ImageTypes, CheckpointTypes, ProcessTypes, OpenTypes
  <2> QED
    BY <2>1, <2>2, <2>3, <2>4 DEF TypesInv, TypeOK, ImageTypes, CheckpointTypes, ProcessTypes
<1>8. ASSUME NEW p \in Procs, CopyEnds(p) PROVE TypesInv'
  <2>1. ImageTypes'
    BY <1>0, <1>8 DEF CopyEnds, NextMember, ImageTypes, CheckpointTypes, ProcessTypes, Contents
  <2>2. CheckpointTypes'
    <3> DEFINE m == Files[at[p]]
    <3> DEFINE copy == content[opened[p][m]]
    <3>0. opened[p] \in [Members -> Inodes] /\ content \in [Inodes -> Contents]
      BY <1>0, <1>8 DEF CopyEnds, OpenTypes, ImageTypes
    <3>1. m \in Members /\ copy \in Contents
      BY <1>0, <3>0
    <3>2. PICK c \in Contents \cup {"none"} : bakD' = [bakD EXCEPT ![m] = c]
      BY <1>0, <1>8, <3>1 DEF CopyEnds, CheckpointTypes
    <3>3. /\ bak' = [bak EXCEPT ![m] = copy]
          /\ UNCHANGED <<man, manD, dir, dirD, past, aged, armed>>
      BY <1>8 DEF CopyEnds
    <3> HIDE DEF m, copy
    <3> QED
      BY <1>0, <3>1, <3>2, <3>3 DEF CheckpointTypes
  <2>3. ProcessTypes'
    BY <1>0, <1>8 DEF CopyEnds, NextMember, ImageTypes, CheckpointTypes, ProcessTypes, ProcStates
  <2>4. \A q \in Procs : OpenTypes(q)'
    BY <1>0, <1>8 DEF CopyEnds, NextMember, ImageTypes, CheckpointTypes, ProcessTypes, OpenTypes
  <2> QED
    BY <2>1, <2>2, <2>3, <2>4 DEF TypesInv, TypeOK, ImageTypes, CheckpointTypes, ProcessTypes
<1>9. ASSUME NEW p \in Procs, CreateReadies(p) PROVE TypesInv'
  <2>1. ImageTypes'
    BY <1>0, <1>9
    DEF CreateReadies, SetManifest, ImageTypes, CheckpointTypes, ProcessTypes, Contents
  <2>2. CheckpointTypes'
    BY <1>0, <1>9
    DEF CreateReadies, SetManifest, ImageTypes, CheckpointTypes, ProcessTypes, Contents
  <2>3. ProcessTypes'
    BY <1>0, <1>9
    DEF CreateReadies, SetManifest, ImageTypes, CheckpointTypes, ProcessTypes, ProcStates
  <2>4. \A q \in Procs : OpenTypes(q)'
    BY <1>0, <1>9
    DEF CreateReadies, SetManifest, ImageTypes, CheckpointTypes, ProcessTypes, OpenTypes
  <2> QED
    BY <2>1, <2>2, <2>3, <2>4 DEF TypesInv, TypeOK, ImageTypes, CheckpointTypes, ProcessTypes
<1>10. ASSUME NEW p \in Procs, CreateFails(p) PROVE TypesInv'
  <2>1. ImageTypes'
    BY <1>0, <1>10 DEF CreateFails, ImageTypes, CheckpointTypes, ProcessTypes, Contents
  <2>2. CheckpointTypes'
    BY <1>0, <1>10 DEF CreateFails, ImageTypes, CheckpointTypes, ProcessTypes, Contents
  <2>3. ProcessTypes'
    BY <1>0, <1>10 DEF CreateFails, ImageTypes, CheckpointTypes, ProcessTypes, ProcStates
  <2>4. \A q \in Procs : OpenTypes(q)'
    BY <1>0, <1>10 DEF CreateFails, ImageTypes, CheckpointTypes, ProcessTypes, OpenTypes
  <2> QED
    BY <2>1, <2>2, <2>3, <2>4 DEF TypesInv, TypeOK, ImageTypes, CheckpointTypes, ProcessTypes
<1>11. ASSUME NEW p \in Procs, SessionLive(p) PROVE TypesInv'
  <2>1. ImageTypes'
    BY <1>0, <1>11 DEF SessionLive, ImageTypes, CheckpointTypes, ProcessTypes, Contents
  <2>2. CheckpointTypes'
    BY <1>0, <1>11 DEF SessionLive, ImageTypes, CheckpointTypes, ProcessTypes, Contents
  <2>3. ProcessTypes'
    BY <1>0, <1>11 DEF SessionLive, ImageTypes, CheckpointTypes, ProcessTypes, ProcStates
  <2>4. \A q \in Procs : OpenTypes(q)'
    BY <1>0, <1>11 DEF SessionLive, ImageTypes, CheckpointTypes, ProcessTypes, OpenTypes
  <2> QED
    BY <2>1, <2>2, <2>3, <2>4 DEF TypesInv, TypeOK, ImageTypes, CheckpointTypes, ProcessTypes
<1>12. ASSUME NEW p \in Procs, SessionWrite(p) PROVE TypesInv'
  <2>1. ImageTypes'
    BY <1>0, <1>12 DEF SessionWrite, ImageTypes, CheckpointTypes, ProcessTypes, Contents
  <2>2. CheckpointTypes'
    BY <1>0, <1>12 DEF SessionWrite, ImageTypes, CheckpointTypes, ProcessTypes, Contents
  <2>3. ProcessTypes'
    BY <1>0, <1>12 DEF SessionWrite, ImageTypes, CheckpointTypes, ProcessTypes, ProcStates
  <2>4. \A q \in Procs : OpenTypes(q)'
    BY <1>0, <1>12 DEF SessionWrite, ImageTypes, CheckpointTypes, ProcessTypes, OpenTypes
  <2> QED
    BY <2>1, <2>2, <2>3, <2>4 DEF TypesInv, TypeOK, ImageTypes, CheckpointTypes, ProcessTypes
<1>13. ASSUME NEW p \in Procs, SessionCloseClean(p) PROVE TypesInv'
  <2>1. ImageTypes'
    BY <1>0, <1>13 DEF SessionCloseClean, ImageTypes, CheckpointTypes, ProcessTypes, Contents
  <2>2. CheckpointTypes'
    BY <1>0, <1>13 DEF SessionCloseClean, ImageTypes, CheckpointTypes, ProcessTypes, Contents
  <2>3. ProcessTypes'
    BY <1>0, <1>13 DEF SessionCloseClean, ImageTypes, CheckpointTypes, ProcessTypes, ProcStates
  <2>4. \A q \in Procs : OpenTypes(q)'
    BY <1>0, <1>13 DEF SessionCloseClean, ImageTypes, CheckpointTypes, ProcessTypes, OpenTypes
  <2> QED
    BY <2>1, <2>2, <2>3, <2>4 DEF TypesInv, TypeOK, ImageTypes, CheckpointTypes, ProcessTypes
<1>14. ASSUME NEW p \in Procs, SessionCloseUnclean(p) PROVE TypesInv'
  <2>1. /\ ProcessTypes' /\ pc'[p] = "idle"
        /\ \A q \in Procs : q # p => pc'[q] = pc[q] /\ opened'[q] = opened[q] /\ staged'[q] = staged[q]
    BY <1>0, <1>14, QuitEffect DEF SessionCloseUnclean
  <2>2. ImageTypes' /\ CheckpointTypes'
    BY <1>0, <1>14 DEF SessionCloseUnclean, ImageTypes, CheckpointTypes
  <2>3. \A q \in Procs : OpenTypes(q)'
    BY <1>0, <2>1 DEF OpenTypes
  <2> QED
    BY <2>1, <2>2, <2>3 DEF TypesInv, TypeOK, ImageTypes, CheckpointTypes, ProcessTypes
<1>15. ASSUME NEW p \in Procs, UnlinkManifest(p) PROVE TypesInv'
  <2>1. ImageTypes'
    BY <1>0, <1>15
    DEF UnlinkManifest, SetManifest, ImageTypes, CheckpointTypes, ProcessTypes, Contents
  <2>2. CheckpointTypes'
    BY <1>0, <1>15
    DEF UnlinkManifest, SetManifest, ImageTypes, CheckpointTypes, ProcessTypes, Contents
  <2>3. ProcessTypes'
    BY <1>0, <1>15
    DEF UnlinkManifest, SetManifest, ImageTypes, CheckpointTypes, ProcessTypes, ProcStates
  <2>4. \A q \in Procs : OpenTypes(q)'
    BY <1>0, <1>15
    DEF UnlinkManifest, SetManifest, ImageTypes, CheckpointTypes, ProcessTypes, OpenTypes
  <2> QED
    BY <2>1, <2>2, <2>3, <2>4 DEF TypesInv, TypeOK, ImageTypes, CheckpointTypes, ProcessTypes
<1>16. ASSUME NEW p \in Procs, SyncManifest(p) PROVE TypesInv'
  <2>1. ImageTypes'
    BY <1>0, <1>16
    DEF SyncManifest, SyncUnlink, FsyncDirectory, ImageTypes, CheckpointTypes, ProcessTypes,
        Contents
  <2>2. CheckpointTypes'
    BY <1>0, <1>16
    DEF SyncManifest, SyncUnlink, FsyncDirectory, ImageTypes, CheckpointTypes, ProcessTypes,
        Contents
  <2>3. ProcessTypes'
    BY <1>0, <1>16
    DEF SyncManifest, SyncUnlink, FsyncDirectory, ImageTypes, CheckpointTypes, ProcessTypes,
        ProcStates
  <2>4. \A q \in Procs : OpenTypes(q)'
    BY <1>0, <1>16
    DEF SyncManifest, SyncUnlink, FsyncDirectory, ImageTypes, CheckpointTypes, ProcessTypes,
        OpenTypes
  <2> QED
    BY <2>1, <2>2, <2>3, <2>4 DEF TypesInv, TypeOK, ImageTypes, CheckpointTypes, ProcessTypes
<1>17. ASSUME NEW p \in Procs, UnlinkBackup(p) PROVE TypesInv'
  <2>1. ImageTypes'
    BY <1>0, <1>17
    DEF UnlinkBackup, SetBackup, NextMember, ImageTypes, CheckpointTypes, ProcessTypes, Contents
  <2>2. CheckpointTypes'
    BY <1>0, <1>17
    DEF UnlinkBackup, SetBackup, NextMember, ImageTypes, CheckpointTypes, ProcessTypes, Contents
  <2>3. ProcessTypes'
    BY <1>0, <1>17
    DEF UnlinkBackup, SetBackup, NextMember, ImageTypes, CheckpointTypes, ProcessTypes, ProcStates
  <2>4. \A q \in Procs : OpenTypes(q)'
    BY <1>0, <1>17
    DEF UnlinkBackup, SetBackup, NextMember, ImageTypes, CheckpointTypes, ProcessTypes, OpenTypes
  <2> QED
    BY <2>1, <2>2, <2>3, <2>4 DEF TypesInv, TypeOK, ImageTypes, CheckpointTypes, ProcessTypes
<1>18. ASSUME NEW p \in Procs, CompleteEnds(p) PROVE TypesInv'
  <2>1. ImageTypes'
    BY <1>0, <1>18
    DEF CompleteEnds, FsyncDirectory, ImageTypes, CheckpointTypes, ProcessTypes, Contents
  <2>2. CheckpointTypes'
    BY <1>0, <1>18
    DEF CompleteEnds, FsyncDirectory, ImageTypes, CheckpointTypes, ProcessTypes, Contents
  <2>3. ProcessTypes'
    BY <1>0, <1>18
    DEF CompleteEnds, FsyncDirectory, ImageTypes, CheckpointTypes, ProcessTypes, ProcStates
  <2>4. \A q \in Procs : OpenTypes(q)'
    BY <1>0, <1>18
    DEF CompleteEnds, FsyncDirectory, ImageTypes, CheckpointTypes, ProcessTypes, OpenTypes
  <2> QED
    BY <2>1, <2>2, <2>3, <2>4 DEF TypesInv, TypeOK, ImageTypes, CheckpointTypes, ProcessTypes
<1>18a. ASSUME NEW p \in Procs, CompleteRemoves(p) PROVE TypesInv'
  <2>1. /\ ProcessTypes' /\ pc'[p] = "idle"
        /\ \A q \in Procs : q # p => pc'[q] = pc[q] /\ opened'[q] = opened[q] /\ staged'[q] = staged[q]
    BY <1>0, <1>18a, QuitEffect DEF CompleteRemoves
  <2>2. ImageTypes' /\ CheckpointTypes'
    BY <1>0, <1>18a, RemoveTypes DEF CompleteRemoves, ImageTypes
  <2>3. \A q \in Procs : OpenTypes(q)'
    BY <1>0, <2>1 DEF OpenTypes
  <2> QED
    BY <2>1, <2>2, <2>3 DEF TypesInv, TypeOK, ImageTypes, CheckpointTypes, ProcessTypes
<1>19. ASSUME NEW p \in Procs, RecoverReads(p) PROVE TypesInv'
  <2>1. ImageTypes'
    BY <1>0, <1>19 DEF RecoverReads, ImageTypes, CheckpointTypes, ProcessTypes, Contents
  <2>2. CheckpointTypes'
    BY <1>0, <1>19 DEF RecoverReads, ImageTypes, CheckpointTypes, ProcessTypes, Contents
  <2>3. ProcessTypes'
    BY <1>0, <1>19 DEF RecoverReads, ImageTypes, CheckpointTypes, ProcessTypes, ProcStates
  <2>4. \A q \in Procs : OpenTypes(q)'
    BY <1>0, <1>19 DEF RecoverReads, ImageTypes, CheckpointTypes, ProcessTypes, OpenTypes
  <2> QED
    BY <2>1, <2>2, <2>3, <2>4 DEF TypesInv, TypeOK, ImageTypes, CheckpointTypes, ProcessTypes
<1>20. ASSUME NEW p \in Procs, RecoverOpens(p) PROVE TypesInv'
  <2>1. ImageTypes'
    BY <1>0, <1>20 DEF RecoverOpens, OpensPath, ImageTypes, CheckpointTypes, ProcessTypes, Contents
  <2>2. CheckpointTypes'
    BY <1>0, <1>20 DEF RecoverOpens, OpensPath, ImageTypes, CheckpointTypes, ProcessTypes, Contents
  <2>3. ProcessTypes'
    BY <1>0, <1>20
    DEF RecoverOpens, OpensPath, ImageTypes, CheckpointTypes, ProcessTypes, ProcStates
  <2>4. \A q \in Procs : OpenTypes(q)'
    BY <1>0, <1>20 DEF RecoverOpens, OpensPath, ImageTypes, CheckpointTypes, ProcessTypes, OpenTypes
  <2> QED
    BY <2>1, <2>2, <2>3, <2>4 DEF TypesInv, TypeOK, ImageTypes, CheckpointTypes, ProcessTypes
<1>21. ASSUME NEW p \in Procs, RecoverLocks(p) PROVE TypesInv'
  <2>1. ImageTypes'
    BY <1>0, <1>21 DEF RecoverLocks, TakeLocks, ImageTypes, CheckpointTypes, ProcessTypes, Contents
  <2>2. CheckpointTypes'
    BY <1>0, <1>21 DEF RecoverLocks, TakeLocks, ImageTypes, CheckpointTypes, ProcessTypes, Contents
  <2>3. ProcessTypes'
    BY <1>0, <1>21
    DEF RecoverLocks, TakeLocks, ImageTypes, CheckpointTypes, ProcessTypes, ProcStates
  <2>4. \A q \in Procs : OpenTypes(q)'
    BY <1>0, <1>21 DEF RecoverLocks, TakeLocks, ImageTypes, CheckpointTypes, ProcessTypes, OpenTypes
  <2> QED
    BY <2>1, <2>2, <2>3, <2>4 DEF TypesInv, TypeOK, ImageTypes, CheckpointTypes, ProcessTypes
<1>22. ASSUME NEW p \in Procs, Discard(p) PROVE TypesInv'
  <2>1. ImageTypes'
    BY <1>0, <1>22 DEF Discard, ImageTypes, CheckpointTypes, ProcessTypes, Contents
  <2>2. CheckpointTypes'
    BY <1>0, <1>22 DEF Discard, ImageTypes, CheckpointTypes, ProcessTypes, Contents
  <2>3. ProcessTypes'
    BY <1>0, <1>22 DEF Discard, ImageTypes, CheckpointTypes, ProcessTypes, ProcStates
  <2>4. \A q \in Procs : OpenTypes(q)'
    BY <1>0, <1>22 DEF Discard, ImageTypes, CheckpointTypes, ProcessTypes, OpenTypes
  <2> QED
    BY <2>1, <2>2, <2>3, <2>4 DEF TypesInv, TypeOK, ImageTypes, CheckpointTypes, ProcessTypes
<1>23. ASSUME NEW p \in Procs, Stage(p) PROVE TypesInv'
  <2>1. ImageTypes'
    BY <1>0, <1>23 DEF Stage, ImageTypes, CheckpointTypes, ProcessTypes, Contents
  <2>2. CheckpointTypes'
    BY <1>0, <1>23 DEF Stage, ImageTypes, CheckpointTypes, ProcessTypes, Contents
  <2>3. ProcessTypes'
    BY <1>0, <1>23 DEF Stage, ImageTypes, CheckpointTypes, ProcessTypes, ProcStates
  <2>4. \A q \in Procs : OpenTypes(q)'
    BY <1>0, <1>23 DEF Stage, ImageTypes, CheckpointTypes, ProcessTypes, OpenTypes
  <2> QED
    BY <2>1, <2>2, <2>3, <2>4 DEF TypesInv, TypeOK, ImageTypes, CheckpointTypes, ProcessTypes
<1>24. ASSUME NEW p \in Procs, RecoverRefused(p) PROVE TypesInv'
  <2>1. /\ ProcessTypes' /\ pc'[p] = "idle"
        /\ \A q \in Procs : q # p => pc'[q] = pc[q] /\ opened'[q] = opened[q] /\ staged'[q] = staged[q]
    BY <1>0, <1>24, QuitEffect DEF RecoverRefused
  <2>2. ImageTypes' /\ CheckpointTypes'
    BY <1>0, <1>24 DEF RecoverRefused, ImageTypes, CheckpointTypes
  <2>3. \A q \in Procs : OpenTypes(q)'
    BY <1>0, <2>1 DEF OpenTypes
  <2> QED
    BY <2>1, <2>2, <2>3 DEF TypesInv, TypeOK, ImageTypes, CheckpointTypes, ProcessTypes
<1>25. ASSUME NEW p \in Procs, Replace(p) PROVE TypesInv'
  <2>1. ImageTypes'
    <3>1. staged[p][Files[at[p]]] \in Contents
      BY <1>0, <1>25 DEF Replace, OpenTypes
    <3>2. PICK i \in Inodes : /\ path' = [path EXCEPT ![Files[at[p]]] = i]
                              /\ content' = [content EXCEPT ![i] = staged[p][Files[at[p]]]]
      BY <1>25 DEF Replace, Unused
    <3> QED
      BY <1>0, <1>25, <3>1, <3>2 DEF Replace, ImageTypes
  <2>2. CheckpointTypes'
    BY <1>0, <1>25 DEF Replace, ImageTypes, CheckpointTypes, ProcessTypes, Contents
  <2>3. ProcessTypes'
    BY <1>0, <1>25 DEF Replace, ImageTypes, CheckpointTypes, ProcessTypes, ProcStates
  <2>4. \A q \in Procs : OpenTypes(q)'
    BY <1>0, <1>25 DEF Replace, ImageTypes, CheckpointTypes, ProcessTypes, OpenTypes
  <2> QED
    BY <2>1, <2>2, <2>3, <2>4 DEF TypesInv, TypeOK, ImageTypes, CheckpointTypes, ProcessTypes
<1>26. ASSUME NEW p \in Procs, ReplaceSyncs(p) PROVE TypesInv'
  <2>1. ImageTypes'
    BY <1>0, <1>26 DEF ReplaceSyncs, SyncTarget, ImageTypes, CheckpointTypes, ProcessTypes, Contents
  <2>2. CheckpointTypes'
    BY <1>0, <1>26 DEF ReplaceSyncs, SyncTarget, ImageTypes, CheckpointTypes, ProcessTypes, Contents
  <2>3. ProcessTypes'
    BY <1>0, <1>26
    DEF ReplaceSyncs, SyncTarget, ImageTypes, CheckpointTypes, ProcessTypes, ProcStates
  <2>4. \A q \in Procs : OpenTypes(q)'
    BY <1>0, <1>26
    DEF ReplaceSyncs, SyncTarget, ImageTypes, CheckpointTypes, ProcessTypes, OpenTypes
  <2> QED
    BY <2>1, <2>2, <2>3, <2>4 DEF TypesInv, TypeOK, ImageTypes, CheckpointTypes, ProcessTypes
<1>27. ASSUME NEW p \in Procs, SweepFinds(p) PROVE TypesInv'
  <2>1. ImageTypes'
    BY <1>0, <1>27 DEF SweepFinds, ImageTypes, CheckpointTypes, ProcessTypes, Contents
  <2>2. CheckpointTypes'
    BY <1>0, <1>27 DEF SweepFinds, ImageTypes, CheckpointTypes, ProcessTypes, Contents
  <2>3. ProcessTypes'
    BY <1>0, <1>27 DEF SweepFinds, ImageTypes, CheckpointTypes, ProcessTypes, ProcStates
  <2>4. \A q \in Procs : OpenTypes(q)'
    BY <1>0, <1>27 DEF SweepFinds, ImageTypes, CheckpointTypes, ProcessTypes, OpenTypes
  <2> QED
    BY <2>1, <2>2, <2>3, <2>4 DEF TypesInv, TypeOK, ImageTypes, CheckpointTypes, ProcessTypes
<1>28. ASSUME NEW p \in Procs, SweepUnlinks(p) PROVE TypesInv'
  <2>1. ImageTypes'
    BY <1>0, <1>28 DEF SweepUnlinks, SetBackup, ImageTypes, CheckpointTypes, ProcessTypes, Contents
  <2>2. CheckpointTypes'
    BY <1>0, <1>28 DEF SweepUnlinks, SetBackup, ImageTypes, CheckpointTypes, ProcessTypes, Contents
  <2>3. ProcessTypes'
    BY <1>0, <1>28
    DEF SweepUnlinks, SetBackup, ImageTypes, CheckpointTypes, ProcessTypes, ProcStates
  <2>4. \A q \in Procs : OpenTypes(q)'
    BY <1>0, <1>28 DEF SweepUnlinks, SetBackup, ImageTypes, CheckpointTypes, ProcessTypes, OpenTypes
  <2> QED
    BY <2>1, <2>2, <2>3, <2>4 DEF TypesInv, TypeOK, ImageTypes, CheckpointTypes, ProcessTypes
<1>29. ASSUME NEW p \in Procs, SweepEnds(p) PROVE TypesInv'
  <2>1. /\ ProcessTypes' /\ pc'[p] = "idle"
        /\ \A q \in Procs : q # p => pc'[q] = pc[q] /\ opened'[q] = opened[q] /\ staged'[q] = staged[q]
    BY <1>0, <1>29, QuitEffect DEF SweepEnds
  <2>2. ImageTypes' /\ CheckpointTypes'
    <3>1. CASE RemoveDirectory
      BY <1>0, <1>29, <3>1, RemoveTypes DEF SweepEnds, ImageTypes
    <3>2. CASE UNCHANGED <<ckpt, history>>
      BY <1>0, <1>29, <3>2 DEF SweepEnds, ImageTypes, CheckpointTypes
    <3> QED
      BY <1>29, <3>1, <3>2 DEF SweepEnds
  <2>3. \A q \in Procs : OpenTypes(q)'
    BY <1>0, <2>1 DEF OpenTypes
  <2> QED
    BY <2>1, <2>2, <2>3 DEF TypesInv, TypeOK, ImageTypes, CheckpointTypes, ProcessTypes
<1>30. ASSUME NEW p \in Procs, Crash(p) PROVE TypesInv'
  <2>1. /\ ProcessTypes' /\ pc'[p] = "idle"
        /\ \A q \in Procs : q # p => pc'[q] = pc[q] /\ opened'[q] = opened[q] /\ staged'[q] = staged[q]
    BY <1>0, <1>30, QuitEffect DEF Crash
  <2>2. ImageTypes' /\ CheckpointTypes'
    BY <1>0, <1>30 DEF Crash, ImageTypes, CheckpointTypes
  <2>3. \A q \in Procs : OpenTypes(q)'
    BY <1>0, <2>1 DEF OpenTypes
  <2> QED
    BY <2>1, <2>2, <2>3 DEF TypesInv, TypeOK, ImageTypes, CheckpointTypes, ProcessTypes
<1>31. CASE TimePasses
  BY <1>0, <1>31
  DEF TimePasses, TypesInv, OpenTypes, TypeOK, ImageTypes, CheckpointTypes,
      ProcessTypes
<1>32. CASE PowerLoss
  <2>1. NoInodes \in [Members -> Inodes \cup {0}] /\ NoBackups \in [Members -> Contents \cup {"none"}]
    BY DEF NoInodes, NoBackups
  <2>2. ImageTypes'
    <3>1. path' \in Left(path, pathD) /\ pathD' = path' /\ content' = content
      BY <1>32 DEF PowerLoss
    <3>2. path' \in [Members -> Inodes]
      BY <1>0, <3>1, LeftFacts DEF ImageTypes
    <3> QED
      BY <1>0, <3>1, <3>2 DEF ImageTypes
  <2>3. /\ bak' \in Left(bak, bakD) \/ bak' \in Left(NoBackups, past.bak) \/ bak' = NoBackups
        /\ man' \in {man, manD, "none", past.man} /\ manD' = man' /\ bakD' = bak'
        /\ dir' \in {dir, TRUE, FALSE} /\ dirD' = dir' /\ past' = NoPast /\ UNCHANGED <<aged, armed>>
    BY <1>32 DEF PowerLoss
  <2>4. past.bak \in [Members -> Contents \cup {"none"}] /\ past.man \in Manifests
    BY <1>0 DEF CheckpointTypes, Pasts
  <2>5. bak' \in [Members -> Contents \cup {"none"}]
    BY <1>0, <2>1, <2>3, <2>4, LeftFacts DEF CheckpointTypes
  <2>6. CheckpointTypes'
    BY <1>0, <2>3, <2>4, <2>5 DEF CheckpointTypes
  <2>7. ProcessTypes'
    BY <1>32, <2>1 DEF PowerLoss, ProcessTypes, ProcStates
  <2>8. \A q \in Procs : OpenTypes(q)'
    BY <1>32 DEF PowerLoss, OpenTypes
  <2> QED
    BY <2>2, <2>6, <2>7, <2>8 DEF TypesInv, TypeOK, ImageTypes, CheckpointTypes, ProcessTypes
<1>33. CASE UNCHANGED vars
  BY <1>33 DEF vars, TypesInv, OpenTypes, TypeOK
<1> QED
  BY <1>1, <1>2, <1>3, <1>3a, <1>4, <1>5, <1>6, <1>7, <1>8, <1>9, <1>10, <1>11, <1>12, <1>13,
     <1>14, <1>15, <1>16, <1>17, <1>18, <1>18a, <1>19, <1>20, <1>21, <1>22, <1>23, <1>24, <1>25,
     <1>26, <1>27, <1>28, <1>29, <1>30, <1>31, <1>32, <1>33
  DEF Next, Session, Complete, Recover, Sweep

-----------------------------------------------------------------------------
(* Who may write the image: steps                                           *)

\* In the first state nobody owns anything.
LEMMA OwnersInit == Init => OwnersInv
BY InitTypes DEF Init, OwnersInv, TypesInv, OpenTypes, SessionOwns, RecoverOwns

\* A process that ends takes nothing from the others.
LEMMA QuitKeepsOwners ==
  ASSUME OwnersInv, NEW p \in Procs, Quit(p), UNCHANGED image
  PROVE  \A q \in Procs : SessionOwns(q)' /\ RecoverOwns(q)'
<1>1. /\ pc'[p] = "idle" /\ path' = path /\ path \in [Members -> Inodes]
      /\ \A i \in Inodes : lock'[i] = IF lock[i] = p THEN Nobody ELSE lock[i]
      /\ \A q \in Procs : q # p => pc'[q] = pc[q] /\ at'[q] = at[q] /\ opened'[q] = opened[q]
  BY QuitEffect, TypeParts DEF OwnersInv, TypesInv, image, ImageTypes
<1>2. ASSUME NEW q \in Procs PROVE SessionOwns(q)' /\ RecoverOwns(q)'
  <2>1. SessionOwns(q) /\ RecoverOwns(q) /\ at[q] \in 1 .. Len(Files)
    BY DEF OwnersInv, TypesInv, TypeOK
  <2>2. CASE q = p
    BY <1>1, <2>2 DEF SessionOwns, RecoverOwns
  <2>3. CASE q # p
    BY <1>1, <2>1, <2>3, FilesFacts DEF SessionOwns, RecoverOwns
  <2> QED
    BY <2>2, <2>3
<1> QED
  BY <1>2

\* Every step keeps who owns what, if recover is not run twice at the same time.
LEMMA OwnersStep == OwnersInv /\ OneRecovery /\ [Next]_vars => OwnersInv'
<1> SUFFICES ASSUME OwnersInv, OneRecovery, [Next]_vars PROVE OwnersInv'
  OBVIOUS
<1>0. /\ TypesInv /\ ImageTypes /\ ProcessTypes /\ TypesInv'
      /\ \A p \in Procs : /\ SessionOwns(p) /\ RecoverOwns(p)
                          /\ at[p] \in 1 .. Len(Files) /\ Files[at[p]] \in Members
  BY TypeParts, TypesStep, FilesFacts DEF OwnersInv, TypesInv, ProcessTypes
<1> SUFFICES \A q \in Procs : SessionOwns(q)' /\ RecoverOwns(q)'
  BY <1>0 DEF OwnersInv
<1> USE FilesFacts DEF image, ckpt, history, locals, Go
<1>1. ASSUME NEW p \in Procs, SessionOpen(p)
     PROVE  \A q \in Procs : SessionOwns(q)' /\ RecoverOwns(q)'
  <2>1. \A q \in Procs : SessionOwns(q)'
    BY <1>0, <1>1 DEF SessionOpen, OpensPath, ProcessTypes, ImageTypes, SessionOwns, RecoverOwns
  <2>2. \A q \in Procs : RecoverOwns(q)'
    BY <1>0, <1>1
    DEF SessionOpen, OpensPath, ProcessTypes, ImageTypes, SessionOwns, RecoverOwns, OneRecovery,
        Recovering
  <2> QED
    BY <2>1, <2>2
<1>2. ASSUME NEW p \in Procs, SessionLock(p)
     PROVE  \A q \in Procs : SessionOwns(q)' /\ RecoverOwns(q)'
  <2>1. pc[p] = "opened" /\ pc' = [pc EXCEPT ![p] = "check"] /\ opened[p] = path /\ UNCHANGED <<path, opened, at>>
    BY <1>0, <1>2 DEF SessionLock, SameFile, RecoverOwns
  <2>2. /\ \A m \in Members : lock[path[m]] = Nobody /\ lock'[path[m]] = p
        /\ \A i \in Inodes : lock[i] # Nobody => lock'[i] = lock[i]
    BY <1>0, <1>2, <2>1 DEF SessionLock, TakeLocks, Free, Handles, ImageTypes, ProcessTypes
  <2>3. \A q \in Procs : q # p => pc'[q] = pc[q]
    BY <1>0, <2>1 DEF ProcessTypes
  <2>4. ASSUME NEW q \in Procs, q # p PROVE SessionOwns(q)' /\ RecoverOwns(q)'
    <3>1. SessionOwns(q)'
      BY <1>0, <2>1, <2>2, <2>3, <2>4, RecoveryAssumption DEF SessionOwns
    <3>2. RecoverOwns(q)'
      BY <1>0, <2>1, <2>2, <2>3, <2>4, RecoveryAssumption DEF RecoverOwns
    <3> QED
      BY <3>1, <3>2
  <2>5. pc'[p] = "check"
    BY <1>0, <2>1 DEF ProcessTypes
  <2>6. SessionOwns(p)' /\ RecoverOwns(p)'
    BY <2>1, <2>2, <2>5 DEF SessionOwns, RecoverOwns
  <2> QED
    BY <2>4, <2>6
<1>3. ASSUME NEW p \in Procs, SessionRefused(p)
     PROVE  \A q \in Procs : SessionOwns(q)' /\ RecoverOwns(q)'
  BY <1>0, <1>3, QuitKeepsOwners DEF SessionRefused
<1>3a. ASSUME NEW p \in Procs, MakeDirectory(p)
     PROVE  \A q \in Procs : SessionOwns(q)' /\ RecoverOwns(q)'
  <2>1. \A q \in Procs : SessionOwns(q)'
    BY <1>0, <1>3a DEF MakeDirectory, MayCreate, ProcessTypes, ImageTypes, SessionOwns, RecoverOwns
  <2>2. \A q \in Procs : RecoverOwns(q)'
    BY <1>0, <1>3a
    DEF MakeDirectory, MayCreate, ProcessTypes, ImageTypes, SessionOwns, RecoverOwns, OneRecovery,
        Recovering
  <2> QED
    BY <2>1, <2>2
<1>4. ASSUME NEW p \in Procs, CreateClears(p)
     PROVE  \A q \in Procs : SessionOwns(q)' /\ RecoverOwns(q)'
  <2>1. \A q \in Procs : SessionOwns(q)'
    BY <1>0, <1>4
    DEF CreateClears, SetBackup, NextMember, ProcessTypes, ImageTypes, SessionOwns, RecoverOwns
  <2>2. \A q \in Procs : RecoverOwns(q)'
    BY <1>0, <1>4
    DEF CreateClears, SetBackup, NextMember, ProcessTypes, ImageTypes, SessionOwns, RecoverOwns,
        OneRecovery,
        Recovering
  <2> QED
    BY <2>1, <2>2
<1>5. ASSUME NEW p \in Procs, CreateSyncs(p)
     PROVE  \A q \in Procs : SessionOwns(q)' /\ RecoverOwns(q)'
  <2>1. /\ pc[p] \in {"cleared", "announced", "readied"} /\ pc'[p] \in {"announce", "copy", "created"}
        /\ path' = path /\ lock' = lock /\ opened' = opened /\ at' = at
        /\ \A q \in Procs : q # p => pc'[q] = pc[q]
    BY <1>0, <1>5 DEF CreateSyncs, ProcessTypes
  <2> QED
    BY <1>0, <2>1 DEF SessionOwns, RecoverOwns
<1>6. ASSUME NEW p \in Procs, CreateAnnounces(p)
     PROVE  \A q \in Procs : SessionOwns(q)' /\ RecoverOwns(q)'
  <2>1. \A q \in Procs : SessionOwns(q)'
    BY <1>0, <1>6
    DEF CreateAnnounces, SetManifest, ProcessTypes, ImageTypes, SessionOwns, RecoverOwns
  <2>2. \A q \in Procs : RecoverOwns(q)'
    BY <1>0, <1>6
    DEF CreateAnnounces, SetManifest, ProcessTypes, ImageTypes, SessionOwns, RecoverOwns,
        OneRecovery, Recovering
  <2> QED
    BY <2>1, <2>2
<1>7. ASSUME NEW p \in Procs, CopyBegins(p)
     PROVE  \A q \in Procs : SessionOwns(q)' /\ RecoverOwns(q)'
  <2>1. \A q \in Procs : SessionOwns(q)'
    BY <1>0, <1>7 DEF CopyBegins, SetBackup, ProcessTypes, ImageTypes, SessionOwns, RecoverOwns
  <2>2. \A q \in Procs : RecoverOwns(q)'
    BY <1>0, <1>7
    DEF CopyBegins, SetBackup, ProcessTypes, ImageTypes, SessionOwns, RecoverOwns, OneRecovery,
        Recovering
  <2> QED
    BY <2>1, <2>2
<1>8. ASSUME NEW p \in Procs, CopyEnds(p)
     PROVE  \A q \in Procs : SessionOwns(q)' /\ RecoverOwns(q)'
  <2>1. \A q \in Procs : SessionOwns(q)'
    BY <1>0, <1>8 DEF CopyEnds, NextMember, ProcessTypes, ImageTypes, SessionOwns, RecoverOwns
  <2>2. \A q \in Procs : RecoverOwns(q)'
    BY <1>0, <1>8
    DEF CopyEnds, NextMember, ProcessTypes, ImageTypes, SessionOwns, RecoverOwns, OneRecovery,
        Recovering
  <2> QED
    BY <2>1, <2>2
<1>9. ASSUME NEW p \in Procs, CreateReadies(p)
     PROVE  \A q \in Procs : SessionOwns(q)' /\ RecoverOwns(q)'
  <2>1. \A q \in Procs : SessionOwns(q)'
    BY <1>0, <1>9 DEF CreateReadies, SetManifest, ProcessTypes, ImageTypes, SessionOwns, RecoverOwns
  <2>2. \A q \in Procs : RecoverOwns(q)'
    BY <1>0, <1>9
    DEF CreateReadies, SetManifest, ProcessTypes, ImageTypes, SessionOwns, RecoverOwns,
        OneRecovery, Recovering
  <2> QED
    BY <2>1, <2>2
<1>10. ASSUME NEW p \in Procs, CreateFails(p)
     PROVE  \A q \in Procs : SessionOwns(q)' /\ RecoverOwns(q)'
  <2>1. \A q \in Procs : SessionOwns(q)'
    BY <1>0, <1>10 DEF CreateFails, ProcessTypes, ImageTypes, SessionOwns, RecoverOwns
  <2>2. \A q \in Procs : RecoverOwns(q)'
    BY <1>0, <1>10
    DEF CreateFails, ProcessTypes, ImageTypes, SessionOwns, RecoverOwns, OneRecovery, Recovering
  <2> QED
    BY <2>1, <2>2
<1>11. ASSUME NEW p \in Procs, SessionLive(p)
     PROVE  \A q \in Procs : SessionOwns(q)' /\ RecoverOwns(q)'
  <2>1. \A q \in Procs : SessionOwns(q)'
    BY <1>0, <1>11 DEF SessionLive, ProcessTypes, ImageTypes, SessionOwns, RecoverOwns
  <2>2. \A q \in Procs : RecoverOwns(q)'
    BY <1>0, <1>11
    DEF SessionLive, ProcessTypes, ImageTypes, SessionOwns, RecoverOwns, OneRecovery, Recovering
  <2> QED
    BY <2>1, <2>2
<1>12. ASSUME NEW p \in Procs, SessionWrite(p)
     PROVE  \A q \in Procs : SessionOwns(q)' /\ RecoverOwns(q)'
  <2>1. \A q \in Procs : SessionOwns(q)'
    BY <1>0, <1>12 DEF SessionWrite, ProcessTypes, ImageTypes, SessionOwns, RecoverOwns
  <2>2. \A q \in Procs : RecoverOwns(q)'
    BY <1>0, <1>12
    DEF SessionWrite, ProcessTypes, ImageTypes, SessionOwns, RecoverOwns, OneRecovery, Recovering
  <2> QED
    BY <2>1, <2>2
<1>13. ASSUME NEW p \in Procs, SessionCloseClean(p)
     PROVE  \A q \in Procs : SessionOwns(q)' /\ RecoverOwns(q)'
  <2>1. \A q \in Procs : SessionOwns(q)'
    BY <1>0, <1>13 DEF SessionCloseClean, ProcessTypes, ImageTypes, SessionOwns, RecoverOwns
  <2>2. \A q \in Procs : RecoverOwns(q)'
    BY <1>0, <1>13
    DEF SessionCloseClean, ProcessTypes, ImageTypes, SessionOwns, RecoverOwns, OneRecovery,
        Recovering
  <2> QED
    BY <2>1, <2>2
<1>14. ASSUME NEW p \in Procs, SessionCloseUnclean(p)
     PROVE  \A q \in Procs : SessionOwns(q)' /\ RecoverOwns(q)'
  BY <1>0, <1>14, QuitKeepsOwners DEF SessionCloseUnclean
<1>15. ASSUME NEW p \in Procs, UnlinkManifest(p)
     PROVE  \A q \in Procs : SessionOwns(q)' /\ RecoverOwns(q)'
  <2>1. \A q \in Procs : SessionOwns(q)'
    BY <1>0, <1>15
    DEF UnlinkManifest, SetManifest, ProcessTypes, ImageTypes, SessionOwns, RecoverOwns
  <2>2. \A q \in Procs : RecoverOwns(q)'
    BY <1>0, <1>15
    DEF UnlinkManifest, SetManifest, ProcessTypes, ImageTypes, SessionOwns, RecoverOwns,
        OneRecovery, Recovering
  <2> QED
    BY <2>1, <2>2
<1>16. ASSUME NEW p \in Procs, SyncManifest(p)
     PROVE  \A q \in Procs : SessionOwns(q)' /\ RecoverOwns(q)'
  <2>1. \A q \in Procs : SessionOwns(q)'
    BY <1>0, <1>16
    DEF SyncManifest, SyncUnlink, FsyncDirectory, ProcessTypes, ImageTypes, SessionOwns,
        RecoverOwns
  <2>2. \A q \in Procs : RecoverOwns(q)'
    BY <1>0, <1>16
    DEF SyncManifest, SyncUnlink, FsyncDirectory, ProcessTypes, ImageTypes, SessionOwns,
        RecoverOwns, OneRecovery, Recovering
  <2> QED
    BY <2>1, <2>2
<1>17. ASSUME NEW p \in Procs, UnlinkBackup(p)
     PROVE  \A q \in Procs : SessionOwns(q)' /\ RecoverOwns(q)'
  <2>1. \A q \in Procs : SessionOwns(q)'
    BY <1>0, <1>17
    DEF UnlinkBackup, SetBackup, NextMember, ProcessTypes, ImageTypes, SessionOwns, RecoverOwns
  <2>2. \A q \in Procs : RecoverOwns(q)'
    BY <1>0, <1>17
    DEF UnlinkBackup, SetBackup, NextMember, ProcessTypes, ImageTypes, SessionOwns, RecoverOwns,
        OneRecovery, Recovering
  <2> QED
    BY <2>1, <2>2
<1>18. ASSUME NEW p \in Procs, CompleteEnds(p)
     PROVE  \A q \in Procs : SessionOwns(q)' /\ RecoverOwns(q)'
  <2>1. \A q \in Procs : SessionOwns(q)'
    BY <1>0, <1>18
    DEF CompleteEnds, FsyncDirectory, ProcessTypes, ImageTypes, SessionOwns, RecoverOwns
  <2>2. \A q \in Procs : RecoverOwns(q)'
    BY <1>0, <1>18
    DEF CompleteEnds, FsyncDirectory, ProcessTypes, ImageTypes, SessionOwns, RecoverOwns,
        OneRecovery,
        Recovering
  <2> QED
    BY <2>1, <2>2
<1>18a. ASSUME NEW p \in Procs, CompleteRemoves(p)
     PROVE  \A q \in Procs : SessionOwns(q)' /\ RecoverOwns(q)'
  BY <1>0, <1>18a, QuitKeepsOwners DEF CompleteRemoves
<1>19. ASSUME NEW p \in Procs, RecoverReads(p)
     PROVE  \A q \in Procs : SessionOwns(q)' /\ RecoverOwns(q)'
  <2>1. \A q \in Procs : SessionOwns(q)'
    BY <1>0, <1>19 DEF RecoverReads, ProcessTypes, ImageTypes, SessionOwns, RecoverOwns
  <2>2. \A q \in Procs : RecoverOwns(q)'
    BY <1>0, <1>19
    DEF RecoverReads, ProcessTypes, ImageTypes, SessionOwns, RecoverOwns, OneRecovery, Recovering
  <2> QED
    BY <2>1, <2>2
<1>20. ASSUME NEW p \in Procs, RecoverOpens(p)
     PROVE  \A q \in Procs : SessionOwns(q)' /\ RecoverOwns(q)'
  <2>1. \A q \in Procs : SessionOwns(q)'
    BY <1>0, <1>20 DEF RecoverOpens, OpensPath, ProcessTypes, ImageTypes, SessionOwns, RecoverOwns
  <2>2. \A q \in Procs : RecoverOwns(q)'
    BY <1>0, <1>20
    DEF RecoverOpens, OpensPath, ProcessTypes, ImageTypes, SessionOwns, RecoverOwns, OneRecovery,
        Recovering
  <2> QED
    BY <2>1, <2>2
<1>21. ASSUME NEW p \in Procs, RecoverLocks(p)
     PROVE  \A q \in Procs : SessionOwns(q)' /\ RecoverOwns(q)'
  <2>1. pc[p] = "ropened" /\ pc' = [pc EXCEPT ![p] = "recover"] /\ opened[p] = path /\ UNCHANGED <<path, opened, at>>
    BY <1>0, <1>21 DEF RecoverLocks, SameFile, RecoverOwns
  <2>2. /\ \A m \in Members : lock[path[m]] = Nobody /\ lock'[path[m]] = p
        /\ \A i \in Inodes : lock[i] # Nobody => lock'[i] = lock[i]
    BY <1>0, <1>21, <2>1 DEF RecoverLocks, TakeLocks, Free, Handles, ImageTypes, ProcessTypes
  <2>3. \A q \in Procs : q # p => pc'[q] = pc[q]
    BY <1>0, <2>1 DEF ProcessTypes
  <2>4. ASSUME NEW q \in Procs, q # p PROVE SessionOwns(q)' /\ RecoverOwns(q)'
    <3>1. SessionOwns(q)'
      BY <1>0, <2>1, <2>2, <2>3, <2>4, RecoveryAssumption DEF SessionOwns
    <3>2. RecoverOwns(q)'
      BY <1>0, <2>1, <2>2, <2>3, <2>4, RecoveryAssumption DEF RecoverOwns
    <3> QED
      BY <3>1, <3>2
  <2>5. pc'[p] = "recover"
    BY <1>0, <2>1 DEF ProcessTypes
  <2>6. SessionOwns(p)' /\ RecoverOwns(p)'
    BY <2>1, <2>2, <2>5 DEF SessionOwns, RecoverOwns
  <2> QED
    BY <2>4, <2>6
<1>22. ASSUME NEW p \in Procs, Discard(p)
     PROVE  \A q \in Procs : SessionOwns(q)' /\ RecoverOwns(q)'
  <2>1. \A q \in Procs : SessionOwns(q)'
    BY <1>0, <1>22 DEF Discard, ProcessTypes, ImageTypes, SessionOwns, RecoverOwns
  <2>2. \A q \in Procs : RecoverOwns(q)'
    BY <1>0, <1>22
    DEF Discard, ProcessTypes, ImageTypes, SessionOwns, RecoverOwns, OneRecovery, Recovering
  <2> QED
    BY <2>1, <2>2
<1>23. ASSUME NEW p \in Procs, Stage(p)
     PROVE  \A q \in Procs : SessionOwns(q)' /\ RecoverOwns(q)'
  <2>1. \A q \in Procs : SessionOwns(q)'
    BY <1>0, <1>23 DEF Stage, ProcessTypes, ImageTypes, SessionOwns, RecoverOwns
  <2>2. \A q \in Procs : RecoverOwns(q)'
    BY <1>0, <1>23
    DEF Stage, ProcessTypes, ImageTypes, SessionOwns, RecoverOwns, OneRecovery, Recovering
  <2> QED
    BY <2>1, <2>2
<1>24. ASSUME NEW p \in Procs, RecoverRefused(p)
     PROVE  \A q \in Procs : SessionOwns(q)' /\ RecoverOwns(q)'
  BY <1>0, <1>24, QuitKeepsOwners DEF RecoverRefused
<1>25. ASSUME NEW p \in Procs, Replace(p)
     PROVE  \A q \in Procs : SessionOwns(q)' /\ RecoverOwns(q)'
  <2> DEFINE k == at[p]
  <2>1. /\ pc[p] = "replace" /\ pc'[p] = "replaced" /\ \A q \in Procs : q # p => pc'[q] = pc[q]
        /\ lock' = lock /\ opened' = opened /\ at' = at
        /\ k \in 1 .. Len(Files) /\ lock[path[Files[k]]] = p
    <3>1. pc[p] = "replace" /\ pc' = [pc EXCEPT ![p] = "replaced"] /\ UNCHANGED <<lock, opened, at>>
      BY <1>25 DEF Replace
    <3>2. k \in 1 .. Len(Files) /\ k \in 1 .. at[p]
      BY <1>0
    <3>3. lock[path[Files[k]]] = p
      BY <1>0, <3>1, <3>2 DEF RecoverOwns
    <3> QED
      BY <1>0, <3>1, <3>2, <3>3 DEF ProcessTypes
  <2>2. \A j \in 1 .. Len(Files) : j # k => path'[Files[j]] = path[Files[j]]
    BY <1>0, <1>25 DEF Replace, ImageTypes
  <2> HIDE DEF k
  <2>3. ASSUME NEW q \in Procs PROVE SessionOwns(q)'
    BY <1>0, <2>1, <2>3 DEF SessionOwns
  <2>4. RecoverOwns(p)'
    BY <1>0, <2>1, <2>2 DEF RecoverOwns, k
  <2>5. ASSUME NEW q \in Procs, q # p PROVE RecoverOwns(q)'
    BY <1>0, <2>1, <2>5 DEF RecoverOwns, OneRecovery, Recovering
  <2> QED
    BY <2>3, <2>4, <2>5
<1>26. ASSUME NEW p \in Procs, ReplaceSyncs(p)
     PROVE  \A q \in Procs : SessionOwns(q)' /\ RecoverOwns(q)'
  <2>1. \A q \in Procs : SessionOwns(q)'
    BY <1>0, <1>26 DEF ReplaceSyncs, SyncTarget, ProcessTypes, ImageTypes, SessionOwns, RecoverOwns
  <2>2. \A q \in Procs : RecoverOwns(q)'
    BY <1>0, <1>26
    DEF ReplaceSyncs, SyncTarget, ProcessTypes, ImageTypes, SessionOwns, RecoverOwns, OneRecovery,
        Recovering
  <2> QED
    BY <2>1, <2>2
<1>27. ASSUME NEW p \in Procs, SweepFinds(p)
     PROVE  \A q \in Procs : SessionOwns(q)' /\ RecoverOwns(q)'
  <2>1. \A q \in Procs : SessionOwns(q)'
    BY <1>0, <1>27 DEF SweepFinds, ProcessTypes, ImageTypes, SessionOwns, RecoverOwns
  <2>2. \A q \in Procs : RecoverOwns(q)'
    BY <1>0, <1>27
    DEF SweepFinds, ProcessTypes, ImageTypes, SessionOwns, RecoverOwns, OneRecovery, Recovering
  <2> QED
    BY <2>1, <2>2
<1>28. ASSUME NEW p \in Procs, SweepUnlinks(p)
     PROVE  \A q \in Procs : SessionOwns(q)' /\ RecoverOwns(q)'
  <2>1. \A q \in Procs : SessionOwns(q)'
    BY <1>0, <1>28 DEF SweepUnlinks, SetBackup, ProcessTypes, ImageTypes, SessionOwns, RecoverOwns
  <2>2. \A q \in Procs : RecoverOwns(q)'
    BY <1>0, <1>28
    DEF SweepUnlinks, SetBackup, ProcessTypes, ImageTypes, SessionOwns, RecoverOwns, OneRecovery,
        Recovering
  <2> QED
    BY <2>1, <2>2
<1>29. ASSUME NEW p \in Procs, SweepEnds(p)
     PROVE  \A q \in Procs : SessionOwns(q)' /\ RecoverOwns(q)'
  BY <1>0, <1>29, QuitKeepsOwners DEF SweepEnds
<1>30. ASSUME NEW p \in Procs, Crash(p)
     PROVE  \A q \in Procs : SessionOwns(q)' /\ RecoverOwns(q)'
  BY <1>0, <1>30, QuitKeepsOwners DEF Crash
<1>31. CASE TimePasses
  BY <1>0, <1>31 DEF TimePasses, SessionOwns, RecoverOwns
<1>32. CASE PowerLoss
  BY <1>32 DEF PowerLoss, SessionOwns, RecoverOwns
<1>33. CASE UNCHANGED vars
  BY <1>0, <1>33 DEF vars, SessionOwns, RecoverOwns
<1> QED
  BY <1>1, <1>2, <1>3, <1>3a, <1>4, <1>5, <1>6, <1>7, <1>8, <1>9, <1>10, <1>11, <1>12, <1>13,
     <1>14, <1>15, <1>16, <1>17, <1>18, <1>18a, <1>19, <1>20, <1>21, <1>22, <1>23, <1>24, <1>25,
     <1>26, <1>27, <1>28, <1>29, <1>30, <1>31, <1>32, <1>33
  DEF Next, Session, Complete, Recover, Sweep

\* Whoever works with a lock has locked the file the data member's path names.
LEMMA GuardedOwns ==
  ASSUME OwnersInv, NEW p \in Procs, Working(p), ~Unguarded(p)
  PROVE  lock[path[Data]] = p
<1>1. pc[p] \in ProcStates /\ at[p] \in 1 .. Len(Files) /\ SessionOwns(p) /\ RecoverOwns(p)
  BY DEF OwnersInv, TypesInv, TypeOK
<1>2. Data \in Members /\ Data = Files[1]
  BY FilesFacts DEF Data
<1>3. \/ pc[p] \in {"check", "made", "cleared", "announce", "announced", "copy", "copying",
                    "copied", "readied", "created", "live", "recover", "replace"}
      \/ pc[p] = "replaced" /\ at[p] # 1
  BY <1>1 DEF ProcStates, Working, Unguarded
<1>4. CASE pc[p] \in {"check", "made", "cleared", "announce", "announced", "copy", "copying",
                      "copied", "readied", "created", "live", "recover"}
  BY <1>1, <1>2, <1>4 DEF SessionOwns, RecoverOwns
<1>5. CASE pc[p] = "replace"
  BY <1>1, <1>2, <1>5, FilesFacts DEF RecoverOwns
<1>6. CASE pc[p] = "replaced" /\ at[p] # 1
  BY <1>1, <1>2, <1>6, FilesFacts DEF RecoverOwns
<1> QED
  BY <1>3, <1>4, <1>5, <1>6

\* The locks keep everybody else out of the image; where there is none the hypothesis does.
LEMMA LocksExclude == OwnersInv /\ NoneWorksBeside => OneAtATime
<1> SUFFICES ASSUME OwnersInv, NoneWorksBeside, NEW p \in Procs, NEW q \in Procs,
                    Working(p), Working(q)
             PROVE  p = q
  BY DEF OneAtATime
<1>1. CASE Unguarded(p) \/ Unguarded(q)
  BY <1>1 DEF NoneWorksBeside
<1>2. CASE ~Unguarded(p) /\ ~Unguarded(q)
  BY <1>2, GuardedOwns
<1> QED
  BY <1>1, <1>2

-----------------------------------------------------------------------------
(* What the checkpoint is worth: steps                                      *)

\* In the first state the image is good.
LEMMA RecoveryInit == Init => RecoveryInv
<1> SUFFICES ASSUME Init PROVE RecoveryInv
  OBVIOUS
<1>1. TypesInv
  BY InitTypes DEF Init, TypesInv, OpenTypes
<1>2. Good
  BY <1>1, TypeParts, FineFacts DEF Init, Good, TypesInv, ImageTypes
<1>3. Kept
  BY <1>2, FineFacts
  DEF Init, Kept, Clean, Promised, Ready, Aged, CleanPast, NoBackups, NoPast
<1>4. Stages
  BY DEF Init, Stages, SessionStage, RecoverStage
<1> QED
  BY <1>1, <1>3, <1>4 DEF RecoveryInv

\* A sync of the directory: the present entries are durable, the past one is gone or stays.
LEMMA SyncKeeps ==
  ASSUME Kept, FsyncDirectory, UNCHANGED <<image, aged>>,
         armed' = armed \/ (armed' # "yes" /\ ~Ready')
  PROVE  /\ Kept' /\ manD' = man /\ bakD' = bak /\ UNCHANGED <<man, bak, dir>>
         /\ dir /\ SyncReachesEntry => dirD'
<1>1. /\ manD' = man /\ bakD' = bak /\ dirD' = (dirD \/ (dir /\ SyncReachesEntry))
      /\ UNCHANGED <<man, bak, dir, path, pathD, content, aged>>
      /\ past' = NoPast \/ past' = past
  BY DEF FsyncDirectory, image
<1>2. Good \/ Protected => Good' \/ Protected'
  BY <1>1 DEF Good, Protected
<1>3. Clean' /\ Aged'
  BY <1>1 DEF Kept, Clean, Aged
<1>4. CleanPast'
  BY <1>1, FineFacts DEF Kept, CleanPast, NoPast, NoBackups
<1>5. Promised'
  BY <1>1 DEF Kept, Promised, Ready
<1> QED
  BY <1>1, <1>2, <1>3, <1>4, <1>5 DEF Kept

\* Removing the directory, once no manifest can come back, loses nothing.
LEMMA RemoveKeeps ==
  ASSUME Kept, Good, ~Ready, RemoveDirectory, UNCHANGED image
  PROVE  Kept'
<1>1. CASE UNCHANGED <<ckpt, history>>
  BY <1>1 DEF Kept, Good, Clean, CleanPast, Promised, Ready, Aged, ckpt, history, image
<1>2. CASE ~UNCHANGED <<ckpt, history>>
  <2>1. /\ man' = "none" /\ manD' = "none" /\ aged' = FALSE /\ UNCHANGED <<path, pathD, content>>
        /\ \A m \in Members : bak'[m] = "none" /\ bakD'[m] = "none"
        /\ past' = [there |-> TRUE, man |-> manD, bak |-> bakD] \/ past' = past
    BY <1>2 DEF RemoveDirectory, image, NoBackups
  <2>2. Good' /\ Clean' /\ Promised' /\ Aged'
    BY <2>1, FineFacts DEF Kept, Good, Clean, Promised, Ready, Aged
  <2>3. CleanPast'
    BY <2>1 DEF Kept, Clean, CleanPast, Ready
  <2> QED
    BY <2>2, <2>3 DEF Kept
<1> QED
  BY <1>1, <1>2

\* While one process works the others are where they rely on nothing.
LEMMA OthersWait ==
  ASSUME RecoveryInv, OneAtATime, OneAtATime', NEW p \in Procs, NEW q \in Procs, q # p,
         Working(p) \/ Working(p)', pc'[q] = pc[q], at'[q] = at[q]
  PROVE  SessionStage(q)' /\ RecoverStage(q)'
<1>1. pc'[q] \in {"idle", "opened"}
  BY DEF OneAtATime, Working
<1>2. at'[q] = 1
  BY <1>1 DEF RecoveryInv, Stages, SessionStage
<1> QED
  BY <1>1, <1>2 DEF SessionStage, RecoverStage

\* A process that ends, whatever it was doing, changes nothing the others rely on.
LEMMA QuitKeeps ==
  ASSUME RecoveryInv, NEW p \in Procs, Quit(p), UNCHANGED <<image, ckpt, history>>
  PROVE  Kept' /\ Stages'
<1> USE DEF image, ckpt, history
<1>1. /\ pc'[p] = "idle" /\ at'[p] = 1
      /\ \A q \in Procs : q # p => /\ pc'[q] = pc[q] /\ at'[q] = at[q] /\ opened'[q] = opened[q]
                                   /\ info'[q] = info[q] /\ staged'[q] = staged[q]
  BY QuitEffect, TypeParts DEF RecoveryInv, TypesInv
<1>2. Kept'
  BY DEF RecoveryInv, Kept, Good, Protected, Clean, Promised, Ready, Aged, CleanPast
<1>3. ASSUME NEW q \in Procs PROVE SessionStage(q)' /\ RecoverStage(q)'
  <2>1. CASE q = p
    BY <1>1, <2>1 DEF SessionStage, RecoverStage
  <2>2. CASE q # p
    <3>1. SessionStage(q) /\ RecoverStage(q)
      BY DEF RecoveryInv, Stages
    <3>2. SessionStage(q)'
      BY <1>1, <2>2, <3>1 DEF SessionStage, Written, Good, Protected, Copied
    <3>3. RecoverStage(q)'
      BY <1>1, <2>2, <3>1 DEF RecoverStage, Good, Ready, Restored
    <3> QED
      BY <3>2, <3>3
  <2> QED
    BY <2>1, <2>2
<1> QED
  BY <1>2, <1>3 DEF Stages

\* Every step keeps the invariant, if one process at a time works on the image.
LEMMA RecoveryStep ==
  RecoveryInv /\ OneAtATime /\ OneAtATime' /\ [Next]_vars => RecoveryInv'
<1> SUFFICES ASSUME RecoveryInv, OneAtATime, OneAtATime', [Next]_vars PROVE RecoveryInv'
  OBVIOUS
<1>0. /\ TypesInv /\ ImageTypes /\ CheckpointTypes /\ ProcessTypes /\ TypesInv' /\ Kept
      /\ \A p \in Procs : /\ SessionStage(p) /\ RecoverStage(p)
                          /\ at[p] \in 1 .. Len(Files) /\ Files[at[p]] \in Members
  BY TypeParts, TypesStep, FilesFacts DEF RecoveryInv, Stages, TypesInv, ProcessTypes
<1> SUFFICES Kept' /\ Stages'
  BY <1>0 DEF RecoveryInv
<1> USE FilesFacts, FineFacts DEF image, ckpt, history, locals, Go
<1>1. ASSUME NEW p \in Procs, SessionOpen(p) PROVE Kept' /\ Stages'
  <2>1. /\ pc[p] = "idle" /\ pc'[p] = "opened" /\ at' = at
        /\ \A q \in Procs : q # p =>
             pc'[q] = pc[q] /\ opened'[q] = opened[q] /\ info'[q] = info[q] /\ staged'[q] = staged[q]
    BY <1>0, <1>1 DEF SessionOpen, OpensPath, ProcessTypes
  <2>2. Kept'
    BY <1>0, <1>1 DEF SessionOpen, Kept, Good, Protected, Clean, Promised, Ready, Aged, CleanPast
  <2>3. SessionStage(p)' /\ RecoverStage(p)'
    BY <1>0, <2>1 DEF SessionStage, RecoverStage
  <2>4. ASSUME NEW q \in Procs, q # p PROVE SessionStage(q)' /\ RecoverStage(q)'
    <3>1. SessionStage(q)'
      BY <1>0, <1>1, <2>1, <2>4 DEF SessionOpen, SessionStage, Written, Good, Protected, Copied
    <3>2. RecoverStage(q)'
      BY <1>0, <1>1, <2>1, <2>4 DEF SessionOpen, RecoverStage, Good, Ready, Restored
    <3> QED
      BY <3>1, <3>2
  <2> QED
    BY <2>2, <2>3, <2>4 DEF Stages
<1>2. ASSUME NEW p \in Procs, SessionLock(p) PROVE Kept' /\ Stages'
  <2>1. /\ pc[p] = "opened" /\ pc'[p] = "check" /\ (Working(p) \/ Working(p)')
        /\ \A q \in Procs : q # p => pc'[q] = pc[q] /\ at'[q] = at[q]
    BY <1>0, <1>2 DEF SessionLock, ProcessTypes, Working
  <2>2. Kept'
    BY <1>0, <1>2 DEF SessionLock, Kept, Good, Protected, Clean, Promised, Ready, Aged, CleanPast
  <2>3. SessionStage(p)'
    <3>1. opened[p] = path /\ at[p] = 1 /\ UNCHANGED <<path, at, opened>>
      BY <1>0, <1>2, <2>1 DEF SessionLock, SameFile, SessionStage
    <3> QED
      BY <2>1, <3>1 DEF SessionStage
  <2>4. RecoverStage(p)'
    BY <2>1 DEF RecoverStage
  <2> QED
    BY <2>1, <2>2, <2>3, <2>4, OthersWait DEF Stages
<1>3. ASSUME NEW p \in Procs, SessionRefused(p) PROVE Kept' /\ Stages'
  BY <1>3, QuitKeeps DEF SessionRefused
<1>3a. ASSUME NEW p \in Procs, MakeDirectory(p) PROVE Kept' /\ Stages'
  <2>1. /\ pc[p] = "check" /\ pc'[p] = "made" /\ (Working(p) \/ Working(p)')
        /\ \A q \in Procs : q # p => pc'[q] = pc[q] /\ at'[q] = at[q]
    BY <1>0, <1>3a DEF MakeDirectory, ProcessTypes, Working
  <2>2. Kept' /\ Good'
    <3>1. /\ man = "none" /\ (aged' => aged)
          /\ UNCHANGED <<path, pathD, content, man, manD, bak, bakD, dirD, past, armed>>
      BY <1>3a DEF MakeDirectory, MayCreate
    <3>2. Good
      BY <1>0, <3>1 DEF Kept, Protected
    <3> QED
      BY <1>0, <3>1, <3>2 DEF Kept, Good, Clean, CleanPast, Promised, Ready, Aged
  <2>3. SessionStage(p)'
    BY <1>0, <1>3a, <2>1, <2>2 DEF MakeDirectory, MayCreate, SessionStage, Indexes
  <2>4. RecoverStage(p)'
    BY <2>1 DEF RecoverStage
  <2> QED
    BY <2>1, <2>2, <2>3, <2>4, OthersWait DEF Stages
<1>4. ASSUME NEW p \in Procs, CreateClears(p) PROVE Kept' /\ Stages'
  <2> DEFINE k == at[p]
  <2>0. /\ pc[p] = "made" /\ k \in Indexes
        /\ pc' = [pc EXCEPT ![p] = IF k < Len(Files) THEN "made" ELSE "cleared"]
        /\ bak' = [bak EXCEPT ![Files[k]] = "none"]
        /\ at' = [at EXCEPT ![p] = IF k < Len(Files) THEN k + 1 ELSE 1]
        /\ UNCHANGED <<path, pathD, content, man, manD, bakD, dirD, past, opened>>
        /\ aged' => aged
        /\ armed' # "yes"
    BY <1>0, <1>4 DEF CreateClears, SetBackup, NextMember, Indexes
  <2>1. /\ pc'[p] \in {"made", "cleared"} /\ (Working(p) \/ Working(p)')
        /\ \A q \in Procs : q # p => pc'[q] = pc[q] /\ at'[q] = at[q]
    BY <1>0, <2>0 DEF ProcessTypes, Working
  <2>5. /\ Good /\ man = "none" /\ \A j \in Indexes : j < k => bak[Files[j]] = "none"
        /\ opened[p] = path
    BY <1>0, <2>0 DEF SessionStage
  <2>6. /\ \A m \in Members : bak'[m] = bak[m] \/ bak'[m] = "none"
        /\ \A j \in Indexes : j < k + 1 => bak'[Files[j]] = "none"
    BY <1>0, <2>0, <2>5 DEF CheckpointTypes, Indexes
  <2>7. /\ k < Len(Files) => pc'[p] = "made" /\ at'[p] = k + 1
        /\ ~(k < Len(Files)) => pc'[p] = "cleared" /\ at'[p] = 1
    BY <1>0, <2>0 DEF ProcessTypes
  <2> HIDE DEF k
  <2>2. Kept'
    <3>1. Good' /\ Clean' /\ CleanPast' /\ Aged'
      BY <1>0, <2>0, <2>5, <2>6 DEF Kept, Good, Clean, CleanPast, Aged
    <3>2. Promised'
      BY <1>0, <2>0, <2>5, <2>6 DEF Kept, Promised, Ready
    <3> QED
      BY <3>1, <3>2 DEF Kept
  <2>3. SessionStage(p)'
    <3>1. Good' /\ man' = "none" /\ opened'[p] = path'
      BY <2>0, <2>5 DEF Good
    <3>2. CASE k < Len(Files)
      BY <2>0, <2>6, <2>7, <3>1, <3>2 DEF SessionStage
    <3>3. CASE ~(k < Len(Files))
      <4>1. \A j \in Indexes : bak'[Files[j]] = "none"
        BY <2>0, <2>6, <3>3 DEF Indexes
      <4> QED
        BY <2>0, <2>7, <3>1, <3>3, <4>1 DEF SessionStage
    <3> QED
      BY <3>2, <3>3
  <2>4. RecoverStage(p)'
    BY <2>1 DEF RecoverStage
  <2> QED
    BY <2>1, <2>2, <2>3, <2>4, OthersWait DEF Stages
<1>5. ASSUME NEW p \in Procs, CreateSyncs(p) PROVE Kept' /\ Stages'
  <2>1. /\ pc[p] \in {"cleared", "announced", "readied"}
        /\ pc[p] = "cleared" => pc'[p] = "announce" /\ armed' = "no"
        /\ pc[p] = "announced" => pc'[p] = "copy" /\ armed' = armed
        /\ pc[p] = "readied" => pc'[p] = "created" /\ armed' = armed
        /\ FsyncDirectory /\ UNCHANGED <<image, aged, at, opened>>
    BY <1>0, <1>5 DEF CreateSyncs, ProcessTypes
  <2>5. (Working(p) \/ Working(p)') /\ \A q \in Procs : q # p => pc'[q] = pc[q] /\ at'[q] = at[q]
    BY <1>0, <1>5 DEF CreateSyncs, ProcessTypes, Working
  <2>6. armed' = armed \/ (armed' # "yes" /\ ~Ready')
    BY <1>0, <2>1 DEF SessionStage, FsyncDirectory, Ready
  <2>7. /\ Kept' /\ manD' = man /\ bakD' = bak /\ UNCHANGED <<man, bak, dir>>
        /\ dir /\ SyncReachesEntry => dirD'
    BY <1>0, <2>1, <2>6, SyncKeeps
  <2>8. Good' /\ armed # "yes" /\ armed' # "yes" /\ opened'[p] = path' /\ content' = content
    BY <1>0, <2>1 DEF SessionStage, Good
  <2>3. SessionStage(p)'
    <3>1. CASE pc[p] = "cleared"
      BY <1>0, <2>1, <2>7, <2>8, <3>1 DEF SessionStage
    <3>2. CASE pc[p] = "announced"
      BY <1>0, <2>1, <2>7, <2>8, <3>2 DEF SessionStage, Indexes
    <3>3. CASE pc[p] = "readied"
      <4>1. Protected'
        BY <1>0, <2>1, <2>7, <3>3 DEF SessionStage, Copied, Indexes, Protected
      <4> QED
        BY <2>1, <2>8, <3>3, <4>1 DEF SessionStage
    <3> QED
      BY <2>1, <3>1, <3>2, <3>3
  <2>4. RecoverStage(p)'
    BY <2>1 DEF RecoverStage
  <2> QED
    BY <2>5, <2>7, <2>3, <2>4, OthersWait DEF Stages
<1>6. ASSUME NEW p \in Procs, CreateAnnounces(p) PROVE Kept' /\ Stages'
  <2>0. /\ pc[p] = "announce" /\ man' = "creating" /\ aged' = FALSE
        /\ UNCHANGED <<path, pathD, content, manD, bak, bakD, dirD, past, armed>>
    BY <1>6 DEF CreateAnnounces, SetManifest
  <2>1. /\ Working(p) \/ Working(p)'
        /\ \A q \in Procs : q # p => pc'[q] = pc[q] /\ at'[q] = at[q]
    BY <1>0, <1>6 DEF CreateAnnounces, ProcessTypes, Working
  <2>2. Kept'
    <3>1. Good /\ manD = "none"
      BY <1>0, <2>0 DEF SessionStage
    <3> QED
      BY <1>0, <2>0, <3>1 DEF Kept, Good, Clean, Promised, Ready, Aged, CleanPast
  <2>3. SessionStage(p)'
    <3>1. /\ Good /\ manD = "none" /\ at[p] = 1 /\ opened[p] = path /\ armed # "yes"
      BY <1>0, <2>0 DEF SessionStage
    <3>2. Good'
      BY <2>0, <3>1 DEF Good
    <3>3. pc'[p] = "announced" /\ dir' /\ UNCHANGED <<at, opened>>
      BY <1>0, <1>6 DEF CreateAnnounces, SetManifest, ProcessTypes
    <3> QED
      BY <2>0, <3>1, <3>2, <3>3 DEF SessionStage
  <2>4. RecoverStage(p)'
    BY <1>0, <1>6
    DEF CreateAnnounces, SetManifest, ImageTypes, CheckpointTypes, ProcessTypes, SessionStage,
        RecoverStage, Good, Ready, Restored
  <2> QED
    BY <2>1, <2>2, <2>3, <2>4, OthersWait DEF Stages
<1>7. ASSUME NEW p \in Procs, CopyBegins(p) PROVE Kept' /\ Stages'
  <2>1. /\ Working(p) \/ Working(p)'
        /\ \A q \in Procs : q # p => pc'[q] = pc[q] /\ at'[q] = at[q]
    BY <1>0, <1>7 DEF CopyBegins, SetBackup, ProcessTypes, Working
  <2>2. Kept'
    BY <1>0, <1>7
    DEF CopyBegins, SetBackup, ImageTypes, CheckpointTypes, ProcessTypes, SessionStage,
        RecoverStage, Kept, Good, Protected, Clean, Promised, Ready, Aged, CleanPast
  <2>3. SessionStage(p)'
    BY <1>0, <1>7
    DEF CopyBegins, SetBackup, ImageTypes, CheckpointTypes, ProcessTypes, RecoverStage,
        SessionStage, Written, Good, Protected, Copied, Indexes
  <2>4. RecoverStage(p)'
    BY <1>0, <1>7
    DEF CopyBegins, SetBackup, ImageTypes, CheckpointTypes, ProcessTypes, SessionStage,
        RecoverStage, Good, Ready, Restored
  <2> QED
    BY <2>1, <2>2, <2>3, <2>4, OthersWait DEF Stages
<1>8. ASSUME NEW p \in Procs, CopyEnds(p) PROVE Kept' /\ Stages'
  <2>1. /\ Working(p) \/ Working(p)'
        /\ \A q \in Procs : q # p => pc'[q] = pc[q] /\ at'[q] = at[q]
    BY <1>0, <1>8 DEF CopyEnds, NextMember, ProcessTypes, Working
  <2>2. Kept'
    BY <1>0, <1>8
    DEF CopyEnds, NextMember, ImageTypes, CheckpointTypes, ProcessTypes, SessionStage,
        RecoverStage, Kept, Good, Protected, Clean, Promised, Ready, Aged, CleanPast
  <2>3. SessionStage(p)'
    BY <1>0, <1>8
    DEF CopyEnds, NextMember, ImageTypes, CheckpointTypes, ProcessTypes, RecoverStage,
        SessionStage, Written, Good, Protected, Copied, Indexes
  <2>4. RecoverStage(p)'
    BY <1>0, <1>8
    DEF CopyEnds, NextMember, ImageTypes, CheckpointTypes, ProcessTypes, SessionStage,
        RecoverStage, Good, Ready, Restored
  <2> QED
    BY <2>1, <2>2, <2>3, <2>4, OthersWait DEF Stages
<1>9. ASSUME NEW p \in Procs, CreateReadies(p) PROVE Kept' /\ Stages'
  <2>1. /\ pc[p] = "copied" /\ pc'[p] = "readied" /\ (Working(p) \/ Working(p)')
        /\ \A q \in Procs : q # p => pc'[q] = pc[q] /\ at'[q] = at[q]
    BY <1>0, <1>9 DEF CreateReadies, SetManifest, ProcessTypes, Working
  <2>2. Kept'
    <3>1. \A m \in Members : bak[m] \in Fine /\ bakD[m] \in Fine \cup {"none"}
      BY <1>0, <2>1 DEF SessionStage, Copied, Indexes
    <3>2. Good /\ armed # "yes"
      BY <1>0, <2>1 DEF SessionStage
    <3> QED
      BY <1>0, <1>9, <3>1, <3>2
      DEF CreateReadies, SetManifest, Kept, Good, Clean, Promised, Ready, Aged, CleanPast
  <2>3. SessionStage(p)'
    BY <1>0, <1>9, <2>1
    DEF CreateReadies, SetManifest, SessionStage, Good, Protected, Copied, Indexes
  <2>4. RecoverStage(p)'
    BY <2>1 DEF RecoverStage
  <2> QED
    BY <2>1, <2>2, <2>3, <2>4, OthersWait DEF Stages
<1>10. ASSUME NEW p \in Procs, CreateFails(p) PROVE Kept' /\ Stages'
  <2>1. /\ Working(p) \/ Working(p)'
        /\ \A q \in Procs : q # p => pc'[q] = pc[q] /\ at'[q] = at[q]
    BY <1>0, <1>10 DEF CreateFails, ProcessTypes, Working
  <2>2. Kept'
    BY <1>0, <1>10
    DEF CreateFails, ImageTypes, CheckpointTypes, ProcessTypes, SessionStage, RecoverStage, Kept,
        Good, Protected, Clean, Promised, Ready, Aged, CleanPast
  <2>3. SessionStage(p)'
    BY <1>0, <1>10
    DEF CreateFails, ImageTypes, CheckpointTypes, ProcessTypes, RecoverStage, SessionStage,
        Written, Good, Protected, Copied, Indexes
  <2>4. RecoverStage(p)'
    BY <1>0, <1>10
    DEF CreateFails, ImageTypes, CheckpointTypes, ProcessTypes, SessionStage, RecoverStage, Good,
        Ready, Restored
  <2> QED
    BY <2>1, <2>2, <2>3, <2>4, OthersWait DEF Stages
<1>11. ASSUME NEW p \in Procs, SessionLive(p) PROVE Kept' /\ Stages'
  <2>1. /\ Working(p) \/ Working(p)'
        /\ \A q \in Procs : q # p => pc'[q] = pc[q] /\ at'[q] = at[q]
    BY <1>0, <1>11 DEF SessionLive, ProcessTypes, Working
  <2>2. Kept'
    BY <1>0, <1>11
    DEF SessionLive, ImageTypes, CheckpointTypes, ProcessTypes, SessionStage, RecoverStage, Kept,
        Good, Protected, Clean, Promised, Ready, Aged, CleanPast
  <2>3. SessionStage(p)'
    BY <1>0, <1>11
    DEF SessionLive, ImageTypes, CheckpointTypes, ProcessTypes, RecoverStage, SessionStage,
        Written, Good, Protected, Copied, Indexes
  <2>4. RecoverStage(p)'
    BY <1>0, <1>11
    DEF SessionLive, ImageTypes, CheckpointTypes, ProcessTypes, SessionStage, RecoverStage, Good,
        Ready, Restored
  <2> QED
    BY <2>1, <2>2, <2>3, <2>4, OthersWait DEF Stages
<1>12. ASSUME NEW p \in Procs, SessionWrite(p) PROVE Kept' /\ Stages'
  <2>1. /\ Working(p) \/ Working(p)'
        /\ \A q \in Procs : q # p => pc'[q] = pc[q] /\ at'[q] = at[q]
    BY <1>0, <1>12 DEF SessionWrite, ProcessTypes, Working
  <2>2. Kept'
    BY <1>0, <1>12
    DEF SessionWrite, ImageTypes, CheckpointTypes, ProcessTypes, SessionStage, RecoverStage, Kept,
        Good, Protected, Clean, Promised, Ready, Aged, CleanPast
  <2>3. SessionStage(p)'
    BY <1>0, <1>12
    DEF SessionWrite, ImageTypes, CheckpointTypes, ProcessTypes, RecoverStage, SessionStage,
        Written, Good, Protected, Copied, Indexes
  <2>4. RecoverStage(p)'
    BY <1>0, <1>12
    DEF SessionWrite, ImageTypes, CheckpointTypes, ProcessTypes, SessionStage, RecoverStage, Good,
        Ready, Restored
  <2> QED
    BY <2>1, <2>2, <2>3, <2>4, OthersWait DEF Stages
<1>13. ASSUME NEW p \in Procs, SessionCloseClean(p) PROVE Kept' /\ Stages'
  <2>1. /\ pc[p] = "live" /\ pc'[p] = "complete" /\ (Working(p) \/ Working(p)')
        /\ \A q \in Procs : q # p => pc'[q] = pc[q] /\ at'[q] = at[q]
    BY <1>0, <1>13 DEF SessionCloseClean, ProcessTypes, Working
  <2>2. Kept'
    BY <1>0, <1>13, <2>1
    DEF SessionCloseClean, SessionStage, ImageTypes, Kept, Good, Protected, Clean, Promised,
        Ready, Aged, CleanPast
  <2>3. SessionStage(p)'
    BY <2>1 DEF SessionStage
  <2>4. RecoverStage(p)'
    <3>1. /\ content' = [content EXCEPT ![path[Data]] = "good"]
          /\ UNCHANGED <<path, pathD>> /\ Written
      BY <1>0, <1>13, <2>1 DEF SessionCloseClean, SessionStage
    <3>2. Good'
      BY <1>0, <3>1 DEF Good, Written, ImageTypes
    <3> QED
      BY <2>1, <3>2 DEF RecoverStage
  <2> QED
    BY <2>1, <2>2, <2>3, <2>4, OthersWait DEF Stages
<1>14. ASSUME NEW p \in Procs, SessionCloseUnclean(p) PROVE Kept' /\ Stages'
  BY <1>14, QuitKeeps DEF SessionCloseUnclean
<1>15. ASSUME NEW p \in Procs, UnlinkManifest(p) PROVE Kept' /\ Stages'
  <2>1. /\ Working(p) \/ Working(p)'
        /\ \A q \in Procs : q # p => pc'[q] = pc[q] /\ at'[q] = at[q]
    BY <1>0, <1>15 DEF UnlinkManifest, SetManifest, ProcessTypes, Working
  <2>2. Kept'
    BY <1>0, <1>15
    DEF UnlinkManifest, SetManifest, ImageTypes, CheckpointTypes, ProcessTypes, SessionStage,
        RecoverStage, Kept, Good, Protected, Clean, Promised, Ready, Aged, CleanPast
  <2>3. SessionStage(p)'
    BY <1>0, <1>15
    DEF UnlinkManifest, SetManifest, ImageTypes, CheckpointTypes, ProcessTypes, RecoverStage,
        SessionStage, Written, Good, Protected, Copied, Indexes
  <2>4. RecoverStage(p)'
    BY <1>0, <1>15
    DEF UnlinkManifest, SetManifest, ImageTypes, CheckpointTypes, ProcessTypes, SessionStage,
        RecoverStage, Good, Ready, Restored
  <2> QED
    BY <2>1, <2>2, <2>3, <2>4, OthersWait DEF Stages
<1>16. ASSUME NEW p \in Procs, SyncManifest(p) PROVE Kept' /\ Stages'
  <2>1. /\ pc[p] = "unlinked" /\ pc'[p] = "unlink" /\ (Working(p) \/ Working(p)')
        /\ \A q \in Procs : q # p => pc'[q] = pc[q] /\ at'[q] = at[q]
        /\ FsyncDirectory /\ UNCHANGED <<image, history>>
    BY <1>0, <1>16 DEF SyncManifest, SyncUnlink, ProcessTypes, Working
  <2>2. Kept' /\ manD' = man /\ man' = man
    BY <1>0, <2>1, SyncKeeps
  <2>3. SessionStage(p)'
    BY <2>1 DEF SessionStage
  <2>4. RecoverStage(p)'
    BY <1>0, <2>1, <2>2 DEF RecoverStage, Good, Ready
  <2> QED
    BY <2>1, <2>2, <2>3, <2>4, OthersWait DEF Stages
<1>17. ASSUME NEW p \in Procs, UnlinkBackup(p) PROVE Kept' /\ Stages'
  <2>1. /\ Working(p) \/ Working(p)'
        /\ \A q \in Procs : q # p => pc'[q] = pc[q] /\ at'[q] = at[q]
    BY <1>0, <1>17 DEF UnlinkBackup, SetBackup, NextMember, ProcessTypes, Working
  <2>2. Kept'
    BY <1>0, <1>17
    DEF UnlinkBackup, SetBackup, NextMember, ImageTypes, CheckpointTypes, ProcessTypes,
        SessionStage, RecoverStage, Kept, Good, Protected, Clean, Promised, Ready, Aged, CleanPast
  <2>3. SessionStage(p)'
    BY <1>0, <1>17
    DEF UnlinkBackup, SetBackup, NextMember, ImageTypes, CheckpointTypes, ProcessTypes,
        RecoverStage, SessionStage, Written, Good, Protected, Copied, Indexes
  <2>4. RecoverStage(p)'
    BY <1>0, <1>17
    DEF UnlinkBackup, SetBackup, NextMember, ImageTypes, CheckpointTypes, ProcessTypes,
        SessionStage, RecoverStage, Good, Ready, Restored
  <2> QED
    BY <2>1, <2>2, <2>3, <2>4, OthersWait DEF Stages
<1>18. ASSUME NEW p \in Procs, CompleteEnds(p) PROVE Kept' /\ Stages'
  <2>1. /\ pc[p] = "gone" /\ pc'[p] = "emptied" /\ (Working(p) \/ Working(p)')
        /\ \A q \in Procs : q # p => pc'[q] = pc[q] /\ at'[q] = at[q]
        /\ FsyncDirectory /\ UNCHANGED <<image, history>>
    BY <1>0, <1>18 DEF CompleteEnds, ProcessTypes, Working
  <2>2. Kept' /\ manD' = man /\ man' = man
    BY <1>0, <2>1, SyncKeeps
  <2>3. SessionStage(p)'
    BY <2>1 DEF SessionStage
  <2>4. RecoverStage(p)'
    BY <1>0, <2>1, <2>2 DEF RecoverStage, Good, Ready
  <2> QED
    BY <2>1, <2>2, <2>3, <2>4, OthersWait DEF Stages
<1>18a. ASSUME NEW p \in Procs, CompleteRemoves(p) PROVE Kept' /\ Stages'
  <2>1. /\ pc[p] = "emptied" /\ pc'[p] = "idle" /\ at'[p] = 1 /\ Working(p)
        /\ \A q \in Procs : q # p => pc'[q] = pc[q] /\ at'[q] = at[q]
    BY <1>0, <1>18a, QuitEffect DEF CompleteRemoves, Working
  <2>2. Kept'
    BY <1>0, <1>18a, <2>1, RemoveKeeps DEF CompleteRemoves, RecoverStage
  <2>3. SessionStage(p)'
    BY <2>1 DEF SessionStage
  <2>4. RecoverStage(p)'
    BY <2>1 DEF RecoverStage
  <2> QED
    BY <2>1, <2>2, <2>3, <2>4, OthersWait DEF Stages
<1>19. ASSUME NEW p \in Procs, RecoverReads(p) PROVE Kept' /\ Stages'
  <2>1. /\ Working(p) \/ Working(p)'
        /\ \A q \in Procs : q # p => pc'[q] = pc[q] /\ at'[q] = at[q]
    BY <1>0, <1>19 DEF RecoverReads, ProcessTypes, Working
  <2>2. Kept'
    BY <1>0, <1>19
    DEF RecoverReads, ImageTypes, CheckpointTypes, ProcessTypes, SessionStage, RecoverStage, Kept,
        Good, Protected, Clean, Promised, Ready, Aged, CleanPast
  <2>3. SessionStage(p)'
    BY <1>0, <1>19
    DEF RecoverReads, ImageTypes, CheckpointTypes, ProcessTypes, RecoverStage, SessionStage,
        Written, Good, Protected, Copied, Indexes
  <2>4. RecoverStage(p)'
    BY <1>0, <1>19
    DEF RecoverReads, ImageTypes, CheckpointTypes, ProcessTypes, SessionStage, RecoverStage, Good,
        Ready, Restored
  <2> QED
    BY <2>1, <2>2, <2>3, <2>4, OthersWait DEF Stages
<1>20. ASSUME NEW p \in Procs, RecoverOpens(p) PROVE Kept' /\ Stages'
  <2>1. /\ Working(p) \/ Working(p)'
        /\ \A q \in Procs : q # p => pc'[q] = pc[q] /\ at'[q] = at[q]
    BY <1>0, <1>20 DEF RecoverOpens, OpensPath, ProcessTypes, Working
  <2>2. Kept'
    BY <1>0, <1>20
    DEF RecoverOpens, OpensPath, ImageTypes, CheckpointTypes, ProcessTypes, SessionStage,
        RecoverStage, Kept, Good, Protected, Clean, Promised, Ready, Aged, CleanPast
  <2>3. SessionStage(p)'
    BY <1>0, <1>20
    DEF RecoverOpens, OpensPath, ImageTypes, CheckpointTypes, ProcessTypes, RecoverStage,
        SessionStage, Written, Good, Protected, Copied, Indexes
  <2>4. RecoverStage(p)'
    BY <1>0, <1>20
    DEF RecoverOpens, OpensPath, ImageTypes, CheckpointTypes, ProcessTypes, SessionStage,
        RecoverStage, Good, Ready, Restored
  <2> QED
    BY <2>1, <2>2, <2>3, <2>4, OthersWait DEF Stages
<1>21. ASSUME NEW p \in Procs, RecoverLocks(p) PROVE Kept' /\ Stages'
  <2>1. /\ Working(p) \/ Working(p)'
        /\ \A q \in Procs : q # p => pc'[q] = pc[q] /\ at'[q] = at[q]
    BY <1>0, <1>21 DEF RecoverLocks, TakeLocks, ProcessTypes, Working
  <2>2. Kept'
    BY <1>0, <1>21
    DEF RecoverLocks, TakeLocks, ImageTypes, CheckpointTypes, ProcessTypes, SessionStage,
        RecoverStage, Kept, Good, Protected, Clean, Promised, Ready, Aged, CleanPast
  <2>3. SessionStage(p)'
    BY <1>0, <1>21
    DEF RecoverLocks, TakeLocks, ImageTypes, CheckpointTypes, ProcessTypes, RecoverStage,
        SessionStage, Written, Good, Protected, Copied, Indexes
  <2>4. RecoverStage(p)'
    BY <1>0, <1>21
    DEF RecoverLocks, TakeLocks, ImageTypes, CheckpointTypes, ProcessTypes, SessionStage,
        RecoverStage, Good, Ready, Restored
  <2> QED
    BY <2>1, <2>2, <2>3, <2>4, OthersWait DEF Stages
<1>22. ASSUME NEW p \in Procs, Discard(p) PROVE Kept' /\ Stages'
  <2>1. /\ pc[p] = "recover" /\ pc'[p] = "complete" /\ (Working(p) \/ Working(p)')
        /\ \A q \in Procs : q # p => pc'[q] = pc[q] /\ at'[q] = at[q]
    BY <1>0, <1>22 DEF Discard, ProcessTypes, Working
  <2>2. Kept' /\ Good'
    <3>1. /\ \A i \in Inodes : content'[i] # "partial"
          /\ \A m \in Members : content'[path[m]] \in Fine /\ content'[pathD[m]] \in Fine
      <4>1. \A m \in Members : path[m] \in Handles(p)
        BY <1>0, <2>1 DEF RecoverStage, Handles
      <4> QED
        BY <1>0, <1>22, <4>1 DEF Discard, Kept, Clean, ImageTypes
    <3> QED
      BY <1>0, <1>22, <3>1 DEF Discard, Kept, Good, Clean, Promised, Ready, Aged, CleanPast
  <2>3. SessionStage(p)'
    BY <2>1 DEF SessionStage
  <2>4. RecoverStage(p)'
    BY <2>1, <2>2 DEF RecoverStage
  <2> QED
    BY <2>1, <2>2, <2>3, <2>4, OthersWait DEF Stages
<1>23. ASSUME NEW p \in Procs, Stage(p) PROVE Kept' /\ Stages'
  <2>1. /\ pc[p] = "recover" /\ pc'[p] = "replace" /\ (Working(p) \/ Working(p)')
        /\ \A q \in Procs : q # p => pc'[q] = pc[q] /\ at'[q] = at[q]
    BY <1>0, <1>23 DEF Stage, ProcessTypes, Working
  <2>2. Kept'
    BY <1>0, <1>23 DEF Stage, Kept, Good, Protected, Clean, Promised, Ready, Aged, CleanPast
  <2>3. SessionStage(p)'
    BY <2>1 DEF SessionStage
  <2>4. RecoverStage(p)'
    <3>1. man = "ready"
      BY <1>0, <1>23, <2>1 DEF Stage, MayRestore, RecoverStage
    <3>2. \A m \in Members : bak[m] \in Fine
      BY <1>0, <1>23, <3>1 DEF Stage, Kept, Clean, Promised, Ready, CheckpointTypes, Contents
    <3>3. staged'[p] = bak /\ at'[p] = Len(Files)
      BY <1>0, <1>23 DEF Stage, ProcessTypes
    <3> QED
      BY <2>1, <3>2, <3>3 DEF RecoverStage, Restored
  <2> QED
    BY <2>1, <2>2, <2>3, <2>4, OthersWait DEF Stages
<1>24. ASSUME NEW p \in Procs, RecoverRefused(p) PROVE Kept' /\ Stages'
  BY <1>24, QuitKeeps DEF RecoverRefused
<1>25. ASSUME NEW p \in Procs, Replace(p) PROVE Kept' /\ Stages'
  <2>1. /\ pc[p] = "replace" /\ pc'[p] = "replaced" /\ (Working(p) \/ Working(p)')
        /\ \A q \in Procs : q # p => pc'[q] = pc[q] /\ at'[q] = at[q]
    BY <1>0, <1>25 DEF Replace, ProcessTypes, Working
  <2> DEFINE m == Files[at[p]]
  <2>0. PICK i \in Unused : /\ path' = [path EXCEPT ![m] = i]
                           /\ content' = [content EXCEPT ![i] = staged[p][m]]
    BY <1>25 DEF Replace
  <2>5. /\ m \in Members /\ i \in Inodes /\ staged[p][m] \in Fine
        /\ \A l \in Members : path[l] # i /\ pathD[l] # i
    BY <1>0, <2>0, <2>1 DEF Unused, RecoverStage
  <2>6. /\ content'[i] \in Fine /\ path'[m] = i /\ \A l \in Members : l # m => path'[l] = path[l]
        /\ \A j \in Inodes : j # i => content'[j] = content[j]
        /\ at' = at /\ staged' = staged
        /\ UNCHANGED <<pathD, man, manD, bak, bakD, dir, dirD, past, aged, armed>>
    BY <1>0, <1>25, <2>0, <2>5 DEF Replace, ImageTypes
  <2>7. Restored(at[p] + 1) /\ \A k \in 1 .. Len(Files) : k # at[p] => Files[k] # m
    BY <1>0, <2>1 DEF RecoverStage
  <2> HIDE DEF m
  <2>2. Kept'
    BY <1>0, <2>5, <2>6
    DEF Kept, Good, Protected, Clean, Promised, Ready, Aged, CleanPast, ImageTypes
  <2>3. SessionStage(p)'
    BY <2>1 DEF SessionStage
  <2>4. RecoverStage(p)'
    <3>1. Restored(at[p] + 1)'
      BY <1>0, <2>5, <2>6, <2>7 DEF Restored, ImageTypes
    <3>2. \A l \in Members : staged'[p][l] \in Fine
      BY <1>0, <2>1, <2>6 DEF RecoverStage
    <3>3. content'[path'[Files[at'[p]]]] \in Fine
      BY <2>6 DEF m
    <3> QED
      BY <2>1, <2>6, <3>1, <3>2, <3>3 DEF RecoverStage
  <2> QED
    BY <2>1, <2>2, <2>3, <2>4, OthersWait DEF Stages
<1>26. ASSUME NEW p \in Procs, ReplaceSyncs(p) PROVE Kept' /\ Stages'
  <2>9. PICK k \in 1 .. Len(Files) : at[p] = k
    BY <1>0
  <2>0. /\ pc[p] = "replaced" /\ Restored(k + 1)
        /\ content[path[Files[k]]] \in Fine /\ \A m \in Members : staged[p][m] \in Fine
    BY <1>0, <1>26, <2>9 DEF ReplaceSyncs, RecoverStage
  <2>1. /\ k > 1 => pc'[p] = "replace" /\ at'[p] = k - 1
        /\ k = 1 => pc'[p] = "complete"
        /\ Working(p) /\ \A q \in Procs : q # p => pc'[q] = pc[q] /\ at'[q] = at[q]
    BY <1>0, <1>26, <2>9, <2>0 DEF ReplaceSyncs, ProcessTypes, Working
  <2>5. /\ pathD' = [pathD EXCEPT ![Files[k]] = path[Files[k]]]
        /\ UNCHANGED <<path, content, man, manD, bak, bakD, dir, dirD, past, aged, armed, staged>>
    BY <1>26, <2>9 DEF ReplaceSyncs, SyncTarget
  <2>6. Restored(k)'
    BY <1>0, <2>0, <2>5 DEF Restored, ImageTypes
  <2>2. Kept'
    BY <1>0, <2>0, <2>5
    DEF Kept, Good, Protected, Clean, Promised, Ready, Aged, CleanPast, ImageTypes
  <2>3. SessionStage(p)'
    BY <2>0, <2>1 DEF SessionStage
  <2>4. RecoverStage(p)'
    <3>1. CASE k > 1
      BY <2>0, <2>1, <2>5, <2>6, <3>1 DEF RecoverStage
    <3>2. CASE k = 1
      <4>1. Good'
        BY <2>6, <3>2 DEF Good, Restored
      <4> QED
        BY <2>1, <3>2, <4>1 DEF RecoverStage
    <3> QED
      BY <2>0, <3>1, <3>2
  <2> QED
    BY <2>1, <2>2, <2>3, <2>4, OthersWait DEF Stages
<1>27. ASSUME NEW p \in Procs, SweepFinds(p) PROVE Kept' /\ Stages'
  <2>1. /\ pc[p] = "idle" /\ pc'[p] = "sweep" /\ (Working(p) \/ Working(p)')
        /\ \A q \in Procs : q # p => pc'[q] = pc[q] /\ at'[q] = at[q]
    BY <1>0, <1>27 DEF SweepFinds, ProcessTypes, Working
  <2>2. Kept'
    BY <1>0, <1>27 DEF SweepFinds, Kept, Good, Protected, Clean, Promised, Ready, Aged, CleanPast
  <2>3. SessionStage(p)'
    BY <2>1 DEF SessionStage
  <2>4. RecoverStage(p)'
    <3>1. ~Ready'
      BY <1>0, <1>27 DEF SweepFinds, Kept, Aged, CleanPast, Ready
    <3> QED
      BY <2>1, <3>1 DEF RecoverStage
  <2> QED
    BY <2>1, <2>2, <2>3, <2>4, OthersWait DEF Stages
<1>28. ASSUME NEW p \in Procs, SweepUnlinks(p) PROVE Kept' /\ Stages'
  <2>1. /\ Working(p) \/ Working(p)'
        /\ \A q \in Procs : q # p => pc'[q] = pc[q] /\ at'[q] = at[q]
    BY <1>0, <1>28 DEF SweepUnlinks, SetBackup, ProcessTypes, Working
  <2>2. Kept'
    BY <1>0, <1>28
    DEF SweepUnlinks, SetBackup, ImageTypes, CheckpointTypes, ProcessTypes, SessionStage,
        RecoverStage, Kept, Good, Protected, Clean, Promised, Ready, Aged, CleanPast
  <2>3. SessionStage(p)'
    BY <1>0, <1>28
    DEF SweepUnlinks, SetBackup, ImageTypes, CheckpointTypes, ProcessTypes, RecoverStage,
        SessionStage, Written, Good, Protected, Copied, Indexes
  <2>4. RecoverStage(p)'
    BY <1>0, <1>28
    DEF SweepUnlinks, SetBackup, ImageTypes, CheckpointTypes, ProcessTypes, SessionStage,
        RecoverStage, Good, Ready, Restored
  <2> QED
    BY <2>1, <2>2, <2>3, <2>4, OthersWait DEF Stages
<1>29. ASSUME NEW p \in Procs, SweepEnds(p) PROVE Kept' /\ Stages'
  <2>1. CASE UNCHANGED <<ckpt, history>>
    BY <1>29, <2>1, QuitKeeps DEF SweepEnds
  <2>2. CASE RemoveDirectory
    <3>1. /\ pc[p] = "sweep" /\ pc'[p] = "idle" /\ at'[p] = 1 /\ Working(p)
          /\ \A q \in Procs : q # p => pc'[q] = pc[q] /\ at'[q] = at[q]
      BY <1>0, <1>29, QuitEffect DEF SweepEnds, Working
    <3>2. ~Ready /\ Good
      BY <1>0, <3>1 DEF RecoverStage, Kept, Protected, Ready
    <3>3. Kept'
      BY <1>0, <1>29, <2>2, <3>2, RemoveKeeps DEF SweepEnds
    <3>4. SessionStage(p)' /\ RecoverStage(p)'
      BY <3>1 DEF SessionStage, RecoverStage
    <3> QED
      BY <3>1, <3>3, <3>4, OthersWait DEF Stages
  <2> QED
    BY <1>29, <2>1, <2>2 DEF SweepEnds
<1>30. ASSUME NEW p \in Procs, Crash(p) PROVE Kept' /\ Stages'
  BY <1>30, QuitKeeps DEF Crash
<1>31. CASE TimePasses
  <2>1. Kept'
    BY <1>0, <1>31
    DEF TimePasses, Kept, Good, Protected, Clean, Promised, Ready, Aged, CleanPast, NoPast,
        NoBackups
  <2>2. ASSUME NEW q \in Procs PROVE SessionStage(q)'
    BY <1>0, <1>31, <2>2
    DEF TimePasses, SessionStage, Written, Good, Protected, Copied, Indexes
  <2>3. ASSUME NEW q \in Procs PROVE RecoverStage(q)'
    BY <1>0, <1>31, <2>3 DEF TimePasses, RecoverStage, Good, Ready, Restored
  <2> QED
    BY <2>1, <2>2, <2>3 DEF Stages
<1>32. CASE PowerLoss
  <2>1. /\ \A m \in Members : path'[m] \in {path[m], pathD[m]} /\ pathD'[m] = path'[m]
        /\ manD' = man' /\ bakD' = bak' /\ dirD' = dir' /\ content' = content
        /\ aged' = aged /\ armed' = armed /\ past' = NoPast
    BY <1>0, <1>32, LeftFacts DEF PowerLoss, ImageTypes
  <2>2. CleanPast' /\ Aged'
    BY <2>1 DEF CleanPast, Aged, NoPast, NoBackups
  <2>3. Stages'
    BY <1>32 DEF PowerLoss, Stages, SessionStage, RecoverStage
  <2>4. CASE dir' = dir /\ man' \in {man, manD} /\ bak' \in Left(bak, bakD)
    <3>1. \A m \in Members : bak'[m] \in {bak[m], bakD[m]}
      BY <1>0, <2>4, LeftFacts DEF CheckpointTypes
    <3>2. Good \/ Protected => Good' \/ Protected'
      <4>1. Good => Good'
        BY <2>1 DEF Good
      <4>2. Protected => Protected'
        BY <1>0, <2>1, <2>4, <3>1 DEF Protected, Kept, Aged
      <4> QED
        BY <4>1, <4>2
    <3>3. Clean' /\ Promised'
      BY <1>0, <2>1, <2>4, <3>1 DEF Kept, Clean, Promised, Ready
    <3> QED
      BY <1>0, <2>2, <2>3, <3>2, <3>3 DEF Kept
  <2>5. CASE ~dirD /\ man' # "ready" /\ \A m \in Members : bak'[m] \in Kinds
    <3>1. Good'
      <4>1. CASE Good
        BY <2>1, <4>1 DEF Good
      <4>2. CASE ~SyncReachesEntry
        BY <1>0, <2>1, <4>2 DEF Good, Kept, Clean, ImageTypes, Contents
      <4> QED
        BY <1>0, <2>5, <4>1, <4>2 DEF Kept, Protected
    <3>2. Clean' /\ Promised'
      BY <1>0, <2>1, <2>5 DEF Kept, Clean, Promised, Ready
    <3> QED
      BY <2>2, <2>3, <3>1, <3>2 DEF Kept
  <2>6. \/ dir' = dir /\ man' \in {man, manD} /\ bak' \in Left(bak, bakD)
        \/ ~dirD /\ man' # "ready" /\ \A m \in Members : bak'[m] \in Kinds
    <3>1. CASE ~dirD /\ dir' = FALSE /\ man' = "none" /\ bak' = NoBackups
      BY <3>1 DEF NoBackups
    <3>2. CASE ~dirD /\ man' \in {"none", past.man} /\ bak' \in Left(NoBackups, past.bak)
      <4>1. /\ NoBackups \in [Members -> Contents \cup {"none"}]
            /\ past.bak \in [Members -> Contents \cup {"none"}]
        BY <1>0 DEF NoBackups, CheckpointTypes, Pasts
      <4>2. \A m \in Members : bak'[m] \in {NoBackups[m], past.bak[m]}
        BY <3>2, <4>1, LeftFacts
      <4> QED
        BY <1>0, <3>2, <4>2 DEF Kept, CleanPast, NoBackups
    <3> QED
      BY <1>32, <3>1, <3>2 DEF PowerLoss
  <2> QED
    BY <2>4, <2>5, <2>6
<1>33. CASE UNCHANGED vars
  <2>1. Kept'
    BY <1>0, <1>33 DEF vars, Kept, Good, Protected, Clean, Promised, Ready, Aged, CleanPast
  <2>2. ASSUME NEW q \in Procs PROVE SessionStage(q)' /\ RecoverStage(q)'
    BY <1>0, <1>33, <2>2
    DEF vars, SessionStage, Written, RecoverStage, Good, Protected, Copied, Ready, Restored
  <2> QED
    BY <2>1, <2>2 DEF Stages
<1> QED
  BY <1>1, <1>2, <1>3, <1>3a, <1>4, <1>5, <1>6, <1>7, <1>8, <1>9, <1>10, <1>11, <1>12, <1>13,
     <1>14, <1>15, <1>16, <1>17, <1>18, <1>18a, <1>19, <1>20, <1>21, <1>22, <1>23, <1>24, <1>25,
     <1>26, <1>27, <1>28, <1>29, <1>30, <1>31, <1>32, <1>33
  DEF Next, Session, Complete, Recover, Sweep

-----------------------------------------------------------------------------
(* What holds of every behaviour                                            *)

\* The types hold whatever runs at the same time.
THEOREM RecoveryTypes == Spec => []TypeOK
<1>1. Init => TypesInv
  BY InitTypes DEF Init, TypesInv, OpenTypes
<1>2. TypesInv => TypeOK
  BY DEF TypesInv
<1> QED
  BY <1>1, <1>2, TypesStep, PTL DEF Spec

\* Who owns what, with any number of sessions and sweeps and one recover at a time.
THEOREM OwnersInvariance == Spec /\ []OneRecovery => []OwnersInv
BY OwnersInit, OwnersStep, PTL DEF Spec

\* A session that may write holds the lock of the file its path names, with any number of
\* sessions and sweeps, and one recover at a time beside them (open_locked_handle).
THEOREM LiveOwnsImageHolds == Spec /\ []OneRecovery => []LiveOwnsImage
<1>1. OwnersInv => LiveOwnsImage
  BY DEF OwnersInv, SessionOwns, LiveOwnsImage, SameFile
<1> QED
  BY <1>1, OwnersInvariance, PTL

\* One process at a time works on the image, whatever may run at once: the locks see to it,
\* if nobody works beside a process that has not locked yet or holds them no more.
THEOREM ExclusionHolds == Spec /\ []NoneWorksBeside => []OneAtATime
<1>1. OneAtATime => OneRecovery
  BY DEF OneAtATime, OneRecovery, Working, Recovering
<1>2. OwnersInv /\ NoneWorksBeside /\ [Next]_vars => OwnersInv'
  BY <1>1, LocksExclude, OwnersStep
<1>3. Spec /\ []NoneWorksBeside => []OwnersInv
  BY <1>2, OwnersInit, PTL DEF Spec
<1> QED
  BY <1>3, LocksExclude, PTL

\* What the checkpoint is worth, in every state reached with nobody beside an unguarded one,
\* whether or not an fsync of the checkpoint directory makes its own entry durable.
THEOREM RecoveryInvariance == Spec /\ []NoneWorksBeside => []RecoveryInv
BY ExclusionHolds, RecoveryInit, RecoveryStep, PTL DEF Spec

\* Where an fsync of the checkpoint directory makes its own entry durable, an image that
\* holds anything nobody has accepted can be restored, after any crash and any power loss
\* (recovery.py create, complete, recover_image and the sweep).
THEOREM AlwaysRecoverableHolds ==
  ASSUME SyncReachesEntry
  PROVE  Spec /\ []NoneWorksBeside => []AlwaysRecoverable
<1>1. RecoveryInv => AlwaysRecoverable
  BY FineFacts
  DEF RecoveryInv, Kept, Good, Protected, AlwaysRecoverable, ImageGood, Restorable
<1> QED
  BY <1>1, RecoveryInvariance, PTL

\* There too a session has its checkpoint, of what was accepted last, from before its first
\* write (RecoveryCheckpoint.create).
THEOREM LiveIsProtectedHolds ==
  ASSUME SyncReachesEntry
  PROVE  Spec /\ []NoneWorksBeside => []LiveIsProtected
<1>1. RecoveryInv => LiveIsProtected
  BY FineFacts DEF RecoveryInv, Stages, SessionStage, Protected, LiveIsProtected, Restorable
<1> QED
  BY <1>1, RecoveryInvariance, PTL

\* recover never publishes an incomplete copy (recover_image), on any file system.
THEOREM NothingHalfPublishedHolds == Spec /\ []NoneWorksBeside => []NothingHalfPublished
<1>1. RecoveryInv => NothingHalfPublished
  BY TypeParts DEF RecoveryInv, TypesInv, ImageTypes, Kept, Clean, NothingHalfPublished
<1> QED
  BY <1>1, RecoveryInvariance, PTL

\* A ready manifest never outlives a backup of a checkpoint that has protected a session
\* and that no later create has begun to clear (RecoveryCheckpoint.complete, the sweep).
THEOREM AdvertisedBackupsExistHolds == Spec /\ []NoneWorksBeside => []AdvertisedBackupsExist
<1>1. RecoveryInv => AdvertisedBackupsExist
  BY DEF RecoveryInv, Kept, Promised, Ready, AdvertisedBackupsExist
<1> QED
  BY <1>1, RecoveryInvariance, PTL
=============================================================================
