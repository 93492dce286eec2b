--------------------------- MODULE TransferProofs ---------------------------
(***************************************************************************)
(* Proofs about Publish, for any publishers, spellings and files of other     *)
(* programs, and about HostImport, for any host file, image and writes to     *)
(* them.                                                                     *)
(***************************************************************************)
EXTENDS Publish, HostImport, TLAPS

-----------------------------------------------------------------------------
(* Publication                                                              *)

Has(p, n) == host[Target(p, n)] = p

Linked(p, list, ours) == links[p] = list /\ \A n \in {1, 2} : Has(p, n) <=> n \in ours

\* What a publisher has listed is at its names, and nothing else of it.
Placed(p) ==
  /\ ppc[p] \in {"check", "prepare"} => Linked(p, <<>>, {})
  /\ ppc[p] = "link" /\ at[p] = 1 => Linked(p, <<>>, {})
  /\ ppc[p] = "link" /\ at[p] = 2 => Linked(p, <<Target(p, 1)>>, {1})
  /\ ppc[p] = "sync" => Linked(p, <<Target(p, 1), Target(p, 2)>>, {1, 2})
  /\ ppc[p] = "undo" =>
       \/ Linked(p, <<Target(p, 1), Target(p, 2)>>, {1, 2})
       \/ Linked(p, <<Target(p, 1)>>, {1})
       \/ Linked(p, <<Target(p, 2)>>, {2})
       \/ Linked(p, <<>>, {})

\* A publisher that has ended has what it reports, and gives its temporary names up.
Ended(p) ==
  /\ pres[p] # "none" => ppc[p] \in {"clean", "confirm", "done"}
  /\ pres[p] \in {"published", "ambiguous"} => \A n \in {1, 2} : Has(p, n)
  /\ pres[p] \in {"refused", "failed"} => \A n \in {1, 2} : ~Has(p, n)
  /\ ppc[p] \in {"check", "confirm", "done"} => temps[p] = {}
  /\ ppc[p] = "confirm" => pres[p] = "published"

\* An export's content is durable before its first link, and the names of any
\* publisher are when it reports them.
SyncedFirst(p) ==
  /\ kind[p] = "export" =>
       /\ ppc[p] = "prepare" /\ at[p] = 2 => 1 \in synced[p]
       /\ ppc[p] \in {"link", "sync"} => synced[p] = {1, 2}
       /\ \A n \in Names : host[n] = p \/ durable[n] = p => synced[p] = {1, 2}
  /\ pres[p] = "published" => \A n \in {1, 2} : durable[Target(p, n)] = p

PublishInv ==
  PublishTypeOK /\ \A p \in Publishers : Placed(p) /\ Ended(p) /\ SyncedFirst(p)

\* A publisher has two targets.
LEMMA TwoTargets ==
  ASSUME PublishTypeOK, NEW p \in Publishers
  PROVE  /\ \A n \in {1, 2} : Target(p, n) \in Names
         /\ Target(p, 1) # Target(p, 2)
BY DEF PublishTypeOK, Target, Part, Names, Parts

\* Targets stay what they are.
LEMMA TargetsStay ==
  ASSUME UNCHANGED <<kind, stem>>, NEW p \in Publishers
  PROVE  \A n \in {1, 2} : Target(p, n)' = Target(p, n)
BY DEF Target, Part

\* The first state satisfies the invariant.
LEMMA PublishInitInv == PublishInit => PublishInv
<1> SUFFICES ASSUME PublishInit PROVE PublishInv
  OBVIOUS
<1>1. PublishTypeOK
  BY DEF PublishInit, PublishTypeOK
<1>2. \A p \in Publishers, n \in {1, 2} : ~Has(p, n)
  BY <1>1, TwoTargets, PublishAssumption DEF PublishInit, Has
<1>3. \A p \in Publishers : Placed(p) /\ Ended(p)
  BY <1>2 DEF PublishInit, Placed, Linked, Ended
<1>4. \A p \in Publishers : SyncedFirst(p)
  BY PublishAssumption DEF PublishInit, SyncedFirst
<1> QED
  BY <1>1, <1>3, <1>4 DEF PublishInv

\* What a step of one publisher, or of another program, leaves alone of the others.
Spared(p) ==
  /\ ppc'[p] = ppc[p] /\ at'[p] = at[p] /\ temps'[p] = temps[p] /\ synced'[p] = synced[p]
  /\ links'[p] = links[p] /\ pres'[p] = pres[p]
  /\ \A n \in Names : host'[n] = p <=> host[n] = p

\* A step that spares a publisher and its files keeps what is said of it.
LEMMA SparedKeeps ==
  ASSUME PublishInv, UNCHANGED <<kind, stem>>, durable' \in {durable, host},
         NEW p \in Publishers, Spared(p)
  PROVE  (Placed(p) /\ Ended(p) /\ SyncedFirst(p))'
<1>0. PublishTypeOK /\ Placed(p) /\ Ended(p) /\ SyncedFirst(p)
  BY DEF PublishInv
<1>2. Target(p, 1)' = Target(p, 1) /\ Target(p, 2)' = Target(p, 2)
  BY TargetsStay
<1>1. \A n \in {1, 2} : Has(p, n)' <=> Has(p, n)
  BY <1>0, <1>2, TwoTargets DEF Spared, Has
<1>3. Placed(p)'
  BY <1>0, <1>1, <1>2 DEF Placed, Linked, Spared
<1>4. Ended(p)'
  BY <1>0, <1>1 DEF Ended, Spared
<1>5. pres[p] = "published" => \A n \in {1, 2} : durable'[Target(p, n)] = p
  BY <1>0, TwoTargets DEF Ended, SyncedFirst, Has
<1>6. SyncedFirst(p)'
  BY <1>0, <1>2, <1>5 DEF SyncedFirst, Spared
<1> QED
  BY <1>3, <1>4, <1>6

\* Every step keeps the invariant.
LEMMA PublishStepInv == PublishInv /\ [PublishNext]_publishVars => PublishInv'
<1> SUFFICES ASSUME PublishInv, [PublishNext]_publishVars PROVE PublishInv'
  OBVIOUS
<1> USE PublishAssumption DEF GoOn, Ends, publisherVars, hostVars
<1>0. PublishTypeOK /\ \A p \in Publishers : Placed(p) /\ Ended(p) /\ SyncedFirst(p)
  BY DEF PublishInv
<1>1. ASSUME NEW p \in Publishers, CollisionCheck(p) PROVE PublishInv'
  <2>0. /\ ppc[p] = "check" /\ UNCHANGED <<temps, synced, hostVars>>
        /\ \/ ppc'[p] = "done" /\ pres'[p] = "refused" /\ links'[p] = <<>>
           \/ ppc'[p] = "prepare" /\ at'[p] = 1 /\ UNCHANGED <<pres, links>>
    BY <1>0, <1>1 DEF CollisionCheck, PublishTypeOK
  <2>1. PublishTypeOK'
    <3>1. links' \in [Publishers -> Seq(Names)]
      <4>1. links' = links \/ links' = [links EXCEPT ![p] = <<>>]
        BY <1>1 DEF CollisionCheck
      <4>2. /\ links \in [Publishers -> Seq(Names)] /\ <<>> \in Seq(Names)
            /\ at[p] \in {1, 2} /\ Target(p, at[p]) \in Names
        BY <1>0, TwoTargets DEF PublishTypeOK
      <4>3. PICK target \in Names : target = Target(p, at[p])
        BY <4>2
      <4> QED
        BY <4>1, <4>2, <4>3
    <3> QED
      BY <1>0, <1>1, <3>1, TwoTargets DEF CollisionCheck, PublishTypeOK
  <2>2. ASSUME NEW r \in Publishers \ {p} PROVE (Placed(r) /\ Ended(r) /\ SyncedFirst(r))'
    <3>1. Spared(r) /\ UNCHANGED <<kind, stem>> /\ durable' \in {durable, host}
      BY <1>0, <1>1, TwoTargets DEF CollisionCheck, PublishTypeOK, Placed, Linked, Has, Spared
    <3> QED
      BY <3>1, SparedKeeps
  <2>3. UNCHANGED <<kind, stem>>
    BY <1>1 DEF CollisionCheck
  <2>4. Target(p, 1)' = Target(p, 1) /\ Target(p, 2)' = Target(p, 2)
    BY <2>3, TargetsStay
  <2>a. \A n \in {1, 2} : Has(p, n)' <=> Has(p, n)
    BY <2>0, <2>4 DEF Has
  <2>5. Placed(p)'
    BY <1>0, <2>0, <2>4, <2>a DEF PublishTypeOK, Placed, Linked
  <2>6. Ended(p)'
    BY <1>0, <2>0, <2>a DEF PublishTypeOK, Placed, Linked, Ended
  <2>7. SyncedFirst(p)'
    BY <1>0, <2>0, <2>3, <2>4, TwoTargets DEF PublishTypeOK, Placed, Linked, Ended, SyncedFirst, Has
  <2> QED
    BY <2>1, <2>2, <2>5, <2>6, <2>7 DEF PublishInv
<1>2. ASSUME NEW p \in Publishers, WriteTemporary(p) PROVE PublishInv'
  <2>0. /\ ppc[p] = "prepare" /\ UNCHANGED hostVars
        /\ \/ /\ IF at[p] = 1 THEN ppc'[p] = "prepare" /\ at'[p] = 2
                 ELSE ppc'[p] = "link" /\ at'[p] = 1
              /\ IF kind[p] = "export" THEN synced'[p] = synced[p] \cup {at[p]}
                 ELSE synced'[p] = synced[p]
              /\ UNCHANGED <<pres, links>>
           \/ /\ ppc'[p] = "clean" /\ pres'[p] = "failed" /\ links'[p] = <<>>
              /\ UNCHANGED synced
    BY <1>0, <1>2 DEF WriteTemporary, Syncs, PublishTypeOK
  <2>1. PublishTypeOK'
    <3>1. links' \in [Publishers -> Seq(Names)]
      <4>1. links' = links \/ links' = [links EXCEPT ![p] = <<>>]
        BY <1>2 DEF WriteTemporary, Syncs
      <4>2. /\ links \in [Publishers -> Seq(Names)] /\ <<>> \in Seq(Names)
            /\ at[p] \in {1, 2} /\ Target(p, at[p]) \in Names
        BY <1>0, TwoTargets DEF PublishTypeOK
      <4>3. PICK target \in Names : target = Target(p, at[p])
        BY <4>2
      <4> QED
        BY <4>1, <4>2, <4>3
    <3>2. at[p] \in {1, 2} /\ temps[p] \in SUBSET {1, 2} /\ synced[p] \in SUBSET {1, 2}
      BY <1>0 DEF PublishTypeOK
    <3>3. temps' = temps \/ temps' = [temps EXCEPT ![p] = @ \cup {at[p]}]
      BY <1>2 DEF WriteTemporary, Syncs
    <3>4. synced' = synced \/ synced' = [synced EXCEPT ![p] = @ \cup {at[p]}]
      BY <1>2 DEF WriteTemporary, Syncs
    <3>5. temps' \in [Publishers -> SUBSET {1, 2}] /\ synced' \in [Publishers -> SUBSET {1, 2}]
      <4>1. /\ temps \in [Publishers -> SUBSET {1, 2}] /\ synced \in [Publishers -> SUBSET {1, 2}]
            /\ temps[p] \cup {at[p]} \in SUBSET {1, 2} /\ synced[p] \cup {at[p]} \in SUBSET {1, 2}
        BY <1>0, <3>2 DEF PublishTypeOK
      <4>2. temps' \in [Publishers -> SUBSET {1, 2}]
        BY <3>3, <4>1
      <4>3. synced' \in [Publishers -> SUBSET {1, 2}]
        BY <3>4, <4>1
      <4> QED
        BY <4>2, <4>3
    <3>6. /\ ppc' \in [Publishers -> {"check", "prepare", "link", "sync", "undo", "clean",
                                     "confirm", "done"}]
          /\ at' \in [Publishers -> {1, 2}]
      BY <1>0, <1>2 DEF WriteTemporary, Syncs, PublishTypeOK
    <3>7. pres' \in [Publishers -> {"none", "refused", "failed", "interrupted", "published",
                                   "ambiguous"}]
      BY <1>0, <1>2 DEF WriteTemporary, Syncs, PublishTypeOK
    <3>8. UNCHANGED <<kind, stem, host, durable>>
      BY <1>2 DEF WriteTemporary
    <3> QED
      BY <1>0, <3>1, <3>5, <3>6, <3>7, <3>8 DEF PublishTypeOK
  <2>2. ASSUME NEW r \in Publishers \ {p} PROVE (Placed(r) /\ Ended(r) /\ SyncedFirst(r))'
    <3>1. Spared(r) /\ UNCHANGED <<kind, stem>> /\ durable' \in {durable, host}
      BY <1>0, <1>2, TwoTargets
      DEF WriteTemporary, Syncs, PublishTypeOK, Placed, Linked, Has, Spared
    <3> QED
      BY <3>1, SparedKeeps
  <2>3. UNCHANGED <<kind, stem>>
    BY <1>2 DEF WriteTemporary
  <2>4. Target(p, 1)' = Target(p, 1) /\ Target(p, 2)' = Target(p, 2)
    BY <2>3, TargetsStay
  <2>a. \A n \in {1, 2} : Has(p, n)' <=> Has(p, n)
    BY <2>0, <2>4 DEF Has
  <2>5. Placed(p)'
    BY <1>0, <2>0, <2>4, <2>a DEF PublishTypeOK, Placed, Linked
  <2>6. Ended(p)'
    BY <1>0, <2>0, <2>a DEF PublishTypeOK, Placed, Linked, Ended
  <2>7. SyncedFirst(p)'
    BY <1>0, <2>0, <2>3, <2>4, TwoTargets DEF PublishTypeOK, Placed, Linked, Ended, SyncedFirst, Has
  <2> QED
    BY <2>1, <2>2, <2>5, <2>6, <2>7 DEF PublishInv
<1>3. ASSUME NEW p \in Publishers, LinkTarget(p) PROVE PublishInv'
  <2>0. /\ ppc[p] = "link" /\ UNCHANGED <<temps, synced, pres, durable>>
        /\ \/ /\ host[Target(p, at[p])] = NoFile
              /\ host' = [host EXCEPT ![Target(p, at[p])] = p]
              /\ links'[p] = Append(links[p], Target(p, at[p]))
              /\ IF at[p] = 1 THEN ppc'[p] = "link" /\ at'[p] = 2 ELSE ppc'[p] = "sync"
           \/ ppc'[p] = "undo" /\ UNCHANGED <<host, links>>
    BY <1>0, <1>3 DEF LinkTarget, Free, PublishTypeOK
  <2>1. PublishTypeOK'
    <3>1. links' \in [Publishers -> Seq(Names)]
      <4>1. links' = links \/ links' = [links EXCEPT ![p] = Append(@, Target(p, at[p]))]
        BY <1>3 DEF LinkTarget, Free
      <4>2. /\ links \in [Publishers -> Seq(Names)] /\ <<>> \in Seq(Names)
            /\ at[p] \in {1, 2} /\ Target(p, at[p]) \in Names
        BY <1>0, TwoTargets DEF PublishTypeOK
      <4>3. PICK target \in Names : target = Target(p, at[p])
        BY <4>2
      <4> QED
        BY <4>1, <4>2, <4>3
    <3>2. host' \in [Names -> Publishers \cup {NoFile, Other}]
      <4>1. host' = host \/ host' = [host EXCEPT ![Target(p, at[p])] = p]
        BY <1>3 DEF LinkTarget, Free
      <4> QED
        BY <1>0, <4>1 DEF PublishTypeOK
    <3>3. /\ ppc' \in [Publishers -> {"check", "prepare", "link", "sync", "undo", "clean",
                                     "confirm", "done"}]
          /\ at' \in [Publishers -> {1, 2}]
      BY <1>0, <1>3 DEF LinkTarget, Free, PublishTypeOK
    <3>4. UNCHANGED <<kind, stem, temps, synced, pres, durable>>
      BY <1>3 DEF LinkTarget
    <3> QED
      BY <1>0, <3>1, <3>2, <3>3, <3>4 DEF PublishTypeOK
  <2>2. ASSUME NEW r \in Publishers \ {p} PROVE (Placed(r) /\ Ended(r) /\ SyncedFirst(r))'
    <3>1. Spared(r) /\ UNCHANGED <<kind, stem>> /\ durable' \in {durable, host}
      BY <1>0, <1>3, TwoTargets DEF LinkTarget, Free, PublishTypeOK, Placed, Linked, Has, Spared
    <3> QED
      BY <3>1, SparedKeeps
  <2>3. UNCHANGED <<kind, stem>>
    BY <1>3 DEF LinkTarget
  <2>4. Target(p, 1)' = Target(p, 1) /\ Target(p, 2)' = Target(p, 2)
    BY <2>3, TargetsStay
  <2>a. \/ host' = host /\ \A n \in {1, 2} : Has(p, n)' <=> Has(p, n)
        \/ /\ \A n \in {1, 2} : Has(p, n)' <=> Has(p, n) \/ n = at[p]
           /\ links'[p] = Append(links[p], Target(p, at[p]))
    BY <1>0, <2>0, <2>4, TwoTargets DEF PublishTypeOK, Placed, Linked, Has
  <2>5. Placed(p)'
    <3>1. at[p] \in {1, 2}
      BY <1>0 DEF PublishTypeOK
    <3>2. CASE UNCHANGED <<host, links>>
      BY <1>0, <2>0, <2>4, <2>a, <3>1, <3>2 DEF Placed, Linked, Has
    <3>3. CASE at[p] = 1 /\ host # host'
      <4>1. links[p] = <<>> /\ \A n \in {1, 2} : Has(p, n)' <=> n = 1
        BY <1>0, <2>0, <2>a, <3>3 DEF Placed, Linked
      <4>2. links'[p] = <<Target(p, 1)>> /\ ppc'[p] = "link" /\ at'[p] = 2
        BY <2>0, <3>3, <4>1
      <4> QED
        BY <2>4, <4>1, <4>2 DEF Placed, Linked
    <3>4. CASE at[p] = 2 /\ host # host'
      <4>1. links[p] = <<Target(p, 1)>> /\ \A n \in {1, 2} : Has(p, n)'
        BY <1>0, <2>0, <2>a, <3>4 DEF Placed, Linked
      <4>2. links'[p] = <<Target(p, 1), Target(p, 2)>> /\ ppc'[p] = "sync"
        BY <2>0, <3>4, <4>1
      <4> QED
        BY <2>4, <4>1, <4>2 DEF Placed, Linked
    <3> QED
      BY <1>0, <2>0, <3>1, <3>2, <3>3, <3>4, TwoTargets DEF PublishTypeOK
  <2>6. Ended(p)'
    BY <1>0, <2>0, <2>a DEF PublishTypeOK, Placed, Linked, Ended
  <2>7. SyncedFirst(p)'
    BY <1>0, <2>0, <2>3, <2>4, TwoTargets DEF PublishTypeOK, Placed, Linked, Ended, SyncedFirst, Has
  <2> QED
    BY <2>1, <2>2, <2>5, <2>6, <2>7 DEF PublishInv
<1>4. ASSUME NEW p \in Publishers, SyncDirectory(p) PROVE PublishInv'
  <2>0. /\ ppc[p] = "sync" /\ UNCHANGED <<temps, synced, host>>
        /\ \/ /\ ppc'[p] = "clean" /\ pres'[p] = "published" /\ links'[p] = <<>>
              /\ durable' = host
           \/ ppc'[p] = "undo" /\ UNCHANGED <<pres, links, durable>>
    BY <1>0, <1>4 DEF SyncDirectory, PublishTypeOK
  <2>1. PublishTypeOK'
    <3>1. links' \in [Publishers -> Seq(Names)]
      <4>1. links' = links \/ links' = [links EXCEPT ![p] = <<>>]
        BY <1>4 DEF SyncDirectory
      <4>2. /\ links \in [Publishers -> Seq(Names)] /\ <<>> \in Seq(Names)
            /\ at[p] \in {1, 2} /\ Target(p, at[p]) \in Names
        BY <1>0, TwoTargets DEF PublishTypeOK
      <4>3. PICK target \in Names : target = Target(p, at[p])
        BY <4>2
      <4> QED
        BY <4>1, <4>2, <4>3
    <3> QED
      BY <1>0, <1>4, <3>1, TwoTargets DEF SyncDirectory, PublishTypeOK
  <2>2. ASSUME NEW r \in Publishers \ {p} PROVE (Placed(r) /\ Ended(r) /\ SyncedFirst(r))'
    <3>1. Spared(r) /\ UNCHANGED <<kind, stem>> /\ durable' \in {durable, host}
      BY <1>0, <1>4, TwoTargets DEF SyncDirectory, PublishTypeOK, Placed, Linked, Has, Spared
    <3> QED
      BY <3>1, SparedKeeps
  <2>3. UNCHANGED <<kind, stem>>
    BY <1>4 DEF SyncDirectory
  <2>4. Target(p, 1)' = Target(p, 1) /\ Target(p, 2)' = Target(p, 2)
    BY <2>3, TargetsStay
  <2>a. \A n \in {1, 2} : Has(p, n)' <=> Has(p, n)
    BY <2>0, <2>4 DEF Has
  <2>5. Placed(p)'
    BY <1>0, <2>0, <2>4, <2>a DEF PublishTypeOK, Placed, Linked
  <2>6. Ended(p)'
    BY <1>0, <2>0, <2>a DEF PublishTypeOK, Placed, Linked, Ended
  <2>7. SyncedFirst(p)'
    BY <1>0, <2>0, <2>3, <2>4, TwoTargets DEF PublishTypeOK, Placed, Linked, Ended, SyncedFirst, Has
  <2> QED
    BY <2>1, <2>2, <2>5, <2>6, <2>7 DEF PublishInv
<1>5. ASSUME NEW p \in Publishers, Undo(p) PROVE PublishInv'
  <2>0. /\ ppc[p] = "undo" /\ UNCHANGED <<temps, synced>>
        /\ \/ /\ links[p] # <<>> /\ host' = [host EXCEPT ![Head(links[p])] = NoFile]
              /\ links'[p] = Tail(links[p])
              /\ UNCHANGED <<ppc, at, pres, durable>>
           \/ /\ links[p] = <<>> /\ ppc'[p] = "clean" /\ pres'[p] = "failed"
              /\ links'[p] = <<>> /\ durable' \in {durable, host} /\ UNCHANGED host
    BY <1>0, <1>5 DEF Undo, Undone, PublishTypeOK
  <2>1. PublishTypeOK'
    <3>1. links' \in [Publishers -> Seq(Names)]
      <4>1. \/ links' = [links EXCEPT ![p] = <<>>]
            \/ links[p] # <<>> /\ links' = [links EXCEPT ![p] = Tail(@)]
        BY <1>5 DEF Undo, Undone
      <4>2. /\ links \in [Publishers -> Seq(Names)] /\ <<>> \in Seq(Names)
            /\ at[p] \in {1, 2} /\ Target(p, at[p]) \in Names
        BY <1>0, TwoTargets DEF PublishTypeOK
      <4>4. CASE links[p] # <<>> /\ links' = [links EXCEPT ![p] = Tail(@)]
        BY <4>2, <4>4
      <4>5. CASE links' = [links EXCEPT ![p] = <<>>]
        BY <4>2, <4>5
      <4> QED
        BY <4>1, <4>4, <4>5
    <3> QED
      BY <1>0, <1>5, <3>1, TwoTargets DEF Undo, Undone, PublishTypeOK
  <2>2. ASSUME NEW r \in Publishers \ {p} PROVE (Placed(r) /\ Ended(r) /\ SyncedFirst(r))'
    <3>1. Spared(r) /\ UNCHANGED <<kind, stem>> /\ durable' \in {durable, host}
      BY <1>0, <1>5, TwoTargets DEF Undo, Undone, PublishTypeOK, Placed, Linked, Has, Spared
    <3> QED
      BY <3>1, SparedKeeps
  <2>3. UNCHANGED <<kind, stem>>
    BY <1>5 DEF Undo
  <2>4. Target(p, 1)' = Target(p, 1) /\ Target(p, 2)' = Target(p, 2)
    BY <2>3, TargetsStay
  <2>a. ASSUME links[p] = <<>> PROVE Placed(p)' /\ Ended(p)'
    <3>1. /\ ppc'[p] = "clean" /\ pres'[p] = "failed" /\ links'[p] = <<>>
          /\ \A n \in {1, 2} : ~Has(p, n)'
      BY <1>0, <2>0, <2>4, <2>a DEF Placed, Linked, Has
    <3> QED
      BY <3>1, <2>0 DEF Placed, Ended
  <2>b. ASSUME links[p] # <<>> PROVE Placed(p)' /\ Ended(p)'
    <3>1. /\ host' = [host EXCEPT ![Head(links[p])] = NoFile] /\ links'[p] = Tail(links[p])
          /\ ppc'[p] = "undo" /\ pres'[p] = "none"
      BY <1>0, <2>0, <2>b DEF Ended
    <3>2. CASE Linked(p, <<Target(p, 1), Target(p, 2)>>, {1, 2})
      <4>1. Head(links[p]) = Target(p, 1) /\ links'[p] = <<Target(p, 2)>>
        BY <3>1, <3>2 DEF Linked
      <4>2. \A n \in {1, 2} : Has(p, n)' <=> n = 2
        BY <1>0, <2>4, <3>1, <3>2, <4>1, TwoTargets DEF Has, Linked, PublishTypeOK
      <4> QED
        BY <2>0, <2>4, <3>1, <4>1, <4>2 DEF Placed, Linked, Ended
    <3>3. CASE Linked(p, <<Target(p, 1)>>, {1})
      <4>1. Head(links[p]) = Target(p, 1) /\ links'[p] = <<>>
        BY <3>1, <3>3 DEF Linked
      <4>2. \A n \in {1, 2} : ~Has(p, n)'
        BY <1>0, <2>4, <3>1, <3>3, <4>1, TwoTargets DEF Has, Linked, PublishTypeOK
      <4> QED
        BY <2>0, <2>4, <3>1, <4>1, <4>2 DEF Placed, Linked, Ended
    <3>4. CASE Linked(p, <<Target(p, 2)>>, {2})
      <4>1. Head(links[p]) = Target(p, 2) /\ links'[p] = <<>>
        BY <3>1, <3>4 DEF Linked
      <4>2. \A n \in {1, 2} : ~Has(p, n)'
        BY <1>0, <2>4, <3>1, <3>4, <4>1, TwoTargets DEF Has, Linked, PublishTypeOK
      <4> QED
        BY <2>0, <2>4, <3>1, <4>1, <4>2 DEF Placed, Linked, Ended
    <3> QED
      BY <1>0, <2>0, <2>b, <3>2, <3>3, <3>4 DEF Placed, Linked
  <2>7. SyncedFirst(p)'
    BY <1>0, <2>0, <2>3, <2>4, TwoTargets DEF PublishTypeOK, Placed, Linked, Ended, SyncedFirst, Has
  <2> QED
    BY <2>1, <2>2, <2>a, <2>b, <2>7 DEF PublishInv
<1>6. ASSUME NEW p \in Publishers, CleanUp(p) PROVE PublishInv'
  <2>0. /\ ppc[p] = "clean" /\ UNCHANGED <<at, synced, links, pres, hostVars>>
        /\ \/ UNCHANGED ppc
           \/ temps[p] = {} /\ temps' = temps /\ ppc'[p] = "done"
           \/ /\ temps[p] = {} /\ temps' = temps /\ ppc'[p] = "confirm"
              /\ pres[p] = "published"
    BY <1>0, <1>6 DEF CleanUp, Cleaned, PublishTypeOK
  <2>1. PublishTypeOK'
    <3>1. links' \in [Publishers -> Seq(Names)]
      <4>1. links' = links
        BY <1>6 DEF CleanUp, Cleaned
      <4>2. /\ links \in [Publishers -> Seq(Names)] /\ <<>> \in Seq(Names)
            /\ at[p] \in {1, 2} /\ Target(p, at[p]) \in Names
        BY <1>0, TwoTargets DEF PublishTypeOK
      <4>3. PICK target \in Names : target = Target(p, at[p])
        BY <4>2
      <4> QED
        BY <4>1, <4>2, <4>3
    <3>2. temps' \in [Publishers -> SUBSET {1, 2}]
      <4>1. temps[p] \in SUBSET {1, 2} /\ temps[p] \ {1} \in SUBSET {1, 2}
        BY <1>0 DEF PublishTypeOK
      <4>2. \/ temps' = temps \/ temps' = [temps EXCEPT ![p] = temps[p] \ {1}]
            \/ temps' = [temps EXCEPT ![p] = {}]
        BY <1>6 DEF CleanUp, Cleaned
      <4> QED
        BY <1>0, <4>1, <4>2 DEF PublishTypeOK
    <3>3. ppc' \in [Publishers -> {"check", "prepare", "link", "sync", "undo", "clean",
                                  "confirm", "done"}]
      BY <1>0, <1>6 DEF CleanUp, Cleaned, PublishTypeOK
    <3>4. UNCHANGED <<kind, stem, at, synced, pres, host, durable>>
      BY <1>6 DEF CleanUp
    <3> QED
      BY <1>0, <3>1, <3>2, <3>3, <3>4 DEF PublishTypeOK
  <2>2. ASSUME NEW r \in Publishers \ {p} PROVE (Placed(r) /\ Ended(r) /\ SyncedFirst(r))'
    <3>1. Spared(r) /\ UNCHANGED <<kind, stem>> /\ durable' \in {durable, host}
      BY <1>0, <1>6, TwoTargets DEF CleanUp, Cleaned, PublishTypeOK, Placed, Linked, Has, Spared
    <3> QED
      BY <3>1, SparedKeeps
  <2>3. UNCHANGED <<kind, stem>>
    BY <1>6 DEF CleanUp
  <2>4. Target(p, 1)' = Target(p, 1) /\ Target(p, 2)' = Target(p, 2)
    BY <2>3, TargetsStay
  <2>a. \A n \in {1, 2} : Has(p, n)' <=> Has(p, n)
    BY <2>0, <2>4 DEF Has
  <2>5. Placed(p)'
    BY <1>0, <2>0, <2>4, <2>a DEF PublishTypeOK, Placed, Linked
  <2>6. Ended(p)'
    BY <1>0, <2>0, <2>a DEF PublishTypeOK, Placed, Linked, Ended
  <2>7. SyncedFirst(p)'
    BY <1>0, <2>0, <2>3, <2>4, TwoTargets DEF PublishTypeOK, Placed, Linked, Ended, SyncedFirst, Has
  <2> QED
    BY <2>1, <2>2, <2>5, <2>6, <2>7 DEF PublishInv
<1>7. ASSUME NEW p \in Publishers, Confirm(p) PROVE PublishInv'
  <2>0. /\ ppc[p] = "confirm" /\ UNCHANGED <<temps, synced, hostVars>>
        /\ ppc'[p] = "done" /\ pres'[p] \in {"published", "ambiguous"} /\ links'[p] = <<>>
    BY <1>0, <1>7 DEF Confirm, PublishTypeOK
  <2>1. PublishTypeOK'
    <3>1. links' \in [Publishers -> Seq(Names)]
      <4>1. links' = [links EXCEPT ![p] = <<>>]
        BY <1>7 DEF Confirm
      <4>2. /\ links \in [Publishers -> Seq(Names)] /\ <<>> \in Seq(Names)
            /\ at[p] \in {1, 2} /\ Target(p, at[p]) \in Names
        BY <1>0, TwoTargets DEF PublishTypeOK
      <4>3. PICK target \in Names : target = Target(p, at[p])
        BY <4>2
      <4> QED
        BY <4>1, <4>2, <4>3
    <3> QED
      BY <1>0, <1>7, <3>1, TwoTargets DEF Confirm, PublishTypeOK
  <2>2. ASSUME NEW r \in Publishers \ {p} PROVE (Placed(r) /\ Ended(r) /\ SyncedFirst(r))'
    <3>1. Spared(r) /\ UNCHANGED <<kind, stem>> /\ durable' \in {durable, host}
      BY <1>0, <1>7, TwoTargets DEF Confirm, PublishTypeOK, Placed, Linked, Has, Spared
    <3> QED
      BY <3>1, SparedKeeps
  <2>3. UNCHANGED <<kind, stem>>
    BY <1>7 DEF Confirm
  <2>4. Target(p, 1)' = Target(p, 1) /\ Target(p, 2)' = Target(p, 2)
    BY <2>3, TargetsStay
  <2>a. \A n \in {1, 2} : Has(p, n)' <=> Has(p, n)
    BY <2>0, <2>4 DEF Has
  <2>5. Placed(p)'
    BY <1>0, <2>0, <2>4, <2>a DEF PublishTypeOK, Placed, Linked
  <2>6. Ended(p)'
    BY <1>0, <2>0, <2>a DEF PublishTypeOK, Placed, Linked, Ended
  <2>7. SyncedFirst(p)'
    BY <1>0, <2>0, <2>3, <2>4, TwoTargets DEF PublishTypeOK, Placed, Linked, Ended, SyncedFirst, Has
  <2> QED
    BY <2>1, <2>2, <2>5, <2>6, <2>7 DEF PublishInv
<1>8. ASSUME NEW p \in Publishers, Interrupted(p) PROVE PublishInv'
  <2>0. /\ ppc[p] \in {"prepare", "link", "sync", "undo"} /\ UNCHANGED <<temps, synced, hostVars>>
        /\ ppc'[p] = "clean" /\ pres'[p] = "interrupted" /\ links'[p] = <<>>
    BY <1>0, <1>8 DEF Interrupted, PublishTypeOK
  <2>1. PublishTypeOK'
    <3>1. links' \in [Publishers -> Seq(Names)]
      <4>1. links' = [links EXCEPT ![p] = <<>>]
        BY <1>8 DEF Interrupted
      <4>2. /\ links \in [Publishers -> Seq(Names)] /\ <<>> \in Seq(Names)
            /\ at[p] \in {1, 2} /\ Target(p, at[p]) \in Names
        BY <1>0, TwoTargets DEF PublishTypeOK
      <4>3. PICK target \in Names : target = Target(p, at[p])
        BY <4>2
      <4> QED
        BY <4>1, <4>2, <4>3
    <3> QED
      BY <1>0, <1>8, <3>1, TwoTargets DEF Interrupted, PublishTypeOK
  <2>2. ASSUME NEW r \in Publishers \ {p} PROVE (Placed(r) /\ Ended(r) /\ SyncedFirst(r))'
    <3>1. Spared(r) /\ UNCHANGED <<kind, stem>> /\ durable' \in {durable, host}
      BY <1>0, <1>8, TwoTargets DEF Interrupted, PublishTypeOK, Placed, Linked, Has, Spared
    <3> QED
      BY <3>1, SparedKeeps
  <2>3. UNCHANGED <<kind, stem>>
    BY <1>8 DEF Interrupted
  <2>4. Target(p, 1)' = Target(p, 1) /\ Target(p, 2)' = Target(p, 2)
    BY <2>3, TargetsStay
  <2>a. \A n \in {1, 2} : Has(p, n)' <=> Has(p, n)
    BY <2>0, <2>4 DEF Has
  <2>5. Placed(p)'
    BY <1>0, <2>0, <2>4, <2>a DEF PublishTypeOK, Placed, Linked
  <2>6. Ended(p)'
    BY <1>0, <2>0, <2>a DEF PublishTypeOK, Placed, Linked, Ended
  <2>7. SyncedFirst(p)'
    BY <1>0, <2>0, <2>3, <2>4, TwoTargets DEF PublishTypeOK, Placed, Linked, Ended, SyncedFirst, Has
  <2> QED
    BY <2>1, <2>2, <2>5, <2>6, <2>7 DEF PublishInv
<1>9. ASSUME NEW n \in Names, OtherProgram(n) PROVE PublishInv'
  <2>1. PublishTypeOK'
    BY <1>0, <1>9 DEF OtherProgram, PublishTypeOK
  <2>2. ASSUME NEW r \in Publishers PROVE Spared(r)
    BY <1>0, <1>9 DEF OtherProgram, PublishTypeOK, Spared
  <2>3. UNCHANGED <<kind, stem>> /\ durable' \in {durable, host}
    BY <1>9 DEF OtherProgram
  <2> QED
    BY <2>1, <2>2, <2>3, SparedKeeps DEF PublishInv
<1>10. CASE UNCHANGED publishVars
  <2>1. PublishTypeOK'
    BY <1>0, <1>10 DEF publishVars, PublishTypeOK
  <2>2. ASSUME NEW r \in Publishers PROVE Spared(r)
    BY <1>10 DEF publishVars, Spared
  <2> QED
    BY <1>10, <2>1, <2>2, SparedKeeps DEF PublishInv, publishVars
<1> QED
  BY <1>1, <1>2, <1>3, <1>4, <1>5, <1>6, <1>7, <1>8, <1>9, <1>10 DEF PublishNext, PublisherStep

\* PublishInv is an invariant of every interleaving of publishers and other programs.
THEOREM PublishInvariance == PublishSpec => []PublishInv
<1>1. PublishInv /\ [PublishNext]_publishVars => PublishInv'
  BY PublishStepInv
<1> QED
  BY PublishInitInv, <1>1, PTL DEF PublishSpec

\* The variables keep their types, for any publishers, spellings and files.
THEOREM PublishTypes == PublishSpec => []PublishTypeOK
<1>1. PublishInv => PublishTypeOK
  BY DEF PublishInv
<1> QED
  BY PublishInvariance, <1>1, PTL

\* The invariant says what a publisher that has returned leaves.
LEMMA WholeOrNothing == PublishInv => PublishedWhole
<1> SUFFICES ASSUME PublishInv, NEW p \in Publishers, ppc[p] = "done"
             PROVE  /\ pres[p] \in {"published", "ambiguous"} => Ours(p) = {1, 2}
                    /\ pres[p] \in {"refused", "failed"} => Ours(p) = {}
                    /\ temps[p] = {}
  BY DEF PublishedWhole
<1>1. Ended(p)
  BY DEF PublishInv
<1>2. Ours(p) = {n \in {1, 2} : Has(p, n)}
  BY DEF Ours, Has
<1> QED
  BY <1>1, <1>2 DEF Ended

\* A publisher that returns has both its files at their names or neither, and leaves no
\* temporary name, whoever publishes at the same names (transfer.py, create.py).
THEOREM PublishedWholeHolds == PublishSpec => []PublishedWhole
<1>1. PublishInv => PublishedWhole
  BY WholeOrNothing
<1> QED
  BY PublishInvariance, <1>1, PTL

\* A file is removed by an undo only, and by the undo of its own publisher.
LEMMA KeptByStep ==
  ASSUME PublishInv, [PublishNext]_publishVars, NEW n \in Names, host[n] # NoFile,
         host'[n] # host[n]
  PROVE  host'[n] = NoFile /\ host[n] \in Publishers /\ ppc[host[n]] = "undo"
<1>0. PublishTypeOK /\ \A p \in Publishers : Placed(p)
  BY DEF PublishInv
<1>1. PICK p \in Publishers : LinkTarget(p) \/ Undo(p)
  <2>1. ASSUME NEW p \in Publishers, PublisherStep(p), ~LinkTarget(p), ~Undo(p) PROVE FALSE
    BY <2>1 DEF PublisherStep, CollisionCheck, WriteTemporary, SyncDirectory, CleanUp, Confirm,
       Interrupted, hostVars
  <2>2. ASSUME NEW m \in Names, OtherProgram(m) PROVE FALSE
    BY <1>0, <2>2 DEF OtherProgram, PublishTypeOK
  <2>3. ~UNCHANGED publishVars
    BY DEF publishVars, hostVars
  <2> QED
    BY <2>1, <2>2, <2>3 DEF PublishNext
<1>2. CASE LinkTarget(p)
  BY <1>0, <1>2 DEF LinkTarget, Free, PublishTypeOK
<1>3. CASE Undo(p)
  <2>1. /\ ppc[p] = "undo" /\ links[p] # <<>>
        /\ host' = [host EXCEPT ![Head(links[p])] = NoFile]
    BY <1>3 DEF Undo, Undone
  <2>2. PICK k \in {1, 2} : Head(links[p]) = Target(p, k) /\ Has(p, k)
    BY <1>0, <2>1 DEF Placed, Linked
  <2>3. n = Target(p, k) /\ host'[n] = NoFile
    BY <1>0, <2>1, <2>2 DEF PublishTypeOK
  <2> QED
    BY <2>1, <2>2, <2>3 DEF Has
<1> QED
  BY <1>1, <1>2, <1>3

\* Nobody's file is replaced, and none is removed but by the undo of the publisher whose
\* own link it is (transfer.py, create.py: create-only hard links).
THEOREM OthersAreKeptHolds == PublishSpec => OthersAreKept
<1>1. PublishInv /\ [PublishNext]_publishVars =>
        [\A n \in Names :
           host[n] # NoFile /\ host'[n] # host[n] =>
             /\ host'[n] = NoFile
             /\ host[n] \in Publishers /\ ppc[host[n]] = "undo"]_publishVars
  BY KeptByStep
<1> QED
  BY PublishInvariance, <1>1, PTL DEF PublishSpec, OthersAreKept

\* The invariant says what a power loss may leave of an export.
LEMMA SyncedSurvives == PublishInv => ExportSurvivesPowerLoss
<1> SUFFICES ASSUME PublishInv, NEW p \in Publishers, NEW n \in {1, 2}, kind[p] = "export"
             PROVE  /\ pres[p] = "published" => AfterPowerLoss(Target(p, n)) = {p}
                    /\ p \in AfterPowerLoss(Target(p, n)) => n \in synced[p]
  BY DEF ExportSurvivesPowerLoss
<1>1. PublishTypeOK /\ Ended(p) /\ SyncedFirst(p) /\ Target(p, n) \in Names
  BY TwoTargets DEF PublishInv
<1>2. pres[p] = "published" => host[Target(p, n)] = p /\ durable[Target(p, n)] = p
  BY <1>1 DEF Ended, SyncedFirst, Has
<1>3. p \in AfterPowerLoss(Target(p, n)) => synced[p] = {1, 2}
  BY <1>1 DEF SyncedFirst, AfterPowerLoss
<1> QED
  BY <1>2, <1>3 DEF AfterPowerLoss

\* A power loss neither takes a finished export away nor shows a name of an export
\* whose content was never synced (transfer.py).
THEOREM ExportSurvivesPowerLossHolds == PublishSpec => []ExportSurvivesPowerLoss
<1>1. PublishInv => ExportSurvivesPowerLoss
  BY SyncedSurvives
<1> QED
  BY PublishInvariance, <1>1, PTL

-----------------------------------------------------------------------------
(* Import of a host file                                                    *)

\* While nothing was written to the host file, what was read is the start of it.
ReadSoFar ==
  /\ ipc \in {"metadata", "measure", "open"} => data = <<>>
  /\ ipc \in {"read", "compare"} =>
       /\ before.stamp <= stamp
       /\ stamp = before.stamp =>
            /\ before.size = Len(source) /\ source \in seen
            /\ Len(data) <= Len(source)
            /\ \A i \in 1 .. Len(data) : data[i] = source[i]
  /\ ipc = "read" => source \in seen

\* What passed the comparison is a content of the host file.
Imported ==
  /\ ipc = "create" => data \in seen /\ inf \in {-1, Len(data)}
  /\ ires = "imported" => ipc = "done" /\ entry \in seen /\ inf \in {-1, Len(entry)}

ImportInv == ImportTypeOK /\ ReadSoFar /\ Imported

\* The contents are the sequences of at most MaxBlocks blocks.
LEMMA ContentsAreSequences ==
  ASSUME NEW x \in Contents
  PROVE  x \in Seq(Blocks) /\ Len(x) \in 0 .. MaxBlocks
<1>1. PICK n \in 0 .. MaxBlocks : x \in [1 .. n -> Blocks]
  BY DEF Contents
<1> QED
  BY <1>1, ImportAssumption

\* And every such sequence is a content.
LEMMA SequencesAreContents ==
  ASSUME NEW x \in Seq(Blocks), Len(x) <= MaxBlocks
  PROVE  x \in Contents
<1>1. Len(x) \in 0 .. MaxBlocks /\ x \in [1 .. Len(x) -> Blocks]
  BY ImportAssumption
<1> QED
  BY <1>1 DEF Contents

\* The first state satisfies the invariant.
LEMMA ImportInitInv == ImportInit => ImportInv
<1> SUFFICES ASSUME ImportInit PROVE ImportInv
  OBVIOUS
<1>1. source \in Contents /\ source \in Seq(Blocks) /\ Len(source) \in 0 .. MaxBlocks
  BY ContentsAreSequences, ImportAssumption DEF ImportInit
<1>2. before \in [size : 0 .. MaxBlocks, stamp : 0 .. MaxStamp]
  BY <1>1, ImportAssumption DEF ImportInit, Signature
<1>3. data \in Contents
  <2>1. data \in Seq(Blocks) /\ Len(data) <= MaxBlocks
    BY ImportAssumption DEF ImportInit
  <2> QED
    BY <2>1, SequencesAreContents
<1>4. ImportTypeOK
  BY <1>1, <1>2, <1>3, ImportAssumption DEF ImportInit, ImportTypeOK
<1> QED
  BY <1>4 DEF ImportInit, ImportInv, ReadSoFar, Imported

\* Every step keeps the invariant.
LEMMA ImportStepInv == ImportInv /\ [ImportNext]_importAll => ImportInv'
<1> SUFFICES ASSUME ImportInv, [ImportNext]_importAll PROVE ImportInv'
  OBVIOUS
<1> USE ImportAssumption DEF ImportInv, Proceeds, Refused, hostFile, imageVars, importVars
<1>0. /\ source \in Seq(Blocks) /\ Len(source) \in 0 .. MaxBlocks
      /\ data \in Seq(Blocks) /\ Len(data) \in 0 .. MaxBlocks
      /\ before.size \in 0 .. MaxBlocks /\ before.stamp \in 0 .. MaxStamp
  BY ContentsAreSequences DEF ImportTypeOK
<1>1. CASE ImportMetadata
  <2>1. ImportTypeOK'
    BY <1>0, <1>1 DEF ImportMetadata, ImportTypeOK
  <2>2. ReadSoFar'
    BY <1>0, <1>1 DEF ImportMetadata, ImportTypeOK, ReadSoFar
  <2>3. Imported'
    BY <1>0, <1>1 DEF ImportMetadata, ImportTypeOK, Imported
  <2> QED
    BY <2>1, <2>2, <2>3
<1>2. CASE Measure
  <2>1. ImportTypeOK'
    BY <1>0, <1>2 DEF Measure, ImportTypeOK
  <2>2. ReadSoFar'
    BY <1>0, <1>2 DEF Measure, ImportTypeOK, ReadSoFar
  <2>3. Imported'
    BY <1>0, <1>2 DEF Measure, ImportTypeOK, Imported
  <2> QED
    BY <2>1, <2>2, <2>3
<1>3. CASE OpenSource
  <2>1. ImportTypeOK'
    <3>1. Signature \in [size : 0 .. MaxBlocks, stamp : 0 .. MaxStamp]
      BY <1>0 DEF Signature, ImportTypeOK
    <3> QED
      BY <1>3, <3>1 DEF OpenSource, ImportTypeOK
  <2>2. ReadSoFar'
    <3>1. CASE Len(source) > maximum
      BY <1>3, <3>1 DEF OpenSource, ReadSoFar
    <3>2. CASE ~(Len(source) > maximum)
      <4>1. /\ ipc' = "read" /\ before'.stamp = stamp /\ before'.size = Len(source)
            /\ seen' = {source} /\ data' = <<>> /\ UNCHANGED <<source, stamp>>
        BY <1>3, <3>2 DEF OpenSource, Signature, ReadSoFar
      <4> QED
        BY <1>0, <4>1 DEF ReadSoFar, ImportTypeOK
    <3> QED
      BY <3>1, <3>2
  <2>3. Imported'
    BY <1>0, <1>3 DEF OpenSource, ImportTypeOK, Imported
  <2> QED
    BY <2>1, <2>2, <2>3
<1>4. CASE ReadBlock
  <2>1. ImportTypeOK'
    <3>1. data' \in Contents
      <4>1. CASE Len(data) < Len(source) /\ data' = Append(data, source[Len(data) + 1])
        <5>1. source[Len(data) + 1] \in Blocks
          BY <1>0, <4>1
        <5>2. data' \in Seq(Blocks) /\ Len(data') = Len(data) + 1
          BY <1>0, <4>1, <5>1
        <5>3. Len(data') <= MaxBlocks
          BY <1>0, <4>1, <5>2
        <5> QED
          BY <5>2, <5>3, SequencesAreContents
      <4>2. CASE data' = data
        BY <4>2 DEF ImportTypeOK
      <4> QED
        BY <1>4, <4>1, <4>2 DEF ReadBlock
    <3>2. ipc' \in {ipc, "compare"} /\ ires' = ires
      BY <1>4 DEF ReadBlock
    <3>3. UNCHANGED <<hostFile, imageVars, inf, maximum, before>>
      BY <1>4 DEF ReadBlock
    <3> QED
      BY <3>1, <3>2, <3>3 DEF ImportTypeOK
  <2>2. ReadSoFar'
    <3>1. ipc = "read" /\ ipc' \in {"read", "compare"} /\ UNCHANGED <<source, stamp, seen, before>>
      BY <1>4 DEF ReadBlock
    <3>2. CASE Len(data) < Len(source) /\ data' = Append(data, source[Len(data) + 1])
      <4>1. /\ Len(data') = Len(data) + 1 /\ data'[Len(data) + 1] = source[Len(data) + 1]
            /\ \A i \in 1 .. Len(data) : data'[i] = data[i]
        <5>1. source[Len(data) + 1] \in Blocks
          BY <1>0, <3>2
        <5> QED
          BY <1>0, <3>2, <5>1
      <4> QED
        BY <1>0, <3>1, <3>2, <4>1 DEF ReadSoFar
    <3>3. CASE data' = data
      BY <3>1, <3>3 DEF ReadSoFar
    <3> QED
      BY <1>4, <3>2, <3>3 DEF ReadBlock
  <2>3. Imported'
    BY <1>0, <1>4 DEF ReadBlock, ImportTypeOK, Imported
  <2> QED
    BY <2>1, <2>2, <2>3
<1>5. CASE Compare
  <2>1. ImportTypeOK'
    BY <1>0, <1>5 DEF Compare, Unchanged, ImportTypeOK
  <2>2. ReadSoFar'
    BY <1>0, <1>5 DEF Compare, Unchanged, ImportTypeOK, ReadSoFar
  <2>3. Imported'
    <3>1. CASE Unchanged /\ inf \in {-1, Len(data)} /\ ipc = "compare"
      <4>1. before.stamp = stamp /\ Len(data) = Len(source) /\ source \in seen
        BY <1>0, <3>1 DEF Unchanged, Signature, ReadSoFar
      <4>2. data = source
        BY <1>0, <3>1, <4>1 DEF ReadSoFar
      <4> QED
        BY <1>5, <3>1, <4>1, <4>2 DEF Compare, Imported
    <3>2. CASE ipc' = "done" /\ ires' = "refused"
      BY <3>2 DEF Imported
    <3> QED
      BY <1>5, <3>1, <3>2 DEF Compare
  <2> QED
    BY <2>1, <2>2, <2>3
<1>6. CASE CreateEntry
  <2>1. ImportTypeOK'
    BY <1>0, <1>6 DEF CreateEntry, Creatable, ImportTypeOK
  <2>2. ReadSoFar'
    BY <1>0, <1>6 DEF CreateEntry, Creatable, ImportTypeOK, ReadSoFar
  <2>3. Imported'
    BY <1>0, <1>6 DEF CreateEntry, Creatable, ImportTypeOK, Imported
  <2> QED
    BY <2>1, <2>2, <2>3
<1>7. CASE OtherSession
  <2>1. ImportTypeOK'
    BY <1>0, <1>7 DEF OtherSession, ImportTypeOK
  <2>2. ReadSoFar'
    BY <1>0, <1>7 DEF OtherSession, ImportTypeOK, ReadSoFar
  <2>3. Imported'
    BY <1>0, <1>7 DEF OtherSession, ImportTypeOK, Imported
  <2> QED
    BY <2>1, <2>2, <2>3
<1>8. CASE WriteSource
  <2>1. ImportTypeOK'
    <3>1. source' \in Contents
      <4>1. ASSUME NEW i \in DOMAIN source, NEW b \in Blocks,
                   source' = [source EXCEPT ![i] = b]
            PROVE  source' \in Seq(Blocks) /\ Len(source') <= MaxBlocks
        BY <1>0, <4>1
      <4>2. ASSUME Len(source) < MaxBlocks, NEW b \in Blocks, source' = Append(source, b)
            PROVE  source' \in Seq(Blocks) /\ Len(source') <= MaxBlocks
        BY <1>0, <4>2
      <4>3. ASSUME source # <<>>, source' = SubSeq(source, 1, Len(source) - 1)
            PROVE  source' \in Seq(Blocks) /\ Len(source') <= MaxBlocks
        <5>1. Len(source) \in 1 .. MaxBlocks
          BY <1>0, <4>3
        <5>2. \A i \in 1 .. Len(source) - 1 : source[i] \in Blocks
          BY <1>0
        <5> QED
          BY <1>0, <4>3, <5>1, <5>2
      <4>4. source' \in Seq(Blocks) /\ Len(source') <= MaxBlocks
        BY <1>8, <4>1, <4>2, <4>3 DEF WriteSource
      <4> QED
        BY <4>4, SequencesAreContents
    <3>2. stamp' \in 0 .. MaxStamp /\ UNCHANGED <<imageVars, importVars>>
      BY <1>8 DEF WriteSource, ImportTypeOK
    <3>3. seen' = seen \cup {source'} \/ seen' = seen
      BY <1>8 DEF WriteSource
    <3> QED
      BY <3>1, <3>2, <3>3 DEF ImportTypeOK
  <2>2. ReadSoFar'
    BY <1>0, <1>8 DEF WriteSource, ImportTypeOK, ReadSoFar
  <2>3. Imported'
    BY <1>0, <1>8 DEF WriteSource, ImportTypeOK, Imported
  <2> QED
    BY <2>1, <2>2, <2>3
<1>9. CASE UNCHANGED importAll
  BY <1>9 DEF importAll, ImportTypeOK, ReadSoFar, Imported
<1> QED
  BY <1>1, <1>2, <1>3, <1>4, <1>5, <1>6, <1>7, <1>8, <1>9 DEF ImportNext

\* ImportInv is an invariant of the import, whoever writes to file and image.
THEOREM ImportInvariance == ImportSpec => []ImportInv
<1>1. ImportInv /\ [ImportNext]_importAll => ImportInv'
  BY ImportStepInv
<1> QED
  BY ImportInitInv, <1>1, PTL DEF ImportSpec

\* The variables keep their types, for any host file, image and writes.
THEOREM ImportTypes == ImportSpec => []ImportTypeOK
<1>1. ImportInv => ImportTypeOK
  BY DEF ImportInv
<1> QED
  BY ImportInvariance, <1>1, PTL

\* What is imported is the host file as it was at one moment, of the length that its
\* sidecar records (transfer.py _read_stable_file).
THEOREM ImportIsFaithfulHolds == ImportSpec => []ImportIsFaithful
<1>1. ImportInv => ImportIsFaithful
  BY DEF ImportInv, Imported, ImportIsFaithful
<1> QED
  BY ImportInvariance, <1>1, PTL

\* The import creates the entry under a free name, or leaves the image as it is.
THEOREM ImportReplacesNothingHolds == ImportSpec => ImportReplacesNothing
<1>1. ImportInv /\ [ImportNext]_importAll =>
        [ipc' # ipc /\ entry' # entry => entry = Nobody /\ room' >= 0]_importAll
  <2> SUFFICES ASSUME ImportInv, ImportNext, ipc' # ipc, entry' # entry
               PROVE  entry = Nobody /\ room' >= 0
    OBVIOUS
  <2>1. CreateEntry
    BY DEF ImportNext, ImportMetadata, Measure, OpenSource, ReadBlock, Compare, OtherSession,
       WriteSource, imageVars, importVars
  <2>2. Len(data) \in Nat /\ room \in Nat
    BY ContentsAreSequences, ImportAssumption DEF ImportInv, ImportTypeOK
  <2> QED
    BY <2>1, <2>2 DEF CreateEntry, Creatable, imageVars
<1> QED
  BY ImportInvariance, <1>1, PTL DEF ImportSpec, ImportReplacesNothing
=============================================================================
