------------------------- MODULE ImageSessionProofs -------------------------
(***************************************************************************)
(* Proofs about ImageSession, for every set of blocks and values, either    *)
(* kind of transaction, and every bound.                                    *)
(*                                                                          *)
(* The inductive invariant says what _run_atomic relies on between its      *)
(* steps: the plan writes live blocks only if it captured them (PlanFits),  *)
(* so as long as the rollback may be needed the before-image and the        *)
(* untouched blocks together still hold the catalogue the index describes   *)
(* (Undoable).                                                              *)
(***************************************************************************)
EXTENDS ImageSession, Integers, TLAPS

Forward == {"prepared", "mutated", "advanced", "synced"}

\* The plan and its before-image fit the catalogue the index describes.
PlanFits ==
  /\ plan \in [writes : SUBSET Blocks, captures : SUBSET Blocks, live : SUBSET Blocks,
               vals : Catalogues]
  /\ plan.vals \in [plan.writes -> Values]
  /\ plan.live \subseteq DOMAIN index \cup plan.writes
  /\ plan.writes \cap DOMAIN index \subseteq Captured(plan)
  /\ saved.live = DOMAIN index
  /\ saved.blk \in [Captured(plan) -> Values]

Shape ==
  /\ phase \in Forward => ~failed /\ commits < MaxCommits
  /\ phase \in Forward \cup {"rollback"} => PlanFits
  /\ phase \in {"mutated", "advanced", "synced"} => live = plan.live
  /\ ~failed /\ phase \notin {"mutated", "advanced", "synced", "rollback"}
       => live = DOMAIN index
  /\ phase = "padding" => ~failed
  /\ checkpoint = "removed" => phase = "closed" /\ ~failed

\* Restoring what was captured gives back every block of the index's catalogue.
Undoable ==
  \A b \in DOMAIN index :
    IF b \in Captured(plan) THEN saved.blk[b] = index[b] ELSE blk[b] = index[b]

Content ==
  ~failed /\ tampered = "no" =>
    /\ phase \in Forward \cup {"rollback"} => Undoable
    /\ phase \in {"mutated", "advanced", "synced"} => Catalogue = Applied(plan)
    /\ phase \notin {"mutated", "advanced", "synced", "rollback"} => Catalogue = index

Inv == TypeOK /\ Shape /\ Content

\* A multiple of n and a smaller number: the remainder is that number.
LEMMA Remainder ==
  ASSUME NEW s \in Nat, NEW n \in Nat \ {0}, NEW r \in 0 .. n - 1
  PROVE  (s * n + r) % n = r
<1> DEFINE k == s * n + r
           d == k \div n
           m == k % n
<1>1. k \in Nat
  OBVIOUS
<1>2. k = d * n + m /\ m \in 0 .. n - 1 /\ d \in Int
  BY <1>1, SMTT(30)
<1> HIDE DEF d, m
<1>3. (s - d) * n = m - r
  BY <1>2, SMTT(30)
<1>4. ~ (s - d >= 1)
  BY <1>2, <1>3, SMTT(30)
<1>5. ~ (s - d <= -1)
  BY <1>2, <1>3, SMTT(30)
<1>6. s - d = 0
  BY <1>2, <1>4, <1>5
<1>7. m = r
  BY <1>2, <1>3, <1>6
<1> QED
  BY <1>7 DEF m

\* Every number is a multiple of n and a remainder.
LEMMA Division ==
  ASSUME NEW a \in Nat, NEW n \in Nat \ {0}
  PROVE  \E q \in Nat, r \in 0 .. n - 1 : a = q * n + r
<1>1. a = (a \div n) * n + (a % n) /\ a % n \in 0 .. n - 1 /\ a \div n \in Nat
  BY SMTT(30)
<1> QED
  BY <1>1

\* Counting modulo n one step at a time.
LEMMA ModNext ==
  ASSUME NEW a \in Nat, NEW n \in Nat \ {0}
  PROVE  ((a % n) + 1) % n = (a + 1) % n
<1>1. PICK q \in Nat, r \in 0 .. n - 1 : a = q * n + r
  BY Division
<1>2. a % n = r
  BY <1>1, Remainder
<1>3. CASE r + 1 < n
  <2>1. r + 1 \in 0 .. n - 1 /\ a + 1 = q * n + (r + 1) /\ r + 1 = 0 * n + (r + 1)
    BY <1>1, <1>3
  <2>2. (q * n + (r + 1)) % n = r + 1 /\ (0 * n + (r + 1)) % n = r + 1
    BY <2>1, Remainder
  <2> QED
    BY <1>2, <2>1, <2>2
<1>4. CASE r + 1 = n
  <2>1. a + 1 = (q + 1) * n + 0 /\ r + 1 = 1 * n + 0 /\ 0 \in 0 .. n - 1
    BY <1>1, <1>4
  <2>2. ((q + 1) * n + 0) % n = 0 /\ (1 * n + 0) % n = 0
    BY <2>1, Remainder
  <2> QED
    BY <1>2, <2>1, <2>2
<1> QED
  BY <1>3, <1>4

USE SessionAssumption DEF SessionAssumption

\* The next disc cycle id stays within its width.
LEMMA NextIdInRange == ASSUME id \in 0 .. IdMod - 1 PROVE NextDiscId \in 0 .. IdMod - 1
BY DEF NextDiscId

\* A catalogue is a function with values in Values.
LEMMA CatalogueType ==
  ASSUME NEW f \in Catalogues
  PROVE  /\ DOMAIN f \in SUBSET Blocks
         /\ f \in [DOMAIN f -> Values]
         /\ f = [b \in DOMAIN f |-> f[b]]
BY DEF Catalogues

LEMMA CatalogueIntro ==
  ASSUME NEW S \in SUBSET Blocks, NEW f \in [S -> Values]
  PROVE  f \in Catalogues
BY DEF Catalogues

\* The records of a session with no mutation in progress are well typed.
LEMMA EmptyType == NoPlan \in PlanType /\ NoSaved \in SavedType /\ Nothing \in Catalogues
<1>1. Nothing \in [{} -> Values]
  BY DEF Nothing
<1>2. Nothing \in Catalogues
  BY <1>1, CatalogueIntro
<1> QED
  BY <1>2 DEF NoPlan, NoSaved, PlanType, SavedType

\* The initial states satisfy the invariant.
LEMMA InitInv == Init => Inv
<1> SUFFICES ASSUME Init PROVE Inv
  OBVIOUS
<1>1. Catalogue \in [live -> Values] /\ Catalogue \in Catalogues /\ DOMAIN Catalogue = live
  BY CatalogueIntro DEF Init, Catalogue
<1>2. plan \in PlanType /\ saved \in SavedType /\ Nothing \in Catalogues
  BY EmptyType DEF Init
<1>4. TypeOK
  <2>1. index \in Catalogues /\ source \in Catalogues
    BY <1>1, <1>2 DEF Init
  <2>2. id \in 0 .. IdMod - 1 /\ sig \in 0 .. MaxSig /\ commits \in 0 .. MaxCommits
    BY DEF Init
  <2> QED
    BY <1>2, <2>1, <2>2 DEF Init, TypeOK, Phases, ClosePhases
<1>5. Shape
  BY <1>1 DEF Init, Shape, Forward
<1>6. Content
  BY DEF Init, Content, Forward
<1> QED
  BY <1>4, <1>5, <1>6 DEF Inv

\* Beginning a mutation that writes no live block it did not capture, and that
\* keeps only what was live or is written, establishes PlanFits and Undoable.
LEMMA BeginInv ==
  ASSUME Inv,
         NEW writes \in SUBSET Blocks, NEW captures \in SUBSET Blocks,
         NEW newLive \in SUBSET Blocks,
         writes \cap live \subseteq captures,
         newLive \subseteq live \cup writes,
         Begin(writes, captures, newLive)
  PROVE  Inv'
<1> USE DEF Inv
<1>1. /\ phase = "idle" /\ ~failed /\ live = DOMAIN index /\ live \in SUBSET Blocks
      /\ blk \in [Blocks -> Values] /\ id \in 0 .. IdMod - 1 /\ commits < MaxCommits
  BY DEF Begin, MayMutate, TypeOK, Shape
<1>2. PICK vals \in [writes -> Values] :
        plan' = [writes |-> writes, captures |-> captures, live |-> newLive, vals |-> vals]
  BY DEF Begin
<1>3. vals \in Catalogues
  BY CatalogueIntro
<1>4. plan' \in PlanType
  BY <1>2, <1>3 DEF PlanType
<1>5. Captured(plan') \in SUBSET Blocks /\ writes \cap live \subseteq Captured(plan')
  BY <1>2 DEF Captured
<1>6. saved' = [blk |-> [b \in Captured(plan') |-> blk[b]], live |-> live, id |-> id]
  BY DEF Begin, BeforeImage
<1>7. [b \in Captured(plan') |-> blk[b]] \in [Captured(plan') -> Values]
  BY <1>1, <1>5
<1>8. saved' \in SavedType
  BY <1>1, <1>5, <1>6, <1>7, CatalogueIntro DEF SavedType
<1>9. /\ phase' = "prepared" /\ backup' \in BOOLEAN
      /\ UNCHANGED <<blk, live, id, tail, index, failed, sig, expected, source,
                     checkpoint, commits, padded, tampered>>
  BY DEF Begin, image, identity, history
<1>10. TypeOK'
  BY <1>4, <1>8, <1>9 DEF TypeOK, Phases
<1>11. PlanFits'
  BY <1>1, <1>2, <1>4, <1>5, <1>6, <1>7, <1>9 DEF PlanFits, PlanType, Captured
<1>12. Shape'
  BY <1>1, <1>9, <1>11 DEF Shape, Forward
<1>13. Content'
  <2> SUFFICES ASSUME ~failed', tampered' = "no" PROVE Undoable' /\ Catalogue' = index'
    BY <1>9 DEF Content, Forward
  <2>1. Catalogue = index
    BY <1>1, <1>9 DEF Content
  <2>2. Catalogue' = index'
    BY <2>1, <1>9 DEF Catalogue
  <2>3. ASSUME NEW b \in DOMAIN index PROVE blk[b] = index[b]
    BY <2>1, <1>1 DEF Catalogue
  <2>4. Undoable'
    BY <2>3, <1>1, <1>5, <1>6, <1>9 DEF Undoable, Captured
  <2> QED
    BY <2>2, <2>4
<1> QED
  BY <1>10, <1>12, <1>13

\* Every mutation writes live blocks only if it captures them.
LEMMA OperationInv == Inv /\ Operation => Inv'
<1> SUFFICES ASSUME Inv, Operation PROVE Inv'
  OBVIOUS
<1>1. live \in SUBSET Blocks
  BY DEF Inv, TypeOK
<1>2. CASE ReplaceFile
  <2>1. PICK d \in live, old \in AtMostOne(live), new \in AtMostOne(Blocks) :
          /\ new \subseteq Free \cup old
          /\ Begin({d} \cup new, ReplaceCaptures(d, old), (live \ old) \cup new)
    BY <1>2 DEF ReplaceFile
  <2>2. old \subseteq live /\ new \subseteq Blocks
    BY DEF AtMostOne
  <2> QED
    BY <1>1, <2>1, <2>2, BeginInv DEF ReplaceCaptures, Free
<1>3. CASE AddObject
  <2>1. PICK d \in live, new \in AtMostOne(Free) : Begin({d} \cup new, {d}, live \cup new)
    BY <1>3 DEF AddObject
  <2>2. new \subseteq Free
    BY DEF AtMostOne
  <2> QED
    BY <1>1, <2>1, <2>2, BeginInv DEF Free
<1>4. CASE Remove
  <2>1. PICK d \in live, old \in AtMostOne(live) : Begin({d}, {d}, live \ old)
    BY <1>4 DEF Remove
  <2> QED
    BY <1>1, <2>1, BeginInv
<1>5. CASE Rename
  <2>1. PICK d1 \in live, d2 \in live, dir \in AtMostOne(live), old \in AtMostOne(live) :
          Begin({d1, d2} \cup dir, {d1, d2} \cup dir, live \ old)
    BY <1>5 DEF Rename
  <2>2. dir \subseteq live
    BY DEF AtMostOne
  <2> QED
    BY <1>1, <2>1, <2>2, BeginInv
<1>6. CASE SetAcornMetadata
  <2>1. PICK d \in live : Begin({d}, {d}, live)
    BY <1>6 DEF SetAcornMetadata
  <2> QED
    BY <1>1, <2>1, BeginInv
<1>7. CASE ApplyCatalogueRepair
  <2>1. PICK ds \in SUBSET live : Begin(ds, ds, live)
    BY <1>7 DEF ApplyCatalogueRepair
  <2> QED
    BY <1>1, <2>1, BeginInv
<1> QED
  BY <1>2, <1>3, <1>4, <1>5, <1>6, <1>7 DEF Operation

\* The writes of the plan, all of them or some, keep the mutation undoable.
LEMMA MutateInv == Inv /\ (Mutate \/ MutateFails) => Inv'
<1> SUFFICES ASSUME Inv, Mutate \/ MutateFails PROVE Inv'
  OBVIOUS
<1> USE DEF Inv
<1>1. /\ phase = "prepared" /\ ~failed /\ live = DOMAIN index /\ PlanFits
      /\ commits < MaxCommits
  BY DEF Mutate, MutateFails, Shape, Forward
<1>2. /\ phase' \in {"mutated", "rollback"}
      /\ UNCHANGED <<id, tail, index, plan, saved, backup, failed, sig, expected, source,
                     checkpoint, commits, padded, tampered>>
  BY DEF Mutate, MutateFails, transaction, identity, history
<1>3. PICK S \in SUBSET plan.writes : blk' = Written(plan, S)
                                    /\ (Mutate => S = plan.writes)
  <2>1. CASE Mutate
    BY <2>1 DEF Mutate
  <2>2. CASE MutateFails /\ ~Mutate
    BY <2>2 DEF MutateFails
  <2> QED
    BY <2>1, <2>2
<1>4. live' \in SUBSET Blocks
  BY <1>1 DEF Mutate, MutateFails, PlanFits, TypeOK
<1>5. blk' \in [Blocks -> Values]
  BY <1>1, <1>3 DEF Written, PlanFits, TypeOK
<1>6. TypeOK'
  BY <1>2, <1>4, <1>5 DEF TypeOK, Phases
<1>7. PlanFits'
  BY <1>1, <1>2 DEF PlanFits, Captured
<1>8. Shape'
  BY <1>1, <1>2, <1>7 DEF Shape, Forward, Mutate, MutateFails
<1>9. Content'
  <2> SUFFICES ASSUME ~failed', tampered' = "no"
               PROVE  Undoable' /\ (phase' = "mutated" => Catalogue' = Applied(plan)')
    BY <1>2 DEF Content, Forward
  <2>1. Undoable /\ Catalogue = index
    BY <1>1, <1>2 DEF Content, Forward
  <2>2. ASSUME NEW b \in DOMAIN index, b \notin Captured(plan)
        PROVE  b \in Blocks /\ b \notin plan.writes
    BY <1>1, <2>2 DEF PlanFits, TypeOK
  <2>3. Undoable'
    BY <1>2, <1>3, <2>1, <2>2 DEF Undoable, Captured, Written
  <2>4. ASSUME phase' = "mutated" PROVE Catalogue' = Applied(plan)'
    <3>1. blk' = Written(plan, plan.writes) /\ live' = plan.live
      BY <1>3, <2>4 DEF Mutate, MutateFails
    <3>2. plan.live \subseteq Blocks /\ plan.live \subseteq live \cup plan.writes
      BY <1>1 DEF PlanFits
    <3>3. ASSUME NEW b \in live PROVE blk[b] = index[b]
      BY <2>1 DEF Catalogue
    <3> QED
      BY <1>2, <3>1, <3>2, <3>3 DEF Catalogue, Applied, Written
  <2> QED
    BY <2>3, <2>4
<1> QED
  BY <1>6, <1>8, <1>9

\* Steps of _run_atomic that write no block, up to the commit.
LEMMA AdvanceInv ==
  Inv /\ (PreflightFails \/ AdvanceDiscId \/ FinishMutation \/ FinishMutationFails
          \/ CompleteFails) => Inv'
<1> SUFFICES ASSUME Inv, PreflightFails \/ AdvanceDiscId \/ FinishMutation
                         \/ FinishMutationFails \/ CompleteFails
             PROVE  Inv'
  OBVIOUS
<1> USE DEF Inv
<1>1. /\ phase \in Forward
      /\ phase' \in {"advanced", "synced", "rollback"}
      /\ phase' # "rollback" => phase \in {"mutated", "advanced"} /\ failed' = failed
      /\ failed => failed'
      /\ failed' \in BOOLEAN /\ backup' \in BOOLEAN
      /\ UNCHANGED <<blk, live, tail, index, plan, saved, sig, source,
                     checkpoint, commits, padded, tampered>>
  BY DEF PreflightFails, AdvanceDiscId, FinishMutation, FinishMutationFails, CompleteFails,
         transaction, identity, history, image, Forward, TypeOK
<1>2. id' \in 0 .. IdMod - 1 /\ expected' \in 0 .. MaxSig
  BY NextIdInRange DEF PreflightFails, AdvanceDiscId, FinishMutation, FinishMutationFails,
         CompleteFails, identity, image, TypeOK
<1>3. TypeOK'
  BY <1>1, <1>2 DEF TypeOK, Phases
<1>4. PlanFits'
  BY <1>1 DEF Shape, PlanFits, Captured, Forward
<1>5. Shape'
  BY <1>1, <1>4 DEF Shape, Forward
<1>6. Content'
  BY <1>1 DEF Content, Forward, Undoable, Captured, Catalogue, Applied
<1> QED
  BY <1>3, <1>5, <1>6

\* The commit brings the index up to what the mutation left in the image.
LEMMA CommitInv == Inv /\ Commit => Inv'
<1> SUFFICES ASSUME Inv, Commit PROVE Inv'
  OBVIOUS
<1> USE DEF Inv
<1>1. /\ phase = "synced" /\ phase' = "idle" /\ ~failed /\ commits < MaxCommits /\ PlanFits
      /\ index' = Applied(plan) /\ commits' = commits + 1 /\ backup' = FALSE
      /\ plan' = NoPlan /\ saved' = NoSaved
      /\ UNCHANGED <<blk, live, id, tail, failed, sig, expected, source, checkpoint,
                     padded, tampered>>
  BY DEF Commit, Release, Shape, Forward, image, identity
<1>2. Applied(plan) \in [plan.live -> Values]
  <2>1. index \in [DOMAIN index -> Values]
    BY CatalogueType DEF TypeOK
  <2> QED
    BY <1>1, <2>1 DEF Applied, PlanFits
<1>3. index' \in Catalogues /\ DOMAIN index' = plan.live
  BY <1>1, <1>2, CatalogueIntro DEF PlanFits
<1>4. plan' \in PlanType /\ saved' \in SavedType
  BY <1>1, EmptyType
<1>5. commits' \in 0 .. MaxCommits
  BY <1>1 DEF TypeOK
<1>6. TypeOK'
  BY <1>1, <1>3, <1>4, <1>5 DEF TypeOK, Phases
<1>7. live' = DOMAIN index'
  BY <1>1, <1>3 DEF Shape
<1>8. Shape'
  BY <1>1, <1>7 DEF Shape, Forward
<1>9. Content'
  <2> SUFFICES ASSUME ~failed', tampered' = "no" PROVE Catalogue' = index'
    BY <1>1 DEF Content, Forward
  <2>1. Catalogue = Applied(plan)
    BY <1>1 DEF Content, Forward
  <2> QED
    BY <1>1, <2>1 DEF Catalogue
<1> QED
  BY <1>6, <1>8, <1>9

\* A rollback puts the captured blocks back, which restores the index's catalogue;
\* one that cannot be verified fails the session.
LEMMA RollbackInv == Inv /\ (Restore \/ FinishRollback \/ RollbackFails) => Inv'
<1> SUFFICES ASSUME Inv, Restore \/ FinishRollback \/ RollbackFails PROVE Inv'
  OBVIOUS
<1> USE DEF Inv
<1>1. CASE Restore
  <2>1. /\ phase = "rollback" /\ phase' = "restored" /\ PlanFits
        /\ blk' = [b \in Blocks |-> IF b \in Captured(plan) THEN saved.blk[b] ELSE blk[b]]
        /\ live' = DOMAIN index /\ id' = saved.id
        /\ UNCHANGED <<tail, index, plan, saved, backup, failed, sig, expected, source,
                       checkpoint, commits, padded, tampered>>
    BY <1>1 DEF Restore, RestoredId, Shape, PlanFits, transaction, identity, history
  <2>2. blk' \in [Blocks -> Values] /\ live' \in SUBSET Blocks /\ id' \in 0 .. IdMod - 1
    BY <2>1, CatalogueType DEF PlanFits, TypeOK, SavedType
  <2>3. TypeOK'
    BY <2>1, <2>2 DEF TypeOK, Phases
  <2>4. Shape'
    BY <2>1 DEF Shape, Forward
  <2>5. Content'
    <3> SUFFICES ASSUME ~failed', tampered' = "no" PROVE Catalogue' = index'
      BY <2>1 DEF Content, Forward
    <3>1. Undoable
      BY <2>1 DEF Content, Forward
    <3>2. index = [b \in DOMAIN index |-> index[b]] /\ DOMAIN index \subseteq Blocks
      BY CatalogueType DEF TypeOK
    <3>3. ASSUME NEW b \in DOMAIN index PROVE blk'[b] = index[b]
      BY <2>1, <3>1, <3>2 DEF Undoable
    <3> QED
      BY <2>1, <3>2, <3>3 DEF Catalogue
  <2> QED
    BY <2>3, <2>4, <2>5
<1>2. CASE FinishRollback \/ RollbackFails
  <2>1. /\ phase \in {"rollback", "restored"} /\ phase' = "idle"
        /\ (phase = "restored" /\ failed' = failed) \/ failed' = TRUE
        /\ plan' = NoPlan /\ saved' = NoSaved /\ backup' \in BOOLEAN
        /\ expected' \in 0 .. MaxSig
        /\ UNCHANGED <<blk, live, id, tail, index, sig, source, checkpoint, commits,
                       padded, tampered>>
    BY <1>2 DEF FinishRollback, RollbackFails, FailedByRollback, Release, image, identity,
                history, TypeOK
  <2>2. failed' \in BOOLEAN /\ (failed => failed')
    BY <1>2 DEF FinishRollback, RollbackFails, FailedByRollback, TypeOK
  <2>3. TypeOK'
    BY <2>1, <2>2, EmptyType DEF TypeOK, Phases
  <2>4. Shape'
    BY <2>1, <2>2 DEF Shape, Forward
  <2>5. Content'
    BY <2>1, <2>2 DEF Content, Forward, Catalogue
  <2> QED
    BY <2>3, <2>4, <2>5
<1> QED
  BY <1>1, <1>2

\* Steps taken between mutations that leave blocks, allocation and index alone.
LEMMA QuietInv ==
  ASSUME Inv,
         phase \notin Forward \cup {"rollback", "restored"},
         phase' \in Phases \ (Forward \cup {"rollback", "restored"}),
         failed' \in BOOLEAN, failed => failed',
         tail' \in BOOLEAN, padded' \in BOOLEAN,
         expected' \in 0 .. MaxSig, source' \in Catalogues,
         checkpoint' \in {"held", "removed", "retained"},
         checkpoint' = "removed" => phase' = "closed" /\ ~failed',
         phase' = "padding" => ~failed',
         UNCHANGED <<blk, live, id, index, plan, saved, backup, sig, commits, tampered>>
  PROVE  Inv'
<1> USE DEF Inv
<1>1. TypeOK'
  BY DEF TypeOK
<1>2. Shape'
  BY DEF Shape, Forward, Phases, ClosePhases
<1>3. Content'
  BY DEF Content, Forward, Phases, ClosePhases, Catalogue
<1> QED
  BY <1>1, <1>2, <1>3

\* Failing a session or padding a DAT is quiet.
LEMMA IdleInv ==
  Inv /\ (DetectExternalChange \/ GrowthPreflightFails \/ SnapshotFails \/ PadReservedTail
          \/ PadRefused \/ Padding) => Inv'
<1> SUFFICES ASSUME Inv, DetectExternalChange \/ GrowthPreflightFails \/ SnapshotFails
                         \/ PadReservedTail \/ PadRefused \/ Padding
             PROVE  Inv'
  OBVIOUS
<1>1. /\ phase \in {"idle", "padding"} /\ phase' \in {"idle", "padding"}
      /\ UNCHANGED <<blk, live, id, index, plan, saved, backup, sig, commits, tampered,
                     source, checkpoint>>
  BY DEF DetectExternalChange, GrowthPreflightFails, SnapshotFails, PadReservedTail,
     PadRefused, Padding, PadFinish,
         PadRollback, PadRollbackFails, MayMutate, image, transaction, identity, history
<1>2. /\ failed' \in BOOLEAN /\ (failed => failed') /\ tail' \in BOOLEAN
      /\ padded' \in BOOLEAN /\ expected' \in 0 .. MaxSig
  BY DEF DetectExternalChange, GrowthPreflightFails, SnapshotFails, PadReservedTail,
     PadRefused, Padding, PadFinish,
         PadRollback, PadRollbackFails, TailAfterRollback, image, identity, history, Inv, TypeOK
<1>3. checkpoint # "removed" /\ checkpoint \in {"held", "removed", "retained"}
      /\ source \in Catalogues
  BY <1>1 DEF Inv, TypeOK, Shape
<1>4. phase' = "padding" => ~failed'
  BY DEF DetectExternalChange, GrowthPreflightFails, SnapshotFails, PadReservedTail,
     PadRefused, Padding, PadFinish,
         PadRollback, PadRollbackFails, MayMutate
<1> QED
  BY <1>1, <1>2, <1>3, <1>4, QuietInv DEF Forward, Phases

\* Closing is quiet, and removes the checkpoint only for a session that has not failed.
LEMMA CloseInv == Inv /\ (BeginClose \/ Closing) => Inv'
<1> SUFFICES ASSUME Inv, BeginClose \/ Closing PROVE Inv'
  OBVIOUS
<1>1. /\ phase \in {"idle"} \cup ClosePhases /\ phase' \in ClosePhases \cup {"closed"}
      /\ UNCHANGED <<blk, live, id, tail, index, plan, saved, backup, sig, commits, padded,
                     tampered>>
  BY DEF BeginClose, Closing, CloseSync, CloseSyncFails, CloseExport, CloseExportFails,
         CloseFinish, ExportDue, ClosePhases, image, transaction, identity, history
<1>2. /\ failed' \in BOOLEAN /\ (failed => failed') /\ expected' \in 0 .. MaxSig
      /\ checkpoint' \in {"held", "removed", "retained"}
  BY DEF BeginClose, Closing, CloseSync, CloseSyncFails, CloseExport, CloseExportFails,
         CloseFinish, identity, Inv, TypeOK
<1>3. source' \in Catalogues
  <2>1. CASE CloseExport
    <3>1. Catalogue \in [live -> Values] /\ live \in SUBSET Blocks
      BY DEF Catalogue, Inv, TypeOK
    <3> QED
      BY <2>1, <3>1, CatalogueIntro DEF CloseExport
  <2>2. CASE ~CloseExport
    BY <2>2 DEF BeginClose, Closing, CloseSync, CloseSyncFails, CloseExportFails,
                CloseFinish, Inv, TypeOK
  <2> QED
    BY <2>1, <2>2
<1>4. checkpoint' = "removed" => phase' = "closed" /\ ~failed'
  <2>1. checkpoint # "removed"
    BY <1>1 DEF Inv, Shape, ClosePhases
  <2> QED
    BY <2>1 DEF BeginClose, Closing, CloseSync, CloseSyncFails, CloseExport,
                CloseExportFails, CloseFinish, MayComplete
<1> QED
  BY <1>1, <1>2, <1>3, <1>4, QuietInv DEF Forward, Phases, ClosePhases, Inv, TypeOK

\* After a change from outside only the shape is claimed.
LEMMA ExternalInv == Inv /\ ExternalChange => Inv'
<1> SUFFICES ASSUME Inv, ExternalChange PROVE Inv'
  OBVIOUS
<1> USE DEF Inv
<1>1. UNCHANGED <<live, id, tail, index, phase, plan, saved, backup, failed, expected,
                  checkpoint, commits, padded>>
  BY DEF ExternalChange, transaction
<1>2. sig' \in 0 .. MaxSig /\ tampered' \in {"session", "close"}
  BY DEF ExternalChange, TypeOK
<1>3. blk' \in [Blocks -> Values]
  BY DEF ExternalChange, TypeOK
<1>4. source' \in Catalogues
  BY CatalogueIntro DEF ExternalChange, TypeOK
<1>5. TypeOK'
  BY <1>1, <1>2, <1>3, <1>4 DEF TypeOK
<1>6. Shape'
  BY <1>1 DEF Shape, PlanFits, Captured
<1>7. Content'
  BY <1>2 DEF Content
<1> QED
  BY <1>5, <1>6, <1>7

\* Every step keeps the invariant.
LEMMA StepInv == Inv /\ [Next]_vars => Inv'
<1> SUFFICES ASSUME Inv, [Next]_vars PROVE Inv'
  OBVIOUS
<1>1. CASE Next /\ ~Closed
  BY <1>1, OperationInv, MutateInv, AdvanceInv, CommitInv, RollbackInv, IdleInv, CloseInv,
     ExternalInv DEF Next, RunAtomic
<1>2. CASE Closed \/ UNCHANGED vars
  BY <1>2 DEF Closed, vars, Inv, TypeOK, Shape, PlanFits, Captured, Content, Undoable,
              Catalogue, Applied
<1> QED
  BY <1>1, <1>2

\* The invariant holds in every reachable state.
THEOREM Invariance == Spec => []Inv
<1> QED
  BY InitInv, StepInv, PTL DEF Spec

\* The session's state is well typed for every image and every bound.
THEOREM TypeCorrect == Spec => []TypeOK
<1>1. Inv => TypeOK
  BY DEF Inv
<1> QED
  BY <1>1, Invariance, PTL

\* Whatever step of a mutation raises, a session that has not failed describes
\* between mutations exactly what its image holds.
THEOREM IndexIsFaithful == Spec => []IndexMatchesImage
<1>1. Inv => IndexMatchesImage
  BY DEF Inv, Content, IndexMatchesImage, Settled, ClosePhases
<1> QED
  BY <1>1, Invariance, PTL

\* A failed session stays failed: it begins, commits and exports nothing more, and
\* its checkpoint stays.
THEOREM FailedStaysFailed == Spec => FailClosed
<1> DEFINE Kept == failed => /\ failed'
                             /\ phase' # "prepared"
                             /\ UNCHANGED <<index, commits, padded>>
                             /\ source' # source => tampered' # "no"
                             /\ checkpoint' # "removed"
<1>1. Inv /\ [Next]_vars => Kept
  <2> SUFFICES ASSUME Inv, [Next]_vars, failed PROVE Kept
    OBVIOUS
  <2>1. phase \notin Forward /\ phase # "padding" /\ checkpoint # "removed"
    BY DEF Inv, Shape
  <2>2. CASE RunAtomic
    BY <2>1, <2>2 DEF RunAtomic, Forward, Mutate, MutateFails, PreflightFails, AdvanceDiscId,
       FinishMutation, FinishMutationFails, Commit, CompleteFails, Restore, FinishRollback,
       RollbackFails, FailedByRollback, image, transaction, identity, history
  <2>3. CASE GrowthPreflightFails
    BY <2>1, <2>3 DEF GrowthPreflightFails, Forward, history
  <2>4. ~Operation /\ ~DetectExternalChange /\ ~SnapshotFails /\ ~PadReservedTail
        /\ ~PadRefused
    BY DEF Operation, ReplaceFile, AddObject, Remove, Rename, SetAcornMetadata,
       ApplyCatalogueRepair, Begin, MayMutate, DetectExternalChange, SnapshotFails,
       PadReservedTail, PadRefused
  <2>5. ~Padding
    BY <2>1 DEF Padding, PadFinish, PadRollback, PadRollbackFails
  <2>6. CASE ExternalChange
    BY <2>1, <2>6 DEF Forward, ExternalChange, transaction
  <2>7. CASE BeginClose \/ Closing
    BY <2>1, <2>7 DEF BeginClose, Closing, CloseSync, CloseSyncFails, CloseExport,
       CloseExportFails, CloseFinish, ExportDue, MayComplete, image, transaction, identity,
       history
  <2>8. CASE Closed \/ UNCHANGED vars
    BY <2>1, <2>8 DEF Forward, Closed, vars
  <2> QED
    BY <2>2, <2>3, <2>4, <2>5, <2>6, <2>7, <2>8 DEF Next
<1>2. Inv /\ [Next]_vars => [Kept]_vars
  BY <1>1
<1> QED
  BY <1>2, Invariance, PTL DEF Spec, FailClosed

\* What a close has published so far.
Exported ==
  Container /\ tampered = "no" /\ (phase = "exported" \/ checkpoint = "removed")
    => source = Catalogue

LEMMA ExportedInv == Spec => []Exported
<1>1. Init => Exported
  BY DEF Init, Exported
<1>2. Inv /\ Exported /\ [Next]_vars => Exported'
  <2> SUFFICES ASSUME Inv, Exported, [Next]_vars, Container, tampered' = "no",
                      phase' = "exported" \/ checkpoint' = "removed"
               PROVE  source' = Catalogue'
    BY DEF Exported
  <2>1. checkpoint = "removed" => phase = "closed"
    BY DEF Inv, Shape
  <2>2. CASE CloseExport
    BY <2>2 DEF CloseExport, Catalogue, image
  <2>3. CASE CloseFinish
    BY <2>1, <2>3 DEF CloseFinish, MayComplete, ExportDue, ClosePhases, Exported, Catalogue,
       image, history
  <2>4. CASE Closed \/ UNCHANGED vars
    BY <2>4 DEF Closed, vars, Exported, Catalogue
  <2>5. ~ExternalChange
    BY DEF ExternalChange, ClosePhases
  <2>6. phase' # "closed" /\ phase' # "exported" => checkpoint' # "removed"
    BY StepInv DEF Inv, Shape
  <2>7. ~(DetectExternalChange \/ GrowthPreflightFails \/ SnapshotFails \/ Operation
          \/ RunAtomic
          \/ PadReservedTail \/ PadRefused \/ Padding \/ BeginClose \/ CloseExportFails)
    BY <2>1, <2>6 DEF DetectExternalChange, GrowthPreflightFails, SnapshotFails,
       PadReservedTail, PadRefused,
       Padding, PadFinish, PadRollback, PadRollbackFails, MayMutate, BeginClose, CloseSync,
       CloseSyncFails, CloseExportFails, ExportDue, Operation, ReplaceFile, AddObject, Remove,
       Rename, SetAcornMetadata, ApplyCatalogueRepair, Begin, RunAtomic, Mutate, MutateFails,
       PreflightFails, AdvanceDiscId, FinishMutation, FinishMutationFails, Commit,
       CompleteFails, Restore, FinishRollback, RollbackFails
  <2> QED
    BY <2>2, <2>3, <2>4, <2>5, <2>7 DEF Next, Closing
<1> QED
  BY <1>1, <1>2, Invariance, PTL DEF Spec

\* When close() removes the checkpoint, the image and, for a container, the source
\* file hold every committed mutation.
THEOREM CleanClose == Spec => []CleanCloseIsCommitted
<1>1. Inv /\ Exported => CleanCloseIsCommitted
  BY DEF Inv, Content, Shape, Exported, CleanCloseIsCommitted, Forward
<1> QED
  BY <1>1, Invariance, ExportedInv, PTL

-----------------------------------------------------------------------------
(* _run_atomic implements AtomicImage.  `Silent` steps leave what callers   *)
(* see alone; the others are the commit, the loss of the session, what a    *)
(* failed session may still do to the image, and the two ways to close.     *)

Untouched == tampered = "no"

Silent == index' = index /\ AtRest' = AtRest /\ SessionState' = SessionState

\* A session that fails, or has failed, may leave anything in its image.
LEMMA FailImplements ==
  ASSUME Inv, Inv', failed', index' = index,
         phase # "closed", phase' # "closed"
  PROVE  Promise!Next
<1>1. AtRest' \in Catalogues
  <2>1. Catalogue' \in [live' -> Values] /\ live' \in SUBSET Blocks
    BY DEF Catalogue, Inv, TypeOK
  <2>2. Catalogue' \in Catalogues
    BY <2>1, CatalogueIntro
  <2> QED
    BY <2>2 DEF AtRest, Inv, TypeOK
<1>2. failed \in BOOLEAN
  BY DEF Inv, TypeOK
<1>3. SessionState' = "failed"
  BY DEF SessionState
<1>4. CASE failed
  BY <1>1, <1>3, <1>4 DEF Promise!Next, Promise!Decay, SessionState
<1>5. CASE ~failed
  BY <1>1, <1>3, <1>5 DEF Promise!Next, Promise!Fail, SessionState
<1> QED
  BY <1>2, <1>4, <1>5

\* Beginning a mutation changes nothing a caller can see.
LEMMA BeginSilent == Inv /\ tampered = "no" /\ (Operation \/ PadReservedTail) => Silent
<1> SUFFICES ASSUME Inv, tampered = "no", Operation \/ PadReservedTail PROVE Silent
  OBVIOUS
<1>1. /\ phase = "idle" /\ ~failed /\ phase' \in {"prepared", "padding"}
      /\ UNCHANGED <<index, failed>>
  BY DEF Operation, ReplaceFile, AddObject, Remove, Rename, SetAcornMetadata,
     ApplyCatalogueRepair, Begin, PadReservedTail, MayMutate, image
<1>2. Catalogue = index
  BY <1>1 DEF Inv, Content
<1> QED
  BY <1>1, <1>2 DEF Silent, AtRest, SessionState, Settled, ClosePhases

\* The steps of _run_atomic are silent up to the commit, which happens at once.
LEMMA RunAtomicImplements ==
  ASSUME Inv, Inv', tampered = "no", RunAtomic
  PROVE  Silent \/ Promise!Next
<1>1. CASE Mutate \/ MutateFails \/ AdvanceDiscId \/ FinishMutation \/ FinishMutationFails
           \/ CompleteFails \/ Restore
  <2>1. /\ phase \notin {"idle", "closed"} \cup ClosePhases
        /\ phase' \notin {"idle", "closed"} \cup ClosePhases
        /\ UNCHANGED <<index, failed>>
    BY <1>1 DEF Mutate, MutateFails, AdvanceDiscId, FinishMutation, FinishMutationFails,
                CompleteFails, Restore, ClosePhases, image
  <2> QED
    BY <2>1 DEF Silent, AtRest, SessionState, Settled
<1>2. CASE PreflightFails \/ RollbackFails
  <2>1. failed' /\ index' = index /\ phase # "closed" /\ phase' # "closed"
    BY <1>2 DEF PreflightFails, RollbackFails, FailedByRollback
  <2> QED
    BY <2>1, FailImplements
<1>3. CASE FinishRollback
  <2>1. /\ phase = "restored" /\ phase' = "idle"
        /\ UNCHANGED <<index, failed, blk, live, tampered>>
    BY <1>3 DEF FinishRollback, image, history
  <2>2. CASE failed
    BY <2>1, <2>2, FailImplements
  <2>3. CASE ~failed
    <3>1. Catalogue = index /\ Catalogue' = Catalogue
      BY <2>1, <2>3 DEF Inv, Content, Catalogue
    <3> QED
      BY <2>1, <3>1 DEF Silent, AtRest, SessionState, Settled, ClosePhases
  <2> QED
    BY <2>2, <2>3
<1>4. CASE Commit
  <2>1. phase = "synced" /\ phase' = "idle" /\ UNCHANGED <<failed, tampered>>
    BY <1>4 DEF Commit, history
  <2>2. ~failed
    BY <2>1 DEF Inv, Shape, Forward
  <2>3. Catalogue' = index' /\ index' \in Catalogues
    BY <2>1, <2>2 DEF Inv, Content, TypeOK
  <2>4. AtRest = index /\ AtRest' = index' /\ SessionState = "open" /\ SessionState' = "open"
    BY <2>1, <2>2, <2>3 DEF AtRest, SessionState, Settled, ClosePhases
  <2> QED
    BY <2>3, <2>4 DEF Promise!Next, Promise!Change
<1> QED
  BY <1>1, <1>2, <1>3, <1>4 DEF RunAtomic

\* Padding the tail is silent, or fails the session.
LEMMA PaddingImplements ==
  ASSUME Inv, Inv', tampered = "no", Padding
  PROVE  Silent \/ Promise!Next
<1>1. CASE PadFinish \/ PadRollback
  <2>1. /\ phase = "padding" /\ phase' = "idle" /\ ~failed
        /\ UNCHANGED <<index, failed, blk, live>>
    BY <1>1 DEF PadFinish, PadRollback, image, Inv, Shape
  <2>2. Catalogue = index /\ Catalogue' = Catalogue
    BY <2>1 DEF Inv, Content, Catalogue
  <2> QED
    BY <2>1, <2>2 DEF Silent, AtRest, SessionState, Settled, ClosePhases
<1>2. CASE PadRollbackFails
  BY <1>2, FailImplements DEF PadRollbackFails
<1> QED
  BY <1>1, <1>2 DEF Padding

\* A close is silent until it finishes, which it does clean only for an open session
\* whose image is what its callers saw.
LEMMA CloseImplements ==
  ASSUME Inv, Inv', tampered = "no", BeginClose \/ Closing
  PROVE  Silent \/ Promise!Next
<1>1. /\ phase \in {"idle"} \cup ClosePhases /\ phase' \in ClosePhases \cup {"closed"}
      /\ UNCHANGED <<blk, live, index>>
  BY DEF BeginClose, Closing, CloseSync, CloseSyncFails, CloseExport, CloseExportFails,
         CloseFinish, ExportDue, ClosePhases, image
<1>2. Catalogue' = Catalogue /\ AtRest = Catalogue /\ AtRest' = Catalogue
  BY <1>1 DEF AtRest, Catalogue, Settled, ClosePhases
<1>3. CASE CloseFinish
  <2>1. /\ phase' = "closed" /\ phase # "closed" /\ failed' = failed
        /\ SessionState' = checkpoint'
        /\ checkpoint' = IF MayComplete THEN "removed" ELSE "retained"
    BY <1>3 DEF CloseFinish, SessionState, ClosePhases
  <2>2. failed \in BOOLEAN
    BY DEF Inv, TypeOK
  <2>3. CASE MayComplete
    <3>1. ~failed /\ SessionState = "open" /\ Catalogue = index
      BY <1>1, <2>1, <2>3 DEF MayComplete, SessionState, Inv, Content, ClosePhases
    <3> QED
      BY <1>1, <1>2, <2>1, <2>3, <3>1 DEF Promise!Next, Promise!CloseClean
  <2>4. CASE ~MayComplete
    <3>1. SessionState \in {"open", "failed"}
      BY <2>1 DEF SessionState
    <3> QED
      BY <1>1, <1>2, <2>1, <2>4, <3>1 DEF Promise!Next, Promise!CloseRetained
  <2> QED
    BY <2>3, <2>4
<1>4. CASE ~CloseFinish
  <2>1. /\ phase # "closed" /\ phase' # "closed" /\ (failed' = failed \/ failed')
    BY <1>1, <1>4 DEF BeginClose, Closing, CloseSync, CloseSyncFails, CloseExport,
       CloseExportFails, ClosePhases
  <2>2. CASE failed' = failed
    BY <1>1, <1>2, <2>1, <2>2 DEF Silent, SessionState
  <2>3. CASE failed'
    BY <1>1, <2>1, <2>3, FailImplements
  <2> QED
    BY <2>1, <2>2, <2>3
<1> QED
  BY <1>3, <1>4

\* Every step of a session whose image nobody else changes is a step of AtomicImage
\* or is silent.
LEMMA StepImplements ==
  Inv /\ Inv' /\ Untouched /\ Untouched' /\ [Next]_vars => [Promise!Next]_Promise!vars
<1> SUFFICES ASSUME Inv, Inv', Untouched, Untouched', [Next]_vars PROVE Silent \/ Promise!Next
  BY DEF Silent, Promise!vars
<1>1. tampered = "no"
  BY DEF Untouched
<1>2. CASE DetectExternalChange \/ GrowthPreflightFails \/ SnapshotFails \/ PadRefused
  <2>1. failed' /\ index' = index /\ phase # "closed" /\ phase' # "closed"
    BY <1>2 DEF DetectExternalChange, GrowthPreflightFails, SnapshotFails, PadRefused, MayMutate
  <2> QED
    BY <2>1, FailImplements
<1>3. ~ExternalChange
  BY DEF ExternalChange, Untouched
<1>4. CASE Closed \/ UNCHANGED vars
  BY <1>4 DEF Closed, vars, Silent, AtRest, SessionState, Settled, Catalogue
<1> QED
  BY <1>1, <1>2, <1>3, <1>4, BeginSilent, RunAtomicImplements, PaddingImplements,
     CloseImplements DEF Next

\* As long as nobody else changes the image, every mutation happens at once or not
\* at all, or fails the session for good, and only an intact session closes clean.
THEOREM Atomicity == Spec /\ []Untouched => MutationsAreAtomic
<1>1. Init => Promise!Init
  <2> SUFFICES ASSUME Init PROVE Promise!Init
    OBVIOUS
  <2>1. AtRest = index /\ SessionState = "open"
    BY DEF Init, AtRest, SessionState, Settled
  <2>2. index \in Catalogues
    BY InitInv DEF Inv, TypeOK
  <2> QED
    BY <2>1, <2>2 DEF Promise!Init
<1> QED
  BY <1>1, StepImplements, Invariance, PTL DEF Spec, MutationsAreAtomic, Promise!Spec

-----------------------------------------------------------------------------
(* The disc cycle id.  `Count` is what the commits so far make of it.       *)

Count == commits % IdMod

Cycle ==
  OldMap =>
    /\ phase \in Forward \cup {"rollback", "restored"} => saved.id = Count
    /\ phase \in {"advanced", "synced"} => id = (commits + 1) % IdMod
    /\ phase \notin {"advanced", "synced", "rollback"} /\ ~failed => id = Count

LEMMA CycleInv == Spec => []Cycle
<1>1. Init => Cycle
  <2>1. (0 * IdMod + 0) % IdMod = 0 /\ 0 * IdMod + 0 = 0
    BY Remainder
  <2> QED
    BY <2>1 DEF Init, Cycle, Count, Forward
<1>2. Inv /\ Cycle /\ [Next]_vars => Cycle'
  <2> SUFFICES ASSUME Inv, Cycle, [Next]_vars, OldMap PROVE Cycle'
    BY DEF Cycle
  <2>1. CASE Operation
    <3>1. /\ phase = "idle" /\ ~failed /\ phase' = "prepared" /\ saved'.id = id
          /\ UNCHANGED <<id, commits, failed>>
      <4>1. PICK w, c, l : Begin(w, c, l)
        BY <2>1 DEF Operation, ReplaceFile, AddObject, Remove, Rename, SetAcornMetadata,
           ApplyCatalogueRepair
      <4>2. saved' = [blk |-> [b \in Captured(plan') |-> blk[b]], live |-> live, id |-> id]
        BY <4>1 DEF Begin, BeforeImage
      <4> QED
        BY <4>1, <4>2 DEF Begin, MayMutate, image, history
    <3> QED
      BY <3>1 DEF Cycle, Count, Forward
  <2>2. CASE AdvanceDiscId
    <3>1. /\ phase = "mutated" /\ phase' = "advanced" /\ id' = (id + 1) % IdMod
          /\ UNCHANGED <<saved, commits, failed>>
      BY <2>2 DEF AdvanceDiscId, NextDiscId, transaction, history
    <3>2. ~failed /\ id = Count
      BY <3>1 DEF Cycle, Inv, Shape, Forward
    <3>3. id' = (commits + 1) % IdMod
      <4>1. commits \in Nat
        BY DEF Inv, TypeOK
      <4>2. ((commits % IdMod) + 1) % IdMod = (commits + 1) % IdMod
        BY <4>1, ModNext
      <4> QED
        BY <3>1, <3>2, <4>2 DEF Count
    <3> QED
      BY <3>1, <3>3 DEF Cycle, Count, Forward
  <2>3. CASE Commit
    <3>1. phase = "synced" /\ phase' = "idle" /\ id' = id /\ commits' = commits + 1
      BY <2>3 DEF Commit, image
    <3> QED
      BY <3>1 DEF Cycle, Count, Forward
  <2>4. CASE Restore
    <3>1. /\ phase = "rollback" /\ phase' = "restored" /\ id' = saved.id
          /\ UNCHANGED <<saved, commits>>
      BY <2>4 DEF Restore, RestoredId, transaction, history
    <3> QED
      BY <3>1 DEF Cycle, Count, Forward
  <2>5. CASE Mutate \/ MutateFails \/ PreflightFails \/ FinishMutation \/ FinishMutationFails
             \/ CompleteFails
    <3>1. /\ phase \in Forward /\ phase' \in {"mutated", "synced", "rollback"}
          /\ phase' = "mutated" => phase = "prepared"
          /\ phase' = "synced" => phase = "advanced"
          /\ UNCHANGED <<id, saved, commits>>
          /\ phase' = "mutated" => failed' = failed
      BY <2>5 DEF Mutate, MutateFails, PreflightFails, FinishMutation, FinishMutationFails,
         CompleteFails, Forward, transaction, history, image
    <3> QED
      BY <3>1 DEF Cycle, Count, Forward
  <2>6. CASE FinishRollback \/ RollbackFails
    <3>1. /\ phase' = "idle" /\ UNCHANGED <<id, commits>>
          /\ failed' \/ (phase = "restored" /\ failed' = failed)
      BY <2>6 DEF FinishRollback, RollbackFails, FailedByRollback, history, image
    <3> QED
      BY <3>1 DEF Cycle, Count, Forward
  <2>7. CASE DetectExternalChange \/ GrowthPreflightFails \/ SnapshotFails
             \/ PadReservedTail \/ PadRefused \/ Padding
             \/ BeginClose \/ Closing
    <3>1. /\ phase \in {"idle", "padding"} \cup ClosePhases
          /\ phase' \in {"idle", "padding", "closed"} \cup ClosePhases
          /\ UNCHANGED <<id, commits>>
          /\ failed' \/ failed' = failed
      BY <2>7 DEF DetectExternalChange, GrowthPreflightFails, SnapshotFails, PadReservedTail,
         PadRefused, Padding,
         PadFinish, PadRollback, PadRollbackFails, MayMutate, BeginClose, Closing, CloseSync,
         CloseSyncFails, CloseExport, CloseExportFails, CloseFinish, ExportDue, ClosePhases,
         image, history
    <3> QED
      BY <3>1 DEF Cycle, Count, Forward, ClosePhases
  <2>8. CASE ExternalChange
    BY <2>8 DEF ExternalChange, transaction, Cycle, Count
  <2>9. CASE Closed \/ UNCHANGED vars
    BY <2>9 DEF Closed, vars, Cycle, Count
  <2> QED
    BY <2>1, <2>2, <2>3, <2>4, <2>5, <2>6, <2>7, <2>8, <2>9 DEF Next, RunAtomic
<1> QED
  BY <1>1, <1>2, Invariance, PTL DEF Spec

\* The disc cycle id of a session that has not failed counts its committed mutations,
\* modulo its width: no rolled back mutation leaves a trace in it.
THEOREM CycleIdIsFaithful == Spec => []CycleIdCountsCommits
<1>1. Cycle => CycleIdCountsCommits
  BY DEF Cycle, Count, CycleIdCountsCommits, Settled, ClosePhases
<1> QED
  BY <1>1, CycleInv, PTL

\* Where a DAT's tail stands while it is padded, and after.
Tail ==
  IF phase = "padding" THEN tail = TRUE /\ padded = FALSE ELSE ~failed => tail = padded

\* pad_reserved_tail leaves the DAT long exactly when it reported success.
THEOREM TailIsFaithful == Spec => []TailMatchesOutcome
<1>1. Init => Tail
  BY DEF Init, Tail
<1>2. Inv /\ Tail /\ [Next]_vars => Tail'
  <2> SUFFICES ASSUME Inv, Tail, [Next]_vars PROVE Tail'
    OBVIOUS
  <2>1. CASE PadReservedTail
    <3>1. phase = "idle" /\ ~failed /\ ~tail /\ tail \in BOOLEAN /\ padded \in BOOLEAN
      BY <2>1 DEF PadReservedTail, MayMutate, Inv, TypeOK
    <3>2. tail' = TRUE /\ phase' = "padding" /\ padded' = padded
      BY <2>1 DEF PadReservedTail, history
    <3> QED
      BY <3>1, <3>2 DEF Tail
  <2>2. CASE Padding
    <3>1. tail = TRUE /\ padded = FALSE /\ phase' = "idle"
      BY <2>2 DEF Padding, PadFinish, PadRollback, PadRollbackFails, Tail
    <3> QED
      BY <2>2, <3>1 DEF Padding, PadFinish, PadRollback, PadRollbackFails, TailAfterRollback,
         Tail, image, history
  <2>3. CASE ~PadReservedTail /\ ~Padding /\ ~ExternalChange /\ Next /\ ~Closed
    <3>1. /\ UNCHANGED <<tail, padded>> /\ phase # "padding" /\ phase' # "padding"
          /\ failed' \/ failed' = failed
      <4>1. CASE Operation
        <5>1. PICK w, c, l : Begin(w, c, l)
          BY <4>1 DEF Operation, ReplaceFile, AddObject, Remove, Rename, SetAcornMetadata,
             ApplyCatalogueRepair
        <5> QED
          BY <5>1 DEF Begin, MayMutate, image, history
      <4>2. CASE RunAtomic
        BY <4>2 DEF RunAtomic, Mutate, MutateFails, PreflightFails, AdvanceDiscId,
           FinishMutation, FinishMutationFails, Commit, CompleteFails, Restore, FinishRollback,
           RollbackFails, FailedByRollback, image, history
      <4>3. CASE DetectExternalChange \/ GrowthPreflightFails \/ SnapshotFails
                 \/ PadRefused \/ BeginClose \/ Closing
        BY <4>3 DEF DetectExternalChange, GrowthPreflightFails, SnapshotFails, PadRefused,
           MayMutate, BeginClose,
           Closing, CloseSync, CloseSyncFails, CloseExport, CloseExportFails, CloseFinish,
           ExportDue, ClosePhases, image, history
      <4> QED
        BY <2>3, <4>1, <4>2, <4>3 DEF Next
    <3> QED
      BY <3>1 DEF Tail
  <2>4. CASE ExternalChange
    BY <2>4 DEF ExternalChange, Tail
  <2>5. CASE Closed \/ UNCHANGED vars
    BY <2>5 DEF Closed, vars, Tail
  <2> QED
    BY <2>1, <2>2, <2>3, <2>4, <2>5
<1>3. Tail => TailMatchesOutcome
  BY DEF Tail, TailMatchesOutcome, Settled, ClosePhases
<1> QED
  BY <1>1, <1>2, <1>3, Invariance, PTL DEF Spec
=============================================================================
