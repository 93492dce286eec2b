------------------------- MODULE CommandLineProofs -------------------------
(***************************************************************************)
(* Proofs about CommandLine: a behaviour of the command line is one of each   *)
(* component, so what is proved of the components holds of it.                *)
(***************************************************************************)
EXTENDS CommandLine, IntegrityProofs, MediaProofs, TransferProofs, MountLifecycleProofs

-----------------------------------------------------------------------------
(* The command line                                                         *)

\* A behaviour of the command line is one of each of its components.
LEMMA CommandsAreComponents ==
  CommandSpec =>
    /\ MountSpec /\ PublishSpec /\ ImportSpec /\ ValidationSpec
    /\ RepairSpec /\ FloppySpec /\ HfeSpec /\ ContainerSpec
<1>1. CommandInit =>
        /\ MountInit /\ PublishInit /\ ImportInit /\ ValidationInit
        /\ RepairInit /\ FloppyInit /\ HfeInit /\ ContainerInit
  BY DEF CommandInit
<1>2. [CommandNext]_commandVars =>
        /\ [MountNext]_mountVars /\ [PublishNext]_publishVars /\ [ImportNext]_importAll
        /\ [ValidationNext]_validationVars /\ [RepairNext]_repairVars
        /\ [FloppyNext]_floppyVars /\ [HfeNext]_hfeVars /\ [ContainerNext]_containerVars
  BY DEF CommandNext, commandVars, RunsMount, RunsPublish, RunsImport, RunsValidate,
         RunsRepair, RunsFloppy, RunsHfe, RunsContainer
<1> QED
  BY <1>1, <1>2, PTL
  DEF CommandSpec, MountSpec, PublishSpec, ImportSpec, ValidationSpec, RepairSpec, FloppySpec,
      HfeSpec, ContainerSpec

\* Every command keeps its state in its type, whatever processes it meets (cli.py main).
THEOREM CommandTypesHold == CommandSpec => []CommandTypeOK
<1>1. CommandSpec => [](command \in Commands)
  <2>1. CommandInit => command \in Commands
    BY DEF CommandInit
  <2>2. command \in Commands /\ [CommandNext]_commandVars => (command \in Commands)'
    BY DEF CommandNext, commandVars
  <2> QED
    BY <2>1, <2>2, PTL DEF CommandSpec
<1>2. ValidationInv => ValidationTypeOK
  BY DEF ValidationInv
<1>3. /\ command \in Commands
      /\ MountTypeOK /\ PublishTypeOK /\ ImportTypeOK /\ ValidationTypeOK
      /\ RepairTypeOK /\ FloppyTypeOK /\ HfeTypeOK /\ ContainerTypeOK
      => CommandTypeOK
  BY DEF CommandTypeOK
<1> QED
  BY <1>1, <1>2, <1>3, CommandsAreComponents, MountTypes, PublishTypes, ImportTypes,
     ValidationInvariance, RepairTypes, FloppyTypes, HfeTypes, ContainerTypes, PTL

\* Whatever commands run, what the components promise holds: an unmount reports what
\* became of its session; two files are published or none, and survive a power loss; an
\* import is the host file of one moment; a report says what is on the disc; a repair
\* leaves a checkpoint and a true audit;
\* a floppy is the image of one moment; edits of an HFE container are kept; discs of one
\* image are apart.
THEOREM CommandsKeepTheirPromises ==
  CommandSpec => [](/\ UnmountReportsTruth /\ PublishedWhole /\ ExportSurvivesPowerLoss
                    /\ ImportIsFaithful /\ ReportIsExact
                    /\ UncheckedRepairIsRecoverable /\ AuditKeepsUp
                    /\ WrittenIsTheImage /\ SavedEditsAreKept /\ PartsAreIsolated)
BY CommandsAreComponents, UnmountReportsTruthHolds, PublishedWholeHolds,
   ExportSurvivesPowerLossHolds, ImportIsFaithfulHolds, ReportIsExactHolds,
   UncheckedRepairIsRecoverableHolds,
   AuditKeepsUpHolds, WrittenIsTheImageHolds, SavedEditsAreKeptHolds, PartsAreIsolatedHolds, PTL

\* Whatever commands run, nobody's file is replaced: not by an export or a pair, not by
\* an import (transfer.py, create.py).
THEOREM CommandsReplaceNothing == CommandSpec => OthersAreKept /\ ImportReplacesNothing
BY CommandsAreComponents, OthersAreKeptHolds, ImportReplacesNothingHolds
=============================================================================
