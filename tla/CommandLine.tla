----------------------------- MODULE CommandLine -----------------------------
(***************************************************************************)
(* The commands of acornfs (cli.py main), each with the processes it meets:  *)
(* main runs one handler, and the handlers share no state but the images,    *)
(* which each component's module has as variables of its own.  A behaviour   *)
(* is therefore one component's behaviour, and the others stay as they are.  *)
(*                                                                          *)
(* mount and unmount are MountLifecycle; export-file and create-beebscsi     *)
(* Publish; import-file HostImport; validate Validation; repair Repair;      *)
(* desktop-write-floppy FloppyWrite; a mount of an HFE container or of an    *)
(* image of several discs also HfeContainer or Containers.                   *)
(***************************************************************************)
EXTENDS MountLifecycle, Publish, HostImport, Validation, Repair, FloppyWrite,
        HfeContainer, Containers

VARIABLE command \* the component whose commands are run

commandVars ==
  <<command, mountVars, publishVars, importAll, validationVars, repairVars, floppyVars,
    hfeVars, containerVars>>

Commands ==
  {"mount", "publish", "import", "validate", "repair", "floppy", "hfe", "container"}

\* Where a component has several initial states, the one it keeps when it is not run.
AtRest ==
  /\ \/ command = "publish"
     \/ /\ kind = [p \in Publishers |-> "export"]
        /\ stem = [p \in Publishers |-> CHOOSE s \in Spellings : TRUE]
  /\ command = "import" \/ (source = <<>> /\ entry = Nobody)
  /\ command = "validate" \/ sizes = CHOOSE z \in Sizes : TRUE
  /\ command = "repair" \/ (flaws = {} /\ pending = FALSE)
  /\ command = "hfe" \/ hrw = [s \in Sessions |-> FALSE]

CommandInit ==
  /\ command \in Commands /\ AtRest
  /\ MountInit /\ PublishInit /\ ImportInit /\ ValidationInit /\ RepairInit
  /\ FloppyInit /\ HfeInit /\ ContainerInit

\* Handlers of main: one component's steps leave the others alone.
RunsMount ==
  /\ command = "mount" /\ MountNext
  /\ UNCHANGED <<publishVars, importAll, validationVars, repairVars, floppyVars, hfeVars,
                 containerVars>>

RunsPublish ==
  /\ command = "publish" /\ PublishNext
  /\ UNCHANGED <<mountVars, importAll, validationVars, repairVars, floppyVars, hfeVars,
                 containerVars>>

RunsImport ==
  /\ command = "import" /\ ImportNext
  /\ UNCHANGED <<mountVars, publishVars, validationVars, repairVars, floppyVars, hfeVars,
                 containerVars>>

RunsValidate ==
  /\ command = "validate" /\ ValidationNext
  /\ UNCHANGED <<mountVars, publishVars, importAll, repairVars, floppyVars, hfeVars,
                 containerVars>>

RunsRepair ==
  /\ command = "repair" /\ RepairNext
  /\ UNCHANGED <<mountVars, publishVars, importAll, validationVars, floppyVars, hfeVars,
                 containerVars>>

RunsFloppy ==
  /\ command = "floppy" /\ FloppyNext
  /\ UNCHANGED <<mountVars, publishVars, importAll, validationVars, repairVars, hfeVars,
                 containerVars>>

RunsHfe ==
  /\ command = "hfe" /\ HfeNext
  /\ UNCHANGED <<mountVars, publishVars, importAll, validationVars, repairVars, floppyVars,
                 containerVars>>

RunsContainer ==
  /\ command = "container" /\ ContainerNext
  /\ UNCHANGED <<mountVars, publishVars, importAll, validationVars, repairVars, floppyVars,
                 hfeVars>>

CommandNext ==
  /\ UNCHANGED command
  /\ \/ RunsMount \/ RunsPublish \/ RunsImport \/ RunsValidate \/ RunsRepair
     \/ RunsFloppy \/ RunsHfe \/ RunsContainer

CommandSpec == CommandInit /\ [][CommandNext]_commandVars

-----------------------------------------------------------------------------
\* Type invariant of the component that runs; the others are as they began.
CommandTypeOK ==
  /\ command \in Commands
  /\ command = "mount" => MountTypeOK
  /\ command = "publish" => PublishTypeOK
  /\ command = "import" => ImportTypeOK
  /\ command = "validate" => ValidationTypeOK
  /\ command = "repair" => RepairTypeOK
  /\ command = "floppy" => FloppyTypeOK
  /\ command = "hfe" => HfeTypeOK
  /\ command = "container" => ContainerTypeOK
=============================================================================
