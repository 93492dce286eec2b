---------------------------- MODULE MCCommandLine ----------------------------
(***************************************************************************)
(* A view of CommandLine for the model checker.  The components that do not *)
(* run keep their first state, so the one that runs tells states apart.  Of *)
(* a session on an HFE container that is over, no step and no property      *)
(* reads what it had decoded or expected, and once a new container is being *)
(* encoded the expected signature is not compared again.                    *)
(***************************************************************************)
EXTENDS CommandLine

\* The equality has TLC evaluate the first states in full, of which the view reads a
\* part.
ViewedInit == CommandInit /\ commandVars = commandVars

\* CommandSpec.
ViewedSpec == ViewedInit /\ [][CommandNext]_commandVars

Runs(c, vars) == IF command = c THEN vars ELSE <<>>

OfSession(s) ==
  CASE hpc[s] = "over" -> <<>>
    [] hpc[s] \in {"encoding", "replaced", "released"} -> <<hrw[s], sourceSig[s], work[s]>>
    [] OTHER -> <<hrw[s], sourceSig[s], work[s], expected[s]>>

RunningView ==
  <<command, Runs("mount", mountVars), Runs("publish", publishVars),
    Runs("import", importAll), Runs("validate", validationVars),
    Runs("repair", repairVars), Runs("floppy", floppyVars),
    Runs("hfe", <<box, checkpointVars, hpc, held, kept, [s \in Sessions |-> OfSession(s)]>>),
    Runs("container", containerVars)>>
=============================================================================
