------------------------------ MODULE Publish ------------------------------
(***************************************************************************)
(* Publication of two host files without an overwrite: export_file          *)
(* (core/transfer.py), the data and its INF sidecar, and                    *)
(* create_beebscsi_image (core/create.py), the DAT and its DSC descriptor.  *)
(*                                                                          *)
(* Publishers are processes in one directory whose target names may agree,  *)
(* or differ in case only.  Each prepares its two files under temporary     *)
(* names, hard-links them to the targets one after the other, syncs the     *)
(* directory, and undoes its links when a step fails.  Other programs       *)
(* create files; they are assumed not to replace or remove what is there.   *)
(***************************************************************************)
EXTENDS Integers, Sequences, FiniteSets

CONSTANTS
  Publishers, \* processes, each runs one export or one creation
  Spellings,  \* the ways to write the target's stem that differ in case only
  NoFile,     \* nothing is at a name
  Other,      \* a file some other program has put there
  MaxOther    \* bound: files the other programs create

ASSUME PublishAssumption ==
  /\ MaxOther \in Nat
  /\ NoFile \notin Publishers /\ Other \notin Publishers /\ NoFile # Other

Kinds == {"export", "create"}

\* An export foo.dat with its foo.dat.inf and the creation of foo.dat and foo.dsc
\* share the data name only.
Parts == {"data", "inf", "dsc"}

Names == Parts \X Spellings

VARIABLES
  kind,     \* publisher: export or creation
  stem,     \* publisher: the spelling of its target
  ppc,      \* publisher: where it is
  at,       \* publisher: the part it works on, 1 or 2
  temps,    \* publisher: parts whose temporary name exists
  synced,   \* publisher: parts whose content an fsync has made durable
  links,    \* publisher: its list of published names
  pres,     \* publisher: how it ended
  host,     \* whose file is at each name
  durable   \* whose file was there at the last sync of the directory

publisherVars == <<ppc, at, temps, synced, links, pres>>
hostVars == <<host, durable>>
publishVars == <<kind, stem, publisherVars, hostVars>>

Part(p, n) == IF n = 1 THEN "data" ELSE IF kind[p] = "export" THEN "inf" ELSE "dsc"

Target(p, n) == <<Part(p, n), stem[p]>>

Ours(p) == {n \in {1, 2} : host[Target(p, n)] = p}

-----------------------------------------------------------------------------
PublishInit ==
  /\ kind \in [Publishers -> Kinds]
  /\ stem \in [Publishers -> Spellings]
  /\ ppc = [p \in Publishers |-> "check"]
  /\ at = [p \in Publishers |-> 1]
  /\ temps = [p \in Publishers |-> {}]
  /\ synced = [p \in Publishers |-> {}]
  /\ links = [p \in Publishers |-> <<>>]
  /\ pres = [p \in Publishers |-> "none"]
  /\ host = [n \in Names |-> NoFile]
  /\ durable = host

GoOn(p, pc, n) == ppc' = [ppc EXCEPT ![p] = pc] /\ at' = [at EXCEPT ![p] = n]

Ends(p, pc, result) ==
  /\ GoOn(p, pc, 1)
  /\ pres' = [pres EXCEPT ![p] = result]
  /\ links' = [links EXCEPT ![p] = <<>>]

\* A name that differs in case only is a collision too.
Collides(p) ==
  \E n \in {1, 2}, s \in Spellings : host[<<Part(p, n), s>>] # NoFile

CollisionCheck(p) ==
  /\ ppc[p] = "check"
  /\ IF Collides(p) THEN Ends(p, "done", "refused")
     ELSE GoOn(p, "prepare", 1) /\ UNCHANGED <<pres, links>>
  /\ UNCHANGED <<kind, stem, temps, synced, hostVars>>

MutantSyncs(p) == FALSE

\* The export flushes and syncs each temporary file before the next step; the
\* engine's files are closed, and read back by the validation, with no fsync.
Syncs(p) == kind[p] = "export"

\* Reading the image, writing, or validating the new pair may fail at either part.
WriteTemporary(p) ==
  /\ ppc[p] = "prepare"
  /\ \/ /\ temps' = [temps EXCEPT ![p] = @ \cup {at[p]}]
        /\ synced' = IF Syncs(p) THEN [synced EXCEPT ![p] = @ \cup {at[p]}] ELSE synced
        /\ IF at[p] = 1 THEN GoOn(p, "prepare", 2) ELSE GoOn(p, "link", 1)
        /\ UNCHANGED <<pres, links>>
     \/ /\ Ends(p, "clean", "failed") /\ synced' = synced
        /\ \E made \in BOOLEAN :
             temps' = IF made THEN [temps EXCEPT ![p] = @ \cup {at[p]}] ELSE temps
  /\ UNCHANGED <<kind, stem, hostVars>>

MutantFree(n) == TRUE

\* link(2) fails with EEXIST rather than replace a file.
Free(n) == host[n] = NoFile

LinkTarget(p) ==
  /\ ppc[p] = "link"
  /\ \/ /\ Free(Target(p, at[p]))
        /\ host' = [host EXCEPT ![Target(p, at[p])] = p]
        /\ links' = [links EXCEPT ![p] = Append(@, Target(p, at[p]))]
        /\ IF at[p] = 1 THEN GoOn(p, "link", 2) ELSE GoOn(p, "sync", 1)
     \/ GoOn(p, "undo", 1) /\ UNCHANGED <<host, links>>
  /\ UNCHANGED <<kind, stem, temps, synced, pres, durable>>

SyncDirectory(p) ==
  /\ ppc[p] = "sync"
  /\ \/ durable' = host /\ Ends(p, "clean", "published")
     \/ durable' = durable /\ GoOn(p, "undo", 1) /\ UNCHANGED <<pres, links>>
  /\ UNCHANGED <<kind, stem, temps, synced, host>>

MutantUndone(p) == links[p] = <<>> \/ Len(links[p]) = 1

Undone(p) == links[p] = <<>>

\* The names go one by one, then the directory is synced, or that fails too.
Undo(p) ==
  /\ ppc[p] = "undo"
  /\ \/ /\ ~Undone(p)
        /\ host' = [host EXCEPT ![Head(links[p])] = NoFile]
        /\ links' = [links EXCEPT ![p] = Tail(@)]
        /\ UNCHANGED <<ppc, at, pres, durable>>
     \/ /\ Undone(p)
        /\ durable' \in {durable, host}
        /\ Ends(p, "clean", "failed")
        /\ host' = host
  /\ UNCHANGED <<kind, stem, temps, synced>>

\* SIGINT is no OSError: no link is undone, but the finally block still runs.
Interrupted(p) ==
  /\ ppc[p] \in {"prepare", "link", "sync", "undo"}
  /\ Ends(p, "clean", "interrupted")
  /\ UNCHANGED <<kind, stem, temps, synced, hostVars>>

Cleaned(p) == temps[p] = {}

\* finally: the temporary names go, the data's first.
CleanUp(p) ==
  /\ ppc[p] = "clean"
  /\ \/ ~Cleaned(p) /\ temps' = [temps EXCEPT ![p] = IF 1 \in @ THEN @ \ {1} ELSE {}]
        /\ UNCHANGED ppc
     \/ /\ Cleaned(p) /\ temps' = temps
        /\ ppc' = [ppc EXCEPT ![p] =
                     IF kind[p] = "create" /\ pres[p] = "published"
                     THEN "confirm" ELSE "done"]
  /\ UNCHANGED <<kind, stem, at, synced, links, pres, hostVars>>

\* discover_pair wants exactly one DAT and one DSC whatever their case.
Confirm(p) ==
  /\ ppc[p] = "confirm"
  /\ Ends(p, "done", IF \A n \in {1, 2}, s \in Spellings \ {stem[p]} :
                          host[<<Part(p, n), s>>] = NoFile
                     THEN "published" ELSE "ambiguous")
  /\ UNCHANGED <<kind, stem, temps, synced, hostVars>>

-----------------------------------------------------------------------------
OtherProgram(n) ==
  /\ host[n] = NoFile
  /\ Cardinality({m \in Names : host[m] = Other}) < MaxOther
  /\ host' = [host EXCEPT ![n] = Other]
  /\ UNCHANGED <<kind, stem, publisherVars, durable>>

\* A publisher that is killed takes no further step.
PublisherStep(p) ==
  \/ CollisionCheck(p) \/ WriteTemporary(p) \/ LinkTarget(p) \/ SyncDirectory(p)
  \/ Undo(p) \/ CleanUp(p) \/ Confirm(p)
  \/ Interrupted(p)

PublishNext ==
  \/ \E p \in Publishers : PublisherStep(p)
  \/ \E n \in Names : OtherProgram(n)

PublishSpec == PublishInit /\ [][PublishNext]_publishVars

-----------------------------------------------------------------------------
\* Type invariant of the publishers and the directory.
PublishTypeOK ==
  /\ kind \in [Publishers -> Kinds]
  /\ stem \in [Publishers -> Spellings]
  /\ ppc \in [Publishers -> {"check", "prepare", "link", "sync", "undo", "clean",
                             "confirm", "done"}]
  /\ at \in [Publishers -> {1, 2}]
  /\ temps \in [Publishers -> SUBSET {1, 2}]
  /\ synced \in [Publishers -> SUBSET {1, 2}]
  /\ links \in [Publishers -> Seq(Names)]
  /\ pres \in [Publishers -> {"none", "refused", "failed", "interrupted", "published",
                              "ambiguous"}]
  /\ host \in [Names -> Publishers \cup {NoFile, Other}]
  /\ durable \in [Names -> Publishers \cup {NoFile, Other}]

\* docs/architecture.md promises that a failure publishing either member removes any
\* published member and all temporary files: a publisher that returns has both its
\* files at their names when it succeeds and none when it fails, and no temporary
\* name is left, whoever else publishes at the same names.
PublishedWhole ==
  \A p \in Publishers : ppc[p] = "done" =>
    /\ pres[p] \in {"published", "ambiguous"} => Ours(p) = {1, 2}
    /\ pres[p] \in {"refused", "failed"} => Ours(p) = {}
    /\ temps[p] = {}

\* Nobody's file is replaced, and none is removed but by the undo of the publisher
\* whose own link it is (transfer.py, create.py: create-only hard links).
OthersAreKept ==
  [][\A n \in Names :
       host[n] # NoFile /\ host'[n] # host[n] =>
         /\ host'[n] = NoFile
         /\ host[n] \in Publishers /\ ppc[host[n]] = "undo"]_publishVars

\* What a power loss may leave at a name: the entry of now, or of the last sync.  (An
\* entry in between was a link, with the same content, that an undo has removed.)
AfterPowerLoss(n) == {host[n], durable[n]}

\* A power loss neither takes a finished export away nor shows an export's name with
\* a content that was never synced: each file is synced before its link, and the
\* directory before success is reported (transfer.py).
ExportSurvivesPowerLoss ==
  \A p \in Publishers, n \in {1, 2} : kind[p] = "export" =>
    /\ pres[p] = "published" => AfterPowerLoss(Target(p, n)) = {p}
    /\ p \in AfterPowerLoss(Target(p, n)) => n \in synced[p]
=============================================================================
