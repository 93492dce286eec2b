----------------------------- MODULE FloppyWrite -----------------------------
(***************************************************************************)
(* A floppy image is written to a physical disk by a Greaseweazle:           *)
(* desktop_write_floppy (desktop.py) chooses a drive and asks, write_floppy   *)
(* (greaseweazle.py) copies the image, starts gw on the copy under a          *)
(* watchdog, and reads what gw says of each track.                           *)
(*                                                                          *)
(* gw is a process of its own, modelled from what the code expects of it: it  *)
(* writes track after track, well or badly, may say that all were verified,   *)
(* and may die anywhere.  The watchdog is a thread; it may fire at any time   *)
(* until it is cancelled.  Other programs change the image; each change is   *)
(* assumed to leave a time stamp of its own.                                 *)
(***************************************************************************)
EXTENDS Naturals, Sequences, FiniteSets

CONSTANTS
  PCDrives,      \* drive names of a PC bus (A, B)
  ShugartDrives, \* drive names of a Shugart bus (0 .. 3)
  MaxTrack,      \* bound: tracks 1 .. MaxTrack
  MaxEdition,    \* bound: changes of the image by other programs
  NoDrive,       \* nothing is selected
  Old,           \* what a track of the floppy held before
  Bad            \* what a failed write leaves in a track

ASSUME FloppyAssumption ==
  /\ MaxTrack \in Nat \ {0} /\ MaxEdition \in Nat
  /\ NoDrive \notin PCDrives \cup ShugartDrives
  /\ Old \notin Nat /\ Bad \notin Nat /\ Old # Bad

Drives == PCDrives \cup ShugartDrives
Tracks == 1 .. MaxTrack

Editions == 0 .. MaxEdition
Surface == Editions \cup {Old, Bad}

VARIABLES
  floppyImage, \* the image: the edition each of its tracks is of
  edition,     \* its identity and time stamps
  wholes,      \* history: its contents since the overwrite was confirmed
  floppies,    \* the floppy in each drive
  gw,          \* the gw process: "none", "running" or "ended"
  gwTrack,     \* gw: tracks written
  gwSays,      \* gw: it has printed that all tracks are verified
  gwCode,      \* gw: it has ended with status 0
  watchdog,    \* "off", "armed" or "fired"
  wpc,         \* writer: where it is
  offered,     \* writer: the drives that answered
  drive,       \* writer: the drive selected
  statBefore,  \* writer: the stat before the copy
  snapshot,    \* writer: the tracks copied so far
  wres         \* writer: what it reported

fileVars == <<floppyImage, edition, wholes>>
gwVars == <<floppies, gw, gwTrack, gwSays, gwCode>>
writerVars == <<wpc, offered, drive, statBefore, snapshot, wres>>
floppyVars == <<fileVars, gwVars, watchdog, writerVars>>

FloppyInit ==
  /\ floppyImage = [t \in Tracks |-> 0] /\ edition = 0 /\ wholes = {}
  /\ floppies = [d \in Drives |-> [t \in Tracks |-> Old]]
  /\ gw = "none" /\ gwTrack = 0 /\ gwSays = FALSE /\ gwCode = FALSE
  /\ watchdog = "off"
  /\ wpc = "probe" /\ offered = {} /\ drive = NoDrive
  /\ statBefore = 0 /\ snapshot = <<>> /\ wres = "none"

Stage(pc) == wpc' = pc /\ wres' = wres

Result(result) == wpc' = "done" /\ wres' = result

-----------------------------------------------------------------------------
(* The dialogs                                                              *)

\* Shugart names are only tried when no drive of a PC bus answers.
Offer(answering) ==
  IF answering \cap PCDrives # {} THEN answering \cap PCDrives
  ELSE answering \cap ShugartDrives

\* gw must respond, and then a drive with an indexed floppy in it.
ProbeDrives ==
  /\ wpc = "probe"
  /\ \E answering \in SUBSET Drives :
       /\ offered' = Offer(answering)
       /\ IF offered' = {} THEN Result("failed") ELSE Stage("select")
  /\ UNCHANGED <<fileVars, gwVars, watchdog, drive, statBefore, snapshot>>

SelectDrive ==
  /\ wpc = "select"
  /\ \/ \E d \in Drives :
          IF d \in offered THEN drive' = d /\ Stage("confirm")
          ELSE drive' = drive /\ Result("failed")
     \/ drive' = drive /\ Result("cancelled")
  /\ UNCHANGED <<fileVars, gwVars, watchdog, offered, statBefore, snapshot>>

\* Then the format and gw are looked up again, and either may be refused.
ConfirmOverwrite ==
  /\ wpc = "confirm"
  /\ \/ Stage("stat") /\ wholes' = {floppyImage}
     \/ \E result \in {"cancelled", "failed"} : Result(result) /\ wholes' = wholes
  /\ UNCHANGED <<floppyImage, edition, gwVars, watchdog, offered, drive, statBefore, snapshot>>

-----------------------------------------------------------------------------
(* write_floppy                                                             *)

StatImage ==
  /\ wpc = "stat" /\ Stage("copy")
  /\ statBefore' = edition
  /\ UNCHANGED <<fileVars, gwVars, watchdog, offered, drive, snapshot>>

CopyTrack ==
  /\ wpc = "copy" /\ Len(snapshot) < MaxTrack
  /\ snapshot' = Append(snapshot, floppyImage[Len(snapshot) + 1])
  /\ UNCHANGED <<fileVars, gwVars, watchdog, wpc, offered, drive, statBefore, wres>>

MutantStable == Len(snapshot) = MaxTrack

\* Identity, size and time stamp of the path are those from before the copy.
Stable == edition = statBefore

CompareStat ==
  /\ wpc = "copy" /\ Len(snapshot) = MaxTrack
  /\ IF Stable THEN Stage("start") ELSE Result("failed")
  /\ UNCHANGED <<fileVars, gwVars, watchdog, offered, drive, statBefore, snapshot>>

StartGw ==
  /\ wpc = "start"
  /\ \/ gw' = "running" /\ watchdog' = "armed" /\ Stage("reading")
     \/ Result("failed") /\ UNCHANGED <<gw, watchdog>>
  /\ UNCHANGED <<fileVars, floppies, gwTrack, gwSays, gwCode, offered, drive,
                 statBefore, snapshot>>

\* The output ends, and is waited for.
AwaitGw ==
  /\ wpc = "reading" /\ gw = "ended"
  /\ Stage("cancel")
  /\ UNCHANGED <<fileVars, gwVars, watchdog, offered, drive, statBefore, snapshot>>

\* An interrupt, or the progress window: terminate, wait for 5 s, and raise.
InterruptWrite ==
  /\ wpc = "reading" /\ Stage("interrupted")
  /\ UNCHANGED <<fileVars, gwVars, watchdog, offered, drive, statBefore, snapshot>>

\* finally: a watchdog that has fired stays fired.
CancelWatchdog ==
  /\ wpc \in {"cancel", "interrupted"}
  /\ watchdog' = IF watchdog = "armed" THEN "off" ELSE watchdog
  /\ IF wpc = "cancel" THEN Stage("judge") ELSE Result("interrupted")
  /\ UNCHANGED <<fileVars, gwVars, offered, drive, statBefore, snapshot>>

\* verified was set by a line of the output.
Verdict ==
  IF watchdog = "fired" \/ ~gwCode \/ ~gwSays THEN "failed" ELSE "written"

JudgeWrite ==
  /\ wpc = "judge" /\ Result(Verdict)
  /\ UNCHANGED <<fileVars, gwVars, watchdog, offered, drive, statBefore, snapshot>>

-----------------------------------------------------------------------------
(* The watchdog, gw and the other programs                                  *)

\* stop_timed_out_write: gw is sent SIGTERM, and may die of it or be ended by now.
WatchdogFires ==
  /\ watchdog = "armed" /\ watchdog' = "fired"
  /\ UNCHANGED <<fileVars, gwVars, writerVars>>

GwWrites ==
  /\ gw = "running" /\ gwTrack < MaxTrack
  /\ gwTrack' = gwTrack + 1
  /\ floppies' \in {[floppies EXCEPT ![drive][gwTrack + 1] = x] :
                      x \in {snapshot[gwTrack + 1], Bad}}
  /\ UNCHANGED <<fileVars, gw, gwSays, gwCode, watchdog, writerVars>>

\* A track that does not read back is written again.
GwRetries ==
  /\ gw = "running"
  /\ \E t \in 1 .. gwTrack :
       /\ floppies[drive][t] = Bad
       /\ floppies' = [floppies EXCEPT ![drive][t] = snapshot[t]]
  /\ UNCHANGED <<fileVars, gw, gwTrack, gwSays, gwCode, watchdog, writerVars>>

\* Some formats are written and never verified.
GwConfirms ==
  /\ gw = "running" /\ ~gwSays
  /\ gwTrack = MaxTrack /\ \A t \in Tracks : floppies[drive][t] # Bad
  /\ gwSays' = TRUE
  /\ UNCHANGED <<fileVars, floppies, gw, gwTrack, gwCode, watchdog, writerVars>>

GwEnds ==
  /\ gw = "running" /\ gw' = "ended"
  /\ gwCode' \in {FALSE, gwTrack = MaxTrack}
  /\ UNCHANGED <<fileVars, floppies, gwTrack, gwSays, watchdog, writerVars>>

\* One track in place, or another file at the path.
ImageChanges ==
  /\ edition < MaxEdition /\ edition' = edition + 1
  /\ \/ \E t \in Tracks : floppyImage' = [floppyImage EXCEPT ![t] = edition + 1]
     \/ floppyImage' = [t \in Tracks |-> edition + 1]
  /\ wholes' = IF wpc \in {"stat", "copy"} THEN wholes \cup {floppyImage'} ELSE wholes
  /\ UNCHANGED <<gwVars, watchdog, writerVars>>

FloppyNext ==
  \/ ProbeDrives \/ SelectDrive \/ ConfirmOverwrite
  \/ StatImage \/ CopyTrack \/ CompareStat \/ StartGw
  \/ AwaitGw \/ InterruptWrite \/ CancelWatchdog \/ JudgeWrite
  \/ WatchdogFires
  \/ GwWrites \/ GwRetries \/ GwConfirms \/ GwEnds
  \/ ImageChanges

FloppySpec == FloppyInit /\ [][FloppyNext]_floppyVars

-----------------------------------------------------------------------------
\* Type invariant of the image, the floppies, gw and the writer.
FloppyTypeOK ==
  /\ floppyImage \in [Tracks -> Editions] /\ edition \in Editions
  /\ wholes \in SUBSET [Tracks -> Editions]
  /\ floppies \in [Drives -> [Tracks -> Surface]]
  /\ gw \in {"none", "running", "ended"} /\ gwTrack \in 0 .. MaxTrack
  /\ gwSays \in BOOLEAN /\ gwCode \in BOOLEAN
  /\ watchdog \in {"off", "armed", "fired"}
  /\ wpc \in {"probe", "select", "confirm", "stat", "copy", "start", "reading", "cancel",
              "interrupted", "judge", "done"}
  /\ offered \in SUBSET Drives /\ drive \in Drives \cup {NoDrive}
  /\ statBefore \in Editions /\ snapshot \in Seq(Editions)
  /\ wres \in {"none", "failed", "cancelled", "interrupted", "written"}

\* "Greaseweazle wrote and verified" is only said when the floppy of the selected
\* drive holds, track by track, the image as it was at one moment after the overwrite
\* was confirmed, gw has ended and the watchdog did not stop it; no other floppy is
\* touched, and none at all before a confirmation (greaseweazle.py write_floppy).
WrittenIsTheImage ==
  /\ wres = "written" =>
       floppies[drive] \in wholes /\ gw = "ended" /\ watchdog = "off"
  /\ \A d \in Drives : (\E t \in Tracks : floppies[d][t] # Old) =>
       d = drive /\ d \in offered /\ wholes # {}
=============================================================================
