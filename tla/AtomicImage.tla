----------------------------- MODULE AtomicImage -----------------------------
(***************************************************************************)
(* What a writable image promises its callers: a mutation happens at once   *)
(* or not at all, a session that cannot keep that promise says so for good, *)
(* and only a session that kept it closes clean.                            *)
(***************************************************************************)
EXTENDS Naturals

CONSTANT Contents   \* everything an image can hold

VARIABLES
  visible,  \* what callers read through the index
  disc,     \* what the image holds between calls
  state     \* "open", "failed", "removed" (closed clean) or "retained"

vars == <<visible, disc, state>>

Init ==
  /\ visible \in Contents /\ disc = visible
  /\ state = "open"

Change ==
  /\ state = "open" /\ disc = visible
  /\ visible' \in Contents /\ disc' = visible'
  /\ state' = state

Fail ==
  /\ state = "open"
  /\ state' = "failed"
  /\ disc' \in Contents /\ visible' = visible

Decay ==
  /\ state = "failed"
  /\ disc' \in Contents
  /\ UNCHANGED <<visible, state>>

CloseClean ==
  /\ state = "open" /\ disc = visible
  /\ state' = "removed"
  /\ UNCHANGED <<visible, disc>>

CloseRetained ==
  /\ state \in {"open", "failed"}
  /\ state' = "retained"
  /\ UNCHANGED <<visible, disc>>

Next == Change \/ Fail \/ Decay \/ CloseClean \/ CloseRetained

Spec == Init /\ [][Next]_vars
=============================================================================
