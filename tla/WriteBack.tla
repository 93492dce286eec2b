------------------------------ MODULE WriteBack ------------------------------
(***************************************************************************)
(* What a writable mount promises whoever uses its files: a request changes *)
(* one file at once or not at all, what the image stores of a file only     *)
(* follows what was made of it, a mount that has failed stores nothing      *)
(* more, and one that ends clean has stored everything.                     *)
(***************************************************************************)
CONSTANTS
  Names,
  Files,
  Nodes,  \* what a file can be: a record with its kind (dir), data and attributes
  None    \* no file

VARIABLES
  names,    \* name -> file
  current,  \* file -> what was made of it
  stored,   \* file -> what the image holds of it
  state     \* "mounted", "failed", "clean" or "kept" (ended with its checkpoint)

vars == <<names, current, stored, state>>

Init ==
  /\ names \in [Names -> Files \cup {None}]
  /\ current \in [Files -> Nodes \cup {None}] /\ stored = current
  /\ state = "mounted"

Mounted == state = "mounted" /\ state' = state

\* Whatever a request leaves may be that the mount has failed.
MayFail == state \in {"mounted", "failed"} /\ state' \in {state, "failed"}

\* What storing the data, the attributes, both or nothing of a file leaves.
Stores(s, c) == {s, c, [s EXCEPT !.data = c.data], [c EXCEPT !.data = s.data]}

\* One file is changed.
Changes(i) ==
  /\ current[i] # None
  /\ \E n \in Nodes : n.dir = current[i].dir /\ current' = [current EXCEPT ![i] = n]

Accept(i) ==
  /\ MayFail
  /\ UNCHANGED <<names, stored>>
  /\ Changes(i)

Truncate(i) ==
  /\ Mounted
  /\ names' = names
  /\ Changes(i)
  /\ stored' = [stored EXCEPT ![i].data = current'[i].data]

Commit(i) ==
  /\ state = "mounted" /\ MayFail /\ current[i] # None
  /\ UNCHANGED <<names, current>>
  /\ \E n \in Stores(stored[i], current[i]) : stored' = [stored EXCEPT ![i] = n]

Add(name, i) ==
  /\ Mounted /\ names[name] = None /\ current[i] = None
  /\ names' = [names EXCEPT ![name] = i]
  /\ \E n \in Nodes : /\ stored' = [stored EXCEPT ![i] = n]
                      /\ current' = [current EXCEPT ![i] = n]

Remove(name) ==
  /\ Mounted /\ names[name] # None
  /\ names' = [names EXCEPT ![name] = None]
  /\ stored' = [stored EXCEPT ![names[name]] = None]
  /\ current' = [current EXCEPT ![names[name]] = None]

\* A file that had the new name is gone; the attributes of the one that moves are stored.
Move(old, new) ==
  /\ Mounted /\ old # new /\ names[old] # None
  /\ names' = [names EXCEPT ![old] = None, ![new] = names[old]]
  /\ current' = [i \in Files |-> IF i = names[new] THEN None ELSE current[i]]
  /\ \E n \in Stores(stored[names[old]], current[names[old]]) :
       stored' = [i \in Files |-> CASE i = names[old] -> n
                                    [] i = names[new] -> None
                                    [] OTHER -> stored[i]]

\* A request that fails may change nothing and fail the mount.
Fail ==
  /\ state = "mounted" /\ state' = "failed"
  /\ UNCHANGED <<names, current, stored>>

CloseClean ==
  /\ state = "mounted" /\ stored = current
  /\ state' = "clean"
  /\ UNCHANGED <<names, current, stored>>

Keep ==
  /\ state \in {"mounted", "failed"}
  /\ state' = "kept"
  /\ UNCHANGED <<names, current, stored>>

Next ==
  \/ \E i \in Files : Accept(i) \/ Truncate(i) \/ Commit(i) \/ \E name \in Names : Add(name, i)
  \/ \E name \in Names : Remove(name) \/ \E new \in Names : Move(name, new)
  \/ Fail \/ CloseClean \/ Keep

Spec == Init /\ [][Next]_vars
=============================================================================
