---------------------------- MODULE AtomicStore -----------------------------
(***************************************************************************)
(* What the settings store promises: the file holds whole settings at any  *)
(* time, and memory takes nothing but what the file holds.  While updates  *)
(* overlap it promises nothing; but the next update that runs alone, and   *)
(* the next start, make file and memory agree again.                       *)
(***************************************************************************)
CONSTANTS Settings, Initial, Missing, Down

VARIABLES
  disk,        \* settings, or Missing
  memory,      \* settings, or Down while the process does not run
  overlapped   \* updates have overlapped, and nothing has put it right yet

vars == <<disk, memory, overlapped>>

\* What a start makes of the file; without one it starts with Initial.
Loaded(content) == IF content = Missing THEN Initial ELSE content

Init ==
  /\ disk \in Settings \cup {Missing}
  /\ memory = Down
  /\ overlapped = FALSE

\* The file is replaced whole; the caller may see an error all the same.
Store == disk' \in Settings /\ UNCHANGED memory
Adopt == memory # Down /\ memory' = disk /\ UNCHANGED disk
Stop  == memory' = Down /\ UNCHANGED disk
Start == memory = Down /\ memory' = Loaded(disk) /\ UNCHANGED disk

Next ==
  \/ overlapped'
  \/ ~overlapped /\ ~overlapped' /\ (Store \/ Adopt \/ Stop \/ Start)
  \/ overlapped /\ ~overlapped' /\ memory' = Loaded(disk') /\ UNCHANGED disk

Spec == Init /\ [][Next]_vars
=============================================================================
