------------------------------ MODULE OwnWrites -----------------------------
(* What a reader may expect of a page that refreshes itself, without saying   *)
(* how: the page shows the row as it was at some time, never an older row     *)
(* than it showed before, and once it counts as up to date it shows every     *)
(* write this browser was told has been made.                                 *)
EXTENDS Naturals

VARIABLES
  rev,      \* how often the row was written
  seen,     \* how often when the page read what it shows
  owed,     \* the newest write the browser was told of
  settled   \* the page counts as up to date

seeing == <<rev, seen, owed, settled>>

Init ==
  /\ rev = 0
  /\ seen = 0
  /\ owed = 0
  /\ settled = FALSE

Write ==
  /\ rev' = rev + 1
  /\ UNCHANGED <<seen, owed, settled>>

(* The browser is told of a write of its own: the page is in doubt. *)
Tell ==
  /\ owed' \in owed .. rev
  /\ settled' = FALSE
  /\ UNCHANGED <<rev, seen>>

Doubt ==
  /\ settled' = FALSE
  /\ UNCHANGED <<rev, seen, owed>>

Look ==
  /\ seen' \in seen .. rev
  /\ seen' >= owed
  /\ settled' = TRUE
  /\ UNCHANGED <<rev, owed>>

Next == Write \/ Tell \/ Doubt \/ Look

Spec == Init /\ [][Next]_seeing

=============================================================================
