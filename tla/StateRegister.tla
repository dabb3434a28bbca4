--------------------------- MODULE StateRegister ---------------------------
(***************************************************************************)
(* What ezbeq promises of the state of a device: a value in memory and one *)
(* on disk.  The one on disk is replaced whole, and only by the one in     *)
(* memory, so that whoever loads it - after a crash at any moment - finds  *)
(* a state the device was really in.                                       *)
(***************************************************************************)
CONSTANTS Values,   \* states of a device: a part that is kept and one that is not
          Initial,  \* the states a device may be in that nobody has used yet
          None      \* no file, or no state loaded yet

VARIABLES memory, disk

Init == memory = None /\ disk = None

\* An operation changes the state in memory.
Change == memory # None /\ memory' \in Values /\ UNCHANGED disk

\* The state is built from what the device says and what was kept on disk.
Reload ==
  /\ \E fresh \in Initial :
       \/ memory' = fresh
       \/ disk # None /\ memory' = [fresh EXCEPT !.kept = disk.kept]
  /\ UNCHANGED disk

\* The state in memory replaces the one on disk.
Save == memory # None /\ disk' = memory /\ UNCHANGED memory

\* The process ends.
Crash == memory' = None /\ UNCHANGED disk

Next == Change \/ Reload \/ Save \/ Crash

Spec == Init /\ [][Next]_<<memory, disk>>
=============================================================================
