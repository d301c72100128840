------------------------- MODULE PositionLifecycle -------------------------
(***************************************************************************)
(* What an open position promises to the rest of the system, whatever the  *)
(* exit rules do in detail: at every moment its final result is confined   *)
(* to a bracket [floor, ceiling]; bars may only narrow the bracket; the    *)
(* position closes inside the bracket, by the last bar at the latest.      *)
(* Results are in hundredths of the initial risk R times the ticks of R.   *)
(* Module ExitLadder implements it.                                        *)
(***************************************************************************)
EXTENDS Integers

CONSTANTS
  WorstCase,  \* result of a full position closed at its first stop
  BestCase,   \* result of a full position closed at its target
  LastBar     \* bars after which an open position must be closed

VARIABLES status, age, floor, ceiling, result

vars == <<status, age, floor, ceiling, result>>

Init ==
  /\ status = "open"
  /\ age = 0
  /\ floor \in WorstCase..BestCase /\ ceiling \in floor..BestCase
  /\ result = 0

Narrows == floor' \in floor..ceiling /\ ceiling' \in floor'..ceiling

\* A bar that leaves the position open.
Hold ==
  /\ status = "open" /\ age < LastBar
  /\ Narrows
  /\ age' = age + 1
  /\ UNCHANGED <<status, result>>

\* A bar that closes it.
Close ==
  /\ status = "open"
  /\ Narrows
  /\ result' \in floor'..ceiling'
  /\ status' = "closed"
  /\ UNCHANGED age

Next == Hold \/ Close

Spec == Init /\ [][Next]_vars
=============================================================================
