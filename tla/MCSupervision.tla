----------------------------- MODULE MCSupervision -----------------------------
(***************************************************************************)
(* Combinations of faults for Supervision.                                  *)
(***************************************************************************)
EXTENDS Supervision

\* In these the controller is to open the contactors before the supervisor.
ToleratedFaults ==
  {{"low", "link", "reset"}, {"hang", "reset"}, {"crc", "link"}}

\* In these it need not: a cell that flaps between out of range and in range
\* while the reads have CRC errors, and a missing cell, of which it knows nothing.
AllFaults == ToleratedFaults \union {{"low", "crc"}, {"missing", "link"}}

\* For the two disagreements.
MissingCell == {{"missing"}}
LowAndLink == {{"low", "link"}}

================================================================================
