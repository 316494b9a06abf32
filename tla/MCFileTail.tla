----------------------------- MODULE MCFileTail -----------------------------
(***************************************************************************)
(* The hour files of one day, and hour files across a change of day.       *)
(***************************************************************************)
EXTENDS FileTail

MCSameDay == [f \in Files |-> 1]
MCNewDays == [f \in Files |-> f]
=============================================================================
