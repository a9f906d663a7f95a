--------------------------- MODULE MCRecordWindow ---------------------------
(* Instances of RecordWindow for TLC: fields of one or two characters.     *)
EXTENDS RecordWindow
=============================================================================
