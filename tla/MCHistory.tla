----------------------------- MODULE MCHistory -----------------------------
(***************************************************************************)
(* The imports of one history alone, for TLC: a title in one part.         *)
(***************************************************************************)
EXTENDS HistoryImport

OneTitle == [t \in {"t"} |-> 1]
=============================================================================
