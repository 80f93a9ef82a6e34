---------------------------- MODULE MCNoteExport ----------------------------
(* NoteExport with interchangeable executions.                             *)
EXTENDS NoteExport, TLC

Symmetric == Permutations(Execs)
=============================================================================
