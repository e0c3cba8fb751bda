------------------------------- MODULE Absent -------------------------------
(* What Python calls None: a row, a reference or a value that is not there. *)
EXTENDS Integers

CONSTANT None

ASSUME AbsentAssumption == None \notin Int \cup BOOLEAN

=============================================================================
