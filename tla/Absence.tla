------------------------------ MODULE Absence ------------------------------
(* The value that stands for no value: nil, an empty field, a missing file. *)
CONSTANT Nil
=============================================================================
