------------------------------- MODULE Absent -------------------------------
(***************************************************************************)
(* The value of what is not there (Rust's None), shared by the modules     *)
(* that Commands composes.                                                 *)
(***************************************************************************)
CONSTANT NONE
=============================================================================
