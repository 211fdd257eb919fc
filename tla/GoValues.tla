------------------------------ MODULE GoValues -------------------------------
(***************************************************************************)
(* The value that stands for Go's nil and for a field that is not set, in  *)
(* the modules that are checked together.                                  *)
(***************************************************************************)
CONSTANT None
==============================================================================
