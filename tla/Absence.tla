------------------------------- MODULE Absence -------------------------------
(* The value of what is not there (undefined, null, no row, no file) in the     *)
(* modules about one repository, which are reasoned about together.             *)
CONSTANT None
==============================================================================
