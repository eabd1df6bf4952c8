------------------------------- MODULE Focus -------------------------------
(***************************************************************************)
(* Which component moves.  The components of MCContainers and MCHost share *)
(* no variable and call each other only through what each module describes *)
(* as its environment, so they are checked side by side in one run: a      *)
(* behaviour picks one component and is a behaviour of that one.           *)
(***************************************************************************)
VARIABLE focus
=============================================================================
