-------------------------- MODULE MCProcessControl --------------------------
(* ProcessControl for TLC: the .cfg files give its constants as model values. *)
EXTENDS ProcessControl
=============================================================================
