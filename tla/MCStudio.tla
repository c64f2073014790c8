------------------------------ MODULE MCStudio ------------------------------
(* Instances of module Studio. *)
EXTENDS Studio

=============================================================================
