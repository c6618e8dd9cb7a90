----------------------------- MODULE MCUdevInfo -----------------------------
(***************************************************************************)
(* UdevInfo with up to three lines: two UUIDs and the type of the file     *)
(* system, or the label and the type and one UUID, in every order.         *)
(***************************************************************************)
EXTENDS UdevInfo

=============================================================================
