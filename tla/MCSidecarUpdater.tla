-------------------------- MODULE MCSidecarUpdater --------------------------
(* Instances of SidecarUpdater for TLC. *)
EXTENDS SidecarUpdater

CONSTANT s1

MCOneSlot == {s1}
=============================================================================
