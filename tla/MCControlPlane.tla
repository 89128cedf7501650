--------------------------- MODULE MCControlPlane ---------------------------
(***************************************************************************)
(* Instances of ControlPlane for TLC: one device that owns what is shared  *)
(* and restored, and one more; both run agents.                            *)
(***************************************************************************)
EXTENDS ControlPlane

CONSTANTS n1, n2

OwnerIsN1 == [e \in Entries |-> n1]
=============================================================================
