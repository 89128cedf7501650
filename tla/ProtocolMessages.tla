-------------------------- MODULE ProtocolMessages --------------------------
(***************************************************************************)
(* ProtocolMessages: what the codec and the transport of the sync protocol *)
(* have in common: bytes, and the numbers of the message types.            *)
(***************************************************************************)
EXTENDS Naturals, Sequences

CONSTANT Base  \* of the digits in which the codec writes numbers

ASSUME BaseAssumption == Base \in Nat \ {0, 1}

\* The digits, and the line feed.
Byte == 0 .. Base
LF == Base

\* MessageType.
TypeCode == [hello |-> 0, manifest |-> 1, missing |-> 2, chunk |-> 3, ack |-> 4, error |-> 5]
=============================================================================
