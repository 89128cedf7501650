----------------------------- MODULE FrameQueue -----------------------------
(***************************************************************************)
(* FrameQueue: what a transport promises for one direction: frames arrive  *)
(* whole, once, and in the order in which they were sent.  It is the       *)
(* in-memory transport, whose queue is the part of sent that is not in     *)
(* got.                                                                    *)
(***************************************************************************)
EXTENDS Naturals, Sequences, SequencesExt

VARIABLES
  sent,  \* the frames passed to Send
  got    \* the frames Receive returned at the other end

vars == <<sent, got>>

Init == sent = <<>> /\ got = <<>>

\* InMemoryTransportEndpoint::Send, of any frame.
Push ==
  /\ Len(sent') = Len(sent) + 1
  /\ IsPrefix(sent, sent')
  /\ UNCHANGED got

\* InMemoryTransportEndpoint::Receive, when the queue is not empty.
Pop ==
  /\ Len(got) < Len(sent)
  /\ got' = Append(got, sent[Len(got) + 1])
  /\ UNCHANGED sent

Next == Push \/ Pop

Spec == Init /\ [][Next]_vars
=============================================================================
