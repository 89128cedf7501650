-------------------------- MODULE SocketTransport --------------------------
(***************************************************************************)
(* SocketTransport: frames over a TCP connection.                          *)
(*                                                                         *)
(* Send writes type, size and payload in as many pieces as the kernel      *)
(* takes; Receive reads each of the three in as many pieces as have        *)
(* arrived.  Both block.  The connection keeps at most Capacity bytes of   *)
(* each direction.                                                         *)
(***************************************************************************)
EXTENDS ProtocolMessages

CONSTANTS
  Capacity,       \* bytes in the buffers of the two kernels
  Payload(_),     \* the bytes the codec writes for a message
  Message(_, _)   \* what it reads from a type and a payload, or an error

ASSUME CapacityAssumption == Capacity \in Nat \ {0}

VARIABLES
  out,   \* the bytes a Send in progress has still to write
  net,   \* the bytes an end has written and the other not yet read
  in,    \* the Receive in progress
  open,  \* the ends whose descriptor is open
  sent,  \* history: the frames passed to Send
  got    \* history: the frames Receive returned

connection == <<out, net, in, open, sent, got>>

Ends == {"server", "client"}

Peer(e) == CHOOSE f \in Ends : f # e

-----------------------------------------------------------------------------
(***************************************************************************)
(* The two words before a payload: unsigned, of WordSize bytes, the most   *)
(* significant byte first.                                                 *)
(***************************************************************************)
WordSize == 4
Radix == Base + 1
WordLimit == Radix * Radix * Radix * Radix

\* The cast to uint32_t drops what does not fit.
HostToNet32(n) ==
  <<(n \div (Radix * Radix * Radix)) % Radix, (n \div (Radix * Radix)) % Radix,
    (n \div Radix) % Radix, n % Radix>>

NetToHost32(word) == ((word[1] * Radix + word[2]) * Radix + word[3]) * Radix + word[4]

Frame(message) == [type |-> TypeCode[message.type], payload |-> Payload(message)]

-----------------------------------------------------------------------------
(***************************************************************************)
(* The receiving side.                                                     *)
(***************************************************************************)
Idle == [stage |-> "idle", need |-> 0, bytes |-> <<>>, type |-> 0]

\* ReadExact is called for the type, the size and, unless it is empty, the
\* payload.
Reading(stage, need, type) == [stage |-> stage, need |-> need, bytes |-> <<>>, type |-> type]

\* Receive has returned: true with a frame, or false.
Received(type, payload) == [stage |-> "frame", need |-> 0, bytes |-> payload, type |-> type]
EndOfStream == [stage |-> "eof", need |-> 0, bytes |-> <<>>, type |-> 0]

IsReading(e) == in[e].stage \in {"type", "size", "payload"}

\* What follows the call of ReadExact that has just filled its buffer.
Completed(r) ==
  CASE r.stage = "type" -> Reading("size", WordSize, NetToHost32(r.bytes))
    [] r.stage = "size" ->
         LET size == NetToHost32(r.bytes)
         IN IF size = 0 THEN Received(r.type, <<>>) ELSE Reading("payload", size, r.type)
    [] r.stage = "payload" -> Received(r.type, r.bytes)

\* Mutant: a call that returns some bytes counts as a call that returns all;
\* the others are zero.
ReadOnce(r, bytes) ==
  Completed([r EXCEPT !.bytes = [i \in 1 .. r.need |-> IF i <= Len(bytes) THEN bytes[i] ELSE 0]])

\* ReadExact goes on until it has all the bytes it was asked for.
ReadExact(r, bytes) ==
  LET more == [r EXCEPT !.bytes = @ \o bytes]
  IN IF Len(more.bytes) = r.need THEN Completed(more) ELSE more

-----------------------------------------------------------------------------
(***************************************************************************)
(* Operations.                                                             *)
(***************************************************************************)
Connection ==
  /\ out = [e \in Ends |-> <<>>]
  /\ net = [e \in Ends |-> <<>>]
  /\ in = [e \in Ends |-> Idle]
  /\ open = {}
  /\ sent = [e \in Ends |-> <<>>]
  /\ got = [e \in Ends |-> <<>>]

Smaller(m, n) == IF m <= n THEN m ELSE n

\* Neither a Send nor a Receive is in progress.
Ready(e) == out[e] = <<>> /\ in[e] = Idle

\* Send, up to its first write.
Send(e, message) ==
  LET frame == Frame(message)
  IN /\ out' = [out EXCEPT ![e] =
                  HostToNet32(frame.type) \o HostToNet32(Len(frame.payload)) \o frame.payload]
     /\ sent' = [sent EXCEPT ![e] = Append(@, frame)]
     /\ UNCHANGED <<net, in, open, got>>

\* One round of the loop in WriteAll: send takes what there is room for.
WriteAll(e) ==
  \E k \in 1 .. Smaller(Len(out[e]), Capacity - Len(net[e])) :
    /\ net' = [net EXCEPT ![e] = @ \o SubSeq(out[e], 1, k)]
    /\ out' = [out EXCEPT ![e] = SubSeq(@, k + 1, Len(@))]
    /\ UNCHANGED <<in, open, sent, got>>

\* Receive, up to its first read.
Receive(e) ==
  /\ in' = [in EXCEPT ![e] = Reading("type", WordSize, 0)]
  /\ UNCHANGED <<out, net, open, sent, got>>

\* One round of the loop in ReadExact.
ReadSome(e) ==
  LET from == Peer(e)
  IN /\ IsReading(e)
     /\ \E k \in 1 .. Smaller(Len(net[from]), in[e].need - Len(in[e].bytes)) :
          LET next == ReadExact(in[e], SubSeq(net[from], 1, k))
          IN /\ net' = [net EXCEPT ![from] = SubSeq(@, k + 1, Len(@))]
             /\ in' = [in EXCEPT ![e] = next]
             /\ got' = IF next.stage # "frame" THEN got
                       ELSE [got EXCEPT ![e] =
                               Append(@, [type |-> next.type, payload |-> next.bytes])]
     /\ UNCHANGED <<out, open, sent>>

\* recv returns 0: everything was read and the other end is closed.
ReadEnd(e) ==
  /\ IsReading(e)
  /\ net[Peer(e)] = <<>> /\ Peer(e) \notin open
  /\ in' = [in EXCEPT ![e] = EndOfStream]
  /\ UNCHANGED <<out, net, open, sent, got>>

IO(e) == WriteAll(e) \/ ReadSome(e) \/ ReadEnd(e)

\* The caller goes on with what Receive returned.
Resume(e) ==
  /\ in' = [in EXCEPT ![e] = Idle]
  /\ UNCHANGED <<out, net, open, sent, got>>

\* The caller ends, and the destructor closes the descriptor.
Close(e) ==
  /\ open' = open \ {e}
  /\ in' = [in EXCEPT ![e] = Idle]
  /\ UNCHANGED <<out, net, sent, got>>

\* ConnectTcp, and the connection Accept will return.
ConnectTcp ==
  /\ open' = Ends
  /\ UNCHANGED <<out, net, in, sent, got>>

\* The type of the frame that was received, which may be none of the protocol.
Kind(e) ==
  LET types == {t \in DOMAIN TypeCode : TypeCode[t] = in[e].type}
  IN IF types = {} THEN "unknown" ELSE CHOOSE t \in types : TRUE

\* Its message, if it is decoded.
Incoming(e) ==
  IF Kind(e) = "unknown" THEN [type |-> "unknown", values |-> <<>>]
  ELSE Message(Kind(e), in[e].bytes)
=============================================================================
