-------------------------------- MODULE Wire --------------------------------
(***************************************************************************)
(* The header that client and relay write and read (protocol.rs of both),  *)
(* and what the relay takes a packet for (relay/src/forwarder.rs).         *)
(*                                                                         *)
(* The state is one packet, as its maker describes it, or some bytes from  *)
(* the network, and never changes.  Octets and numbers have their real     *)
(* width; a bit of the flags is tested and set by arithmetic.              *)
(***************************************************************************)
EXTENDS Integers, Sequences

CONSTANTS
  Payloads,   \* what packets carry, and bytes that come
  Numbers,    \* session ids and sequence numbers
  Error       \* the result of a function that fails

\* Numbers have 32 bits.
ASSUME WireAssumption ==
  /\ Payloads \subseteq Seq(0 .. 255)
  /\ Numbers \subseteq Nat /\ \A n \in Numbers : n \div 65536 < 65536

VARIABLE sample  \* the function and its arguments
-----------------------------------------------------------------------------
Multipath == 1
Keepalive == 2
Control == 4

Header == 10

\* Big-endian octets of 16 and of 32 bits.
Octets(n) == <<n \div 256, n % 256>>
Quad(n) == Octets(n \div 65536) \o Octets(n % 65536)
Number(o) == o[1] * 16777216 + o[2] * 65536 + o[3] * 256 + o[4]

\* Testing and setting a bit.
Marked(flags, bit) == (flags \div bit) % 2 = 1
Mark(flags, bit) == IF Marked(flags, bit) THEN flags ELSE flags + bit

Packet(kind, token, seq, payload) ==
  [token |-> token, seq |-> seq, path |-> 0, payload |-> payload,
   flags |-> IF kind = "control" THEN Control
             ELSE IF kind = "keepalive" THEN Keepalive ELSE 0]

WithMultipath(p, path) ==
  [p EXCEPT !.flags = Mark(@, Multipath), !.path = path]

\* A fault: the parts of the header are written in another order.
EncodePathFirst(p) ==
  Quad(p.token) \o Quad(p.seq) \o <<p.path, p.flags>> \o p.payload

Encode(p) == Quad(p.token) \o Quad(p.seq) \o <<p.flags, p.path>> \o p.payload

\* Both programs read alike.
Parse(data) ==
  IF Len(data) < Header THEN Error
  ELSE [token |-> Number(SubSeq(data, 1, 4)), seq |-> Number(SubSeq(data, 5, 8)),
        flags |-> data[9], path |-> data[10],
        payload |-> SubSeq(data, Header + 1, Len(data))]

\* What the relay takes a packet for: the flags are tested in this order.
KindOf(p) ==
  IF Marked(p.flags, Keepalive) THEN "keepalive"
  ELSE IF Marked(p.flags, Control) THEN "control" ELSE "data"
-----------------------------------------------------------------------------
Kind == {"data", "control", "keepalive"}

WireInit ==
  \/ sample \in [of : {"packet"}, kind : Kind, token : Numbers, seq : Numbers,
                 path : 0 .. 1, payload : Payloads]
  \/ sample \in [of : {"bytes"}, data : Payloads]

WireSpec == WireInit /\ [][UNCHANGED sample]_sample
-----------------------------------------------------------------------------
\* "Real wire format (matches relay/src/protocol.rs)" (protocol.rs:3): what one
\* program writes the other reads as the same packet, of the same kind, and with
\* a copy's mark and path; shorter data is no packet.
WireRoundTrip ==
  /\ sample.of = "packet" =>
       LET packet == Packet(sample.kind, sample.token, sample.seq, sample.payload)
           copy == WithMultipath(packet, sample.path) IN
       /\ Parse(Encode(packet)) = packet /\ KindOf(Parse(Encode(packet))) = sample.kind
       /\ Parse(Encode(copy)) = copy /\ KindOf(Parse(Encode(copy))) = sample.kind
  /\ sample.of = "bytes" /\ Len(sample.data) < Header => Parse(sample.data) = Error
=============================================================================
