------------------------------ MODULE Builders ------------------------------
(***************************************************************************)
(* The pure functions the tunnels and the relay are built on: the filter   *)
(* of a game's profile (client/src-tauri/src/filter_builder.rs), the       *)
(* packet that is injected as an answer (packet_builder.rs), and, from     *)
(* module Wire, the header that client and relay write and read.           *)
(*                                                                         *)
(* The state is one input of one of these functions and never changes: TLC *)
(* enumerates the inputs as initial states, and each property compares     *)
(* what the code computes with a definition of what it is to compute.      *)
(*                                                                         *)
(* Octets, words and lengths have their real width.  Addresses in a filter *)
(* have Width bits instead of 32, and one is the set of its bits that are  *)
(* set, so that "and", "or" and "not" are those of sets.  A filter is      *)
(* modelled by the packets it matches, not by its text.                    *)
(***************************************************************************)
EXTENDS Wire

CONSTANTS
  Width,      \* bits of an address in a filter
  TopPort,    \* the greatest port of a filter
  Cidrs,      \* lists of addresses of a profile
  Ranges,     \* lists of port ranges of a profile
  Hosts,      \* addresses of packets, as four octets
  Ports       \* ports of packets

Bits == 0 .. Width - 1
Addresses == SUBSET Bits
FilterPorts == 0 .. TopPort

\* An address with the length of its prefix, which nothing has checked.
Cidr == [ip : Addresses, prefix : Nat]

ASSUME FilterAssumption ==
  /\ Width \in Nat \ {0} /\ TopPort \in Nat
  /\ Cidrs \subseteq Seq(Cidr) /\ Ranges \subseteq Seq(FilterPorts \X FilterPorts)
  /\ Error \notin Addresses \X Addresses /\ Error \notin FilterPorts \X FilterPorts

\* Header and payload fit the length of a packet: the payload comes in a datagram.
ASSUME AnswerAssumption ==
  /\ Hosts \subseteq [1 .. 4 -> 0 .. 255]
  /\ Ports \subseteq Nat /\ \A port \in Ports : port < 65536
  /\ \A payload \in Payloads : 28 + Len(payload) < 65536
-----------------------------------------------------------------------------
(* filter_builder.rs                                                       *)

\* What is shifted beyond the width is lost.
ShiftLeft(word, n) == {b + n : b \in word} \cap Bits

\* A fault: a release build shifts by the width modulo the width.
MaskWrapping(prefix) == ShiftLeft(Bits, (Width - prefix) % Width)

Mask(prefix) == IF prefix = 0 THEN {} ELSE ShiftLeft(Bits, Width - prefix)

\* An entry is an address, with a prefix or (as the width itself) without.
IpRange(entry) ==
  LET start == entry.ip \cap Mask(entry.prefix) IN
  IF entry.prefix > Width THEN Error
  ELSE <<start, start \cup (Bits \ Mask(entry.prefix))>>

\* Addresses compared as numbers: the highest bit in which they differ decides.
Below(a, b) ==
  \E i \in b \ a : \A j \in Bits : j > i => (j \in a <=> j \in b)
AtMost(a, b) == a = b \/ Below(a, b)

PortRange(lo, hi) == IF lo > hi THEN Error ELSE <<lo, hi>>

\* A fault: the clauses are joined without parentheses, and "and" binds closer.
MatchesLoosely(ips, ports, ip, port) ==
  \/ \E i \in DOMAIN ips : AtMost(ips[i][1], ip) /\ AtMost(ip, ips[i][2])
  \/ \E j \in DOMAIN ports : ports[j][1] <= port /\ port <= ports[j][2]

\* Some address clause and some port clause.
Matches(ips, ports, ip, port) ==
  /\ \E i \in DOMAIN ips : AtMost(ips[i][1], ip) /\ AtMost(ip, ips[i][2])
  /\ \E j \in DOMAIN ports : ports[j][1] <= port /\ port <= ports[j][2]

\* The packets a profile's filter matches, or an error.
Filter(entries, ranges) ==
  LET ips == [i \in DOMAIN entries |-> IpRange(entries[i])]
      ports == [j \in DOMAIN ranges |-> PortRange(ranges[j][1], ranges[j][2])] IN
  IF \/ entries = <<>> \/ ranges = <<>>
     \/ \E i \in DOMAIN ips : ips[i] = Error
     \/ \E j \in DOMAIN ports : ports[j] = Error
  THEN Error
  ELSE {x \in Addresses \X FilterPorts : Matches(ips, ports, x[1], x[2])}
-----------------------------------------------------------------------------
(* packet_builder.rs                                                       *)

\* Big-endian words; an odd octet at the end counts as a high one.
Words(octets) ==
  [i \in 1 .. (Len(octets) + 1) \div 2 |->
     256 * octets[2 * i - 1] + IF 2 * i <= Len(octets) THEN octets[2 * i] ELSE 0]

\* The sum after each word, and in the end.
Running(numbers) ==
  LET sum[i \in 0 .. Len(numbers)] == IF i = 0 THEN 0 ELSE sum[i - 1] + numbers[i]
  IN  sum
Sum(numbers) == Running(numbers)[Len(numbers)]

\* Carries are added until none is left.
Folded[n \in Nat] == IF n < 65536 THEN n ELSE Folded[(n % 65536) + (n \div 65536)]

\* The checksum field itself, the word at `field`, is skipped.
Checksum(start, octets, field) ==
  65535 - Folded[start + Sum([Words(octets) EXCEPT ![field] = 0])]

\* A fault: the octet left over at the end is not counted.
PseudoEven(src, dst, n) == Sum(Words(src \o dst)) + 17 + 2 * (n \div 2)

PseudoHeader(src, dst, n) == Sum(Words(src \o dst)) + 17 + n

\* Zero stands for "no checksum", so it is sent as its complement.
UdpChecksum(src, dst, segment) ==
  LET sum == Checksum(PseudoHeader(src, dst, Len(segment)), segment, 4) IN
  IF sum = 0 THEN 65535 ELSE sum

\* The casts to 16 bits; no datagram is long enough for them to lose anything.
UdpLength(n) == (8 + n) % 65536
TotalLength(n) == (20 + UdpLength(n)) % 65536

\* A checksum in its place.
Filled(octets, field, sum) ==
  [octets EXCEPT ![2 * field - 1] = sum \div 256, ![2 * field] = sum % 256]

\* Header and UDP segment, first without their checksums.
BareHeader(src, dst, n) ==
  <<69, 0>> \o Octets(TotalLength(n)) \o <<0, 0, 64, 0, 64, 17, 0, 0>> \o src \o dst

IpHeader(src, dst, n) ==
  LET header == BareHeader(src, dst, n) IN Filled(header, 6, Checksum(0, header, 6))

BareSegment(sport, dport, payload) ==
  Octets(sport) \o Octets(dport) \o Octets(UdpLength(Len(payload))) \o <<0, 0>> \o payload

Segment(src, dst, sport, dport, payload) ==
  LET segment == BareSegment(sport, dport, payload) IN
  Filled(segment, 4, UdpChecksum(src, dst, segment))
-----------------------------------------------------------------------------
(* The inputs.                                                             *)

NoSample == [of |-> "none"]

BuildersInit ==
  \/ sample \in [of : {"filter"}, entries : Cidrs, ranges : Ranges]
  \/ sample \in [of : {"answer"}, src : Hosts, dst : Hosts, sport : Ports,
                 dport : Ports, payload : Payloads]
  \/ WireInit

BuildersSpec == BuildersInit /\ [][UNCHANGED sample]_sample
-----------------------------------------------------------------------------
\* "Build a WinDivert filter string for intercepting outbound UDP traffic to the
\* given game server IPs (CIDRs) and ports" (filter_builder.rs:61): a filter that
\* is built matches the packets whose address has an entry's prefix and whose port
\* lies in a range, and no others; it is refused for a list that is empty, a
\* prefix that is too long or a range the wrong way round.
FilterMatchesProfile ==
  sample.of = "filter" =>
    LET legal == /\ sample.entries # <<>> /\ sample.ranges # <<>>
                 /\ \A i \in DOMAIN sample.entries : sample.entries[i].prefix <= Width
                 /\ \A j \in DOMAIN sample.ranges :
                      sample.ranges[j][1] <= sample.ranges[j][2]
        prefixed(e, ip) ==
          \A b \in Bits : b >= Width - e.prefix => (b \in ip <=> b \in e.ip)
        wanted == {x \in Addresses \X FilterPorts :
                     /\ \E i \in DOMAIN sample.entries : prefixed(sample.entries[i], x[1])
                     /\ \E j \in DOMAIN sample.ranges :
                          x[2] \in sample.ranges[j][1] .. sample.ranges[j][2]}
    IN Filter(sample.entries, sample.ranges) = IF legal THEN wanted ELSE Error

\* "Manual packet construction with RFC 1071 checksums" (packet_builder.rs:7): a
\* receiver that adds up the words of the header, and of the pseudo-header and the
\* segment, finds minus zero; the lengths in both headers are those of the packet;
\* and the UDP checksum is never the one that means "none" (packet_builder.rs:123).
ChecksumsVerify ==
  sample.of = "answer" =>
    LET n == Len(sample.payload)
        header == IpHeader(sample.src, sample.dst, n)
        segment == Segment(sample.src, sample.dst, sample.sport, sample.dport,
                           sample.payload)
        pseudo == sample.src \o sample.dst \o <<0, 17>> \o Octets(Len(segment))
    IN /\ Len(header) = 20 /\ Sum(Words(header)) % 65535 = 0
       /\ Sum(Words(pseudo \o segment)) % 65535 = 0
       /\ SubSeq(header, 3, 4) = Octets(20 + Len(segment))
       /\ SubSeq(segment, 5, 6) = Octets(Len(segment))
       /\ segment[7] # 0 \/ segment[8] # 0
=============================================================================
