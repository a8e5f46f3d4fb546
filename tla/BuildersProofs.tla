--------------------------- MODULE BuildersProofs ---------------------------
(***************************************************************************)
(* Theorems about Wire and Builders, whatever the numbers, the payloads,   *)
(* the lists of a profile and the width of an address:                     *)
(*                                                                         *)
(*   - what one program writes the other reads (HeaderReadBack);           *)
(*   - a filter matches the packets of its profile (FiltersMatch);         *)
(*   - the checksums of an answer verify, and its lengths are right        *)
(*     (ChecksumsHold).                                                    *)
(*                                                                         *)
(* The last two need induction, over the bits of an address and over the   *)
(* octets of a packet: Least and Induction state it for sets.              *)
(***************************************************************************)
EXTENDS Builders, SequenceTheorems, WellFoundedInduction, TLAPS

Octet == 0 .. 255
Word == {n \in Nat : n \div 65536 < 65536}
-----------------------------------------------------------------------------
(* Sequences put together and taken apart, with lengths of their own.       *)

LEMMA Joined ==
  ASSUME NEW S, NEW s \in Seq(S), NEW t \in Seq(S)
  PROVE  /\ s \o t \in Seq(S) /\ Len(s \o t) = Len(s) + Len(t)
         /\ \A i \in 1 .. Len(s) : (s \o t)[i] = s[i]
         /\ \A i \in 1 .. Len(t) : (s \o t)[Len(s) + i] = t[i]
<1>1. Len(s) \in Nat /\ Len(t) \in Nat
  BY LenProperties
<1>2. /\ s \o t \in Seq(S) /\ Len(s \o t) = Len(s) + Len(t)
      /\ \A i \in 1 .. Len(s) + Len(t) :
           (s \o t)[i] = IF i <= Len(s) THEN s[i] ELSE t[i - Len(s)]
  BY ConcatProperties, Zenon
<1>3. \A i \in 1 .. Len(s) : i \in 1 .. Len(s) + Len(t) /\ i <= Len(s)
  BY <1>1, SMT
<1>4. \A i \in 1 .. Len(t) : /\ Len(s) + i \in 1 .. Len(s) + Len(t)
                             /\ ~(Len(s) + i <= Len(s))
                             /\ (Len(s) + i) - Len(s) = i
  BY <1>1, SMT
<1>5. \A i \in 1 .. Len(s) : (s \o t)[i] = s[i]
  BY <1>2, <1>3, Zenon
<1>6. \A i \in 1 .. Len(t) : (s \o t)[Len(s) + i] = t[i]
  BY <1>2, <1>4, Zenon
<1> QED
  BY <1>2, <1>5, <1>6

\* The same, one element at a time.
LEMMA JoinedFirst ==
  ASSUME NEW S, NEW s \in Seq(S), NEW t \in Seq(S), NEW i \in 1 .. Len(s)
  PROVE  (s \o t)[i] = s[i]
  BY Joined

LEMMA JoinedLater ==
  ASSUME NEW S, NEW s \in Seq(S), NEW t \in Seq(S), NEW i \in 1 .. Len(t)
  PROVE  (s \o t)[Len(s) + i] = t[i]
  BY Joined

\* What was put together is taken apart again.
LEMMA Cut ==
  ASSUME NEW S, NEW s \in Seq(S), NEW t \in Seq(S)
  PROVE  /\ SubSeq(s \o t, 1, Len(s)) = s
         /\ SubSeq(s \o t, Len(s) + 1, Len(s) + Len(t)) = t
<1>1. Len(s) \in Nat /\ Len(t) \in Nat
  BY LenProperties
<1>2. SubSeq(s \o t, 1, Len(s)) = s
  <2>1. CASE s = <<>>
    <3>1. Len(s) = 0 /\ 1 \in Int /\ 0 \in Int /\ 0 < 1
      BY <2>1, EmptySeq
    <3> QED
      BY <2>1, <3>1, SubSeqEmpty, Zenon
  <2>2. CASE s # <<>>
    <3>1. Len(s) \in Nat \ {0}
      BY <2>2, EmptySeq, Zenon
    <3>2. 1 \in 1 .. Len(s) /\ Len(s) \in 1 .. Len(s)
      BY <3>1, SMT
    <3>3. SubSeq(s \o t, 1, Len(s)) = SubSeq(s, 1, Len(s))
      BY <3>2, SubSeqOfConcat1, Zenon
    <3> QED
      BY <3>3, SubSeqFull, Zenon
  <2> QED
    BY <2>1, <2>2
<1>3. SubSeq(s \o t, Len(s) + 1, Len(s) + Len(t)) = t
  <2>1. CASE t = <<>>
    <3>1. Len(t) = 0
      BY <2>1, EmptySeq
    <3>2. /\ Len(s) + 1 \in Int /\ Len(s) + Len(t) \in Int
          /\ Len(s) + Len(t) < Len(s) + 1
      BY <1>1, <3>1, SMT
    <3> QED
      BY <2>1, <3>2, SubSeqEmpty, Zenon
  <2>2. CASE t # <<>>
    <3>1. Len(t) \in Nat \ {0}
      BY <2>2, EmptySeq, Zenon
    <3>2. /\ Len(s) + 1 \in Len(s) + 1 .. Len(s) + Len(t)
          /\ Len(s) + Len(t) \in Len(s) + 1 .. Len(s) + Len(t)
          /\ (Len(s) + 1) - Len(s) = 1 /\ (Len(s) + Len(t)) - Len(s) = Len(t)
      BY <1>1, <3>1, SMT
    <3>3. SubSeq(s \o t, Len(s) + 1, Len(s) + Len(t))
            = SubSeq(t, (Len(s) + 1) - Len(s), (Len(s) + Len(t)) - Len(s))
      BY <3>2, SubSeqOfConcat2, ZenonT(30)
    <3>4. SubSeq(t, 1, Len(t)) = t
      BY SubSeqFull, Zenon
    <3> QED
      BY <3>2, <3>3, <3>4, Zenon
  <2> QED
    BY <2>1, <2>2
<1> QED
  BY <1>2, <1>3

LEMMA Pair ==
  ASSUME NEW S, NEW x \in S, NEW y \in S
  PROVE  <<x, y>> \in Seq(S) /\ Len(<<x, y>>) = 2 /\ <<x, y>>[1] = x /\ <<x, y>>[2] = y
  OBVIOUS

\* A slice of two.
LEMMA SliceOfTwo ==
  ASSUME NEW S, NEW s \in Seq(S), NEW i \in Nat \ {0}, i + 1 <= Len(s)
  PROVE  SubSeq(s, i, i + 1) = <<s[i], s[i + 1]>>
<1> DEFINE t == SubSeq(s, i, i + 1)
           u == <<s[i], s[i + 1]>>
<1>1. Len(s) \in Nat /\ i \in 1 .. Len(s) /\ i + 1 \in 1 .. Len(s)
  BY LenProperties
<1>2. s[i] \in S /\ s[i + 1] \in S
  BY <1>1, ElementOfSeq
<1>3. u \in Seq(S) /\ Len(u) = 2 /\ u[1] = s[i] /\ u[2] = s[i + 1]
  BY <1>2, Pair
<1>4. t \in Seq(S) /\ Len(t) = 2 /\ t[1] = s[i] /\ t[2] = s[i + 1]
  BY <1>1, SubSeqProperties
<1> HIDE DEF t, u
<1>5. \A j \in 1 .. 2 : t[j] = u[j]
  BY <1>3, <1>4
<1>6. t = u
  BY <1>3, <1>4, <1>5, SeqEqual
<1> QED
  BY <1>6 DEF t, u
-----------------------------------------------------------------------------
(* Numbers and their octets.                                                *)

\* The high and the low 16 of 32 bits.
LEMMA Halves ==
  ASSUME NEW n \in Word
  PROVE  /\ n \in Nat
         /\ n \div 65536 \in Nat /\ n \div 65536 < 65536
         /\ n % 65536 \in Nat /\ n % 65536 < 65536
         /\ n = 65536 * (n \div 65536) + (n % 65536)
<1>1. n \in Nat /\ n \div 65536 < 65536
  BY SMT DEF Word
<1> QED
  BY <1>1, SMT

\* A number of 16 bits is written as two octets, which stand for it.
LEMMA TwoOctets ==
  ASSUME NEW n \in Nat, n < 65536
  PROVE  /\ Octets(n) \in Seq(Octet) /\ Len(Octets(n)) = 2
         /\ Octets(n)[1] \in Octet /\ Octets(n)[2] \in Octet
         /\ n = 256 * Octets(n)[1] + Octets(n)[2]
<1> DEFINE a == n \div 256
           b == n % 256
<1>1. a \in Nat /\ a < 256 /\ b \in Nat /\ b < 256 /\ n = 256 * a + b
  BY SMT
<1>2. Octets(n) = <<a, b>>
  BY SMT DEF Octets
<1> HIDE DEF a, b
<1>3. a \in Octet /\ b \in Octet
  BY <1>1, SMT DEF Octet
<1> DEFINE s == <<a, b>>
<1>4. s \in Seq(Octet) /\ Len(s) = 2 /\ s[1] = a /\ s[2] = b
  BY <1>3, Pair
<1>5. Octets(n) = s
  BY <1>2, SMT
<1> HIDE DEF s
<1>6. n = 256 * s[1] + s[2]
  BY <1>1, <1>4, SMT
<1> QED
  BY <1>3, <1>4, <1>5, <1>6, SMT

\* A number of 32 bits is written as four octets, which stand for it.
LEMMA QuadOctets ==
  ASSUME NEW n \in Word
  PROVE  Quad(n) \in Seq(Octet) /\ Len(Quad(n)) = 4 /\ Number(Quad(n)) = n
<1> DEFINE h == n \div 65536
           l == n % 65536
           H == Octets(h)
           L == Octets(l)
<1>1. /\ n \in Nat /\ h \in Nat /\ h < 65536 /\ l \in Nat /\ l < 65536
      /\ n = 65536 * h + l
  BY Halves, SMT
<1>2. Quad(n) = H \o L
  BY SMT DEF Quad
<1> HIDE DEF h, l
<1>3. /\ H \in Seq(Octet) /\ Len(H) = 2
      /\ L \in Seq(Octet) /\ Len(L) = 2
  BY <1>1, TwoOctets, SMT
<1>4. /\ H[1] \in Octet /\ H[2] \in Octet /\ h = 256 * H[1] + H[2]
      /\ L[1] \in Octet /\ L[2] \in Octet /\ l = 256 * L[1] + L[2]
  BY <1>1, TwoOctets, SMT
<1> HIDE DEF H, L
<1>5. /\ H \o L \in Seq(Octet) /\ Len(H \o L) = Len(H) + Len(L)
      /\ \A i \in 1 .. Len(H) : (H \o L)[i] = H[i]
      /\ \A i \in 1 .. Len(L) : (H \o L)[Len(H) + i] = L[i]
  <2>1. H \in Seq(Octet) /\ L \in Seq(Octet)
    BY <1>3
  <2>2. H \o L \in Seq(Octet) /\ Len(H \o L) = Len(H) + Len(L)
    BY <2>1, Joined, Zenon
  <2>3. \A i \in 1 .. Len(H) : (H \o L)[i] = H[i]
    BY <2>1, Joined, Zenon
  <2>4. ASSUME NEW i \in 1 .. Len(L)
        PROVE  (H \o L)[Len(H) + i] = L[i]
    BY <2>1, Joined
  <2> QED
    BY <2>2, <2>3, <2>4
<1>6. /\ Quad(n) \in Seq(Octet) /\ Len(Quad(n)) = 4
      /\ Quad(n)[1] = H[1] /\ Quad(n)[2] = H[2]
      /\ Quad(n)[3] = L[1] /\ Quad(n)[4] = L[2]
  BY <1>2, <1>3, <1>5, SMT
<1>7. Number(Quad(n)) = H[1] * 16777216 + H[2] * 65536 + L[1] * 256 + L[2]
  BY <1>6, SMT DEF Number
<1>8. H[1] * 16777216 + H[2] * 65536 + L[1] * 256 + L[2] = n
  <2>1. \A k \in Octet : k \in Nat
    BY SMT DEF Octet
  <2>2. H[1] \in Nat /\ H[2] \in Nat /\ L[1] \in Nat /\ L[2] \in Nat
    BY <1>4, <2>1, SMT
  <2> QED
    BY <1>1, <1>4, <2>2, SMT
<1> QED
  BY <1>6, <1>7, <1>8, SMT
-----------------------------------------------------------------------------
(* The header.                                                              *)

Parts(a, b, x, y, d) == a \o b \o <<x, y>> \o d
First(s) == SubSeq(s, 1, 4)
Second(s) == SubSeq(s, 5, 8)

\* Two quads, two octets and a payload, taken apart again.
LEMMA Slices ==
  ASSUME NEW a \in Seq(Octet), Len(a) = 4, NEW b \in Seq(Octet), Len(b) = 4,
         NEW x \in Octet, NEW y \in Octet, NEW d \in Seq(Octet)
  PROVE  /\ Len(Parts(a, b, x, y, d)) = 10 + Len(d)
         /\ First(Parts(a, b, x, y, d)) = a
         /\ Second(Parts(a, b, x, y, d)) = b
         /\ Parts(a, b, x, y, d)[9] = x
         /\ Parts(a, b, x, y, d)[10] = y
         /\ SubSeq(Parts(a, b, x, y, d), 11, 10 + Len(d)) = d
<1> DEFINE c == <<x, y>>
           ab == a \o b
           abc == ab \o c
           s == Parts(a, b, x, y, d)
<1>1. c \in Seq(Octet) /\ Len(c) = 2 /\ c[1] = x /\ c[2] = y
  BY Pair
<1>2. s = abc \o d
  BY DEF Parts
<1>3. Len(d) \in Nat
  BY LenProperties
<1> HIDE DEF c, s
<1>4. ab \in Seq(Octet) /\ Len(ab) = 8
  <2>1. ab \in Seq(Octet) /\ Len(ab) = Len(a) + Len(b)
    BY Joined, ZenonT(30)
  <2> QED
    BY <2>1
<1>5. SubSeq(ab, 1, 4) = a /\ SubSeq(ab, 5, 8) = b
  <2>1. /\ SubSeq(ab, 1, Len(a)) = a
        /\ SubSeq(ab, Len(a) + 1, Len(a) + Len(b)) = b
    BY Cut, Zenon
  <2>2. Len(a) + 1 = 5 /\ Len(a) + Len(b) = 8
    OBVIOUS
  <2> QED
    BY <2>1, <2>2
<1> HIDE DEF ab
<1>6. abc \in Seq(Octet) /\ Len(abc) = 10 /\ abc[9] = x /\ abc[10] = y
  <2>1. ab \in Seq(Octet) /\ c \in Seq(Octet)
    BY <1>1, <1>4
  <2>2. abc \in Seq(Octet) /\ Len(abc) = Len(ab) + Len(c)
    BY <2>1, Joined, Zenon
  <2>3. ASSUME NEW i \in 1 .. Len(c)
        PROVE  abc[Len(ab) + i] = c[i]
    BY <2>1, Joined
  <2> HIDE DEF abc
  <2> QED
    BY <1>1, <1>4, <2>2, <2>3
<1>7. SubSeq(abc, 1, 4) = a /\ SubSeq(abc, 5, 8) = b
  <2>1. \A k \in {1, 4, 5, 8} : k \in 1 .. Len(ab)
    BY <1>4
  <2>2. SubSeq(abc, 1, 4) = SubSeq(ab, 1, 4) /\ SubSeq(abc, 5, 8) = SubSeq(ab, 5, 8)
    BY <1>1, <1>4, <2>1, SubSeqOfConcat1, Zenon
  <2> QED
    BY <1>5, <2>2
<1> HIDE DEF abc
<1>8. Len(s) = 10 + Len(d) /\ s[9] = x /\ s[10] = y
  <2>1. abc \in Seq(Octet)
    BY <1>6
  <2>2. Len(abc \o d) = Len(abc) + Len(d)
    BY <2>1, Joined, ZenonT(30)
  <2>3. ASSUME NEW i \in 1 .. Len(abc)
        PROVE  (abc \o d)[i] = abc[i]
    BY <2>1, Joined, SMT
  <2> QED
    BY <1>2, <1>3, <1>6, <2>2, <2>3
<1>9. SubSeq(s, 11, Len(s)) = d
  <2>1. SubSeq(abc \o d, Len(abc) + 1, Len(abc) + Len(d)) = d
    BY <1>6, Cut, Zenon
  <2>2. Len(abc) + 1 = 11 /\ Len(abc) + Len(d) = Len(s)
    BY <1>3, <1>6, <1>8
  <2> QED
    BY <1>2, <2>1, <2>2
<1>10. SubSeq(s, 1, 4) = a /\ SubSeq(s, 5, 8) = b
  <2>1. \A k \in {1, 4, 5, 8} : k \in 1 .. Len(abc)
    BY <1>6
  <2>2. /\ SubSeq(abc \o d, 1, 4) = SubSeq(abc, 1, 4)
        /\ SubSeq(abc \o d, 5, 8) = SubSeq(abc, 5, 8)
    BY <1>6, <2>1, SubSeqOfConcat1, Zenon
  <2> QED
    BY <1>2, <1>7, <2>2
<1> QED
  BY <1>8, <1>9, <1>10 DEF s, First, Second

Fields(t, n, f, j, d) ==
  [token |-> t, seq |-> n, flags |-> f, path |-> j, payload |-> d]

\* Every packet, whatever its flags and its payload, reads back as it was.
LEMMA ReadBack ==
  ASSUME NEW t \in Word, NEW n \in Word, NEW f \in Octet, NEW j \in Octet,
         NEW d \in Seq(Octet)
  PROVE  Parse(Encode(Fields(t, n, f, j, d))) = Fields(t, n, f, j, d)
<1> DEFINE a == Quad(t)
           b == Quad(n)
           s == Parts(a, b, f, j, d)
<1>1. Encode(Fields(t, n, f, j, d)) = s
  BY DEF Encode, Fields, Parts
<1>2. /\ a \in Seq(Octet) /\ Len(a) = 4 /\ b \in Seq(Octet) /\ Len(b) = 4
      /\ Number(a) = t /\ Number(b) = n
  BY QuadOctets, Zenon
<1> HIDE DEF a, b
<1>3. Len(s) = 10 + Len(d)
  BY <1>2, Slices, SMT
<1>4. First(s) = a /\ Second(s) = b
  BY <1>2, Slices, SMT
<1>5. s[9] = f /\ s[10] = j
  BY <1>2, Slices, SMT
<1>6. SubSeq(s, 11, 10 + Len(d)) = d
  BY <1>2, Slices, SMT
<1> HIDE DEF s
<1>7. ~(Len(s) < Header) /\ Header + 1 = 11
  <2>1. Len(d) \in Nat
    BY LenProperties, Zenon
  <2> QED
    BY <1>3, <2>1, SMT DEF Header
<1>8. Parse(s) = Fields(Number(First(s)), Number(Second(s)), s[9], s[10],
                        SubSeq(s, 11, Len(s)))
  BY <1>7, Zenon DEF Parse, Fields, First, Second
<1> QED
  BY <1>1, <1>2, <1>3, <1>4, <1>5, <1>6, <1>8, Zenon

\* The flags of each kind, without and with a copy's mark.
Flags(k) == IF k = "control" THEN 4 ELSE IF k = "keepalive" THEN 2 ELSE 0

LEMMA FlagsTell ==
  ASSUME NEW k \in Kind, NEW m \in {0, 1}
  PROVE  /\ Flags(k) + m \in Octet
         /\ Mark(Flags(k), Multipath) = Flags(k) + 1
         /\ Marked(Flags(k) + m, Keepalive) <=> k = "keepalive"
         /\ k # "keepalive" => (Marked(Flags(k) + m, Control) <=> k = "control")
<1>1. CASE k = "data"
  BY <1>1, SMT DEF Flags, Octet, Mark, Marked, Multipath, Keepalive, Control
<1>2. CASE k = "control"
  BY <1>2, SMT DEF Flags, Octet, Mark, Marked, Multipath, Keepalive, Control
<1>3. CASE k = "keepalive"
  BY <1>3, SMT DEF Flags, Octet, Mark, Marked, Multipath, Keepalive, Control
<1> QED
  BY <1>1, <1>2, <1>3 DEF Kind

\* A packet as it is made, and its copy.
LEMMA MadeOf ==
  ASSUME NEW k \in Kind, NEW t, NEW n, NEW i, NEW d
  PROVE  /\ Packet(k, t, n, d) = Fields(t, n, Flags(k), 0, d)
         /\ WithMultipath(Packet(k, t, n, d), i) = Fields(t, n, Flags(k) + 1, i, d)
<1> DEFINE p == Packet(k, t, n, d)
<1>1. p = Fields(t, n, Flags(k), 0, d)
  BY SMT DEF Packet, Fields, Flags, Control, Keepalive
<1> HIDE DEF p
<1>2. Mark(p.flags, Multipath) = Flags(k) + 1
  <2>1. p.flags = Flags(k)
    BY <1>1 DEF Fields
  <2> QED
    BY <2>1, FlagsTell
<1>3. WithMultipath(p, i) = Fields(t, n, Mark(p.flags, Multipath), i, d)
  <2> DEFINE f == Mark(p.flags, Multipath)
  <2> HIDE DEF f
  <2>1. [p EXCEPT !.flags = f] = Fields(t, n, f, 0, d)
    BY <1>1, SMT DEF Fields
  <2>2. [Fields(t, n, f, 0, d) EXCEPT !.path = i] = Fields(t, n, f, i, d)
    BY SMT DEF Fields
  <2> QED
    BY <2>1, <2>2, Zenon DEF WithMultipath, f
<1> QED
  BY <1>1, <1>2, <1>3, Zenon DEF p

\* The relay takes a packet for what its maker meant, with a copy's mark or not.
LEMMA KindKept ==
  ASSUME NEW k \in Kind, NEW m \in {0, 1}, NEW t, NEW n, NEW j, NEW d
  PROVE  KindOf(Fields(t, n, Flags(k) + m, j, d)) = k
<1> DEFINE p == Fields(t, n, Flags(k) + m, j, d)
<1>1. p.flags = Flags(k) + m
  BY DEF Fields
<1> HIDE DEF p
<1>2. /\ Marked(p.flags, Keepalive) <=> k = "keepalive"
      /\ k # "keepalive" => (Marked(p.flags, Control) <=> k = "control")
  BY <1>1, FlagsTell, Zenon
<1>3. KindOf(p) = k
  BY <1>2, Zenon DEF KindOf, Kind
<1> QED
  BY <1>3 DEF p

\* Every sample of Wire reads back.
LEMMA InitRoundTrip == WireInit => WireRoundTrip
<1>1. ASSUME sample \in [of : {"packet"}, kind : Kind, token : Numbers,
                         seq : Numbers, path : 0 .. 1, payload : Payloads]
      PROVE  WireRoundTrip
  <2>1. /\ sample.kind \in Kind /\ sample.token \in Numbers /\ sample.seq \in Numbers
        /\ sample.path \in 0 .. 1 /\ sample.payload \in Payloads
        /\ sample.of = "packet"
    BY <1>1
  <2>2. /\ sample.token \in Word /\ sample.seq \in Word
        /\ sample.payload \in Seq(Octet)
    <3>1. Numbers \subseteq Word
      BY WireAssumption, SMT DEF Word
    <3>2. Payloads \subseteq Seq(Octet)
      BY WireAssumption, SMT DEF Octet
    <3> QED
      BY <2>1, <3>1, <3>2
  <2> DEFINE k == sample.kind
             t == sample.token
             n == sample.seq
             i == sample.path
             d == sample.payload
             p == Packet(k, t, n, d)
             c == WithMultipath(p, i)
  <2>3. /\ k \in Kind /\ t \in Word /\ n \in Word /\ i \in Octet /\ d \in Seq(Octet)
        /\ 0 \in Octet
    BY <2>1, <2>2, SMT DEF Octet
  <2> HIDE DEF k, t, n, i, d
  <2>4. p = Fields(t, n, Flags(k), 0, d) /\ c = Fields(t, n, Flags(k) + 1, i, d)
    BY <2>3, MadeOf
  <2>5. Flags(k) \in Octet /\ Flags(k) + 0 = Flags(k) /\ Flags(k) + 1 \in Octet
    <3>1. Flags(k) + 0 = Flags(k)
      BY SMT DEF Flags
    <3>2. Flags(k) + 0 \in Octet /\ Flags(k) + 1 \in Octet
      BY <2>3, FlagsTell
    <3> QED
      BY <3>1, <3>2
  <2>6. Parse(Encode(p)) = p /\ Parse(Encode(c)) = c
    <3>1. Parse(Encode(p)) = p
      BY <2>3, <2>4, <2>5, ReadBack
    <3>2. Parse(Encode(c)) = c
      BY <2>3, <2>4, <2>5, ReadBack
    <3> QED
      BY <3>1, <3>2
  <2>7. KindOf(p) = k /\ KindOf(c) = k
    BY <2>3, <2>4, <2>5, KindKept
  <2> QED
    BY <2>1, <2>6, <2>7, Zenon DEF WireRoundTrip, k, t, n, i, d
<1>2. ASSUME sample \in [of : {"bytes"}, data : Payloads]
      PROVE  WireRoundTrip
  <2>1. sample.of = "bytes"
    BY <1>2
  <2> QED
    BY <2>1 DEF WireRoundTrip, Parse
<1> QED
  BY <1>1, <1>2 DEF WireInit

\* What client or relay writes the other reads as the same packet and of the same
\* kind, for all 32-bit numbers and all payloads; shorter data is no packet
\* (protocol.rs:3).
THEOREM HeaderReadBack == WireSpec => []WireRoundTrip
<1>1. WireInit => WireRoundTrip
  BY InitRoundTrip
<1>2. WireRoundTrip /\ [UNCHANGED sample]_sample => WireRoundTrip'
  BY Zenon DEF WireRoundTrip
<1> QED
  BY <1>1, <1>2, PTL DEF WireSpec
-----------------------------------------------------------------------------
(* Induction.  The theorems of the library are stated for predicates; these *)
(* two, for sets, follow from the well-ordering of the numbers.             *)

\* A set of numbers that is not empty has a least one.
LEMMA Least ==
  ASSUME NEW T, T \subseteq Nat, T # {}
  PROVE  \E n \in T : \A m \in T : n <= m
<1>1. PICK x \in T : \A y \in T : <<y, x>> \notin OpToRel(<, Nat)
  BY NatLessThanWellFounded, WFMin
<1>2. ASSUME NEW y \in T PROVE x <= y
  <2>1. x \in Nat /\ y \in Nat
    OBVIOUS
  <2>2. ~(y < x)
    BY <1>1, <2>1 DEF OpToRel
  <2> QED
    BY <2>1, <2>2
<1> QED
  BY <1>1, <1>2

\* A set with zero, and with the successor of each number in it, has them all.
LEMMA Induction ==
  ASSUME NEW S, 0 \in S, \A n \in Nat : n \in S => n + 1 \in S
  PROVE  Nat \subseteq S
<1> SUFFICES ASSUME Nat \ S # {} PROVE FALSE
  OBVIOUS
<1>1. PICK n \in Nat \ S : \A m \in Nat \ S : n <= m
  BY Least
<1>2. n # 0 /\ n - 1 \in Nat
  BY SMT
<1>3. n - 1 \in S
  BY <1>1, <1>2
<1> QED
  BY <1>1, <1>2, <1>3

\* Bits that are not none have a highest one.
LEMMA Highest ==
  ASSUME NEW S, S \subseteq Bits, S # {}
  PROVE  \E i \in S : \A j \in S : j <= i
<1> DEFINE T == {Width - i : i \in S}
<1>0. Width \in Nat
  BY FilterAssumption
<1>1. T \subseteq Nat /\ T # {}
  BY <1>0, SMT DEF Bits
<1>2. PICK n \in T : \A m \in T : n <= m
  BY <1>1, Least
<1>3. PICK i \in S : n = Width - i
  OBVIOUS
<1>4. ASSUME NEW j \in S PROVE j <= i
  <2>1. Width - i <= Width - j
    BY <1>2, <1>3
  <2>2. i \in Int /\ j \in Int
    BY DEF Bits
  <2> QED
    BY <1>0, <2>1, <2>2
<1> QED
  BY <1>4

\* The order of addresses is strict.
LEMMA OneWay ==
  ASSUME NEW a \in Addresses, NEW b \in Addresses, Below(a, b), AtMost(b, a)
  PROVE  FALSE
<1>1. PICK i \in b \ a : \A j \in Bits : j > i => (j \in a <=> j \in b)
  BY DEF Below
<1>2. i \in Bits /\ i \in Int
  BY DEF Addresses, Bits
<1>3. PICK k \in a \ b : \A j \in Bits : j > k => (j \in b <=> j \in a)
  <2>1. b # a
    BY <1>1
  <2> QED
    BY <2>1 DEF AtMost, Below
<1>4. k \in Bits /\ k \in Int
  BY DEF Addresses, Bits
<1>5. ~(k > i) /\ ~(i > k)
  BY <1>1, <1>2, <1>3, <1>4, Zenon
<1>6. k = i
  BY <1>2, <1>4, <1>5, SMT
<1> QED
  BY <1>1, <1>3, <1>6

\* A set is at most what includes it.
LEMMA Included ==
  ASSUME NEW a \in Addresses, NEW b \in Addresses, a \subseteq b
  PROVE  AtMost(a, b)
<1>1. CASE a = b
  BY <1>1 DEF AtMost
<1>2. CASE a # b
  <2>1. b \ a # {} /\ b \ a \subseteq Bits
    BY <1>2 DEF Addresses
  <2>2. PICK i \in b \ a : \A j \in b \ a : j <= i
    BY <2>1, Highest
  <2>3. ASSUME NEW j \in Bits, j > i PROVE j \in a <=> j \in b
    <3>1. i \in Int /\ j \in Int /\ ~(j <= i)
      BY <2>1, <2>3 DEF Bits
    <3> QED
      BY <2>2, <3>1
  <2> QED
    BY <2>2, <2>3 DEF AtMost, Below
<1> QED
  BY <1>1, <1>2

\* The mask of a legal prefix has the bits of the prefix, and no others.
LEMMA MaskBits ==
  ASSUME NEW n \in Nat, n <= Width
  PROVE  Mask(n) = {b \in Bits : b >= Width - n}
<1>0. Width \in Nat /\ n \in Nat
  BY FilterAssumption
<1>1. CASE n = 0
  BY <1>0, <1>1, SMT DEF Mask, Bits
<1>2. CASE n # 0
  <2>1. ASSUME NEW b \in Bits, b >= Width - n PROVE b \in ShiftLeft(Bits, Width - n)
    <3>1. b - (Width - n) \in Bits /\ b = (b - (Width - n)) + (Width - n)
      BY <1>0, <2>1, SMT DEF Bits
    <3> QED
      BY <3>1, Zenon DEF ShiftLeft
  <2>2. ASSUME NEW b \in ShiftLeft(Bits, Width - n) PROVE b \in Bits /\ b >= Width - n
    BY <1>0, SMT DEF ShiftLeft, Bits
  <2> QED
    BY <1>2, <2>1, <2>2, Zenon DEF Mask
<1> QED
  BY <1>1, <1>2

\* The address has the entry's prefix.
Prefixed(e, ip) == \A b \in Bits : b >= Width - e.prefix => (b \in ip <=> b \in e.ip)

\* An address is in an entry's range when it has its prefix.
LEMMA RangeIsPrefix ==
  ASSUME NEW e \in Cidr, e.prefix <= Width, NEW ip \in Addresses
  PROVE  /\ IpRange(e) \in Addresses \X Addresses
         /\ AtMost(IpRange(e)[1], ip) /\ AtMost(ip, IpRange(e)[2]) <=> Prefixed(e, ip)
<1> DEFINE mask == Mask(e.prefix)
           start == e.ip \cap mask
           end == start \cup (Bits \ mask)
<1>0. e.ip \in Addresses /\ e.prefix \in Nat /\ Width \in Nat
  BY FilterAssumption DEF Cidr
<1>1. \A b \in Bits : b \in mask <=> b >= Width - e.prefix
  BY <1>0, MaskBits
<1>2. IpRange(e) = <<start, end>>
  BY <1>0, SMT DEF IpRange
<1> HIDE DEF mask
<1>3. start \in Addresses /\ end \in Addresses
  BY <1>0 DEF Addresses
<1>4. ASSUME Prefixed(e, ip) PROVE AtMost(start, ip) /\ AtMost(ip, end)
  <2>1. start \subseteq ip /\ ip \subseteq end
    BY <1>0, <1>1, <1>4 DEF Prefixed, Addresses
  <2> QED
    BY <1>3, <2>1, Included
<1>5. ASSUME AtMost(start, ip), AtMost(ip, end), ~Prefixed(e, ip) PROVE FALSE
  <2> DEFINE D == {b \in mask \cap Bits : ~(b \in ip <=> b \in e.ip)}
  <2>1. D \subseteq Bits /\ D # {}
    BY <1>1, <1>5 DEF Prefixed
  <2>2. PICK i \in D : \A j \in D : j <= i
    BY <2>1, Highest
  <2>3. ASSUME NEW j \in Bits, j > i
        PROVE  /\ j \in mask
               /\ j \in ip <=> j \in start
               /\ j \in ip <=> j \in end
    <3>1. i \in Int /\ j \in Int /\ i >= Width - e.prefix
      BY <1>1, <2>2 DEF Bits
    <3>2. j >= Width - e.prefix /\ ~(j <= i)
      BY <1>0, <2>3, <3>1
    <3>3. j \in mask /\ j \notin D
      BY <1>1, <2>2, <3>2, Zenon
    <3> QED
      BY <3>3
  <2>4. CASE i \in ip
    <3>1. i \notin end
      BY <2>4
    <3>2. Below(end, ip)
      BY <2>3, <2>4, <3>1, Zenon DEF Below
    <3> QED
      BY <1>3, <1>5, <3>2, OneWay
  <2>5. CASE i \notin ip
    <3>1. i \in start
      BY <2>5
    <3>2. Below(ip, start)
      BY <2>3, <2>5, <3>1, Zenon DEF Below
    <3> QED
      BY <1>3, <1>5, <3>2, OneWay
  <2> QED
    BY <2>4, <2>5
<1> QED
  BY <1>2, <1>3, <1>4, <1>5

\* A range is not an error.
LEMMA NoError ==
  /\ \A x \in Addresses \X Addresses : x # Error
  /\ \A x \in FilterPorts \X FilterPorts : x # Error
  BY FilterAssumption, Zenon

\* What a filter is built for, and what it is to match.
Legal(es, rs) ==
  /\ es # <<>> /\ rs # <<>>
  /\ \A i \in DOMAIN es : es[i].prefix <= Width
  /\ \A j \in DOMAIN rs : rs[j][1] <= rs[j][2]

Wanted(es, rs) ==
  {x \in Addresses \X FilterPorts :
     /\ \E i \in DOMAIN es : Prefixed(es[i], x[1])
     /\ \E j \in DOMAIN rs : x[2] \in rs[j][1] .. rs[j][2]}

\* The filter of any profile.
LEMMA FilterRight ==
  ASSUME NEW es \in Seq(Cidr), NEW rs \in Seq(FilterPorts \X FilterPorts)
  PROVE  Filter(es, rs) = IF Legal(es, rs) THEN Wanted(es, rs) ELSE Error
<1> DEFINE ips == [i \in DOMAIN es |-> IpRange(es[i])]
           ports == [j \in DOMAIN rs |-> PortRange(rs[j][1], rs[j][2])]
<1>1. Width \in Nat /\ TopPort \in Nat
  BY FilterAssumption
<1>2. \A i \in DOMAIN es : es[i] \in Cidr /\ es[i].prefix \in Nat
  <2>1. \A i \in DOMAIN es : es[i] \in Cidr
    BY ElementOfSeq, LenProperties
  <2> QED
    BY <2>1 DEF Cidr
<1>3. ASSUME NEW j \in DOMAIN rs
      PROVE  /\ <<rs[j][1], rs[j][2]>> \in FilterPorts \X FilterPorts
             /\ rs[j][1] \in Nat /\ rs[j][2] \in Nat
  <2>1. rs[j] \in FilterPorts \X FilterPorts
    BY ElementOfSeq, LenProperties
  <2>2. rs[j][1] \in FilterPorts /\ rs[j][2] \in FilterPorts
    BY <2>1
  <2> QED
    BY <1>1, <2>2 DEF FilterPorts
<1>4. ASSUME NEW i \in DOMAIN es PROVE ips[i] = Error <=> ~(es[i].prefix <= Width)
  <2>1. CASE es[i].prefix <= Width
    <3>1. IpRange(es[i]) \in Addresses \X Addresses
      <4>1. \A e \in Cidr, ip \in Addresses :
              e.prefix <= Width => IpRange(e) \in Addresses \X Addresses
        BY RangeIsPrefix
      <4>2. {} \in Addresses
        BY DEF Addresses
      <4> QED
        BY <1>2, <2>1, <4>1, <4>2
    <3> QED
      BY <2>1, <3>1, NoError, Zenon
  <2>2. CASE ~(es[i].prefix <= Width)
    <3>1. es[i].prefix > Width
      BY <1>1, <1>2, <2>2
    <3> QED
      BY <2>2, <3>1, Zenon DEF IpRange
  <2> QED
    BY <2>1, <2>2
<1>5. ASSUME NEW j \in DOMAIN rs PROVE ports[j] = Error <=> ~(rs[j][1] <= rs[j][2])
  <2>1. <<rs[j][1], rs[j][2]>> # Error
    BY <1>3, NoError, Zenon
  <2>2. rs[j][1] > rs[j][2] <=> ~(rs[j][1] <= rs[j][2])
    BY <1>3
  <2> QED
    BY <2>1, <2>2, Zenon DEF PortRange
<1>6. CASE ~Legal(es, rs)
  <2>1. \/ es = <<>> \/ rs = <<>>
        \/ \E i \in DOMAIN ips : ips[i] = Error
        \/ \E j \in DOMAIN ports : ports[j] = Error
    <3>1. DOMAIN ips = DOMAIN es /\ DOMAIN ports = DOMAIN rs
      OBVIOUS
    <3> HIDE DEF ips, ports
    <3> QED
      BY <1>4, <1>5, <1>6, <3>1, Zenon DEF Legal
  <2> QED
    BY <1>6, <2>1, Zenon DEF Filter
<1>7. CASE Legal(es, rs)
  <2>1. DOMAIN ips = DOMAIN es /\ DOMAIN ports = DOMAIN rs
    OBVIOUS
  <2>2. Filter(es, rs) = {x \in Addresses \X FilterPorts : Matches(ips, ports, x[1], x[2])}
    <3>1. ~(\/ es = <<>> \/ rs = <<>>
            \/ \E i \in DOMAIN ips : ips[i] = Error
            \/ \E j \in DOMAIN ports : ports[j] = Error)
      <4> HIDE DEF ips, ports
      <4> QED
        BY <1>4, <1>5, <1>7, <2>1, Zenon DEF Legal
    <3> QED
      BY <3>1, Zenon DEF Filter
  <2>3. ASSUME NEW ip \in Addresses, NEW i \in DOMAIN es
        PROVE  AtMost(ips[i][1], ip) /\ AtMost(ip, ips[i][2]) <=> Prefixed(es[i], ip)
    <3>1. es[i] \in Cidr /\ es[i].prefix <= Width
      BY <1>2, <1>7 DEF Legal
    <3> QED
      BY <3>1, RangeIsPrefix
  <2>4. ASSUME NEW port \in FilterPorts, NEW j \in DOMAIN rs
        PROVE  ports[j][1] <= port /\ port <= ports[j][2] <=> port \in rs[j][1] .. rs[j][2]
    <3>1. ~(rs[j][1] > rs[j][2])
      BY <1>3, <1>7 DEF Legal
    <3>2. ports[j] = <<rs[j][1], rs[j][2]>>
      BY <3>1, Zenon DEF PortRange
    <3>3. ports[j][1] = rs[j][1] /\ ports[j][2] = rs[j][2]
      BY <3>2
    <3>4. port \in Int
      BY <1>1 DEF FilterPorts
    <3> HIDE DEF ports
    <3> QED
      BY <1>3, <3>3, <3>4
  <2>5. ASSUME NEW x \in Addresses \X FilterPorts
        PROVE  Matches(ips, ports, x[1], x[2])
                 <=> /\ \E i \in DOMAIN es : Prefixed(es[i], x[1])
                     /\ \E j \in DOMAIN rs : x[2] \in rs[j][1] .. rs[j][2]
    <3>1. x[1] \in Addresses /\ x[2] \in FilterPorts
      OBVIOUS
    <3> HIDE DEF ips, ports
    <3> QED
      BY <2>1, <2>3, <2>4, <3>1, Zenon DEF Matches
  <2> QED
    BY <1>7, <2>2, <2>5, Zenon DEF Wanted
<1> QED
  BY <1>6, <1>7

\* The filter of a profile matches the packets whose address has an entry's prefix and
\* whose port lies in a range, and no others, whatever the width of an address and
\* the lists of the profile; for a profile that is not legal there is none
\* (filter_builder.rs:61).
THEOREM FiltersMatch == BuildersSpec => []FilterMatchesProfile
<1>1. BuildersInit => FilterMatchesProfile
  <2>1. ASSUME sample.of = "filter", sample.entries \in Cidrs, sample.ranges \in Ranges
        PROVE  FilterMatchesProfile
    <3>1. /\ sample.entries \in Seq(Cidr)
          /\ sample.ranges \in Seq(FilterPorts \X FilterPorts)
      BY <2>1, FilterAssumption, Zenon
    <3>2. Filter(sample.entries, sample.ranges)
            = IF Legal(sample.entries, sample.ranges)
              THEN Wanted(sample.entries, sample.ranges) ELSE Error
      BY <3>1, FilterRight, Zenon
    <3> QED
      BY <3>2, Zenon DEF FilterMatchesProfile, Legal, Wanted, Prefixed
  <2>2. BuildersInit =>
          \/ sample.of # "filter"
          \/ sample.of = "filter" /\ sample.entries \in Cidrs /\ sample.ranges \in Ranges
    BY DEF BuildersInit, WireInit
  <2>3. sample.of # "filter" => FilterMatchesProfile
    BY DEF FilterMatchesProfile
  <2> QED
    BY <2>1, <2>2, <2>3
<1>2. FilterMatchesProfile /\ [UNCHANGED sample]_sample => FilterMatchesProfile'
  BY DEF FilterMatchesProfile
<1> QED
  BY <1>1, <1>2, PTL DEF BuildersSpec
-----------------------------------------------------------------------------
(* Carries.                                                                 *)

\* One turn of the loop that adds the carry.
LEMMA CarryAdded ==
  ASSUME NEW n \in Nat, ~(n < 65536)
  PROVE  /\ (n % 65536) + (n \div 65536) \in Nat
         /\ (n % 65536) + (n \div 65536) # 0
         /\ (n % 65536) + (n \div 65536) < n
         /\ ((n % 65536) + (n \div 65536)) % 65535 = n % 65535
         /\ (((n % 65536) + (n \div 65536)) - 1) % 65535 = (n - 1) % 65535
<1> DEFINE q == n \div 65536
           r == n % 65536
<1>1. q \in Nat /\ r \in Nat /\ n = 65536 * q + r /\ q > 0
  BY SMT
<1> HIDE DEF q, r
<1>2. q + r \in Nat /\ q + r # 0 /\ q + r < n
  BY <1>1, SMT
<1>3. n = 65535 * q + (q + r)
  BY <1>1, SMT
<1>4. \A m \in Nat : (65535 * q + m) % 65535 = m % 65535
  BY <1>1, SMT
<1>5. n % 65535 = (q + r) % 65535
  BY <1>2, <1>3, <1>4, SMT
<1>6. (n - 1) % 65535 = (q + r - 1) % 65535
  <2>1. q + r - 1 \in Nat /\ n - 1 = 65535 * q + (q + r - 1)
    BY <1>1, <1>2, <1>3, SMT
  <2> QED
    BY <1>4, <2>1, SMT
<1> QED
  BY <1>1, <1>2, <1>5, <1>6, SMT DEF q, r

\* The loop ends, whatever it starts from.
LEMMA FoldedDefined ==
  \A n \in Nat :
    Folded[n] = IF n < 65536 THEN n ELSE Folded[(n % 65536) + (n \div 65536)]
<1> DEFINE closed(n) == IF n = 0 THEN 0 ELSE ((n - 1) % 65535) + 1
           G == [n \in Nat |-> closed(n)]
           Next(f) == [n \in Nat |-> IF n < 65536 THEN n
                                     ELSE f[(n % 65536) + (n \div 65536)]]
<1>1. ASSUME NEW n \in Nat PROVE closed(n) = Next(G)[n]
  <2>1. CASE n < 65536
    BY <2>1, SMT
  <2>2. CASE ~(n < 65536)
    <3> DEFINE m == (n % 65536) + (n \div 65536)
    <3>1. m \in Nat /\ m # 0 /\ (m - 1) % 65535 = (n - 1) % 65535 /\ n # 0
      BY <2>2, CarryAdded, SMT
    <3>2. Next(G)[n] = G[m]
      BY <2>2, SMT
    <3> HIDE DEF m
    <3> QED
      BY <3>1, <3>2, SMT
  <2> QED
    BY <2>1, <2>2
<1>2. G = Next(G)
  BY <1>1
<1>3. Folded = CHOOSE f : f = Next(f)
  BY DEF Folded
<1> HIDE DEF G, Next
<1>4. Folded = Next(Folded)
  BY <1>2, <1>3
<1> QED
  BY <1>4 DEF Next

\* 16 bits with the remainder by 65535 of a sum.
Kept(n, sum) == sum \in Nat /\ sum < 65536 /\ sum % 65535 = n % 65535

\* What is left of a sum has 16 bits, and the same remainder.
LEMMA FoldedKeeps ==
  ASSUME NEW n \in Nat
  PROVE  Kept(n, Folded[n])
<1>1. ASSUME NEW k \in Nat, k < 65536 PROVE Kept(k, k)
  BY <1>1, SMT DEF Kept
<1>2. ASSUME NEW k \in Nat, NEW m \in Nat, NEW x, m % 65535 = k % 65535, Kept(m, x)
      PROVE  Kept(k, x)
  BY <1>2, SMT DEF Kept
<1> DEFINE T == {k \in Nat : ~Kept(k, Folded[k])}
<1>4. ASSUME NEW k \in Nat, \A j \in Nat : j < k => Kept(j, Folded[j])
      PROVE  Kept(k, Folded[k])
  <2>1. CASE k < 65536
    <3>1. Folded[k] = k
      BY <2>1, FoldedDefined, SMT
    <3> QED
      BY <1>1, <2>1, <3>1
  <2>2. CASE ~(k < 65536)
    <3> DEFINE m == (k % 65536) + (k \div 65536)
    <3>1. m \in Nat /\ m < k /\ m % 65535 = k % 65535
      BY <2>2, CarryAdded, SMT
    <3>2. Folded[k] = Folded[m]
      BY <2>2, FoldedDefined, SMT
    <3> HIDE DEF m
    <3>3. Kept(m, Folded[m])
      BY <1>4, <3>1
    <3> QED
      BY <1>2, <3>1, <3>2, <3>3
  <2> QED
    BY <2>1, <2>2
<1>5. ASSUME T # {} PROVE FALSE
  <2>1. T \subseteq Nat
    OBVIOUS
  <2>2. \E k \in T : \A j \in T : k <= j
    <3> HIDE DEF T
    <3> QED
      BY <1>5, <2>1, Least
  <2>3. PICK k \in T : \A j \in T : k <= j
    BY <2>2
  <2>4. ASSUME NEW j \in Nat, j < k PROVE Kept(j, Folded[j])
    <3>1. k \in Nat /\ ~(k <= j)
      BY <2>1, <2>3, <2>4
    <3> QED
      BY <2>3, <3>1
  <2> QED
    BY <1>4, <2>1, <2>3, <2>4
<1> QED
  BY <1>5
-----------------------------------------------------------------------------
(* Sums.                                                                    *)

\* g holds the sum after each number of s.
Sums(g, s) ==
  /\ g \in [0 .. Len(s) -> Nat] /\ g[0] = 0
  /\ \A i \in 1 .. Len(s) : g[i] = g[i - 1] + s[i]

\* There are such sums, and Running gives them.
LEMMA RunningSums ==
  ASSUME NEW s \in Seq(Nat)
  PROVE  Sums(Running(s), s)
<1> DEFINE n == Len(s)
           Add(f) == [i \in 0 .. n |-> IF i = 0 THEN 0 ELSE f[i - 1] + s[i]]
           Upto(g, m) == /\ g \in [0 .. m -> Nat] /\ g[0] = 0
                         /\ \A i \in 1 .. m : g[i] = g[i - 1] + s[i]
           S == {m \in Nat : m <= n => \E g : Upto(g, m)}
<1>1. n \in Nat /\ \A i \in 1 .. n : s[i] \in Nat
  BY LenProperties, ElementOfSeq
<1>2. 0 \in S
  <2>1. Upto([i \in 0 .. 0 |-> 0], 0)
    OBVIOUS
  <2> QED
    BY <2>1
<1>3. ASSUME NEW m \in Nat, m \in S, m + 1 <= n PROVE \E g : Upto(g, m + 1)
  <2>1. m <= n
    BY <1>1, <1>3
  <2>2. PICK g : Upto(g, m)
    BY <1>3, <2>1
  <2> DEFINE h == [i \in 0 .. m + 1 |-> IF i = m + 1 THEN g[m] + s[m + 1] ELSE g[i]]
  <2>3. m + 1 \in 1 .. n /\ s[m + 1] \in Nat /\ g[m] \in Nat
    BY <1>1, <1>3, <2>2
  <2>4. h \in [0 .. m + 1 -> Nat]
    <3>1. ASSUME NEW i \in 0 .. m + 1 PROVE h[i] \in Nat
      BY <2>2, <2>3
    <3> QED
      BY <3>1
  <2>5. h[0] = 0
    BY <2>2
  <2>6. ASSUME NEW i \in 1 .. m + 1 PROVE h[i] = h[i - 1] + s[i]
    <3>1. CASE i = m + 1
      BY <2>3, <3>1
    <3>2. CASE i # m + 1
      BY <2>2, <3>2
    <3> QED
      BY <3>1, <3>2
  <2> HIDE DEF h
  <2> QED
    BY <2>4, <2>5, <2>6
<1>4. \E g : Upto(g, n)
  <2> HIDE DEF Upto
  <2>1. \A m \in Nat : m \in S => m + 1 \in S
    BY <1>3
  <2>2. Nat \subseteq S
    <3> HIDE DEF S
    <3> QED
      BY <1>2, <2>1, Induction
  <2> QED
    BY <1>1, <2>2
<1> HIDE DEF S
<1>5. PICK g : Upto(g, n)
  BY <1>4
<1>6. g = Add(g)
  BY <1>1, <1>5
<1>7. Running(s) = CHOOSE f : f = Add(f)
  BY DEF Running
<1> DEFINE r == Running(s)
<1>8. r = Add(r)
  <2> HIDE DEF Add
  <2> QED
    BY <1>6, <1>7
<1> HIDE DEF r
<1>9. r[0] = 0 /\ \A i \in 1 .. n : r[i] = r[i - 1] + s[i]
  BY <1>1, <1>8
<1> DEFINE V == {m \in Nat : m <= n => r[m] \in Nat}
<1>10. 0 \in V
  BY <1>9
<1>11. ASSUME NEW m \in Nat, m \in V PROVE m + 1 \in V
  <2> SUFFICES ASSUME m + 1 <= n PROVE r[m + 1] \in Nat
    OBVIOUS
  <2>1. m <= n /\ m + 1 \in 1 .. n /\ (m + 1) - 1 = m
    BY <1>1
  <2>2. r[m] \in Nat /\ s[m + 1] \in Nat
    BY <1>1, <1>11, <2>1
  <2> QED
    BY <1>9, <2>1, <2>2
<1> HIDE DEF V
<1>12. Nat \subseteq V
  BY <1>10, <1>11, Induction
<1>13. \A m \in 0 .. n : r[m] \in Nat
  BY <1>1, <1>12 DEF V
<1>14. r \in [0 .. n -> Nat]
  BY <1>8, <1>13
<1> QED
  BY <1>9, <1>14 DEF Sums, r

\* The sum is a number.
LEMMA SumIsNat ==
  ASSUME NEW s \in Seq(Nat)
  PROVE  Sum(s) \in Nat
<1>1. Len(s) \in Nat
  BY LenProperties
<1> QED
  BY <1>1, RunningSums DEF Sum, Sums

\* A word that is changed changes the sum by the difference.
LEMMA SumPut ==
  ASSUME NEW s \in Seq(Nat), NEW k \in 1 .. Len(s), NEW x \in Nat
  PROVE  /\ [s EXCEPT ![k] = x] \in Seq(Nat)
         /\ Sum([s EXCEPT ![k] = x]) + s[k] = Sum(s) + x
<1> DEFINE t == [s EXCEPT ![k] = x]
           n == Len(s)
           f == Running(s)
           g == Running(t)
<1>1. /\ t \in Seq(Nat) /\ Len(t) = n /\ n \in Nat /\ k \in Int
      /\ \A i \in 1 .. n : t[i] = IF i = k THEN x ELSE s[i]
      /\ \A i \in 1 .. n : s[i] \in Nat
  BY ExceptSeq, LenProperties, ElementOfSeq
<1> HIDE DEF t
<1>2. Sums(f, s) /\ Sums(g, t)
  BY <1>1, RunningSums
<1> HIDE DEF f, g
<1> DEFINE S == {m \in Nat : m <= n =>
                   IF m < k THEN g[m] = f[m] ELSE g[m] + s[k] = f[m] + x}
<1>3. 0 \in S
  BY <1>2 DEF Sums
<1>4. ASSUME NEW m \in Nat, m \in S PROVE m + 1 \in S
  <2> SUFFICES ASSUME m + 1 <= n
               PROVE  IF m + 1 < k THEN g[m + 1] = f[m + 1]
                      ELSE g[m + 1] + s[k] = f[m + 1] + x
    OBVIOUS
  <2>1. m <= n /\ m + 1 \in 1 .. n /\ (m + 1) - 1 = m /\ m \in 0 .. n /\ m + 1 \in 0 .. n
    BY <1>1
  <2>2. g[m + 1] = g[m] + t[m + 1] /\ f[m + 1] = f[m] + s[m + 1]
    BY <1>1, <1>2, <2>1, Zenon DEF Sums
  <2>3. f[m] \in Nat /\ g[m] \in Nat /\ s[m + 1] \in Nat /\ s[k] \in Nat
    BY <1>1, <1>2, <2>1 DEF Sums
  <2>4. IF m < k THEN g[m] = f[m] ELSE g[m] + s[k] = f[m] + x
    BY <1>4, <2>1
  <2>5. t[m + 1] = IF m + 1 = k THEN x ELSE s[m + 1]
    BY <1>1, <2>1
  <2>6. CASE m + 1 < k
    BY <1>1, <2>2, <2>4, <2>5, <2>6
  <2>7. CASE m + 1 = k
    <3>1. g[m + 1] = f[m] + x /\ f[m + 1] = f[m] + s[k]
      BY <1>1, <2>2, <2>4, <2>5, <2>7
    <3> QED
      BY <1>1, <2>3, <2>7, <3>1
  <2>8. CASE m + 1 > k
    <3>1. g[m] + s[k] = f[m] + x /\ g[m + 1] = g[m] + s[m + 1]
      BY <1>1, <2>2, <2>4, <2>5, <2>8
    <3> QED
      <4>1. f[m + 1] = f[m] + s[m + 1] /\ ~(m + 1 < k)
        BY <1>1, <2>2, <2>8
      <4> DEFINE p == g[m]
                 q == f[m]
                 y == s[k]
                 z == s[m + 1]
      <4>2. p \in Nat /\ q \in Nat /\ y \in Nat /\ z \in Nat /\ x \in Nat /\ p + y = q + x
        BY <2>3, <3>1
      <4> HIDE DEF p, q, y, z
      <4>3. (p + z) + y = (q + z) + x
        BY <4>2
      <4>4. g[m + 1] + s[k] = f[m + 1] + x
        BY <3>1, <4>1, <4>3, Zenon DEF p, q, y, z
      <4> QED
        BY <4>1, <4>4
  <2> QED
    BY <1>1, <2>6, <2>7, <2>8
<1> HIDE DEF S
<1>5. n \in S
  BY <1>1, <1>3, <1>4, Induction
<1>6. g[n] + s[k] = f[n] + x
  BY <1>1, <1>5 DEF S
<1> QED
  BY <1>1, <1>6 DEF Sum, f, g, t

\* The sum of two sequences, one after the other.
LEMMA SumJoined ==
  ASSUME NEW s \in Seq(Nat), NEW t \in Seq(Nat)
  PROVE  Sum(s \o t) = Sum(s) + Sum(t)
<1> DEFINE u == s \o t
           a == Len(s)
           b == Len(t)
           f == Running(s)
           g == Running(t)
           h == Running(u)
<1>1. /\ u \in Seq(Nat) /\ Len(u) = a + b
      /\ \A i \in 1 .. a : u[i] = s[i]
      /\ \A i \in 1 .. b : u[a + i] = t[i]
  BY Joined
<1>2. /\ a \in Nat /\ b \in Nat
      /\ \A i \in 1 .. a : s[i] \in Nat
      /\ \A i \in 1 .. b : t[i] \in Nat
  BY LenProperties, ElementOfSeq
<1> HIDE DEF u
<1>3. Sums(f, s) /\ Sums(g, t) /\ Sums(h, u)
  BY <1>1, RunningSums
<1> HIDE DEF f, g, h
<1> DEFINE S == {m \in Nat : m <= a => h[m] = f[m]}
           T == {m \in Nat : m <= b => h[a + m] = f[a] + g[m]}
<1>4. 0 \in S
  BY <1>3 DEF Sums
<1>5. ASSUME NEW m \in Nat, m \in S PROVE m + 1 \in S
  <2> SUFFICES ASSUME m + 1 <= a PROVE h[m + 1] = f[m + 1]
    OBVIOUS
  <2>1. /\ m <= a /\ m + 1 \in 1 .. a /\ (m + 1) - 1 = m
        /\ m + 1 \in 1 .. Len(u)
    BY <1>1, <1>2
  <2>2. h[m + 1] = h[m] + u[m + 1] /\ f[m + 1] = f[m] + s[m + 1]
    BY <1>3, <2>1, Zenon DEF Sums
  <2> QED
    BY <1>1, <1>5, <2>1, <2>2
<1> HIDE DEF S
<1>6. h[a] = f[a]
  <2>1. a \in S
    BY <1>2, <1>4, <1>5, Induction
  <2> QED
    BY <1>2, <2>1 DEF S
<1>7. 0 \in T /\ f[a] \in Nat
  <2>1. f \in [0 .. a -> Nat] /\ a \in 0 .. a /\ g[0] = 0
    BY <1>2, <1>3 DEF Sums
  <2> QED
    BY <1>2, <1>6, <2>1
<1>8. ASSUME NEW m \in Nat, m \in T PROVE m + 1 \in T
  <2> SUFFICES ASSUME m + 1 <= b PROVE h[a + (m + 1)] = f[a] + g[m + 1]
    OBVIOUS
  <2>1. /\ m <= b /\ m + 1 \in 1 .. b /\ (m + 1) - 1 = m /\ m \in 0 .. b
        /\ a + (m + 1) \in 1 .. Len(u) /\ (a + (m + 1)) - 1 = a + m
    BY <1>1, <1>2
  <2>2. h[a + (m + 1)] = h[a + m] + u[a + (m + 1)] /\ g[m + 1] = g[m] + t[m + 1]
    BY <1>3, <2>1, Zenon DEF Sums
  <2>3. f[a] \in Nat /\ g[m] \in Nat /\ t[m + 1] \in Nat
    BY <1>2, <1>3, <1>7, <2>1 DEF Sums
  <2>4. h[a + m] = f[a] + g[m] /\ u[a + (m + 1)] = t[m + 1]
    BY <1>1, <1>8, <2>1
  <2> QED
    BY <2>2, <2>3, <2>4
<1> HIDE DEF T
<1>9. h[a + b] = f[a] + g[b]
  <2>1. b \in T
    BY <1>2, <1>7, <1>8, Induction
  <2> QED
    BY <1>2, <2>1 DEF T
<1> QED
  BY <1>1, <1>9 DEF Sum, f, g, h, u
-----------------------------------------------------------------------------
(* Words, and the checksum among them.                                      *)

\* Numbers of 16 bits.
Short(n) == n \in Nat /\ n < 65536

\* The complement of zero, which is sent for zero.
Ones == 65535
Sent(sum, d) == d = sum \/ (sum = 0 /\ d = Ones)

\* A sum that verifies.
MinusZero(n) == n % 65535 = 0

\* How many words there are, and each of them.
Half(n) == (n + 1) \div 2
WordAt(o, i) == 256 * o[2 * i - 1] + IF 2 * i <= Len(o) THEN o[2 * i] ELSE 0

\* The words of octets are numbers.
LEMMA WordsOf ==
  ASSUME NEW o \in Seq(Octet)
  PROVE  /\ Words(o) \in Seq(Nat) /\ Len(Words(o)) = Half(Len(o))
         /\ \A i \in 1 .. Half(Len(o)) : Words(o)[i] = WordAt(o, i)
<1> DEFINE n == Half(Len(o))
<1>1. Len(o) \in Nat /\ n \in Nat /\ 2 * n <= Len(o) + 1
  <2>1. Len(o) \in Nat
    BY LenProperties
  <2> QED
    BY <2>1 DEF Half
<1>2. \A i \in 1 .. Len(o) : o[i] \in Nat
  <2>1. \A i \in 1 .. Len(o) : o[i] \in Octet
    BY ElementOfSeq
  <2>2. Octet \subseteq Nat
    BY DEF Octet
  <2> QED
    BY <2>1, <2>2
<1>3. Words(o) = [i \in 1 .. n |-> WordAt(o, i)]
  BY DEF Words, WordAt, Half
<1> HIDE DEF n
<1>4. ASSUME NEW i \in 1 .. n PROVE WordAt(o, i) \in Nat
  <2>1. 2 * i - 1 \in 1 .. Len(o) /\ (2 * i <= Len(o) => 2 * i \in 1 .. Len(o))
    BY <1>1
  <2>2. o[2 * i - 1] \in Nat /\ (2 * i <= Len(o) => o[2 * i] \in Nat)
    BY <1>2, <2>1
  <2> QED
    BY <2>2 DEF WordAt
<1>5. Words(o) \in [1 .. n -> Nat]
  BY <1>3, <1>4
<1>6. Words(o) \in Seq(Nat) /\ Len(Words(o)) = n
  BY <1>1, <1>5, IsASeq, LenProperties
<1>7. \A i \in 1 .. n : Words(o)[i] = WordAt(o, i)
  BY <1>3
<1> QED
  BY <1>6, <1>7 DEF n

\* The words of what follows an even number of octets are words of their own.
LEMMA WordsJoined ==
  ASSUME NEW o \in Seq(Octet), NEW p \in Seq(Octet), NEW h \in Nat, Len(o) = 2 * h
  PROVE  Words(o \o p) = Words(o) \o Words(p)
<1> DEFINE q == o \o p
           v == Words(o) \o Words(p)
           k == Half(Len(p))
<1>1. /\ q \in Seq(Octet) /\ Len(q) = Len(o) + Len(p)
      /\ \A i \in 1 .. Len(o) : q[i] = o[i]
      /\ \A i \in 1 .. Len(p) : q[Len(o) + i] = p[i]
  <2>1. q \in Seq(Octet) /\ Len(q) = Len(o) + Len(p)
    BY Joined, ZenonT(30)
  <2>2. ASSUME NEW i \in 1 .. Len(o) PROVE q[i] = o[i]
    BY Joined
  <2>3. ASSUME NEW i \in 1 .. Len(p) PROVE q[Len(o) + i] = p[i]
    BY Joined
  <2> QED
    BY <2>1, <2>2, <2>3
<1>2. Len(p) \in Nat /\ Len(o) \in Nat
  BY LenProperties
<1> HIDE DEF q
<1>3. /\ k \in Nat /\ 2 * k >= Len(p) /\ 2 * k <= Len(p) + 1
      /\ Half(Len(o)) = h /\ Half(Len(q)) = h + k
  BY <1>1, <1>2 DEF Half
<1> HIDE DEF k
<1>4. /\ Words(o) \in Seq(Nat) /\ Len(Words(o)) = h
      /\ \A i \in 1 .. h : Words(o)[i] = WordAt(o, i)
  BY <1>3, WordsOf
<1>5. /\ Words(p) \in Seq(Nat) /\ Len(Words(p)) = k
      /\ \A i \in 1 .. k : Words(p)[i] = WordAt(p, i)
  BY WordsOf DEF k
<1>6. /\ Words(q) \in Seq(Nat) /\ Len(Words(q)) = h + k
      /\ \A i \in 1 .. h + k : Words(q)[i] = WordAt(q, i)
  BY <1>1, <1>3, WordsOf
<1>7. /\ v \in Seq(Nat) /\ Len(v) = h + k
      /\ \A i \in 1 .. h : v[i] = Words(o)[i]
      /\ \A i \in 1 .. k : v[h + i] = Words(p)[i]
  <2> DEFINE a == Words(o)
             b == Words(p)
  <2>1. a \in Seq(Nat) /\ b \in Seq(Nat) /\ Len(a) = h /\ Len(b) = k
    BY <1>4, <1>5
  <2> HIDE DEF a, b
  <2>2. a \o b \in Seq(Nat) /\ Len(a \o b) = Len(a) + Len(b)
    BY <2>1, Joined, ZenonT(30)
  <2>3. ASSUME NEW i \in 1 .. Len(a) PROVE (a \o b)[i] = a[i]
    BY <2>1, Joined
  <2>4. ASSUME NEW i \in 1 .. Len(b) PROVE (a \o b)[Len(a) + i] = b[i]
    BY <2>1, JoinedLater, Zenon
  <2> QED
    BY <2>1, <2>2, <2>3, <2>4 DEF a, b
<1> HIDE DEF v
<1>8. ASSUME NEW i \in 1 .. h PROVE Words(q)[i] = v[i]
  <2>1. /\ 2 * i - 1 \in 1 .. Len(o) /\ 2 * i \in 1 .. Len(o) /\ i \in 1 .. h + k
        /\ 2 * i <= Len(o) /\ 2 * i <= Len(q)
    BY <1>1, <1>2, <1>3
  <2>2. q[2 * i - 1] = o[2 * i - 1] /\ q[2 * i] = o[2 * i]
    BY <1>1, <2>1
  <2>3. WordAt(q, i) = WordAt(o, i)
    BY <2>1, <2>2 DEF WordAt
  <2> QED
    BY <1>4, <1>6, <1>7, <2>1, <2>3
<1>9. ASSUME NEW i \in 1 .. k PROVE Words(q)[h + i] = v[h + i]
  <2>1. /\ 2 * i - 1 \in 1 .. Len(p) /\ h + i \in 1 .. h + k
        /\ 2 * (h + i) - 1 = Len(o) + (2 * i - 1) /\ 2 * (h + i) = Len(o) + 2 * i
        /\ 2 * i <= Len(p) <=> 2 * (h + i) <= Len(q)
        /\ 2 * i <= Len(p) => 2 * i \in 1 .. Len(p)
    <3> DEFINE m == Len(p)
               l == Len(o)
               t == Len(q)
    <3>1. /\ m \in Nat /\ l = 2 * h /\ t = l + m /\ k \in Nat
          /\ 2 * k <= m + 1 /\ i \in 1 .. k
      BY <1>1, <1>2, <1>3
    <3> HIDE DEF m, l, t
    <3>2. 2 * i - 1 \in 1 .. m /\ h + i \in 1 .. h + k
      BY <3>1
    <3>3. 2 * (h + i) - 1 = l + (2 * i - 1) /\ 2 * (h + i) = l + 2 * i
      BY <3>1
    <3>4. 2 * i <= m <=> 2 * (h + i) <= t
      BY <3>1
    <3>5. 2 * i <= m => 2 * i \in 1 .. m
      BY <3>1
    <3> QED
      BY <3>2, <3>3, <3>4, <3>5 DEF m, l, t
  <2>2. /\ q[2 * (h + i) - 1] = p[2 * i - 1]
        /\ 2 * i <= Len(p) => q[2 * (h + i)] = p[2 * i]
    BY <1>1, <2>1
  <2>3. WordAt(q, h + i) = WordAt(p, i)
    BY <2>1, <2>2, ZenonT(60) DEF WordAt
  <2> QED
    BY <1>5, <1>6, <1>7, <2>1, <2>3
<1>10. \A i \in 1 .. h + k : Words(q)[i] = v[i]
  <2> SUFFICES ASSUME NEW i \in 1 .. h + k, ~(i <= h) PROVE Words(q)[i] = v[i]
    BY <1>3, <1>8
  <2>1. i - h \in 1 .. k /\ h + (i - h) = i
    BY <1>3
  <2> QED
    BY <1>9, <2>1
<1>11. Words(q) = v
  BY <1>6, <1>7, <1>10, SeqEqual
<1> QED
  BY <1>11 DEF q, v

\* A checksum that is filled in is a word of its own, and changes no other octet.
LEMMA FilledIs ==
  ASSUME NEW o \in Seq(Octet), NEW k \in Nat \ {0}, 2 * k <= Len(o),
         NEW c, Short(c)
  PROVE  /\ Filled(o, k, c) \in Seq(Octet) /\ Len(Filled(o, k, c)) = Len(o)
         /\ Filled(o, k, c)[2 * k - 1] = c \div 256 /\ Filled(o, k, c)[2 * k] = c % 256
         /\ \A i \in 1 .. Len(o) :
              i # 2 * k - 1 /\ i # 2 * k => Filled(o, k, c)[i] = o[i]
         /\ Words(Filled(o, k, c)) = [Words(o) EXCEPT ![k] = c]
<1> DEFINE x == c \div 256
           y == c % 256
           a == 2 * k - 1
           b == 2 * k
           o1 == [o EXCEPT ![a] = x]
           f == [o1 EXCEPT ![b] = y]
<1>1. x \in Octet /\ y \in Octet /\ 256 * x + y = c
  BY SMT DEF Octet, Short
<1>2. Len(o) \in Nat /\ a \in 1 .. Len(o) /\ b \in 1 .. Len(o) /\ a # b
  BY LenProperties
<1> HIDE DEF x, y, a, b
<1>3. /\ o1 \in Seq(Octet) /\ Len(o1) = Len(o)
      /\ \A i \in 1 .. Len(o) : o1[i] = IF i = a THEN x ELSE o[i]
  BY <1>1, <1>2, ExceptSeq
<1> HIDE DEF o1
<1>4. /\ f \in Seq(Octet) /\ Len(f) = Len(o)
      /\ \A i \in 1 .. Len(o) : f[i] = IF i = b THEN y ELSE o1[i]
  BY <1>1, <1>2, <1>3, ExceptSeq
<1>5. Filled(o, k, c) = f
  BY DEF Filled, f, o1, a, b, x, y
<1> HIDE DEF f
<1>6. f[a] = x /\ f[b] = y /\ \A i \in 1 .. Len(o) : i # a /\ i # b => f[i] = o[i]
  BY <1>2, <1>3, <1>4
<1> DEFINE n == Half(Len(o))
           w == Words(o)
           v == [w EXCEPT ![k] = c]
<1>7. w \in Seq(Nat) /\ Len(w) = n /\ \A i \in 1 .. n : w[i] = WordAt(o, i)
  BY WordsOf
<1>8. /\ Words(f) \in Seq(Nat) /\ Len(Words(f)) = n
      /\ \A i \in 1 .. n : Words(f)[i] = WordAt(f, i)
  BY <1>4, WordsOf
<1>9. n \in Nat /\ k \in 1 .. n /\ \A i \in 1 .. n : 2 * i - 1 \in 1 .. Len(o)
  BY <1>2 DEF Half
<1> HIDE DEF n, w
<1>10. v \in Seq(Nat) /\ Len(v) = n /\ \A i \in 1 .. n : v[i] = IF i = k THEN c ELSE w[i]
  <2>1. c \in Nat
    BY DEF Short
  <2> QED
    BY <1>7, <1>9, <2>1, ExceptSeq
<1> HIDE DEF v
<1>11. ASSUME NEW i \in 1 .. n PROVE Words(f)[i] = v[i]
  <2>1. CASE i = k
    <3>1. 2 * i - 1 = a /\ 2 * i = b /\ 2 * i <= Len(f)
      BY <1>4, <2>1 DEF a, b
    <3> QED
      BY <1>1, <1>6, <1>8, <1>10, <2>1, <3>1 DEF WordAt
  <2>2. CASE i # k
    <3>1. /\ 2 * i - 1 # a /\ 2 * i - 1 # b /\ 2 * i # a /\ 2 * i # b
          /\ 2 * i - 1 \in 1 .. Len(o)
          /\ 2 * i <= Len(o) => 2 * i \in 1 .. Len(o)
      BY <1>2, <1>9, <2>2 DEF a, b
    <3>2. f[2 * i - 1] = o[2 * i - 1] /\ (2 * i <= Len(o) => f[2 * i] = o[2 * i])
      BY <1>6, <3>1
    <3>3. Words(f)[i] = w[i]
      BY <1>4, <1>7, <1>8, <3>2 DEF WordAt
    <3> QED
      BY <1>10, <2>2, <3>3
  <2> QED
    BY <2>1, <2>2
<1>12. Words(f) = v
  BY <1>8, <1>10, <1>11, SeqEqual
<1> QED
  BY <1>4, <1>5, <1>6, <1>12 DEF a, b, x, y, v, w

\* Octets before it stay.
LEMMA FilledBefore ==
  ASSUME NEW o \in Seq(Octet), NEW k \in Nat \ {0}, 2 * k <= Len(o), NEW c, Short(c),
         NEW i \in 1 .. Len(o), i < 2 * k - 1
  PROVE  Filled(o, k, c)[i] = o[i]
<1>1. i # 2 * k - 1 /\ i # 2 * k
  OBVIOUS
<1> QED
  BY <1>1, FilledIs

\* With the checksum in its place, or with minus zero for zero, the sum is minus zero.
LEMMA Closes ==
  ASSUME NEW start \in Nat, NEW o \in Seq(Octet), NEW k \in Nat \ {0}, 2 * k <= Len(o),
         NEW d, Sent(Checksum(start, o, k), d)
  PROVE  Short(d) /\ MinusZero(start + Sum(Words(Filled(o, k, d))))
<1> DEFINE w == Words(o)
           w0 == [w EXCEPT ![k] = 0]
           S == start + Sum(w0)
           F == Folded[S]
<1>1. w \in Seq(Nat) /\ k \in 1 .. Len(w) /\ w[k] \in Nat
  <2>1. w \in Seq(Nat) /\ Len(w) = Half(Len(o)) /\ Len(o) \in Nat
    BY WordsOf, LenProperties
  <2>2. k \in 1 .. Len(w)
    BY <2>1 DEF Half
  <2> QED
    BY <2>1, <2>2, ElementOfSeq
<1>2. Checksum(start, o, k) = 65535 - F
  BY DEF Checksum
<1> HIDE DEF w
<1>3. w0 \in Seq(Nat) /\ Sum(w0) + w[k] = Sum(w) + 0
  BY <1>1, SumPut
<1> HIDE DEF w0
<1>4. Sum(w0) \in Nat /\ Sum(w) \in Nat /\ S \in Nat
  BY <1>1, <1>3, SumIsNat
<1> HIDE DEF S
<1>5. Kept(S, F)
  BY <1>4, FoldedKeeps
<1>6. F \in Nat /\ F < 65536 /\ F % 65535 = S % 65535
  BY <1>5 DEF Kept
<1> HIDE DEF F
<1>7. d \in Nat /\ d < 65536 /\ (S + d) % 65535 = 0
  <2>1. CASE d = 65535 - F
    BY <1>4, <1>6, <2>1, SMT
  <2>2. CASE 65535 - F = 0 /\ d = 65535
    BY <1>4, <1>6, <2>2, SMT
  <2> QED
    BY <1>2, <2>1, <2>2, SMT DEF Sent, Ones
<1>8. Words(Filled(o, k, d)) = [w EXCEPT ![k] = d]
  BY <1>7, FilledIs, SMT DEF w, Short
<1> DEFINE w2 == [w EXCEPT ![k] = d]
<1>9. Sum(w2) + w[k] = Sum(w) + d /\ w2 \in Seq(Nat)
  BY <1>1, <1>7, SumPut
<1> HIDE DEF w2
<1>10. Sum(w2) \in Nat
  BY <1>9, SumIsNat
<1>11. start + Sum(w2) = S + d
  <2> DEFINE a == Sum(w0)
             b == w[k]
             e == Sum(w)
             z == Sum(w2)
  <2>1. /\ a \in Nat /\ b \in Nat /\ e \in Nat /\ z \in Nat /\ S = start + a
        /\ a + b = e /\ z + b = e + d
    BY <1>1, <1>3, <1>4, <1>9, <1>10 DEF S
  <2> HIDE DEF a, b, e, z
  <2>2. start + z = S + d
    BY <1>7, <2>1
  <2> QED
    BY <2>2 DEF z
<1>12. Words(Filled(o, k, d)) = w2
  BY <1>8 DEF w2
<1> QED
  BY <1>7, <1>11, <1>12, SMT DEF Short, MinusZero
-----------------------------------------------------------------------------
(* The packet that is built.                                                *)

\* A host's address is a sequence of four octets.
LEMMA HostOctets ==
  ASSUME NEW host \in [1 .. 4 -> 0 .. 255]
  PROVE  host \in Seq(Octet) /\ Len(host) = 4
<1>1. host \in [1 .. 4 -> Octet]
  BY DEF Octet
<1>2. 4 \in Nat
  OBVIOUS
<1> HIDE DEF Octet
<1>3. host \in Seq(Octet)
  <2>1. \A i \in 1 .. 4 : host[i] \in Octet
    BY <1>1
  <2>2. [i \in 1 .. 4 |-> host[i]] \in Seq(Octet)
    BY <1>2, <2>1, IsASeq
  <2> QED
    BY <1>1, <2>2
<1>4. Len(host) \in Nat /\ DOMAIN host = 1 .. Len(host) /\ DOMAIN host = 1 .. 4
  BY <1>1, <1>3, LenProperties
<1> QED
  BY <1>3, <1>4

\* The header has 20 octets, the third and fourth of them the length of the packet.
LEMMA BareHeaderIs ==
  ASSUME NEW src \in Seq(Octet), Len(src) = 4, NEW dst \in Seq(Octet), Len(dst) = 4,
         NEW n \in Nat, Short(28 + n)
  PROVE  /\ BareHeader(src, dst, n) \in Seq(Octet) /\ Len(BareHeader(src, dst, n)) = 20
         /\ BareHeader(src, dst, n)[3] = Octets(28 + n)[1]
         /\ BareHeader(src, dst, n)[4] = Octets(28 + n)[2]
<1> DEFINE a == <<69, 0>>
           b == Octets(28 + n)
           c == <<0, 0, 64, 0, 64, 17, 0, 0>>
           ab == a \o b
           abc == ab \o c
           abcs == abc \o src
<1>1. TotalLength(n) = 28 + n
  BY SMT DEF Short, TotalLength, UdpLength
<1>2. BareHeader(src, dst, n) = abcs \o dst
  BY <1>1, Zenon DEF BareHeader
<1>3. a \in Seq(Octet) /\ Len(a) = 2
  BY DEF Octet
<1>4. b \in Seq(Octet) /\ Len(b) = 2
  BY TwoOctets, SMT DEF Short
<1>5. c \in Seq(Octet) /\ Len(c) = 8
  BY DEF Octet
<1> HIDE DEF a, b, c
<1>6. ab \in Seq(Octet) /\ Len(ab) = 4 /\ ab[3] = b[1] /\ ab[4] = b[2]
  <2>1. ab \in Seq(Octet) /\ Len(ab) = Len(a) + Len(b)
    BY <1>3, <1>4, Joined, Zenon
  <2>2. a \in Seq(Octet) /\ b \in Seq(Octet)
    BY <1>3, <1>4
  <2>3. ASSUME NEW i \in 1 .. Len(b) PROVE ab[Len(a) + i] = b[i]
    BY <2>2, JoinedLater
  <2> HIDE DEF ab
  <2> QED
    BY <1>3, <1>4, <2>1, <2>3
<1> HIDE DEF ab
<1>7. abc \in Seq(Octet) /\ Len(abc) = 12 /\ abc[3] = b[1] /\ abc[4] = b[2]
  <2>1. abc \in Seq(Octet) /\ Len(abc) = Len(ab) + Len(c)
    BY <1>5, <1>6, Joined, Zenon
  <2>2. ab \in Seq(Octet) /\ c \in Seq(Octet)
    BY <1>5, <1>6
  <2>3. ASSUME NEW i \in 1 .. Len(ab) PROVE abc[i] = ab[i]
    BY <2>2, JoinedFirst, Zenon
  <2> HIDE DEF abc
  <2> QED
    BY <1>5, <1>6, <2>1, <2>3
<1> HIDE DEF abc
<1>8. abcs \in Seq(Octet) /\ Len(abcs) = 16 /\ abcs[3] = b[1] /\ abcs[4] = b[2]
  <2>1. abcs \in Seq(Octet) /\ Len(abcs) = Len(abc) + Len(src)
    <3>1. abc \in Seq(Octet)
      BY <1>7
    <3> QED
      BY <3>1, Joined, ZenonT(60)
  <2>2. abc \in Seq(Octet) /\ src \in Seq(Octet)
    BY <1>7
  <2>3. ASSUME NEW i \in 1 .. Len(abc) PROVE abcs[i] = abc[i]
    BY <2>2, JoinedFirst, Zenon
  <2> HIDE DEF abcs
  <2> QED
    BY <1>7, <2>1, <2>3
<1> HIDE DEF abcs
<1> DEFINE s == abcs \o dst
<1>9. s \in Seq(Octet) /\ Len(s) = 20 /\ s[3] = b[1] /\ s[4] = b[2]
  <2>1. s \in Seq(Octet) /\ Len(s) = Len(abcs) + Len(dst)
    <3>1. abcs \in Seq(Octet)
      BY <1>8
    <3> QED
      BY <3>1, Joined, ZenonT(60)
  <2>2. abcs \in Seq(Octet) /\ dst \in Seq(Octet)
    BY <1>8
  <2>3. ASSUME NEW i \in 1 .. Len(abcs) PROVE s[i] = abcs[i]
    BY <2>2, JoinedFirst, Zenon
  <2> HIDE DEF s
  <2> QED
    BY <1>8, <2>1, <2>3
<1> QED
  BY <1>2, <1>9 DEF b

\* With its checksum the header verifies, and keeps the length.
LEMMA HeaderIs ==
  ASSUME NEW src \in Seq(Octet), Len(src) = 4, NEW dst \in Seq(Octet), Len(dst) = 4,
         NEW n \in Nat, Short(28 + n)
  PROVE  /\ IpHeader(src, dst, n) \in Seq(Octet) /\ Len(IpHeader(src, dst, n)) = 20
         /\ MinusZero(Sum(Words(IpHeader(src, dst, n))))
         /\ SubSeq(IpHeader(src, dst, n), 3, 4) = Octets(28 + n)
<1> DEFINE o == BareHeader(src, dst, n)
           d == Checksum(0, o, 6)
           h == Filled(o, 6, d)
           t == Octets(28 + n)
<1>1. /\ o \in Seq(Octet) /\ Len(o) = 20 /\ o[3] = t[1] /\ o[4] = t[2]
      /\ 6 \in Nat \ {0} /\ 2 * 6 <= 20 /\ 0 \in Nat
  BY BareHeaderIs
<1>2. IpHeader(src, dst, n) = h
  BY Zenon DEF IpHeader
<1> HIDE DEF o
<1>3. Short(d) /\ MinusZero(0 + Sum(Words(h)))
  <2>2. Sent(Checksum(0, o, 6), d)
    BY Zenon DEF Sent
  <2> HIDE DEF d
  <2>3. 2 * 6 <= Len(o)
    BY <1>1
  <2> QED
    BY <1>1, <2>2, <2>3, Closes
<1> HIDE DEF d
<1>4. h \in Seq(Octet) /\ Len(h) = 20 /\ h[3] = o[3] /\ h[4] = o[4]
  <2>1. /\ 2 * 6 <= Len(o) /\ 3 < 2 * 6 - 1 /\ 4 < 2 * 6 - 1
        /\ 3 \in 1 .. Len(o) /\ 4 \in 1 .. Len(o)
    BY <1>1
  <2>2. h \in Seq(Octet) /\ Len(h) = Len(o)
    <3>1. o \in Seq(Octet) /\ Short(d) /\ 6 \in Nat \ {0}
      BY <1>1, <1>3
    <3> QED
      BY <2>1, <3>1, FilledIs
  <2>3. h[3] = o[3] /\ h[4] = o[4]
    <3>1. o \in Seq(Octet) /\ Short(d) /\ 6 \in Nat \ {0}
      BY <1>1, <1>3
    <3> QED
      BY <2>1, <3>1, FilledBefore, ZenonT(30)
  <2> HIDE DEF h
  <2> QED
    BY <1>1, <2>2, <2>3
<1> HIDE DEF h
<1>5. MinusZero(Sum(Words(h)))
  <2>1. Words(h) \in Seq(Nat)
    BY <1>4, WordsOf
  <2> DEFINE w == Words(h)
             z == Sum(w)
  <2> HIDE DEF w
  <2>2. z \in Nat
    BY <2>1, SumIsNat DEF w
  <2>3. MinusZero(0 + z)
    BY <1>3 DEF w
  <2> HIDE DEF z
  <2>4. 0 + z = z
    BY <2>2
  <2> QED
    BY <2>3, <2>4 DEF z, w
<1>6. SubSeq(h, 3, 4) = t
  <2>1. t \in Seq(Octet) /\ Len(t) = 2
    BY TwoOctets, SMT DEF Short
  <2>2. t = <<t[1], t[2]>>
    BY DEF Octets
  <2> HIDE DEF t
  <2>3. SubSeq(h, 3, 3 + 1) = <<h[3], h[3 + 1]>>
    <3>1. 3 \in Nat \ {0} /\ 3 + 1 <= Len(h)
      BY <1>4
    <3> QED
      BY <1>4, <3>1, SliceOfTwo
  <2> QED
    BY <1>1, <1>4, <2>2, <2>3
<1> QED
  BY <1>2, <1>4, <1>5, <1>6 DEF t

\* The fifth and sixth octet of a segment are its length.
LEMMA BareSegmentIs ==
  ASSUME NEW sport, Short(sport), NEW dport, Short(dport),
         NEW payload \in Seq(Octet), Short(28 + Len(payload))
  PROVE  /\ BareSegment(sport, dport, payload) \in Seq(Octet)
         /\ Len(BareSegment(sport, dport, payload)) = 8 + Len(payload)
         /\ BareSegment(sport, dport, payload)[5] = Octets(8 + Len(payload))[1]
         /\ BareSegment(sport, dport, payload)[6] = Octets(8 + Len(payload))[2]
<1> DEFINE n == Len(payload)
           a == Octets(sport)
           b == Octets(dport)
           c == Octets(8 + n)
           e == <<0, 0>>
           ab == a \o b
           abc == ab \o c
           abce == abc \o e
           s == abce \o payload
<1>1. n \in Nat /\ UdpLength(n) = 8 + n /\ 8 + n \in Nat /\ 8 + n < 65536
  <2>1. n \in Nat /\ 28 + n < 65536
    BY LenProperties DEF Short
  <2> HIDE DEF n
  <2> QED
    BY <2>1, SMT DEF UdpLength
<1>2. BareSegment(sport, dport, payload) = s
  <2>1. UdpLength(n) = 8 + n
    BY <1>1
  <2> QED
    BY <2>1, SMT DEF BareSegment
<1> HIDE DEF n
<1>3. /\ a \in Seq(Octet) /\ Len(a) = 2 /\ b \in Seq(Octet) /\ Len(b) = 2
      /\ c \in Seq(Octet) /\ Len(c) = 2
  BY <1>1, TwoOctets, SMT DEF Short
<1>4. e \in Seq(Octet) /\ Len(e) = 2
  BY DEF Octet
<1> HIDE DEF a, b, c, e
<1>5. ab \in Seq(Octet) /\ Len(ab) = 4
  <2>1. ab \in Seq(Octet) /\ Len(ab) = Len(a) + Len(b)
    BY <1>3, Joined, Zenon
  <2> HIDE DEF ab
  <2> QED
    BY <1>3, <2>1
<1> HIDE DEF ab
<1>6. abc \in Seq(Octet) /\ Len(abc) = 6 /\ abc[5] = c[1] /\ abc[6] = c[2]
  <2>1. abc \in Seq(Octet) /\ Len(abc) = Len(ab) + Len(c)
    BY <1>3, <1>5, Joined, Zenon
  <2>2. ab \in Seq(Octet) /\ c \in Seq(Octet)
    BY <1>3, <1>5
  <2>3. ASSUME NEW i \in 1 .. Len(c) PROVE abc[Len(ab) + i] = c[i]
    BY <2>2, JoinedLater, Zenon
  <2> HIDE DEF abc
  <2> QED
    BY <1>3, <1>5, <2>1, <2>3
<1> HIDE DEF abc
<1>7. abce \in Seq(Octet) /\ Len(abce) = 8 /\ abce[5] = c[1] /\ abce[6] = c[2]
  <2>1. abce \in Seq(Octet) /\ Len(abce) = Len(abc) + Len(e)
    BY <1>4, <1>6, Joined, Zenon
  <2>2. abc \in Seq(Octet) /\ e \in Seq(Octet)
    BY <1>4, <1>6
  <2>3. ASSUME NEW i \in 1 .. Len(abc) PROVE abce[i] = abc[i]
    BY <2>2, JoinedFirst, Zenon
  <2> HIDE DEF abce
  <2> QED
    BY <1>4, <1>6, <2>1, <2>3
<1> HIDE DEF abce
<1>8. s \in Seq(Octet) /\ Len(s) = 8 + n /\ s[5] = c[1] /\ s[6] = c[2]
  <2>1. s \in Seq(Octet) /\ Len(s) = Len(abce) + Len(payload)
    BY <1>7, Joined, Zenon
  <2>2. abce \in Seq(Octet) /\ payload \in Seq(Octet)
    BY <1>7
  <2>3. ASSUME NEW i \in 1 .. Len(abce) PROVE s[i] = abce[i]
    BY <2>2, JoinedFirst, Zenon
  <2> HIDE DEF s
  <2> QED
    BY <1>7, <2>1, <2>3 DEF n
<1> HIDE DEF s
<1> QED
  BY <1>2, <1>8 DEF n, c
-----------------------------------------------------------------------------
\* A single word is its own sum.
LEMMA OneWord ==
  ASSUME NEW o \in Seq(Octet), Len(o) = 2
  PROVE  Sum(Words(o)) = 256 * o[1] + o[2]
<1> DEFINE w == Words(o)
           g == Running(w)
<1>1. w \in Seq(Nat) /\ Len(w) = 1 /\ w[1] = 256 * o[1] + o[2]
  <2>1. Half(2) = 1
    BY DEF Half
  <2>2. w \in Seq(Nat) /\ Len(w) = 1 /\ w[1] = WordAt(o, 1)
    <3>1. Half(Len(o)) = 1 /\ 1 \in 1 .. 1
      BY <2>1
    <3>2. w \in Seq(Nat) /\ Len(w) = Half(Len(o))
      BY WordsOf, Zenon
    <3>3. \A i \in 1 .. Half(Len(o)) : w[i] = WordAt(o, i)
      BY WordsOf, Zenon
    <3> HIDE DEF w
    <3> QED
      BY <3>1, <3>2, <3>3
  <2>3. 2 * 1 - 1 = 1 /\ 2 * 1 = 2
    OBVIOUS
  <2>4. WordAt(o, 1) = 256 * o[1] + o[2]
    BY <2>3 DEF WordAt
  <2> QED
    BY <2>2, <2>4
<1> HIDE DEF w
<1>2. Sums(g, w)
  BY <1>1, RunningSums
<1> HIDE DEF g
<1>3. g[0] = 0 /\ g[1] = g[0] + w[1] /\ w[1] \in Nat
  <2>1. 1 \in 1 .. Len(w) /\ 1 - 1 = 0
    BY <1>1
  <2>2. w[1] \in Nat
    BY <1>1, <2>1, ElementOfSeq
  <2>3. g[1] = g[1 - 1] + w[1]
    BY <1>2, <2>1 DEF Sums
  <2> QED
    BY <1>2, <2>1, <2>2, <2>3 DEF Sums
<1>4. g[1] = w[1]
  BY <1>3
<1>5. Sum(w) = g[1]
  BY <1>1 DEF Sum, g
<1> QED
  BY <1>1, <1>4, <1>5 DEF w

\* The octets of a number add up to it.
LEMMA OctetsSum ==
  ASSUME NEW n, Short(n)
  PROVE  Sum(Words(Octets(n))) = n
<1>1. /\ Octets(n) \in Seq(Octet) /\ Len(Octets(n)) = 2
      /\ n = 256 * Octets(n)[1] + Octets(n)[2]
  BY TwoOctets, SMT DEF Short
<1> DEFINE o == Octets(n)
<1> HIDE DEF o
<1>2. Sum(Words(o)) = 256 * o[1] + o[2]
  BY <1>1, OneWord DEF o
<1> QED
  BY <1>1, <1>2, Zenon DEF o

\* The sum of what follows an even number of octets is added to theirs.
LEMMA WordsSum ==
  ASSUME NEW o \in Seq(Octet), NEW p \in Seq(Octet), NEW h \in Nat, Len(o) = 2 * h
  PROVE  /\ o \o p \in Seq(Octet) /\ Len(o \o p) = Len(o) + Len(p)
         /\ Sum(Words(o)) \in Nat /\ Sum(Words(p)) \in Nat
         /\ Sum(Words(o \o p)) = Sum(Words(o)) + Sum(Words(p))
<1>1. o \o p \in Seq(Octet) /\ Len(o \o p) = Len(o) + Len(p)
  BY Joined, ZenonT(30)
<1>2. Words(o) \in Seq(Nat) /\ Words(p) \in Seq(Nat)
  BY WordsOf
<1>3. Words(o \o p) = Words(o) \o Words(p)
  BY WordsJoined
<1>4. Sum(Words(o) \o Words(p)) = Sum(Words(o)) + Sum(Words(p))
  BY <1>2, SumJoined
<1>5. Sum(Words(o)) \in Nat /\ Sum(Words(p)) \in Nat
  BY <1>2, SumIsNat
<1> QED
  BY <1>1, <1>3, <1>4, <1>5

\* The pseudo-header, octet by octet, adds what PseudoHeader says.
LEMMA PseudoSum ==
  ASSUME NEW src \in Seq(Octet), Len(src) = 4, NEW dst \in Seq(Octet), Len(dst) = 4,
         NEW s \in Seq(Octet), Short(Len(s))
  PROVE  /\ PseudoHeader(src, dst, Len(s)) \in Nat
         /\ Sum(Words((src \o dst \o <<0, 17>> \o Octets(Len(s))) \o s))
              = PseudoHeader(src, dst, Len(s)) + Sum(Words(s))
<1> DEFINE m == Len(s)
           e == <<0, 17>>
           l == Octets(m)
           a == src \o dst
           b == a \o e
           p == b \o l
<1>1. /\ e \in Seq(Octet) /\ Len(e) = 2 /\ Sum(Words(e)) = 17
      /\ l \in Seq(Octet) /\ Len(l) = 2 /\ Sum(Words(l)) = m /\ m \in Nat
  <2>1. Short(17)
    BY SMT DEF Short
  <2>2. Octets(17) = e
    BY SMT DEF Octets
  <2>3. Octets(17) \in Seq(Octet) /\ Len(Octets(17)) = 2
    BY <2>1, TwoOctets, SMT DEF Short
  <2>4. Sum(Words(Octets(17))) = 17 /\ Sum(Words(l)) = m
    BY <2>1, OctetsSum
  <2>5. l \in Seq(Octet) /\ Len(l) = 2 /\ m \in Nat
    BY TwoOctets, SMT DEF Short
  <2> HIDE DEF e, l
  <2> QED
    BY <2>2, <2>3, <2>4, <2>5
<1>2. /\ a \in Seq(Octet) /\ Len(a) = 8 /\ Sum(Words(a)) \in Nat
  <2>1. Len(src) = 2 * 2 /\ 2 \in Nat
    OBVIOUS
  <2>2. a \in Seq(Octet) /\ Len(a) = Len(src) + Len(dst)
    BY <2>1, WordsSum
  <2>3. Words(a) \in Seq(Nat)
    BY <2>2, WordsOf
  <2>4. Sum(Words(a)) \in Nat
    BY <2>3, SumIsNat
  <2> HIDE DEF a
  <2> QED
    BY <2>2, <2>4
<1>3. PseudoHeader(src, dst, m) = Sum(Words(a)) + 17 + m
  BY DEF PseudoHeader
<1> HIDE DEF m, e, l, a
<1>4. b \in Seq(Octet) /\ Len(b) = 10 /\ Sum(Words(b)) = Sum(Words(a)) + 17
  <2>1. Len(a) = 2 * 4 /\ 4 \in Nat
    BY <1>2
  <2>2. /\ b \in Seq(Octet) /\ Len(b) = Len(a) + Len(e)
        /\ Sum(Words(b)) = Sum(Words(a)) + Sum(Words(e))
    <3>1. a \in Seq(Octet) /\ e \in Seq(Octet)
      BY <1>1, <1>2
    <3> QED
      BY <2>1, <3>1, WordsSum, ZenonT(60)
  <2> HIDE DEF b
  <2> QED
    BY <1>1, <1>2, <2>2
<1> HIDE DEF b
<1>5. p \in Seq(Octet) /\ Len(p) = 12 /\ Sum(Words(p)) = Sum(Words(b)) + m
  <2>1. Len(b) = 2 * 5 /\ 5 \in Nat
    BY <1>4
  <2>2. /\ p \in Seq(Octet) /\ Len(p) = Len(b) + Len(l)
        /\ Sum(Words(p)) = Sum(Words(b)) + Sum(Words(l))
    BY <1>1, <1>4, <2>1, WordsSum
  <2> HIDE DEF p
  <2> QED
    BY <1>1, <1>4, <2>2
<1> HIDE DEF p
<1>6. Sum(Words(p \o s)) = Sum(Words(p)) + Sum(Words(s))
  <2>1. Len(p) = 2 * 6 /\ 6 \in Nat
    BY <1>5
  <2> QED
    BY <1>5, <2>1, WordsSum
<1>7. Sum(Words(p)) = PseudoHeader(src, dst, m) /\ PseudoHeader(src, dst, m) \in Nat
  BY <1>1, <1>2, <1>3, <1>4, <1>5
<1> QED
  BY <1>6, <1>7 DEF m, e, l, a, b, p

\* A segment that verifies with its pseudo-header, for a payload of n octets.
Sealed(src, dst, n, g) ==
  /\ g \in Seq(Octet) /\ Len(g) = 8 + n
  /\ MinusZero(PseudoHeader(src, dst, Len(g)) + Sum(Words(g)))
  /\ SubSeq(g, 5, 6) = Octets(Len(g))
  /\ g[7] # 0 \/ g[8] # 0

\* Every segment is one.
LEMMA SegmentIs ==
  ASSUME NEW src \in Seq(Octet), Len(src) = 4, NEW dst \in Seq(Octet), Len(dst) = 4,
         NEW sport, Short(sport), NEW dport, Short(dport),
         NEW payload \in Seq(Octet), Short(28 + Len(payload))
  PROVE  Sealed(src, dst, Len(payload), Segment(src, dst, sport, dport, payload))
<1> DEFINE s == BareSegment(sport, dport, payload)
           m == 8 + Len(payload)
           d == UdpChecksum(src, dst, s)
           h == Filled(s, 4, d)
           start == PseudoHeader(src, dst, m)
           t == Octets(m)
<1>1. s \in Seq(Octet) /\ Len(s) = m /\ s[5] = t[1] /\ s[6] = t[2]
  BY BareSegmentIs
<1>2. Short(m) /\ m \in Nat /\ 8 <= m
  <2>1. Len(payload) \in Nat
    BY LenProperties
  <2> QED
    BY <2>1, SMT DEF Short
<1>3. Segment(src, dst, sport, dport, payload) = h
  BY Zenon DEF Segment
<1> HIDE DEF s, m
<1>4. start \in Nat
  BY <1>1, <1>2, PseudoSum
<1>5. d = IF Checksum(start, s, 4) = 0 THEN Ones ELSE Checksum(start, s, 4)
  <2>1. d = LET sum == Checksum(start, s, 4) IN IF sum = 0 THEN 65535 ELSE sum
    BY <1>1, SMT DEF UdpChecksum
  <2> QED
    BY <2>1, SMT DEF Ones
<1> HIDE DEF d, start
<1>6. Sent(Checksum(start, s, 4), d) /\ d # 0
  <2>1. Ones # 0
    BY SMT DEF Ones
  <2> QED
    BY <1>5, <2>1, Zenon DEF Sent
<1>7. Short(d) /\ MinusZero(start + Sum(Words(h)))
  <2>1. 4 \in Nat \ {0} /\ 2 * 4 <= Len(s)
    BY <1>1, <1>2
  <2> QED
    BY <1>1, <1>4, <1>6, <2>1, Closes
<1>8. /\ h \in Seq(Octet) /\ Len(h) = m /\ h[5] = t[1] /\ h[6] = t[2]
      /\ h[7] = d \div 256 /\ h[8] = d % 256
  <2>1. /\ 2 * 4 <= Len(s) /\ 5 < 2 * 4 - 1 /\ 6 < 2 * 4 - 1
        /\ 5 \in 1 .. Len(s) /\ 6 \in 1 .. Len(s) /\ 4 \in Nat \ {0}
        /\ 2 * 4 - 1 = 7 /\ 2 * 4 = 8
    BY <1>1, <1>2
  <2>2. h \in Seq(Octet) /\ Len(h) = Len(s)
    BY <1>1, <1>7, <2>1, FilledIs
  <2>3. h[2 * 4 - 1] = d \div 256 /\ h[2 * 4] = d % 256
    BY <1>1, <1>7, <2>1, FilledIs
  <2>4. h[5] = s[5] /\ h[6] = s[6]
    <3>1. s \in Seq(Octet) /\ Short(d) /\ 4 \in Nat \ {0} /\ 2 * 4 <= Len(s)
      BY <1>1, <1>7, <2>1
    <3>2. 5 \in 1 .. Len(s) /\ 5 < 2 * 4 - 1
      BY <2>1
    <3>3. 6 \in 1 .. Len(s) /\ 6 < 2 * 4 - 1
      BY <2>1
    <3>4. h[5] = s[5]
      BY <3>1, <3>2, FilledBefore, ZenonT(30)
    <3>5. h[6] = s[6]
      BY <3>1, <3>3, FilledBefore, ZenonT(30)
    <3> QED
      BY <3>4, <3>5
  <2> HIDE DEF h
  <2> QED
    BY <1>1, <2>1, <2>2, <2>3, <2>4
<1> HIDE DEF h
<1>9. h[7] # 0 \/ h[8] # 0
  <2>1. d \in Nat /\ d # 0
    BY <1>6, <1>7, SMT DEF Short
  <2>2. d \div 256 # 0 \/ d % 256 # 0
    BY <2>1, SMT
  <2> QED
    BY <1>8, <2>2
<1>10. SubSeq(h, 5, 6) = t
  <2>1. t = <<t[1], t[2]>>
    BY DEF Octets
  <2> HIDE DEF t
  <2>2. SubSeq(h, 5, 5 + 1) = <<h[5], h[5 + 1]>>
    <3>1. 5 \in Nat \ {0} /\ 5 + 1 <= Len(h)
      BY <1>2, <1>8
    <3> QED
      BY <1>8, <3>1, SliceOfTwo
  <2> QED
    BY <1>8, <2>1, <2>2
<1> HIDE DEF t
<1> QED
  BY <1>3, <1>7, <1>8, <1>9, <1>10 DEF Sealed, m, start, t
-----------------------------------------------------------------------------
\* A receiver that adds up the words of header, pseudo-header and segment finds minus
\* zero, the lengths are those of the packet, and the UDP checksum is never "none",
\* whatever the addresses, the ports and the payload (packet_builder.rs:7, :123).
THEOREM ChecksumsHold == BuildersSpec => []ChecksumsVerify
<1>1. BuildersInit => ChecksumsVerify
  <2>1. ASSUME sample.of = "answer", sample.src \in Hosts, sample.dst \in Hosts,
               sample.sport \in Ports, sample.dport \in Ports, sample.payload \in Payloads
        PROVE  ChecksumsVerify
    <3> DEFINE src == sample.src
               dst == sample.dst
               sport == sample.sport
               dport == sample.dport
               payload == sample.payload
               n == Len(payload)
               h == IpHeader(src, dst, n)
               g == Segment(src, dst, sport, dport, payload)
               p == src \o dst \o <<0, 17>> \o Octets(Len(g))
    <3>1. /\ src \in Seq(Octet) /\ Len(src) = 4 /\ dst \in Seq(Octet) /\ Len(dst) = 4
      <4>1. src \in [1 .. 4 -> 0 .. 255] /\ dst \in [1 .. 4 -> 0 .. 255]
        BY <2>1, AnswerAssumption, SMT
      <4> HIDE DEF src, dst
      <4> QED
        BY <4>1, HostOctets, Zenon
    <3>2. Short(sport) /\ Short(dport)
      <4>1. sport \in Ports /\ dport \in Ports
        BY <2>1
      <4> HIDE DEF sport, dport
      <4>2. \A port \in Ports : port \in Nat /\ port < 65536
        BY AnswerAssumption, SMT
      <4> QED
        BY <4>1, <4>2, SMT DEF Short
    <3>3. payload \in Seq(Octet) /\ n \in Nat /\ Short(28 + n)
      <4>1. payload \in Seq(0 .. 255)
        BY <2>1, WireAssumption, SMT
      <4>2. payload \in Seq(Octet)
        BY <4>1, Zenon DEF Octet
      <4> HIDE DEF payload
      <4>3. n \in Nat
        BY <4>2, LenProperties
      <4>4. 28 + n < 65536
        BY <2>1, AnswerAssumption, SMT DEF payload
      <4> QED
        BY <4>2, <4>3, <4>4, SMT DEF Short
    <3> HIDE DEF src, dst, sport, dport, payload
    <3>4. Len(h) = 20 /\ MinusZero(Sum(Words(h))) /\ SubSeq(h, 3, 4) = Octets(28 + n)
      BY <3>1, <3>3, HeaderIs, Zenon
    <3>5. /\ g \in Seq(Octet) /\ Len(g) = 8 + n
          /\ MinusZero(PseudoHeader(src, dst, Len(g)) + Sum(Words(g)))
          /\ SubSeq(g, 5, 6) = Octets(Len(g))
          /\ (g[7] # 0 \/ g[8] # 0)
      <4>1. Sealed(src, dst, n, g)
        BY <3>1, <3>2, <3>3, SegmentIs, Zenon
      <4> HIDE DEF g, n
      <4> QED
        BY <4>1, Zenon DEF Sealed
    <3> HIDE DEF g, h
    <3>6. 20 + Len(g) = 28 + n /\ Short(Len(g))
      BY <3>3, <3>5, SMT DEF Short
    <3> HIDE DEF n
    <3>7. Sum(Words(p \o g)) = PseudoHeader(src, dst, Len(g)) + Sum(Words(g))
      BY <3>1, <3>5, <3>6, PseudoSum
    <3>8. /\ Len(h) = 20 /\ Sum(Words(h)) % 65535 = 0
          /\ Sum(Words(p \o g)) % 65535 = 0
          /\ SubSeq(h, 3, 4) = Octets(20 + Len(g))
          /\ SubSeq(g, 5, 6) = Octets(Len(g))
          /\ (g[7] # 0 \/ g[8] # 0)
      BY <3>4, <3>5, <3>6, <3>7, SMT DEF MinusZero
    <3> QED
      BY <3>8, SMT DEF ChecksumsVerify, src, dst, sport, dport, payload, n, h, g
  <2>2. BuildersInit =>
          \/ sample.of # "answer"
          \/ /\ sample.of = "answer" /\ sample.src \in Hosts /\ sample.dst \in Hosts
             /\ sample.sport \in Ports /\ sample.dport \in Ports
             /\ sample.payload \in Payloads
    BY SMT DEF BuildersInit, WireInit
  <2>3. sample.of # "answer" => ChecksumsVerify
    BY SMT DEF ChecksumsVerify
  <2> QED
    BY <2>1, <2>2, <2>3, SMT
<1>2. ChecksumsVerify /\ [UNCHANGED sample]_sample => ChecksumsVerify'
  BY SMT DEF ChecksumsVerify
<1> QED
  BY <1>1, <1>2, PTL DEF BuildersSpec

\* Among the samples of Builders the header reads back as among those of Wire.
THEOREM BuildersReadBack == BuildersSpec => []WireRoundTrip
<1>1. BuildersInit => WireRoundTrip
  <2>1. BuildersInit => sample.of \in {"filter", "answer"} \/ WireInit
    BY SMT DEF BuildersInit
  <2>2. sample.of \in {"filter", "answer"} => WireRoundTrip
    BY SMT DEF WireRoundTrip
  <2>3. WireInit => WireRoundTrip
    BY InitRoundTrip
  <2> QED
    BY <2>1, <2>2, <2>3
<1>2. WireRoundTrip /\ [UNCHANGED sample]_sample => WireRoundTrip'
  BY Zenon DEF WireRoundTrip
<1> QED
  BY <1>1, <1>2, PTL DEF BuildersSpec
=============================================================================
