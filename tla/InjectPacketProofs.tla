-------------------------- MODULE InjectPacketProofs --------------------------
(***************************************************************************)
(* What a packet carries from buildInjectPacket to parseInjectPacket, for  *)
(* every interface and every report. What the bytes of a report are does   *)
(* not matter, so they may be anything.                                    *)
(***************************************************************************)
EXTENDS InjectPacket, SequenceTheorems, TLAPS

Byte == 0..255
IfaceNum == Byte

-----------------------------------------------------------------------------
LEMMA ByteInt == \A b \in Byte : b \in Int
  BY DEF Byte

(* The two bytes of a length are read back as they were written.           *)
LEMMA TwoBytes ==
  ASSUME NEW n \in 0..(lenSpan - 1)
  PROVE  n \div 256 \in Byte /\ n % 256 \in Byte /\ 256 * (n \div 256) + (n % 256) = n
  BY DEF Byte, lenSpan

LEMMA ModNat ==
  ASSUME NEW x \in Nat
  PROVE  /\ x % lenSpan \in 0..(lenSpan - 1)
         /\ x % lenSpan <= x
         /\ x < lenSpan => x % lenSpan = x
         /\ x >= lenSpan => x % lenSpan < x
<1> DEFINE r == x % lenSpan
           q == x \div lenSpan
<1>1. lenSpan \in Nat \ {0}
  BY DEF lenSpan
<1>2. r \in 0..(lenSpan - 1)
  BY DEF lenSpan
<1>3. q \in Nat
  BY DEF lenSpan
<1>4. x = lenSpan * q + r
  BY DEF lenSpan
<1> HIDE DEF r, q
<1>5. r <= x
  BY <1>2, <1>3, <1>4 DEF lenSpan
<1>6. ASSUME x < lenSpan PROVE r = x
  BY <1>2, <1>3, <1>4, <1>6 DEF lenSpan
<1>7. ASSUME x >= lenSpan PROVE r < x
  BY <1>1, <1>2, <1>7
<1> QED BY <1>2, <1>5, <1>6, <1>7 DEF r

LEMMA ModLength ==
  ASSUME NEW S, NEW data \in Seq(S)
  PROVE  /\ Len(data) \in Nat
         /\ Len(data) % lenSpan \in 0..(lenSpan - 1)
         /\ Len(data) % lenSpan <= Len(data)
         /\ Len(data) < lenSpan => Len(data) % lenSpan = Len(data)
         /\ Len(data) >= lenSpan => Len(data) % lenSpan < Len(data)
<1>1. Len(data) \in Nat
  OBVIOUS
<1> QED BY <1>1, ModNat

(* What the packet for a report of interface i looks like.                 *)
Layout(pkt, i, data, S) ==
  /\ pkt \in Seq(Int \cup S)
  /\ Len(pkt) = 4 + Len(data)
  /\ pkt[1] = hidInjectMagic /\ pkt[2] = i
  /\ dataLen(pkt) = Len(data) % lenSpan
  /\ \A k \in 1..Len(data) : pkt[4 + k] = data[k]

LEMMA Built ==
  ASSUME NEW i \in IfaceNum, NEW S, NEW data \in Seq(S)
  PROVE  Layout(buildInjectPacket(i, data), i, data, S)
<1> DEFINE n == Len(data) % lenSpan
           head == <<hidInjectMagic, i, n \div 256, n % 256>>
           pkt == buildInjectPacket(i, data)
<1>1. Len(data) \in Nat /\ n \in 0..(lenSpan - 1)
  BY ModLength
<1>2. n \div 256 \in Byte /\ n % 256 \in Byte /\ 256 * (n \div 256) + (n % 256) = n
  BY <1>1, TwoBytes
<1>3. pkt = head \o data
  BY DEF buildInjectPacket
<1> HIDE DEF n, pkt
<1>4. head \in Seq(Int \cup S) /\ Len(head) = 4
  <2>1. hidInjectMagic \in Int /\ i \in Int /\ n \div 256 \in Int /\ n % 256 \in Int
    BY <1>2, ByteInt DEF hidInjectMagic, IfaceNum
  <2> QED BY <2>1
<1>5. data \in Seq(Int \cup S)
  <2>1. /\ Len(data) \in Nat
        /\ data = [k \in 1..Len(data) |-> data[k]]
        /\ \A k \in 1..Len(data) : data[k] \in S
    OBVIOUS
  <2>2. \A k \in 1..Len(data) : data[k] \in Int \cup S
    BY <2>1
  <2> QED BY <2>1, <2>2, IsASeq
<1>6. pkt \in Seq(Int \cup S) /\ Len(pkt) = 4 + Len(data)
  BY <1>3, <1>4, <1>5, ConcatProperties
<1>7. \A k \in 1..4 : pkt[k] = head[k]
  BY <1>1, <1>3, <1>4, <1>5, ConcatProperties
<1>8. pkt[1] = hidInjectMagic /\ pkt[2] = i /\ pkt[3] = n \div 256 /\ pkt[4] = n % 256
  BY <1>7
<1>9. \A k \in 1..Len(data) : pkt[4 + k] = data[k]
  <2> SUFFICES ASSUME NEW k \in 1..Len(data) PROVE pkt[4 + k] = data[k]
    OBVIOUS
  <2>1. 4 + k \in 1..(Len(head) + Len(data)) /\ 4 + k > Len(head)
    BY <1>1, <1>4
  <2> QED BY <1>3, <1>4, <1>5, <2>1, ConcatProperties
<1>10. dataLen(pkt) = n
  BY <1>2, <1>8 DEF dataLen
<1> QED BY <1>1, <1>6, <1>8, <1>9, <1>10 DEF n, pkt, Layout

(* The report that is read out of a built packet: as many of its bytes as  *)
(* the length says.                                                        *)
LEMMA Cut ==
  ASSUME NEW i \in IfaceNum, NEW S, NEW data \in Seq(S)
  PROVE  LET pkt == buildInjectPacket(i, data)
             n == Len(data) % lenSpan
         IN /\ Parses(pkt)
            /\ parsedIface(pkt) = i
            /\ parsedData(pkt) = SubSeq(data, 1, n)
<1> DEFINE n == Len(data) % lenSpan
           pkt == buildInjectPacket(i, data)
<1>1. /\ pkt \in Seq(Int \cup S)
      /\ Len(pkt) = 4 + Len(data)
      /\ pkt[1] = hidInjectMagic /\ pkt[2] = i
      /\ dataLen(pkt) = n
      /\ \A k \in 1..Len(data) : pkt[4 + k] = data[k]
  <2>1. Layout(pkt, i, data, S)
    BY Built
  <2> QED BY <2>1 DEF Layout
<1>2. Len(data) \in Nat /\ n <= Len(data) /\ n \in Nat
  <2>1. lenSpan - 1 \in Int
    BY DEF lenSpan
  <2> QED BY <2>1, ModLength
<1> HIDE DEF n, pkt
<1>3. Parses(pkt) /\ parsedIface(pkt) = i
  BY <1>1, <1>2 DEF Parses, parsedIface
<1>4. parsedData(pkt) = SubSeq(pkt, 5, 4 + n)
  BY <1>1 DEF parsedData
<1>5. SubSeq(pkt, 5, 4 + n) = SubSeq(data, 1, n)
  <2>1. SubSeq(pkt, 5, 4 + n) = [k \in 1..n |-> pkt[k + 4]]
    BY <1>1, <1>2
  <2>2. SubSeq(data, 1, n) = [k \in 1..n |-> data[k]]
    BY <1>1, <1>2
  <2>3. \A k \in 1..n : pkt[k + 4] = data[k]
    BY <1>1, <1>2
  <2> QED BY <2>1, <2>2, <2>3
<1> QED BY <1>3, <1>4, <1>5 DEF n, pkt

(* parseInjectPacket returns the interface and the report that             *)
(* buildInjectPacket was given, for every report of less than 64 KiB: what *)
(* send and load --recv put into a packet is what the other one finds.      *)
THEOREM RoundTrip ==
  ASSUME NEW i \in IfaceNum, NEW S, NEW data \in Seq(S), Len(data) < lenSpan
  PROVE  LET pkt == buildInjectPacket(i, data)
         IN Parses(pkt) /\ parsedIface(pkt) = i /\ parsedData(pkt) = data
<1>1. Len(data) % lenSpan = Len(data)
  BY ModLength
<1>2. SubSeq(data, 1, Len(data)) = data
  OBVIOUS
<1> QED BY <1>1, <1>2, Cut

(* A longer report is cut without an error on either side: the packet      *)
(* parses, and what is read is a proper prefix of the report.              *)
THEOREM TooLong ==
  ASSUME NEW i \in IfaceNum, NEW S, NEW data \in Seq(S), Len(data) >= lenSpan
  PROVE  LET pkt == buildInjectPacket(i, data)
         IN /\ Parses(pkt)
            /\ Len(parsedData(pkt)) < Len(data)
            /\ parsedData(pkt) = SubSeq(data, 1, Len(parsedData(pkt)))
<1> DEFINE n == Len(data) % lenSpan
<1>1. Len(data) \in Nat /\ n \in Nat /\ n < Len(data)
  <2>1. lenSpan - 1 \in Int
    BY DEF lenSpan
  <2> QED BY <2>1, ModLength
<1>2. Len(SubSeq(data, 1, n)) = n
  BY <1>1
<1> QED BY <1>1, <1>2, Cut
=============================================================================
