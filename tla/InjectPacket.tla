----------------------------- MODULE InjectPacket -----------------------------
(***************************************************************************)
(* The packet in which a report travels between programs and the gadget:   *)
(* a magic byte, the interface, the length of the report as two bytes, big *)
(* end first, and the report.                                              *)
(***************************************************************************)
EXTENDS Integers, Sequences

hidInjectMagic == 192

(* Lengths that two bytes can tell apart.                                  *)
lenSpan == 256 * 256

(* Fault: the bytes of the length are swapped.                             *)
buildSwapped(ifaceNum, data) ==
  LET n == Len(data) % lenSpan IN
  <<hidInjectMagic, ifaceNum, n % 256, n \div 256>> \o data

(* The length is cut to 16 bits, the report is not.                        *)
buildInjectPacket(ifaceNum, data) ==
  LET n == Len(data) % lenSpan IN
  <<hidInjectMagic, ifaceNum, n \div 256, n % 256>> \o data

dataLen(pkt) == 256 * pkt[3] + pkt[4]

(* parseInjectPacket returns no error; its checks are made in this order.   *)
Parses(pkt) ==
  /\ Len(pkt) >= 4
  /\ pkt[1] = hidInjectMagic
  /\ Len(pkt) >= 4 + dataLen(pkt)

(* What it returns then. Bytes after the report are ignored.               *)
parsedIface(pkt) == pkt[2]
parsedData(pkt) == SubSeq(pkt, 5, 4 + dataLen(pkt))
=============================================================================
