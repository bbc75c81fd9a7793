------------------------------ MODULE Interfaces ------------------------------
(***************************************************************************)
(* The tables that emulate, load and the I/O goroutines each derive for    *)
(* themselves from the one list of interfaces of a device, and that have   *)
(* to agree: HID functions and their hidg numbers, the interfaces of the   *)
(* FFS function, its descriptors with their string indices, its strings,   *)
(* the endpoints reports are read from and written to, and the profile     *)
(* that save writes for load.                                              *)
(*                                                                         *)
(* The state is the list as parseConfigDescriptor builds it, so that the   *)
(* properties are about every device within the bounds. Maps of the code   *)
(* are functions.                                                          *)
(***************************************************************************)
EXTENDS FfsBlob

CONSTANTS
  DeviceStrings, \* manufacturer, product and serial, where the device has them
  IfaceNum,      \* numbers that interfaces may have
  EndpointsOf,   \* for each of them, the lists of endpoints it may have
  HidExtra,      \* the extra bytes that a HID setting may have, cut into descriptors
  Reports,       \* the bytes that may be read as a report descriptor
  Names,         \* strings that a setting may have; empty if it has none
  MaxAlts        \* bound: alternate settings, over all interfaces

Word == 0..65535
MaxRune == 1114111 \* the last code point
CodePoint == 1..MaxRune
String == Seq(CodePoint)

(* A descriptor: its first byte is its length.                             *)
IsDescriptor(d) == Len(d) >= 2 /\ d[1] = Len(d)

(* What is left where no descriptor begins, or not all of one.             *)
IsCutShort(d) == Len(d) < 2 \/ d[1] < 2 \/ d[1] > Len(d)

(* The descriptor that has the length of the report descriptor.            *)
IsHidDesc(d) == IsDescriptor(d) /\ d[2] = 33 /\ Len(d) >= 9

(* getStringDescriptor has room for 255 bytes of UTF-16. Any bytes are       *)
(* descriptors and then, perhaps, something cut short.                     *)
ASSUME InterfacesAssumption ==
  /\ DeviceStrings \in Seq(String) /\ Len(DeviceStrings) <= 3
  /\ IfaceNum \subseteq Byte
  /\ \A num \in IfaceNum : \A eps \in EndpointsOf[num] :
       eps \in Seq([addr : Byte, size : Word]) /\ Len(eps) \in Byte
  /\ \A extra \in HidExtra :
       /\ extra \in Seq(Seq(Byte))
       /\ \A k \in DOMAIN extra :
            IsDescriptor(extra[k]) \/ (k = Len(extra) /\ IsCutShort(extra[k]))
  /\ Reports \subseteq Seq(Byte)
  /\ \A name \in Names : name \in String
  /\ \A name \in Names \cup ToSet(DeviceStrings) : Len(name) <= 126
  /\ MaxAlts \in Nat

VARIABLES
  devStrings, \* the strings the device descriptor has
  ifaces      \* cfg.Interfaces: every alternate setting of every interface

vars == <<devStrings, ifaces>>

NoString == <<>>

(* The elements of s at the positions in K, in order: what a loop that     *)
(* filters a list appends to another one.                                  *)
Select(s, K) ==
  [j \in 1..Cardinality(K) |-> s[CHOOSE k \in K : Cardinality(K \cap 1..k) = j]]

Init ==
  /\ \E have \in SUBSET DOMAIN DeviceStrings : devStrings = Select(DeviceStrings, have)
  /\ ifaces = <<>>

(* Fault: the type of a descriptor is not looked at.                       *)
findLenInAnyDescriptor(extra) ==
  LET walk[off \in Nat] ==
        IF off + 2 > Len(extra) THEN 0
        ELSE LET n == extra[off + 1] IN
             IF n < 2 \/ off + n > Len(extra) THEN 0
             ELSE IF n >= 9 THEN extra[off + 8] + 256 * extra[off + 9]
             ELSE walk[off + n]
  IN walk[0]

(* The length of the report descriptor, found by a walk over the extra     *)
(* bytes that ends at the first descriptor cut short.                      *)
findHIDReportDescriptorLen(extra) ==
  LET walk[off \in Nat] ==
        IF off + 2 > Len(extra) THEN 0
        ELSE LET n == extra[off + 1] IN
             IF n < 2 \/ off + n > Len(extra) THEN 0
             ELSE IF extra[off + 2] = 33 /\ n >= 9 THEN extra[off + 8] + 256 * extra[off + 9]
             ELSE walk[off + n]
  IN walk[0]

(* The report descriptors that may be read of a setting with these extra   *)
(* bytes: the transfer asks for the length found in them, if it is not 0,  *)
(* and gives that many bytes, fewer, or none when it fails.                *)
ReportDescriptors(extra) ==
  {r \in Reports \cup {<<>>} : Len(r) <= findHIDReportDescriptorLen(FlattenSeq(extra))}

(* parseConfigDescriptor: the next alternate setting of an interface. The  *)
(* extra bytes are looked at in settings of HID interfaces only; they are  *)
(* kept here for what they declare.                                        *)
AddAltSetting(num, alt, class) ==
  \E str \in Names, eps \in EndpointsOf[num], extra \in (IF class = 3 THEN HidExtra ELSE {<<>>}) :
    \E report \in ReportDescriptors(extra) :
      ifaces' = Append(ifaces, [num |-> num, alt |-> alt, class |-> class, eps |-> eps,
                                str |-> str, extra |-> extra, report |-> report])

(* Interfaces come in the order of their numbers, not all of which are in  *)
(* use. Class 8 stands for every class but HID.                            *)
NewInterface ==
  /\ Len(ifaces) < MaxAlts
  /\ \E class \in {3, 8}, num \in IfaceNum :
       /\ ifaces # <<>> => num > Last(ifaces).num
       /\ AddAltSetting(num, 0, class)
  /\ UNCHANGED devStrings

(* An interface keeps its class.                                           *)
NewAltSetting ==
  /\ Len(ifaces) < MaxAlts /\ ifaces # <<>>
  /\ Last(ifaces).alt + 1 \in Byte
  /\ AddAltSetting(Last(ifaces).num, Last(ifaces).alt + 1, Last(ifaces).class)
  /\ UNCHANGED devStrings

Next == NewInterface \/ NewAltSetting

Spec == Init /\ [][Next]_vars

-----------------------------------------------------------------------------
(* runEmulate, AddHIDFunction                                              *)

IsHid(i) == i.class = 3
IsIn(ep) == ep.addr >= 128

(* reportLen: the packet size of the first IN endpoint, 64 without one. *)
ReportLen(i) ==
  LET ins == {k \in DOMAIN i.eps : IsIn(i.eps[k])} IN
  IF ins = {} THEN 64 ELSE i.eps[Min(ins)].size

HidFunction(i) == [num |-> i.num, len |-> ReportLen(i), desc |-> i.report, str |-> i.str]

(* The HID functions, in the order they are created in; hidg N is the N-th *)
(* of them, counted from 0.                                                *)
EmulatedHid ==
  LET alt0 == Select(ifaces, {k \in DOMAIN ifaces : IsHid(ifaces[k]) /\ ifaces[k].alt = 0}) IN
  [k \in DOMAIN alt0 |-> HidFunction(alt0[k])]

(* Fault: the hidg number is taken to be the interface number.             *)
HidIdxFromNumber(funcs) ==
  [n \in {funcs[k].num : k \in DOMAIN funcs} |-> n]

(* Gadget.IfaceToHidIdx                                                    *)
IfaceToHidIdx(funcs) ==
  [n \in {funcs[k].num : k \in DOMAIN funcs} |->
     (CHOOSE k \in DOMAIN funcs : funcs[k].num = n) - 1]

(* startGadgetIO: the interface that output read from hidg idx is tagged   *)
(* with; 0, the zero value, for a number that is not in the map.           *)
HidIdxToIface(map, idx) ==
  IF \E n \in DOMAIN map : map[n] = idx
    THEN CHOOSE n \in DOMAIN map : map[n] = idx
    ELSE 0

(* The interfaces AddFFSFunction is told of: keys of IfaceToFFSIdx.        *)
NonHidIfaceNums ==
  LET alt0 == Select(ifaces, {k \in DOMAIN ifaces : ~IsHid(ifaces[k]) /\ ifaces[k].alt = 0}) IN
  [k \in DOMAIN alt0 |-> alt0[k].num]

-----------------------------------------------------------------------------
(* buildNonHIDFFSDescriptors, buildFFSStrings                              *)

(* Fault: the class of an interface is not looked at.                      *)
EverySetting == ifaces

(* The settings that have descriptors.                                     *)
NonHid == Select(ifaces, {k \in DOMAIN ifaces : ~IsHid(ifaces[k])})

(* The number of settings among the first k of s that have a string.       *)
Named(s, k) == Cardinality({j \in 1..k : s[j].str # NoString})

(* Fault: the strings of HID interfaces are counted too.                   *)
StrIdxCountingHid(k) ==
  LET at == CHOOSE j \in DOMAIN ifaces : ifaces[j] = NonHid[k] IN
  IF NonHid[k].str = NoString THEN 0 ELSE Named(ifaces, at)

(* iStrIdx: iInterface, a byte, is counted up from 1 over the settings that *)
(* have a string.                                                          *)
StrIdx(k) == IF NonHid[k].str = NoString THEN 0 ELSE Named(NonHid, k) % 256

(* The descriptors, the same for both speeds.                              *)
FfsDescriptors == FlattenSeq([k \in DOMAIN NonHid |-> settingDescs(NonHid[k], StrIdx(k))])

(* The strings written to ep0: those of the device come first.             *)
FfsStrings ==
  LET named == Select(NonHid, {k \in DOMAIN NonHid : NonHid[k].str # NoString}) IN
  devStrings \o [k \in DOMAIN named |-> named[k].str]

(* setupFFS: what WriteDescriptors writes to ep0, in two writes.           *)
setupFFS ==
  LET blob == FlattenSeq(FfsDescriptors)
      count == countDescriptors(blob)
  IN <<buildDescriptorsBlob(blob, blob, count, count), buildStringsBlob(FfsStrings)>>

-----------------------------------------------------------------------------
(* openRealDevice, forwardOutToRealDevice, runSend, writeFFSEndpoints      *)

endpoints(i) ==
  [j \in DOMAIN i.eps |-> [iface |-> i.num, addr |-> i.eps[j].addr, size |-> i.eps[j].size]]

(* Fault: alternate settings are not left out.                             *)
openEverySetting(claimed) ==
  LET open == Select(ifaces, {k \in DOMAIN ifaces : ifaces[k].num \in claimed}) IN
  FlattenSeq([k \in DOMAIN open |-> endpoints(open[k])])

(* The endpoints of the device that are used, those of the interfaces that *)
(* could be claimed.                                                       *)
openRealDevice(claimed) ==
  LET open == Select(ifaces, {k \in DOMAIN ifaces : ifaces[k].alt = 0 /\ ifaces[k].num \in claimed})
  IN FlattenSeq([k \in DOMAIN open |-> endpoints(open[k])])

(* outMap: the OUT endpoint of an interface, the last if there are several. *)
outMap(eps) ==
  LET outs == {k \in DOMAIN eps : ~IsIn(eps[k])} IN
  [n \in {eps[k].iface : k \in outs} |-> eps[Max({k \in outs : eps[k].iface = n})]]

-----------------------------------------------------------------------------
(* save and load                                                           *)

(* Two digits for each byte, the higher one first.                         *)
EncodeToString(bytes) ==
  [j \in 1..2 * Len(bytes) |->
     IF j % 2 = 1 THEN bytes[(j + 1) \div 2] \div 16 ELSE bytes[j \div 2] % 16]

(* A digit left over is an error, which load ignores.                      *)
DecodeString(digits) ==
  [j \in 1..Len(digits) \div 2 |-> 16 * digits[2 * j - 1] + digits[2 * j]]

(* FromDescriptors: every setting is written, with the fields that load    *)
(* and the code after it use. The report descriptor is written as digits.  *)
Profile ==
  [k \in DOMAIN ifaces |->
     [num |-> ifaces[k].num, alt |-> ifaces[k].alt, class |-> ifaces[k].class,
      eps |-> ifaces[k].eps, str |-> ifaces[k].str, report |-> EncodeToString(ifaces[k].report)]]

(* Fault: the direction of the endpoint is not looked at.                  *)
LoadedReportLenAnyDirection(i) ==
  IF i.eps = <<>> THEN 64 ELSE i.eps[1].size

(* HIDInterfaces has a loop of its own for the packet size.                *)
LoadedReportLen(i) ==
  LET in(k) == k \in DOMAIN i.eps /\ IsIn(i.eps[k]) IN
  IF \E k \in DOMAIN i.eps : in(k)
    THEN i.eps[CHOOSE k \in DOMAIN i.eps : in(k) /\ \A j \in 1..k - 1 : ~in(j)].size
    ELSE 64

(* The functions runLoad creates of DeviceProfile.HIDInterfaces.           *)
LoadedHid(profile) ==
  LET alt0 == Select(profile, {k \in DOMAIN profile : profile[k].class = 3 /\ profile[k].alt = 0}) IN
  [k \in DOMAIN alt0 |->
     [num |-> alt0[k].num, len |-> LoadedReportLen(alt0[k]),
      desc |-> DecodeString(alt0[k].report), str |-> alt0[k].str]]

-----------------------------------------------------------------------------
(* The two directions of a hidg agree: what the host writes to it is tagged *)
(* with the interface whose reports are written to it, and with the one    *)
(* its report descriptor was taken from, whatever numbers the interfaces   *)
(* of the device have and whichever of them are not HID.                   *)
HidgRoundTrip ==
  LET map == IfaceToHidIdx(EmulatedHid) IN
  \A k \in DOMAIN EmulatedHid :
    /\ map[EmulatedHid[k].num] = k - 1
    /\ HidIdxToIface(map, k - 1) = EmulatedHid[k].num

(* A device saved and loaded has the HID functions that emulate gives it:  *)
(* in the same order, so on the same hidg numbers, with the same packet    *)
(* sizes, strings and report descriptors, however much of these was read.  *)
(* load derives them with code of its own, from digits.                    *)
LoadMatchesEmulate == LoadedHid(Profile) = EmulatedHid

(* The length that the first whole HID descriptor among these declares; 0  *)
(* if there is none.                                                       *)
DeclaredLen(extra) ==
  LET hid == {k \in DOMAIN extra : IsHidDesc(extra[k])} IN
  IF hid = {} THEN 0 ELSE extra[Min(hid)][8] + 256 * extra[Min(hid)][9]

(* No HID function has more of a report descriptor than its interface      *)
(* declares, whatever other descriptors come before the one that declares  *)
(* it, and none has any where the extra bytes are malformed so that there  *)
(* is no such descriptor, wherever they are cut short.                     *)
ReportsDeclared ==
  \A k \in DOMAIN EmulatedHid :
    \E i \in ToSet(ifaces) : /\ i.num = EmulatedHid[k].num /\ i.alt = 0
                             /\ Len(EmulatedHid[k].desc) <= DeclaredLen(i.extra)

(* The interfaces startGadgetIO leaves to the FFS goroutines are those FFS *)
(* has descriptors of, and none of them is a HID one.                      *)
FfsTablesAgree ==
  /\ ToSet(NonHidIfaceNums) = {d[3] : d \in {e \in ToSet(FfsDescriptors) : e[2] = 4}}
  /\ ToSet(NonHidIfaceNums) \cap DOMAIN IfaceToHidIdx(EmulatedHid) = {}

(* String indices are 1-based and match the order of the strings: the host *)
(* that asks for the string of an FFS interface is given that string.      *)
StringsResolve ==
  \A k \in DOMAIN NonHid :
    NonHid[k].str # NoString =>
      /\ StrIdx(k) \in DOMAIN FfsStrings
      /\ FfsStrings[StrIdx(k)] = NonHid[k].str

(* FunctionFS, reading what was written by the lengths and counts in it,   *)
(* finds for both speeds each setting followed by the endpoints it         *)
(* announces, and every string; the number of descriptors is found by a    *)
(* walk over the bytes and is not that of the interfaces.                  *)
FfsReadsBack ==
  NonHid # <<>> =>
    LET descs == readDescriptors(setupFFS[1])
        strings == readStrings(setupFFS[2])
        encoded(str) == FlattenSeq([j \in DOMAIN str |-> units(str[j])])
    IN /\ descs.ok /\ descs.fs = FfsDescriptors /\ descs.hs = FfsDescriptors
       /\ FfsStrings # <<>> =>
            strings.ok /\ strings.got = [k \in DOMAIN FfsStrings |-> encoded(FfsStrings[k])]

(* Output the host writes to a hidg goes to an OUT endpoint of the setting *)
(* that the reports on that hidg are read from, or is dropped if this has  *)
(* none or could not be claimed. The way is hidg number, interface number, *)
(* endpoint, through maps that three functions build.                      *)
OutputComesHome ==
  \A claimed \in SUBSET {ifaces[k].num : k \in DOMAIN ifaces} :
    LET out == outMap(openRealDevice(claimed)) IN
    \A k \in DOMAIN EmulatedHid :
      LET n == HidIdxToIface(IfaceToHidIdx(EmulatedHid), k - 1)
          setting == CHOOSE i \in ToSet(ifaces) : i.num = EmulatedHid[k].num /\ i.alt = 0
          outs == {ep \in ToSet(setting.eps) : ~IsIn(ep)}
      IN IF outs = {} \/ setting.num \notin claimed
           THEN n \notin DOMAIN out
           ELSE \E ep \in outs : out[n] = [iface |-> setting.num, addr |-> ep.addr, size |-> ep.size]
=============================================================================
