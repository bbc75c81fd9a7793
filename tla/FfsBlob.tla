-------------------------------- MODULE FfsBlob --------------------------------
(***************************************************************************)
(* The two blobs that set up FunctionFS through ep0: descriptors, and      *)
(* strings. They are sequences of bytes, because their lengths and counts  *)
(* are computed apart from their contents. A string is a sequence of code  *)
(* points. The reader at the end stands for the kernel, as far as the      *)
(* comments in ffs.go say what it expects.                                 *)
(***************************************************************************)
EXTENDS Integers, Sequences, SequencesExt

Byte == 0..255

LE16(n) == <<n % 256, (n \div 256) % 256>>
LE32(n) == LE16(n % 65536) \o LE16(n \div 65536)

(* Subclass and protocol are passed through; they stand as 0.              *)
buildIfaceDescWithStr(i, iInterface) ==
  <<9, 4, i.num, i.alt, Len(i.eps), i.class, 0, 0, iInterface>>

(* attr and interval likewise: 3, an interrupt endpoint, and 1.            *)
buildEPDesc(ep) == <<7, 5, ep.addr, 3>> \o LE16(ep.size) \o <<1>>

(* An interface descriptor and those of its endpoints.                     *)
settingDescs(i, iInterface) ==
  <<buildIfaceDescWithStr(i, iInterface)>> \o [k \in DOMAIN i.eps |-> buildEPDesc(i.eps[k])]

-----------------------------------------------------------------------------
(* The sum of a sequence of numbers.                                       *)
Total(s) ==
  LET upTo[k \in 0..Len(s)] == IF k = 0 THEN 0 ELSE upTo[k - 1] + s[k] IN upTo[Len(s)]

(* Fault: one is counted for each interface with its endpoints.            *)
countInterfaces(data) ==
  LET count[off \in Nat] ==
        IF off + 1 >= Len(data) \/ data[off + 1] < 2
          THEN 0
          ELSE (IF data[off + 2] = 4 THEN 1 ELSE 0) + count[off + data[off + 1]]
  IN count[0]

(* The walk from descriptor to descriptor.                                 *)
countDescriptors(data) ==
  LET count[off \in Nat] ==
        IF off + 1 >= Len(data) \/ data[off + 1] < 2
          THEN 0
          ELSE 1 + count[off + data[off + 1]]
  IN count[0]

(* Header and contents for full and high speed. WriteDescriptors passes no *)
(* descriptors for super speed.                                            *)
buildDescriptorsBlob(fsDescs, hsDescs, fsCount, hsCount) ==
  LET flags == (IF fsCount > 0 THEN 1 ELSE 0) + (IF hsCount > 0 THEN 2 ELSE 0)
      counts == (IF fsCount > 0 THEN LE32(fsCount) ELSE <<>>)
                  \o (IF hsCount > 0 THEN LE32(hsCount) ELSE <<>>)
      totalLen == 12 + Len(counts) + Len(fsDescs) + Len(hsDescs)
  IN LE32(3) \o LE32(totalLen) \o LE32(flags) \o counts \o fsDescs \o hsDescs

-----------------------------------------------------------------------------
(* UTF-16: one unit, or a surrogate pair.                                  *)
OneUnit(c) == c <= 65535

units(c) ==
  IF OneUnit(c)
    THEN LE16(c)
    ELSE LE16(55296 + (c - 65536) \div 1024) \o LE16(56320 + ((c - 65536) % 1024))

stringBytes(s) ==
  LET buf == FlattenSeq([k \in DOMAIN s |-> units(s[k])]) IN
  <<(1 + Len(buf) \div 2) % 256>> \o buf

(* What the string is counted with in totalLen, before it is encoded.      *)
sizeOf(s) == 1 + Total([k \in DOMAIN s |-> IF OneUnit(s[k]) THEN 2 ELSE 4])

lang == 1033 \* 0x0409

(* One language, or no strings at all.                                     *)
buildStringsBlob(strings) ==
  LET totalLen == 18 + Total([k \in DOMAIN strings |-> sizeOf(strings[k])])
  IN IF strings = <<>>
       THEN <<>>
       ELSE LE32(2) \o LE32(totalLen) \o LE32(Len(strings)) \o LE32(1) \o LE16(lang)
              \o FlattenSeq([k \in DOMAIN strings |-> stringBytes(strings[k])])

-----------------------------------------------------------------------------
(* The reader                                                              *)

int32(b, at) == b[at] + 256 * b[at + 1] + 65536 * b[at + 2] + 16777216 * b[at + 3]

(* The first n elements of b, len[b[1]] being the length of the one at the *)
(* head of b, and with them what is left; ok, if they are all there.       *)
split(b, n, len) ==
  LET step[k \in Nat] ==
        IF k = 0 THEN [ok |-> TRUE, got |-> <<>>, rest |-> b]
        ELSE LET s == step[k - 1] IN
             IF ~s.ok \/ s.rest = <<>> \/ len[s.rest[1]] \notin 1..Len(s.rest)
               THEN [s EXCEPT !.ok = FALSE]
               ELSE [ok |-> TRUE,
                     got |-> Append(s.got, SubSeq(s.rest, 1, len[s.rest[1]])),
                     rest |-> SubSeq(s.rest, len[s.rest[1]] + 1, Len(s.rest))]
  IN step[n]

(* The descriptors of each speed. The counts are of descriptors, and       *)
(* nothing may be left over.                                               *)
readDescriptors(b) ==
  LET len == [first \in Byte |-> first]
      fs == split(SubSeq(b, 21, Len(b)), int32(b, 13), len)
      hs == split(fs.rest, int32(b, 17), len)
  IN [ok |-> /\ int32(b, 1) = 3 /\ int32(b, 5) = Len(b) /\ int32(b, 9) = 3
             /\ fs.ok /\ hs.ok /\ hs.rest = <<>>,
      fs |-> fs.got, hs |-> hs.got]

(* The strings, by their length bytes: one more than the number of units.  *)
readStrings(b) ==
  LET len == [first \in Byte |-> 2 * first - 1]
      all == split(SubSeq(b, 19, Len(b)), int32(b, 9), len)
  IN [ok |-> /\ int32(b, 1) = 2 /\ int32(b, 5) = Len(b) /\ int32(b, 13) = 1
             /\ all.ok /\ all.rest = <<>>,
      got |-> [k \in DOMAIN all.got |-> Tail(all.got[k])]]
=============================================================================
