----------------------- MODULE PassthroughStreamProofs -----------------------
(***************************************************************************)
(* Over a UDS, send and load --recv are together one stream of reports for *)
(* each endpoint, for every number of endpoints, every capacity of the     *)
(* queues and with no fairness assumed: the safety half of PassesOn.       *)
(***************************************************************************)
EXTENDS Passthrough, InjectPacketProofs, FiniteSetTheorems, FunctionTheorems

-----------------------------------------------------------------------------
(* The packets of send.                                                    *)

pkt(e, n) == buildInjectPacket(ifaceOf[e], <<e, n>>)
Pkt == {pkt(e, n) : e \in Endpoint, n \in Nat}

src(p) == parsedData(p)[1]
num(p) == parsedData(p)[2]
ok(p)  == Parses(p) /\ parsedIface(p) \in HidIface

LEMMA PktParts ==
  ASSUME NEW e \in Endpoint, NEW n \in Nat
  PROVE  /\ pkt(e, n) \in Pkt
         /\ src(pkt(e, n)) = e /\ num(pkt(e, n)) = n
         /\ ok(pkt(e, n)) = (e \in Mapped)
         /\ parsedData(pkt(e, n)) = <<e, n>>
<1> DEFINE S == Endpoint \cup Nat
<1>1. ifaceOf[e] \in IfaceNum
  BY SendAssumption DEF SendAssumption, IfaceNum, Byte
<1>2. <<e, n>> \in Seq(S) /\ Len(<<e, n>>) = 2
  OBVIOUS
<1>3. Len(<<e, n>>) < lenSpan
  BY <1>2 DEF lenSpan
<1> HIDE DEF S
<1>4. /\ Parses(pkt(e, n)) /\ parsedIface(pkt(e, n)) = ifaceOf[e]
      /\ parsedData(pkt(e, n)) = <<e, n>>
  BY <1>1, <1>2, <1>3, RoundTrip DEF pkt
<1>5. pkt(e, n) \in Pkt
  BY DEF Pkt
<1> QED BY <1>4, <1>5 DEF src, num, ok, Mapped

LEMMA PktType ==
  ASSUME NEW p \in Pkt
  PROVE  src(p) \in Endpoint /\ num(p) \in Nat /\ ok(p) = (src(p) \in Mapped)
         /\ parsedData(p) = <<src(p), num(p)>>
<1>1. PICK e \in Endpoint, n \in Nat : p = pkt(e, n)
  BY DEF Pkt
<1> QED BY <1>1, PktParts

-----------------------------------------------------------------------------
(* Where the packets that load received are: handled by the loop, with the *)
(* loop, in the channel or with serve, one after the other.                *)

Entry == [from : Nat, ok : BOOLEAN]
entry(packets, k) == [from |-> k, ok |-> ok(packets[k])]

holding == IF servePc[l] = "put" THEN 1 ELSE 0
busy    == IF loopPc[l] \in {"addr", "update"} THEN 1 ELSE 0
handled == clock - holding - Len(ch[l]) - busy

LoadTypes ==
  /\ clock \in Nat
  /\ heard \in Seq(Pkt) /\ Len(heard) = clock
  /\ servePc \in [Listener -> {"read", "put", "stopped"}]
  /\ loopPc \in [Listener -> {"recv", "addr", "update", "send", "stopped"}]
  /\ held \in [Listener -> SUBSET Entry]
  /\ cur \in [Listener -> SUBSET Entry]
  /\ ch \in [Listener -> Seq(Entry)] /\ Len(ch[l]) <= ChanSize

Numbered ==
  /\ handled >= 0
  /\ held[l] = IF holding = 1 THEN {entry(heard, clock)} ELSE {}
  /\ \A k \in 1..Len(ch[l]) : ch[l][k] = entry(heard, handled + busy + k)
  /\ cur[l] = IF busy = 1 THEN {entry(heard, handled + 1)} ELSE {}

LoadInv == LoadTypes /\ Numbered

LEMMA Listening == l \in Listener /\ Listener = {l}
  BY DEF l, Listener

LEMMA LoadNumbers ==
  ASSUME LoadTypes
  PROVE  /\ clock \in Nat /\ Len(ch[l]) \in Nat /\ ch[l] \in Seq(Entry)
         /\ holding \in 0..1 /\ busy \in 0..1 /\ handled \in Int
         /\ clock = handled + busy + Len(ch[l]) + holding
         /\ ChanSize \in Nat \ {0} /\ NetSize \in Nat \ {0}
  BY Listening, PassAssumption, SendAssumption
  DEF LoadTypes, holding, busy, handled, PassAssumption, SendAssumption

LEMMA Within ==
  ASSUME NEW a \in Nat, NEW b \in Nat, NEW c, c = a + 1 + b
  PROVE  a + 1 \in 1..c
  OBVIOUS

LEMMA Between ==
  ASSUME NEW c, NEW h \in Nat, NEW b \in 0..1, NEW n \in Nat, NEW p \in 0..1, NEW m \in Nat,
         c = h + b + n + p, n <= m
  PROVE  h <= c /\ c - h <= m + 2
  OBVIOUS

(* A new packet does not change the entries of those before it.            *)
LEMMA EntryStays ==
  ASSUME NEW s \in Seq(Pkt), NEW p \in Pkt, NEW k \in 1..Len(s)
  PROVE  entry(Append(s, p), k) = entry(s, k)
  BY DEF entry

LEMMA SameNumbers ==
  ASSUME LoadInv, UNCHANGED <<clock, heard, held, ch, cur, holding, busy>>,
         servePc' \in [Listener -> {"read", "put", "stopped"}],
         loopPc' \in [Listener -> {"recv", "addr", "update", "send", "stopped"}]
  PROVE  LoadInv' /\ handled' = handled
<1>1. handled' = handled
  BY DEF handled
<1>2. LoadTypes'
  BY DEF LoadInv, LoadTypes
<1>3. Numbered'
  BY <1>1 DEF LoadInv, Numbered
<1> QED BY <1>1, <1>2, <1>3 DEF LoadInv

LEMMA DeliverLoad ==
  ASSUME LoadInv, up \in Seq(Pkt), NEW i \in DOMAIN up,
         heard' = Append(heard, up[i]), R!ServeRead(l),
         \A p \in held'[l] : p.ok = (Parses(up[i]) /\ parsedIface(up[i]) \in HidIface)
  PROVE  LoadInv' /\ handled' = handled /\ clock' = clock + 1
<1>2. up[i] \in Pkt
  OBVIOUS
<1>3. PICK b \in BOOLEAN : held' = [held EXCEPT ![l] = {[from |-> clock + 1, ok |-> b]}]
  BY Listening DEF R!ServeRead
<1>4. /\ servePc[l] = "read" /\ servePc' = [servePc EXCEPT ![l] = "put"]
      /\ clock' = clock + 1
      /\ UNCHANGED <<ch, loopPc, cur>>
  BY DEF R!ServeRead, R!chanVars, R!loopVars
<1>5. held'[l] = {[from |-> clock + 1, ok |-> b]}
  BY <1>3, Listening DEF LoadInv, LoadTypes
<1>6. b = ok(up[i])
  BY <1>5 DEF ok
<1>7. /\ heard' \in Seq(Pkt) /\ Len(heard') = clock' /\ heard'[clock'] = up[i]
  BY <1>2, <1>4 DEF LoadInv, LoadTypes
<1>8. entry(heard', clock') = [from |-> clock + 1, ok |-> b]
  BY <1>4, <1>6, <1>7 DEF entry
<1>9. LoadTypes'
  BY <1>3, <1>4, <1>7, Listening DEF LoadInv, LoadTypes, Entry
<1>10. holding = 0 /\ holding' = 1 /\ busy' = busy /\ handled' = handled
  <2>1. holding = 0 /\ holding' = 1 /\ busy' = busy
    BY <1>4, Listening DEF LoadInv, LoadTypes, holding, busy
  <2> QED BY <1>4, <2>1, LoadNumbers DEF LoadInv, handled
<1>11. \A k \in 1..clock : entry(heard', k) = entry(heard, k)
  BY <1>2, EntryStays DEF LoadInv, LoadTypes
<1>12. /\ clock = handled + busy + Len(ch[l]) /\ handled \in Nat
       /\ busy \in 0..1 /\ Len(ch[l]) \in Nat
  BY <1>10, LoadNumbers DEF LoadInv, Numbered
<1>13. Numbered'
  <2>1. held'[l] = {entry(heard', clock')}
    BY <1>5, <1>8
  <2>2. ASSUME NEW k \in 1..Len(ch[l]) PROVE ch[l][k] = entry(heard', handled + busy + k)
    <3>1. handled + busy + k \in 1..clock
      BY <1>12
    <3>2. ch[l][k] = entry(heard, handled + busy + k)
      BY DEF LoadInv, Numbered
    <3> QED BY <1>11, <3>1, <3>2
  <2>3. cur[l] = IF busy = 1 THEN {entry(heard', handled + 1)} ELSE {}
    <3>1. ASSUME busy = 1 PROVE handled + 1 \in 1..clock
      <4>1. clock = handled + 1 + Len(ch[l]) /\ handled \in Nat /\ Len(ch[l]) \in Nat
        BY <1>12, <3>1
      <4> QED BY <4>1, Within
    <3> QED BY <1>11, <3>1 DEF LoadInv, Numbered
  <2> QED BY <1>4, <1>10, <1>12, <2>1, <2>2, <2>3 DEF Numbered
<1> QED BY <1>4, <1>9, <1>10, <1>13 DEF LoadInv

LEMMA PutLoad ==
  ASSUME LoadInv, R!ServePut(l), UNCHANGED heard
  PROVE  LoadInv' /\ UNCHANGED <<handled, clock>>
<1>1. /\ servePc[l] = "put" /\ servePc' = [servePc EXCEPT ![l] = "read"]
      /\ Len(ch[l]) < ChanSize
      /\ held' = [held EXCEPT ![l] = {}]
      /\ UNCHANGED <<clock, heard, loopPc, cur>>
  BY DEF R!ServePut, R!loopVars
<1>2. holding = 1 /\ holding' = 0 /\ busy' = busy
  BY <1>1, Listening DEF LoadInv, LoadTypes, holding, busy
<1>3. PICK p \in held[l] : ch' = [ch EXCEPT ![l] = Append(@, p)]
  BY DEF R!ServePut
<1>4. p = entry(heard, clock) /\ p \in Entry
  BY <1>2, <1>3, Listening DEF LoadInv, LoadTypes, Numbered
<1>5. /\ ch'[l] = Append(ch[l], p) /\ ch' \in [Listener -> Seq(Entry)]
      /\ Len(ch'[l]) = Len(ch[l]) + 1 /\ Len(ch[l]) \in Nat
      /\ ch'[l][Len(ch[l]) + 1] = p
      /\ \A k \in 1..Len(ch[l]) : ch'[l][k] = ch[l][k]
  BY <1>3, <1>4, Listening DEF LoadInv, LoadTypes
<1>6. handled' = handled
  BY <1>1, <1>2, <1>5, LoadNumbers DEF LoadInv, handled
<1>7. LoadTypes'
  <2>1. Len(ch'[l]) <= ChanSize
    BY <1>1, <1>5, LoadNumbers DEF LoadInv
  <2> QED BY <1>1, <1>5, <2>1, Listening DEF LoadInv, LoadTypes
<1>8. clock = handled + busy + (Len(ch[l]) + 1) /\ handled \in Int /\ busy \in 0..1
  BY <1>2, <1>5, LoadNumbers DEF LoadInv
<1>9. ASSUME NEW k \in 1..Len(ch'[l]) PROVE ch'[l][k] = entry(heard, handled + busy + k)
  <2>1. CASE k = Len(ch[l]) + 1
    <3>1. handled + busy + k = clock
      BY <1>8, <2>1
    <3> QED BY <1>4, <1>5, <2>1, <3>1
  <2>2. CASE k # Len(ch[l]) + 1
    <3>1. k \in 1..Len(ch[l])
      BY <1>5, <2>2
    <3> QED BY <1>5, <3>1 DEF LoadInv, Numbered
  <2> QED BY <2>1, <2>2
<1>10. held'[l] = {}
  BY <1>1, Listening DEF LoadInv, LoadTypes
<1>11. Numbered'
  BY <1>1, <1>2, <1>6, <1>9, <1>10 DEF LoadInv, Numbered
<1> QED BY <1>1, <1>6, <1>7, <1>11 DEF LoadInv

LEMMA RecvLoad ==
  ASSUME LoadInv, R!LoopRecv(l), UNCHANGED heard
  PROVE  LoadInv' /\ UNCHANGED <<handled, clock>>
<1>1. /\ loopPc[l] = "recv" /\ loopPc' = [loopPc EXCEPT ![l] = "addr"]
      /\ ch[l] # <<>> /\ ch' = [ch EXCEPT ![l] = Tail(@)]
      /\ cur' = [cur EXCEPT ![l] = {Head(ch[l])}]
      /\ UNCHANGED <<clock, heard, servePc, held>>
  BY DEF R!LoopRecv, R!serveVars
<1>2. busy = 0 /\ busy' = 1 /\ holding' = holding
  BY <1>1, Listening DEF LoadInv, LoadTypes, holding, busy
<1>3. ch[l] \in Seq(Entry) /\ Len(ch[l]) \in Nat \ {0} /\ Head(ch[l]) = ch[l][1]
  BY <1>1, Listening DEF LoadInv, LoadTypes
<1>4. ch'[l] = Tail(ch[l])
  BY <1>1, Listening DEF LoadInv, LoadTypes
<1>5. /\ Len(ch'[l]) = Len(ch[l]) - 1
      /\ \A k \in 1..Len(ch'[l]) : ch'[l][k] = ch[l][k + 1]
      /\ Tail(ch[l]) \in Seq(Entry) /\ Head(ch[l]) \in Entry
  BY <1>3, <1>4
<1>6. handled' = handled
  BY <1>1, <1>2, <1>3, <1>5, LoadNumbers DEF LoadInv, handled
<1>7. LoadTypes'
  <2>1. Len(ch'[l]) <= ChanSize
    BY <1>3, <1>5, LoadNumbers DEF LoadInv, LoadTypes
  <2>2. ch' \in [Listener -> Seq(Entry)]
    BY <1>1, <1>5, Listening DEF LoadInv, LoadTypes
  <2> QED BY <1>1, <1>5, <2>1, <2>2, Listening DEF LoadInv, LoadTypes
<1>8. handled \in Int
  BY LoadNumbers DEF LoadInv
<1>9. \A k \in 1..Len(ch[l]) : ch[l][k] = entry(heard, handled + k)
  BY <1>2, <1>8 DEF LoadInv, Numbered
<1>10. cur'[l] = {entry(heard, handled + 1)}
  <2>1. 1 \in 1..Len(ch[l])
    BY <1>3
  <2>2. cur'[l] = {ch[l][1]}
    BY <1>1, <1>3, Listening DEF LoadInv, LoadTypes
  <2> QED BY <1>9, <2>1, <2>2
<1>11. ASSUME NEW k \in 1..Len(ch'[l]) PROVE ch'[l][k] = entry(heard, handled + 1 + k)
  <2>1. k + 1 \in 1..Len(ch[l]) /\ handled + (k + 1) = handled + 1 + k
    BY <1>3, <1>5, <1>8
  <2>2. ch[l][k + 1] = entry(heard, handled + (k + 1))
    BY <1>9, <2>1
  <2> QED BY <1>5, <2>1, <2>2
<1>12. Numbered'
  BY <1>1, <1>2, <1>6, <1>10, <1>11 DEF LoadInv, Numbered
<1> QED BY <1>1, <1>6, <1>7, <1>12 DEF LoadInv

(* The loop has dealt with the first packet that was not handled.          *)
LEMMA HandleLoadStep ==
  ASSUME LoadInv, R!Handle(l), UNCHANGED heard
  PROVE  /\ LoadInv' /\ handled' = handled + 1 /\ UNCHANGED clock
         /\ handled + 1 \in 1..clock
         /\ cur[l] = {entry(heard, handled + 1)}
<1>1. /\ loopPc[l] = "update"
      /\ \E s \in {"send", "recv"} : loopPc' = [loopPc EXCEPT ![l] = s]
      /\ cur' = [cur EXCEPT ![l] = {}]
      /\ UNCHANGED <<clock, heard, servePc, held, ch>>
  <2>1. \E p \in cur[l] : loopPc' = [loopPc EXCEPT ![l] = IF p.ok THEN "send" ELSE "recv"]
    BY DEF R!Handle
  <2> QED BY <2>1 DEF R!Handle, R!serveVars, R!chanVars
<1>2. busy = 1 /\ busy' = 0 /\ holding' = holding
  BY <1>1, Listening DEF LoadInv, LoadTypes, holding, busy
<1>3. handled' = handled + 1
  BY <1>1, <1>2, LoadNumbers DEF LoadInv, handled
<1>4. handled \in Nat /\ handled + 1 \in 1..clock
  BY <1>2, LoadNumbers DEF LoadInv, Numbered
<1>5. LoadTypes'
  BY <1>1, Listening DEF LoadInv, LoadTypes
<1>6. cur'[l] = {}
  BY <1>1, Listening DEF LoadInv, LoadTypes
<1>7. ASSUME NEW k \in 1..Len(ch[l]) PROVE ch[l][k] = entry(heard, handled' + busy' + k)
  <2>1. handled' + busy' + k = handled + busy + k
    BY <1>2, <1>3, <1>4
  <2> QED BY <2>1 DEF LoadInv, Numbered
<1>8. Numbered'
  BY <1>1, <1>2, <1>3, <1>4, <1>6, <1>7 DEF LoadInv, Numbered
<1> QED BY <1>1, <1>2, <1>3, <1>4, <1>5, <1>8 DEF LoadInv, Numbered

(* The other steps of load leave every packet where it is.                 *)
LEMMA AloneLoad ==
  ASSUME LoadInv, LoadAlone
  PROVE  LoadInv' /\ UNCHANGED <<handled, clock, heard, came>>
<1>1. UNCHANGED <<heard, came>>
  BY DEF LoadAlone
<1>2. CASE R!ServePut(l)
  BY <1>1, <1>2, PutLoad
<1>3. CASE R!LoopRecv(l)
  BY <1>1, <1>3, RecvLoad
<1>4. CASE R!ServeError(l)
  <2>1. UNCHANGED <<clock, heard, held, ch, cur, loopPc>> /\ servePc[l] = "read"
        /\ servePc' = [servePc EXCEPT ![l] = "stopped"]
    BY <1>1, <1>4 DEF R!ServeError, R!loopVars
  <2>2. UNCHANGED <<holding, busy>>
    BY <2>1, Listening DEF holding, busy, LoadInv, LoadTypes
  <2> QED BY <1>1, <2>1, <2>2, SameNumbers DEF LoadInv, LoadTypes
<1>5. CASE R!LoopClosed(l) \/ R!LastAddr(l) \/ R!PipeSend(l) \/ R!PipeSendCancelled(l)
  <2>1. UNCHANGED <<clock, heard, held, ch, cur, servePc>>
    BY <1>1, <1>5 DEF R!LoopClosed, R!LastAddr, R!PipeSend, R!PipeSendCancelled, R!serveVars, R!chanVars
  <2>2. \/ loopPc[l] = "addr" /\ loopPc' = [loopPc EXCEPT ![l] = "update"]
        \/ loopPc[l] \in {"recv", "send"} /\ loopPc' = [loopPc EXCEPT ![l] = "recv"]
        \/ loopPc[l] \in {"recv", "send"} /\ loopPc' = [loopPc EXCEPT ![l] = "stopped"]
    BY <1>5 DEF R!LoopClosed, R!LastAddr, R!PipeSend, R!PipeSendCancelled
  <2>3. UNCHANGED <<holding, busy>>
    BY <2>1, <2>2, Listening DEF holding, busy, LoadInv, LoadTypes
  <2>4. loopPc' \in [Listener -> {"recv", "addr", "update", "send", "stopped"}]
    BY <2>2, Listening DEF LoadInv, LoadTypes
  <2> QED BY <1>1, <2>1, <2>3, <2>4, SameNumbers DEF LoadInv, LoadTypes
<1>6. CASE \/ R!HostOutput \/ R!EchoRecv \/ R!EchoCancelled \/ R!EchoSend
          \/ R!Cancel \/ R!Finished
  <2>1. UNCHANGED <<clock, heard, held, ch, cur, servePc, loopPc>>
    BY <1>1, <1>6 DEF R!HostOutput, R!EchoRecv, R!EchoCancelled, R!EchoSend, R!Cancel, R!Finished,
       R!vars, R!serveVars, R!chanVars, R!loopVars
  <2>2. UNCHANGED <<holding, busy>>
    BY <2>1 DEF holding, busy
  <2> QED BY <1>1, <2>1, <2>2, SameNumbers DEF LoadInv, LoadTypes
<1> QED BY <1>2, <1>3, <1>4, <1>5, <1>6 DEF LoadAlone

LEMMA LoadStarting == R!Init /\ heard = <<>> => LoadInv /\ handled = 0
<1> SUFFICES ASSUME R!Init, heard = <<>> PROVE LoadInv /\ handled = 0
  OBVIOUS
<1>1. /\ clock = 0 /\ ch[l] = <<>> /\ held[l] = {} /\ cur[l] = {}
      /\ servePc[l] = "read" /\ loopPc[l] = "recv"
  BY Listening DEF R!Init
<1>2. holding = 0 /\ busy = 0 /\ Len(ch[l]) = 0
  BY <1>1 DEF holding, busy
<1>3. LoadTypes
  <2>1. Len(ch[l]) <= ChanSize
    BY <1>2, PassAssumption DEF PassAssumption
  <2> QED BY <2>1 DEF R!Init, LoadTypes
<1>4. handled = 0
  <2>1. handled \in Int /\ clock = handled + busy + Len(ch[l]) + holding
    BY <1>3, LoadNumbers
  <2>2. 0 = handled + 0 + 0 + 0
    BY <1>1, <1>2, <2>1
  <2> QED BY <2>1, <2>2
<1>5. Numbered
  BY <1>1, <1>2, <1>4 DEF Numbered
<1> QED BY <1>3, <1>4, <1>5 DEF LoadInv

-----------------------------------------------------------------------------
(* The packets w that were ever delivered or are in the queue, of which h  *)
(* are handled, when s of each endpoint are sent and c of each have come:  *)
(* no report is among them that was not sent, those of an endpoint are in  *)
(* order, and of those that were not handled none has come and none is     *)
(* left out. While the queue is open, the last one sent is among them.     *)

SentBefore(w, s) == \A k \in 1..Len(w) : num(w[k]) \in 1..s[src(w[k])]
Sorted(w) ==
  \A j, k \in 1..Len(w) : j < k /\ src(w[j]) = src(w[k]) => num(w[j]) < num(w[k])
Later(w, h, c) == \A k \in (h + 1)..Len(w) : c[src(w[k])] < num(w[k])
Gapless(w, h, c) ==
  \A k \in (h + 1)..Len(w), n \in Nat :
    ok(w[k]) /\ c[src(w[k])] < n /\ n <= num(w[k]) =>
      \E j \in (h + 1)..k : src(w[j]) = src(w[k]) /\ num(w[j]) = n
LastUnderWay(w, h, s, c) ==
  \A e \in Mapped : c[e] < s[e] => \E k \in (h + 1)..Len(w) : src(w[k]) = e /\ num(w[k]) = s[e]

WireOK(w, h, s, c, open) ==
  /\ \A e \in Endpoint : c[e] <= s[e]
  /\ SentBefore(w, s)
  /\ Sorted(w)
  /\ Later(w, h, c)
  /\ Gapless(w, h, c)
  /\ open => LastUnderWay(w, h, s, c)

Counts == [Endpoint -> Nat]

LEMMA WireParts ==
  ASSUME NEW w \in Seq(Pkt), NEW k \in 1..Len(w)
  PROVE  w[k] \in Pkt /\ src(w[k]) \in Endpoint /\ num(w[k]) \in Nat
         /\ ok(w[k]) = (src(w[k]) \in Mapped)
<1>1. w[k] \in Pkt
  OBVIOUS
<1> QED BY <1>1, PktType

LEMMA WireAppend ==
  ASSUME NEW w \in Seq(Pkt), NEW h \in 0..Len(w), NEW s \in Counts, NEW c \in Counts,
         WireOK(w, h, s, c, TRUE), NEW e \in Endpoint,
         NEW t \in Counts, t = [s EXCEPT ![e] = s[e] + 1]
  PROVE  WireOK(Append(w, pkt(e, s[e] + 1)), h, t, c, TRUE)
<1> DEFINE n == Len(w)
           p == pkt(e, s[e] + 1)
           v == Append(w, p)
<1>1. s[e] \in Nat /\ t[e] = s[e] + 1 /\ \A d \in Endpoint : d # e => t[d] = s[d]
  BY DEF Counts
<1>2. p \in Pkt /\ src(p) = e /\ num(p) = s[e] + 1 /\ ok(p) = (e \in Mapped)
  <2>1. s[e] + 1 \in Nat
    BY <1>1
  <2> QED BY <2>1, PktParts
<1> HIDE DEF p
<1>3. /\ n \in Nat /\ Len(v) = n + 1 /\ v[n + 1] = p /\ v \in Seq(Pkt)
      /\ \A k \in 1..n : v[k] = w[k]
  BY <1>2
<1> HIDE DEF v, n
<1>4. h \in Nat /\ h <= n
  BY <1>3 DEF n
<1>5. ASSUME NEW k \in 1..Len(v) PROVE k = n + 1 \/ k \in 1..n
  BY <1>3
<1>6. /\ SentBefore(w, s) /\ Sorted(w) /\ Later(w, h, c) /\ Gapless(w, h, c)
      /\ LastUnderWay(w, h, s, c)
  BY DEF WireOK
<1>7. \A k \in 1..n : num(v[k]) \in 1..s[src(v[k])] /\ src(v[k]) \in Endpoint /\ num(v[k]) \in Nat
  BY <1>3, <1>6, WireParts DEF SentBefore, n
<1>8. SentBefore(v, t)
  <2> SUFFICES ASSUME NEW k \in 1..Len(v) PROVE num(v[k]) \in 1..t[src(v[k])]
    BY DEF SentBefore
  <2>1. CASE k = n + 1
    BY <1>1, <1>2, <1>3, <2>1
  <2>2. CASE k \in 1..n
    <3>1. s[src(v[k])] \in Nat /\ t[src(v[k])] \in Nat /\ s[src(v[k])] <= t[src(v[k])]
      BY <1>1, <1>7, <2>2 DEF Counts
    <3> QED BY <1>7, <2>2, <3>1
  <2> QED BY <1>5, <2>1, <2>2
<1>9. Sorted(v)
  <2> SUFFICES ASSUME NEW j \in 1..Len(v), NEW k \in 1..Len(v), j < k, src(v[j]) = src(v[k])
               PROVE  num(v[j]) < num(v[k])
    BY DEF Sorted
  <2>1. j \in 1..n
    BY <1>3
  <2>2. CASE k = n + 1
    <3>1. src(v[j]) = e /\ num(v[k]) = s[e] + 1
      BY <1>2, <1>3, <2>2
    <3> QED BY <1>1, <1>7, <2>1, <3>1
  <2>3. CASE k \in 1..n
    BY <1>3, <1>6, <2>1, <2>3 DEF Sorted, n
  <2> QED BY <1>5, <2>2, <2>3
<1>10. LastUnderWay(v, h, t, c)
  <2> SUFFICES ASSUME NEW d \in Mapped, c[d] < t[d]
               PROVE  \E k \in (h + 1)..Len(v) : src(v[k]) = d /\ num(v[k]) = t[d]
    BY DEF LastUnderWay
  <2>1. CASE d = e
    <3>1. n + 1 \in (h + 1)..Len(v)
      BY <1>3, <1>4
    <3> QED BY <1>1, <1>2, <1>3, <2>1, <3>1
  <2>2. CASE d # e
    <3>1. t[d] = s[d]
      BY <1>1, <2>2 DEF Mapped
    <3>2. PICK k \in (h + 1)..n : src(w[k]) = d /\ num(w[k]) = s[d]
      BY <1>6, <3>1 DEF LastUnderWay, n
    <3>3. k \in (h + 1)..Len(v) /\ k \in 1..n
      BY <1>3, <1>4
    <3> QED BY <1>3, <3>1, <3>2, <3>3
  <2> QED BY <2>1, <2>2
<1>11. c[e] \in Nat /\ c[e] <= s[e] /\ \A d \in Endpoint : c[d] <= t[d]
  BY <1>1 DEF WireOK, Counts
<1>12. Later(v, h, c)
  <2> SUFFICES ASSUME NEW k \in (h + 1)..Len(v) PROVE c[src(v[k])] < num(v[k])
    BY DEF Later
  <2>1. k \in 1..Len(v)
    BY <1>4
  <2>2. CASE k = n + 1
    BY <1>1, <1>2, <1>3, <1>11, <2>2
  <2>3. CASE k \in 1..n
    <3>1. k \in (h + 1)..n
      BY <1>3, <1>4, <2>3
    <3> QED BY <1>3, <1>6, <2>3, <3>1 DEF Later, n
  <2> QED BY <1>5, <2>1, <2>2, <2>3
<1>13. ASSUME NEW k \in (h + 1)..n, NEW m \in Nat, ok(w[k]), c[src(w[k])] < m, m <= num(w[k])
       PROVE  \E j \in (h + 1)..k : src(v[j]) = src(w[k]) /\ num(v[j]) = m
  <2>1. PICK j \in (h + 1)..k : src(w[j]) = src(w[k]) /\ num(w[j]) = m
    BY <1>6, <1>13 DEF Gapless, n
  <2>2. j \in 1..n
    BY <1>3, <1>4
  <2> QED BY <1>3, <2>1, <2>2
<1>14. Gapless(v, h, c)
  <2> SUFFICES ASSUME NEW k \in (h + 1)..Len(v), NEW m \in Nat,
                      ok(v[k]), c[src(v[k])] < m, m <= num(v[k])
               PROVE  \E j \in (h + 1)..k : src(v[j]) = src(v[k]) /\ num(v[j]) = m
    BY DEF Gapless
  <2>1. k \in 1..Len(v)
    BY <1>4
  <2>2. CASE k \in 1..n
    <3>1. k \in (h + 1)..n
      BY <1>3, <1>4, <2>2
    <3> QED BY <1>3, <1>13, <2>2, <3>1
  <2>3. CASE k = n + 1 /\ m = s[e] + 1
    BY <1>2, <1>3, <1>4, <2>3
  <2>4. CASE k = n + 1 /\ m # s[e] + 1
    <3>1. e \in Mapped /\ src(v[k]) = e /\ c[e] < m /\ m <= s[e]
      <4>1. v[k] = p
        BY <1>3, <2>4
      <4>2. src(v[k]) = e /\ num(v[k]) = s[e] + 1 /\ e \in Mapped
        BY <1>2, <4>1
      <4>3. m <= s[e] + 1 /\ c[e] < m
        BY <4>2
      <4> QED BY <1>1, <2>4, <4>2, <4>3
    <3>2. PICK i \in (h + 1)..n : src(w[i]) = e /\ num(w[i]) = s[e]
      BY <1>1, <1>6, <1>11, <3>1 DEF LastUnderWay, n
    <3>3. ok(w[i])
      <4>1. i \in 1..n
        BY <1>3, <1>4
      <4> QED BY <3>1, <3>2, <4>1, WireParts DEF n
    <3>4. PICK j \in (h + 1)..i : src(v[j]) = e /\ num(v[j]) = m
      BY <1>13, <3>1, <3>2, <3>3
    <3>5. j \in (h + 1)..k
      BY <1>3, <1>4, <2>4
    <3> QED BY <3>1, <3>4, <3>5
  <2> QED BY <1>5, <2>1, <2>2, <2>3, <2>4
<1> QED BY <1>8, <1>9, <1>10, <1>11, <1>12, <1>14 DEF WireOK, v, p

(* Handling the first packet that was not handled.                         *)
LEMMA WireHandle ==
  ASSUME NEW w \in Seq(Pkt), NEW h \in Nat, h + 1 \in 1..Len(w),
         NEW s \in Counts, NEW c \in Counts, NEW open \in BOOLEAN, WireOK(w, h, s, c, open),
         NEW d \in Counts,
         d = IF ok(w[h + 1]) THEN [c EXCEPT ![src(w[h + 1])] = num(w[h + 1])] ELSE c
  PROVE  /\ WireOK(w, h + 1, s, d, open)
         /\ ok(w[h + 1]) => num(w[h + 1]) = c[src(w[h + 1])] + 1
         /\ c[src(w[h + 1])] < s[src(w[h + 1])]
<1> DEFINE n == Len(w)
           e == src(w[h + 1])
           x == num(w[h + 1])
<1>1. n \in Nat /\ e \in Endpoint /\ x \in Nat /\ ok(w[h + 1]) = (e \in Mapped) /\ h + 1 <= n
  BY WireParts
<1>2. /\ SentBefore(w, s) /\ Sorted(w) /\ Later(w, h, c) /\ Gapless(w, h, c)
      /\ open => LastUnderWay(w, h, s, c)
      /\ \A a \in Endpoint : c[a] <= s[a]
  BY DEF WireOK
<1>3. /\ \A k \in 1..n : src(w[k]) \in Endpoint /\ num(w[k]) \in Nat /\ ok(w[k]) = (src(w[k]) \in Mapped)
      /\ \A a \in Endpoint : c[a] \in Nat /\ s[a] \in Nat /\ d[a] \in Nat
  BY WireParts DEF Counts
<1>4. h + 1 \in 1..n /\ h + 1 \in (h + 1)..n
  BY <1>1
<1>5. c[e] < x /\ x <= s[e] /\ c[e] < s[e]
  BY <1>1, <1>2, <1>3, <1>4 DEF SentBefore, Later
<1>6. ok(w[h + 1]) => x = c[e] + 1
  <2> SUFFICES ASSUME ok(w[h + 1]), x # c[e] + 1 PROVE FALSE
    OBVIOUS
  <2>1. c[e] + 1 \in Nat /\ c[e] < c[e] + 1 /\ c[e] + 1 <= x /\ c[e] \in Nat
    BY <1>1, <1>3, <1>5
  <2>2. PICK j \in (h + 1)..(h + 1) : src(w[j]) = e /\ num(w[j]) = c[e] + 1
    BY <1>2, <1>4, <2>1 DEF Gapless
  <2> QED BY <2>2
<1>7. /\ e \in Mapped => d[e] = x
      /\ \A a \in Endpoint : a # e \/ e \notin Mapped => d[a] = c[a]
  BY <1>1 DEF Counts
<1> HIDE DEF n, e, x
<1>8. \A a \in Endpoint : d[a] <= s[a]
  <2> SUFFICES ASSUME NEW a \in Endpoint PROVE d[a] <= s[a]
    OBVIOUS
  <2> QED BY <1>2, <1>5, <1>7
<1>9. \A k \in (h + 2)..n : k \in 1..n /\ k \in (h + 1)..n /\ h + 1 < k
  BY <1>1
<1>10. ASSUME NEW k \in (h + 2)..n PROVE d[src(w[k])] < num(w[k])
  <2>1. CASE src(w[k]) = e /\ e \in Mapped
    <3>1. x < num(w[k])
      BY <1>2, <1>4, <1>9, <2>1 DEF Sorted, n, e, x
    <3> QED BY <1>7, <2>1, <3>1
  <2>2. CASE src(w[k]) # e \/ e \notin Mapped
    <3>1. d[src(w[k])] = c[src(w[k])]
      BY <1>3, <1>7, <1>9, <2>2
    <3> QED BY <1>2, <1>9, <3>1 DEF Later, n
  <2> QED BY <2>1, <2>2
<1>11. ASSUME NEW k \in (h + 2)..n, NEW m \in Nat, ok(w[k]), d[src(w[k])] < m, m <= num(w[k])
       PROVE  \E j \in (h + 2)..k : src(w[j]) = src(w[k]) /\ num(w[j]) = m
  <2>1. src(w[k]) \in Mapped /\ src(w[k]) \in Endpoint
    BY <1>3, <1>9, <1>11
  <2>2. c[src(w[k])] < m /\ ~(src(w[k]) = e /\ m = x)
    <3>1. CASE src(w[k]) = e
      <4>1. d[e] = x /\ x < m
        BY <1>7, <1>11, <2>1, <3>1
      <4>2. c[e] \in Nat /\ c[e] < m
        BY <1>1, <1>3, <1>5, <4>1
      <4> QED BY <1>1, <3>1, <4>1, <4>2
    <3>2. CASE src(w[k]) # e
      BY <1>7, <1>11, <2>1, <3>2
    <3> QED BY <3>1, <3>2
  <2>3. PICK j \in (h + 1)..k : src(w[j]) = src(w[k]) /\ num(w[j]) = m
    BY <1>2, <1>9, <1>11, <2>2 DEF Gapless, n
  <2>4. j # h + 1
    BY <2>2, <2>3 DEF e, x
  <2>5. j \in (h + 2)..k
    BY <1>1, <2>4
  <2> QED BY <2>3, <2>5
<1>12. ASSUME open, NEW a \in Mapped, d[a] < s[a]
       PROVE  \E k \in (h + 2)..n : src(w[k]) = a /\ num(w[k]) = s[a]
  <2>1. a \in Endpoint
    BY DEF Mapped
  <2>2. c[a] < s[a] /\ ~(a = e /\ s[a] = x)
    BY <1>3, <1>5, <1>7, <1>12, <2>1
  <2>3. PICK k \in (h + 1)..n : src(w[k]) = a /\ num(w[k]) = s[a]
    BY <1>2, <1>12, <2>2 DEF LastUnderWay, n
  <2>4. k # h + 1
    BY <2>2, <2>3 DEF e, x
  <2>5. k \in (h + 2)..n
    BY <1>1, <2>4
  <2> QED BY <2>3, <2>5
<1>13. (h + 1) + 1 = h + 2
  OBVIOUS
<1>14. WireOK(w, h + 1, s, d, open)
  BY <1>2, <1>8, <1>10, <1>11, <1>12, <1>13 DEF WireOK, Later, Gapless, LastUnderWay, n
<1> QED BY <1>5, <1>6, <1>14 DEF e, x

(* Packets that were not delivered go.                                     *)
LEMMA WireCut ==
  ASSUME NEW w \in Seq(Pkt), NEW h \in Nat, NEW v \in Seq(Pkt), Len(v) <= Len(w),
         \A k \in 1..Len(v) : v[k] = w[k],
         NEW s \in Counts, NEW c \in Counts, NEW open \in BOOLEAN, WireOK(w, h, s, c, open)
  PROVE  WireOK(v, h, s, c, FALSE)
<1>1. Len(v) \in Nat /\ Len(w) \in Nat
  OBVIOUS
<1>2. \A k \in 1..Len(v) : k \in 1..Len(w) /\ v[k] = w[k]
  BY <1>1
<1>3. \A k \in (h + 1)..Len(v) :
        k \in 1..Len(v) /\ k \in (h + 1)..Len(w) /\ \A j \in (h + 1)..k : j \in 1..Len(v)
  BY <1>1
<1>4. SentBefore(v, s)
  BY <1>2 DEF WireOK, SentBefore
<1>5. Sorted(v)
  BY <1>2 DEF WireOK, Sorted
<1>6. Later(v, h, c)
  BY <1>2, <1>3 DEF WireOK, Later
<1>7. Gapless(v, h, c)
  <2> SUFFICES ASSUME NEW k \in (h + 1)..Len(v), NEW n \in Nat,
                      ok(v[k]), c[src(v[k])] < n, n <= num(v[k])
               PROVE  \E j \in (h + 1)..k : src(v[j]) = src(v[k]) /\ num(v[j]) = n
    BY DEF Gapless
  <2>1. k \in (h + 1)..Len(w) /\ v[k] = w[k] /\ \A j \in (h + 1)..k : v[j] = w[j]
    BY <1>2, <1>3
  <2>2. PICK j \in (h + 1)..k : src(w[j]) = src(w[k]) /\ num(w[j]) = n
    BY <2>1 DEF WireOK, Gapless
  <2> QED BY <2>1, <2>2
<1> QED BY <1>4, <1>5, <1>6, <1>7 DEF WireOK

(* The reports of an endpoint under way are packets that are not handled.  *)
LEMMA WireUnderWay ==
  ASSUME NEW w \in Seq(Pkt), NEW h \in 0..Len(w), NEW s \in Counts, NEW c \in Counts,
         WireOK(w, h, s, c, TRUE), NEW e \in Mapped
  PROVE  s[e] - c[e] <= Len(w) - h
<1> DEFINE S == (c[e] + 1)..s[e]
           T == (h + 1)..Len(w)
<1>1. e \in Endpoint /\ s[e] \in Nat /\ c[e] \in Nat /\ c[e] <= s[e] /\ Len(w) \in Nat /\ h \in Nat /\ h <= Len(w)
  BY DEF Mapped, Counts, WireOK
<1>2. ASSUME NEW n \in S PROVE \E k \in T : src(w[k]) = e /\ num(w[k]) = n
  <2>1. n \in Nat /\ c[e] < n /\ n <= s[e] /\ c[e] < s[e]
    BY <1>1
  <2>2. PICK i \in T : src(w[i]) = e /\ num(w[i]) = s[e]
    BY <2>1 DEF WireOK, LastUnderWay
  <2>3. i \in 1..Len(w)
    BY <1>1
  <2>4. ok(w[i])
    BY <2>2, <2>3, WireParts
  <2>5. PICK j \in (h + 1)..i : src(w[j]) = e /\ num(w[j]) = n
    BY <2>1, <2>2, <2>4 DEF WireOK, Gapless
  <2>6. j \in T
    BY <1>1
  <2> QED BY <2>5, <2>6
<1> DEFINE f == [n \in S |-> CHOOSE k \in T : src(w[k]) = e /\ num(w[k]) = n]
<1>3. \A n \in S : f[n] \in T /\ num(w[f[n]]) = n
  BY <1>2
<1>4. f \in [S -> T]
  BY <1>3
<1>5. \A a, b \in S : f[a] = f[b] => a = b
  BY <1>3
<1> HIDE DEF f
<1>6. f \in Injection(S, T)
  BY <1>4, <1>5, Fun_IsInj
<1>7. IsFiniteSet(T) /\ Cardinality(T) = Len(w) - h
  <2>1. h + 1 \in Int /\ Len(w) \in Int
    BY <1>1
  <2>2. IsFiniteSet(T) /\ Cardinality(T) = IF h + 1 > Len(w) THEN 0 ELSE Len(w) - (h + 1) + 1
    BY <2>1, FS_Interval, Zenon
  <2> QED BY <1>1, <2>2
<1>8. Cardinality(S) = s[e] - c[e]
  <2>1. c[e] + 1 \in Int /\ s[e] \in Int
    BY <1>1
  <2>2. Cardinality(S) = IF c[e] + 1 > s[e] THEN 0 ELSE s[e] - (c[e] + 1) + 1
    BY <2>1, FS_Interval, Zenon
  <2> QED BY <1>1, <2>2
<1>9. Cardinality(S) <= Cardinality(T)
  BY <1>6, <1>7, FS_Injection
<1> QED BY <1>7, <1>8, <1>9

-----------------------------------------------------------------------------
(* The inductive invariant. A poller at "write" holds the report after the *)
(* last one sent; the peer of a UDS is load until load closes its socket.  *)

wire == heard \o up

PollInv ==
  /\ sent \in Counts /\ polled \in Counts
  /\ pollPc \in [Endpoint -> {"check", "read", "write", "stopped"}]
  /\ \A e \in Endpoint :
       /\ pollPc[e] = "write" => polled[e] = sent[e] + 1
       /\ pollPc[e] \in {"check", "read"} => polled[e] = sent[e]

PeerInv ==
  /\ peer \in BOOLEAN
  /\ sockOpen \in [Listener -> BOOLEAN]
  /\ proto = "uds" => peer \/ ~sockOpen[l]

PassInv ==
  /\ LoadInv
  /\ PollInv
  /\ PeerInv
  /\ up \in Seq(Pkt)
  /\ came \in Counts
  /\ proto = "uds" => WireOK(wire, handled, sent, came, peer)

LEMMA WireFacts ==
  ASSUME LoadInv, up \in Seq(Pkt)
  PROVE  /\ wire \in Seq(Pkt) /\ Len(wire) = clock + Len(up) /\ Len(up) \in Nat /\ clock \in Nat
         /\ handled \in Nat /\ handled <= clock /\ handled \in 0..Len(wire)
         /\ \A k \in 1..clock : wire[k] = heard[k]
         /\ ChanSize \in Nat /\ NetSize \in Nat
         /\ Len(wire) - handled <= Len(up) + ChanSize + 2
<1>1. heard \in Seq(Pkt) /\ Len(heard) = clock /\ Len(up) \in Nat
  BY DEF LoadInv, LoadTypes
<1>2. /\ wire \in Seq(Pkt) /\ Len(wire) = clock + Len(up)
      /\ \A k \in 1..clock : wire[k] = heard[k]
  BY <1>1 DEF wire
<1>3. PICK n \in Nat : n = Len(ch[l]) /\ n <= ChanSize
  BY LoadNumbers DEF LoadInv, LoadTypes
<1>4. /\ clock \in Nat /\ handled \in Nat /\ ChanSize \in Nat /\ NetSize \in Nat
      /\ clock = handled + busy + n + holding /\ busy \in 0..1 /\ holding \in 0..1
  BY <1>3, LoadNumbers DEF LoadInv, Numbered
<1>5. handled <= clock /\ clock - handled <= ChanSize + 2
  BY <1>3, <1>4, Between
<1>6. handled \in 0..Len(wire) /\ Len(wire) - handled <= Len(up) + ChanSize + 2
  BY <1>1, <1>2, <1>4, <1>5
<1> QED BY <1>1, <1>2, <1>4, <1>5, <1>6

LEMMA PassStarts == PassInit => PassInv
<1> SUFFICES ASSUME PassInit PROVE PassInv
  OBVIOUS
<1>1. LoadInv /\ handled = 0 /\ heard = <<>> /\ up = <<>>
  BY LoadStarting DEF PassInit, SendInit
<1>2. PollInv
  BY DEF PassInit, SendInit, PollInv, Counts
<1>3. PeerInv
  BY Listening DEF PassInit, SendInit, R!Init, PeerInv
<1>4. up \in Seq(Pkt) /\ came \in Counts
  BY <1>1 DEF PassInit, Counts
<1>5. WireOK(wire, handled, sent, came, peer)
  <2>1. Len(wire) = 0 /\ wire = <<>>
    BY <1>1 DEF wire
  <2>2. \A e \in Endpoint : sent[e] = 0 /\ came[e] = 0
    BY DEF PassInit, SendInit
  <2>3. (0 + 1)..0 = {} /\ 1..0 = {}
    OBVIOUS
  <2> QED BY <1>1, <2>1, <2>2, <2>3
      DEF WireOK, SentBefore, Sorted, Later, Gapless, LastUnderWay, Mapped
<1> QED BY <1>1, <1>2, <1>3, <1>4, <1>5 DEF PassInv

LEMMA RemoveType ==
  ASSUME NEW S, NEW s \in Seq(S), NEW i \in DOMAIN s
  PROVE  RemoveAt(s, i) \in Seq(S)
<1>1. Len(s) \in Nat /\ i \in 1..Len(s)
  OBVIOUS
<1>2. SubSeq(s, 1, i - 1) \in Seq(S) /\ SubSeq(s, i + 1, Len(s)) \in Seq(S)
  BY <1>1
<1> QED BY <1>2 DEF RemoveAt

(* A packet that goes from one sequence to the end of the one before it.   *)
LEMMA MoveOne ==
  ASSUME NEW S, NEW s \in Seq(S), NEW t \in Seq(S), 1 \in DOMAIN t
  PROVE  Append(s, t[1]) \o RemoveAt(t, 1) = s \o t
<1> DEFINE r == RemoveAt(t, 1)
           a == Append(s, t[1]) \o r
           b == s \o t
<1>1. Len(t) \in Nat \ {0} /\ Len(s) \in Nat /\ t[1] \in S
  OBVIOUS
<1>2. r \in Seq(S) /\ Len(r) = Len(t) - 1 /\ \A k \in 1..Len(r) : r[k] = t[k + 1]
  <2> DEFINE f == SubSeq(t, 1, 1 - 1)
             g == SubSeq(t, 1 + 1, Len(t))
  <2>1. f \in Seq(S) /\ Len(f) = 0
    BY <1>1
  <2>2. g \in Seq(S) /\ Len(g) = Len(t) - 1 /\ \A k \in 1..Len(g) : g[k] = t[k + 1]
    <3>1. g = Tail(t)
      BY <1>1
    <3> HIDE DEF g
    <3> QED BY <1>1, <3>1
  <2>3. r = f \o g
    BY DEF RemoveAt
  <2> HIDE DEF f, g, r
  <2>4. r \in Seq(S) /\ Len(r) = Len(g) /\ \A k \in 1..Len(r) : r[k] = g[k]
    BY <2>1, <2>2, <2>3
  <2> QED BY <2>2, <2>4
<1> HIDE DEF r
<1>3. /\ Append(s, t[1]) \in Seq(S) /\ Len(Append(s, t[1])) = Len(s) + 1
      /\ Append(s, t[1])[Len(s) + 1] = t[1]
      /\ \A k \in 1..Len(s) : Append(s, t[1])[k] = s[k]
  BY <1>1
<1>4. a \in Seq(S) /\ b \in Seq(S) /\ Len(a) = Len(s) + Len(t) /\ Len(b) = Len(s) + Len(t)
  <2>1. a \in Seq(S) /\ Len(a) = Len(Append(s, t[1])) + Len(r)
    BY <1>2, <1>3, ConcatProperties
  <2>2. b \in Seq(S) /\ Len(b) = Len(s) + Len(t)
    OBVIOUS
  <2> QED BY <1>1, <1>2, <1>3, <2>1, <2>2
<1>5. ASSUME NEW k \in 1..Len(a) PROVE a[k] = b[k]
  <2>1. CASE k \in 1..Len(s)
    BY <1>1, <1>2, <1>3, <2>1
  <2>2. CASE k = Len(s) + 1
    BY <1>1, <1>2, <1>3, <2>2
  <2>3. CASE k \in (Len(s) + 2)..(Len(s) + Len(t))
    <3>1. a[k] = r[k - (Len(s) + 1)] /\ b[k] = t[k - Len(s)]
      BY <1>1, <1>2, <1>3, <2>3
    <3>2. k - (Len(s) + 1) \in 1..Len(r) /\ (k - (Len(s) + 1)) + 1 = k - Len(s)
      BY <1>1, <1>2, <2>3
    <3> QED BY <1>2, <3>1, <3>2
  <2> QED BY <1>1, <1>4, <2>1, <2>2, <2>3
<1> HIDE DEF a, b
<1>6. a = b
  BY <1>4, <1>5, SeqEqual
<1> QED BY <1>6 DEF a, b, r

-----------------------------------------------------------------------------
(* What the abstract stream sees.                                          *)

wentIn  == [e \in Mapped |-> IF proto = "uds" THEN sent[e] ELSE 0]
cameOut == [e \in Mapped |-> IF proto = "uds" THEN came[e] ELSE 0]
stop    == done \/ servePc[l] = "stopped"

Moves == [Stream!Next]_<<wentIn, cameOut, stop>>

(* A step that sends nothing and hands on nothing.                         *)
LEMMA QuietMove ==
  ASSUME UNCHANGED <<wentIn, cameOut>>, stop => stop'
  PROVE  Moves
<1>1. CASE stop' = stop
  BY <1>1 DEF Moves
<1>2. CASE ~stop /\ stop'
  <2>1. stop' = TRUE
    BY <1>2 DEF stop
  <2> QED BY <1>2, <2>1 DEF Moves, Stream!Next, Stream!Stop, wentIn, cameOut, stop
<1> QED BY <1>1, <1>2 DEF stop

(* The steps of send but for WriteUds and WriteUdp.                        *)
LEMMA SendQuiet ==
  ASSUME PassInv, SendStep, UNCHANGED loadVars,
         ~\E e \in Endpoint : WriteUds(e) \/ WriteUdp(e)
  PROVE  PassInv' /\ Moves
<1>1. /\ UNCHANGED <<clock, done, sockOpen, servePc, held, ch, loopPc, cur, heard, came>>
      /\ UNCHANGED <<sent, up, peer, proto>>
  BY DEF loadVars, SendStep, pollAndSend, Write, recvAndWrite, recvRead, runSend, PollCheck, PollRead,
     PollTimeout, PollError, WriteRefused, WriteClosed, RecvCheck, RecvTimeout, RecvRefused,
     RecvClosed, RecvPacket, RecvWrite, Signal, CloseConn, Exit, mainVars, pollVars
<1>2. PollInv'
  <2>1. ASSUME NEW e \in Endpoint, PollCheck(e) \/ PollTimeout(e) \/ PollError(e)
                                   \/ WriteRefused(e) \/ WriteClosed(e)
        PROVE PollInv'
    <3>1. /\ polled' = polled
          /\ \/ /\ pollPc[e] \in {"check", "read"}
                /\ \E s \in {"check", "read"} : pollPc' = [pollPc EXCEPT ![e] = s]
             \/ pollPc' = [pollPc EXCEPT ![e] = "stopped"]
      BY <2>1 DEF PollCheck, PollTimeout, PollError, WriteRefused, WriteClosed, PollGoto
    <3> QED BY <1>1, <3>1 DEF PassInv, PollInv
  <2>2. ASSUME NEW e \in Endpoint, PollRead(e) PROVE PollInv'
    <3>1. /\ pollPc[e] = "read" /\ pollPc' = [pollPc EXCEPT ![e] = "write"]
          /\ polled' = [polled EXCEPT ![e] = @ + 1]
      BY <2>2 DEF PollRead, PollGoto
    <3> QED BY <1>1, <3>1 DEF PassInv, PollInv, Counts
  <2>3. CASE recvAndWrite \/ Signal \/ CloseConn
    <3>1. UNCHANGED <<polled, pollPc>>
      BY <2>3 DEF recvAndWrite, recvRead, RecvCheck, RecvTimeout, RecvRefused, RecvClosed, RecvPacket,
         RecvWrite, Signal, CloseConn, pollVars
    <3> QED BY <1>1, <3>1 DEF PassInv, PollInv
  <2>4. CASE Exit
    BY <1>1, <2>4 DEF PassInv, PollInv, Exit
  <2> QED BY <2>1, <2>2, <2>3, <2>4 DEF SendStep, pollAndSend, Write, runSend
<1>3. UNCHANGED <<holding, busy>>
  BY <1>1 DEF holding, busy
<1>4. LoadInv' /\ handled' = handled
  BY <1>1, <1>3, SameNumbers DEF PassInv, LoadInv, LoadTypes
<1>5. PassInv'
  BY <1>1, <1>2, <1>4 DEF PassInv, PeerInv, wire
<1>6. UNCHANGED <<wentIn, cameOut, stop>>
  BY <1>1 DEF wentIn, cameOut, stop
<1> QED BY <1>5, <1>6, QuietMove

(* conn.Write takes a report, on either protocol.                          *)
LEMMA WritePoll ==
  ASSUME PassInv, NEW e \in Endpoint, WriteUds(e) \/ WriteUdp(e), UNCHANGED loadVars
  PROVE  /\ PollInv' /\ LoadInv' /\ up' \in Seq(Pkt)
         /\ UNCHANGED <<handled, came, peer, proto, sockOpen, heard, stop>>
         /\ report(e) = <<e, sent[e] + 1>>
         /\ sent' = [sent EXCEPT ![e] = sent[e] + 1]
<1>1. /\ UNCHANGED <<clock, done, sockOpen, servePc, held, ch, loopPc, cur, heard, came>>
      /\ UNCHANGED <<polled, peer, proto>>
      /\ pollPc[e] = "write" /\ pollPc' = [pollPc EXCEPT ![e] = "check"]
      /\ sent' = [sent EXCEPT ![e] = polled[e]]
      /\ up' = up \/ up' = Append(up, buildInjectPacket(ifaceOf[e], report(e)))
  BY DEF loadVars, WriteUds, WriteUdp, mainVars, PollGoto
<1>2. polled[e] = sent[e] + 1 /\ sent[e] \in Nat
  BY <1>1 DEF PassInv, PollInv, Counts
<1>3. report(e) = <<e, sent[e] + 1>>
  BY <1>2 DEF report
<1>4. UNCHANGED <<holding, busy, stop>>
  BY <1>1 DEF holding, busy, stop
<1>5. LoadInv' /\ handled' = handled
  BY <1>1, <1>4, SameNumbers DEF PassInv, LoadInv, LoadTypes
<1>6. PollInv'
  BY <1>1, <1>2 DEF PassInv, PollInv, Counts
<1>7. up' \in Seq(Pkt)
  <2>1. pkt(e, sent[e] + 1) \in Pkt
    <3>1. sent[e] + 1 \in Nat
      BY <1>2
    <3> QED BY <3>1, PktParts
  <2> QED BY <1>1, <1>3, <2>1 DEF PassInv, pkt
<1> QED BY <1>1, <1>2, <1>3, <1>4, <1>5, <1>6, <1>7

LEMMA SendUds ==
  ASSUME PassInv, NEW e \in Endpoint, WriteUds(e), UNCHANGED loadVars
  PROVE  PassInv' /\ Moves
<1> DEFINE p == pkt(e, sent[e] + 1)
<1>1. /\ PollInv' /\ LoadInv' /\ up' \in Seq(Pkt)
      /\ UNCHANGED <<handled, came, peer, proto, sockOpen, heard, stop>>
      /\ report(e) = <<e, sent[e] + 1>>
      /\ sent' = [sent EXCEPT ![e] = sent[e] + 1]
  BY WritePoll
<1>2. proto = "uds" /\ peer /\ Len(up) < NetSize /\ up' = Append(up, p)
  BY <1>1 DEF WriteUds, pkt
<1>3. p \in Pkt
  <2>1. sent[e] + 1 \in Nat
    BY DEF PassInv, PollInv, Counts
  <2> QED BY <2>1, PktParts
<1> HIDE DEF p
<1>4. wire' = Append(wire, p)
  <2>1. heard \in Seq(Pkt) /\ up \in Seq(Pkt)
    BY DEF PassInv, LoadInv, LoadTypes
  <2>2. heard \o Append(up, p) = Append(heard \o up, p)
    BY <1>3, <2>1
  <2> QED BY <1>1, <1>2, <2>2 DEF wire
<1>5. /\ wire \in Seq(Pkt) /\ handled \in 0..Len(wire) /\ sent \in Counts /\ came \in Counts
      /\ sent' \in Counts /\ peer = TRUE
      /\ WireOK(wire, handled, sent, came, TRUE)
  BY <1>1, <1>2, WireFacts DEF PassInv, PollInv, PeerInv
<1>6. WireOK(wire', handled, sent', came, TRUE)
  BY <1>1, <1>4, <1>5, WireAppend DEF p
<1>7. PassInv'
  BY <1>1, <1>2, <1>5, <1>6 DEF PassInv, PeerInv
<1>8. Moves
  <2>1. cameOut' = cameOut /\ stop' = stop
    BY <1>1 DEF cameOut
  <2>2. CASE e \notin Mapped
    <3>1. wentIn' = wentIn
      BY <1>1, <1>2, <1>5, <2>2 DEF wentIn, Counts, Mapped
    <3> QED BY <2>1, <3>1, QuietMove
  <2>3. CASE e \in Mapped
    <3>1. wentIn' = [wentIn EXCEPT ![e] = @ + 1] /\ wentIn[e] = sent[e] /\ cameOut[e] = came[e]
      BY <1>1, <1>2, <1>5, <2>3 DEF wentIn, cameOut, Counts, Mapped
    <3>2. sent[e] - came[e] < NetSize + ChanSize + 2
      <4>1. sent[e] - came[e] <= Len(wire) - handled
        BY <1>5, <2>3, WireUnderWay
      <4>2. /\ Len(wire) - handled <= Len(up) + ChanSize + 2 /\ Len(up) < NetSize
            /\ Len(wire) - handled \in Int /\ Len(up) \in Int
            /\ ChanSize \in Nat /\ NetSize \in Nat
        BY <1>2, WireFacts DEF PassInv
      <4>3. sent[e] \in Int /\ came[e] \in Int
        BY <1>5 DEF Counts
      <4> QED BY <4>1, <4>2, <4>3
    <3>3. Stream!Produce(e)
      BY <2>1, <3>1, <3>2 DEF Stream!Produce, wentIn, cameOut, stop
    <3> QED BY <2>3, <3>3 DEF Moves, Stream!Next
  <2> QED BY <2>2, <2>3
<1> QED BY <1>7, <1>8

LEMMA SendUdp ==
  ASSUME PassInv, NEW e \in Endpoint, WriteUdp(e), UNCHANGED loadVars
  PROVE  PassInv' /\ Moves
<1>1. /\ PollInv' /\ LoadInv' /\ up' \in Seq(Pkt)
      /\ UNCHANGED <<handled, came, peer, proto, sockOpen, stop>>
  BY WritePoll
<1>2. proto # "uds" /\ proto' # "uds"
  BY <1>1 DEF WriteUdp
<1>3. UNCHANGED <<wentIn, cameOut>>
  BY <1>2 DEF wentIn, cameOut
<1> QED BY <1>1, <1>2, <1>3, QuietMove DEF PassInv, PeerInv

-----------------------------------------------------------------------------
(* The steps of the network and of load.                                   *)

LEMMA StartStep ==
  ASSUME PassInv, LoadStarts
  PROVE  PassInv' /\ Moves
<1>1. /\ UNCHANGED <<clock, done, sockOpen, servePc, held, ch, loopPc, cur, heard, came>>
      /\ UNCHANGED <<sent, polled, pollPc, up, proto>> /\ peer' = TRUE /\ ~LoadRuns
  BY DEF LoadStarts, loadVars, mainVars, pollVars
<1>2. proto # "uds"
  BY <1>1 DEF LoadRuns, PassInv, PeerInv
<1>3. UNCHANGED <<holding, busy, wentIn, cameOut, stop>>
  BY <1>1 DEF holding, busy, wentIn, cameOut, stop
<1>4. LoadInv' /\ handled' = handled
  BY <1>1, <1>3, SameNumbers DEF PassInv, LoadInv, LoadTypes
<1>5. PassInv'
  BY <1>1, <1>2, <1>4 DEF PassInv, PollInv, PeerInv
<1> QED BY <1>3, <1>5, QuietMove

LEMMA UnreachableStep ==
  ASSUME PassInv, Unreachable
  PROVE  PassInv' /\ Moves
<1>1. /\ UNCHANGED <<clock, done, sockOpen, servePc, held, ch, loopPc, cur, heard, came>>
      /\ UNCHANGED <<sent, polled, pollPc, peer, proto>> /\ proto = "udp"
      /\ \E i \in DOMAIN up : up' = RemoveAt(up, i)
  BY DEF Unreachable, loadVars, mainVars, pollVars
<1>2. up' \in Seq(Pkt)
  BY <1>1, RemoveType DEF PassInv
<1>3. UNCHANGED <<holding, busy, wentIn, cameOut, stop>>
  BY <1>1 DEF holding, busy, wentIn, cameOut, stop
<1>4. LoadInv' /\ handled' = handled
  BY <1>1, <1>3, SameNumbers DEF PassInv, LoadInv, LoadTypes
<1>5. PassInv'
  BY <1>1, <1>2, <1>4 DEF PassInv, PollInv, PeerInv
<1> QED BY <1>3, <1>5, QuietMove

LEMMA DeliverStep ==
  ASSUME PassInv, Deliver
  PROVE  PassInv' /\ Moves
<1>1. PICK i \in DOMAIN up :
        /\ proto = "uds" => i = 1
        /\ up' = RemoveAt(up, i) /\ heard' = Append(heard, up[i]) /\ R!ServeRead(l)
        /\ \A p \in held'[l] : p.ok = (Parses(up[i]) /\ parsedIface(up[i]) \in HidIface)
  BY DEF Deliver
<1>2. /\ UNCHANGED <<done, sockOpen, came, sent, polled, pollPc, peer, proto>>
      /\ servePc[l] = "read" /\ servePc' = [servePc EXCEPT ![l] = "put"]
  BY <1>1 DEF Deliver, R!ServeRead, R!ctxVars, mainVars, pollVars
<1>3. LoadInv' /\ handled' = handled /\ clock' = clock + 1
  BY <1>1, DeliverLoad DEF PassInv
<1>4. up' \in Seq(Pkt)
  BY <1>1, RemoveType DEF PassInv
<1>5. proto = "uds" => wire' = wire
  <2> SUFFICES ASSUME proto = "uds" PROVE wire' = wire
    OBVIOUS
  <2>1. up \in Seq(Pkt) /\ heard \in Seq(Pkt) /\ 1 \in DOMAIN up
        /\ up' = RemoveAt(up, 1) /\ heard' = Append(heard, up[1])
    BY <1>1 DEF PassInv, LoadInv, LoadTypes
  <2> QED BY <2>1, MoveOne DEF wire
<1>6. PassInv'
  BY <1>2, <1>3, <1>4, <1>5 DEF PassInv, PollInv, PeerInv
<1>7. UNCHANGED <<wentIn, cameOut, stop>>
  <2>1. servePc'[l] = "put"
    BY <1>2, Listening DEF PassInv, LoadInv, LoadTypes
  <2> QED BY <1>2, <2>1 DEF wentIn, cameOut, stop
<1> QED BY <1>6, <1>7, QuietMove

LEMMA ClosesStep ==
  ASSUME PassInv, LoadCloses
  PROVE  PassInv' /\ Moves
<1>1. /\ UNCHANGED <<clock, done, servePc, held, ch, loopPc, cur, heard, came>>
      /\ UNCHANGED <<sent, polled, pollPc, proto>> /\ peer' = FALSE
      /\ sockOpen' = [sockOpen EXCEPT ![l] = FALSE]
      /\ up' = IF proto = "uds" THEN <<>> ELSE up
  BY DEF LoadCloses, R!CloseSocket, R!serveVars, R!chanVars, R!loopVars, mainVars, pollVars
<1>2. up' \in Seq(Pkt)
  BY <1>1 DEF PassInv
<1>3. UNCHANGED <<holding, busy, wentIn, cameOut, stop>>
  BY <1>1 DEF holding, busy, wentIn, cameOut, stop
<1>4. LoadInv' /\ handled' = handled
  BY <1>1, <1>3, SameNumbers DEF PassInv, LoadInv, LoadTypes
<1>5. PeerInv'
  BY <1>1, Listening DEF PassInv, PeerInv
<1>6. ASSUME proto = "uds" PROVE WireOK(wire', handled, sent, came, FALSE)
  <2>1. wire' = heard /\ heard \in Seq(Pkt) /\ Len(heard) = clock
    BY <1>1, <1>6 DEF wire, PassInv, LoadInv, LoadTypes
  <2>2. /\ wire \in Seq(Pkt) /\ handled \in Nat /\ Len(heard) <= Len(wire)
        /\ \A k \in 1..Len(heard) : heard[k] = wire[k]
    BY <2>1, WireFacts DEF PassInv
  <2>3. sent \in Counts /\ came \in Counts /\ peer \in BOOLEAN /\ WireOK(wire, handled, sent, came, peer)
    BY <1>6 DEF PassInv, PollInv, PeerInv
  <2> QED BY <2>1, <2>2, <2>3, WireCut
<1>7. PassInv'
  BY <1>1, <1>2, <1>4, <1>5, <1>6 DEF PassInv, PollInv
<1> QED BY <1>3, <1>7, QuietMove

LEMMA EchoWriteStep ==
  ASSUME PassInv, EchoWrite
  PROVE  PassInv' /\ Moves
<1>1. /\ UNCHANGED <<clock, done, sockOpen, servePc, held, ch, loopPc, cur, heard, came>>
      /\ UNCHANGED <<sent, polled, pollPc, up, peer, proto>>
  BY DEF EchoWrite, R!EchoSent, R!serveVars, R!chanVars, R!loopVars, R!ctxVars, mainVars, pollVars
<1>2. UNCHANGED <<holding, busy, wentIn, cameOut, stop>>
  BY <1>1 DEF holding, busy, wentIn, cameOut, stop
<1>3. LoadInv' /\ handled' = handled
  BY <1>1, <1>2, SameNumbers DEF PassInv, LoadInv, LoadTypes
<1>4. PassInv'
  BY <1>1, <1>3 DEF PassInv, PollInv, PeerInv, wire
<1> QED BY <1>2, <1>4, QuietMove

LEMMA AloneStep ==
  ASSUME PassInv, LoadAlone, UNCHANGED sendVars
  PROVE  PassInv' /\ Moves
<1>1. LoadInv' /\ UNCHANGED <<handled, clock, heard, came>>
  BY AloneLoad DEF PassInv
<1>2. UNCHANGED <<sent, polled, pollPc, up, peer, proto>>
  BY DEF sendVars, mainVars, pollVars
<1>3. sockOpen' = sockOpen
  BY DEF LoadAlone, R!ServePut, R!ServeError, R!LoopRecv, R!LoopClosed, R!LastAddr, R!PipeSend,
     R!PipeSendCancelled, R!HostOutput, R!EchoRecv, R!EchoCancelled, R!EchoSend, R!Cancel,
     R!Finished, R!ctxVars, R!vars
<1>4. PassInv'
  BY <1>1, <1>2, <1>3 DEF PassInv, PollInv, PeerInv, wire
<1>5. UNCHANGED <<wentIn, cameOut>>
  BY <1>1, <1>2 DEF wentIn, cameOut
<1>6. stop => stop'
  <2>1. done => done'
    BY DEF LoadAlone, R!ServePut, R!ServeError, R!LoopRecv, R!LoopClosed, R!LastAddr, R!PipeSend,
       R!PipeSendCancelled, R!HostOutput, R!EchoRecv, R!EchoCancelled, R!EchoSend, R!Cancel,
       R!Finished, R!ctxVars, R!vars
  <2>2. servePc[l] = "stopped" => servePc'[l] = "stopped"
    <3>1. CASE R!ServePut(l) \/ R!ServeError(l)
      BY <3>1 DEF R!ServePut, R!ServeError
    <3>2. CASE ~(R!ServePut(l) \/ R!ServeError(l))
      BY <3>2 DEF LoadAlone, R!LoopRecv, R!LoopClosed, R!LastAddr, R!PipeSend,
         R!PipeSendCancelled, R!HostOutput, R!EchoRecv, R!EchoCancelled, R!EchoSend, R!Cancel,
         R!Finished, R!serveVars, R!vars
    <3> QED BY <3>1, <3>2
  <2> QED BY <2>1, <2>2 DEF stop
<1> QED BY <1>4, <1>5, <1>6, QuietMove

(* What the loop hands on is the next report of its endpoint.              *)
LEMMA HandleStep ==
  ASSUME PassInv, LoadHandle, UNCHANGED sendVars
  PROVE  PassInv' /\ Moves
<1> DEFINE p == heard[handled + 1]
<1>1. /\ LoadInv' /\ handled' = handled + 1 /\ UNCHANGED <<clock, heard>>
      /\ handled + 1 \in 1..clock /\ cur[l] = {entry(heard, handled + 1)}
  BY HandleLoadStep DEF PassInv, LoadHandle
<1>2. UNCHANGED <<sent, polled, pollPc, up, peer, proto>>
  BY DEF sendVars, mainVars, pollVars
<1>3. UNCHANGED <<sockOpen, done, servePc>>
  BY DEF LoadHandle, R!Handle, R!ctxVars, R!serveVars
<1>4. /\ wire \in Seq(Pkt) /\ handled \in Nat /\ handled + 1 \in 1..Len(wire)
      /\ wire[handled + 1] = p /\ wire' = wire
  <2>1. wire' = wire
    BY <1>1, <1>2 DEF wire
  <2> QED BY <1>1, <2>1, WireFacts DEF PassInv
<1>5. p \in Pkt
  BY <1>4
<1>6. src(p) \in Endpoint /\ num(p) \in Nat /\ ok(p) = (src(p) \in Mapped)
  BY <1>5, PktType
<1>7. came' = IF ok(p) THEN [came EXCEPT ![src(p)] = num(p)] ELSE came
  <2>1. PICK q \in cur[l] :
          came' = IF q.ok THEN LET rep == parsedData(heard[q.from])
                               IN [came EXCEPT ![rep[1]] = rep[2]]
                          ELSE came
    BY DEF LoadHandle
  <2>2. q.from = handled + 1 /\ q.ok = ok(p)
    BY <1>1, <2>1 DEF entry
  <2> QED BY <2>1, <2>2 DEF src, num
<1>8. came \in Counts /\ sent \in Counts /\ came' \in Counts /\ peer \in BOOLEAN
  BY <1>6, <1>7 DEF PassInv, PollInv, PeerInv, Counts
<1> HIDE DEF p
<1>9. ASSUME proto = "uds"
      PROVE  /\ WireOK(wire, handled + 1, sent, came', peer)
             /\ ok(p) => num(p) = came[src(p)] + 1
             /\ came[src(p)] < sent[src(p)]
  <2>1. WireOK(wire, handled, sent, came, peer)
    BY <1>9 DEF PassInv
  <2> QED BY <1>4, <1>7, <1>8, <2>1, WireHandle
<1>10. PassInv'
  BY <1>1, <1>2, <1>3, <1>4, <1>8, <1>9 DEF PassInv, PollInv, PeerInv
<1>11. wentIn' = wentIn /\ stop' = stop
  BY <1>2, <1>3 DEF wentIn, stop
<1>12. Moves
  <2>1. CASE proto = "uds" /\ ok(p)
    <3>1. PICK e \in Mapped : e = src(p)
      BY <1>6, <2>1
    <3>2. /\ cameOut' = [cameOut EXCEPT ![e] = @ + 1]
          /\ cameOut[e] = came[e] /\ wentIn[e] = sent[e]
      BY <1>2, <1>6, <1>7, <1>8, <1>9, <2>1, <3>1 DEF cameOut, wentIn, Counts, Mapped
    <3>3. Stream!Consume(e)
      BY <1>9, <1>11, <2>1, <3>1, <3>2 DEF Stream!Consume, wentIn, cameOut, stop
    <3> QED BY <3>3 DEF Moves, Stream!Next
  <2>2. CASE ~(proto = "uds" /\ ok(p))
    <3>1. cameOut' = cameOut
      BY <1>2, <1>7, <2>2 DEF cameOut
    <3> QED BY <1>11, <3>1, QuietMove
  <2> QED BY <2>1, <2>2
<1> QED BY <1>10, <1>12

-----------------------------------------------------------------------------
LEMMA PassStep == PassInv /\ [PassNext]_passVars => PassInv' /\ Moves
<1> SUFFICES ASSUME PassInv, [PassNext]_passVars PROVE PassInv' /\ Moves
  OBVIOUS
<1>1. CASE SendStep /\ UNCHANGED loadVars
  <2>1. CASE \E e \in Endpoint : WriteUds(e)
    BY <1>1, <2>1, SendUds
  <2>2. CASE \E e \in Endpoint : WriteUdp(e)
    BY <1>1, <2>2, SendUdp
  <2> QED BY <1>1, <2>1, <2>2, SendQuiet
<1>2. CASE LoadStep
  BY <1>2, HandleStep, AloneStep DEF LoadStep
<1>3. CASE Network
  BY <1>3, StartStep, UnreachableStep, DeliverStep, ClosesStep, EchoWriteStep DEF Network
<1>4. CASE UNCHANGED passVars
  <2>1. /\ UNCHANGED <<clock, done, sockOpen, servePc, held, ch, loopPc, cur, heard, came>>
        /\ UNCHANGED <<sent, polled, pollPc, up, peer, proto>>
    BY <1>4 DEF passVars, sendVars, loadVars, mainVars, pollVars
  <2>2. UNCHANGED <<holding, busy, wentIn, cameOut, stop>>
    BY <2>1 DEF holding, busy, wentIn, cameOut, stop
  <2>3. LoadInv' /\ handled' = handled
    BY <2>1, <2>2, SameNumbers DEF PassInv, LoadInv, LoadTypes
  <2>4. PassInv'
    BY <2>1, <2>3 DEF PassInv, PollInv, PeerInv, wire
  <2> QED BY <2>2, <2>4, QuietMove
<1> QED BY <1>1, <1>2, <1>3, <1>4 DEF PassNext

(* Over a UDS every report that conn.Write of send took comes out of       *)
(* load's loop in order and once, and none is left out before a later one; *)
(* no more are under way than the two queues and the two goroutines hold.  *)
THEOREM StreamCorrect == Unfair => Stream!Spec
<1>1. PassInit => Stream!Init
  <2> SUFFICES ASSUME PassInit PROVE Stream!Init
    OBVIOUS
  <2>1. \A e \in Mapped : sent[e] = 0 /\ came[e] = 0
    BY DEF PassInit, SendInit, Mapped
  <2>2. ~done /\ servePc[l] # "stopped"
    BY Listening DEF PassInit, R!Init
  <2>3. (done \/ servePc[l] = "stopped") = FALSE
    BY <2>2
  <2> QED BY <2>1, <2>3 DEF Stream!Init
<1>2. Moves = [Stream!Next]_(Stream!streamVars)
  BY DEF Moves, wentIn, cameOut, stop, Stream!streamVars
<1>3. PassInv /\ [PassNext]_passVars => [Stream!Next]_(Stream!streamVars)
  BY <1>2, PassStep
<1>4. PassInv /\ [PassNext]_passVars => PassInv'
  BY PassStep
<1> QED BY <1>1, <1>3, <1>4, PassStarts, PTL DEF Unfair, Stream!Spec
=============================================================================
