----------------------------- MODULE InPathProofs -----------------------------
(***************************************************************************)
(* What InPath guarantees for every device, every number of IPC sockets and *)
(* every capacity of the channel.                                          *)
(***************************************************************************)
EXTENDS InPath, SequenceTheorems, FiniteSetTheorems, FunctionTheorems, TLAPS

-----------------------------------------------------------------------------
(* The strengthening of InOrder.                                           *)

(* The channel holds reports that were sent and not taken, those of one    *)
(* source in the order they were sent.                                     *)
Queued ==
  \A k \in 1..Len(deviceToHost) :
    /\ Fits(deviceToHost[k].src, deviceToHost[k].iface)
    /\ taken[deviceToHost[k].src] < deviceToHost[k].n
    /\ deviceToHost[k].n <= sent[deviceToHost[k].src]

QueueSorted ==
  \A j, k \in 1..Len(deviceToHost) :
    (j < k /\ deviceToHost[j].src = deviceToHost[k].src) => deviceToHost[j].n < deviceToHost[k].n

Counted == \A s \in Source : written[s] <= taken[s] /\ taken[s] <= sent[s]

OrderInv == Types /\ SourceHand /\ ConsumerHand /\ Queued /\ QueueSorted /\ Counted

-----------------------------------------------------------------------------
LEMMA InitType == Init => Types
<1> SUFFICES ASSUME Init PROVE Types
  OBVIOUS
<1> USE InPathAssumption DEF InPathAssumption, Init
<1>1. deviceToHost \in Seq(Msg) /\ Len(deviceToHost) <= BufSize
  OBVIOUS
<1>2. pc \in [Source -> {"check", "read", "send", "stopped"}]
  OBVIOUS
<1>3. hand \in [Source \cup Consumer -> SUBSET Msg]
  OBVIOUS
<1>4. 0 \in 0..MaxReports
  OBVIOUS
<1> QED BY <1>1, <1>2, <1>3, <1>4 DEF Types

(* Every step of the program keeps the types: the bound on the channel is  *)
(* the guard of the send, the bound on the counters that of Hold.          *)
LEMMA StepType == Types /\ [Next]_vars => Types'
<1> SUFFICES ASSUME Types, [Next]_vars PROVE Types'
  OBVIOUS
<1> USE InPathAssumption DEF InPathAssumption
<1>1. ASSUME NEW ep \in InEndpoint, PollCheck(ep) PROVE Types'
  BY <1>1 DEF Types, PollCheck, Source
<1>2. ASSUME NEW s \in Source, NEW i \in Iface, Hold(s, i) PROVE Types'
  <2> DEFINE m == [src |-> s, iface |-> i, n |-> sent[s] + 1]
  <2>1. m \in Msg
    BY <1>2 DEF Types, Hold, Msg
  <2> QED BY <1>2, <2>1 DEF Types, Hold
<1>3. ASSUME NEW ep \in InEndpoint, PollRead(ep) PROVE Types'
  BY <1>2, <1>3 DEF PollRead, Source
<1>4. ASSUME NEW ep \in InEndpoint, PollTimeout(ep) PROVE Types'
  BY <1>4 DEF Types, PollTimeout, Source
<1>5. ASSUME NEW ep \in InEndpoint, PollError(ep) PROVE Types'
  BY <1>5 DEF Types, PollError, Source
<1>6. ASSUME NEW j \in Injector, InjectPacket(j) PROVE Types'
  BY <1>2, <1>6 DEF InjectPacket, Source, Iface
<1>7. ASSUME NEW j \in Injector, InjectClosed(j) PROVE Types'
  BY <1>7 DEF Types, InjectClosed, Source
<1>8. ASSUME NEW s \in Source, Send(s) PROVE Types'
  <2>1. PICK m \in hand[s] : SendDeviceToHost(m) /\ sent' = [sent EXCEPT ![s] = m.n]
    BY <1>8 DEF Send
  <2>2. m \in Msg
    BY <2>1 DEF Types
  <2>3. m.n \in 0..MaxReports
    BY <2>2 DEF Msg
  <2>4. deviceToHost' \in Seq(Msg) /\ Len(deviceToHost') <= BufSize
    BY <2>1, <2>2 DEF Types, SendDeviceToHost
  <2> QED BY <1>8, <2>1, <2>3, <2>4 DEF Types, Send
<1>9. ASSUME NEW s \in Source, SendCancelled(s) PROVE Types'
  BY <1>9 DEF Types, SendCancelled
<1>10. ASSUME NEW c \in Consumer, RecvDeviceToHost(c) PROVE Types'
  <2> DEFINE m == Head(deviceToHost)
  <2>0. deviceToHost \in Seq(Msg) /\ deviceToHost # <<>>
    BY <1>10 DEF Types, RecvDeviceToHost
  <2>1. m \in Msg
    BY <2>0, HeadTailProperties, Zenon
  <2>2. m.n \in 0..MaxReports
    BY <2>1 DEF Msg
  <2>3. deviceToHost' \in Seq(Msg) /\ Len(deviceToHost') <= BufSize
    BY <1>10 DEF Types, RecvDeviceToHost
  <2>4. CASE m.iface \in Serves(c)
    <3>0. /\ hand' = [hand EXCEPT ![c] = {m}]
          /\ taken' = [taken EXCEPT ![m.src] = m.n]
          /\ consPc' = [consPc EXCEPT ![c] = "write"]
      BY <1>10, <2>4 DEF RecvDeviceToHost
    <3> HIDE DEF m
    <3>1. hand' \in [Source \cup Consumer -> SUBSET Msg]
      BY <2>1, <3>0 DEF Types
    <3>2. taken' \in [Source -> 0..MaxReports]
      BY <2>2, <3>0 DEF Types
    <3>3. consPc' \in [Consumer -> {"recv", "write", "stopped"}]
      BY <3>0 DEF Types
    <3> QED BY <1>10, <2>3, <3>1, <3>2, <3>3 DEF Types, RecvDeviceToHost
  <2>5. CASE m.iface \notin Serves(c)
    BY <1>10, <2>3, <2>5 DEF Types, RecvDeviceToHost
  <2> QED BY <2>4, <2>5
<1>11. ASSUME NEW c \in Consumer, RecvCancelled(c) PROVE Types'
  BY <1>11 DEF Types, RecvCancelled
<1>12. ASSUME NEW c \in Consumer, Write(c) PROVE Types'
  <2>1. PICK m \in hand[c] : written' = [written EXCEPT ![m.src] = m.n]
    BY <1>12 DEF Write
  <2>2. m.n \in 0..MaxReports
    BY <2>1 DEF Types, Msg
  <2> QED BY <1>12, <2>1, <2>2 DEF Types, Write
<1>13. ASSUME NEW c \in Consumer, WriteFail(c) PROVE Types'
  BY <1>13 DEF Types, WriteFail
<1>14. ASSUME NEW c \in Consumer, CloseFiles(c) PROVE Types'
  BY <1>14 DEF Types, CloseFiles
<1>15. CASE Cancel
  BY <1>15 DEF Types, Cancel
<1>16. CASE UNCHANGED vars
  BY <1>16 DEF Types, vars
<1> QED
  BY <1>1, <1>3, <1>4, <1>5, <1>6, <1>7, <1>8, <1>9, <1>10, <1>11, <1>12, <1>13, <1>14,
     <1>15, <1>16
  DEF Next, Poll, Inject, Consume, Finished

-----------------------------------------------------------------------------
(* All that a source sends ends up with one consumer.                      *)
LEMMA ServesApart ==
  ASSUME NEW s \in Source, NEW i, NEW k, NEW c \in Consumer, NEW d \in Consumer,
         Fits(s, i), Fits(s, k), i \in Serves(c), k \in Serves(d)
  PROVE  c = d
  BY InPathAssumption DEF InPathAssumption, Fits, Serves, Consumer, Source

LEMMA MsgType == \A m \in Msg : m.src \in Source /\ m.n \in Nat
  BY InPathAssumption DEF InPathAssumption, Msg

LEMMA InitOrder == Init => OrderInv
<1> SUFFICES ASSUME Init PROVE OrderInv
  OBVIOUS
<1>1. Types
  BY InitType
<1>2. SourceHand /\ ConsumerHand
  BY DEF Init, SourceHand, ConsumerHand
<1>3. Len(deviceToHost) = 0
  BY DEF Init
<1>4. Queued /\ QueueSorted
  BY <1>3 DEF Queued, QueueSorted
<1>5. Counted
  BY DEF Init, Counted
<1> QED BY <1>1, <1>2, <1>4, <1>5 DEF OrderInv

(* The parts of OrderInv that its types leave to prove of a step.          *)
Rest == SourceHand /\ ConsumerHand /\ Queued /\ QueueSorted /\ Counted

(* The loop of a source moves between points where it holds no report.     *)
LEMMA IdleStep ==
  ASSUME OrderInv, NEW s \in Source, pc[s] # "send",
         NEW t \in {"check", "read", "stopped"}, pc' = [pc EXCEPT ![s] = t],
         UNCHANGED <<deviceToHost, consPc, hand, sent, taken, written>>
  PROVE  Rest'
<1>1. SourceHand'
  BY DEF OrderInv, Types, SourceHand
<1>2. ConsumerHand'
  BY DEF OrderInv, ConsumerHand
<1>3. (Queued /\ QueueSorted /\ Counted)'
  BY DEF OrderInv, Queued, QueueSorted, Counted
<1> QED BY <1>1, <1>2, <1>3 DEF Rest

LEMMA HoldStep ==
  ASSUME OrderInv, NEW s \in Source, NEW i \in Iface, Fits(s, i), Hold(s, i)
  PROVE  Rest'
<1>1. SourceHand'
  BY DEF OrderInv, Types, SourceHand, Hold
<1>2. ConsumerHand'
  <2>1. \A c \in Consumer : hand'[c] = hand[c]
    BY InPathAssumption DEF InPathAssumption, OrderInv, Types, Hold
  <2> QED BY <2>1 DEF OrderInv, ConsumerHand, Hold
<1>3. (Queued /\ QueueSorted /\ Counted)'
  BY DEF OrderInv, Queued, QueueSorted, Counted, Hold
<1> QED BY <1>1, <1>2, <1>3 DEF Rest

(* What Send appends: the next report of the source.                       *)
LEMMA SendAppends ==
  ASSUME OrderInv, NEW s \in Source, Send(s)
  PROVE  \E m \in Msg :
           /\ deviceToHost' = Append(deviceToHost, m)
           /\ sent' = [sent EXCEPT ![s] = m.n]
           /\ m.src = s
           /\ Fits(s, m.iface)
           /\ m.n = sent[s] + 1
<1>1. PICK m \in hand[s] : SendDeviceToHost(m) /\ sent' = [sent EXCEPT ![s] = m.n]
  BY DEF Send
<1>2. PICK i \in Iface : Fits(s, i) /\ hand[s] = {[src |-> s, iface |-> i, n |-> sent[s] + 1]}
  BY DEF Send, OrderInv, SourceHand
<1>3. m \in Msg
  BY <1>1 DEF OrderInv, Types
<1>4. m = [src |-> s, iface |-> i, n |-> sent[s] + 1]
  BY <1>1, <1>2
<1> QED BY <1>1, <1>2, <1>3, <1>4 DEF SendDeviceToHost

LEMMA SendStep ==
  ASSUME OrderInv, NEW s \in Source, Send(s)
  PROVE  Rest'
<1>0. PICK m \in Msg : /\ deviceToHost' = Append(deviceToHost, m)
                       /\ sent' = [sent EXCEPT ![s] = m.n]
                       /\ m.src = s
                       /\ Fits(s, m.iface)
                       /\ m.n = sent[s] + 1
  BY SendAppends
<1>a. /\ deviceToHost \in Seq(Msg)
      /\ sent \in [Source -> Nat] /\ taken \in [Source -> Nat]
  BY InPathAssumption DEF InPathAssumption, OrderInv, Types
<1>b. /\ Len(deviceToHost') = Len(deviceToHost) + 1
      /\ \A k \in 1..Len(deviceToHost) : deviceToHost'[k] = deviceToHost[k]
      /\ deviceToHost'[Len(deviceToHost) + 1] = m
  BY <1>0, <1>a
<1>c. sent'[s] = sent[s] + 1 /\ \A t \in Source : t # s => sent'[t] = sent[t]
  BY <1>0, <1>a
<1>d. \A k \in 1..Len(deviceToHost) : deviceToHost[k].src \in Source /\ deviceToHost[k].n \in Nat
  BY <1>a, MsgType
<1>1. SourceHand'
  <2> SUFFICES ASSUME NEW t \in Source PROVE SourceHand!(t)'
    BY DEF SourceHand
  <2>1. CASE t = s
    BY <2>1 DEF OrderInv, Types, Send, SourceHand
  <2>2. CASE t # s
    BY <2>2, <1>c DEF OrderInv, Types, Send, SourceHand
  <2> QED BY <2>1, <2>2
<1>2. ConsumerHand'
  <2>1. \A c \in Consumer : hand'[c] = hand[c]
    BY InPathAssumption DEF InPathAssumption, OrderInv, Types, Send
  <2> QED BY <2>1 DEF OrderInv, ConsumerHand, Send
<1>3. Queued'
  <2> SUFFICES ASSUME NEW k \in 1..Len(deviceToHost') PROVE Queued!(k)'
    BY DEF Queued
  <2>0. taken' = taken /\ Len(deviceToHost) \in Nat
    BY <1>a DEF Send
  <2>1. CASE k = Len(deviceToHost) + 1
    BY <1>0, <1>a, <1>b, <1>c, <2>0, <2>1 DEF OrderInv, Counted, Queued
  <2>2. CASE k \in 1..Len(deviceToHost)
    <3>1. /\ Fits(deviceToHost[k].src, deviceToHost[k].iface)
          /\ taken[deviceToHost[k].src] < deviceToHost[k].n
          /\ deviceToHost[k].n <= sent[deviceToHost[k].src]
      BY <2>2 DEF OrderInv, Queued
    <3>2. deviceToHost'[k] = deviceToHost[k]
      BY <1>b, <2>2
    <3>3. deviceToHost[k].n <= sent'[deviceToHost[k].src]
      BY <1>a, <1>c, <1>d, <2>2, <3>1
    <3> QED BY <2>0, <3>1, <3>2, <3>3
  <2> QED BY <1>b, <2>0, <2>1, <2>2
<1>4. QueueSorted'
  <2>1. \A j \in 1..Len(deviceToHost) : deviceToHost[j].src = s => deviceToHost[j].n < m.n
    BY <1>0, <1>a, <1>d DEF OrderInv, Queued
  <2>2. Len(deviceToHost) \in Nat
    BY <1>a
  <2> SUFFICES ASSUME NEW j \in 1..Len(deviceToHost'), NEW k \in 1..Len(deviceToHost'),
                      j < k, deviceToHost'[j].src = deviceToHost'[k].src
               PROVE  deviceToHost'[j].n < deviceToHost'[k].n
    BY DEF QueueSorted
  <2>3. j \in 1..Len(deviceToHost) /\ deviceToHost'[j] = deviceToHost[j]
    BY <1>b, <2>2
  <2>4. CASE k = Len(deviceToHost) + 1
    BY <1>0, <1>b, <2>1, <2>3, <2>4
  <2>5. CASE k \in 1..Len(deviceToHost)
    <3>1. deviceToHost'[k] = deviceToHost[k]
      BY <1>b, <2>5
    <3> QED BY <2>3, <2>5, <3>1 DEF OrderInv, QueueSorted
  <2> QED BY <1>b, <2>2, <2>4, <2>5
<1>5. Counted'
  BY <1>a, <1>c DEF OrderInv, Counted, Send
<1> QED BY <1>1, <1>2, <1>3, <1>4, <1>5 DEF Rest

LEMMA SendCancelledStep ==
  ASSUME OrderInv, NEW s \in Source, SendCancelled(s)
  PROVE  Rest'
<1>1. SourceHand'
  BY DEF OrderInv, Types, SourceHand, SendCancelled
<1>2. ConsumerHand'
  <2>1. \A c \in Consumer : hand'[c] = hand[c]
    BY InPathAssumption DEF InPathAssumption, OrderInv, Types, SendCancelled
  <2> QED BY <2>1 DEF OrderInv, ConsumerHand, SendCancelled
<1>3. (Queued /\ QueueSorted /\ Counted)'
  BY DEF OrderInv, Queued, QueueSorted, Counted, SendCancelled
<1> QED BY <1>1, <1>2, <1>3 DEF Rest

(* The channel after its head is received.                                 *)
LEMMA TailOfChannel ==
  ASSUME deviceToHost \in Seq(Msg), deviceToHost # <<>>, deviceToHost' = Tail(deviceToHost)
  PROVE  /\ Len(deviceToHost) \in Nat \ {0}
         /\ Head(deviceToHost) = deviceToHost[1]
         /\ Head(deviceToHost) \in Msg
         /\ Len(deviceToHost') = Len(deviceToHost) - 1
         /\ \A k \in 1..Len(deviceToHost') : /\ k + 1 \in 1..Len(deviceToHost)
                                           /\ deviceToHost'[k] = deviceToHost[k + 1]
  OBVIOUS

LEMMA RecvStep ==
  ASSUME OrderInv, NEW c \in Consumer, RecvDeviceToHost(c)
  PROVE  Rest'
<1> DEFINE m == Head(deviceToHost)
<1>0. /\ deviceToHost \in Seq(Msg) /\ deviceToHost # <<>>
      /\ deviceToHost' = Tail(deviceToHost)
      /\ taken \in [Source -> Nat]
  BY InPathAssumption DEF InPathAssumption, OrderInv, Types, RecvDeviceToHost
<1>a. /\ Len(deviceToHost) \in Nat \ {0}
      /\ m = deviceToHost[1]
      /\ m \in Msg
      /\ Len(deviceToHost') = Len(deviceToHost) - 1
      /\ \A k \in 1..Len(deviceToHost') : /\ k + 1 \in 1..Len(deviceToHost)
                                        /\ deviceToHost'[k] = deviceToHost[k + 1]
  BY <1>0, TailOfChannel
<1>b. \A k \in 1..Len(deviceToHost) : deviceToHost[k].src \in Source /\ deviceToHost[k].n \in Nat
  BY <1>0, MsgType
<1>c. m.src \in Source /\ m.n \in Nat
  BY <1>a, MsgType
<1>d. Fits(m.src, m.iface) /\ taken[m.src] < m.n /\ m.n <= sent[m.src]
  BY <1>a DEF OrderInv, Queued
<1>e. taken' = taken \/ (m.iface \in Serves(c) /\ taken' = [taken EXCEPT ![m.src] = m.n])
  BY DEF RecvDeviceToHost
<1> HIDE DEF m
<1>f. \A s \in Source : taken'[s] \in Nat /\ taken[s] <= taken'[s]
  BY <1>0, <1>c, <1>d, <1>e
<1>g. \A s \in Source : taken'[s] = taken[s] \/ (s = m.src /\ taken'[s] = m.n)
  BY <1>0, <1>c, <1>e
<1>1. SourceHand'
  <2>1. \A s \in Source : hand'[s] = hand[s]
    BY InPathAssumption DEF InPathAssumption, OrderInv, Types, RecvDeviceToHost
  <2> QED BY <2>1 DEF OrderInv, SourceHand, RecvDeviceToHost
<1>2. ConsumerHand'
  <2> SUFFICES ASSUME NEW d \in Consumer PROVE ConsumerHand!(d)'
    BY DEF ConsumerHand
  <2>1. CASE d = c /\ m.iface \in Serves(c)
    <3>1. /\ consPc'[d] = "write" /\ hand'[d] = {m}
          /\ taken'[m.src] = m.n /\ written' = written
      BY <1>0, <1>c, <2>1 DEF OrderInv, Types, RecvDeviceToHost, m
    <3>2. written[m.src] < m.n
      BY <1>0, <1>c, <1>d DEF OrderInv, Types, Counted
    <3> QED BY <1>a, <1>c, <1>d, <2>1, <3>1, <3>2
  <2>2. CASE ~(d = c /\ m.iface \in Serves(c))
    <3>1. consPc'[d] = consPc[d] /\ hand'[d] = hand[d] /\ written' = written
      BY <2>2 DEF OrderInv, Types, RecvDeviceToHost, m
    <3>2. ASSUME NEW x \in Msg, x.n <= taken[x.src] PROVE x.n <= taken'[x.src]
      BY <1>0, <1>f, <3>2, MsgType
    <3> QED BY <3>1, <3>2 DEF OrderInv, ConsumerHand
  <2> QED BY <2>1, <2>2
<1>3. Queued'
  <2> SUFFICES ASSUME NEW k \in 1..Len(deviceToHost') PROVE Queued!(k)'
    BY DEF Queued
  <2>1. deviceToHost'[k] = deviceToHost[k + 1] /\ k + 1 \in 1..Len(deviceToHost) /\ sent' = sent
    BY <1>a DEF RecvDeviceToHost
  <2>2. deviceToHost[k + 1].src = m.src => m.n < deviceToHost[k + 1].n
    BY <1>a, <2>1 DEF OrderInv, QueueSorted
  <2>3. taken'[deviceToHost[k + 1].src] < deviceToHost[k + 1].n
    BY <1>0, <1>b, <1>c, <1>g, <2>1, <2>2 DEF OrderInv, Queued
  <2> QED BY <2>1, <2>3 DEF OrderInv, Queued
<1>4. QueueSorted'
  <2> SUFFICES ASSUME NEW j \in 1..Len(deviceToHost'), NEW k \in 1..Len(deviceToHost'),
                      j < k, deviceToHost'[j].src = deviceToHost'[k].src
               PROVE  deviceToHost'[j].n < deviceToHost'[k].n
    BY DEF QueueSorted
  <2>1. /\ deviceToHost'[j] = deviceToHost[j + 1] /\ j + 1 \in 1..Len(deviceToHost)
        /\ deviceToHost'[k] = deviceToHost[k + 1] /\ k + 1 \in 1..Len(deviceToHost)
        /\ j + 1 < k + 1
    BY <1>a
  <2> QED BY <2>1 DEF OrderInv, QueueSorted
<1>5. Counted'
  <2>1. written' = written /\ sent' = sent
    BY DEF RecvDeviceToHost
  <2>2. \A s \in Source : written[s] \in Nat /\ sent[s] \in Nat /\ taken[s] \in Nat
    BY InPathAssumption DEF InPathAssumption, OrderInv, Types
  <2>3. \A s \in Source : written[s] <= taken[s] /\ taken[s] <= sent[s]
    BY DEF OrderInv, Counted
  <2>4. \A s \in Source : written[s] <= taken'[s] /\ taken'[s] <= sent[s]
    BY <1>d, <1>f, <1>g, <2>2, <2>3
  <2> QED BY <2>1, <2>4 DEF Counted
<1> QED BY <1>1, <1>2, <1>3, <1>4, <1>5 DEF Rest

LEMMA ConsumerStops ==
  ASSUME OrderInv, NEW c \in Consumer, RecvCancelled(c) \/ WriteFail(c)
  PROVE  Rest'
<1>1. SourceHand'
  <2>1. \A s \in Source : hand'[s] = hand[s]
    BY InPathAssumption DEF InPathAssumption, OrderInv, Types, RecvCancelled, WriteFail
  <2> QED BY <2>1 DEF OrderInv, SourceHand, RecvCancelled, WriteFail
<1>2. ConsumerHand'
  BY DEF OrderInv, Types, ConsumerHand, RecvCancelled, WriteFail
<1>3. (Queued /\ QueueSorted /\ Counted)'
  BY DEF OrderInv, Queued, QueueSorted, Counted, RecvCancelled, WriteFail
<1> QED BY <1>1, <1>2, <1>3 DEF Rest

(* What Write writes: the report in hand, newer than those written before. *)
LEMMA WriteWrites ==
  ASSUME OrderInv, NEW c \in Consumer, Write(c)
  PROVE  \E m \in Msg :
           /\ hand[c] = {m} /\ m.iface \in Serves(c) /\ Fits(m.src, m.iface)
           /\ written[m.src] < m.n /\ m.n <= taken[m.src]
           /\ written' = [written EXCEPT ![m.src] = m.n]
  BY DEF OrderInv, ConsumerHand, Write

LEMMA WriteStep ==
  ASSUME OrderInv, NEW c \in Consumer, Write(c)
  PROVE  Rest'
<1>0. PICK m \in Msg :
        /\ hand[c] = {m} /\ m.iface \in Serves(c) /\ Fits(m.src, m.iface)
        /\ written[m.src] < m.n /\ m.n <= taken[m.src]
        /\ written' = [written EXCEPT ![m.src] = m.n]
  BY WriteWrites
<1>a. m.src \in Source /\ written \in [Source -> 0..MaxReports]
  BY MsgType DEF OrderInv, Types
<1>1. SourceHand'
  <2>1. \A s \in Source : hand'[s] = hand[s]
    BY InPathAssumption DEF InPathAssumption, OrderInv, Types, Write
  <2> QED BY <2>1 DEF OrderInv, SourceHand, Write
<1>2. ConsumerHand'
  <2> SUFFICES ASSUME NEW d \in Consumer PROVE ConsumerHand!(d)'
    BY DEF ConsumerHand
  <2>1. CASE d = c
    BY <2>1 DEF OrderInv, Types, Write
  <2>2. CASE d # c
    <3>1. consPc'[d] = consPc[d] /\ hand'[d] = hand[d] /\ taken' = taken
      BY <2>2 DEF OrderInv, Types, Write
    <3>2. CASE consPc[d] = "write"
      <4>1. PICK x \in Msg : /\ hand[d] = {x} /\ x.iface \in Serves(d) /\ Fits(x.src, x.iface)
                             /\ written[x.src] < x.n /\ x.n <= taken[x.src]
        BY <3>2 DEF OrderInv, ConsumerHand
      <4>2. x.src # m.src
        BY <1>0, <1>a, <2>2, <4>1, ServesApart
      <4>3. written'[x.src] = written[x.src]
        BY <1>0, <1>a, <4>2, MsgType
      <4> QED BY <3>1, <3>2, <4>1, <4>3
    <3>3. CASE consPc[d] # "write"
      BY <3>1, <3>3 DEF OrderInv, ConsumerHand
    <3> QED BY <3>2, <3>3
  <2> QED BY <2>1, <2>2
<1>3. (Queued /\ QueueSorted)'
  BY DEF OrderInv, Queued, QueueSorted, Write
<1>4. Counted'
  BY <1>0, <1>a DEF OrderInv, Counted, Write
<1> QED BY <1>1, <1>2, <1>3, <1>4 DEF Rest

LEMMA StepOrder == OrderInv /\ [Next]_vars => OrderInv'
<1> SUFFICES ASSUME OrderInv, [Next]_vars PROVE OrderInv'
  OBVIOUS
<1>0. Types'
  BY StepType DEF OrderInv
<1>1. ASSUME NEW ep \in InEndpoint, Poll(ep) PROVE Rest'
  <2>1. ep \in Source
    BY DEF Source
  <2>2. CASE PollCheck(ep)
    BY <2>1, <2>2, IdleStep DEF PollCheck
  <2>3. CASE PollRead(ep)
    BY <2>1, <2>3, HoldStep, InPathAssumption DEF InPathAssumption, PollRead, Fits
  <2>4. CASE PollTimeout(ep)
    BY <2>1, <2>4, IdleStep DEF PollTimeout
  <2>5. CASE PollError(ep)
    BY <2>1, <2>5, IdleStep DEF PollError
  <2> QED BY <1>1, <2>2, <2>3, <2>4, <2>5 DEF Poll
<1>2. ASSUME NEW j \in Injector, Inject(j) PROVE Rest'
  <2>1. j \in Source /\ j \notin InEndpoint
    BY InPathAssumption DEF InPathAssumption, Source
  <2>2. CASE InjectPacket(j)
    BY <2>1, <2>2, HoldStep DEF InjectPacket, Fits, Iface
  <2>3. CASE InjectClosed(j)
    BY <2>1, <2>3, IdleStep DEF InjectClosed
  <2> QED BY <1>2, <2>2, <2>3 DEF Inject
<1>3. ASSUME NEW s \in Source, Send(s) \/ SendCancelled(s) PROVE Rest'
  BY <1>3, SendStep, SendCancelledStep
<1>4. ASSUME NEW c \in Consumer, Consume(c) PROVE Rest'
  BY <1>4, RecvStep, ConsumerStops, WriteStep DEF Consume
<1>5. ASSUME UNCHANGED <<deviceToHost, pc, consPc, hand, sent, taken, written>>
      PROVE  Rest'
  <2>1. SourceHand' /\ ConsumerHand'
    BY <1>5 DEF OrderInv, SourceHand, ConsumerHand
  <2>2. (Queued /\ QueueSorted /\ Counted)'
    BY <1>5 DEF OrderInv, Queued, QueueSorted, Counted
  <2> QED BY <2>1, <2>2 DEF Rest
<1>6. ASSUME NEW c \in Consumer, CloseFiles(c) PROVE Rest'
  BY <1>5, <1>6 DEF CloseFiles
<1>7. ASSUME Cancel \/ Finished \/ UNCHANGED vars PROVE Rest'
  BY <1>5, <1>7 DEF Cancel, Finished, vars
<1>8. Rest'
  BY <1>1, <1>2, <1>3, <1>4, <1>6, <1>7 DEF Next
<1> QED BY <1>0, <1>8 DEF OrderInv, Rest

THEOREM OrderInvariant == Spec => []OrderInv
  BY InitOrder, StepOrder, PTL DEF Spec

(* In every reachable state the types hold, and every goroutine that sends *)
(* or writes has exactly the one report in hand that it should have.       *)
THEOREM TypeCorrect == Spec => []TypeOK
<1>1. OrderInv => TypeOK
  BY DEF OrderInv, TypeOK
<1> QED BY <1>1, OrderInvariant, PTL

(* No report of a source is written twice or after a later one, whatever   *)
(* the interfaces of the device and whoever drains the channel.            *)
THEOREM OrderCorrect == Spec => InOrder
<1>1. OrderInv /\ [Next]_vars =>
        [\A s \in Source : written'[s] # written[s] => written'[s] > written[s]]_vars
  <2> SUFFICES ASSUME OrderInv, [Next]_vars, NEW s \in Source, written'[s] # written[s]
               PROVE  written'[s] > written[s]
    OBVIOUS
  <2>1. PICK c \in Consumer : Write(c)
    BY DEF Next, Poll, PollCheck, PollRead, PollTimeout, PollError, Hold, Inject, InjectPacket,
           InjectClosed, Send, SendCancelled, Consume, RecvDeviceToHost, RecvCancelled,
           WriteFail, CloseFiles, Cancel, Finished, vars
  <2>2. PICK m \in Msg : written[m.src] < m.n /\ written' = [written EXCEPT ![m.src] = m.n]
    BY <2>1, WriteWrites
  <2> QED BY <2>2, MsgType, InPathAssumption DEF InPathAssumption, OrderInv, Types
<1> QED BY <1>1, OrderInvariant, PTL DEF Spec, InOrder

-----------------------------------------------------------------------------
(***************************************************************************)
(* On a device with HID interfaces only, all of whose hidg files opened,   *)
(* the channel loses nothing, and is the gapless bounded stream of reports *)
(* that ReportStream describes.                                            *)
(***************************************************************************)
HidOnly == FfsMapped = {} /\ HidOpen = HidMapped

LossInv == OrderInv /\ NothingLost

(* The one consumer writes whatever it receives.                           *)
LEMMA AllServed ==
  ASSUME HidOnly, NEW c \in Consumer
  PROVE  Iface \subseteq Serves(c)
  BY DEF HidOnly, Consumer, Iface, Serves

LEMMA RecvTakesHead ==
  ASSUME HidOnly, OrderInv, NEW c \in Consumer, RecvDeviceToHost(c)
  PROVE  /\ taken' = [taken EXCEPT ![Head(deviceToHost).src] = Head(deviceToHost).n]
         /\ UNCHANGED <<sent, done>>
<1>1. /\ deviceToHost \in Seq(Msg) /\ deviceToHost # <<>>
      /\ deviceToHost' = Tail(deviceToHost)
  BY DEF OrderInv, Types, RecvDeviceToHost
<1>2. Head(deviceToHost) \in Msg
  BY <1>1, TailOfChannel
<1>3. Head(deviceToHost).iface \in Serves(c)
  BY <1>2, AllServed DEF Msg
<1> QED BY <1>3 DEF RecvDeviceToHost

-----------------------------------------------------------------------------
LEMMA LossSend ==
  ASSUME LossInv, NEW s \in Source, Send(s)
  PROVE  NothingLost'
<1>0. PICK m \in Msg : /\ deviceToHost' = Append(deviceToHost, m)
                       /\ sent' = [sent EXCEPT ![s] = m.n]
                       /\ m.src = s
                       /\ m.n = sent[s] + 1
  BY SendAppends DEF LossInv
<1>a. /\ deviceToHost \in Seq(Msg)
      /\ sent \in [Source -> Nat] /\ taken' = taken
      /\ MaxReports \in Nat
  BY InPathAssumption DEF InPathAssumption, LossInv, OrderInv, Types, Send
<1>b. /\ Len(deviceToHost) \in Nat
      /\ DOMAIN deviceToHost = 1..Len(deviceToHost)
      /\ DOMAIN deviceToHost' = 1..(Len(deviceToHost) + 1)
      /\ \A k \in DOMAIN deviceToHost : deviceToHost'[k] = deviceToHost[k]
      /\ deviceToHost'[Len(deviceToHost) + 1] = m
  BY <1>0, <1>a
<1> SUFFICES ASSUME NEW t \in Source, NEW n \in 1..MaxReports, taken'[t] < n, n <= sent'[t]
             PROVE  \E k \in DOMAIN deviceToHost' : deviceToHost'[k].src = t /\ deviceToHost'[k].n = n
  BY DEF NothingLost
<1>1. CASE n <= sent[t]
  <2>1. PICK k \in DOMAIN deviceToHost : deviceToHost[k].src = t /\ deviceToHost[k].n = n
    BY <1>a, <1>1 DEF LossInv, NothingLost
  <2>2. k \in DOMAIN deviceToHost' /\ deviceToHost'[k] = deviceToHost[k]
    BY <1>b
  <2> QED BY <2>1, <2>2
<1>2. CASE ~(n <= sent[t])
  <2>1. t = s /\ n = m.n
    BY <1>0, <1>a, <1>2
  <2>2. Len(deviceToHost) + 1 \in DOMAIN deviceToHost'
    BY <1>b
  <2> QED BY <1>0, <1>b, <2>1, <2>2
<1> QED BY <1>1, <1>2

LEMMA LossRecv ==
  ASSUME HidOnly, LossInv, NEW c \in Consumer, RecvDeviceToHost(c)
  PROVE  NothingLost'
<1> DEFINE m == Head(deviceToHost)
<1>0. /\ deviceToHost \in Seq(Msg) /\ deviceToHost # <<>>
      /\ deviceToHost' = Tail(deviceToHost)
      /\ taken \in [Source -> Nat] /\ MaxReports \in Nat
  BY InPathAssumption DEF InPathAssumption, LossInv, OrderInv, Types, RecvDeviceToHost
<1>a. /\ Len(deviceToHost) \in Nat \ {0}
      /\ m = deviceToHost[1]
      /\ m \in Msg
      /\ Len(deviceToHost') = Len(deviceToHost) - 1
      /\ \A k \in 1..Len(deviceToHost') : deviceToHost'[k] = deviceToHost[k + 1]
  BY <1>0, TailOfChannel
<1>b. DOMAIN deviceToHost = 1..Len(deviceToHost) /\ DOMAIN deviceToHost' = 1..Len(deviceToHost')
  BY <1>0
<1>c. m.src \in Source /\ m.n \in Nat /\ taken[m.src] < m.n
  BY <1>a, MsgType DEF LossInv, OrderInv, Queued
<1>d. taken' = [taken EXCEPT ![m.src] = m.n] /\ sent' = sent
  BY RecvTakesHead DEF LossInv
<1> HIDE DEF m
<1> SUFFICES ASSUME NEW t \in Source, NEW n \in 1..MaxReports, taken'[t] < n, n <= sent'[t]
             PROVE  \E k \in DOMAIN deviceToHost' : deviceToHost'[k].src = t /\ deviceToHost'[k].n = n
  BY DEF NothingLost
<1>1. taken[t] < n /\ ~(t = m.src /\ n = m.n)
  BY <1>0, <1>c, <1>d
<1>2. PICK k \in DOMAIN deviceToHost : deviceToHost[k].src = t /\ deviceToHost[k].n = n
  BY <1>1, <1>d DEF LossInv, NothingLost
<1>3. k # 1
  BY <1>1, <1>2, <1>a
<1>4. k - 1 \in 1..Len(deviceToHost') /\ (k - 1) + 1 = k
  BY <1>a, <1>b, <1>3
<1>5. deviceToHost'[k - 1] = deviceToHost[k]
  BY <1>a, <1>4
<1> QED BY <1>2, <1>4, <1>5, <1>b

LEMMA StepLoss == HidOnly /\ LossInv /\ [Next]_vars => LossInv'
<1> SUFFICES ASSUME HidOnly, LossInv, [Next]_vars PROVE NothingLost'
  BY StepOrder DEF LossInv
<1>1. ASSUME NEW s \in Source, Send(s) PROVE NothingLost'
  BY <1>1, LossSend
<1>2. ASSUME NEW c \in Consumer, RecvDeviceToHost(c) PROVE NothingLost'
  BY <1>2, LossRecv
<1>3. ASSUME UNCHANGED <<deviceToHost, sent, taken>> PROVE NothingLost'
  BY <1>3 DEF LossInv, NothingLost
<1>4. CASE \E s \in Source : Send(s)
  BY <1>1, <1>4
<1>5. CASE \E c \in Consumer : RecvDeviceToHost(c)
  BY <1>2, <1>5
<1>6. CASE ~(\E s \in Source : Send(s)) /\ ~(\E c \in Consumer : RecvDeviceToHost(c))
  <2>1. UNCHANGED <<deviceToHost, sent, taken>>
    BY <1>6 DEF Next, Poll, PollCheck, PollRead, PollTimeout, PollError, Hold, Inject, InjectPacket,
                InjectClosed, SendCancelled, Consume, RecvCancelled, Write,
                WriteFail, CloseFiles, Cancel, Finished, vars
  <2> QED BY <1>3, <2>1
<1> QED BY <1>4, <1>5, <1>6

LEMMA InitLoss == Init => LossInv
<1> SUFFICES ASSUME Init PROVE NothingLost
  BY InitOrder DEF LossInv
<1> QED BY DEF Init, NothingLost

(* No report is lost between the read that returned it and its write, on   *)
(* any device whose interfaces are all HID and whose hidg files all opened. *)
THEOREM LossCorrect ==
  ASSUME HidOnly
  PROVE  Spec => []NothingLost
<1>1. LossInv /\ [Next]_vars => LossInv'
  BY StepLoss
<1>2. LossInv => NothingLost
  BY DEF LossInv
<1> QED BY <1>1, <1>2, InitLoss, PTL DEF Spec

-----------------------------------------------------------------------------
(* The reports of a source under way are all in the channel: no more of    *)
(* them than the channel holds.                                            *)
LEMMA UnderWay ==
  ASSUME LossInv, NEW s \in Source
  PROVE  sent[s] - taken[s] <= Len(deviceToHost)
<1> DEFINE S == (taken[s] + 1)..sent[s]
           T == 1..Len(deviceToHost)
<1>0. /\ sent[s] \in 0..MaxReports /\ taken[s] \in 0..MaxReports /\ MaxReports \in Nat
      /\ taken[s] <= sent[s]
      /\ deviceToHost \in Seq(Msg)
  BY InPathAssumption DEF InPathAssumption, LossInv, OrderInv, Types, Counted
<1>1. \A n \in S : \E k \in T : deviceToHost[k].src = s /\ deviceToHost[k].n = n
  <2> SUFFICES ASSUME NEW n \in S PROVE \E k \in T : deviceToHost[k].src = s /\ deviceToHost[k].n = n
    OBVIOUS
  <2>1. n \in 1..MaxReports /\ taken[s] < n /\ n <= sent[s]
    BY <1>0
  <2>2. DOMAIN deviceToHost = T
    BY <1>0
  <2> QED BY <2>1, <2>2 DEF LossInv, NothingLost
<1> DEFINE f == [n \in S |-> CHOOSE k \in T : deviceToHost[k].src = s /\ deviceToHost[k].n = n]
<1>2. \A n \in S : f[n] \in T /\ deviceToHost[f[n]].n = n
  BY <1>1
<1>3. f \in [S -> T]
  BY <1>2
<1>4. \A a, b \in S : f[a] = f[b] => a = b
  BY <1>2
<1> HIDE DEF f
<1>5. f \in Injection(S, T)
  BY <1>3, <1>4, Fun_IsInj
<1>6. IsFiniteSet(T) /\ Cardinality(T) = Len(deviceToHost)
  <2>1. Len(deviceToHost) \in Nat /\ 1 \in Int /\ Len(deviceToHost) \in Int
    BY <1>0
  <2>2. IsFiniteSet(T) /\ Cardinality(T) = IF 1 > Len(deviceToHost) THEN 0 ELSE Len(deviceToHost) - 1 + 1
    BY <2>1, FS_Interval, Zenon
  <2> QED BY <2>1, <2>2
<1>7. Cardinality(S) = sent[s] - taken[s]
  <2>1. taken[s] + 1 \in Int /\ sent[s] \in Int
    BY <1>0
  <2>2. Cardinality(S) = IF taken[s] + 1 > sent[s] THEN 0 ELSE sent[s] - (taken[s] + 1) + 1
    BY <2>1, FS_Interval, Zenon
  <2> QED BY <1>0, <2>2
<1>8. Cardinality(S) <= Cardinality(T)
  BY <1>5, <1>6, FS_Injection
<1> QED BY <1>6, <1>7, <1>8

(* What the writer takes is the next report of its source: were there an   *)
(* earlier one it would still be in the channel, behind a later one.       *)
LEMMA TakenNext ==
  ASSUME LossInv, deviceToHost # <<>>
  PROVE  /\ Head(deviceToHost).src \in Source
         /\ Head(deviceToHost).n = taken[Head(deviceToHost).src] + 1
         /\ taken[Head(deviceToHost).src] < sent[Head(deviceToHost).src]
<1> DEFINE m == Head(deviceToHost)
<1>0. /\ deviceToHost \in Seq(Msg)
      /\ sent \in [Source -> 0..MaxReports] /\ taken \in [Source -> 0..MaxReports]
      /\ MaxReports \in Nat
  BY InPathAssumption DEF InPathAssumption, LossInv, OrderInv, Types
<1>1. Len(deviceToHost) \in Nat \ {0} /\ m = deviceToHost[1] /\ m \in Msg
  BY <1>0
<1>2. 1 \in 1..Len(deviceToHost)
  BY <1>1
<1>3. m.src \in Source /\ m.n \in Nat /\ taken[m.src] < m.n /\ m.n <= sent[m.src]
  BY <1>1, <1>2, MsgType DEF LossInv, OrderInv, Queued
<1> HIDE DEF m
<1>4. m.n <= taken[m.src] + 1
  <2> SUFFICES ASSUME taken[m.src] + 1 < m.n PROVE FALSE
    BY <1>0, <1>3
  <2> DEFINE n == taken[m.src] + 1
  <2>1. n \in 1..MaxReports /\ taken[m.src] < n /\ n <= sent[m.src]
    BY <1>0, <1>3
  <2>2. PICK k \in DOMAIN deviceToHost : deviceToHost[k].src = m.src /\ deviceToHost[k].n = n
    BY <1>3, <2>1 DEF LossInv, NothingLost
  <2>3. k \in 1..Len(deviceToHost) /\ k # 1
    BY <1>0, <1>1, <2>1, <2>2
  <2>4. m.n < deviceToHost[k].n
    BY <1>1, <1>2, <2>2, <2>3 DEF LossInv, OrderInv, QueueSorted
  <2> QED BY <1>0, <1>3, <2>2, <2>4
<1> QED BY <1>0, <1>3, <1>4 DEF m

LEMMA StreamStep ==
  ASSUME HidOnly, LossInv, [Next]_vars
  PROVE  [Stream!Next]_<<sent, taken, done>>
<1>1. CASE \E s \in Source : Send(s)
  <2>0. PICK s \in Source : Send(s)
    BY <1>1
  <2>1. sent' = [sent EXCEPT ![s] = @ + 1] /\ taken' = taken /\ done' = done
    <3>1. PICK m \in Msg : sent' = [sent EXCEPT ![s] = m.n] /\ m.n = sent[s] + 1
      BY <2>0, SendAppends DEF LossInv
    <3> QED BY <2>0, <3>1 DEF Send
  <2>2. Len(deviceToHost) < BufSize
    BY <2>0 DEF Send, SendDeviceToHost
  <2>3. sent[s] - taken[s] < BufSize
    <3>1. /\ sent[s] \in Nat /\ taken[s] \in Nat /\ BufSize \in Nat
          /\ Len(deviceToHost) \in Nat
      BY InPathAssumption DEF InPathAssumption, LossInv, OrderInv, Types
    <3> QED BY <2>2, <3>1, UnderWay
  <2> QED BY <2>1, <2>3 DEF Stream!Next, Stream!Produce
<1>2. CASE \E c \in Consumer : RecvDeviceToHost(c)
  <2>0. PICK c \in Consumer : RecvDeviceToHost(c)
    BY <1>2
  <2>1. deviceToHost # <<>>
    BY <2>0 DEF RecvDeviceToHost
  <2>2. /\ taken' = [taken EXCEPT ![Head(deviceToHost).src] = Head(deviceToHost).n]
        /\ sent' = sent /\ done' = done
    BY <2>0, RecvTakesHead DEF LossInv
  <2>3. Stream!Consume(Head(deviceToHost).src)
    BY <2>1, <2>2, TakenNext DEF Stream!Consume
  <2> QED BY <2>1, <2>3, TakenNext DEF Stream!Next
<1>3. CASE Cancel
  BY <1>3 DEF Cancel, Stream!Next, Stream!Stop
<1>4. CASE /\ ~(\E s \in Source : Send(s))
           /\ ~(\E c \in Consumer : RecvDeviceToHost(c))
           /\ ~Cancel
  BY <1>4 DEF Next, Poll, PollCheck, PollRead, PollTimeout, PollError, Hold, Inject, InjectPacket,
              InjectClosed, SendCancelled, Consume, RecvCancelled, Write,
              WriteFail, CloseFiles, Finished, vars
<1> QED BY <1>1, <1>2, <1>3, <1>4

(* The channel of an all-HID device implements ReportStream, for every     *)
(* number of endpoints and sockets and every capacity.                     *)
THEOREM StreamCorrect ==
  ASSUME HidOnly
  PROVE  Spec => StreamSafe
<1>1. Init => Stream!Init
  BY DEF Init, Stream!Init
<1>2. LossInv /\ [Next]_vars => [Stream!Next]_<<sent, taken, done>>
  BY StreamStep
<1>3. LossInv /\ [Next]_vars => LossInv'
  BY StepLoss
<1> QED BY <1>1, <1>2, <1>3, InitLoss, PTL DEF Spec, StreamSafe, Stream!Spec, Stream!streamVars
=============================================================================
