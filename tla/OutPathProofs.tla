---------------------------- MODULE OutPathProofs ----------------------------
(***************************************************************************)
(* What OutPath guarantees for every number of files and every capacity of *)
(* the channel.                                                            *)
(***************************************************************************)
EXTENDS OutPath, SequenceTheorems, FiniteSetTheorems, FunctionTheorems, TLAPS

-----------------------------------------------------------------------------
(* The strengthening of the stream.                                        *)

(* A reader that is sending holds its next report, any other holds none.   *)
ReaderHand ==
  \A r \in Reader :
    IF readPc[r] = "send"
      THEN sent[r] < MaxReports /\ held[r] = {[from |-> r, n |-> sent[r] + 1]}
      ELSE held[r] = {}

(* The channel holds reports that were sent and not taken, those of one    *)
(* file in the order they were sent.                                       *)
Queued ==
  \A k \in 1..Len(hostToDevice) :
    /\ taken[hostToDevice[k].from] < hostToDevice[k].n
    /\ hostToDevice[k].n <= sent[hostToDevice[k].from]

QueueSorted ==
  \A j, k \in 1..Len(hostToDevice) :
    (j < k /\ hostToDevice[j].from = hostToDevice[k].from) => hostToDevice[j].n < hostToDevice[k].n

(* It holds all of them.                                                   *)
NothingLost ==
  \A r \in Reader, n \in 1..MaxReports :
    (taken[r] < n /\ n <= sent[r]) =>
      \E k \in 1..Len(hostToDevice) : hostToDevice[k].from = r /\ hostToDevice[k].n = n

Counted == \A r \in Reader : taken[r] <= sent[r]

Rest == ReaderHand /\ Queued /\ QueueSorted /\ NothingLost /\ Counted

StreamInv == TypeOK /\ Rest

-----------------------------------------------------------------------------
LEMMA InitType == Init => TypeOK
<1> SUFFICES ASSUME Init PROVE TypeOK
  OBVIOUS
<1> USE OutPathAssumption DEF OutPathAssumption, Init
<1>1. 0 \in 0..MaxReports /\ hostToDevice \in Seq(Msg) /\ Len(hostToDevice) <= BufSize
  OBVIOUS
<1>2. drained \in BOOLEAN /\ consPc \in {"recv", "write", "stopped"}
  OBVIOUS
<1> QED BY <1>1, <1>2 DEF TypeOK

(* Every step of the program keeps the types: the bound on the channel is  *)
(* the guard of the send, the bound on the counters that of ReadReport.    *)
LEMMA StepType == TypeOK /\ [Next]_vars => TypeOK'
<1> SUFFICES ASSUME TypeOK, [Next]_vars PROVE TypeOK'
  OBVIOUS
<1> USE OutPathAssumption DEF OutPathAssumption, readVars, consVars
<1>1. ASSUME NEW r \in Reader, ReadCheck(r) PROVE TypeOK'
  BY <1>1 DEF TypeOK, ReadCheck
<1>2. ASSUME NEW r \in Reader, ReadReport(r) PROVE TypeOK'
  <2> DEFINE m == [from |-> r, n |-> sent[r] + 1]
  <2>1. m \in Msg
    BY <1>2 DEF TypeOK, ReadReport, Msg
  <2> QED BY <1>2, <2>1 DEF TypeOK, ReadReport
<1>3. ASSUME NEW r \in Reader, ReadEmpty(r) PROVE TypeOK'
  BY <1>3 DEF TypeOK, ReadEmpty
<1>4. ASSUME NEW r \in Reader, ReadError(r) PROVE TypeOK'
  BY <1>4 DEF TypeOK, ReadError
<1>5. ASSUME NEW r \in Reader, Send(r) PROVE TypeOK'
  <2>1. PICK m \in held[r] : SendHostToDevice(m) /\ sent' = [sent EXCEPT ![r] = m.n]
    BY <1>5 DEF Send
  <2>2. m \in Msg /\ m.n \in 0..MaxReports
    BY <2>1 DEF TypeOK, Msg
  <2>3. hostToDevice' \in Seq(Msg) /\ Len(hostToDevice') <= BufSize
    BY <2>1, <2>2 DEF TypeOK, SendHostToDevice
  <2> QED BY <1>5, <2>1, <2>2, <2>3 DEF TypeOK, Send
<1>6. ASSUME NEW r \in Reader, SendCancelled(r) PROVE TypeOK'
  BY <1>6 DEF TypeOK, SendCancelled
<1>7. CASE RecvHostToDevice
  <2> DEFINE m == Head(hostToDevice)
  <2>1. hostToDevice \in Seq(Msg) /\ hostToDevice # <<>> /\ hostToDevice' = Tail(hostToDevice)
    BY <1>7 DEF TypeOK, RecvHostToDevice
  <2>2. m \in Msg
    BY <2>1, HeadTailProperties, Zenon
  <2>3. m.n \in 0..MaxReports /\ m.from \in Reader
    BY <2>2 DEF Msg
  <2>4. hostToDevice' \in Seq(Msg) /\ Len(hostToDevice') <= BufSize
    BY <2>1 DEF TypeOK
  <2>5. /\ taken' = [taken EXCEPT ![m.from] = m.n]
        /\ \/ consPc' = "write" /\ cur' = {m}
           \/ UNCHANGED <<consPc, cur>>
        /\ UNCHANGED <<done, filesOpen, drained, forwarded, readVars>>
    BY <1>7 DEF RecvHostToDevice
  <2> HIDE DEF m
  <2>6. taken' \in [Reader -> 0..MaxReports]
    BY <2>3, <2>5 DEF TypeOK
  <2> QED BY <2>2, <2>4, <2>5, <2>6 DEF TypeOK
<1>8. CASE RecvCancelled
  BY <1>8 DEF TypeOK, RecvCancelled
<1>9. CASE Forward
  <2>1. PICK m \in cur : forwarded' = [forwarded EXCEPT ![m.from] = m.n]
    BY <1>9 DEF Forward
  <2>2. m.n \in 0..MaxReports
    BY <2>1 DEF TypeOK, Msg
  <2> QED BY <1>9, <2>1, <2>2 DEF TypeOK, Forward
<1>10. CASE ForwardFails
  BY <1>10 DEF TypeOK, ForwardFails
<1>11. CASE CloseFiles \/ Cancel
  BY <1>11 DEF TypeOK, CloseFiles, Cancel
<1>12. CASE UNCHANGED vars
  BY <1>12 DEF TypeOK, vars
<1> QED
  BY <1>1, <1>2, <1>3, <1>4, <1>5, <1>6, <1>7, <1>8, <1>9, <1>10, <1>11, <1>12
  DEF Next, Read, Consume, Finished

(* The types hold of every reachable state.                                *)
THEOREM TypeCorrect == Spec => []TypeOK
  BY InitType, StepType, PTL DEF Spec

-----------------------------------------------------------------------------
LEMMA MsgType == \A m \in Msg : m.from \in Reader /\ m.n \in 1..MaxReports /\ m.n \in Nat
  BY OutPathAssumption DEF OutPathAssumption, Msg

LEMMA Counters ==
  ASSUME TypeOK
  PROVE  /\ hostToDevice \in Seq(Msg) /\ Len(hostToDevice) \in Nat
         /\ MaxReports \in Nat /\ BufSize \in Nat
         /\ sent \in [Reader -> 0..MaxReports] /\ taken \in [Reader -> 0..MaxReports]
         /\ \A r \in Reader : sent[r] \in Nat /\ taken[r] \in Nat
         /\ \A k \in 1..Len(hostToDevice) : hostToDevice[k] \in Msg
  BY OutPathAssumption DEF OutPathAssumption, TypeOK

LEMMA InitStream == Init => StreamInv
<1> SUFFICES ASSUME Init PROVE StreamInv
  OBVIOUS
<1>1. TypeOK
  BY InitType
<1>2. ReaderHand /\ Counted
  BY DEF Init, ReaderHand, Counted
<1>3. Len(hostToDevice) = 0
  BY DEF Init
<1>4. Queued /\ QueueSorted
  BY <1>3 DEF Queued, QueueSorted
<1>5. NothingLost
  BY DEF Init, NothingLost
<1> QED BY <1>1, <1>2, <1>4, <1>5 DEF StreamInv, Rest

(* A step that leaves the channel and the counters alone.                  *)
LEMMA QuietStep ==
  ASSUME StreamInv, UNCHANGED <<hostToDevice, sent, taken>>, ReaderHand'
  PROVE  Rest'
  BY DEF StreamInv, Rest, Queued, QueueSorted, NothingLost, Counted

(* The loop of a reader moves, and ends up holding no report.              *)
LEMMA ReadStep ==
  ASSUME StreamInv, NEW r \in Reader, Read(r) \/ SendCancelled(r)
  PROVE  Rest'
<1>1. UNCHANGED <<hostToDevice, sent, taken>>
  BY DEF Read, ReadCheck, ReadReport, ReadEmpty, ReadError, SendCancelled, consVars
<1>2. ReaderHand'
  BY DEF StreamInv, Rest, TypeOK, ReaderHand, Read, ReadCheck, ReadReport, ReadEmpty, ReadError,
         SendCancelled
<1> QED BY <1>1, <1>2, QuietStep

(* What Send appends: the next report of the reader.                       *)
LEMMA SendAppends ==
  ASSUME StreamInv, NEW r \in Reader, Send(r)
  PROVE  LET m == [from |-> r, n |-> sent[r] + 1]
         IN /\ m \in Msg
            /\ Len(hostToDevice) < BufSize
            /\ hostToDevice' = Append(hostToDevice, m)
            /\ sent' = [sent EXCEPT ![r] = @ + 1]
            /\ taken' = taken /\ done' = done
<1>1. PICK m \in held[r] : SendHostToDevice(m) /\ sent' = [sent EXCEPT ![r] = m.n]
  BY DEF Send
<1>2. m = [from |-> r, n |-> sent[r] + 1]
  BY <1>1 DEF Send, StreamInv, Rest, ReaderHand
<1>3. m \in Msg
  BY <1>1 DEF StreamInv, TypeOK
<1> QED BY <1>1, <1>2, <1>3 DEF SendHostToDevice, Send, consVars

LEMMA SendStep ==
  ASSUME StreamInv, NEW r \in Reader, Send(r)
  PROVE  Rest'
<1> DEFINE m == [from |-> r, n |-> sent[r] + 1]
           last == Len(hostToDevice) + 1
<1>0. /\ m \in Msg
      /\ hostToDevice' = Append(hostToDevice, m)
      /\ sent' = [sent EXCEPT ![r] = @ + 1]
      /\ taken' = taken
  BY SendAppends
<1>a. /\ hostToDevice \in Seq(Msg) /\ Len(hostToDevice) \in Nat /\ MaxReports \in Nat
      /\ sent \in [Reader -> 0..MaxReports]
      /\ \A s \in Reader : sent[s] \in Nat /\ taken[s] \in Nat
      /\ \A k \in 1..Len(hostToDevice) : hostToDevice[k] \in Msg
  BY Counters DEF StreamInv
<1>m. m.from = r /\ m.n = sent[r] + 1
  OBVIOUS
<1> HIDE DEF m
<1>b. /\ Len(hostToDevice') = last
      /\ \A k \in 1..Len(hostToDevice) : hostToDevice'[k] = hostToDevice[k]
      /\ hostToDevice'[last] = m
  BY <1>0, <1>a
<1>c. sent'[r] = sent[r] + 1 /\ \A s \in Reader : s # r => sent'[s] = sent[s]
  BY <1>0, <1>a
<1>d. \A k \in 1..Len(hostToDevice) : hostToDevice[k].from \in Reader /\ hostToDevice[k].n \in Nat
  BY <1>a, MsgType
<1>1. ReaderHand'
  <2> SUFFICES ASSUME NEW s \in Reader PROVE ReaderHand!(s)'
    BY DEF ReaderHand
  <2>1. CASE s = r
    BY <2>1 DEF StreamInv, TypeOK, Send
  <2>2. CASE s # r
    BY <2>2, <1>c DEF StreamInv, Rest, TypeOK, Send, ReaderHand
  <2> QED BY <2>1, <2>2
<1>2. Queued'
  <2> SUFFICES ASSUME NEW k \in 1..Len(hostToDevice') PROVE Queued!(k)'
    BY DEF Queued
  <2>1. CASE k = last
    BY <1>0, <1>a, <1>b, <1>c, <1>m, <2>1 DEF StreamInv, Rest, Counted
  <2>2. CASE k \in 1..Len(hostToDevice)
    <3>1. /\ taken[hostToDevice[k].from] < hostToDevice[k].n
          /\ hostToDevice[k].n <= sent[hostToDevice[k].from]
      BY <2>2 DEF StreamInv, Rest, Queued
    <3>2. hostToDevice'[k] = hostToDevice[k]
      BY <1>b, <2>2
    <3>3. hostToDevice[k].n <= sent'[hostToDevice[k].from]
      BY <1>a, <1>c, <1>d, <2>2, <3>1
    <3> QED BY <1>0, <3>1, <3>2, <3>3
  <2> QED BY <1>a, <1>b, <2>1, <2>2
<1>3. QueueSorted'
  <2>1. \A j \in 1..Len(hostToDevice) : hostToDevice[j].from = r => hostToDevice[j].n < m.n
    BY <1>a, <1>d, <1>m DEF StreamInv, Rest, Queued
  <2> SUFFICES ASSUME NEW j \in 1..Len(hostToDevice'), NEW k \in 1..Len(hostToDevice'),
                      j < k, hostToDevice'[j].from = hostToDevice'[k].from
               PROVE  hostToDevice'[j].n < hostToDevice'[k].n
    BY DEF QueueSorted
  <2>2. j \in 1..Len(hostToDevice) /\ hostToDevice'[j] = hostToDevice[j]
    BY <1>a, <1>b
  <2>3. CASE k = last
    BY <1>b, <1>m, <2>1, <2>2, <2>3
  <2>4. CASE k \in 1..Len(hostToDevice)
    <3>1. hostToDevice'[k] = hostToDevice[k]
      BY <1>b, <2>4
    <3> QED BY <2>2, <2>4, <3>1 DEF StreamInv, Rest, QueueSorted
  <2> QED BY <1>a, <1>b, <2>3, <2>4
<1>4. NothingLost'
  <2> SUFFICES ASSUME NEW s \in Reader, NEW n \in 1..MaxReports, taken'[s] < n, n <= sent'[s]
               PROVE  \E k \in 1..Len(hostToDevice') :
                        hostToDevice'[k].from = s /\ hostToDevice'[k].n = n
    BY DEF NothingLost
  <2>1. CASE s = r /\ n = sent[r] + 1
    <3>1. last \in 1..Len(hostToDevice')
      BY <1>a, <1>b
    <3> QED BY <1>b, <1>m, <2>1, <3>1
  <2>2. CASE ~(s = r /\ n = sent[r] + 1)
    <3>1. taken[s] < n /\ n <= sent[s]
      BY <1>0, <1>a, <1>c, <2>2
    <3>2. PICK k \in 1..Len(hostToDevice) : hostToDevice[k].from = s /\ hostToDevice[k].n = n
      BY <3>1 DEF StreamInv, Rest, NothingLost
    <3>3. k \in 1..Len(hostToDevice')
      BY <1>a, <1>b
    <3> QED BY <1>b, <3>2, <3>3
  <2> QED BY <2>1, <2>2
<1>5. Counted'
  BY <1>0, <1>a, <1>c DEF StreamInv, Rest, Counted
<1> QED BY <1>1, <1>2, <1>3, <1>4, <1>5 DEF Rest

-----------------------------------------------------------------------------
(* What the consumer takes is the next report of its file: were there an   *)
(* earlier one it would still be in the channel, behind a later one.       *)
LEMMA TakenNext ==
  ASSUME StreamInv, hostToDevice # <<>>
  PROVE  LET m == Head(hostToDevice)
         IN /\ m.from \in Reader
            /\ m.n = taken[m.from] + 1
            /\ taken[m.from] < sent[m.from]
            /\ m = hostToDevice[1]
            /\ Len(hostToDevice) \in Nat \ {0}
<1> DEFINE m == Head(hostToDevice)
<1>0. /\ hostToDevice \in Seq(Msg) /\ MaxReports \in Nat
      /\ sent \in [Reader -> 0..MaxReports] /\ taken \in [Reader -> 0..MaxReports]
      /\ \A k \in 1..Len(hostToDevice) : hostToDevice[k] \in Msg
  BY Counters DEF StreamInv
<1>1. Len(hostToDevice) \in Nat \ {0} /\ m = hostToDevice[1] /\ 1 \in 1..Len(hostToDevice)
  BY <1>0
<1>2. m.from \in Reader /\ m.n \in Nat /\ taken[m.from] < m.n /\ m.n <= sent[m.from]
  BY <1>0, <1>1, MsgType DEF StreamInv, Rest, Queued
<1> HIDE DEF m
<1>3. m.n <= taken[m.from] + 1
  <2> SUFFICES ASSUME taken[m.from] + 1 < m.n PROVE FALSE
    BY <1>0, <1>2
  <2> DEFINE n == taken[m.from] + 1
  <2>1. n \in 1..MaxReports /\ taken[m.from] < n /\ n <= sent[m.from]
    BY <1>0, <1>2
  <2>2. PICK k \in 1..Len(hostToDevice) : hostToDevice[k].from = m.from /\ hostToDevice[k].n = n
    BY <1>2, <2>1 DEF StreamInv, Rest, NothingLost
  <2>3. k # 1 /\ 1 < k
    BY <1>0, <1>1, <2>1, <2>2
  <2>4. m.n < hostToDevice[k].n
    BY <1>1, <2>2, <2>3 DEF StreamInv, Rest, QueueSorted
  <2> QED BY <1>0, <1>2, <2>2, <2>4
<1> QED BY <1>0, <1>1, <1>2, <1>3 DEF m

LEMMA RecvStep ==
  ASSUME StreamInv, RecvHostToDevice
  PROVE  Rest'
<1> DEFINE m == Head(hostToDevice)
<1>0. /\ hostToDevice # <<>> /\ hostToDevice' = Tail(hostToDevice)
      /\ taken' = [taken EXCEPT ![m.from] = m.n]
      /\ UNCHANGED <<readPc, held, sent>>
  BY DEF RecvHostToDevice, readVars
<1>a. /\ hostToDevice \in Seq(Msg) /\ MaxReports \in Nat
      /\ taken \in [Reader -> 0..MaxReports]
      /\ \A s \in Reader : sent[s] \in Nat /\ taken[s] \in Nat
      /\ \A k \in 1..Len(hostToDevice) : hostToDevice[k] \in Msg
  BY Counters DEF StreamInv
<1>b. /\ m.from \in Reader /\ m.n = taken[m.from] + 1 /\ taken[m.from] < sent[m.from]
      /\ m = hostToDevice[1] /\ Len(hostToDevice) \in Nat \ {0}
  BY <1>0, TakenNext
<1> HIDE DEF m
<1>c. /\ Len(hostToDevice') = Len(hostToDevice) - 1
      /\ \A k \in 1..Len(hostToDevice') : /\ k + 1 \in 1..Len(hostToDevice)
                                         /\ hostToDevice'[k] = hostToDevice[k + 1]
  BY <1>0, <1>a, <1>b
<1>d. \A k \in 1..Len(hostToDevice) : hostToDevice[k].from \in Reader /\ hostToDevice[k].n \in Nat
  BY <1>a, MsgType
<1>e. taken'[m.from] = m.n /\ \A s \in Reader : s # m.from => taken'[s] = taken[s]
  BY <1>0, <1>a, <1>b
<1>1. ReaderHand'
  BY <1>0 DEF StreamInv, Rest, ReaderHand
<1>2. Queued'
  <2> SUFFICES ASSUME NEW k \in 1..Len(hostToDevice') PROVE Queued!(k)'
    BY DEF Queued
  <2>1. k + 1 \in 1..Len(hostToDevice) /\ hostToDevice'[k] = hostToDevice[k + 1] /\ 1 < k + 1
    BY <1>b, <1>c
  <2>2. /\ taken[hostToDevice[k + 1].from] < hostToDevice[k + 1].n
        /\ hostToDevice[k + 1].n <= sent[hostToDevice[k + 1].from]
    BY <2>1 DEF StreamInv, Rest, Queued
  <2>3. hostToDevice[k + 1].from = m.from => m.n < hostToDevice[k + 1].n
    BY <1>b, <2>1 DEF StreamInv, Rest, QueueSorted
  <2> QED BY <1>0, <1>d, <1>e, <2>1, <2>2, <2>3
<1>3. QueueSorted'
  <2> SUFFICES ASSUME NEW j \in 1..Len(hostToDevice'), NEW k \in 1..Len(hostToDevice'),
                      j < k, hostToDevice'[j].from = hostToDevice'[k].from
               PROVE  hostToDevice'[j].n < hostToDevice'[k].n
    BY DEF QueueSorted
  <2>1. /\ j + 1 \in 1..Len(hostToDevice) /\ hostToDevice'[j] = hostToDevice[j + 1]
        /\ k + 1 \in 1..Len(hostToDevice) /\ hostToDevice'[k] = hostToDevice[k + 1]
        /\ j + 1 < k + 1
    BY <1>b, <1>c
  <2> QED BY <2>1 DEF StreamInv, Rest, QueueSorted
<1>4. NothingLost'
  <2> SUFFICES ASSUME NEW s \in Reader, NEW n \in 1..MaxReports, taken'[s] < n, n <= sent'[s]
               PROVE  \E k \in 1..Len(hostToDevice') :
                        hostToDevice'[k].from = s /\ hostToDevice'[k].n = n
    BY DEF NothingLost
  <2>1. taken[s] < n /\ n <= sent[s] /\ ~(s = m.from /\ n = m.n)
    BY <1>0, <1>a, <1>b, <1>e
  <2>2. PICK k \in 1..Len(hostToDevice) : hostToDevice[k].from = s /\ hostToDevice[k].n = n
    BY <2>1 DEF StreamInv, Rest, NothingLost
  <2>3. k # 1
    BY <1>b, <2>1, <2>2
  <2>4. k - 1 \in 1..Len(hostToDevice') /\ (k - 1) + 1 = k
    BY <1>b, <1>c, <2>3
  <2>5. hostToDevice'[k - 1] = hostToDevice[k]
    BY <1>c, <2>4
  <2> QED BY <2>2, <2>4, <2>5
<1>5. Counted'
  BY <1>0, <1>a, <1>b, <1>e DEF StreamInv, Rest, Counted
<1> QED BY <1>1, <1>2, <1>3, <1>4, <1>5 DEF Rest

LEMMA StepInv == StreamInv /\ [Next]_vars => StreamInv'
<1> SUFFICES ASSUME StreamInv, [Next]_vars PROVE Rest'
  BY StepType DEF StreamInv
<1>1. ASSUME NEW r \in Reader, Read(r) \/ SendCancelled(r) PROVE Rest'
  BY <1>1, ReadStep
<1>2. ASSUME NEW r \in Reader, Send(r) PROVE Rest'
  BY <1>2, SendStep
<1>3. CASE RecvHostToDevice
  BY <1>3, RecvStep
<1>4. CASE UNCHANGED <<hostToDevice, readPc, held, sent, taken>>
  BY <1>4, QuietStep DEF StreamInv, Rest, ReaderHand
<1> QED
  BY <1>1, <1>2, <1>3, <1>4
  DEF Next, Consume, RecvCancelled, Forward, ForwardFails, CloseFiles, Cancel, Finished, vars,
      readVars, consVars

-----------------------------------------------------------------------------
(* The reports of a file under way are all in the channel: no more of them *)
(* than the channel holds.                                                 *)
LEMMA UnderWay ==
  ASSUME StreamInv, NEW r \in Reader
  PROVE  sent[r] - taken[r] <= Len(hostToDevice)
<1> DEFINE S == (taken[r] + 1)..sent[r]
           T == 1..Len(hostToDevice)
           at(n, k) == hostToDevice[k].from = r /\ hostToDevice[k].n = n
<1>0. /\ sent[r] \in 0..MaxReports /\ taken[r] \in 0..MaxReports /\ MaxReports \in Nat
      /\ taken[r] <= sent[r] /\ Len(hostToDevice) \in Nat
  BY Counters DEF StreamInv, Rest, Counted
<1>1. \A n \in S : \E k \in T : at(n, k)
  <2> SUFFICES ASSUME NEW n \in S PROVE \E k \in T : at(n, k)
    OBVIOUS
  <2>1. n \in 1..MaxReports /\ taken[r] < n /\ n <= sent[r]
    BY <1>0
  <2> QED BY <2>1 DEF StreamInv, Rest, NothingLost
<1> DEFINE f == [n \in S |-> CHOOSE k \in T : at(n, k)]
<1>2. \A n \in S : f[n] \in T /\ hostToDevice[f[n]].n = n
  BY <1>1
<1>3. f \in [S -> T] /\ \A a, b \in S : f[a] = f[b] => a = b
  BY <1>2
<1> HIDE DEF f
<1>4. f \in Injection(S, T)
  BY <1>3, Fun_IsInj
<1>5. IsFiniteSet(T) /\ Cardinality(T) = Len(hostToDevice)
  <2>1. Len(hostToDevice) \in Int /\ 1 \in Int
    BY <1>0
  <2>2. IsFiniteSet(T) /\ Cardinality(T) = IF 1 > Len(hostToDevice) THEN 0 ELSE Len(hostToDevice) - 1 + 1
    BY <2>1, FS_Interval, Zenon
  <2> QED BY <1>0, <2>2
<1>6. Cardinality(S) = sent[r] - taken[r]
  <2>1. taken[r] + 1 \in Int /\ sent[r] \in Int
    BY <1>0
  <2>2. Cardinality(S) = IF taken[r] + 1 > sent[r] THEN 0 ELSE sent[r] - (taken[r] + 1) + 1
    BY <2>1, FS_Interval, Zenon
  <2> QED BY <1>0, <2>2
<1>7. Cardinality(S) <= Cardinality(T)
  BY <1>4, <1>5, FS_Injection
<1> QED BY <1>5, <1>6, <1>7

LEMMA StreamStep ==
  ASSUME StreamInv, [Next]_vars
  PROVE  [Stream!Next]_<<sent, taken, done>>
<1>1. ASSUME NEW r \in Reader, Send(r) PROVE Stream!Next
  <2>1. /\ Len(hostToDevice) < BufSize
        /\ sent' = [sent EXCEPT ![r] = @ + 1] /\ taken' = taken /\ done' = done
    BY <1>1, SendAppends
  <2>2. sent[r] - taken[r] < BufSize
    <3>1. sent[r] \in Nat /\ taken[r] \in Nat /\ BufSize \in Nat /\ Len(hostToDevice) \in Nat
      BY Counters DEF StreamInv
    <3> QED BY <2>1, <3>1, UnderWay
  <2> QED BY <2>1, <2>2 DEF Stream!Next, Stream!Produce
<1>2. CASE RecvHostToDevice
  <2> DEFINE m == Head(hostToDevice)
  <2>1. /\ hostToDevice # <<>> /\ taken' = [taken EXCEPT ![m.from] = m.n]
        /\ sent' = sent /\ done' = done
    BY <1>2 DEF RecvHostToDevice, readVars
  <2>2. m.from \in Reader /\ m.n = taken[m.from] + 1 /\ taken[m.from] < sent[m.from]
    BY <2>1, TakenNext
  <2> QED BY <2>1, <2>2 DEF Stream!Next, Stream!Consume
<1>3. CASE Cancel
  BY <1>3 DEF Cancel, Stream!Next, Stream!Stop, readVars, consVars
<1>4. CASE UNCHANGED <<sent, taken, done>>
  BY <1>4
<1> QED
  BY <1>1, <1>2, <1>3, <1>4
  DEF Next, Read, ReadCheck, ReadReport, ReadEmpty, ReadError, SendCancelled, Consume,
      RecvCancelled, Forward, ForwardFails, CloseFiles, Finished, vars, readVars, consVars

(* What the host writes to a hidg or FFS file reaches the consumer in      *)
(* order, each report once, for every number of files and every capacity   *)
(* of the channel, whether or not a consumer is there: the reports that    *)
(* startGadgetIO puts into HostToDevice implement ReportStream.            *)
THEOREM StreamCorrect == Spec => StreamSafe
<1>1. Init => Stream!Init
  BY DEF Init, Stream!Init
<1>2. StreamInv /\ [Next]_vars => [Stream!Next]_<<sent, taken, done>>
  BY StreamStep
<1> QED
  BY <1>1, <1>2, InitStream, StepInv, PTL DEF Spec, StreamSafe, Stream!Spec, Stream!streamVars
=============================================================================
