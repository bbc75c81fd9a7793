--------------------------- MODULE PassthroughProofs ---------------------------
(***************************************************************************)
(* What the two programs of Passthrough guarantee for every number of      *)
(* endpoints and every capacity of the queues, with no fairness assumed.   *)
(***************************************************************************)
EXTENDS PassthroughStreamProofs

-----------------------------------------------------------------------------
(* The strengthening of RefusalEndsOne: there is a number of goroutines,   *)
(* and no answer ever comes over a UDS, nor a new listener once load has   *)
(* closed its socket.                                                      *)
RefusalInv ==
  /\ IsFiniteSet(ended)
  /\ refusals \in Nat
  /\ refused \in BOOLEAN
  /\ l \in DOMAIN sockOpen
  /\ proto # "udp" => (~refused /\ LoadRuns)
  /\ RefusalEndsOne

LEMMA OneMore ==
  ASSUME NEW S, NEW x, IsFiniteSet(S)
  PROVE  /\ Cardinality(S) \in Nat /\ Cardinality(S \cup {x}) \in Nat
         /\ IsFiniteSet(S \cup {x})
         /\ Cardinality(S \cup {x}) <= Cardinality(S) + 1
<1>1. Cardinality(S) \in Nat
  BY FS_CardinalityType
<1>2. /\ IsFiniteSet(S \cup {x})
      /\ Cardinality(S \cup {x}) = IF x \in S THEN Cardinality(S) ELSE Cardinality(S) + 1
  BY FS_AddElement
<1> QED BY <1>1, <1>2

(* A step that answers no call with a refusal.                             *)
LEMMA NoRefusal ==
  ASSUME RefusalInv, UNCHANGED <<refused, refusals, ended, proto, peer, sockOpen>>
  PROVE  RefusalInv'
  BY DEF RefusalInv, RefusalEndsOne, LoadRuns

(* A step in which a call meets the pending answer and ends its goroutine. *)
LEMMA AnswerUsed ==
  ASSUME RefusalInv, refused, refused' = FALSE, UNCHANGED <<refusals, proto>>,
         Cardinality(ended) \in Nat, Cardinality(ended') \in Nat,
         Cardinality(ended') <= Cardinality(ended) + 1
  PROVE  RefusalEndsOne'
<1>0. proto = "udp" /\ proto' = "udp"
  BY DEF RefusalInv
<1>1. (IF refused THEN 1 ELSE 0) = 1 /\ (IF refused' THEN 1 ELSE 0) = 0
  OBVIOUS
<1>2. Cardinality(ended) + 1 <= refusals /\ refusals' = refusals /\ refusals \in Nat
  BY <1>0, <1>1 DEF RefusalInv, RefusalEndsOne
<1>3. Cardinality(ended') + 0 <= refusals'
  BY <1>2
<1> QED BY <1>0, <1>1, <1>3 DEF RefusalEndsOne

LEMMA WriteRefusedStep ==
  ASSUME RefusalInv, NEW e \in Endpoint, WriteRefused(e), UNCHANGED loadVars
  PROVE  RefusalInv'
<1>1. /\ IsFiniteSet(ended') /\ Cardinality(ended) \in Nat /\ Cardinality(ended') \in Nat
      /\ Cardinality(ended') <= Cardinality(ended) + 1
  BY OneMore DEF RefusalInv, WriteRefused
<1>2. /\ refused' = FALSE /\ ended' = ended \cup {e}
      /\ UNCHANGED <<refusals, proto, peer, sockOpen>>
      /\ refused \/ (proto = "uds" /\ ~peer)
  BY DEF WriteRefused, mainVars, loadVars
<1>3. RefusalEndsOne'
  <2>1. CASE refused
    BY <1>1, <1>2, <2>1, AnswerUsed
  <2>2. CASE ~refused
    <3>1. proto # "udp" /\ ~peer /\ "recvAndWrite" \notin ended
      BY <1>2, <2>2 DEF RefusalInv, RefusalEndsOne
    <3>2. "recvAndWrite" # e
      BY SendAssumption DEF SendAssumption
    <3> QED BY <1>2, <3>1, <3>2 DEF RefusalEndsOne
  <2> QED BY <2>1, <2>2
<1> QED BY <1>1, <1>2, <1>3 DEF RefusalInv, LoadRuns

LEMMA RecvRefusedStep ==
  ASSUME RefusalInv, RecvRefused, UNCHANGED loadVars
  PROVE  RefusalInv'
<1>1. /\ IsFiniteSet(ended') /\ Cardinality(ended) \in Nat /\ Cardinality(ended') \in Nat
      /\ Cardinality(ended') <= Cardinality(ended) + 1
  BY OneMore DEF RefusalInv, RecvRefused
<1>2. refused /\ refused' = FALSE /\ UNCHANGED <<refusals, proto, peer, sockOpen>>
  BY DEF RecvRefused, mainVars, loadVars
<1>3. RefusalEndsOne'
  BY <1>1, <1>2, AnswerUsed
<1> QED BY <1>1, <1>2, <1>3 DEF RefusalInv, LoadRuns

LEMMA UnreachableRefusal ==
  ASSUME RefusalInv, Unreachable
  PROVE  RefusalInv'
<1>1. Cardinality(ended) \in Nat
  BY FS_CardinalityType DEF RefusalInv
<1>2. /\ ended' = ended /\ refusals' = refusals + 1
      /\ refused' = (refused \/ ConnOpen)
      /\ proto = "udp" /\ UNCHANGED <<proto, sockOpen>>
  BY DEF Unreachable, mainVars, loadVars
<1>3. refused' \in BOOLEAN
  BY <1>2 DEF RefusalInv, ConnOpen
<1> QED BY <1>1, <1>2, <1>3 DEF RefusalInv, RefusalEndsOne

LEMMA SendStepRefusal ==
  ASSUME RefusalInv, SendStep, UNCHANGED loadVars
  PROVE  RefusalInv'
<1>1. ASSUME NEW e \in Endpoint, WriteRefused(e) PROVE RefusalInv'
  BY <1>1, WriteRefusedStep
<1>2. CASE RecvRefused
  BY <1>2, RecvRefusedStep
<1>3. CASE UNCHANGED <<refused, refusals, ended, proto, peer>>
  BY <1>3, NoRefusal DEF loadVars
<1> QED
  BY <1>1, <1>2, <1>3
  DEF SendStep, pollAndSend, PollCheck, PollRead, PollTimeout, PollError, Write, WriteUds, WriteUdp,
      WriteClosed, recvAndWrite, RecvCheck, recvRead, RecvTimeout, RecvPacket, RecvClosed,
      RecvWrite, runSend, Signal, CloseConn, Exit, mainVars

(* Only a UDP target starts when send runs already.                        *)
LEMMA LoadStartsRefusal ==
  ASSUME RefusalInv, LoadStarts
  PROVE  RefusalInv'
<1>1. proto = "udp" /\ UNCHANGED <<refused, refusals, ended, proto, sockOpen>>
  BY DEF RefusalInv, LoadStarts, mainVars, loadVars
<1> QED BY <1>1 DEF RefusalInv, RefusalEndsOne

(* A UDS that load has closed is not opened again.                         *)
LEMMA LoadClosesRefusal ==
  ASSUME RefusalInv, LoadCloses
  PROVE  RefusalInv'
<1>1. /\ UNCHANGED <<refused, refusals, ended, proto>> /\ peer' = FALSE
      /\ sockOpen' = [sockOpen EXCEPT ![l] = FALSE]
  BY DEF LoadCloses, R!CloseSocket, mainVars
<1>2. l \in DOMAIN sockOpen' /\ ~sockOpen'[l]
  BY <1>1 DEF RefusalInv
<1> QED BY <1>1, <1>2 DEF RefusalInv, RefusalEndsOne, LoadRuns

LEMMA LoadStepRefusal ==
  ASSUME RefusalInv, LoadStep
  PROVE  RefusalInv'
<1>1. UNCHANGED sockOpen
  <2>1. CASE LoadHandle
    BY <2>1 DEF LoadHandle, R!Handle, R!ctxVars
  <2>2. CASE LoadAlone
    BY <2>2 DEF LoadAlone, R!ServePut, R!ServeError, R!LoopRecv, R!LoopClosed, R!LastAddr,
                R!PipeSend, R!PipeSendCancelled, R!HostOutput, R!EchoRecv, R!EchoCancelled,
                R!EchoSend, R!Cancel, R!Finished, R!ctxVars, R!vars
  <2> QED BY <2>1, <2>2 DEF LoadStep
<1> QED BY <1>1, NoRefusal DEF LoadStep, sendVars, mainVars

LEMMA StepRefusal == RefusalInv /\ [PassNext]_passVars => RefusalInv'
<1> SUFFICES ASSUME RefusalInv, [PassNext]_passVars PROVE RefusalInv'
  OBVIOUS
<1>1. CASE SendStep /\ UNCHANGED loadVars
  BY <1>1, SendStepRefusal
<1>2. CASE LoadStep
  BY <1>2, LoadStepRefusal
<1>3. CASE Unreachable
  BY <1>3, UnreachableRefusal
<1>4. CASE LoadStarts \/ LoadCloses
  BY <1>4, LoadStartsRefusal, LoadClosesRefusal
<1>5. CASE Deliver
  BY <1>5, NoRefusal DEF Deliver, R!ServeRead, R!ctxVars, mainVars
<1>6. CASE EchoWrite
  BY <1>6, NoRefusal DEF EchoWrite, R!EchoSent, R!ctxVars, mainVars
<1>7. CASE UNCHANGED passVars
  BY <1>7, NoRefusal DEF passVars, sendVars, mainVars, loadVars
<1> QED BY <1>1, <1>2, <1>3, <1>4, <1>5, <1>6, <1>7 DEF PassNext, Network

LEMMA InitRefusal == PassInit => RefusalInv
<1> SUFFICES ASSUME PassInit PROVE RefusalInv
  OBVIOUS
<1>1. ended = {} /\ refusals = 0 /\ refused = FALSE
  BY DEF PassInit, SendInit
<1>2. IsFiniteSet({}) /\ Cardinality({}) = 0
  BY FS_EmptySet
<1>3. (IF refused THEN 1 ELSE 0) = 0
  BY <1>1
<1>4. Cardinality(ended) = 0 /\ IsFiniteSet(ended)
  BY <1>1, <1>2
<1>5. RefusalEndsOne
  <2>1. Cardinality(ended) + 0 <= refusals
    BY <1>1, <1>4
  <2> QED BY <1>1, <1>3, <2>1 DEF RefusalEndsOne
<1>6. refusals \in Nat /\ refused \in BOOLEAN
  BY <1>1
<1>7. proto # "udp" => LoadRuns
  BY SendAssumption DEF SendAssumption, PassInit, SendInit, LoadRuns
<1>8. l \in DOMAIN sockOpen
  BY DEF PassInit, R!Init, Listener, l
<1> QED BY <1>1, <1>4, <1>5, <1>6, <1>7, <1>8 DEF RefusalInv

(* For any number of endpoints: over UDP every answer ends at most one     *)
(* goroutine of send, whichever calls the answers meet; over a UDS only    *)
(* pollers end, and none before load has closed its socket.                *)
THEOREM RefusalCorrect == Unfair => []RefusalEndsOne
<1>1. RefusalInv => RefusalEndsOne
  BY DEF RefusalInv
<1> QED BY <1>1, InitRefusal, StepRefusal, PTL DEF Unfair

-----------------------------------------------------------------------------
(* The packets that load sends, for any number.                            *)
Down == {buildInjectPacket(i, <<"out", n>>) : i \in HidIface, n \in Int}

(* The packets of reports that conn.Write took.                            *)
SentPkt == {p \in Pkt : num(p) <= sent[src(p)]}

(* The strengthening of PassTypeOK: besides the types, that no packet is   *)
(* under way or with load that was not sent.                               *)
TypeInv ==
  /\ PassInv
  /\ SendTypeOK
  /\ R!TypeOK
  /\ down \in Seq(Down)
  /\ up \in Seq(SentPkt) /\ heard \in Seq(SentPkt)
  /\ \A e \in Endpoint : came[e] <= sent[e]

LEMMA Sizes ==
  /\ NetSize \in Nat \ {0} /\ ChanSize \in Nat \ {0} /\ OutSize \in Nat \ {0}
  /\ MaxOutputs \in Nat /\ MaxReports \in Nat /\ MaxPackets \in Nat
<1>1. Cardinality(Endpoint) \in Nat
  BY SendAssumption, FS_CardinalityType DEF SendAssumption
<1>2. MaxReports \in Nat
  BY SendAssumption DEF SendAssumption
<1>3. MaxPackets \in Nat
  BY <1>1, <1>2 DEF MaxPackets
<1> QED BY <1>2, <1>3, SendAssumption, PassAssumption DEF SendAssumption, PassAssumption

LEMMA RemoveOne ==
  ASSUME NEW S, NEW s \in Seq(S), NEW i \in DOMAIN s
  PROVE  RemoveAt(s, i) \in Seq(S) /\ Len(RemoveAt(s, i)) <= Len(s)
<1>1. Len(s) \in Nat /\ i \in 1..Len(s)
  OBVIOUS
<1>2. /\ SubSeq(s, 1, i - 1) \in Seq(S) /\ Len(SubSeq(s, 1, i - 1)) = i - 1
      /\ SubSeq(s, i + 1, Len(s)) \in Seq(S) /\ Len(SubSeq(s, i + 1, Len(s))) = Len(s) - i
  BY <1>1
<1>3. RemoveAt(s, i) = SubSeq(s, 1, i - 1) \o SubSeq(s, i + 1, Len(s))
  BY DEF RemoveAt
<1>4. Len(RemoveAt(s, i)) = (i - 1) + (Len(s) - i)
  BY <1>2, <1>3
<1>5. Len(RemoveAt(s, i)) <= Len(s)
  BY <1>1, <1>4
<1> QED BY <1>2, <1>3, <1>5

-----------------------------------------------------------------------------
(* The steps of send.                                                      *)

LEMMA AppendUp ==
  ASSUME up \in Seq(Pkt), Len(up) < NetSize, NEW p, up' = Append(up, p)
  PROVE  Len(up') <= NetSize
  BY Sizes

LEMMA WriteTypes ==
  ASSUME SendTypeOK, up \in Seq(Pkt), NEW e \in Endpoint, WriteUds(e) \/ WriteUdp(e)
  PROVE  SendTypeOK' /\ down' = down
<1>1. /\ sent' = [sent EXCEPT ![e] = polled[e]] /\ PollGoto(e, "check")
      /\ UNCHANGED <<mainVars, polled, recvPc, down, peer, refused, refusals, ended>>
      /\ up' = up \/ (Len(up) < NetSize /\ up' = Append(up, buildInjectPacket(ifaceOf[e], report(e))))
  BY DEF WriteUds, WriteUdp
<1>2. Len(up') <= NetSize
  BY <1>1, AppendUp DEF SendTypeOK
<1>3. /\ sent' \in [Endpoint -> Nat] /\ pollPc' \in [Endpoint -> {"check", "read", "write", "stopped"}]
      /\ \A d \in Endpoint : sent'[d] <= polled[d] /\ polled[d] <= MaxReports
  BY <1>1, Sizes DEF SendTypeOK, PollGoto
<1> QED BY <1>1, <1>2, <1>3 DEF SendTypeOK, mainVars

LEMMA PollTypes ==
  ASSUME SendTypeOK, NEW e \in Endpoint, pollAndSend(e), ~WriteUds(e), ~WriteUdp(e)
  PROVE  SendTypeOK' /\ down' = down
<1>1. CASE PollRead(e)
  <2>1. polled' = [polled EXCEPT ![e] = @ + 1] /\ polled[e] < MaxReports
        /\ UNCHANGED <<mainVars, sent, recvPc, up, down, peer, refused, refusals, ended>>
    BY <1>1 DEF PollRead
  <2>2. /\ polled' \in [Endpoint -> Nat]
        /\ \A d \in Endpoint : sent[d] <= polled'[d] /\ polled'[d] <= MaxReports
    BY <2>1, Sizes DEF SendTypeOK
  <2>3. pollPc' \in [Endpoint -> {"check", "read", "write", "stopped"}]
    BY <1>1 DEF SendTypeOK, PollRead, PollGoto
  <2> QED BY <2>1, <2>2, <2>3 DEF SendTypeOK, mainVars
<1>2. CASE WriteRefused(e)
  <2>1. ended' = ended \cup {e} /\ refused' = FALSE /\ refusals' = refusals
    BY <1>2 DEF WriteRefused
  <2>2. refused' \in BOOLEAN /\ ended' \subseteq Endpoint \cup {"recvAndWrite"}
    BY <2>1 DEF SendTypeOK
  <2> QED BY <1>2, <2>1, <2>2 DEF SendTypeOK, WriteRefused, PollGoto, mainVars
<1>3. CASE PollCheck(e) \/ PollTimeout(e) \/ PollError(e) \/ WriteClosed(e)
  <2>1. pollPc' \in [Endpoint -> {"check", "read", "write", "stopped"}]
    BY <1>3 DEF SendTypeOK, PollGoto, PollCheck, PollTimeout, PollError, WriteClosed
  <2>2. UNCHANGED <<mainVars, polled, sent, recvPc, up, down, peer, refused, refusals, ended>>
    BY <1>3 DEF PollCheck, PollTimeout, PollError, WriteClosed
  <2> QED BY <2>1, <2>2 DEF SendTypeOK, mainVars
<1> QED BY <1>1, <1>2, <1>3 DEF pollAndSend, Write

LEMMA RecvTypes ==
  ASSUME SendTypeOK, down \in Seq(Down), recvAndWrite
  PROVE  SendTypeOK' /\ down' \in Seq(Down)
<1>1. ASSUME NEW i \in DOMAIN down, RecvPacket(i) PROVE SendTypeOK' /\ down' \in Seq(Down)
  <2>1. down' = RemoveAt(down, i)
    BY <1>1 DEF RecvPacket
  <2>2. down' \in Seq(Down) /\ Len(down') <= Len(down) /\ Len(down') \in Nat /\ Len(down) \in Nat
    BY <2>1, RemoveOne
  <2>3. Len(down') <= NetSize
    BY <2>2, Sizes DEF SendTypeOK
  <2>4. recvPc' \in {"check", "read", "write", "stopped"}
    BY <1>1 DEF RecvPacket
  <2>5. UNCHANGED <<mainVars, pollVars, up, peer, refused, refusals, ended>>
    BY <1>1 DEF RecvPacket
  <2> QED BY <2>2, <2>3, <2>4, <2>5 DEF SendTypeOK, mainVars, pollVars
<1>2. CASE RecvRefused
  BY <1>2 DEF SendTypeOK, RecvRefused, mainVars, pollVars
<1>3. CASE RecvCheck \/ RecvTimeout \/ RecvClosed \/ RecvWrite
  <2>1. /\ UNCHANGED <<mainVars, pollVars, up, down, peer, refused, refusals, ended>>
        /\ recvPc' \in {"check", "read", "write", "stopped"}
    BY <1>3 DEF RecvCheck, RecvTimeout, RecvClosed, RecvWrite
  <2> QED BY <2>1 DEF SendTypeOK, mainVars, pollVars
<1> QED BY <1>1, <1>2, <1>3 DEF recvAndWrite, recvRead

LEMMA MainTypes ==
  ASSUME SendTypeOK, down \in Seq(Down), runSend
  PROVE  SendTypeOK' /\ down' \in Seq(Down)
<1>1. CASE Signal
  BY <1>1 DEF SendTypeOK, Signal, pollVars
<1>2. CASE CloseConn
  <2>1. <<>> \in Seq(Down) /\ Len(<<>>) <= NetSize
    BY Sizes
  <2> QED BY <1>2, <2>1 DEF SendTypeOK, CloseConn, pollVars
<1>3. CASE Exit
  BY <1>3 DEF SendTypeOK, Exit
<1> QED BY <1>1, <1>2, <1>3 DEF runSend

-----------------------------------------------------------------------------
(* The steps of load, and of the network, in the variables of IpcRecv.     *)

LEMMA LoadPacket == \A p \in R!Packet : p.from \in 0..MaxPackets /\ p.from \in Nat /\ p.ok \in BOOLEAN
  BY Sizes DEF R!Packet

LEMMA ServeReadTypes ==
  ASSUME R!TypeOK, R!ServeRead(l)
  PROVE  R!TypeOK'
<1>1. PICK okay \in BOOLEAN, from \in {clock + 1} \cup (IF l \in {} THEN {0} ELSE {}) :
        /\ held' = [held EXCEPT ![l] = {[from |-> from, ok |-> okay]}]
        /\ lastAddr' = [lastAddr EXCEPT ![l] = from]
        /\ nameless' = IF from = 0 THEN nameless \cup {l} ELSE nameless
  BY DEF R!ServeRead
<1>2. clock + 1 \in 0..MaxPackets /\ clock' = clock + 1 /\ clock + 1 # 0
  BY Sizes DEF R!ServeRead, R!TypeOK
<1>3. from = clock + 1
  BY <1>1
<1>4. [from |-> from, ok |-> okay] \in R!Packet
  BY <1>2, <1>3 DEF R!Packet
<1>5. nameless' \subseteq {}
  BY <1>1, <1>2, <1>3 DEF R!TypeOK
<1>6. held' \in [Listener -> SUBSET R!Packet] /\ lastAddr' \in [Listener -> 0..MaxPackets]
  BY <1>1, <1>2, <1>3, <1>4 DEF R!TypeOK
<1>7. servePc' \in [Listener -> {"read", "put", "stopped"}]
  BY DEF R!TypeOK, R!ServeRead
<1>8. UNCHANGED <<R!chanVars, R!loopVars, target, R!echoVars, R!ctxVars>>
  BY DEF R!ServeRead
<1> QED BY <1>2, <1>5, <1>6, <1>7, <1>8
        DEF R!TypeOK, R!chanVars, R!loopVars, R!echoVars, R!ctxVars

LEMMA ServePutTypes ==
  ASSUME R!TypeOK, R!ServePut(l)
  PROVE  R!TypeOK'
<1>1. PICK p \in held[l] : ch' = [ch EXCEPT ![l] = Append(@, p)]
  BY DEF R!ServePut
<1>2. p \in R!Packet /\ ch[l] \in Seq(R!Packet) /\ Len(ch[l]) < ChanSize
  BY <1>1, Listening DEF R!ServePut, R!TypeOK
<1>3. Append(ch[l], p) \in Seq(R!Packet) /\ Len(Append(ch[l], p)) <= ChanSize
  BY <1>2, Sizes
<1>4. ch' \in [Listener -> Seq(R!Packet)] /\ \A k \in Listener : Len(ch'[k]) <= ChanSize
  BY <1>1, <1>3, Listening DEF R!TypeOK
<1> QED BY <1>4, Listening DEF R!TypeOK, R!ServePut, R!loopVars, R!echoVars, R!ctxVars

LEMMA LoopRecvTypes ==
  ASSUME R!TypeOK, R!LoopRecv(l)
  PROVE  R!TypeOK'
<1>1. ch[l] \in Seq(R!Packet) /\ ch[l] # <<>> /\ Len(ch[l]) <= ChanSize
  BY Listening DEF R!LoopRecv, R!TypeOK
<1>2. Head(ch[l]) \in R!Packet /\ Tail(ch[l]) \in Seq(R!Packet) /\ Len(Tail(ch[l])) <= ChanSize
  BY <1>1, Sizes
<1>3. ch' = [ch EXCEPT ![l] = Tail(@)] /\ cur' = [cur EXCEPT ![l] = {Head(ch[l])}]
  BY DEF R!LoopRecv
<1>4. ch' \in [Listener -> Seq(R!Packet)] /\ \A k \in Listener : Len(ch'[k]) <= ChanSize
  BY <1>2, <1>3, Listening DEF R!TypeOK
<1>5. cur' \in [Listener -> SUBSET R!Packet]
  BY <1>2, <1>3, Listening DEF R!TypeOK
<1> QED BY <1>4, <1>5 DEF R!TypeOK, R!LoopRecv, R!serveVars, R!echoVars, R!ctxVars

LEMMA HandleTypes ==
  ASSUME R!TypeOK, R!Handle(l)
  PROVE  R!TypeOK'
<1>1. target' \in 0..MaxPackets
  BY Listening DEF R!TypeOK, R!Handle, R!Update
<1>2. PICK p \in cur[l] : loopPc' = [loopPc EXCEPT ![l] = IF p.ok THEN "send" ELSE "recv"]
  BY DEF R!Handle
<1>3. loopPc' \in [Listener -> {"recv", "addr", "update", "send", "stopped"}]
  BY <1>2 DEF R!TypeOK
<1> QED BY <1>1, <1>3 DEF R!TypeOK, R!Handle, R!serveVars, R!chanVars, R!echoVars, R!ctxVars

LEMMA OtherLoadTypes ==
  ASSUME R!TypeOK, LoadAlone \/ R!EchoSent \/ R!CloseSocket(l)
  PROVE  R!TypeOK'
<1> USE DEF R!serveVars, R!chanVars, R!loopVars, R!echoVars, R!ctxVars
<1>1. CASE R!ServePut(l) \/ R!LoopRecv(l)
  BY <1>1, ServePutTypes, LoopRecvTypes
<1>2. CASE R!ServeError(l)
  BY <1>2 DEF R!TypeOK, R!ServeError
<1>3. CASE R!LoopClosed(l)
  BY <1>3 DEF R!TypeOK, R!LoopClosed
<1>4. CASE R!LastAddr(l)
  BY <1>4, Listening DEF R!TypeOK, R!LastAddr
<1>5. CASE R!PipeSend(l) \/ R!PipeSendCancelled(l)
  BY <1>5 DEF R!TypeOK, R!PipeSend, R!PipeSendCancelled
<1>6. CASE R!HostOutput
  BY <1>6, Sizes DEF R!TypeOK, R!HostOutput
<1>7. CASE R!EchoRecv
  BY <1>7, Sizes DEF R!TypeOK, R!EchoRecv
<1>8. CASE R!EchoCancelled \/ R!EchoSend \/ R!EchoSent
  BY <1>8 DEF R!TypeOK, R!EchoCancelled, R!EchoSend, R!EchoSent
<1>9. CASE R!CloseSocket(l)
  BY <1>9 DEF R!TypeOK, R!CloseSocket
<1>10. CASE R!Cancel
  BY <1>10 DEF R!TypeOK, R!Cancel
<1>11. CASE R!Finished
  BY <1>11 DEF R!TypeOK, R!Finished, R!vars
<1> QED BY <1>1, <1>2, <1>3, <1>4, <1>5, <1>6, <1>7, <1>8, <1>9, <1>10, <1>11 DEF LoadAlone

-----------------------------------------------------------------------------
(* The numbers of the reports.                                             *)

(* conn.Write takes reports and takes none back.                           *)
LEMMA SentGrows ==
  ASSUME sent \in Counts, sent' \in Counts, \A e \in Endpoint : sent[e] <= sent'[e],
         NEW s \in Seq(SentPkt)
  PROVE  s \in Seq(SentPkt') /\ SentPkt \subseteq SentPkt'
<1>1. ASSUME NEW p \in SentPkt PROVE p \in SentPkt'
  <2>1. p \in Pkt /\ num(p) <= sent[src(p)] /\ src(p) \in Endpoint /\ num(p) \in Nat
    BY PktType DEF SentPkt
  <2>2. sent[src(p)] <= sent'[src(p)] /\ sent[src(p)] \in Nat /\ sent'[src(p)] \in Nat
    BY <2>1 DEF Counts
  <2>3. num(p) <= sent'[src(p)]
    BY <2>1, <2>2
  <2> QED BY <2>1, <2>3 DEF SentPkt
<1>2. SentPkt \subseteq SentPkt'
  BY <1>1
<1> QED BY <1>2

NumbersOK ==
  /\ up \in Seq(SentPkt) /\ heard \in Seq(SentPkt)
  /\ \A e \in Endpoint : came[e] <= sent[e]

(* A step that takes no report of an endpoint.                             *)
LEMMA NothingSent ==
  ASSUME sent' = sent
  PROVE  SentPkt' = SentPkt
  BY DEF SentPkt

LEMMA WriteNumbers ==
  ASSUME PassInv, NumbersOK, NEW e \in Endpoint, WriteUds(e) \/ WriteUdp(e), UNCHANGED loadVars
  PROVE  NumbersOK'
<1> DEFINE p == pkt(e, sent[e] + 1)
<1>1. /\ UNCHANGED <<came, heard>> /\ report(e) = <<e, sent[e] + 1>>
      /\ sent' = [sent EXCEPT ![e] = sent[e] + 1]
  BY WritePoll
<1>2. sent \in Counts /\ came \in Counts
  BY DEF PassInv, PollInv
<1>3. sent' \in Counts /\ sent[e] + 1 \in Nat /\ sent'[e] = sent[e] + 1
  BY <1>1, <1>2 DEF Counts
<1>4. \A d \in Endpoint : sent[d] <= sent'[d]
  BY <1>1, <1>2 DEF Counts
<1>5. up \in Seq(SentPkt') /\ heard \in Seq(SentPkt')
  BY <1>2, <1>3, <1>4, SentGrows DEF NumbersOK
<1>6. p \in SentPkt'
  <2>1. p \in Pkt /\ src(p) = e /\ num(p) = sent[e] + 1
    BY <1>3, PktParts
  <2> HIDE DEF p
  <2>2. num(p) <= sent'[src(p)]
    BY <1>3, <2>1
  <2> QED BY <2>1, <2>2 DEF SentPkt
<1>7. up' = up \/ up' = Append(up, p)
  BY <1>1 DEF WriteUds, WriteUdp, pkt
<1> HIDE DEF p
<1>8. up' \in Seq(SentPkt')
  BY <1>5, <1>6, <1>7
<1>9. ASSUME NEW d \in Endpoint PROVE came'[d] <= sent'[d]
  <2>1. came[d] <= sent[d] /\ sent[d] <= sent'[d]
    BY <1>4 DEF NumbersOK
  <2>2. came[d] \in Nat /\ sent[d] \in Nat /\ sent'[d] \in Nat
    BY <1>2, <1>3 DEF Counts
  <2> QED BY <1>1, <2>1, <2>2
<1> QED BY <1>1, <1>5, <1>8, <1>9 DEF NumbersOK

LEMMA HandleNumbers ==
  ASSUME PassInv, NumbersOK, LoadHandle, UNCHANGED sendVars
  PROVE  NumbersOK'
<1> DEFINE p == heard[handled + 1]
<1>1. /\ heard' = heard /\ handled + 1 \in 1..clock /\ cur[l] = {entry(heard, handled + 1)}
  BY HandleLoadStep DEF PassInv, LoadHandle
<1>2. UNCHANGED <<sent, up>>
  BY DEF sendVars, pollVars
<1>3. p \in SentPkt
  BY <1>1 DEF NumbersOK, PassInv, LoadInv, LoadTypes
<1>4. p \in Pkt /\ num(p) <= sent[src(p)]
  BY <1>3 DEF SentPkt
<1>5. PICK q \in cur[l] :
        came' = IF q.ok THEN LET rep == parsedData(heard[q.from])
                             IN [came EXCEPT ![rep[1]] = rep[2]]
                        ELSE came
  BY DEF LoadHandle
<1>6. q.from = handled + 1
  BY <1>1, <1>5 DEF entry
<1>7. came' = came \/ came' = [came EXCEPT ![src(p)] = num(p)]
  BY <1>5, <1>6 DEF src, num
<1> HIDE DEF p
<1>8. \A e \in Endpoint : came'[e] <= sent[e]
  BY <1>4, <1>7 DEF NumbersOK, PassInv, Counts
<1>9. SentPkt' = SentPkt
  BY <1>2, NothingSent
<1> QED BY <1>1, <1>2, <1>8, <1>9 DEF NumbersOK

(* The other steps: send and the network hand packets on or lose them.     *)
LEMMA MoveNumbers ==
  ASSUME PassInv, NumbersOK, UNCHANGED <<sent, came>>,
         \/ UNCHANGED <<up, heard>>
         \/ UNCHANGED heard /\ up' = <<>>
         \/ UNCHANGED heard /\ \E i \in DOMAIN up : up' = RemoveAt(up, i)
         \/ \E i \in DOMAIN up : up' = RemoveAt(up, i) /\ heard' = Append(heard, up[i])
  PROVE  NumbersOK'
<1>1. SentPkt' = SentPkt
  BY NothingSent
<1>2. ASSUME NEW i \in DOMAIN up
      PROVE  RemoveAt(up, i) \in Seq(SentPkt) /\ Append(heard, up[i]) \in Seq(SentPkt)
  <2>1. up[i] \in SentPkt /\ heard \in Seq(SentPkt)
    BY DEF NumbersOK
  <2> QED BY <2>1, RemoveOne DEF NumbersOK
<1>3. up' \in Seq(SentPkt) /\ heard' \in Seq(SentPkt)
  <2>1. up \in Seq(SentPkt) /\ heard \in Seq(SentPkt) /\ <<>> \in Seq(SentPkt)
    BY DEF NumbersOK
  <2>2. CASE heard' = heard /\ (up' = up \/ up' = <<>>)
    BY <2>1, <2>2
  <2>3. ASSUME NEW i \in DOMAIN up, up' = RemoveAt(up, i),
               heard' = heard \/ heard' = Append(heard, up[i])
        PROVE  up' \in Seq(SentPkt) /\ heard' \in Seq(SentPkt)
    BY <1>2, <2>1, <2>3
  <2> QED BY <2>2, <2>3
<1> QED BY <1>1, <1>3 DEF NumbersOK

-----------------------------------------------------------------------------
(* All steps.                                                              *)

LEMMA SendTypes ==
  ASSUME TypeInv, SendStep, UNCHANGED loadVars
  PROVE  SendTypeOK' /\ R!TypeOK' /\ down' \in Seq(Down) /\ NumbersOK'
<1>1. R!TypeOK'
  BY DEF TypeInv, R!TypeOK, loadVars
<1>2. SendTypeOK' /\ down' \in Seq(Down)
  <2>1. ASSUME NEW e \in Endpoint, pollAndSend(e) PROVE SendTypeOK' /\ down' = down
    BY <2>1, WriteTypes, PollTypes DEF TypeInv, PassInv
  <2> QED BY <2>1, RecvTypes, MainTypes DEF TypeInv, SendStep
<1>3. NumbersOK'
  <2>1. NumbersOK
    BY DEF TypeInv, NumbersOK
  <2>2. CASE \E e \in Endpoint : WriteUds(e) \/ WriteUdp(e)
    BY <2>1, <2>2, WriteNumbers DEF TypeInv
  <2>3. CASE ~\E e \in Endpoint : WriteUds(e) \/ WriteUdp(e)
    <3>1. UNCHANGED <<sent, came, up, heard>>
      BY <2>3 DEF loadVars, SendStep, pollAndSend, Write, recvAndWrite, recvRead, runSend, PollCheck,
         PollRead, PollTimeout, PollError, WriteRefused, WriteClosed, RecvCheck, RecvTimeout,
         RecvRefused, RecvClosed, RecvPacket, RecvWrite, Signal, CloseConn, Exit, mainVars, pollVars
    <3> QED BY <2>1, <3>1, MoveNumbers DEF TypeInv
  <2> QED BY <2>2, <2>3
<1> QED BY <1>1, <1>2, <1>3

LEMMA LoadTypesStep ==
  ASSUME TypeInv, LoadStep
  PROVE  SendTypeOK' /\ R!TypeOK' /\ down' \in Seq(Down) /\ NumbersOK'
<1>1. SendTypeOK' /\ down' \in Seq(Down)
  BY DEF TypeInv, SendTypeOK, LoadStep, sendVars, mainVars, pollVars
<1>2. R!TypeOK'
  BY HandleTypes, OtherLoadTypes DEF TypeInv, LoadStep, LoadHandle
<1>3. NumbersOK'
  <2>1. NumbersOK
    BY DEF TypeInv, NumbersOK
  <2>2. CASE LoadHandle
    BY <2>1, <2>2, HandleNumbers DEF TypeInv, LoadStep
  <2>3. CASE LoadAlone
    BY <2>1, <2>3, MoveNumbers DEF TypeInv, LoadAlone, LoadStep, sendVars, pollVars
  <2> QED BY <2>2, <2>3 DEF LoadStep
<1> QED BY <1>1, <1>2, <1>3

LEMMA NetworkTypes ==
  ASSUME TypeInv, Network
  PROVE  SendTypeOK' /\ R!TypeOK' /\ down' \in Seq(Down) /\ NumbersOK'
<1>0. NumbersOK /\ Len(up) \in Nat /\ up \in Seq(Pkt)
  BY DEF TypeInv, NumbersOK, PassInv
<1>1. CASE LoadStarts
  <2>1. SendTypeOK' /\ R!TypeOK' /\ down' \in Seq(Down)
    BY <1>1 DEF TypeInv, LoadStarts, SendTypeOK, R!TypeOK, loadVars, mainVars, pollVars
  <2>2. UNCHANGED <<sent, came, up, heard>>
    BY <1>1 DEF LoadStarts, loadVars, pollVars
  <2> QED BY <1>0, <2>1, <2>2, MoveNumbers DEF TypeInv
<1>2. CASE Unreachable
  <2>1. PICK i \in DOMAIN up : up' = RemoveAt(up, i)
    BY <1>2 DEF Unreachable
  <2>2. Len(up') <= NetSize
    <3>1. Len(up') <= Len(up) /\ Len(up') \in Nat
      BY <1>0, <2>1, RemoveOne
    <3> QED BY <1>0, <3>1, Sizes DEF TypeInv, SendTypeOK
  <2>3. refused' \in BOOLEAN
    BY <1>2 DEF Unreachable, ConnOpen, TypeInv, SendTypeOK
  <2>4. refusals' \in Nat
    BY <1>2 DEF Unreachable, TypeInv, SendTypeOK
  <2>5. UNCHANGED <<mainVars, pollVars, recvPc, down, peer, ended, loadVars>>
    BY <1>2 DEF Unreachable
  <2>6. SendTypeOK' /\ down' \in Seq(Down)
    BY <2>2, <2>3, <2>4, <2>5 DEF TypeInv, SendTypeOK, mainVars, pollVars
  <2>7. R!TypeOK'
    BY <2>5 DEF TypeInv, R!TypeOK, loadVars
  <2>8. NumbersOK'
    BY <1>0, <2>1, <2>5, MoveNumbers DEF TypeInv, pollVars, loadVars
  <2> QED BY <2>6, <2>7, <2>8
<1>3. CASE Deliver
  <2>1. PICK i \in DOMAIN up :
          up' = RemoveAt(up, i) /\ heard' = Append(heard, up[i]) /\ R!ServeRead(l)
    BY <1>3 DEF Deliver
  <2>2. Len(up') <= NetSize
    <3>1. Len(up') <= Len(up) /\ Len(up') \in Nat
      BY <1>0, <2>1, RemoveOne
    <3> QED BY <1>0, <3>1, Sizes DEF TypeInv, SendTypeOK
  <2>3. UNCHANGED <<mainVars, pollVars, recvPc, down, peer, refused, refusals, ended, came>>
    BY <1>3 DEF Deliver
  <2>4. SendTypeOK' /\ down' \in Seq(Down)
    BY <2>2, <2>3 DEF TypeInv, SendTypeOK, mainVars, pollVars
  <2>5. R!TypeOK'
    BY <2>1, ServeReadTypes DEF TypeInv
  <2>6. NumbersOK'
    BY <1>0, <2>1, <2>3, MoveNumbers DEF TypeInv, pollVars
  <2> QED BY <2>4, <2>5, <2>6
<1>4. CASE LoadCloses
  <2>1. up' = <<>> \/ up' = up
    BY <1>4 DEF LoadCloses
  <2>2. UNCHANGED <<mainVars, pollVars, recvPc, down, refused, refusals, ended, heard, came>>
        /\ peer' = FALSE /\ R!CloseSocket(l)
    BY <1>4 DEF LoadCloses
  <2>3. Len(up') <= NetSize
    BY <2>1, Sizes DEF TypeInv, SendTypeOK
  <2>4. SendTypeOK' /\ down' \in Seq(Down)
    BY <2>2, <2>3 DEF TypeInv, SendTypeOK, mainVars, pollVars
  <2>5. R!TypeOK'
    BY <2>2, OtherLoadTypes DEF TypeInv
  <2>6. NumbersOK'
    BY <1>0, <2>1, <2>2, MoveNumbers DEF TypeInv, pollVars
  <2> QED BY <2>4, <2>5, <2>6
<1>5. CASE EchoWrite
  <2>1. UNCHANGED <<mainVars, pollVars, recvPc, up, peer, refused, refusals, ended, heard, came>>
        /\ R!EchoSent
    BY <1>5 DEF EchoWrite
  <2>2. down' \in Seq(Down) /\ Len(down') <= NetSize
    <3>1. CASE UNCHANGED down
      BY <3>1 DEF TypeInv, SendTypeOK
    <3>2. ASSUME NEW i \in HidIface, Len(down) < NetSize,
                 down' = Append(down, buildInjectPacket(i, <<"out", produced - outputs>>))
          PROVE  down' \in Seq(Down) /\ Len(down') <= NetSize
      <4>1. produced - outputs \in Int
        BY DEF TypeInv, R!TypeOK
      <4>2. PICK d \in Down : d = buildInjectPacket(i, <<"out", produced - outputs>>)
        BY <4>1 DEF Down
      <4>3. down \in Seq(Down)
        BY DEF TypeInv
      <4> QED BY <3>2, <4>2, <4>3, Sizes
    <3> QED BY <1>5, <3>1, <3>2 DEF EchoWrite
  <2>3. SendTypeOK'
    BY <2>1, <2>2 DEF TypeInv, SendTypeOK, mainVars, pollVars
  <2>4. R!TypeOK'
    BY <2>1, OtherLoadTypes DEF TypeInv
  <2>5. NumbersOK'
    BY <1>0, <2>1, MoveNumbers DEF TypeInv, pollVars
  <2> QED BY <2>2, <2>3, <2>4, <2>5
<1> QED BY <1>1, <1>2, <1>3, <1>4, <1>5 DEF Network

LEMMA StepTypes == TypeInv /\ [PassNext]_passVars => TypeInv'
<1> SUFFICES ASSUME TypeInv, [PassNext]_passVars PROVE TypeInv'
  OBVIOUS
<1>1. PassInv'
  BY PassStep DEF TypeInv
<1>2. SendTypeOK' /\ R!TypeOK' /\ down' \in Seq(Down) /\ NumbersOK'
  <2>1. CASE UNCHANGED passVars
    <3>1. SendTypeOK' /\ R!TypeOK' /\ down' \in Seq(Down)
      BY <2>1 DEF TypeInv, SendTypeOK, R!TypeOK, passVars, loadVars, sendVars, mainVars, pollVars
    <3>2. UNCHANGED <<sent, came, up, heard>>
      BY <2>1 DEF passVars, loadVars, sendVars, pollVars
    <3> QED BY <3>1, <3>2, MoveNumbers DEF TypeInv, NumbersOK
  <2> QED BY <2>1, SendTypes, LoadTypesStep, NetworkTypes DEF PassNext
<1> QED BY <1>1, <1>2 DEF TypeInv, NumbersOK

LEMMA InitTypes == PassInit => TypeInv
<1> SUFFICES ASSUME PassInit PROVE TypeInv
  OBVIOUS
<1>1. PassInv
  BY PassStarts
<1>2. SendTypeOK
  <2>1. up = <<>> /\ down = <<>> /\ Len(<<>>) <= NetSize
    BY Sizes DEF PassInit, SendInit
  <2>2. peer \in BOOLEAN
    BY DEF PassInit, SendInit
  <2>3. \A e \in Endpoint : sent[e] <= polled[e] /\ polled[e] <= MaxReports
    BY Sizes DEF PassInit, SendInit
  <2> QED BY <2>1, <2>2, <2>3 DEF PassInit, SendInit, SendTypeOK
<1>3. R!TypeOK
  <2>1. /\ 0 \in 0..MaxPackets /\ 0 \in 0..OutSize /\ 0 \in 0..MaxOutputs /\ 0 <= ChanSize
        /\ <<>> \in Seq(R!Packet) /\ Len(<<>>) = 0
    BY Sizes
  <2> QED BY <2>1 DEF PassInit, R!Init, R!TypeOK
<1>4. down \in Seq(Down) /\ up \in Seq(SentPkt) /\ heard \in Seq(SentPkt)
  BY DEF PassInit, SendInit
<1>5. \A e \in Endpoint : came[e] <= sent[e]
  BY DEF PassInit, SendInit
<1> QED BY <1>1, <1>2, <1>3, <1>4, <1>5 DEF TypeInv

(* The types of the two programs hold together, for every number of        *)
(* endpoints, every capacity of the queues and either protocol; load knows *)
(* a number for each packet it received, and no report arrives that        *)
(* conn.Write did not take.                                                *)
THEOREM PassTypeCorrect == Unfair => []PassTypeOK
<1>1. ASSUME TypeInv PROVE PassTypeOK
  <2>1. SendTypeOK /\ R!TypeOK /\ Len(heard) = clock
    BY <1>1 DEF TypeInv, PassInv, LoadInv, LoadTypes
  <2>2. ASSUME NEW e \in Endpoint PROVE came[e] \in 0..sent[e]
    <3>1. came[e] \in Nat /\ sent[e] \in Nat /\ came[e] <= sent[e]
      BY <1>1 DEF TypeInv, PassInv, PollInv, Counts
    <3> QED BY <3>1
  <2> QED BY <2>1, <2>2 DEF PassTypeOK
<1> QED BY <1>1, InitTypes, StepTypes, PTL DEF Unfair
=============================================================================
