---------------------------- MODULE IpcRecvProofs ----------------------------
(***************************************************************************)
(* What bidirectional IPC guarantees for every capacity of the channels,   *)
(* and for any number of sockets or, where that is said, for one.          *)
(***************************************************************************)
EXTENDS IpcRecv, SequenceTheorems, TLAPS

LEMMA Numbers ==
  /\ MaxPackets \in Nat /\ MaxOutputs \in Nat
  /\ ChanSize \in Nat \ {0} /\ OutSize \in Nat \ {0}
  /\ Anonymous \subseteq Listener
  BY IpcRecvAssumption DEF IpcRecvAssumption

LEMMA PacketType == \A p \in Packet : p.from \in 0..MaxPackets /\ p.from \in Nat /\ p.ok \in BOOLEAN
  BY Numbers DEF Packet

-----------------------------------------------------------------------------
LEMMA InitType == Init => TypeOK
<1> SUFFICES ASSUME Init PROVE TypeOK
  OBVIOUS
<1>1. /\ 0 \in 0..MaxPackets /\ 0 \in 0..OutSize /\ 0 \in 0..MaxOutputs /\ 0 <= ChanSize
      /\ <<>> \in Seq(Packet) /\ Len(<<>>) = 0
  BY Numbers
<1> QED BY <1>1 DEF Init, TypeOK

LEMMA ServeReadType == ASSUME TypeOK, NEW l \in Listener, ServeRead(l) PROVE TypeOK'
<1>1. PICK ok \in BOOLEAN, from \in {clock + 1} \cup (IF l \in Anonymous THEN {0} ELSE {}) :
        /\ held' = [held EXCEPT ![l] = {[from |-> from, ok |-> ok]}]
        /\ lastAddr' = [lastAddr EXCEPT ![l] = from]
        /\ nameless' = IF from = 0 THEN nameless \cup {l} ELSE nameless
  BY DEF ServeRead
<1>2. clock + 1 \in 0..MaxPackets /\ clock' = clock + 1 /\ clock + 1 # 0
  BY Numbers DEF ServeRead, TypeOK
<1>3. from \in 0..MaxPackets /\ (from = 0 => l \in Anonymous)
  BY <1>1, <1>2, Numbers
<1>4. [from |-> from, ok |-> ok] \in Packet
  BY <1>3 DEF Packet
<1>5. nameless' \subseteq Anonymous
  BY <1>1, <1>3 DEF TypeOK
<1>6. held' \in [Listener -> SUBSET Packet] /\ lastAddr' \in [Listener -> 0..MaxPackets]
  BY <1>1, <1>3, <1>4 DEF TypeOK
<1>7. servePc' \in [Listener -> {"read", "put", "stopped"}]
  BY DEF TypeOK, ServeRead
<1>8. UNCHANGED <<chanVars, loopVars, target, echoVars, ctxVars>>
  BY DEF ServeRead
<1> QED BY <1>2, <1>5, <1>6, <1>7, <1>8 DEF TypeOK, chanVars, loopVars, echoVars, ctxVars

LEMMA ServePutType == ASSUME TypeOK, NEW l \in Listener, ServePut(l) PROVE TypeOK'
<1>1. PICK p \in held[l] : ch' = [ch EXCEPT ![l] = Append(@, p)]
  BY DEF ServePut
<1>2. p \in Packet /\ ch[l] \in Seq(Packet) /\ Len(ch[l]) < ChanSize
  BY <1>1 DEF ServePut, TypeOK
<1>3. Append(ch[l], p) \in Seq(Packet) /\ Len(Append(ch[l], p)) <= ChanSize
  BY <1>2, Numbers
<1>4. ch' \in [Listener -> Seq(Packet)] /\ \A k \in Listener : Len(ch'[k]) <= ChanSize
  BY <1>1, <1>3 DEF TypeOK
<1> QED BY <1>4 DEF TypeOK, ServePut, loopVars, echoVars, ctxVars

LEMMA LoopRecvType == ASSUME TypeOK, NEW l \in Listener, LoopRecv(l) PROVE TypeOK'
<1>1. ch[l] \in Seq(Packet) /\ ch[l] # <<>> /\ Len(ch[l]) <= ChanSize
  BY DEF LoopRecv, TypeOK
<1>2. Head(ch[l]) \in Packet /\ Tail(ch[l]) \in Seq(Packet) /\ Len(Tail(ch[l])) <= ChanSize
  BY <1>1, Numbers
<1>3. ch' = [ch EXCEPT ![l] = Tail(@)] /\ cur' = [cur EXCEPT ![l] = {Head(ch[l])}]
  BY DEF LoopRecv
<1>4. ch' \in [Listener -> Seq(Packet)] /\ \A k \in Listener : Len(ch'[k]) <= ChanSize
  BY <1>2, <1>3 DEF TypeOK
<1>5. cur' \in [Listener -> SUBSET Packet]
  BY <1>2, <1>3 DEF TypeOK
<1> QED BY <1>4, <1>5 DEF TypeOK, LoopRecv, serveVars, echoVars, ctxVars

LEMMA HandleType == ASSUME TypeOK, NEW l \in Listener, Handle(l) PROVE TypeOK'
<1>1. target' \in 0..MaxPackets
  BY DEF TypeOK, Handle, Update
<1>2. PICK p \in cur[l] : loopPc' = [loopPc EXCEPT ![l] = IF p.ok THEN "send" ELSE "recv"]
  BY DEF Handle
<1>3. loopPc' \in [Listener -> {"recv", "addr", "update", "send", "stopped"}]
  BY <1>2 DEF TypeOK
<1> QED BY <1>1, <1>3 DEF TypeOK, Handle, serveVars, chanVars, echoVars, ctxVars

(* Every step of the program keeps the types: the bound of a channel is    *)
(* the guard of ServePut, that of the output channel its room.             *)
LEMMA StepType == TypeOK /\ [Next]_vars => TypeOK'
<1> SUFFICES ASSUME TypeOK, [Next]_vars PROVE TypeOK'
  OBVIOUS
<1> USE DEF serveVars, chanVars, loopVars, echoVars, ctxVars
<1>1. ASSUME NEW l \in Listener, Receive(l) PROVE TypeOK'
  <2>1. CASE ServeError(l)
    BY <2>1 DEF TypeOK, ServeError
  <2> QED BY <1>1, <2>1, ServeReadType, ServePutType DEF Receive
<1>2. ASSUME NEW l \in Listener, Forward(l) PROVE TypeOK'
  <2>1. CASE LoopClosed(l)
    BY <2>1 DEF TypeOK, LoopClosed
  <2>2. CASE LastAddr(l)
    BY <2>2 DEF TypeOK, LastAddr
  <2>3. CASE PipeSend(l) \/ PipeSendCancelled(l)
    BY <2>3 DEF TypeOK, PipeSend, PipeSendCancelled
  <2> QED BY <1>2, <2>1, <2>2, <2>3, LoopRecvType, HandleType DEF Forward
<1>3. ASSUME NEW l \in Listener, CloseSocket(l) PROVE TypeOK'
  BY <1>3 DEF TypeOK, CloseSocket
<1>4. CASE HostOutput
  BY <1>4, Numbers DEF TypeOK, HostOutput
<1>5. CASE Echo
  <2>1. CASE EchoRecv
    BY <2>1, Numbers DEF TypeOK, EchoRecv
  <2>2. CASE EchoCancelled \/ EchoSend \/ EchoSent
    BY <2>2 DEF TypeOK, EchoCancelled, EchoSend, EchoSent
  <2> QED BY <1>5, <2>1, <2>2 DEF Echo
<1>6. CASE Cancel
  BY <1>6 DEF TypeOK, Cancel
<1>7. CASE UNCHANGED vars
  BY <1>7 DEF TypeOK, vars
<1> QED BY <1>1, <1>2, <1>3, <1>4, <1>5, <1>6, <1>7 DEF Next, Finished

(* The types hold of every reachable state.                                *)
THEOREM TypeCorrect == Spec => []TypeOK
  BY InitType, StepType, PTL DEF Spec

-----------------------------------------------------------------------------
(* The strengthening of AimedAtSender: on a socket whose senders all have  *)
(* addresses, the address kept is no older than any datagram on its way to *)
(* the loop, nor is the one the loop has read older than its datagram.     *)
Aim(l) ==
  l \notin nameless =>
    /\ \A p \in held[l] \cup cur[l] : p.from <= lastAddr[l]
    /\ \A k \in 1..Len(ch[l]) : ch[l][k].from <= lastAddr[l]
    /\ loopPc[l] = "update" => \A p \in cur[l] : p.from <= seen[l]

AimInv == TypeOK /\ \A l \in Listener : lastAddr[l] <= clock /\ Aim(l)

LEMMA InitAim == Init => AimInv
<1> SUFFICES ASSUME Init PROVE AimInv
  OBVIOUS
<1>1. TypeOK
  BY InitType
<1>2. ASSUME NEW l \in Listener PROVE lastAddr[l] <= clock /\ Aim(l)
  BY DEF Init, Aim
<1> QED BY <1>1, <1>2 DEF AimInv

(* What a step leaves alone of a socket.                                   *)
Same(l) ==
  /\ lastAddr'[l] = lastAddr[l] /\ held'[l] = held[l] /\ ch'[l] = ch[l]
  /\ cur'[l] = cur[l] /\ seen'[l] = seen[l]
  /\ loopPc'[l] = loopPc[l]
  /\ l \in nameless => l \in nameless'

LEMMA SameAim ==
  ASSUME AimInv, NEW l \in Listener, Same(l), clock' \in Nat, clock <= clock'
  PROVE  lastAddr'[l] <= clock' /\ Aim(l)'
<1>1. lastAddr[l] \in Nat /\ clock \in Nat /\ lastAddr[l] <= clock /\ Aim(l)
  BY Numbers DEF AimInv, TypeOK
<1> QED BY <1>1 DEF Same, Aim

LEMMA ServeReadAim ==
  ASSUME AimInv, NEW l \in Listener, ServeRead(l)
  PROVE  /\ lastAddr'[l] <= clock' /\ Aim(l)'
         /\ \A k \in Listener \ {l} : Same(k)
<1>1. PICK ok \in BOOLEAN, from \in {clock + 1} \cup (IF l \in Anonymous THEN {0} ELSE {}) :
        /\ held' = [held EXCEPT ![l] = {[from |-> from, ok |-> ok]}]
        /\ lastAddr' = [lastAddr EXCEPT ![l] = from]
        /\ nameless' = IF from = 0 THEN nameless \cup {l} ELSE nameless
  BY DEF ServeRead
<1>2. /\ clock' = clock + 1 /\ UNCHANGED <<ch, cur, seen, loopPc>>
      /\ clock \in Nat /\ lastAddr[l] \in Nat /\ lastAddr[l] <= clock
      /\ held \in [Listener -> SUBSET Packet] /\ lastAddr \in [Listener -> 0..MaxPackets]
      /\ ch[l] \in Seq(Packet) /\ cur[l] \in SUBSET Packet
  BY Numbers DEF AimInv, TypeOK, ServeRead, chanVars, loopVars
<1>3. held'[l] = {[from |-> from, ok |-> ok]} /\ lastAddr'[l] = from
  BY <1>1, <1>2
<1>4. from = clock + 1 \/ from = 0
  BY <1>1
<1>5. \A k \in Listener \ {l} : Same(k)
  BY <1>1, <1>2 DEF Same
<1>a. lastAddr'[l] <= clock'
  BY <1>2, <1>3, <1>4
<1>6. ASSUME from = 0 PROVE Aim(l)'
  BY <1>1, <1>2, <1>3, <1>6 DEF Aim
<1>7. ASSUME from = clock + 1 PROVE Aim(l)'
  <2>1. SUFFICES ASSUME l \notin nameless' PROVE Aim(l)'
    BY DEF Aim
  <2>2. l \notin nameless
    BY <1>1, <2>1
  <2>3. \A p \in cur[l] : p.from <= lastAddr[l] /\ p.from \in Nat
    BY <1>2, <2>2, PacketType DEF AimInv, Aim
  <2>4. \A k \in 1..Len(ch[l]) : ch[l][k].from <= lastAddr[l] /\ ch[l][k].from \in Nat
    <3>1. \A k \in 1..Len(ch[l]) : ch[l][k] \in Packet
      BY <1>2
    <3> QED BY <2>2, <3>1, PacketType DEF AimInv, Aim
  <2>5. loopPc[l] = "update" => \A p \in cur[l] : p.from <= seen[l]
    BY <2>2 DEF AimInv, Aim
  <2>6. \A p \in held'[l] \cup cur'[l] : p.from <= lastAddr'[l]
    BY <1>2, <1>3, <1>7, <2>3
  <2>7. \A k \in 1..Len(ch'[l]) : ch'[l][k].from <= lastAddr'[l]
    BY <1>2, <1>3, <1>7, <2>4
  <2> QED BY <1>2, <2>5, <2>6, <2>7 DEF Aim
<1> QED BY <1>4, <1>5, <1>6, <1>7, <1>a

LEMMA ServePutAim ==
  ASSUME AimInv, NEW l \in Listener, ServePut(l)
  PROVE  /\ Aim(l)'
         /\ \A k \in Listener \ {l} : Same(k)
<1>1. PICK p \in held[l] : ch' = [ch EXCEPT ![l] = Append(@, p)]
  BY DEF ServePut
<1>2. /\ held' = [held EXCEPT ![l] = {}]
      /\ UNCHANGED <<clock, lastAddr, nameless, cur, seen, loopPc>>
      /\ held \in [Listener -> SUBSET Packet] /\ ch \in [Listener -> Seq(Packet)]
      /\ p \in Packet
  BY <1>1 DEF AimInv, TypeOK, ServePut, loopVars
<1>3. \A k \in Listener \ {l} : Same(k)
  BY <1>1, <1>2 DEF Same
<1>4. /\ Len(ch'[l]) = Len(ch[l]) + 1
      /\ \A k \in 1..Len(ch[l]) : ch'[l][k] = ch[l][k]
      /\ ch'[l][Len(ch[l]) + 1] = p
      /\ Len(ch[l]) \in Nat
  BY <1>1, <1>2
<1>5. Aim(l)'
  <2> SUFFICES ASSUME l \notin nameless PROVE Aim(l)'
    BY <1>2 DEF Aim
  <2>1. \A k \in 1..Len(ch'[l]) : ch'[l][k].from <= lastAddr[l]
    <3> SUFFICES ASSUME NEW k \in 1..Len(ch'[l]) PROVE ch'[l][k].from <= lastAddr[l]
      OBVIOUS
    <3>1. CASE k = Len(ch[l]) + 1
      BY <1>1, <1>4, <3>1 DEF AimInv, Aim
    <3>2. CASE k \in 1..Len(ch[l])
      BY <1>4, <3>2 DEF AimInv, Aim
    <3> QED BY <1>4, <3>1, <3>2
  <2> QED BY <1>2, <2>1 DEF AimInv, Aim
<1> QED BY <1>3, <1>5

LEMMA LoopRecvAim ==
  ASSUME AimInv, NEW l \in Listener, LoopRecv(l)
  PROVE  /\ Aim(l)'
         /\ \A k \in Listener \ {l} : Same(k)
<1>1. /\ ch[l] # <<>> /\ ch' = [ch EXCEPT ![l] = Tail(@)]
      /\ cur' = [cur EXCEPT ![l] = {Head(ch[l])}]
      /\ loopPc' = [loopPc EXCEPT ![l] = "addr"]
      /\ UNCHANGED <<clock, lastAddr, held, nameless, seen>>
      /\ ch \in [Listener -> Seq(Packet)] /\ cur \in [Listener -> SUBSET Packet]
      /\ loopPc \in [Listener -> {"recv", "addr", "update", "send", "stopped"}]
  BY DEF AimInv, TypeOK, LoopRecv, serveVars
<1>2. \A k \in Listener \ {l} : Same(k)
  BY <1>1 DEF Same
<1>3. /\ cur'[l] = {Head(ch[l])} /\ ch'[l] = Tail(ch[l]) /\ loopPc'[l] = "addr"
      /\ ch[l] \in Seq(Packet)
  BY <1>1
<1>4. /\ Len(ch[l]) \in Nat \ {0} /\ Head(ch[l]) = ch[l][1] /\ 1 \in 1..Len(ch[l])
      /\ \A k \in 1..Len(Tail(ch[l])) : k + 1 \in 1..Len(ch[l]) /\ Tail(ch[l])[k] = ch[l][k + 1]
  BY <1>1, <1>3
<1>5. Aim(l)'
  BY <1>1, <1>3, <1>4 DEF AimInv, Aim
<1> QED BY <1>2, <1>5

LEMMA LastAddrAim ==
  ASSUME AimInv, NEW l \in Listener, LastAddr(l)
  PROVE  /\ Aim(l)'
         /\ \A k \in Listener \ {l} : Same(k)
<1>1. /\ seen' = [seen EXCEPT ![l] = lastAddr[l]]
      /\ loopPc' = [loopPc EXCEPT ![l] = "update"]
      /\ UNCHANGED <<clock, lastAddr, held, nameless, ch, cur>>
      /\ seen \in [Listener -> 0..MaxPackets]
      /\ loopPc \in [Listener -> {"recv", "addr", "update", "send", "stopped"}]
  BY DEF AimInv, TypeOK, LastAddr, serveVars, chanVars
<1> QED BY <1>1 DEF AimInv, Aim, Same

(* The loop moves to a point where it has no datagram in need of an address. *)
LEMMA LoopMovesAim ==
  ASSUME AimInv, NEW l \in Listener, LoopClosed(l) \/ Handle(l) \/ PipeSend(l) \/ PipeSendCancelled(l)
  PROVE  /\ Aim(l)'
         /\ \A k \in Listener \ {l} : Same(k)
<1>1. /\ UNCHANGED <<clock, lastAddr, held, nameless, ch, seen>>
      /\ \E t \in {"recv", "send", "stopped"} : loopPc' = [loopPc EXCEPT ![l] = t]
      /\ UNCHANGED cur \/ cur' = [cur EXCEPT ![l] = {}]
      /\ cur \in [Listener -> SUBSET Packet]
      /\ loopPc \in [Listener -> {"recv", "addr", "update", "send", "stopped"}]
  BY DEF AimInv, TypeOK, LoopClosed, Handle, PipeSend, PipeSendCancelled, serveVars, chanVars
<1>2. loopPc'[l] # "update" /\ (cur'[l] = cur[l] \/ cur'[l] = {})
  BY <1>1
<1>3. \A k \in Listener \ {l} : Same(k)
  BY <1>1 DEF Same
<1>4. Aim(l)'
  BY <1>1, <1>2 DEF AimInv, Aim
<1> QED BY <1>3, <1>4

LEMMA StepAim == AimInv /\ [Next]_vars => AimInv'
<1> SUFFICES ASSUME AimInv, [Next]_vars PROVE AimInv'
  OBVIOUS
<1>1. TypeOK' /\ clock \in Nat /\ clock' \in Nat
  BY StepType, Numbers DEF AimInv, TypeOK
(* A step of one socket that does not touch the address kept.              *)
<1>2. ASSUME NEW l \in Listener, Aim(l)', \A k \in Listener \ {l} : Same(k),
             UNCHANGED <<clock, lastAddr>>
      PROVE  AimInv'
  BY <1>1, <1>2, SameAim DEF AimInv
<1>3. ASSUME NEW l \in Listener, ServeRead(l) PROVE AimInv'
  <2>1. clock <= clock'
    BY <1>1, <1>3 DEF ServeRead
  <2> QED BY <1>1, <1>3, <2>1, ServeReadAim, SameAim DEF AimInv
<1>4. ASSUME NEW l \in Listener, ServePut(l) PROVE AimInv'
  BY <1>2, <1>4, ServePutAim DEF ServePut
<1>5. ASSUME NEW l \in Listener, Forward(l) PROVE AimInv'
  BY <1>2, <1>5, LoopRecvAim, LastAddrAim, LoopMovesAim
  DEF Forward, LoopRecv, LoopClosed, LastAddr, Handle, PipeSend, PipeSendCancelled, serveVars
<1>6. CASE UNCHANGED <<clock, lastAddr, held, nameless, ch, cur, seen, loopPc>>
  BY <1>1, <1>6, SameAim DEF AimInv, Same
<1> QED
  BY <1>3, <1>4, <1>5, <1>6
  DEF Next, Receive, ServeError, CloseSocket, HostOutput, Echo, EchoRecv, EchoCancelled, EchoSend,
      EchoSent, Cancel, Finished, vars, serveVars, chanVars, loopVars

LEMMA AimStep ==
  ASSUME AimInv, [Next]_vars, NEW l \in Listener,
         loopPc[l] = "update", loopPc'[l] # "update", l \notin nameless, NEW p \in cur[l]
  PROVE  target' >= p.from
<1>1. Handle(l)
  <2>1. loopPc' # loopPc /\ loopPc \in [Listener -> {"recv", "addr", "update", "send", "stopped"}]
    BY DEF AimInv, TypeOK
  <2>2. PICK k \in Listener : Forward(k)
    BY <2>1 DEF Next, Receive, ServeRead, ServePut, ServeError, CloseSocket, HostOutput, Echo,
                EchoRecv, EchoCancelled, EchoSend, EchoSent, Cancel, Finished, vars, loopVars
  <2>3. k = l
    BY <2>1, <2>2 DEF Forward, LoopRecv, LoopClosed, LastAddr, Handle, PipeSend, PipeSendCancelled
  <2> QED BY <2>2, <2>3 DEF Forward, LoopRecv, LoopClosed, LastAddr, PipeSend, PipeSendCancelled
<1>2. p.from <= seen[l] /\ p.from \in Nat /\ seen[l] \in Nat /\ target \in Nat
  BY PacketType, Numbers DEF AimInv, Aim, TypeOK
<1> QED BY <1>1, <1>2 DEF Handle, Update

(* When a loop of startIPCBidirectional has dealt with a datagram, output  *)
(* goes to its sender or to a later one, for any number of sockets and     *)
(* every capacity of their channels, on each socket that heard nobody      *)
(* without an address.                                                     *)
THEOREM AimedCorrect == Spec => AimedAtSender
<1>1. AimInv /\ [Next]_vars =>
        [\A l \in Listener :
           (loopPc[l] = "update" /\ loopPc'[l] # "update" /\ l \notin nameless) =>
             \A p \in cur[l] : target' >= p.from]_vars
  BY AimStep
<1> QED BY <1>1, InitAim, StepAim, PTL DEF Spec, AimedAtSender

-----------------------------------------------------------------------------
(* One socket. The strengthening of TargetNeverRegresses: of the addresses *)
(* kept, read and aimed at, each is nil or no older than the next.         *)
Monotone(l) ==
  /\ target <= clock /\ lastAddr[l] <= clock /\ seen[l] <= clock
  /\ lastAddr[l] = 0 \/ (target <= lastAddr[l] /\ seen[l] <= lastAddr[l])
  /\ seen[l] = 0 \/ target <= seen[l]

(* The strengthening of MostRecent: while the target is not at the sender  *)
(* of the last datagram, a datagram or its address is on its way.          *)
Pending(l) ==
  \/ target = clock
  \/ servePc[l] = "put"
  \/ ch[l] # <<>>
  \/ loopPc[l] \in {"addr", "stopped"}
  \/ loopPc[l] = "update" /\ seen[l] = clock

OneInv(l) ==
  /\ TypeOK
  /\ Monotone(l)
  /\ nameless = {} => lastAddr[l] = clock /\ Pending(l)

LEMMA InitOne == ASSUME NEW l, Listener = {l}, Init PROVE OneInv(l)
<1>1. TypeOK
  BY InitType
<1>2. Monotone(l) /\ lastAddr[l] = clock /\ Pending(l)
  BY DEF Init, Monotone, Pending
<1> QED BY <1>1, <1>2 DEF OneInv

LEMMA OneNumbers ==
  ASSUME NEW l, Listener = {l}, TypeOK
  PROVE  clock \in Nat /\ target \in Nat /\ lastAddr[l] \in Nat /\ seen[l] \in Nat
  BY Numbers DEF TypeOK

(* Of the parts of OneInv, those that the types leave to prove of a step.  *)
OneRest(l) == Monotone(l) /\ (nameless = {} => lastAddr[l] = clock /\ Pending(l))

LEMMA ServeReadOne ==
  ASSUME NEW l, Listener = {l}, OneInv(l), ServeRead(l)
  PROVE  OneRest(l)' /\ target' = target
<1>1. PICK from \in {clock + 1} \cup (IF l \in Anonymous THEN {0} ELSE {}) :
        /\ lastAddr' = [lastAddr EXCEPT ![l] = from]
        /\ nameless' = IF from = 0 THEN nameless \cup {l} ELSE nameless
  BY DEF ServeRead
<1>2. /\ clock' = clock + 1 /\ target' = target /\ seen' = seen
      /\ servePc' = [servePc EXCEPT ![l] = "put"]
      /\ l \in DOMAIN lastAddr /\ l \in DOMAIN servePc
  BY DEF OneInv, TypeOK, ServeRead, loopVars
<1>3. lastAddr'[l] = from /\ servePc'[l] = "put" /\ (from = 0 \/ from = clock + 1)
  BY <1>1, <1>2
<1>4. clock \in Nat /\ target \in Nat /\ lastAddr[l] \in Nat /\ seen[l] \in Nat
  BY OneNumbers DEF OneInv
<1>5. Monotone(l)'
  BY <1>2, <1>3, <1>4 DEF OneInv, Monotone
<1>6. nameless' = {} => lastAddr'[l] = clock'
  BY <1>1, <1>2, <1>3
<1>7. Pending(l)'
  BY <1>3 DEF Pending
<1> QED BY <1>2, <1>5, <1>6, <1>7 DEF OneRest

LEMMA HandleOne ==
  ASSUME NEW l, Listener = {l}, OneInv(l), Handle(l)
  PROVE  OneRest(l)' /\ target' >= target
<1>1. /\ loopPc[l] = "update"
      /\ IF seen[l] # 0 THEN target' = seen[l] ELSE target' = target
      /\ UNCHANGED <<clock, servePc, lastAddr, nameless, ch, seen>>
  BY DEF Handle, Update, serveVars, chanVars
<1>2. clock \in Nat /\ target \in Nat /\ lastAddr[l] \in Nat /\ seen[l] \in Nat
  BY OneNumbers DEF OneInv
<1>3. target' >= target
  BY <1>1, <1>2 DEF OneInv, Monotone
<1>4. Monotone(l)'
  BY <1>1, <1>2 DEF OneInv, Monotone
<1>5. ASSUME nameless' = {} PROVE lastAddr'[l] = clock' /\ Pending(l)'
  <2>1. lastAddr[l] = clock /\ Pending(l)
    BY <1>1, <1>5 DEF OneInv
  <2>2. CASE target = clock
    BY <1>1, <1>2, <2>1, <2>2 DEF OneInv, Monotone, Pending
  <2>3. CASE seen[l] = clock
    BY <1>1, <1>2, <2>1, <2>3 DEF OneInv, Monotone, Pending
  <2>4. CASE servePc[l] = "put" \/ ch[l] # <<>>
    BY <1>1, <2>1, <2>4 DEF Pending
  <2> QED BY <1>1, <2>1, <2>2, <2>3, <2>4 DEF Pending
<1> QED BY <1>3, <1>4, <1>5 DEF OneRest

LEMMA LoopOne ==
  ASSUME NEW l, Listener = {l}, OneInv(l),
         LoopRecv(l) \/ LoopClosed(l) \/ LastAddr(l) \/ PipeSend(l) \/ PipeSendCancelled(l)
  PROVE  OneRest(l)' /\ target' = target
<1>1. clock \in Nat /\ target \in Nat /\ lastAddr[l] \in Nat /\ seen[l] \in Nat
  BY OneNumbers DEF OneInv
<1>2. /\ UNCHANGED <<clock, servePc, lastAddr, nameless, target>>
      /\ l \in DOMAIN loopPc /\ l \in DOMAIN seen
  BY DEF OneInv, TypeOK, LoopRecv, LoopClosed, LastAddr, PipeSend, PipeSendCancelled, serveVars
<1>3. CASE LoopRecv(l) \/ LoopClosed(l)
  <2>1. loopPc'[l] \in {"addr", "stopped"} /\ seen' = seen
    BY <1>2, <1>3 DEF LoopRecv, LoopClosed
  <2> QED BY <1>2, <2>1 DEF OneInv, OneRest, Monotone, Pending
<1>4. CASE LastAddr(l)
  <2>1. loopPc'[l] = "update" /\ seen'[l] = lastAddr[l]
    BY <1>2, <1>4 DEF LastAddr
  <2>2. Monotone(l)'
    BY <1>1, <1>2, <2>1 DEF OneInv, Monotone
  <2> QED BY <1>2, <2>1, <2>2 DEF OneInv, OneRest, Pending
<1>5. CASE PipeSend(l) \/ PipeSendCancelled(l)
  <2>1. loopPc[l] = "send" /\ UNCHANGED <<ch, seen>>
    BY <1>5 DEF PipeSend, PipeSendCancelled, chanVars
  <2> QED BY <1>2, <2>1 DEF OneInv, OneRest, Monotone, Pending
<1> QED BY <1>3, <1>4, <1>5

(* Every step of the program with one socket, and what it does to target.  *)
LEMMA StepOne ==
  ASSUME NEW l, Listener = {l}, OneInv(l), [Next]_vars
  PROVE  OneInv(l)' /\ target' >= target
<1>0. TypeOK' /\ target \in Nat
  BY StepType, OneNumbers DEF OneInv
<1>1. SUFFICES OneRest(l)' /\ target' >= target
  BY <1>0 DEF OneInv, OneRest
<1>2. CASE ServeRead(l)
  BY <1>0, <1>2, ServeReadOne
<1>3. CASE ServePut(l)
  <2>1. PICK p \in held[l] : ch' = [ch EXCEPT ![l] = Append(@, p)]
    BY <1>3 DEF ServePut
  <2>2. ch'[l] # <<>>
    <3>1. ch \in [Listener -> Seq(Packet)] /\ p \in Packet
      BY <2>1 DEF OneInv, TypeOK
    <3>2. ch'[l] = Append(ch[l], p) /\ ch[l] \in Seq(Packet)
      BY <2>1, <3>1
    <3>3. Len(ch'[l]) = Len(ch[l]) + 1 /\ Len(ch[l]) \in Nat
      BY <3>1, <3>2
    <3> QED BY <3>3
  <2>3. UNCHANGED <<clock, lastAddr, nameless, target, seen>>
    BY <1>3 DEF ServePut, loopVars
  <2> QED BY <1>0, <2>2, <2>3 DEF OneInv, OneRest, Monotone, Pending
<1>4. CASE ServeError(l)
  <2>1. servePc[l] # "put" /\ UNCHANGED <<clock, lastAddr, nameless, ch, loopPc, target, seen>>
    BY <1>4 DEF ServeError, loopVars
  <2> QED BY <1>0, <2>1 DEF OneInv, OneRest, Monotone, Pending
<1>5. CASE Handle(l)
  BY <1>5, HandleOne
<1>6. CASE LoopRecv(l) \/ LoopClosed(l) \/ LastAddr(l) \/ PipeSend(l) \/ PipeSendCancelled(l)
  BY <1>0, <1>6, LoopOne
<1>7. CASE UNCHANGED <<clock, servePc, lastAddr, nameless, ch, loopPc, target, seen>>
  BY <1>0, <1>7 DEF OneInv, OneRest, Monotone, Pending
<1> QED
  BY <1>2, <1>3, <1>4, <1>5, <1>6, <1>7
  DEF Next, Receive, Forward, CloseSocket, HostOutput, Echo, EchoRecv, EchoCancelled, EchoSend,
      EchoSent, Cancel, Finished, vars, serveVars, chanVars, loopVars

(* README: the target is the source of the most recent data. With one      *)
(* socket, and senders that all have addresses, it is: for every capacity  *)
(* of the channel, once the loop has dealt with all that serve received.   *)
THEOREM RecentCorrect ==
  ASSUME NEW CONSTANT l, Listener = {l}
  PROVE  Spec => []MostRecent
<1>1. Init => OneInv(l)
  BY InitOne
<1>2. OneInv(l) /\ [Next]_vars => OneInv(l)'
  BY StepOne
<1>3. OneInv(l) => MostRecent
  BY DEF OneInv, Pending, MostRecent, Quiet
<1> QED BY <1>1, <1>2, <1>3, PTL DEF Spec

(* With one socket, output that once went to a program never again goes to *)
(* one heard earlier, nor to none when a program without an address came   *)
(* between.                                                                *)
THEOREM RegressCorrect ==
  ASSUME NEW CONSTANT l, Listener = {l}
  PROVE  Spec => TargetNeverRegresses
<1>1. Init => OneInv(l)
  BY InitOne
<1>2. OneInv(l) /\ [Next]_vars => OneInv(l)' /\ [target' >= target]_vars
  BY StepOne
<1> QED BY <1>1, <1>2, PTL DEF Spec, TargetNeverRegresses
=============================================================================
