------------------------------- MODULE IpcRecv -------------------------------
(***************************************************************************)
(* Bidirectional IPC, load --recv. Per socket, a serve goroutine reads     *)
(* datagrams, keeps the address of the last one and queues the payload; a  *)
(* loop takes the payloads, points the shared target at an address and     *)
(* injects the report. One goroutine echoes the output of the USB host to  *)
(* the target.                                                             *)
(*                                                                         *)
(*   datagram --> serve --> ch --> loop of startIPCBidirectional --> pipe  *)
(*                  |                |                                     *)
(*               lastAddr ------> ipcTarget <-- startIPCEcho <-- USB host  *)
(*                                                                         *)
(* Datagrams are numbered in the order the sockets received them, and an   *)
(* address is abstracted to the number of the datagram that brought it: 0  *)
(* is the nil address. No two datagrams are from the same program.         *)
(***************************************************************************)
EXTENDS Integers, Sequences

CONSTANTS
  Listener,    \* the sockets (--uds, --udp)
  Anonymous,   \* those that also hear programs without an address: UDS
  ChanSize,    \* capacity of a socket's channel (16 in the program)
  OutSize,     \* capacity of Pipe.HostToDevice (64 in the program)
  MaxPackets,  \* bound: datagrams received
  MaxOutputs   \* bound: outputs of the host

ASSUME IpcRecvAssumption ==
  /\ Anonymous \subseteq Listener
  /\ ChanSize \in Nat \ {0}
  /\ OutSize \in Nat \ {0}
  /\ MaxPackets \in Nat
  /\ MaxOutputs \in Nat

VARIABLES
  clock,     \* datagrams received so far
  done,      \* pipeCtx is cancelled
  sockOpen,  \* the socket has not been closed
  servePc,   \* where the serve goroutine of a socket is
  held,      \* the datagram (at most one) serve has read and not queued
  lastAddr,  \* lastAddr of the socket
  ch,        \* the channel of the socket
  chClosed,  \* serve has closed it
  loopPc,    \* where the loop over the channel is
  cur,       \* the datagram (at most one) the loop has taken
  seen,      \* what the loop's LastAddr() returned
  target,    \* the address in ipcTarget
  nameless,  \* history: the sockets that heard a program without an address
  outputs,   \* messages in HostToDevice
  produced,  \* history: outputs of the host so far
  echoPc     \* where the echo goroutine is; at "sending" it holds ipcTarget.mu

serveVars == <<clock, servePc, held, lastAddr, nameless>>
chanVars  == <<ch, chClosed>>
loopVars  == <<loopPc, cur, seen>>
echoVars  == <<outputs, produced, echoPc>>
ctxVars   == <<done, sockOpen>>
vars == <<serveVars, chanVars, loopVars, target, echoVars, ctxVars>>

(* A datagram: from is its number, or 0 if its sender has no address; ok   *)
(* says that it parses and is for an interface of ifaceMap.                *)
Packet == [from : 0..MaxPackets, ok : BOOLEAN]

Init ==
  /\ clock = 0
  /\ servePc = [l \in Listener |-> "read"]
  /\ held = [l \in Listener |-> {}]
  /\ lastAddr = [l \in Listener |-> 0]
  /\ ch = [l \in Listener |-> <<>>]
  /\ chClosed = [l \in Listener |-> FALSE]
  /\ loopPc = [l \in Listener |-> "recv"]
  /\ cur = [l \in Listener |-> {}]
  /\ seen = [l \in Listener |-> 0]
  /\ target = 0
  /\ nameless = {}
  /\ outputs = 0
  /\ produced = 0
  /\ echoPc = "recv"
  /\ done = FALSE
  /\ sockOpen = [l \in Listener |-> TRUE]

-----------------------------------------------------------------------------
(* Fault: serve records the address only after it has queued the payload.  *)
ServeReadLate(l) ==
  /\ servePc[l] = "read"
  /\ sockOpen[l]
  /\ clock < MaxPackets
  /\ clock' = clock + 1
  /\ \E ok \in BOOLEAN :
       held' = [held EXCEPT ![l] = {[from |-> clock + 1, ok |-> ok]}]
  /\ servePc' = [servePc EXCEPT ![l] = "put"]
  /\ lastAddr' = [lastAddr EXCEPT ![l] = clock]
  /\ UNCHANGED <<nameless, chanVars, loopVars, target, echoVars, ctxVars>>

(* serve: ReadFromUnix or ReadFromUDP, and the critical section that stores *)
(* the address. Only that section touches what others see, so the datagram *)
(* counts as received when it is stored. An unbound UDS program has no     *)
(* address: ReadFromUnix returns nil, which replaces the one kept before.  *)
ServeRead(l) ==
  /\ servePc[l] = "read"
  /\ sockOpen[l]
  /\ clock < MaxPackets
  /\ clock' = clock + 1
  /\ \E ok \in BOOLEAN, from \in {clock + 1} \cup (IF l \in Anonymous THEN {0} ELSE {}) :
       /\ held' = [held EXCEPT ![l] = {[from |-> from, ok |-> ok]}]
       /\ lastAddr' = [lastAddr EXCEPT ![l] = from]
       /\ nameless' = IF from = 0 THEN nameless \cup {l} ELSE nameless
  /\ servePc' = [servePc EXCEPT ![l] = "put"]
  /\ UNCHANGED <<chanVars, loopVars, target, echoVars, ctxVars>>

(* Fault: the payloads are queued without bound.                           *)
ServePutUnbounded(l) ==
  /\ servePc[l] = "put"
  /\ \E p \in held[l] : ch' = [ch EXCEPT ![l] = Append(@, p)]
  /\ held' = [held EXCEPT ![l] = {}]
  /\ servePc' = [servePc EXCEPT ![l] = "read"]
  /\ UNCHANGED <<clock, lastAddr, nameless, chClosed, loopVars, target, echoVars, ctxVars>>

(* serve: u.ch <- pkt, which waits for room and heeds no context.          *)
ServePut(l) ==
  /\ servePc[l] = "put"
  /\ Len(ch[l]) < ChanSize
  /\ \E p \in held[l] : ch' = [ch EXCEPT ![l] = Append(@, p)]
  /\ held' = [held EXCEPT ![l] = {}]
  /\ servePc' = [servePc EXCEPT ![l] = "read"]
  /\ UNCHANGED <<clock, lastAddr, nameless, chClosed, loopVars, target, echoVars, ctxVars>>

(* serve: the first failed read, certain once the socket is closed, closes *)
(* the channel and ends the goroutine.                                     *)
ServeError(l) ==
  /\ servePc[l] = "read"
  /\ chClosed' = [chClosed EXCEPT ![l] = TRUE]
  /\ servePc' = [servePc EXCEPT ![l] = "stopped"]
  /\ UNCHANGED <<clock, held, lastAddr, nameless, ch, loopVars, target, echoVars, ctxVars>>

-----------------------------------------------------------------------------
(* The loop takes the next payload.                                        *)
LoopRecv(l) ==
  /\ loopPc[l] = "recv"
  /\ ch[l] # <<>>
  /\ cur' = [cur EXCEPT ![l] = {Head(ch[l])}]
  /\ ch' = [ch EXCEPT ![l] = Tail(@)]
  /\ loopPc' = [loopPc EXCEPT ![l] = "addr"]
  /\ UNCHANGED <<serveVars, chClosed, seen, target, echoVars, ctxVars>>

(* The channel is closed and empty.                                        *)
LoopClosed(l) ==
  /\ loopPc[l] = "recv"
  /\ ch[l] = <<>> /\ chClosed[l]
  /\ loopPc' = [loopPc EXCEPT ![l] = "stopped"]
  /\ UNCHANGED <<serveVars, chanVars, cur, seen, target, echoVars, ctxVars>>

(* c.LastAddr(), a critical section of its own.                            *)
LastAddr(l) ==
  /\ loopPc[l] = "addr"
  /\ seen' = [seen EXCEPT ![l] = lastAddr[l]]
  /\ loopPc' = [loopPc EXCEPT ![l] = "update"]
  /\ UNCHANGED <<serveVars, chanVars, cur, target, echoVars, ctxVars>>

(* Fault: target.update is called with a nil address too.                  *)
UpdateUnchecked(l) == target' = seen[l] /\ echoPc # "sending"
(* Fault: the first program that ever sent something keeps the target.     *)
UpdateOnce(l) ==
  IF seen[l] # 0 /\ target = 0 THEN target' = seen[l] ELSE UNCHANGED target

(* target.update for an address that is not nil, in ipcTarget's own        *)
(* critical section.                                                       *)
Update(l) ==
  IF seen[l] # 0 THEN echoPc # "sending" /\ target' = seen[l] ELSE UNCHANGED target

(* Fault: a payload that is rejected ends the loop.                        *)
HandleOrQuit(l) ==
  /\ loopPc[l] = "update"
  /\ Update(l)
  /\ \E p \in cur[l] :
       loopPc' = [loopPc EXCEPT ![l] = IF p.ok THEN "send" ELSE "stopped"]
  /\ cur' = [cur EXCEPT ![l] = {}]
  /\ UNCHANGED <<serveVars, chanVars, seen, echoVars, ctxVars>>

(* The target is updated, then the payload parsed: a report for a mapped   *)
(* interface is sent to the pipe, anything else logged and forgotten.      *)
Handle(l) ==
  /\ loopPc[l] = "update"
  /\ Update(l)
  /\ \E p \in cur[l] :
       loopPc' = [loopPc EXCEPT ![l] = IF p.ok THEN "send" ELSE "recv"]
  /\ cur' = [cur EXCEPT ![l] = {}]
  /\ UNCHANGED <<serveVars, chanVars, seen, echoVars, ctxVars>>

(* SendDeviceToHost: the writer of module InPath makes room.               *)
PipeSend(l) ==
  /\ loopPc[l] = "send"
  /\ loopPc' = [loopPc EXCEPT ![l] = "recv"]
  /\ UNCHANGED <<serveVars, chanVars, cur, seen, target, echoVars, ctxVars>>

(* SendDeviceToHost: the context is cancelled.                             *)
PipeSendCancelled(l) ==
  /\ loopPc[l] = "send"
  /\ done
  /\ loopPc' = [loopPc EXCEPT ![l] = "stopped"]
  /\ UNCHANGED <<serveVars, chanVars, cur, seen, target, echoVars, ctxVars>>

-----------------------------------------------------------------------------
(* The host writes to a hidg; readHIDDevice puts it into HostToDevice.     *)
HostOutput ==
  /\ produced < MaxOutputs
  /\ outputs < OutSize
  /\ outputs' = outputs + 1
  /\ produced' = produced + 1
  /\ UNCHANGED <<serveVars, chanVars, loopVars, target, echoPc, ctxVars>>

EchoRecv ==
  /\ echoPc = "recv"
  /\ outputs > 0
  /\ outputs' = outputs - 1
  /\ echoPc' = "send"
  /\ UNCHANGED <<serveVars, chanVars, loopVars, target, produced, ctxVars>>

(* Fault: a receive that does not heed the context.                        *)
EchoNeverCancelled == FALSE /\ UNCHANGED vars

EchoCancelled ==
  /\ echoPc = "recv"
  /\ done
  /\ echoPc' = "stopped"
  /\ UNCHANGED <<serveVars, chanVars, loopVars, target, outputs, produced, ctxVars>>

(* target.send locks the target. Without one the output is dropped.        *)
EchoSend ==
  /\ echoPc = "send"
  /\ echoPc' = IF target = 0 THEN "recv" ELSE "sending"
  /\ UNCHANGED <<serveVars, chanVars, loopVars, target, outputs, produced, ctxVars>>

(* WriteTo returns, and with it target.send. On a UDS it waits, with the   *)
(* target locked, while the receiver's queue is full.                      *)
EchoSent ==
  /\ echoPc = "sending"
  /\ echoPc' = "recv"
  /\ UNCHANGED <<serveVars, chanVars, loopVars, target, outputs, produced, ctxVars>>

-----------------------------------------------------------------------------
(* The goroutine that waits for ctx.Done() and closes the socket.          *)
CloseSocket(l) ==
  /\ done
  /\ sockOpen[l]
  /\ sockOpen' = [sockOpen EXCEPT ![l] = FALSE]
  /\ UNCHANGED <<serveVars, chanVars, loopVars, target, echoVars, done>>

Cancel ==
  /\ ~done
  /\ done' = TRUE
  /\ UNCHANGED <<serveVars, chanVars, loopVars, target, echoVars, sockOpen>>

LoopsStopped == echoPc = "stopped" /\ \A l \in Listener : loopPc[l] = "stopped"

(* serve itself may be left waiting for room that no loop will make.       *)
Finished ==
  /\ LoopsStopped
  /\ \A l \in Listener : ~sockOpen[l]
  /\ \A l \in Listener : servePc[l] = "stopped" \/ (servePc[l] = "put" /\ Len(ch[l]) = ChanSize)
  /\ UNCHANGED vars

Receive(l) == ServeRead(l) \/ ServePut(l) \/ ServeError(l)
Forward(l) ==
  \/ LoopRecv(l) \/ LoopClosed(l) \/ LastAddr(l) \/ Handle(l)
  \/ PipeSend(l) \/ PipeSendCancelled(l)
Echo == EchoRecv \/ EchoCancelled \/ EchoSend \/ EchoSent

Next ==
  \/ \E l \in Listener : Receive(l) \/ Forward(l) \/ CloseSocket(l)
  \/ HostOutput
  \/ Echo
  \/ Cancel
  \/ Finished

Spec == Init /\ [][Next]_vars

-----------------------------------------------------------------------------
(* A goroutine that can run does, and a closed socket fails the calls      *)
(* blocked on it.                                                          *)
CodeFairness ==
  /\ \A l \in Listener :
       /\ WF_vars(ServePut(l))
       /\ WF_vars(~sockOpen[l] /\ ServeError(l))
       /\ WF_vars(CloseSocket(l))
       /\ WF_vars(LoopRecv(l) \/ LoopClosed(l))
       /\ WF_vars(LastAddr(l))
       /\ SF_vars(Handle(l))
       /\ WF_vars(PipeSendCancelled(l))
  /\ WF_vars(EchoRecv \/ EchoCancelled)
  /\ WF_vars(EchoSend)
  /\ WF_vars((\A l \in Listener : ~sockOpen[l]) /\ EchoSent)

(* While the gadget runs, the writer drains the pipe and the program at    *)
(* the target reads what it is sent.                                       *)
OthersRead ==
  /\ \A l \in Listener : WF_vars(~done /\ PipeSend(l))
  /\ WF_vars(~done /\ EchoSent)

FairSpec == Spec /\ CodeFairness
BusySpec == FairSpec /\ OthersRead

-----------------------------------------------------------------------------
(* Types, with the bounds of the channels.                                 *)
TypeOK ==
  /\ clock \in 0..MaxPackets
  /\ servePc \in [Listener -> {"read", "put", "stopped"}]
  /\ held \in [Listener -> SUBSET Packet]
  /\ lastAddr \in [Listener -> 0..MaxPackets]
  /\ ch \in [Listener -> Seq(Packet)]
  /\ \A l \in Listener : Len(ch[l]) <= ChanSize
  /\ chClosed \in [Listener -> BOOLEAN]
  /\ loopPc \in [Listener -> {"recv", "addr", "update", "send", "stopped"}]
  /\ cur \in [Listener -> SUBSET Packet]
  /\ seen \in [Listener -> 0..MaxPackets]
  /\ target \in 0..MaxPackets
  /\ nameless \subseteq Anonymous
  /\ outputs \in 0..OutSize /\ produced \in 0..MaxOutputs
  /\ echoPc \in {"recv", "send", "sending", "stopped"}
  /\ done \in BOOLEAN
  /\ sockOpen \in [Listener -> BOOLEAN]

(* One socket: once output goes to a program it never goes back to one     *)
(* heard earlier, nor to none, although the address is read after the      *)
(* payload was queued and apart from it.                                   *)
TargetNeverRegresses == [][target' >= target]_vars

(* On a socket whose senders all have addresses: when a loop has dealt with *)
(* a datagram, output goes to its sender or to a later one, although the   *)
(* address was stored apart from it and read apart from it.                *)
AimedAtSender ==
  [][\A l \in Listener :
       (loopPc[l] = "update" /\ loopPc'[l] # "update" /\ l \notin nameless) =>
         \A p \in cur[l] : target' >= p.from]_vars

(* README: the target is the source of the most recent data. Once all that *)
(* was received has been dealt with, whichever socket it came through,     *)
(* output goes to the sender of the last datagram, all having addresses.   *)
Quiet == \A l \in Listener : servePc[l] # "put" /\ ch[l] = <<>> /\ loopPc[l] = "recv"
MostRecent == (Quiet /\ nameless = {}) => target = clock

(* While the gadget runs, serve is never stuck: the echo that holds the    *)
(* target during WriteTo, a full pipe and rejected payloads delay a socket *)
(* but do not wedge it.                                                    *)
KeepsReceiving == \A l \in Listener : servePc[l] = "put" ~> (done \/ servePc[l] # "put")

(* After cancellation the loops and the echo return, wherever they wait,   *)
(* also when no program reads what the echo sends it.                      *)
ShutdownStops == done ~> LoopsStopped
=============================================================================
