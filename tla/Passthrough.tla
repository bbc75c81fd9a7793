----------------------------- MODULE Passthrough -----------------------------
(***************************************************************************)
(* Two programs and the network between them: send, next to the device,    *)
(* and load --recv, next to the USB host.                                  *)
(*                                                                         *)
(*   device --> pollAndSend --> up --> serve --> loop --> pipe --> host    *)
(*   device <-- recvAndWrite <-- down <-- startIPCEcho <-- pipe <-- host   *)
(*                                                                         *)
(* SendMode has the steps of send, IpcRecv those of load. This module says *)
(* which of them happen together, what the network does to the packets, and *)
(* that load listens from its start until it is cancelled. send gives its  *)
(* UDS a name, so load hears nobody without an address.                    *)
(***************************************************************************)
EXTENDS SendMode

CONSTANTS
  HidIface,    \* keys of load's ifaceMap
  ChanSize,    \* capacity of the socket's channel (16 in the program)
  OutSize,     \* capacity of Pipe.HostToDevice (64 in the program)
  MaxOutputs   \* bound: outputs of the host

ASSUME PassAssumption ==
  /\ HidIface \subseteq 0..255 /\ HidIface # {}
  /\ ChanSize \in Nat \ {0}
  /\ OutSize \in Nat \ {0}
  /\ MaxOutputs \in Nat

VARIABLES
  clock, done, sockOpen, servePc, held, lastAddr, ch, chClosed, loopPc, cur, seen,
  target, nameless, outputs, produced, echoPc,  \* as in IpcRecv
  heard,  \* history: the packets that load received
  came    \* history: number of the last report of an endpoint that load handed on

Listener == {"listener"}
l == "listener"

(* The network duplicates nothing, so these are all that can arrive.       *)
MaxPackets == MaxReports * Cardinality(Endpoint)

R == INSTANCE IpcRecv WITH Anonymous <- {}

loadVars == <<clock, done, sockOpen, servePc, held, lastAddr, ch, chClosed, loopPc, cur,
              seen, target, nameless, outputs, produced, echoPc, heard, came>>
passVars == <<sendVars, loadVars>>

LoadRuns == peer \/ ~sockOpen[l]

PassInit ==
  /\ SendInit
  /\ R!Init
  /\ heard = <<>>
  /\ came = [e \in Endpoint |-> 0]

-----------------------------------------------------------------------------
(* The network                                                             *)

(* A UDP target may come up when send has been running for a while.        *)
LoadStarts ==
  /\ ~LoadRuns
  /\ peer' = TRUE
  /\ UNCHANGED <<mainVars, pollVars, recvPc, up, down, refused, refusals, ended, loadVars>>

(* Nobody listens, and the target's host answers so. The error is kept for  *)
(* the next call on send's socket; a second one does not add to it.        *)
Unreachable ==
  /\ proto = "udp" /\ ~peer
  /\ \E i \in DOMAIN up : up' = RemoveAt(up, i)
  /\ refused' = (refused \/ ConnOpen)
  /\ refusals' = refusals + 1
  /\ UNCHANGED <<mainVars, pollVars, recvPc, down, peer, ended, loadVars>>

(* load's serve receives a packet: UDS in order, UDP in any.               *)
Deliver ==
  /\ peer
  /\ \E i \in DOMAIN up :
       /\ proto = "uds" => i = 1
       /\ up' = RemoveAt(up, i)
       /\ heard' = Append(heard, up[i])
       /\ R!ServeRead(l)
       /\ \A p \in held'[l] : p.ok = (Parses(up[i]) /\ parsedIface(up[i]) \in HidIface)
  /\ UNCHANGED <<mainVars, pollVars, recvPc, down, peer, refused, refusals, ended, came>>

(* load closes its socket, and packets in the queue of a UDS go with it.   *)
LoadCloses ==
  /\ LoadRuns
  /\ R!CloseSocket(l)
  /\ peer' = FALSE
  /\ up' = IF proto = "uds" THEN <<>> ELSE up
  /\ UNCHANGED <<mainVars, pollVars, recvPc, down, refused, refusals, ended, heard, came>>

(* target.send: WriteTo waits for room in send's UDS; it fails when send's  *)
(* socket or load's own is closed; over UDP the packet is under way or lost. *)
EchoWrite ==
  /\ R!EchoSent
  /\ \/ /\ peer /\ ConnOpen /\ Len(down) < NetSize
        /\ \E i \in HidIface :
             down' = Append(down, buildInjectPacket(i, <<"out", produced - outputs>>))
     \/ (proto = "udp" \/ ~peer \/ ~ConnOpen) /\ UNCHANGED down
  /\ UNCHANGED <<mainVars, pollVars, recvPc, up, peer, refused, refusals, ended, heard, came>>

-----------------------------------------------------------------------------
(* load                                                                    *)

(* The loop deals with a payload: came follows the reports it hands on.    *)
LoadHandle ==
  /\ R!Handle(l)
  /\ \E p \in cur[l] :
       came' = IF p.ok
                 THEN LET rep == parsedData(heard[p.from])
                      IN [came EXCEPT ![rep[1]] = rep[2]]
                 ELSE came
  /\ UNCHANGED heard

(* Every other step of load.                                               *)
LoadAlone ==
  /\ \/ R!ServePut(l) \/ R!ServeError(l)
     \/ R!LoopRecv(l) \/ R!LoopClosed(l) \/ R!LastAddr(l)
     \/ R!PipeSend(l) \/ R!PipeSendCancelled(l)
     \/ R!HostOutput \/ R!EchoRecv \/ R!EchoCancelled \/ R!EchoSend
     \/ R!Cancel \/ R!Finished
  /\ UNCHANGED <<heard, came>>

LoadStep == LoadRuns /\ (LoadHandle \/ LoadAlone) /\ UNCHANGED sendVars

Network == LoadStarts \/ Unreachable \/ Deliver \/ LoadCloses \/ EchoWrite

PassNext == (SendStep /\ UNCHANGED loadVars) \/ LoadStep \/ Network

Unfair == PassInit /\ [][PassNext]_passVars

-----------------------------------------------------------------------------
(* send's goroutines and load's run when they can, and WriteTo returns when *)
(* it can. While the gadget runs, its writer (module InPath) drains the    *)
(* pipe. The network delivers what a UDS took. That the program at the     *)
(* target reads what it is sent, OthersRead of IpcRecv, is not assumed.    *)
PassSpec ==
  /\ Unfair
  /\ SendFairness
  /\ R!CodeFairness
  /\ WF_passVars(~done /\ LoadRuns /\ R!PipeSend(l) /\ UNCHANGED <<sendVars, heard, came>>)
  /\ WF_passVars(Deliver)
  /\ WF_passVars(EchoWrite)

-----------------------------------------------------------------------------
(* The two programs and the network have the types of their parts, load    *)
(* knows a number for each packet it received, and no report arrives that  *)
(* was not sent.                                                           *)
PassTypeOK ==
  /\ SendTypeOK
  /\ R!TypeOK
  /\ Len(heard) = clock
  /\ \A e \in Endpoint : came[e] \in 0..sent[e]

(* A report for an interface that load maps.                               *)
Mapped == {e \in Endpoint : ifaceOf[e] \in HidIface}

Stream == INSTANCE ReportStream WITH
  Source <- Mapped,
  Capacity <- NetSize + ChanSize + 2,
  produced <- [e \in Mapped |-> IF proto = "uds" THEN sent[e] ELSE 0],
  consumed <- [e \in Mapped |-> IF proto = "uds" THEN came[e] ELSE 0],
  stopped <- done \/ servePc[l] = "stopped"

(* Over a UDS, what the two programs do together is one stream per         *)
(* endpoint: every report that conn.Write of send took reaches load's pipe, *)
(* in order and once, with at most what the two queues and the two         *)
(* goroutines between them hold under way, also when send has ended. It    *)
(* holds until load is cancelled or its serve fails.                       *)
PassesOn == Stream!FairSpec

(* An output of the host that is being sent to send's socket does not keep *)
(* load's target locked: send reads, or its socket is closed. IpcRecv      *)
(* assumes this of the program at the target.                              *)
EchoReturns == (echoPc = "sending") ~> (echoPc # "sending")
=============================================================================
