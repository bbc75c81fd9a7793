------------------------------- MODULE SendMode -------------------------------
(***************************************************************************)
(* send: one poller per IN endpoint of a real device writes its reports to *)
(* a connected datagram socket, and recvAndWrite reads packets from that   *)
(* socket and writes them to the OUT endpoints of the device.              *)
(*                                                                         *)
(*   IN endpoint --> pollAndSend --> conn.Write --> up                     *)
(*   OUT endpoint <-- recvAndWrite <-- conn.Read <-- down                  *)
(*                                                                         *)
(* The kernel's part in a connected socket is as the code meets it. A UDS  *)
(* delivers in order and makes a writer wait for room; writing to one that *)
(* was closed fails. UDP loses and reorders; a datagram nobody listens for *)
(* may be answered, and the answer fails the next call on the socket,      *)
(* whichever that is.                                                      *)
(*                                                                         *)
(* The module has the steps of the program. Those of the network and of    *)
(* the other end are in Passthrough.                                       *)
(***************************************************************************)
EXTENDS InjectPacket, FiniteSets, SequencesExt

CONSTANTS
  Endpoint,    \* IN endpoints (bulk or interrupt) of the claimed interfaces
  ifaceOf,     \* the interface of each
  OutIface,    \* interfaces in outMap whose OUT endpoint is bulk or interrupt
  Protocol,    \* protocols of the target on the command line
  NetSize,     \* datagrams under way in one direction
  MaxReports   \* bound: reports of each endpoint

ASSUME SendAssumption ==
  /\ ifaceOf \in [Endpoint -> 0..255]
  /\ OutIface \subseteq 0..255
  /\ Protocol \subseteq {"uds", "udp"}
  /\ IsFiniteSet(Endpoint) /\ "recvAndWrite" \notin Endpoint
  /\ NetSize \in Nat \ {0}
  /\ MaxReports \in Nat

VARIABLES
  proto,     \* protocol of the target
  mainPc,    \* where main is: "running", "closing" (conn is closed), "gone"
  cancelled, \* the context is cancelled
  pollPc,    \* where the poller of an endpoint is
  polled,    \* number of the last report read from an endpoint
  sent,      \* number of the last one that conn.Write took
  recvPc,    \* where recvAndWrite is
  up,        \* packets on their way to the target
  down,      \* packets on their way from it
  peer,      \* a socket is open at the target
  refused,   \* an answer "refused" is pending on the socket
  refusals,  \* history: answers "refused" that a UDP target's host sent
  ended      \* history: goroutines that an error of the open socket ended

pollVars == <<pollPc, polled, sent>>
mainVars == <<proto, mainPc, cancelled>>
sendVars == <<mainVars, pollVars, recvPc, up, down, peer, refused, refusals, ended>>

(* The bytes of a report stand for themselves: its endpoint and number.    *)
report(e) == <<e, polled[e]>>

ConnOpen == mainPc = "running"

(* The connection is made: a UDS only if somebody listens, UDP always.     *)
SendInit ==
  /\ proto \in Protocol
  /\ peer \in (IF proto = "uds" THEN {TRUE} ELSE BOOLEAN)
  /\ mainPc = "running"
  /\ cancelled = FALSE
  /\ pollPc = [e \in Endpoint |-> "check"]
  /\ polled = [e \in Endpoint |-> 0]
  /\ sent = [e \in Endpoint |-> 0]
  /\ recvPc = "check"
  /\ up = <<>> /\ down = <<>>
  /\ refused = FALSE
  /\ refusals = 0
  /\ ended = {}

-----------------------------------------------------------------------------
(* pollAndSend                                                             *)

PollGoto(e, label) == pollPc' = [pollPc EXCEPT ![e] = label]

PollCheck(e) ==
  /\ pollPc[e] = "check"
  /\ PollGoto(e, IF cancelled THEN "stopped" ELSE "read")
  /\ UNCHANGED <<mainVars, polled, sent, recvPc, up, down, peer, refused, refusals, ended>>

(* The transfer brings a report.                                           *)
PollRead(e) ==
  /\ pollPc[e] = "read"
  /\ polled[e] < MaxReports
  /\ polled' = [polled EXCEPT ![e] = @ + 1]
  /\ PollGoto(e, "write")
  /\ UNCHANGED <<mainVars, sent, recvPc, up, down, peer, refused, refusals, ended>>

(* It is empty or times out after 100 ms.                                  *)
PollTimeout(e) ==
  /\ pollPc[e] = "read"
  /\ PollGoto(e, "check")
  /\ UNCHANGED <<mainVars, polled, sent, recvPc, up, down, peer, refused, refusals, ended>>

(* It fails, and the poller ends.                                          *)
PollError(e) ==
  /\ pollPc[e] = "read"
  /\ PollGoto(e, "stopped")
  /\ UNCHANGED <<mainVars, polled, sent, recvPc, up, down, peer, refused, refusals, ended>>

(* conn.Write on a UDS waits until the target's queue has room.            *)
WriteUds(e) ==
  /\ proto = "uds" /\ ConnOpen /\ peer
  /\ pollPc[e] = "write"
  /\ Len(up) < NetSize
  /\ up' = Append(up, buildInjectPacket(ifaceOf[e], report(e)))
  /\ sent' = [sent EXCEPT ![e] = polled[e]]
  /\ PollGoto(e, "check")
  /\ UNCHANGED <<mainVars, polled, recvPc, down, peer, refused, refusals, ended>>

(* conn.Write on UDP succeeds at once: the packet is under way or lost.    *)
WriteUdp(e) ==
  /\ proto = "udp" /\ ConnOpen /\ ~refused
  /\ pollPc[e] = "write"
  /\ sent' = [sent EXCEPT ![e] = polled[e]]
  /\ PollGoto(e, "check")
  /\ \/ Len(up) < NetSize /\ up' = Append(up, buildInjectPacket(ifaceOf[e], report(e)))
     \/ UNCHANGED up
  /\ UNCHANGED <<mainVars, polled, recvPc, down, peer, refused, refusals, ended>>

(* Fault: the poller closes the connection when it gives up, and that ends *)
(* recvAndWrite too.                                                       *)
WriteRefusedEndsAll(e) ==
  /\ pollPc[e] = "write"
  /\ ConnOpen
  /\ refused \/ (proto = "uds" /\ ~peer)
  /\ refused' = FALSE
  /\ PollGoto(e, "stopped") /\ recvPc' = "stopped"
  /\ ended' = ended \cup {e, "recvAndWrite"}
  /\ UNCHANGED <<mainVars, polled, sent, up, down, peer, refusals>>

(* conn.Write fails, and the poller ends for good: nobody has the target's *)
(* UDS open any more, or an answer is pending, which this call uses up.    *)
WriteRefused(e) ==
  /\ pollPc[e] = "write"
  /\ ConnOpen
  /\ refused \/ (proto = "uds" /\ ~peer)
  /\ refused' = FALSE
  /\ PollGoto(e, "stopped")
  /\ ended' = ended \cup {e}
  /\ UNCHANGED <<mainVars, polled, sent, recvPc, up, down, peer, refusals>>

(* main has closed the connection.                                         *)
WriteClosed(e) ==
  /\ pollPc[e] = "write"
  /\ mainPc = "closing"
  /\ PollGoto(e, "stopped")
  /\ UNCHANGED <<mainVars, polled, sent, recvPc, up, down, peer, refused, refusals, ended>>

-----------------------------------------------------------------------------
(* recvAndWrite                                                            *)

RecvCheck ==
  /\ recvPc = "check"
  /\ recvPc' = IF cancelled THEN "stopped" ELSE "read"
  /\ UNCHANGED <<mainVars, pollVars, up, down, peer, refused, refusals, ended>>

(* Fault: a deadline that passes is taken for an error.                    *)
RecvTimeoutEnds ==
  /\ recvPc = "read" /\ ConnOpen
  /\ down = <<>> /\ ~refused
  /\ recvPc' = "stopped"
  /\ ended' = ended \cup {"recvAndWrite"}
  /\ UNCHANGED <<mainVars, pollVars, up, down, peer, refused, refusals>>

(* conn.Read: nothing comes within the deadline of 100 ms.                 *)
RecvTimeout ==
  /\ recvPc = "read" /\ ConnOpen
  /\ down = <<>> /\ ~refused
  /\ recvPc' = "check"
  /\ UNCHANGED <<mainVars, pollVars, up, down, peer, refused, refusals, ended>>

(* conn.Read takes the i-th packet. One that does not parse or that no OUT *)
(* endpoint is for is dropped.                                             *)
RecvPacket(i) ==
  /\ recvPc = "read" /\ ConnOpen
  /\ ~refused
  /\ i \in DOMAIN down /\ (proto = "uds" => i = 1)
  /\ down' = RemoveAt(down, i)
  /\ recvPc' = IF Parses(down[i]) /\ parsedIface(down[i]) \in OutIface
                 THEN "write" ELSE "check"
  /\ UNCHANGED <<mainVars, pollVars, up, peer, refused, refusals, ended>>

(* conn.Read fails with the pending answer. That is no timeout, and the    *)
(* goroutine ends for good.                                                *)
RecvRefused ==
  /\ recvPc = "read" /\ ConnOpen
  /\ refused
  /\ refused' = FALSE
  /\ recvPc' = "stopped"
  /\ ended' = ended \cup {"recvAndWrite"}
  /\ UNCHANGED <<mainVars, pollVars, up, down, peer, refusals>>

RecvClosed ==
  /\ recvPc = "read"
  /\ mainPc = "closing"
  /\ recvPc' = "stopped"
  /\ UNCHANGED <<mainVars, pollVars, up, down, peer, refused, refusals, ended>>

(* BulkWrite or InterruptWrite returns, within 1000 ms. Errors are logged. *)
RecvWrite ==
  /\ recvPc = "write"
  /\ recvPc' = "check"
  /\ UNCHANGED <<mainVars, pollVars, up, down, peer, refused, refusals, ended>>

-----------------------------------------------------------------------------
(* main                                                                    *)

(* SIGINT or SIGTERM: the handler cancels the context.                     *)
Signal ==
  /\ mainPc = "running" /\ ~cancelled
  /\ cancelled' = TRUE
  /\ UNCHANGED <<proto, mainPc, pollVars, recvPc, up, down, peer, refused, refusals, ended>>

(* ctx.Done: main returns, and of the deferred calls conn.Close is first.  *)
CloseConn ==
  /\ mainPc = "running" /\ cancelled
  /\ mainPc' = "closing"
  /\ down' = <<>>
  /\ UNCHANGED <<proto, cancelled, pollVars, recvPc, up, peer, refused, refusals, ended>>

(* devHandle.Close, and the process ends with all its goroutines, whether  *)
(* or not one of them was using the device.                                *)
Exit ==
  /\ mainPc = "closing"
  /\ mainPc' = "gone"
  /\ pollPc' = [e \in Endpoint |-> "stopped"]
  /\ recvPc' = "stopped"
  /\ UNCHANGED <<proto, cancelled, polled, sent, up, down, peer, refused, refusals, ended>>

Write(e) == WriteUds(e) \/ WriteUdp(e) \/ WriteRefused(e) \/ WriteClosed(e)
pollAndSend(e) == PollCheck(e) \/ PollRead(e) \/ PollTimeout(e) \/ PollError(e) \/ Write(e)
recvRead == RecvTimeout \/ RecvRefused \/ RecvClosed \/ \E i \in DOMAIN down : RecvPacket(i)
recvAndWrite == RecvCheck \/ recvRead \/ RecvWrite
runSend == Signal \/ CloseConn \/ Exit

(* What the program does of itself.                                        *)
SendStep == recvAndWrite \/ runSend \/ \E e \in Endpoint : pollAndSend(e)

(* Goroutines that can run do, transfers and reads with a deadline return. *)
(* Writers that wait for one connection are served in turn. Nothing makes  *)
(* a signal come.                                                          *)
SendFairness ==
  /\ \A e \in Endpoint :
       /\ WF_sendVars(PollCheck(e))
       /\ WF_sendVars(PollRead(e) \/ PollTimeout(e) \/ PollError(e))
       /\ SF_sendVars(Write(e))
  /\ WF_sendVars(RecvCheck)
  /\ WF_sendVars(recvRead)
  /\ WF_sendVars(RecvWrite)
  /\ WF_sendVars(CloseConn)
  /\ WF_sendVars(Exit)

-----------------------------------------------------------------------------
SendTypeOK ==
  /\ proto \in Protocol
  /\ mainPc \in {"running", "closing", "gone"}
  /\ cancelled \in BOOLEAN
  /\ pollPc \in [Endpoint -> {"check", "read", "write", "stopped"}]
  /\ polled \in [Endpoint -> Nat]
  /\ sent \in [Endpoint -> Nat]
  /\ \A e \in Endpoint : sent[e] <= polled[e] /\ polled[e] <= MaxReports
  /\ recvPc \in {"check", "read", "write", "stopped"}
  /\ Len(up) <= NetSize /\ Len(down) <= NetSize
  /\ peer \in BOOLEAN /\ refused \in BOOLEAN
  /\ refusals \in Nat
  /\ ended \subseteq Endpoint \cup {"recvAndWrite"}

(* What ends send's goroutines while the connection is open. Over UDP each *)
(* answer "refused" costs at most one of them, the poller or the receiver  *)
(* whose call meets it. Over a UDS nobody ends before the target has closed *)
(* its socket, then pollers do, one by one, and the receiver never.        *)
RefusalEndsOne ==
  IF proto = "udp"
    THEN Cardinality(ended) + (IF refused THEN 1 ELSE 0) <= refusals
    ELSE ended = {} \/ (~peer /\ "recvAndWrite" \notin ended)
=============================================================================
