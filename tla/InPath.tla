------------------------------- MODULE InPath -------------------------------
(***************************************************************************)
(* The device -> host half of a running gadget (emulate and load): every   *)
(* goroutine that feeds or drains Pipe.DeviceToHost.                       *)
(*                                                                         *)
(*   pollEndpoint, one per IN endpoint     --+                             *)
(*                                           +--> DeviceToHost --> writers *)
(*   the loop of startIPCInjection, one    --+                             *)
(*   per IPC socket                                                        *)
(*                                                                         *)
(* The writer goroutine of startGadgetIO always drains the channel; when   *)
(* the device has a non-HID interface, writeFFSEndpoints drains it too.    *)
(*                                                                         *)
(* A report is abstracted to the goroutine that produced it, its interface *)
(* and its number in the order of that goroutine.                          *)
(***************************************************************************)
EXTENDS Integers, Sequences

CONSTANTS
  InEndpoint,  \* IN endpoints of the claimed interfaces (hidEndpoints.IN)
  Injector,    \* IPC sockets in injection mode (--uds, --udp)
  Isoc,        \* the endpoints that are neither bulk nor interrupt
  ifaceOf,     \* the interface of each IN endpoint
  HidMapped,   \* interfaces in Gadget.IfaceToHidIdx
  HidOpen,     \* those of them whose /dev/hidgN could be opened
  FfsMapped,   \* interfaces in Gadget.IfaceToFFSIdx
  FfsOutFile,  \* those of them in the outMap of writeFFSEndpoints
  BufSize,     \* capacity of the channel (64 in the program)
  MaxReports   \* bound: reports one source produces

Source == InEndpoint \cup Injector
Iface  == HidMapped \cup FfsMapped

(* startFFSIO runs exactly when AddFFSFunction was called: when the device *)
(* has a non-HID interface.                                                *)
Consumer == {"gadget"} \cup (IF FfsMapped = {} THEN {} ELSE {"ffs"})

(* An interface is HID or not by the class of its alternate setting 0, so  *)
(* the two maps are disjoint.                                              *)
ASSUME InPathAssumption ==
  /\ InEndpoint \cap Injector = {}
  /\ Source \cap Consumer = {}
  /\ Isoc \subseteq InEndpoint
  /\ ifaceOf \in [InEndpoint -> Iface]
  /\ HidOpen \subseteq HidMapped
  /\ FfsOutFile \subseteq FfsMapped
  /\ HidMapped \cap FfsMapped = {}
  /\ BufSize \in Nat \ {0}
  /\ MaxReports \in Nat

VARIABLES
  deviceToHost, \* the channel
  done,         \* pipeCtx is cancelled
  pc,           \* where the loop of a source is
  consPc,       \* where the loop of a consumer is
  hand,         \* the message (at most one) a goroutine is sending or writing
  filesOpen,    \* the files of a consumer have not been closed
  sent,         \* history: the last report of a source the channel accepted
  taken,        \* history: the last one a consumer took to write it
  written       \* history: the last one written to its file

vars == <<deviceToHost, done, pc, consPc, hand, filesOpen, sent, taken, written>>

Msg == [src : Source, iface : Iface, n : 1..MaxReports]

Init ==
  /\ deviceToHost = <<>>
  /\ done = FALSE
  /\ pc = [s \in Source |-> IF s \in InEndpoint THEN "check" ELSE "read"]
  /\ consPc = [c \in Consumer |-> "recv"]
  /\ hand = [g \in Source \cup Consumer |-> {}]
  /\ filesOpen = [c \in Consumer |-> TRUE]
  /\ sent = [s \in Source |-> 0]
  /\ taken = [s \in Source |-> 0]
  /\ written = [s \in Source |-> 0]

-----------------------------------------------------------------------------
(* Fault: a send that discards the report when the channel is full, as a   *)
(* select with a default case does.                                        *)
SendDeviceToHostOrDiscard(m) ==
  deviceToHost' = IF Len(deviceToHost) < BufSize
                    THEN Append(deviceToHost, m) ELSE deviceToHost
(* Fault: an unbounded queue in place of the channel.                      *)
SendDeviceToHostUnbounded(m) == deviceToHost' = Append(deviceToHost, m)

(* Pipe.SendDeviceToHost, the case of its select in which the channel has  *)
(* room.                                                                   *)
SendDeviceToHost(m) ==
  /\ Len(deviceToHost) < BufSize
  /\ deviceToHost' = Append(deviceToHost, m)

(* The next report of s reaches its goroutine, which turns to sending it.  *)
Hold(s, i) ==
  /\ sent[s] < MaxReports
  /\ hand' = [hand EXCEPT ![s] = {[src |-> s, iface |-> i, n |-> sent[s] + 1]}]
  /\ pc' = [pc EXCEPT ![s] = "send"]
  /\ UNCHANGED <<deviceToHost, done, consPc, filesOpen, sent, taken, written>>

(* pollEndpoint: the select on ctx.Done() at the top of the loop.          *)
PollCheck(ep) ==
  /\ pc[ep] = "check"
  /\ pc' = [pc EXCEPT ![ep] = IF done THEN "stopped" ELSE "read"]
  /\ UNCHANGED <<deviceToHost, done, consPc, hand, filesOpen, sent, taken, written>>

(* pollEndpoint: BulkRead or InterruptRead returned data.                  *)
PollRead(ep) ==
  /\ pc[ep] = "read"
  /\ ep \notin Isoc
  /\ Hold(ep, ifaceOf[ep])

(* pollEndpoint: the read timed out after 100 ms, or returned no data.     *)
PollTimeout(ep) ==
  /\ pc[ep] = "read"
  /\ ep \notin Isoc
  /\ pc' = [pc EXCEPT ![ep] = "check"]
  /\ UNCHANGED <<deviceToHost, done, consPc, hand, filesOpen, sent, taken, written>>

(* pollEndpoint: the first failed read, or a transfer type it does not     *)
(* support, ends the goroutine for good.                                   *)
PollError(ep) ==
  /\ pc[ep] = "read"
  /\ pc' = [pc EXCEPT ![ep] = "stopped"]
  /\ UNCHANGED <<deviceToHost, done, consPc, hand, filesOpen, sent, taken, written>>

(* startIPCInjection: a packet for an interface of ifaceMap. A packet that *)
(* does not parse, or names another interface, changes nothing.            *)
InjectPacket(j) ==
  /\ pc[j] = "read"
  /\ \E i \in HidMapped : Hold(j, i)

(* startIPCInjection: serve closed its channel, after a read error or after *)
(* the socket was closed on shutdown, and the loop has drained it.         *)
InjectClosed(j) ==
  /\ pc[j] = "read"
  /\ pc' = [pc EXCEPT ![j] = "stopped"]
  /\ UNCHANGED <<deviceToHost, done, consPc, hand, filesOpen, sent, taken, written>>

(* The channel takes the report; the source goes round its loop.           *)
Send(s) ==
  /\ pc[s] = "send"
  /\ \E m \in hand[s] :
       /\ SendDeviceToHost(m)
       /\ sent' = [sent EXCEPT ![s] = m.n]
  /\ hand' = [hand EXCEPT ![s] = {}]
  /\ pc' = [pc EXCEPT ![s] = IF s \in InEndpoint THEN "check" ELSE "read"]
  /\ UNCHANGED <<done, consPc, filesOpen, taken, written>>

(* Fault: a bare channel send, without the case for ctx.Done().            *)
SendNeverCancelled(s) == FALSE /\ UNCHANGED vars

(* The other case of the select in SendDeviceToHost: ctx is cancelled. When *)
(* both cases are ready Go picks either.                                   *)
SendCancelled(s) ==
  /\ pc[s] = "send"
  /\ done
  /\ hand' = [hand EXCEPT ![s] = {}]
  /\ pc' = [pc EXCEPT ![s] = "stopped"]
  /\ UNCHANGED <<deviceToHost, done, consPc, filesOpen, sent, taken, written>>

-----------------------------------------------------------------------------
(* Fault: both consumers write the reports of every interface.             *)
ServesAll(c) == Iface

(* The interfaces a consumer has a file for.                               *)
Serves(c) == IF c = "gadget" THEN HidOpen ELSE FfsOutFile

(* A consumer receives the head of the channel, whosever it is: it writes a *)
(* message it has a file for and drops any other one.                      *)
RecvDeviceToHost(c) ==
  /\ consPc[c] = "recv"
  /\ deviceToHost # <<>>
  /\ deviceToHost' = Tail(deviceToHost)
  /\ LET m == Head(deviceToHost) IN
       IF m.iface \in Serves(c)
         THEN /\ consPc' = [consPc EXCEPT ![c] = "write"]
              /\ hand' = [hand EXCEPT ![c] = {m}]
              /\ taken' = [taken EXCEPT ![m.src] = m.n]
         ELSE UNCHANGED <<consPc, hand, taken>>
  /\ UNCHANGED <<done, pc, filesOpen, sent, written>>

RecvCancelled(c) ==
  /\ consPc[c] = "recv"
  /\ done
  /\ consPc' = [consPc EXCEPT ![c] = "stopped"]
  /\ UNCHANGED <<deviceToHost, done, pc, hand, filesOpen, sent, taken, written>>

(* The write completes: the host polled the endpoint.                      *)
Write(c) ==
  /\ consPc[c] = "write"
  /\ filesOpen[c]
  /\ \E m \in hand[c] : written' = [written EXCEPT ![m.src] = m.n]
  /\ hand' = [hand EXCEPT ![c] = {}]
  /\ consPc' = [consPc EXCEPT ![c] = "recv"]
  /\ UNCHANGED <<deviceToHost, done, pc, filesOpen, sent, taken>>

(* Fault: the writer gives up at the first failed write.                   *)
WriteFailStops(c) ==
  /\ consPc[c] = "write"
  /\ hand' = [hand EXCEPT ![c] = {}]
  /\ consPc' = [consPc EXCEPT ![c] = "stopped"]
  /\ UNCHANGED <<deviceToHost, done, pc, filesOpen, sent, taken, written>>

(* The write fails, always once the file is closed: logged, and the loop   *)
(* goes on.                                                                *)
WriteFail(c) ==
  /\ consPc[c] = "write"
  /\ hand' = [hand EXCEPT ![c] = {}]
  /\ consPc' = [consPc EXCEPT ![c] = "recv"]
  /\ UNCHANGED <<deviceToHost, done, pc, filesOpen, sent, taken, written>>

(* The goroutine that waits for ctx.Done() and closes a consumer's files.  *)
CloseFiles(c) ==
  /\ done
  /\ filesOpen[c]
  /\ filesOpen' = [filesOpen EXCEPT ![c] = FALSE]
  /\ UNCHANGED <<deviceToHost, done, pc, consPc, hand, sent, taken, written>>

(* A signal, or Pipe.Close, cancels the context of the pipe.               *)
Cancel ==
  /\ ~done
  /\ done' = TRUE
  /\ UNCHANGED <<deviceToHost, pc, consPc, hand, filesOpen, sent, taken, written>>

AllStopped ==
  /\ \A s \in Source : pc[s] = "stopped"
  /\ \A c \in Consumer : consPc[c] = "stopped"

Finished ==
  /\ AllStopped
  /\ \A c \in Consumer : ~filesOpen[c]
  /\ UNCHANGED vars

Poll(ep)   == PollCheck(ep) \/ PollRead(ep) \/ PollTimeout(ep) \/ PollError(ep)
Inject(j)  == InjectPacket(j) \/ InjectClosed(j)
Consume(c) == RecvDeviceToHost(c) \/ RecvCancelled(c) \/ Write(c) \/ WriteFail(c)

Next ==
  \/ \E ep \in InEndpoint : Poll(ep)
  \/ \E j \in Injector : Inject(j)
  \/ \E s \in Source : Send(s) \/ SendCancelled(s)
  \/ \E c \in Consumer : Consume(c) \/ CloseFiles(c)
  \/ Cancel
  \/ Finished

Spec == Init /\ [][Next]_vars

-----------------------------------------------------------------------------
(* What the Go runtime and the kernel owe the code: a goroutine that can run *)
(* does; a poll of a real endpoint returns within 100 ms; closing a file or *)
(* a socket fails the call blocked on it.                                  *)
CodeFairness ==
  /\ \A ep \in InEndpoint :
       /\ WF_vars(PollCheck(ep))
       /\ WF_vars(PollRead(ep) \/ PollTimeout(ep) \/ PollError(ep))
  /\ \A j \in Injector : WF_vars(done /\ InjectClosed(j))
  /\ \A s \in Source : WF_vars(Send(s) \/ SendCancelled(s))
  /\ \A c \in Consumer :
       /\ WF_vars(RecvDeviceToHost(c) \/ RecvCancelled(c))
       /\ WF_vars(~filesOpen[c] /\ WriteFail(c))
       /\ WF_vars(CloseFiles(c))

(* A host that polls every IN endpoint completes every write. Senders that *)
(* wait for room in a Go channel are served in the order they arrived, so  *)
(* none of them is overtaken for ever.                                     *)
HostPolls ==
  /\ \A c \in Consumer : WF_vars(Write(c) \/ WriteFail(c))
  /\ \A s \in Source : SF_vars(Send(s))

FairSpec   == Spec /\ CodeFairness
PolledSpec == Spec /\ CodeFairness /\ HostPolls

-----------------------------------------------------------------------------
(* The sets the variables range over, and the bound of the channel.        *)
Types ==
  /\ deviceToHost \in Seq(Msg) /\ Len(deviceToHost) <= BufSize
  /\ done \in BOOLEAN
  /\ pc \in [Source -> {"check", "read", "send", "stopped"}]
  /\ consPc \in [Consumer -> {"recv", "write", "stopped"}]
  /\ hand \in [Source \cup Consumer -> SUBSET Msg]
  /\ filesOpen \in [Consumer -> BOOLEAN]
  /\ sent \in [Source -> 0..MaxReports]
  /\ taken \in [Source -> 0..MaxReports]
  /\ written \in [Source -> 0..MaxReports]

(* The interfaces the reports of a source are for.                         *)
Fits(s, i) == IF s \in InEndpoint THEN i = ifaceOf[s] ELSE i \in HidMapped

(* A sending source holds its next report, any other source holds nothing. *)
SourceHand ==
  \A s \in Source :
    IF pc[s] = "send"
      THEN /\ sent[s] < MaxReports
           /\ \E i \in Iface : /\ Fits(s, i)
                               /\ hand[s] = {[src |-> s, iface |-> i, n |-> sent[s] + 1]}
      ELSE hand[s] = {}

(* A writing consumer holds one report it has a file for, which it took and *)
(* which is newer than all that was written of that source.                *)
ConsumerHand ==
  \A c \in Consumer :
    IF consPc[c] = "write"
      THEN \E m \in Msg : /\ hand[c] = {m}
                          /\ m.iface \in Serves(c)
                          /\ Fits(m.src, m.iface)
                          /\ written[m.src] < m.n
                          /\ m.n <= taken[m.src]
      ELSE hand[c] = {}

(* Types, with the bound of the channel and what each goroutine has in     *)
(* hand: nothing, except that a source in SendDeviceToHost holds exactly   *)
(* the next report it produced, and a consumer in a write exactly one      *)
(* report, of an interface it has a file for, that it took and that is     *)
(* newer than everything written of that source.                           *)
TypeOK == Types /\ SourceHand /\ ConsumerHand

(* A report the channel accepted stays in it until a writer takes it: no   *)
(* report is lost between the read that returned it and its write. True of *)
(* a device with HID interfaces only, whose hidg files all opened.         *)
NothingLost ==
  \A s \in Source : \A n \in 1..MaxReports :
    (taken[s] < n /\ n <= sent[s]) =>
      \E k \in DOMAIN deviceToHost : deviceToHost[k].src = s /\ deviceToHost[k].n = n

(* The host sees the reports of one source in the order it produced them,  *)
(* and none twice, also when two goroutines drain the one channel.         *)
InOrder ==
  [][\A s \in Source : written'[s] # written[s] => written'[s] > written[s]]_vars

(* After cancellation every goroutine returns, whoever is blocked on a full *)
(* channel, an empty one, a poll, a socket or a write the host never polls. *)
ShutdownStops == done ~> AllStopped

(* With a host that polls, a report read from the device or the socket     *)
(* reaches a writer unless the gadget is shut down: back-pressure delays a *)
(* source, never starves it.                                               *)
Delivered ==
  \A s \in Source : \A n \in 1..MaxReports :
    (pc[s] = "send" /\ sent[s] = n - 1) ~> (done \/ taken[s] >= n)

(* On a device with HID interfaces only, what the channel accepts and the  *)
(* writer takes is, source by source, the gapless bounded stream that      *)
(* ReportStream describes; with a host that polls it also keeps moving.    *)
Stream == INSTANCE ReportStream WITH
            Capacity <- BufSize, produced <- sent, consumed <- taken, stopped <- done
StreamSafe  == Stream!Spec
StreamMoves == Stream!FairSpec
=============================================================================
