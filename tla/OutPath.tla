------------------------------- MODULE OutPath -------------------------------
(***************************************************************************)
(* The host -> device half of a running gadget: every goroutine that feeds *)
(* or drains Pipe.HostToDevice.                                            *)
(*                                                                         *)
(*   readHIDDevice, one per hidg          --+                              *)
(*                                          +--> HostToDevice --> consumer *)
(*   readFFSEndpoint, one per FFS IN file --+                              *)
(*                                                                         *)
(* The consumer is forwardOutToRealDevice in emulate, when the device could *)
(* be opened and has OUT endpoints; startIPCEcho in load --recv; nobody in *)
(* every other run. Then the channel fills and stays full.                 *)
(*                                                                         *)
(* An output report is abstracted to its reader and its number there.      *)
(***************************************************************************)
EXTENDS Naturals, Sequences

CONSTANTS
  Reader,     \* files that are read: hidg devices and FFS endpoints
  ifaceFor,   \* the interface of a reader's reports (hidIdxToIface, ep)
  OutIface,   \* interfaces in the outMap of forwardOutToRealDevice
  OutIsoc,    \* those of them whose OUT endpoint is neither bulk nor interrupt
  Mode,       \* who may drain the channel: "forward" or "echo"
  BufSize,    \* capacity of the channel (64 in the program)
  MaxReports  \* bound: reports the host writes to one file

Iface == {ifaceFor[r] : r \in Reader} \cup OutIface

ASSUME OutPathAssumption ==
  /\ DOMAIN ifaceFor = Reader
  /\ OutIsoc \subseteq OutIface
  /\ Mode \in {"forward", "echo"}
  /\ BufSize \in Nat \ {0}
  /\ MaxReports \in Nat

VARIABLES
  hostToDevice, \* the channel
  done,         \* pipeCtx is cancelled
  readPc,       \* where the loop of a reader is
  held,         \* the report (at most one) a reader is sending
  filesOpen,    \* the files have not been closed
  drained,      \* the run has a consumer
  consPc,       \* where the loop of the consumer is
  cur,          \* the report (at most one) it is writing
  sent,         \* history: the last report of a reader the channel accepted
  taken,        \* history: the last one the consumer took
  forwarded     \* history: the last one that reached the device or the peer

readVars == <<readPc, held, sent>>
consVars == <<drained, consPc, cur, taken, forwarded>>
vars == <<hostToDevice, done, readPc, held, filesOpen, drained, consPc, cur, sent, taken, forwarded>>

Msg == [from : Reader, n : 1..MaxReports]

Init ==
  /\ hostToDevice = <<>>
  /\ done = FALSE
  /\ readPc = [r \in Reader |-> "check"]
  /\ held = [r \in Reader |-> {}]
  /\ filesOpen = TRUE
  /\ drained \in BOOLEAN
  /\ consPc = IF drained THEN "recv" ELSE "stopped"
  /\ cur = {}
  /\ sent = [r \in Reader |-> 0]
  /\ taken = [r \in Reader |-> 0]
  /\ forwarded = [r \in Reader |-> 0]

-----------------------------------------------------------------------------
(* readHIDDevice, readFFSEndpoint: the select at the top of the loop.      *)
ReadCheck(r) ==
  /\ readPc[r] = "check"
  /\ readPc' = [readPc EXCEPT ![r] = IF done THEN "stopped" ELSE "read"]
  /\ UNCHANGED <<hostToDevice, done, held, filesOpen, sent, consVars>>

(* f.Read returns a report of the host.                                    *)
ReadReport(r) ==
  /\ readPc[r] = "read"
  /\ filesOpen
  /\ sent[r] < MaxReports
  /\ held' = [held EXCEPT ![r] = {[from |-> r, n |-> sent[r] + 1]}]
  /\ readPc' = [readPc EXCEPT ![r] = "send"]
  /\ UNCHANGED <<hostToDevice, done, filesOpen, sent, consVars>>

(* f.Read returns nothing: round the loop.                                 *)
ReadEmpty(r) ==
  /\ readPc[r] = "read"
  /\ filesOpen
  /\ readPc' = [readPc EXCEPT ![r] = "check"]
  /\ UNCHANGED <<hostToDevice, done, held, filesOpen, sent, consVars>>

(* f.Read fails, certain once the file is closed: the reader ends.         *)
ReadError(r) ==
  /\ readPc[r] = "read"
  /\ readPc' = [readPc EXCEPT ![r] = "stopped"]
  /\ UNCHANGED <<hostToDevice, done, held, filesOpen, sent, consVars>>

(* Fault: a send that discards the report when the channel is full.        *)
SendHostToDeviceOrDiscard(m) ==
  hostToDevice' = IF Len(hostToDevice) < BufSize
                    THEN Append(hostToDevice, m) ELSE hostToDevice

(* Fault: an unbounded queue in place of the channel.                      *)
SendHostToDeviceUnbounded(m) == hostToDevice' = Append(hostToDevice, m)

(* Pipe.SendHostToDevice: the channel has room.                            *)
SendHostToDevice(m) ==
  /\ Len(hostToDevice) < BufSize
  /\ hostToDevice' = Append(hostToDevice, m)

Send(r) ==
  /\ readPc[r] = "send"
  /\ \E m \in held[r] : SendHostToDevice(m) /\ sent' = [sent EXCEPT ![r] = m.n]
  /\ held' = [held EXCEPT ![r] = {}]
  /\ readPc' = [readPc EXCEPT ![r] = "check"]
  /\ UNCHANGED <<done, filesOpen, consVars>>

(* Fault: a bare channel send, without the case for ctx.Done().            *)
SendNeverCancelled(r) == FALSE /\ UNCHANGED vars

(* Pipe.SendHostToDevice: ctx is cancelled. The readers ignore the error   *)
(* and stop at the top of their loop.                                      *)
SendCancelled(r) ==
  /\ readPc[r] = "send"
  /\ done
  /\ held' = [held EXCEPT ![r] = {}]
  /\ readPc' = [readPc EXCEPT ![r] = "check"]
  /\ UNCHANGED <<hostToDevice, done, filesOpen, sent, consVars>>

-----------------------------------------------------------------------------
(* The reports a consumer writes: forwardOutToRealDevice those of an        *)
(* interface with a bulk or interrupt OUT endpoint, the echo all.          *)
Serves(m) == Mode = "echo" \/ ifaceFor[m.from] \in OutIface \ OutIsoc

(* Pipe.RecvHostToDevice: the consumer takes the head, to write it or, with *)
(* no endpoint for its interface, to drop it.                              *)
RecvHostToDevice ==
  /\ consPc = "recv"
  /\ hostToDevice # <<>>
  /\ hostToDevice' = Tail(hostToDevice)
  /\ LET m == Head(hostToDevice) IN
       /\ taken' = [taken EXCEPT ![m.from] = m.n]
       /\ IF Serves(m) THEN consPc' = "write" /\ cur' = {m} ELSE UNCHANGED <<consPc, cur>>
  /\ UNCHANGED <<done, filesOpen, drained, forwarded, readVars>>

RecvCancelled ==
  /\ consPc = "recv"
  /\ done
  /\ consPc' = "stopped"
  /\ UNCHANGED <<hostToDevice, done, filesOpen, drained, cur, taken, forwarded, readVars>>

(* BulkWrite, InterruptWrite or target.send succeeds.                      *)
Forward ==
  /\ consPc = "write"
  /\ \E m \in cur : forwarded' = [forwarded EXCEPT ![m.from] = m.n]
  /\ cur' = {}
  /\ consPc' = "recv"
  /\ UNCHANGED <<hostToDevice, done, filesOpen, drained, taken, readVars>>

(* Fault: a failed write ends the consumer.                                *)
ForwardFailsStops ==
  /\ consPc = "write"
  /\ cur' = {}
  /\ consPc' = "stopped"
  /\ UNCHANGED <<hostToDevice, done, filesOpen, drained, taken, forwarded, readVars>>

(* It fails, after 1000 ms at the latest: logged, and the report is lost.  *)
ForwardFails ==
  /\ consPc = "write"
  /\ cur' = {}
  /\ consPc' = "recv"
  /\ UNCHANGED <<hostToDevice, done, filesOpen, drained, taken, forwarded, readVars>>

-----------------------------------------------------------------------------
(* The goroutine that waits for ctx.Done() and closes the files.           *)
CloseFiles ==
  /\ done /\ filesOpen
  /\ filesOpen' = FALSE
  /\ UNCHANGED <<hostToDevice, done, readVars, consVars>>

Cancel ==
  /\ ~done
  /\ done' = TRUE
  /\ UNCHANGED <<hostToDevice, filesOpen, readVars, consVars>>

AllStopped == consPc = "stopped" /\ \A r \in Reader : readPc[r] = "stopped"

Finished == AllStopped /\ ~filesOpen /\ UNCHANGED vars

Read(r) == ReadCheck(r) \/ ReadReport(r) \/ ReadEmpty(r) \/ ReadError(r)
Consume == RecvHostToDevice \/ RecvCancelled \/ Forward \/ ForwardFails

Next ==
  \/ \E r \in Reader : Read(r) \/ Send(r) \/ SendCancelled(r)
  \/ Consume
  \/ CloseFiles \/ Cancel
  \/ Finished

Spec == Init /\ [][Next]_vars

(* A goroutine that can run does; closing a file fails the read blocked on *)
(* it; a transfer to a real endpoint ends within its timeout, a write of   *)
(* the echo at the latest when its socket is closed.                       *)
CodeFairness ==
  /\ \A r \in Reader :
       /\ WF_vars(ReadCheck(r))
       /\ WF_vars(~filesOpen /\ ReadError(r))
       /\ WF_vars(Send(r) \/ SendCancelled(r))
  /\ WF_vars(RecvHostToDevice \/ RecvCancelled)
  /\ WF_vars((Mode = "forward" \/ done) /\ (Forward \/ ForwardFails))
  /\ WF_vars(CloseFiles)

(* Senders that wait for room in a Go channel are served in their order.   *)
FairSpec == Spec /\ CodeFairness /\ \A r \in Reader : SF_vars(Send(r))

-----------------------------------------------------------------------------
(* Types, with the bound of the channel.                                   *)
TypeOK ==
  /\ hostToDevice \in Seq(Msg) /\ Len(hostToDevice) <= BufSize
  /\ done \in BOOLEAN /\ filesOpen \in BOOLEAN /\ drained \in BOOLEAN
  /\ readPc \in [Reader -> {"check", "read", "send", "stopped"}]
  /\ held \in [Reader -> SUBSET Msg]
  /\ consPc \in {"recv", "write", "stopped"}
  /\ cur \in SUBSET Msg
  /\ sent \in [Reader -> 0..MaxReports]
  /\ taken \in [Reader -> 0..MaxReports]
  /\ forwarded \in [Reader -> 0..MaxReports]

(* What the host writes to a hidg reaches the consumer as the gapless       *)
(* bounded stream of ReportStream, file by file: no report is lost between *)
(* the read and the consumer, repeated or overtaken.                       *)
Stream == INSTANCE ReportStream WITH
            Source <- Reader, Capacity <- BufSize,
            produced <- sent, consumed <- taken, stopped <- done
StreamSafe == Stream!Spec

(* README: hidg read -> pipe -> OUT endpoint. In a run with a consumer a    *)
(* report the host wrote to one hidg gets its turn at the device: the other *)
(* files and slow or failing transfers do not keep it away for ever.       *)
OutputReaches ==
  \A r \in Reader : \A n \in 1..MaxReports :
    (drained /\ readPc[r] = "send" /\ sent[r] = n - 1) ~> (done \/ taken[r] >= n)

(* After cancellation every goroutine returns: also the readers that wait  *)
(* for room in a channel nobody drains, or for a host that writes nothing. *)
ShutdownStops == done ~> AllStopped
=============================================================================
