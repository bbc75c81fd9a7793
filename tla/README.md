# linux-cu in TLA+

linux-cu makes a Linux board with a USB device controller (UDC) pose as another
USB device. `emulate` reads a real device, builds a gadget like it in ConfigFS and
proxies reports between the two; `save` writes a device's description to a YAML
profile and `load` builds the gadget from it, its reports coming from IPC sockets;
`send` reads a real device and sends its reports to such a socket, and in
bidirectional mode gives back what it hears. This directory holds models of its
concurrent core, TLC runs for them and proofs. Paths are relative to the
repository (`src/`), and `PROJECT.json` maps each definition to its lines.

## 1. Inventory

| part | code | state | operations |
|---|---|---|---|
| pipe | `pkg/pipe/pipe.go` | channels DeviceToHost and HostToDevice (64 messages each), a context | Send*/Recv*, each a `select` on the channel and the context; Close |
| device polling | `cmd/hidpoll.go` | endpoint lists, outMap | openRealDevice, pollEndpoint (one goroutine per IN endpoint), forwardOutToRealDevice |
| gadget I/O | `cmd/gadgetio.go` | open hidg files, hidIdxToIface | the writer, a reader per hidg, a closer |
| FFS I/O | `cmd/ffsio.go` | endpoint files, outMap | readFFSEndpoint, writeFFSEndpoints, a closer, setupFFS |
| IPC injection | `cmd/ipc.go:17-196` | socket, lastAddr, a channel of 16 | serve, the loop, Close |
| bidirectional IPC | `cmd/ipc.go:197-398` | ipcTarget (mutex, address) | the same with update, startIPCEcho |
| gadget life cycle | `pkg/gadget/gadget.go`, `hid.go` | the ConfigFS tree, the UDC | Create, AddHIDFunction, ConnectUDC, freeUDC, Destroy, CleanupAll |
| emulate, load | `cmd/emulate.go`, `cmd/load.go` | IfaceToHidIdx, IfaceToFFSIdx, deferred calls | set-up, signal handler, tear-down |
| FFS descriptors | `cmd/ffsdesc.go` | none | buildNonHIDFFSDescriptors, buildFFSStrings, countDescriptors |
| FFS function | `pkg/gadget/ffs.go` | mount, endpoint files | NewFFSFunction, Mount, WriteDescriptors, buildDescriptorsBlob, buildStringsBlob |
| profile, save | `pkg/profile/`, `cmd/save.go` | none | FromDescriptors, Save, Load, HIDInterfaces |
| descriptors | `pkg/usb/descriptor.go` | none | ReadDescriptors, parseConfigDescriptor, findHIDReportDescriptorLen |
| device handle | `pkg/usb/device.go`, `transfer.go` | libusb handle and context | Open, Claim, transfers, Close |
| send | `cmd/send.go` | connection, device handle, outMap | pollAndSend per IN endpoint, recvAndWrite, conn.Close |
| command line | `cmd/main.go` | flags | resolveDevice |
| printing | `pkg/usb/print.go` | none | terminal output |

**How they interact.** All goroutines of a gadget meet in the pipe. pollEndpoint
and the IPC loops send to DeviceToHost; the writer of startGadgetIO, and on a
device with an interface that is not HID also writeFFSEndpoints, receive from it.
The readers of the hidg and FFS files send to HostToDevice; forwardOutToRealDevice
(emulate) or startIPCEcho (`load --recv`) receive from it, and in every other run
nobody does. The loops of the two sockets and the echo share ipcTarget, and a
socket's serve goroutine and its loop share lastAddr. The context of the pipe is
what stops everything: each file and each socket has a goroutine that closes it
when the context ends. Nobody waits for the goroutines; main runs its deferred
calls (devHandle.Close, g.Destroy) as soon as the context ends. Separate runs
share the ConfigFS tree, because Create begins with CleanupAll and ConnectUDC
takes the UDC from whoever has it. `send` has no gadget: its pollers and its
receiver share one connected socket, at whose other end is any program that speaks
the IPC packet format, as a rule `load --recv` on another board; the two then form
one path from the device to the host and back.

**What is hard** (`hazards` in `PROJECT.json` has the list, line by line):
back-pressure, and who is blocked on which channel at shutdown; two consumers of
one channel; an address kept apart from the payload it came with; a mutex held
during a blocking write; set-up and tear-down of runs that overlap, fail, are
signalled or killed; a handle freed under its users; an error on a shared socket
that falls to whichever goroutine calls next; two programs that wait for each
other; tables, counts and lengths derived twice from one list of interfaces.

**What makes each part correct**

- pipe and both paths: no report lost, repeated or overtaken between the read and
  the write; no source starved; shutdown ends every goroutine.
- bidirectional IPC: output goes to the program heard last, never to an earlier
  one nor to none; no goroutine is wedged behind the target's lock.
- life cycle: nothing is left when all runs have ended; a run by itself finds the
  UDC free for its gadget, which is the only one, whatever was left before it, and
  has the hidg number it takes itself to have; a run that leaves spares the others;
  a signal ends it.
- tables: hidg numbers, interface numbers, FFS descriptors and strings, and the
  profile agree; no function has more of a report descriptor than is declared;
  FunctionFS reads back what was written to ep0; output comes home to the endpoint
  beside which the reports are read.
- send: what load hands on is what the device reported, in order and once, over a
  UDS; over UDP each answer that refuses a packet ends at most one goroutine, over
  a UDS nothing ends one before the target has gone; the programs at both ends do
  not wait for each other for ever.

## 2. Modules

| module | part | state and actions |
|---|---|---|
| `ReportStream` | what both paths promise of each source | numbers of reports that went in and came out; Produce, Consume, Stop |
| `InPath` | DeviceToHost with all that feeds or drains it | the channel, one program counter per goroutine, what each goroutine holds, whether a consumer's files are open |
| `OutPath` | HostToDevice, likewise | the same for the readers and the one consumer |
| `IpcRecv` | `load --recv` | per socket serve, its channel, lastAddr and the loop; ipcTarget; the echo |
| `Lifecycle` | gadgets over several runs | the ConfigFS tree, the UDC and the first hidg number, a program counter per run, what is still to destroy |
| `SendMode` | `send` | a program counter per poller, the receiver and main; the two directions of the socket, a refusal that is pending on it |
| `InjectPacket` | the IPC packet | operators: buildInjectPacket, parseInjectPacket |
| `Passthrough` | `send`, the network and `load --recv` | the state of `SendMode` and of `IpcRecv` with one socket, joined: a packet in `up` is received by serve, what the echo sends goes into `down` |
| `FfsBlob` | the bytes written to ep0 of FunctionFS, and a reader for them | operators, on sequences of bytes |
| `Interfaces` | the tables made of the list of interfaces, `FfsBlob` among them | the list, grown by one alternate setting at a time, and the strings the device has |
| `*Proofs` | theorems, see section 4 | |
| `MC*` | instances for TLC | functions the `.cfg` files name |

`InPath` and `OutPath` share nothing but the context, which each of them has as
`done`; they are checked apart, and each implements the one `ReportStream`.
`IpcRecv` refines the source that `InPath` calls `Injector` for `--recv`, and
takes from `InPath` that its SendDeviceToHost either gets room or is cancelled.
`Lifecycle` abstracts a running gadget to the label `running`. `Passthrough` is an
instance of `IpcRecv` with one socket whose senders all have an address (send
gives its UDS a name for that), and its packets are real ones: the loop hands on
what parsing finds in the packet that `SendMode` built.

**Conventions.** A goroutine is a program counter whose labels are the points at
which it can wait or be interrupted; the code between two of them is one action,
unless it touches what another goroutine touches, in which case it is divided
(`LastAddr` and `Update` in `IpcRecv`, the steps of Destroy in `Lifecycle`). A
`select` is a disjunction. A report is its source and its number there, an address
the number of the datagram that brought it, a gadget its name. A report or
datagram a goroutine has in hand is a set of at most one element. Variables marked
*history* record what happened and guard nothing but the bounds. Operators under a
comment that begins with "Fault:" are not part of the model: each is a plausible
mistake in the definition after it, kept so that `PROJECT.json` can show which
property would notice.

The constants of `Interfaces` say what a device may have: numbers, endpoints,
descriptors behind a HID interface, strings. Its assumption asks of them only what
the descriptors' fields can hold, and of strings what `getStringDescriptor`
(`pkg/usb/descriptor.go:381`) can return: libusb reads at most 255 bytes, so 126
characters, and there are at most three strings of the device. The extra bytes of
a HID setting may be any: descriptors of any kind, with or without a HID descriptor
among them, and at the end something cut short. Any bytes can be divided like that,
so the assumption that they are leaves none out. Reading a report descriptor may
fail or give fewer bytes than declared (`ReportDescriptors`). The profile has a
report descriptor as hexadecimal digits (`EncodeToString`, `DecodeString`), and
load's own loop for the packet size has a definition of its own
(`LoadedReportLen`); what `FromDescriptors` copies, the YAML library gives back.

**What the environment may do.** A read returns a report, nothing or an error
whenever it likes; a write to a file fails whenever it likes; any step of the
set-up may fail; a signal may come at any step. The kernel's part in ConfigFS is
taken from what the code works around (`gadget.go`): a function that is linked
cannot be removed, a link that goes unbinds the gadget, binding needs a free UDC
and a function, a new HID function gets the first free hidg number. Listing
ConfigFS and freeing the UDC are taken to succeed. Each of the three RemoveAll at
the end of Destroy is one step; the last one removes links it comes to, and may
or may not be stopped by a function that is linked before it does (`Rmdir`). A UDS delivers
in order and lets a writer wait; UDP loses and reorders, and its refusals come
back as an error of a later call on the socket. The program at send's target may
be missing at first, if it is reached by UDP, and may go away at any time.

## 3. Runs

The bounds are small because the hazards are: two sources, a channel of one or two
and two or three reports each are enough for a full channel with somebody waiting,
for a report of each source behind one of the other, and for every goroutine to be
at every point when the context ends. A run takes seconds, `send_recv` two to
three minutes.

| run | instance | shows |
|---|---|---|
| `inpath_hid` | HID only, channel of 2, 2 reports each: a polled endpoint, one of a type pollEndpoint does not support, a socket; a host that polls | types; a report the channel took is in it until the writer has it; nobody waiting for room starves; the pipe with one writer is the gapless bounded stream, and the stream moves |
| `inpath_mixed` | a HID and an FFS interface, channel of 2, 2 reports each | with two consumers reports may be lost, but are not reordered or repeated; shutdown ends all |
| `inpath_loss` | as `inpath_mixed` | finding 1 |
| `outpath_hidg` | two hidg, one without OUT endpoint, channel of 2, 3 reports each, with forwardOutToRealDevice or without a consumer | types; gapless stream in order; every report gets its turn; shutdown ends also readers waiting for room that nobody makes |
| `recv_uds` | a UDS with senders that have no address, 4 datagrams, channel of 1 | the target never goes back to an older sender or to none; at rest it is the last sender; serve is not wedged while the gadget runs |
| `recv_both` | a UDS and a UDP socket, 2 datagrams, channels of 1 | after a loop has dealt with a datagram the target is its sender or a later one; shutdown ends loops and echo, even with the echo stuck in WriteTo |
| `recv_recent` | both sockets, 2 datagrams | finding 2 |
| `lifecycle_runs` | a load and an emulate with its device, different names, each may fail, be signalled, crash or be killed at any step | types; runs that return leave nothing; a run left alone finds the UDC free each time it writes to it, then keeps it, has the only gadget and, but for a foreign gadget, the first hidg number; leaving runs spare the others; an interrupted run ends |
| `lifecycle_early` | one load, no SIGKILL | finding 3 |
| `send_recv` | `send` with one keyboard that has LEDs, over UDS or UDP, 2 reports and 2 outputs, queues of one | types of both programs; over UDP a refusal ends at most one goroutine, over a UDS none ends before load has gone; over a UDS the two programs are a `ReportStream` for as long as load listens, and it moves; the echo that holds the target's lock gets its turn, over either protocol |
| `interfaces_tables` | every list of up to three alternate settings with up to three endpoints, extra bytes well-formed or malformed, report descriptors read, cut or not read, no device strings | hidg, interface and FFS numbers and the profile agree; report descriptors are within what is declared; ep0's blobs read back as the descriptors and strings they were made of; output ends at the setting whose reports are read |
| `interfaces_strings` | up to two settings, device strings | finding 4 |

`inpath_hid` has two sources that produce; a third adds states, not cases. Two
names, a tree and a UDC hold every way two runs can meet; a third run would only
meet what the second already can. `Retries` is 2 rather than 5: the loop has a
first and a last try. The channel of 16 of a socket is 1: with four datagrams one
is in the loop, one queued, one in the hands of a waiting serve and the address
two ahead of the payload the loop deals with. `send_recv` has one endpoint: all
pollers do the same and share only the socket, and with queues of one a second
report already finds each place on the way taken; that two pollers do not disturb
each other's stream is proved (section 4). `MaxReports` bounds the reports of each
endpoint, and `MaxPackets`, the datagrams load receives, is what that adds up to.
Three alternate settings have a gap in the numbers, both classes in every order,
and a second setting of either; beyond three there are the theorems of
`InterfacesProofs`. Deadlock is checked in every run but the two of `Interfaces`,
whose list is complete at its bound; the others stop only in `Finished`.

### Fairness

- `CodeFairness`, in each module: a goroutine that can run does (Go's scheduler).
  A poll of the real device returns within its 100 ms timeout and a transfer to it
  within 1000 ms; a read or write that is blocked on a file or a socket is fair
  only once that is closed, which is what the closers are for.
- `FairSpec` of `OutPath` and `HostPolls` of `InPath`: senders that wait for room
  in a Go channel are queued and served in order, so one of them is not overtaken
  for ever: strong fairness of `Send`.
- `HostPolls`: the USB host polls the endpoints it enumerated. Without it
  `Delivered` is false, and rightly: one hidg that is not polled holds up the one
  writer (listed as a hazard).
- `Handle` of `IpcRecv` is strongly fair: Go's mutex hands itself to a waiter that
  has waited for a millisecond. `OthersRead` is only in `BusySpec`: the program at
  the target reads, and `InPath` drains the pipe, as long as the gadget runs;
  after cancellation nothing is assumed of either.
- `SendFairness`: pollers, receiver and main as in `CodeFairness`; `Write` is
  strongly fair, as Go serves the writers of one connection in turn, and so does
  the kernel those that wait for room in one socket's queue.
- `PassSpec`: both programs' fairness, an `EchoWrite` that can be made is, a UDS
  delivers what it took, and `InPath` drains the pipe. `OthersRead` is not
  assumed: that send reads what the echo sends is `EchoReturns`, which discharges
  `IpcRecv`'s assumption when the program at the target is send.
- `FairSpec` of `Lifecycle`: a run takes its next step. Nothing makes a signal
  come.

## 4. Proofs

The theorems hold for all values of the constants that meet the module's named
assumption, that is for any number of endpoints, sockets and interfaces, any
capacity and any number of reports.

**`InPathProofs`.** `TypeCorrect` (`Spec => []TypeOK`: types, the bound of the
channel, and what each goroutine has in hand) and `OrderCorrect` (`Spec
=> InOrder`: no report of a source is written after a later one, nor twice, even
with two consumers). `InOrder` says nothing of the channel, so it is not
inductive. `OrderInv` has the parts of `TypeOK`, which is not inductive without
the others,

- `Types`: types and the bound of the channel;
- `SourceHand`: a source that sends holds exactly the report it produced last, and
  a source that does not holds none;
- `ConsumerHand`: a consumer holds a report only when it writes, of an interface
  it serves, which was taken and is newer than what was written of its source: two
  consumers serve disjoint sets of interfaces, and all reports of an endpoint are
  of one interface;

and adds

- `Queued`: what is in the channel is younger than what was taken and no younger
  than what was sent;
- `QueueSorted`: the reports of one source are in the channel in their order;
- `Counted`: written, taken and sent, of each source, are in this order.

The interfaces an *injected* report may name are those of HID, which one consumer
serves; this is what keeps `InOrder` true for sockets.

Under `HidOnly` (no FFS interface, every hidg opened:
the device `NothingLost` is about) `LossCorrect` (`Spec => []NothingLost`) and
`StreamCorrect` (`Spec => StreamSafe`, the safety half of the refinement of
`ReportStream`) are in the same module. `LossInv == OrderInv /\ NothingLost` is inductive. For the
refinement, `UnderWay` shows that at most as many reports of a source are under
way as the channel is long: they are at distinct places of it; `TakenNext` that
the report the writer takes is the next one of its source, because none may be
missing before it.

**`OutPathProofs`.** `TypeCorrect` and `StreamCorrect` (`Spec => StreamSafe`: the
refinement of `ReportStream`, with a consumer or without). `StreamInv` is like
`LossInv`: what each reader holds, that the channel holds all reports sent and not
taken (`NothingLost`), sorted per file (`QueueSorted`). The bound on what is under
way is a count: the reports of one file map one to one to places of the channel.

**`IpcRecvProofs`.** For any number of sockets `TypeCorrect` and `AimedCorrect`
(`Spec => AimedAtSender`). `AimInv` says that, unless a program without an address
was heard, lastAddr is no older than any datagram between serve and the loop, and
the address the loop has read no older than its datagram: reading lastAddr late is
harmless for the direction the property is about. For one socket `RecentCorrect`
(`[]MostRecent`) and `RegressCorrect` (`TargetNeverRegresses`), from `OneInv`: the
addresses kept, read and aimed at never overtake each other (`Monotone`), and
while the target is not the last sender something is on its way that will make it
so (`Pending`). With two sockets `MostRecent` is false (finding 2), so the
assumption `Listener = {l}` is needed.

**`LifecycleProofs`.** For any number of runs, names and tries: `TypeCorrect`,
`LeavesCorrect` (`Spec => LeavesOthers`; a leaving run's victim is its own gadget,
`VictimOwn`), `ExitsCorrect` (`[]ExitsClean`), `AloneCorrect` (`[]AloneBinds`)
and `HidgCorrect` (`[]AloneOwnsHidg`). `ExitsClean` speaks of ends only; `Owned`
strengthens it to every moment: for each gadget that exists there is a run of its
name that has still to remove it, or was killed or crashed, and for each linked
one a run that has still to unlink it. The second half is needed because the
kernel keeps a linked function: a run whose last RemoveAll is stopped by one that
was linked meanwhile leaves the gadget to the run that linked it. `Undisturbed`
says, for a run that no other disturbs, what the tree is like at each of its steps,
from `exists \subseteq todo` in CleanupAll to the UDC, free when the gadget is
bound, and the hidg number.

**`InjectPacketProofs`.** `RoundTrip` and `TooLong`: reports up to 65535 bytes
survive a packet, longer ones are cut without an error. What the bytes are does
not matter.

**`PassthroughProofs`.** `RefusalCorrect` (`Unfair => []RefusalEndsOne`) for any
number of endpoints. The inductive `RefusalInv` adds that the set of ended
goroutines is finite. `PassTypeCorrect` (`Unfair => []PassTypeOK`): the types of
both programs and of what is between them hold together. `TypeInv` adds to
`PassInv`, of `PassthroughStreamProofs`, that whatever is on the wire or was
received is a packet of a report that conn.Write took (`SentPkt`), and that what
comes back is a packet of load: only then does a step of one program keep the
types of the other.

**`PassthroughStreamProofs`.** `StreamCorrect` (`Unfair => Stream!Spec`): the
safety half of `PassesOn`, for any number of endpoints and any capacities. It
rests on `RoundTrip`. `PassInv` has three parts. `Numbered`: what load has
received but not handled is, in this order, with the loop, in the channel and with
serve, numbered without a gap; so that `heard \o up` is the wire on which all
reports are. `PollInv`: a poller that writes has exactly the report after the last
one sent. `WireOK`, about the wire past what is handled: its reports were sent
(`SentBefore`), are sorted per endpoint (`Sorted`), come after what came out
(`Later`) with none left out before one of them (`Gapless`), and end with the last
one sent as long as load listens (`LastUnderWay`). The next report to come out is
then the next one of its endpoint, and a count of the places bounds what is under
way.

**`InterfacesProofs`.** For any device, whatever numbers, endpoints, strings and
extra descriptors it has and however many settings. `ListCorrect` (`Spec =>
[]ListInv`) is the inductive invariant: the list is sorted by number and then by
setting, an interface keeps its class, each has its setting 0, and all fields come
from what the device may have. That settings 0 have different numbers follows, and
from that the tables. `HidgRoundTripCorrect`, `LoadMatchesEmulateCorrect`,
`ReportsDeclaredCorrect`, `FfsTablesAgreeCorrect`, `OutputComesHomeCorrect` and
`FfsReadsBackCorrect` state what the run `interfaces_tables` checks. `StringsOffByDevice` says how far finding 4
goes: each string index is too low by the number of strings the device has, and
wrong in no other way, as long as there are fewer than 256 settings that are not
HID, because the counter for iInterface is a byte. `StringsResolveWithoutDevice` is
the case of none. They rest on

- `PosIs`: the elements a filtering loop appends are those at the chosen positions,
  in order;
- `SameReportLen` and `DigitsBack`: the two loops over the endpoints find the same
  one, and decoding undoes encoding;
- `FlattenBlocks`: where each part of a concatenation is, for `FlattenSeq`, which
  is a fold;
- `WalkExists`, `FindsHidDesc` and `CountIs`: a loop that hops from descriptor to
  descriptor by their length bytes ends over any bytes, finds the first whole HID
  descriptor or that there is none, and counts each descriptor once;
- `TotalIs` and `StringBytesIs`: the length added up in advance is that of what is
  then encoded, and the length byte of a string does not overflow;
- `SplitReads`, `HeaderReads`, `DescriptorsRead` and `StringsRead`: a reader who
  goes by lengths and counts finds the parts that were concatenated, and the
  numbers in the headers. That these fit into four bytes is `FlattenBound` with
  `ListBound`: number and setting are bytes, so there are 65536 settings at most.

A loop of the code is a recursive function of an offset here. The induction
theorems of the library take an operator as a parameter, so `SetInduction` states
induction over the natural numbers as a fact about a set, from the well-foundedness
of `<`; the existence of such a function is proved the same way, by extending a
function on the numbers up to `n` by one more.

**Only model-checked.** Liveness (`ShutdownStops`, `Delivered`, `StreamMoves`,
`OutputReaches`, `KeepsReceiving`, `SignalEnds`, `EchoReturns`, and the part of
`PassesOn` that says the stream moves): tlapm does not do ENABLED and fairness.
Every invariant and every action property that a passing run checks has a theorem;
`MostRecent` and `TargetNeverRegresses` have theirs for one socket, and
`StringsResolve` its own for devices without strings.

## 5. Findings

Each is a run that violates one property.

1. `inpath_loss`. With a HID and another interface two goroutines drain
   DeviceToHost and each drops what it has no file for, although
   `gadgetio.go:59-61` says the other one forwards it.
2. `recv_recent`. With both sockets the target may end up at the sender of the
   older datagram, against `README.md:305`: the loops race to `ipcTarget`.
3. `lifecycle_early`. `load` installs its signal handler last; Ctrl+C before that
   leaves the gadget, against `README.md:94`.
4. `interfaces_strings`. iInterface of an FFS interface is off by the number of
   device strings, against the comment at `ffsdesc.go:206`.

Met while modelling, without a run of its own:

- `emulate` closes the device handle while goroutines use it (`CrashOnClose`);
  where that ends the process the gadget stays, as after SIGKILL. The next run
  removes it (`AloneBinds`).
- A datagram from an unbound UDS program overwrites lastAddr with nil, and when it
  comes before the loop has read lastAddr for the datagram before, that one sets
  no target. `nameless` in `IpcRecv` records that it has happened, and
  `AimedAtSender` and `MostRecent` leave it out.
- The receiver of `send` ends for good when its Read meets a refusal, so that a
  `send` started before its `load` may never give back output, although its
  reports arrive once load is up. `RefusalEndsOne` says what this costs at most.
- A report descriptor that could not be read, or not all of it, becomes the
  function's all the same, without a word (`ReportDescriptors`).
- Two runs that overlap, or a foreign HID gadget, shift the hidg numbers, which
  AddHIDFunction does not look at; `AloneOwnsHidg` is about a run by itself.
- `openRealDevice` leaves out alternate settings and `startFFSIO` does not:
  settings that share an endpoint have its file opened twice.

## 6. Not modelled

- `resolveDevice`, flags, YAML and terminal output: functions of their input with
  no state another part could disturb.
- FunctionFS: mount, umount and the files of endpoints. What a mount in use, a
  second instance of the same name or a second open of an endpoint does is the
  kernel's to say, and the code ignores the errors. `FfsReadsBack` reads ep0's
  blobs by the format that the comments in `ffs.go` give; the kernel's own is not
  in the repository. In `InPath` and `OutPath` an FFS file is a file like any
  other.
- Control transfers: ProxyCtrlTransfer and the messages for it have no producer at
  this commit.
- Payloads in `InPath`, `OutPath` and `IpcRecv`: packet sizes and partial
  transfers. The packet format is in `InjectPacket`, with reports of any length.
- hidg numbers after the first; runs that differ only in the run, with the same
  name, in TLC's instances (the theorems of `LifecycleProofs` include them).
- libusb: which of its calls fail, and when, is nondeterminism; enumerating
  devices and decoding strings are left out.

## 7. Plan

What is left, in this order:

1. `Lifecycle` with the FunctionFS mount as a stack at one mount point, once it is
   settled what umount does to a mount in use; all hidg numbers instead of the
   first.
2. `Interfaces` with the endpoint files of startFFSIO, settings that share
   endpoints among them.
3. `InPath` put under `Passthrough` in place of the assumption that the pipe
   drains.
4. Proofs: `TargetNeverRegresses` per socket; that `IpcRecv` with `--recv` is the
   injector `InPath` assumes.
