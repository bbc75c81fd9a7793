------------------------------ MODULE Lifecycle ------------------------------
(***************************************************************************)
(* The gadget of a run of emulate or load, from gadget.Create to the       *)
(* deferred Destroy, on the ConfigFS tree that all runs of the program     *)
(* share. Runs overlap, fail half-way, are signalled, killed or crash, and *)
(* the next one starts on what they left.                                  *)
(*                                                                         *)
(* Of a gadget the tree keeps whether its directory exists, whether it has *)
(* the configuration c.1 and functions, and whether a function is linked   *)
(* into the configuration. All HID and FFS functions of a run are one; the *)
(* mount of FunctionFS is left out. Of the hidg numbers it keeps the first *)
(* one, which belongs to the functions that were made when it was free.    *)
(*                                                                         *)
(* The directories of the tree can be listed and a gadget can be unbound:  *)
(* of the calls whose errors the code ignores, these are taken to succeed. *)
(***************************************************************************)
EXTENDS Naturals, FiniteSets

CONSTANTS
  Run,      \* runs of the program
  Load,     \* those of load; the others are of emulate
  Device,   \* the runs of emulate that open the real device
  Killable, \* the runs that may be killed with SIGKILL
  Name,     \* gadget names, linux_cu_<vid>_<pid>
  nameOf,   \* the name a run uses
  Foreign,  \* a gadget that is not the program's
  NoGadget, \* the UDC is free, or there is no /dev/hidg0
  Retries   \* writes ConnectUDC tries (5 in the program)

ASSUME LifecycleAssumption ==
  /\ Load \subseteq Run
  /\ Device \subseteq Run \ Load
  /\ Killable \subseteq Run
  /\ nameOf \in [Run -> Name]
  /\ Foreign \notin Name
  /\ NoGadget \notin Name \cup {Foreign}
  /\ Retries \in Nat \ {0}

VARIABLES
  exists,     \* gadgets with a directory
  configured, \* those with configs/c.1
  functions,  \* those with a directory under functions/
  linked,     \* those with a function linked into c.1
  udc,        \* the gadget bound to the UDC
  hidg0,      \* the gadget that /dev/hidg0 belongs to
  pc,         \* where a run is
  todo,       \* the names CleanupAll has still to destroy
  victim,     \* the name being destroyed
  next,       \* where the run goes when that is done
  tries,      \* failed writes of ConnectUDC
  handler,    \* the run has called signal.Notify
  cancelled,  \* its context is cancelled
  alone       \* history: no other run was under way since this one began

tree == <<exists, configured, functions, linked, udc, hidg0>>
ctx  == <<handler, cancelled, alone>>
vars == <<exists, configured, functions, linked, udc, hidg0, pc, todo, victim, next, tries,
          handler, cancelled, alone>>

Setup   == {"clean", "stat", "mkdir", "describe", "config", "addfunc", "link", "free", "bind"}
Removal == {"unbind", "unlink", "rmfunc", "rmdir"}
Bound   == {"connected", "running"}
Over    == {"exited", "killed", "crashed"}

Active(r) == pc[r] \notin Over \cup {"new"}

Init ==
  /\ exists = {} /\ configured = {} /\ functions = {} /\ linked = {}
  /\ udc \in {NoGadget, Foreign}
  /\ hidg0 \in {NoGadget, Foreign}
  /\ pc = [r \in Run |-> "new"]
  /\ todo = [r \in Run |-> {}]
  /\ victim = nameOf
  /\ next = [r \in Run |-> "exited"]
  /\ tries = [r \in Run |-> 0]
  /\ handler = [r \in Run |-> FALSE]
  /\ cancelled = [r \in Run |-> FALSE]
  /\ alone = [r \in Run |-> FALSE]

Goto(r, label) == pc' = [pc EXCEPT ![r] = label]

(* Fault: a run that destroys nothing but a gadget of its own name.        *)
BeginWithoutCleanup(r) ==
  /\ pc[r] = "new"
  /\ Goto(r, "clean")
  /\ todo' = [todo EXCEPT ![r] = {}]
  /\ handler' = [handler EXCEPT ![r] = r \notin Load]
  /\ alone' = [s \in Run |-> s = r /\ \A q \in Run : ~Active(q)]
  /\ UNCHANGED <<tree, victim, next, tries, cancelled>>

(* Fault: CleanupAll does not look at the prefix of the names it lists.    *)
BeginListingAll(r) ==
  /\ pc[r] = "new"
  /\ Goto(r, "clean")
  /\ todo' = [todo EXCEPT ![r] = exists \cup ({udc} \ {NoGadget})]
  /\ handler' = [handler EXCEPT ![r] = r \notin Load]
  /\ alone' = [s \in Run |-> s = r /\ \A q \in Run : ~Active(q)]
  /\ UNCHANGED <<tree, victim, next, tries, cancelled>>

(* The run starts. emulate has a signal handler from its first line; load  *)
(* has none until it is connected. Create begins with CleanupAll, which    *)
(* lists the gadgets of the program.                                       *)
Begin(r) ==
  /\ pc[r] = "new"
  /\ Goto(r, "clean")
  /\ todo' = [todo EXCEPT ![r] = exists]
  /\ handler' = [handler EXCEPT ![r] = r \notin Load]
  /\ alone' = [s \in Run |-> s = r /\ \A q \in Run : ~Active(q)]
  /\ UNCHANGED <<tree, victim, next, tries, cancelled>>

-----------------------------------------------------------------------------
(* Destroy(name). Every error on the way is ignored.                       *)

StartDestroy(r, name, after) ==
  /\ Goto(r, "unbind")
  /\ victim' = [victim EXCEPT ![r] = name]
  /\ next' = [next EXCEPT ![r] = after]

(* An empty name is written to its UDC file. The method Destroy does so    *)
(* twice, in Disconnect and in cleanup.                                    *)
Unbind(r) ==
  /\ pc[r] = "unbind"
  /\ udc' = IF udc = victim[r] THEN NoGadget ELSE udc
  /\ Goto(r, "unlink")
  /\ UNCHANGED <<exists, configured, functions, linked, hidg0, todo, victim, next, tries, ctx>>

(* Unlinking a function from a configuration: the kernel unbinds a gadget  *)
(* that loses one.                                                         *)
DropLinks(name) ==
  /\ linked' = linked \ {name}
  /\ udc' = IF udc = name THEN NoGadget ELSE udc

(* The links found in the configurations are removed.                      *)
Unlink(r) ==
  /\ pc[r] = "unlink"
  /\ DropLinks(victim[r])
  /\ Goto(r, "rmfunc")
  /\ UNCHANGED <<exists, configured, functions, hidg0, todo, victim, next, tries, ctx>>

(* RemoveAll of functions/. The kernel keeps a function that is linked.    *)
RmFunctions(r) ==
  /\ pc[r] = "rmfunc"
  /\ IF victim[r] \in linked
       THEN UNCHANGED <<functions, hidg0>>
       ELSE /\ functions' = functions \ {victim[r]}
            /\ hidg0' = IF hidg0 = victim[r] THEN NoGadget ELSE hidg0
  /\ Goto(r, "rmdir")
  /\ UNCHANGED <<exists, configured, linked, udc, todo, victim, next, tries, ctx>>

(* RemoveAll of strings/, then of the gadget. The second walks the whole   *)
(* directory, in one step here: it removes links that another run has made *)
(* in the meantime, then c.1, and the gadget too, unless it comes to a     *)
(* function that is linked before it comes to the link.                    *)
Rmdir(r) ==
  /\ pc[r] = "rmdir"
  /\ DropLinks(victim[r])
  /\ configured' = configured \ {victim[r]}
  /\ \/ /\ exists' = exists \ {victim[r]}
        /\ functions' = functions \ {victim[r]}
        /\ hidg0' = IF hidg0 = victim[r] THEN NoGadget ELSE hidg0
     \/ victim[r] \in linked /\ UNCHANGED <<exists, functions, hidg0>>
  /\ Goto(r, next[r])
  /\ UNCHANGED <<todo, victim, next, tries, ctx>>

-----------------------------------------------------------------------------
(* gadget.Create                                                           *)

(* CleanupAll destroys one gadget of its list after the other.             *)
Cleanup(r) ==
  /\ pc[r] = "clean"
  /\ IF todo[r] = {}
       THEN Goto(r, "stat") /\ UNCHANGED <<todo, victim, next>>
       ELSE \E name \in todo[r] :
              /\ todo' = [todo EXCEPT ![r] = @ \ {name}]
              /\ StartDestroy(r, name, "clean")
  /\ UNCHANGED <<tree, tries, ctx>>

(* A gadget of the run's own name is destroyed.                            *)
Stat(r) ==
  /\ pc[r] = "stat"
  /\ IF nameOf[r] \in exists
       THEN StartDestroy(r, nameOf[r], "mkdir")
       ELSE Goto(r, "mkdir") /\ UNCHANGED <<victim, next>>
  /\ UNCHANGED <<tree, todo, tries, ctx>>

(* The directory of the gadget, which MkdirAll is content to find.         *)
Mkdir(r) ==
  /\ pc[r] = "mkdir"
  /\ exists' = exists \cup {nameOf[r]}
  /\ Goto(r, "describe")
  /\ UNCHANGED <<configured, functions, linked, udc, hidg0, todo, victim, next, tries, ctx>>

(* It cannot be made: Create returns at once.                              *)
MkdirFails(r) ==
  /\ pc[r] = "mkdir"
  /\ Goto(r, "exited")
  /\ UNCHANGED <<tree, todo, victim, next, tries, ctx>>

(* The descriptors that must be written.                                   *)
Describe(r) ==
  /\ pc[r] = "describe"
  /\ nameOf[r] \in exists
  /\ Goto(r, "config")
  /\ UNCHANGED <<tree, todo, victim, next, tries, ctx>>

(* configs/c.1, with every directory above it that has gone missing.       *)
Configure(r) ==
  /\ pc[r] = "config"
  /\ exists' = exists \cup {nameOf[r]}
  /\ configured' = configured \cup {nameOf[r]}
  /\ Goto(r, "addfunc")
  /\ UNCHANGED <<functions, linked, udc, hidg0, todo, victim, next, tries, ctx>>

(* NewHIDFunction, NewFFSFunction: MkdirAll likewise. The kernel gives a   *)
(* new HID function the first hidg number that is free.                    *)
AddFunction(r) ==
  /\ pc[r] = "addfunc"
  /\ exists' = exists \cup {nameOf[r]}
  /\ functions' = functions \cup {nameOf[r]}
  /\ hidg0' = IF nameOf[r] \notin functions /\ hidg0 = NoGadget THEN nameOf[r] ELSE hidg0
  /\ Goto(r, "link")
  /\ UNCHANGED <<configured, linked, udc, todo, victim, next, tries, ctx>>

(* AddHIDFunction, AddFFSFunction: the link into c.1.                      *)
Link(r) ==
  /\ pc[r] = "link"
  /\ nameOf[r] \in configured \cap functions
  /\ linked' = linked \cup {nameOf[r]}
  /\ Goto(r, "free")
  /\ UNCHANGED <<exists, configured, functions, udc, hidg0, todo, victim, next, tries, ctx>>

(* Fault: freeUDC frees the UDC of gadgets of the program only.            *)
FreeUDCOwn(r) ==
  /\ pc[r] = "free"
  /\ udc' = IF udc \in Name THEN NoGadget ELSE udc
  /\ Goto(r, "bind")
  /\ UNCHANGED <<exists, configured, functions, linked, hidg0, todo, victim, next, tries, ctx>>

(* ConnectUDC: freeUDC unbinds whoever holds the UDC.                      *)
FreeUDC(r) ==
  /\ pc[r] = "free"
  /\ udc' = NoGadget
  /\ Goto(r, "bind")
  /\ UNCHANGED <<exists, configured, functions, linked, hidg0, todo, victim, next, tries, ctx>>

(* ConnectUDC: the write that binds the gadget. The kernel wants the UDC   *)
(* free and a function in the configuration.                               *)
Bind(r) ==
  /\ pc[r] = "bind"
  /\ udc = NoGadget /\ nameOf[r] \in linked
  /\ udc' = nameOf[r]
  /\ Goto(r, "connected")
  /\ UNCHANGED <<exists, configured, functions, linked, hidg0, todo, victim, next, tries, ctx>>

(* The run goes on to move reports. load has its signal handler from here; *)
(* emulate has had one all along.                                          *)
Notify(r) ==
  /\ pc[r] = "connected"
  /\ handler' = [handler EXCEPT ![r] = TRUE]
  /\ Goto(r, "running")
  /\ UNCHANGED <<tree, todo, victim, next, tries, cancelled, alone>>

(* Fault: ConnectUDC starts to count again instead of giving up.           *)
BindRetriesForever(r) ==
  /\ pc[r] = "bind"
  /\ tries' = [tries EXCEPT ![r] = (@ + 1) % Retries]
  /\ UNCHANGED <<tree, pc, todo, victim, next, ctx>>

(* ConnectUDC: the write failed, because the UDC is taken or for a reason   *)
(* of the kernel's; after the last try the run gives up.                   *)
BindFails(r) ==
  /\ pc[r] = "bind"
  /\ tries' = [tries EXCEPT ![r] = @ + 1]
  /\ IF tries[r] + 1 < Retries
       THEN UNCHANGED <<pc, victim, next>>
       ELSE StartDestroy(r, nameOf[r], "exited")
  /\ UNCHANGED <<tree, todo, ctx>>

(* The steps after which an error leaves a gadget to be removed.           *)
MayFail == {"describe", "config", "addfunc", "link", "free"}

(* Fault: an error on the way does not destroy the gadget.                 *)
FailWithoutDestroy(r) ==
  /\ pc[r] \in MayFail
  /\ Goto(r, "exited")
  /\ UNCHANGED <<tree, todo, victim, next, tries, ctx>>

(* A step of the set-up fails, as it must when another run has destroyed   *)
(* the gadget: Create calls cleanup, later errors run the deferred Destroy. *)
Fail(r) ==
  /\ pc[r] \in MayFail
  /\ StartDestroy(r, nameOf[r], "exited")
  /\ UNCHANGED <<tree, todo, tries, ctx>>

-----------------------------------------------------------------------------
(* Fault: the deferred call is CleanupAll.                                 *)
LeaveWithCleanupAll(r) ==
  /\ pc[r] = "running"
  /\ cancelled[r]
  /\ \E name \in exists : StartDestroy(r, name, "exited")
  /\ UNCHANGED <<tree, todo, tries, ctx>>

(* <-pipeCtx.Done() returns. A run without a real device goes on to the    *)
(* deferred Destroy.                                                       *)
Leave(r) ==
  /\ pc[r] = "running"
  /\ cancelled[r]
  /\ r \notin Device
  /\ StartDestroy(r, nameOf[r], "exited")
  /\ UNCHANGED <<tree, todo, tries, ctx>>

(* The deferred devHandle.Close comes first.                               *)
CloseDevice(r) ==
  /\ pc[r] = "running"
  /\ cancelled[r]
  /\ r \in Device
  /\ StartDestroy(r, nameOf[r], "exited")
  /\ UNCHANGED <<tree, todo, tries, ctx>>

(* It closes the handle under pollEndpoint and forwardOutToRealDevice,     *)
(* which nobody has waited for and which use it without a lock: a transfer *)
(* on the freed or nil handle ends the process, deferred calls and all.    *)
CrashOnClose(r) ==
  /\ pc[r] = "running"
  /\ cancelled[r]
  /\ r \in Device
  /\ Goto(r, "crashed")
  /\ UNCHANGED <<tree, todo, victim, next, tries, ctx>>

(* SIGINT or SIGTERM: the handler cancels the context; without one the     *)
(* signal ends the process. Only the first signal counts.                  *)
Signal(r) ==
  /\ Active(r) /\ ~cancelled[r]
  /\ IF handler[r]
       THEN cancelled' = [cancelled EXCEPT ![r] = TRUE] /\ UNCHANGED pc
       ELSE Goto(r, "killed") /\ UNCHANGED cancelled
  /\ UNCHANGED <<tree, todo, victim, next, tries, handler, alone>>

(* SIGKILL, at any moment.                                                 *)
Killed(r) ==
  /\ Active(r) /\ r \in Killable
  /\ Goto(r, "killed")
  /\ UNCHANGED <<tree, todo, victim, next, tries, ctx>>

Finished == (\A r \in Run : pc[r] \in Over) /\ UNCHANGED vars

Destroy(r) == Unbind(r) \/ Unlink(r) \/ RmFunctions(r) \/ Rmdir(r)
Create(r) ==
  \/ Cleanup(r) \/ Stat(r) \/ Mkdir(r) \/ MkdirFails(r)
  \/ Describe(r) \/ Configure(r) \/ AddFunction(r) \/ Link(r)
ConnectUDC(r) == FreeUDC(r) \/ Bind(r) \/ BindFails(r)
Exit(r) == Leave(r) \/ CloseDevice(r) \/ CrashOnClose(r)

(* What a run does of itself.                                              *)
Step(r) == Create(r) \/ ConnectUDC(r) \/ Notify(r) \/ Destroy(r) \/ Fail(r) \/ Exit(r)

Next ==
  \/ \E r \in Run : Begin(r) \/ Step(r) \/ Signal(r) \/ Killed(r)
  \/ Finished

Spec == Init /\ [][Next]_vars
FairSpec == Spec /\ \A r \in Run : WF_vars(Step(r))

-----------------------------------------------------------------------------
(* Types. Whatever the runs do to each other, a linked gadget has all that *)
(* a link needs, only a linked one of the program is bound, and no run ever *)
(* sets out to destroy a gadget that is not the program's.                 *)
TypeOK ==
  /\ exists \subseteq Name
  /\ configured \subseteq exists /\ functions \subseteq exists
  /\ linked \subseteq configured \cap functions
  /\ udc \in linked \cup {NoGadget, Foreign}
  /\ hidg0 \in functions \cup {NoGadget, Foreign}
  /\ pc \in [Run -> {"new"} \cup Setup \cup Bound \cup Removal \cup Over]
  /\ todo \in [Run -> SUBSET Name]
  /\ victim \in [Run -> Name]
  /\ next \in [Run -> {"clean", "mkdir", "exited"}]
  /\ tries \in [Run -> 0..Retries]
  /\ handler \in [Run -> BOOLEAN] /\ cancelled \in [Run -> BOOLEAN]
  /\ alone \in [Run -> BOOLEAN]

(* When all runs have returned from main, or one that no other disturbed,  *)
(* there is no gadget left: however they overlapped or failed half-way,    *)
(* and, undisturbed, whatever killed runs had left.                        *)
ExitsClean ==
  (\/ \A r \in Run : pc[r] \in {"exited", "new"}
   \/ \E r \in Run : alone[r] /\ pc[r] = "exited") => exists = {}

(* README: the gadget is destroyed when the program exits, whichever way   *)
(* short of SIGKILL.                                                       *)
NoLeftover == (\A r \in Run : pc[r] \in Over \cup {"new"}) => exists = {}

(* A run that no other disturbs never finds the UDC taken when it writes   *)
(* to it, and finds its function linked: its gadget is by then the only    *)
(* one of the program, and stays the one connected, whatever earlier runs  *)
(* left behind, a half-made, a half-destroyed or a connected gadget, and   *)
(* whoever held the UDC. (A foreign gadget that freeUDC unbound is not     *)
(* bound again by its owner.)                                              *)
AloneBinds ==
  \A r \in Run : (alone[r] /\ pc[r] \in {"bind"} \cup Bound) =>
    /\ exists = {nameOf[r]} /\ linked = {nameOf[r]}
    /\ udc = IF pc[r] = "bind" THEN NoGadget ELSE nameOf[r]

(* AddHIDFunction takes it that /dev/hidgN is the N-th function of its own *)
(* gadget, but the kernel numbers over all gadgets. For a run that no      *)
(* other of the program disturbs it is right, whatever was left behind,    *)
(* unless a foreign gadget has the first number.                           *)
AloneOwnsHidg ==
  \A r \in Run : (alone[r] /\ pc[r] = "running") => hidg0 \in {nameOf[r], Foreign}

(* A run that leaves does not take down the gadget of another one, unless  *)
(* they use the same name.                                                 *)
LeavesOthers ==
  [][\A q, r \in Run :
       (/\ pc[q] \in Removal /\ next[q] = "exited"
        /\ pc'[q] # pc[q]
        /\ nameOf[q] # nameOf[r] /\ pc[r] \in Bound)
       => (udc = nameOf[r] => udc' = nameOf[r])]_vars

(* A run that was interrupted ends, wherever in its set-up or its loop the *)
(* signal found it.                                                        *)
SignalEnds == \A r \in Run : cancelled[r] ~> pc[r] \in Over
=============================================================================
