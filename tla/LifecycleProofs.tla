--------------------------- MODULE LifecycleProofs ---------------------------
(***************************************************************************)
(* What the life cycle guarantees for every number of runs, for one device *)
(* or several, and every number of tries of ConnectUDC.                    *)
(***************************************************************************)
EXTENDS Lifecycle, TLAPS

(* Types, whom a leaving run destroys, and that a run with no try left is  *)
(* leaving or over.                                                        *)
VictimOwn == \A r \in Run : (pc[r] \in Removal /\ next[r] = "exited") => victim[r] = nameOf[r]

TriesLeft ==
  \A r \in Run :
    tries[r] < Retries \/ pc[r] \in Over \/ (pc[r] \in Removal /\ next[r] = "exited")

TypeInv == TypeOK /\ VictimOwn /\ TriesLeft

-----------------------------------------------------------------------------
LEMMA InitType == Init => TypeInv
<1> SUFFICES ASSUME Init PROVE TypeInv
  OBVIOUS
<1> USE LifecycleAssumption DEF LifecycleAssumption, Init
<1>1. 0 \in 0..Retries /\ 0 < Retries
  OBVIOUS
<1>2. TypeOK
  BY <1>1 DEF TypeOK, Over, Setup, Removal
<1>3. VictimOwn /\ TriesLeft
  BY <1>1 DEF VictimOwn, TriesLeft, Removal
<1> QED BY <1>2, <1>3 DEF TypeInv

LEMMA StartDestroyType ==
  ASSUME TypeInv, NEW r \in Run, NEW name \in Name, NEW after \in {"clean", "mkdir", "exited"},
         after = "exited" => name = nameOf[r],
         StartDestroy(r, name, after),
         tries' \in [Run -> 0..Retries], \A q \in Run : q # r => tries'[q] = tries[q],
         after # "exited" => tries' = tries /\ pc[r] \in Setup,
         UNCHANGED <<exists, configured, functions, linked, udc, hidg0, ctx>>,
         todo' \in [Run -> SUBSET Name]
  PROVE  TypeInv'
<1> USE LifecycleAssumption
    DEF LifecycleAssumption, TypeInv, StartDestroy, Goto, Setup, Bound, Removal, Over, ctx
<1>1. TypeOK'
  BY DEF TypeOK
<1>2. VictimOwn'
  BY DEF TypeOK, VictimOwn
<1>3. TriesLeft'
  BY DEF TypeOK, TriesLeft
<1> QED BY <1>1, <1>2, <1>3

LEMMA BeginType == ASSUME TypeInv, NEW r \in Run, Begin(r) PROVE TypeInv'
  BY LifecycleAssumption
  DEF LifecycleAssumption, TypeInv, TypeOK, VictimOwn, TriesLeft, Begin, Goto, tree, Setup,
      Bound, Removal, Over

LEMMA CreateType == ASSUME TypeInv, NEW r \in Run, Create(r) PROVE TypeInv'
<1> USE LifecycleAssumption DEF LifecycleAssumption, tree, ctx
<1>1. CASE Cleanup(r)
  <2>1. CASE todo[r] = {}
    BY <1>1, <2>1 DEF TypeInv, TypeOK, VictimOwn, TriesLeft, Cleanup, Goto, Setup, Bound,
                      Removal, Over
  <2>2. CASE todo[r] # {}
    <3>1. PICK name \in todo[r] : /\ todo' = [todo EXCEPT ![r] = @ \ {name}]
                                  /\ StartDestroy(r, name, "clean")
      BY <1>1, <2>2 DEF Cleanup
    <3>2. name \in Name /\ todo' \in [Run -> SUBSET Name] /\ tries \in [Run -> 0..Retries]
      BY <3>1 DEF TypeInv, TypeOK
    <3> QED BY <1>1, <3>1, <3>2, StartDestroyType DEF Cleanup, Setup
  <2> QED BY <2>1, <2>2
<1>2. CASE Stat(r)
  <2>1. CASE nameOf[r] \in exists
    <3>1. nameOf[r] \in Name /\ tries \in [Run -> 0..Retries] /\ todo \in [Run -> SUBSET Name]
      BY DEF TypeInv, TypeOK
    <3> QED BY <1>2, <2>1, <3>1, StartDestroyType DEF Stat, Setup
  <2>2. CASE nameOf[r] \notin exists
    BY <1>2, <2>2 DEF TypeInv, TypeOK, VictimOwn, TriesLeft, Stat, Goto, Setup, Bound, Removal,
                      Over
  <2> QED BY <2>1, <2>2
<1>3. CASE Mkdir(r)
  BY <1>3 DEF TypeInv, TypeOK, VictimOwn, TriesLeft, Mkdir, Goto, Setup, Bound, Removal, Over
<1>4. CASE MkdirFails(r)
  BY <1>4 DEF TypeInv, TypeOK, VictimOwn, TriesLeft, MkdirFails, Goto, Setup, Bound, Removal,
              Over
<1>5. CASE Describe(r)
  BY <1>5 DEF TypeInv, TypeOK, VictimOwn, TriesLeft, Describe, Goto, Setup, Bound, Removal, Over
<1>6. CASE Configure(r)
  BY <1>6 DEF TypeInv, TypeOK, VictimOwn, TriesLeft, Configure, Goto, Setup, Bound, Removal, Over
<1>7. CASE AddFunction(r)
  BY <1>7 DEF TypeInv, TypeOK, VictimOwn, TriesLeft, AddFunction, Goto, Setup, Bound, Removal,
              Over
<1>8. CASE Link(r)
  BY <1>8 DEF TypeInv, TypeOK, VictimOwn, TriesLeft, Link, Goto, Setup, Bound, Removal, Over
<1> QED BY <1>1, <1>2, <1>3, <1>4, <1>5, <1>6, <1>7, <1>8 DEF Create

LEMMA ConnectType == ASSUME TypeInv, NEW r \in Run, ConnectUDC(r) PROVE TypeInv'
<1> USE LifecycleAssumption DEF LifecycleAssumption, tree, ctx
<1>1. CASE FreeUDC(r)
  BY <1>1 DEF TypeInv, TypeOK, VictimOwn, TriesLeft, FreeUDC, Goto, Setup, Bound, Removal, Over
<1>2. CASE Bind(r)
  BY <1>2 DEF TypeInv, TypeOK, VictimOwn, TriesLeft, Bind, Goto, Setup, Bound, Removal, Over
<1>3. CASE BindFails(r)
  <2>1. /\ tries' = [tries EXCEPT ![r] = @ + 1] /\ tries[r] < Retries
        /\ tries \in [Run -> 0..Retries]
    BY <1>3 DEF TypeInv, TypeOK, TriesLeft, BindFails, Over, Removal
  <2>2. tries' \in [Run -> 0..Retries] /\ \A q \in Run : q # r => tries'[q] = tries[q]
    BY <2>1
  <2>3. CASE tries[r] + 1 < Retries
    <3>1. tries'[r] < Retries /\ UNCHANGED <<pc, victim, next>>
      BY <1>3, <2>1, <2>3 DEF BindFails
    <3> QED BY <1>3, <2>2, <3>1 DEF TypeInv, TypeOK, VictimOwn, TriesLeft, BindFails
  <2>4. CASE ~(tries[r] + 1 < Retries)
    <3>1. StartDestroy(r, nameOf[r], "exited")
      BY <1>3, <2>4 DEF BindFails
    <3>2. nameOf[r] \in Name /\ todo' \in [Run -> SUBSET Name]
      BY <1>3 DEF TypeInv, TypeOK, BindFails
    <3> QED BY <1>3, <2>2, <3>1, <3>2, StartDestroyType DEF BindFails
  <2> QED BY <2>3, <2>4
<1> QED BY <1>1, <1>2, <1>3 DEF ConnectUDC

LEMMA DestroyType == ASSUME TypeInv, NEW r \in Run, Destroy(r) PROVE TypeInv'
<1> USE LifecycleAssumption DEF LifecycleAssumption, tree, ctx
<1>1. CASE Unbind(r)
  BY <1>1 DEF TypeInv, TypeOK, VictimOwn, TriesLeft, Unbind, Goto, Setup, Bound, Removal, Over
<1>2. CASE Unlink(r)
  BY <1>2 DEF TypeInv, TypeOK, VictimOwn, TriesLeft, Unlink, DropLinks, Goto, Setup, Bound,
              Removal, Over
<1>3. CASE RmFunctions(r)
  BY <1>3 DEF TypeInv, TypeOK, VictimOwn, TriesLeft, RmFunctions, Goto, Setup, Bound, Removal,
              Over
<1>4. CASE Rmdir(r)
  <2>1. next[r] \in {"clean", "mkdir", "exited"} /\ pc' = [pc EXCEPT ![r] = next[r]]
    BY <1>4 DEF TypeInv, TypeOK, Rmdir, Goto
  <2>2. /\ linked' = linked \ {victim[r]} /\ configured' = configured \ {victim[r]}
        /\ udc' = IF udc = victim[r] THEN NoGadget ELSE udc
    BY <1>4 DEF Rmdir, DropLinks
  <2>3. /\ exists' \subseteq exists
        /\ configured' \subseteq exists' /\ functions' \subseteq exists'
        /\ linked' \subseteq configured' \cap functions'
        /\ hidg0' \in functions' \cup {NoGadget, Foreign}
    BY <1>4, <2>2 DEF TypeInv, TypeOK, Rmdir
  <2>4. udc' \in linked' \cup {NoGadget, Foreign}
    BY <2>2 DEF TypeInv, TypeOK
  <2>5. TypeOK'
    BY <1>4, <2>1, <2>3, <2>4 DEF TypeInv, TypeOK, Rmdir, Setup, Bound, Removal, Over
  <2>6. VictimOwn' /\ TriesLeft'
    BY <1>4, <2>1 DEF TypeInv, TypeOK, VictimOwn, TriesLeft, Rmdir, Removal, Over
  <2> QED BY <2>5, <2>6 DEF TypeInv
<1> QED BY <1>1, <1>2, <1>3, <1>4 DEF Destroy

LEMMA NotifyType == ASSUME TypeInv, NEW r \in Run, Notify(r) PROVE TypeInv'
  BY DEF TypeInv, TypeOK, VictimOwn, TriesLeft, Notify, Goto, tree, Setup, Bound, Removal, Over

LEMMA LeaveType == ASSUME TypeInv, NEW r \in Run, Fail(r) \/ Exit(r) PROVE TypeInv'
<1> USE LifecycleAssumption DEF LifecycleAssumption, tree, ctx
<1>1. CASE Fail(r) \/ Leave(r) \/ CloseDevice(r)
  <2>1. /\ StartDestroy(r, nameOf[r], "exited")
        /\ UNCHANGED <<tree, todo, tries, ctx>>
    BY <1>1 DEF Fail, Leave, CloseDevice
  <2>2. nameOf[r] \in Name /\ tries' \in [Run -> 0..Retries] /\ todo' \in [Run -> SUBSET Name]
    BY <2>1 DEF TypeInv, TypeOK
  <2> QED BY <2>1, <2>2, StartDestroyType
<1>2. CASE CrashOnClose(r)
  BY <1>2 DEF TypeInv, TypeOK, VictimOwn, TriesLeft, CrashOnClose, Goto, Setup, Bound, Removal,
              Over
<1> QED BY <1>1, <1>2 DEF Exit

LEMMA SignalType == ASSUME TypeInv, NEW r \in Run, Signal(r) \/ Killed(r) PROVE TypeInv'
<1> USE DEF tree, ctx
<1>1. CASE Signal(r)
  BY <1>1 DEF TypeInv, TypeOK, VictimOwn, TriesLeft, Signal, Goto, Setup, Bound, Removal, Over
<1>2. CASE Killed(r)
  BY <1>2 DEF TypeInv, TypeOK, VictimOwn, TriesLeft, Killed, Goto, Setup, Bound, Removal, Over
<1> QED BY <1>1, <1>2

LEMMA StepType == TypeInv /\ [Next]_vars => TypeInv'
<1> SUFFICES ASSUME TypeInv, [Next]_vars PROVE TypeInv'
  OBVIOUS
<1>1. CASE UNCHANGED vars
  BY <1>1 DEF TypeInv, TypeOK, VictimOwn, TriesLeft, vars
<1> QED
  BY <1>1, BeginType, CreateType, ConnectType, NotifyType, DestroyType, LeaveType, SignalType
  DEF Next, Step, Finished

(* The types hold of every reachable state: whichever runs overlap, fail   *)
(* or are killed, what is linked has what a link needs, and nothing of the *)
(* program is bound that is not linked.                                    *)
THEOREM TypeCorrect == Spec => []TypeOK
<1>1. TypeInv => TypeOK
  BY DEF TypeInv
<1> QED BY <1>1, InitType, StepType, PTL DEF Spec

-----------------------------------------------------------------------------
(* A run that leaves destroys no gadget but its own: LeavesOthers.         *)
LEMMA LeaveStep ==
  ASSUME TypeInv, [Next]_vars, NEW q \in Run, NEW r \in Run,
         pc[q] \in Removal, next[q] = "exited", pc'[q] # pc[q],
         nameOf[q] # nameOf[r], udc = nameOf[r]
  PROVE  udc' = nameOf[r]
<1>1. victim[q] = nameOf[q] /\ pc' # pc
  BY DEF TypeInv, VictimOwn
<1>2. PICK s \in Run : Begin(s) \/ Step(s) \/ Signal(s) \/ Killed(s)
  BY <1>1 DEF Next, Finished, vars
<1>3. s = q
  <2>1. \E t : pc' = [pc EXCEPT ![s] = t]
    BY <1>1, <1>2
    DEF Begin, Step, Signal, Killed, Create, Cleanup, Stat, Mkdir, MkdirFails, Describe,
    Configure,
        AddFunction, Link, ConnectUDC, FreeUDC, Bind, BindFails, Destroy, Unbind, Unlink,
        RmFunctions, Rmdir, Notify,
        Fail, Exit, Leave, CloseDevice, CrashOnClose, StartDestroy, Goto
  <2> QED BY <2>1 DEF TypeInv, TypeOK
<1>4. Destroy(q) \/ Signal(q) \/ Killed(q)
  BY <1>2, <1>3
  DEF Begin, Step, Create, Cleanup, Stat, Mkdir, MkdirFails, Describe, Configure, AddFunction,
  Link,
      ConnectUDC, FreeUDC, Bind, BindFails, Notify, Fail, MayFail, Exit, Leave, CloseDevice,
      CrashOnClose, Removal
<1> QED BY <1>1, <1>4
        DEF Destroy, Unbind, Unlink, DropLinks, RmFunctions, Rmdir, Signal, Killed, tree

(* The deferred Destroy of a run that leaves never takes the UDC from a    *)
(* running gadget of another name, for any number of runs.                 *)
THEOREM LeavesCorrect == Spec => LeavesOthers
<1>1. TypeInv /\ [Next]_vars =>
        [\A q, r \in Run :
           (/\ pc[q] \in Removal /\ next[q] = "exited"
            /\ pc'[q] # pc[q]
            /\ nameOf[q] # nameOf[r] /\ pc[r] \in Bound)
           => (udc = nameOf[r] => udc' = nameOf[r])]_vars
  BY LeaveStep
<1> QED BY <1>1, InitType, StepType, PTL DEF Spec, LeavesOthers

-----------------------------------------------------------------------------
(* The strengthening of ExitsClean for runs that overlap: for every gadget *)
(* there is a run of its name that has still to remove it, or that was     *)
(* killed; and for every linked one a run that has still to unlink it.     *)
Owns(r) ==
  \/ pc[r] \in {"describe", "config", "addfunc", "link", "free", "bind", "connected", "running",
              "killed", "crashed"}
  \/ pc[r] \in Removal /\ next[r] = "exited"

Unlinks(r) ==
  \/ pc[r] \in {"free", "bind", "connected", "running", "killed", "crashed"}
  \/ pc[r] \in {"unbind", "unlink"} /\ next[r] = "exited"

Owned ==
  /\ \A name \in exists : \E r \in Run : nameOf[r] = name /\ Owns(r)
  /\ \A name \in linked : \E r \in Run : nameOf[r] = name /\ Unlinks(r)

OwnedInv == TypeInv /\ Owned

(* A step of r that leaves the tree alone or adds to it what r is to       *)
(* remove, and after which r is still to remove what it was before.        *)
LEMMA OwnedKeeps ==
  ASSUME OwnedInv, NEW r \in Run,
         \A q \in Run \ {r} : pc'[q] = pc[q] /\ next'[q] = next[q],
         Owns(r) => Owns(r)', Unlinks(r) => Unlinks(r)',
         exists' \subseteq exists \/ (exists' \subseteq exists \cup {nameOf[r]} /\ Owns(r)'),
         linked' \subseteq linked \/ (linked' \subseteq linked \cup {nameOf[r]} /\ Unlinks(r)')
  PROVE  Owned'
<1>1. \A q \in Run : (Owns(q) => Owns(q)') /\ (Unlinks(q) => Unlinks(q)')
  BY DEF Owns, Unlinks
<1>2. ASSUME NEW name \in exists' PROVE \E q \in Run : nameOf[q] = name /\ Owns(q)'
  BY <1>1, <1>2 DEF OwnedInv, Owned
<1>3. ASSUME NEW name \in linked' PROVE \E q \in Run : nameOf[q] = name /\ Unlinks(q)'
  BY <1>1, <1>3 DEF OwnedInv, Owned
<1> QED BY <1>2, <1>3 DEF Owned

LEMMA OwnedBegin == ASSUME OwnedInv, NEW r \in Run, Begin(r) PROVE Owned'
  BY OwnedKeeps DEF OwnedInv, TypeInv, TypeOK, Owns, Unlinks, Begin, Goto, tree, Removal

LEMMA OwnedCreate == ASSUME OwnedInv, NEW r \in Run, Create(r) PROVE Owned'
<1> USE DEF OwnedInv, TypeInv, TypeOK, Owns, Unlinks, Goto, StartDestroy, tree, Removal
<1>1. CASE Cleanup(r)
  BY <1>1, OwnedKeeps DEF Cleanup
<1>2. CASE Stat(r)
  BY <1>2, OwnedKeeps DEF Stat
<1>3. CASE Mkdir(r) \/ MkdirFails(r)
  BY <1>3, OwnedKeeps DEF Mkdir, MkdirFails
<1>4. CASE Describe(r) \/ Configure(r)
  BY <1>4, OwnedKeeps DEF Describe, Configure
<1>5. CASE AddFunction(r)
  BY <1>5, OwnedKeeps DEF AddFunction
<1>6. CASE Link(r)
  BY <1>6, OwnedKeeps DEF Link
<1> QED BY <1>1, <1>2, <1>3, <1>4, <1>5, <1>6 DEF Create

LEMMA OwnedConnect == ASSUME OwnedInv, NEW r \in Run, ConnectUDC(r) \/ Notify(r) PROVE Owned'
<1> USE DEF OwnedInv, TypeInv, TypeOK, Owns, Unlinks, Goto, StartDestroy, tree, Removal
<1>1. CASE FreeUDC(r) \/ Bind(r)
  BY <1>1, OwnedKeeps DEF FreeUDC, Bind
<1>2. CASE BindFails(r)
  BY <1>2, OwnedKeeps DEF BindFails
<1>3. CASE Notify(r)
  BY <1>3, OwnedKeeps DEF Notify
<1> QED BY <1>1, <1>2, <1>3 DEF ConnectUDC

LEMMA OwnedLeave ==
  ASSUME OwnedInv, NEW r \in Run, Fail(r) \/ Exit(r) \/ Signal(r) \/ Killed(r)
  PROVE  Owned'
<1> USE DEF OwnedInv, TypeInv, TypeOK, Owns, Unlinks, Goto, StartDestroy, tree, Removal
<1>1. CASE Fail(r)
  BY <1>1, OwnedKeeps DEF Fail, MayFail
<1>2. CASE Exit(r)
  BY <1>2, OwnedKeeps DEF Exit, Leave, CloseDevice, CrashOnClose
<1>3. CASE Signal(r) \/ Killed(r)
  BY <1>3, OwnedKeeps DEF Signal, Killed
<1> QED BY <1>1, <1>2, <1>3

(* A gadget that another run links again while r removes it stays, and is  *)
(* for that run to remove.                                                 *)
LEMMA OwnedDestroy == ASSUME OwnedInv, NEW r \in Run, Destroy(r) PROVE Owned'
<1>1. CASE Unbind(r)
  BY <1>1, OwnedKeeps DEF OwnedInv, TypeInv, TypeOK, Owns, Unlinks, Goto, Unbind, Removal
<1>2. CASE Unlink(r)
  <2>1. \A q \in Run \ {r} : (Owns(q) => Owns(q)') /\ (Unlinks(q) => Unlinks(q)')
    BY <1>2 DEF OwnedInv, TypeInv, TypeOK, Owns, Unlinks, Goto, Unlink
  <2>2. Owns(r) => Owns(r)'
    BY <1>2 DEF OwnedInv, TypeInv, TypeOK, Owns, Goto, Unlink, Removal
  <2>3. ASSUME NEW name \in linked' PROVE \E q \in Run : nameOf[q] = name /\ Unlinks(q)'
    <3>1. name \in linked /\ name # victim[r]
      BY <1>2, <2>3 DEF Unlink, DropLinks
    <3>2. PICK q \in Run : nameOf[q] = name /\ Unlinks(q)
      BY <3>1 DEF OwnedInv, Owned
    <3>3. q # r
      BY <1>2, <3>1, <3>2 DEF OwnedInv, TypeInv, VictimOwn, Unlinks, Unlink, Removal
    <3> QED BY <2>1, <3>2, <3>3
  <2>4. exists' = exists
    BY <1>2 DEF Unlink
  <2> QED BY <2>1, <2>2, <2>3, <2>4 DEF OwnedInv, Owned
<1>3. CASE RmFunctions(r)
  BY <1>3, OwnedKeeps DEF OwnedInv, TypeInv, TypeOK, Owns, Unlinks, Goto, RmFunctions, Removal
<1>4. CASE Rmdir(r)
  <2>1. \A q \in Run \ {r} : (Owns(q) => Owns(q)') /\ (Unlinks(q) => Unlinks(q)')
    BY <1>4 DEF OwnedInv, TypeInv, TypeOK, Owns, Unlinks, Goto, Rmdir
  <2>2. ~Unlinks(r) /\ linked' \subseteq linked
    BY <1>4 DEF Unlinks, Rmdir, DropLinks
  <2>3. \A name \in linked : \E q \in Run \ {r} : nameOf[q] = name /\ Unlinks(q)
    BY <2>2 DEF OwnedInv, Owned
  <2>4. \A q \in Run : Unlinks(q) => Owns(q)
    BY DEF Unlinks, Owns, Removal
  <2>5. ASSUME NEW name \in exists' PROVE \E q \in Run : nameOf[q] = name /\ Owns(q)'
    <3>1. CASE name \in linked
      BY <2>1, <2>3, <2>4, <3>1
    <3>2. CASE name \notin linked
      <4>1. name \in exists /\ name # victim[r]
        BY <1>4, <2>5, <3>2 DEF Rmdir
      <4>2. PICK q \in Run : nameOf[q] = name /\ Owns(q)
        BY <4>1 DEF OwnedInv, Owned
      <4>3. q # r
        BY <1>4, <4>1, <4>2 DEF OwnedInv, TypeInv, VictimOwn, Owns, Rmdir, Removal
      <4> QED BY <2>1, <4>2, <4>3
    <3> QED BY <3>1, <3>2
  <2> QED BY <2>1, <2>2, <2>3, <2>5 DEF Owned
<1> QED BY <1>1, <1>2, <1>3, <1>4 DEF Destroy

LEMMA StepOwned == OwnedInv /\ [Next]_vars => OwnedInv'
<1> SUFFICES ASSUME OwnedInv, [Next]_vars PROVE Owned'
  BY StepType DEF OwnedInv
<1>1. CASE UNCHANGED vars
  BY <1>1 DEF OwnedInv, Owned, Owns, Unlinks, vars
<1> QED
  BY <1>1, OwnedBegin, OwnedCreate, OwnedConnect, OwnedLeave, OwnedDestroy DEF Next, Step,
                                                                               Finished

-----------------------------------------------------------------------------
(* The strengthening of AloneBinds, of AloneOwnsHidg and of the other   *)
(* half of ExitsClean: what the tree is like at each point of a run that   *)
(* no other disturbs.                                                      *)
Undisturbed(r) ==
  /\ pc[r] = "clean" => exists \subseteq todo[r]
  /\ pc[r] \in Removal =>
       /\ next[r] = "clean" => exists \subseteq todo[r] \cup {victim[r]}
       /\ next[r] # "mkdir"
       /\ next[r] = "exited" => exists \subseteq {nameOf[r]}
  /\ pc[r] \in {"rmfunc", "rmdir"} => victim[r] \notin linked
  /\ pc[r] \in {"stat", "mkdir", "exited"} => exists = {}
  /\ pc[r] \in {"describe", "config", "addfunc", "link", "free", "bind"} \cup Bound =>
       exists = {nameOf[r]}
  /\ pc[r] \in {"describe", "config", "addfunc"} => functions = {}
  /\ pc[r] \in {"link", "free", "bind"} \cup Bound => hidg0 \in {nameOf[r], Foreign}
  /\ pc[r] \in {"free", "bind"} \cup Bound => linked = {nameOf[r]}
  /\ pc[r] = "bind" => udc = NoGadget
  /\ pc[r] \in Bound => udc = nameOf[r]

AloneInv ==
  /\ TypeInv
  /\ \A r \in Run : alone[r] => Undisturbed(r) /\ \A q \in Run \ {r} : ~Active(q)

(* What a run does of itself keeps its own picture of the tree.            *)
LEMMA UndisturbedStep ==
  ASSUME TypeInv, NEW r \in Run, Undisturbed(r), Step(r) \/ Signal(r) \/ Killed(r)
  PROVE  Undisturbed(r)'
<1> USE DEF TypeInv, TypeOK, Undisturbed, Goto, StartDestroy, tree, Removal, Bound
<1>1. CASE Cleanup(r)
  BY <1>1 DEF Cleanup
<1>2. CASE Stat(r)
  BY <1>2 DEF Stat
<1>3. CASE Mkdir(r) \/ MkdirFails(r)
  BY <1>3 DEF Mkdir, MkdirFails
<1>4. CASE Describe(r) \/ Configure(r) \/ AddFunction(r) \/ Link(r)
  BY <1>4 DEF Describe, Configure, AddFunction, Link
<1>5. CASE FreeUDC(r) \/ Bind(r) \/ Notify(r)
  BY <1>5 DEF FreeUDC, Bind, Notify
<1>6. CASE BindFails(r)
  BY <1>6 DEF BindFails
<1>7. CASE Unbind(r)
  BY <1>7 DEF Unbind
<1>8. CASE Unlink(r) \/ RmFunctions(r)
  BY <1>8 DEF Unlink, DropLinks, RmFunctions
<1>9. CASE Rmdir(r)
  <2>1. /\ exists' = exists \ {victim[r]} /\ pc' = [pc EXCEPT ![r] = next[r]]
        /\ linked' \subseteq linked
    BY <1>9 DEF Rmdir, DropLinks
  <2>2. next[r] \in {"clean", "exited"} /\ todo' = todo
    BY <1>9 DEF Rmdir
  <2>3. next[r] = "exited" => victim[r] = nameOf[r]
    BY <1>9 DEF VictimOwn, Rmdir
  <2> QED BY <1>9, <2>1, <2>2, <2>3 DEF Rmdir
<1>10. CASE Fail(r)
  BY <1>10 DEF Fail, MayFail
<1>11. CASE Exit(r)
  BY <1>11 DEF Exit, Leave, CloseDevice, CrashOnClose
<1>12. CASE Signal(r) \/ Killed(r)
  BY <1>12 DEF Signal, Killed, Active, Over
<1> QED
  BY <1>1, <1>2, <1>3, <1>4, <1>5, <1>6, <1>7, <1>8, <1>9, <1>10, <1>11, <1>12
  DEF Step, Create, ConnectUDC, Destroy

LEMMA StepAlone == AloneInv /\ [Next]_vars => AloneInv'
<1> SUFFICES ASSUME AloneInv, [Next]_vars, NEW r \in Run, alone'[r]
             PROVE  Undisturbed(r)' /\ \A q \in Run \ {r} : ~Active(q)'
  BY StepType DEF AloneInv
<1>1. CASE UNCHANGED vars
  BY <1>1 DEF AloneInv, Undisturbed, Active, vars
<1>2. ASSUME NEW s \in Run, Begin(s)
      PROVE  Undisturbed(r)' /\ \A q \in Run \ {r} : ~Active(q)'
  <2>1. s = r /\ \A q \in Run : ~Active(q)
    BY <1>2 DEF Begin
  <2>2. pc' = [pc EXCEPT ![r] = "clean"] /\ todo'[r] = exists /\ exists' = exists
    BY <1>2, <2>1 DEF AloneInv, TypeInv, TypeOK, Begin, Goto, tree
  <2> QED BY <2>1, <2>2 DEF AloneInv, TypeInv, TypeOK, Undisturbed, Active, Removal, Bound
<1>3. ASSUME NEW s \in Run, Step(s) \/ Signal(s) \/ Killed(s)
      PROVE  Undisturbed(r)' /\ \A q \in Run \ {r} : ~Active(q)'
  <2>0. alone' = alone
    BY <1>3
    DEF Step, Signal, Killed, Create, Cleanup, Stat, Mkdir, MkdirFails, Describe, Configure,
        AddFunction, Link, ConnectUDC, FreeUDC, Bind, BindFails, Destroy, Unbind, Unlink,
        RmFunctions, Rmdir, Notify,
        Fail, Exit, Leave, CloseDevice, CrashOnClose, ctx
  <2>1. Undisturbed(r) /\ \A q \in Run \ {r} : ~Active(q)
    BY <2>0 DEF AloneInv
  <2>2. Active(s)
    BY <1>3
    DEF Step, Signal, Killed, Create, Cleanup, Stat, Mkdir, MkdirFails, Describe, Configure,
        AddFunction, Link, ConnectUDC, FreeUDC, Bind, BindFails, Destroy, Unbind, Unlink,
        RmFunctions, Rmdir, Notify,
        Fail, MayFail, Exit, Leave, CloseDevice, CrashOnClose, Active, Over
  <2>3. s = r
    BY <2>1, <2>2
  <2>4. \A q \in Run \ {r} : pc'[q] = pc[q]
    BY <1>3, <2>3
    DEF AloneInv, TypeInv, TypeOK, Step, Signal, Killed, Create, Cleanup, Stat, Mkdir,
    MkdirFails,
        Describe, Configure, AddFunction, Link, ConnectUDC, FreeUDC, Bind, BindFails, Destroy,
        Unbind, Unlink, RmFunctions, Rmdir, Notify, Fail, Exit, Leave, CloseDevice,
            CrashOnClose, StartDestroy, Goto
  <2> QED BY <1>3, <2>1, <2>3, <2>4, UndisturbedStep DEF AloneInv, Active
<1> QED BY <1>1, <1>2, <1>3 DEF Next, Finished

LEMMA InitOwnedAlone == Init => OwnedInv /\ AloneInv
  BY InitType DEF Init, OwnedInv, Owned, AloneInv

(* Runs that all return from main leave no gadget, however many of them    *)
(* overlap and wherever they fail: whoever finds a gadget linked by        *)
(* another leaves it to that other. A run that none disturbs leaves none   *)
(* either, whatever killed runs had left before it.                        *)
THEOREM ExitsCorrect == Spec => []ExitsClean
<1>1. OwnedInv /\ AloneInv => ExitsClean
  <2> SUFFICES ASSUME OwnedInv, AloneInv,
                      \/ \A r \in Run : pc[r] \in {"exited", "new"}
                      \/ \E r \in Run : alone[r] /\ pc[r] = "exited"
               PROVE  exists = {}
    BY DEF ExitsClean
  <2>1. CASE \A r \in Run : pc[r] \in {"exited", "new"}
    BY <2>1 DEF OwnedInv, Owned, Owns, Removal
  <2>2. CASE \E r \in Run : alone[r] /\ pc[r] = "exited"
    BY <2>2 DEF AloneInv, Undisturbed
  <2> QED BY <2>1, <2>2
<1> QED BY <1>1, InitOwnedAlone, StepOwned, StepAlone, PTL DEF Spec

(* CleanupAll and freeUDC are enough for a run that none disturbs: when it *)
(* writes to the UDC nobody has it and its function is linked, and from    *)
(* there on its gadget, the only one, is the one connected.                *)
THEOREM AloneCorrect == Spec => []AloneBinds
<1>1. AloneInv => AloneBinds
  <2> SUFFICES ASSUME AloneInv, NEW r \in Run, alone[r], pc[r] \in {"bind"} \cup Bound
               PROVE  /\ exists = {nameOf[r]} /\ linked = {nameOf[r]}
                      /\ udc = IF pc[r] = "bind" THEN NoGadget ELSE nameOf[r]
    BY DEF AloneBinds
  <2>1. Undisturbed(r)
    BY DEF AloneInv
  <2> QED BY <2>1 DEF Undisturbed, Bound
<1> QED BY <1>1, InitOwnedAlone, StepAlone, PTL DEF Spec

(* /dev/hidg0 is that of a run that none disturbs, or of a foreign gadget: *)
(* CleanupAll frees the number before the run makes its function.          *)
THEOREM HidgCorrect == Spec => []AloneOwnsHidg
<1>1. AloneInv => AloneOwnsHidg
  BY DEF AloneInv, Undisturbed, AloneOwnsHidg, Bound
<1> QED BY <1>1, InitOwnedAlone, StepAlone, PTL DEF Spec
=============================================================================
