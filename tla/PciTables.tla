----------------------------- MODULE PciTables ------------------------------
(***************************************************************************)
(* The tables of PCI slots and functions (pci_linux.c).  Both are made of  *)
(* one tree of nodes, which is read from sysfs once: a chain of all        *)
(* functions and, under each bridge, a second node for each function       *)
(* behind it.  Events of hot-plug change the tree and the rows; the loads  *)
(* list the chain again, and never sysfs.                                  *)
(* Here there are the ports of one bridge device, each with a slot: the    *)
(* port that is function 0 of the device, for a card of several functions, *)
(* its siblings, for cards of one function; and functions of the root bus, *)
(* which come and go in virtual machines.                                  *)
(***************************************************************************)
EXTENDS Integers, Sequences, Functions

CONSTANTS
  RootFn,       \* functions 0 of devices on the root bus, besides the bridge
  CardFn,       \* functions of the card behind the first port, 0 ..
  SiblingFn,    \* functions 0 of the cards behind the other ports
  MaxQueue,     \* bound on the events in the socket
  MaxCallbacks, \* bound on the callbacks that the loads register
  MaxChanges    \* bound on the changes of the machine

ASSUME PciAssumption ==
  /\ RootFn \subseteq Nat /\ SiblingFn \subseteq Nat
  /\ RootFn \cap (CardFn \cup SiblingFn) = {} /\ CardFn \cap SiblingFn = {}
  /\ 0 \in CardFn /\ \A f \in CardFn : f \in Nat /\ 0 .. f \subseteq CardFn
  /\ {MaxQueue, MaxCallbacks, MaxChanges} \subseteq Nat /\ MaxCallbacks >= 2

VARIABLES
  present,    \* the functions of the machine
  changes,    \* changes so far
  chain,      \* the nodes that pci_root and its pci_next lead to
  sub,        \* those of the chain under the node of the first port
  own,        \* those under the nodes of the siblings, from the start
  slots,      \* board name in cpqSePciSlotTable: "none" (no row), "(Empty)", "shown"
  functs,     \* rows of cpqSePciFunctTable
  udev_cb,    \* the tables in the order of their callbacks in the list
  queue,      \* events in the socket
  event,      \* the event that is being dispatched
  calling,    \* the callbacks it has still to go to
  crashed,    \* the function whose node was missing, or NoFn
  \* for the properties
  missed,     \* functions with an event that got lost
  hasty,      \* functions that left while an event of theirs was under way
  replaced    \* cards whose nodes gave way to those of another port's card

treeVars == <<chain, sub, own, replaced>>
rowVars == <<slots, functs>>
eventVars == <<udev_cb, queue, event, calling>>
worldVars == <<present, changes, missed, hasty>>
vars == <<worldVars, treeVars, rowVars, eventVars, crashed>>

Bridge == -1
Blank == -2             \* a node that no function was read into
NoFn == -3
Behind == CardFn \cup SiblingFn
Fn == RootFn \cup Behind
Cards == {0} \cup SiblingFn  \* by function 0 of the device
Slot == RootFn \cup Cards
Zero(f) == IF f \in CardFn THEN 0 ELSE f
Device(d) == IF d = 0 THEN CardFn ELSE {d}
NoEvent == [action |-> "none", fn |-> NoFn]

TypeOK ==
  /\ present \in SUBSET Fn /\ missed \in SUBSET Fn /\ hasty \in SUBSET Fn
  /\ changes \in 0 .. MaxChanges
  /\ chain \in SUBSET (Fn \cup {Bridge}) /\ sub \in SUBSET (Behind \cup {Blank})
  /\ own \in SUBSET SiblingFn /\ replaced \in SUBSET Cards
  /\ slots \in [Slot -> {"none", "(Empty)", "shown"}]
  /\ functs \in SUBSET Fn
  /\ udev_cb \in Seq({"slot", "funct"}) /\ calling \in Seq({"slot", "funct"})
  /\ Len(udev_cb) <= MaxCallbacks /\ Len(queue) <= MaxQueue
  /\ queue \in Seq([action : {"add", "remove"}, fn : Fn])
  /\ event \in [action : {"add", "remove"}, fn : Fn] \cup {NoEvent}
  /\ crashed \in Fn \cup {NoFn}

\* What scandir finds in the directory of the port of a card.
Card(d) == present \cap Device(d)

-----------------------------------------------------------------------------
(* The tree *)

\* netsnmp_arch_pci_init: pci_node_scan of /sys/bus/pci/devices, where all
\* functions are, each of a card's once more under its port.
Scanned(found) ==
  /\ chain = {Bridge} \cup found
  /\ sub = found \cap CardFn /\ own = found \cap SiblingFn

\* The chain under a port is searched before what follows it.
PciNodeFind(f) == f \in chain \cup sub \cup own

\* scandir sorts: the functions of a chain are in the order of their numbers.
IsHead(f) == \A g \in sub : f <= g

\* pci_node_destroy: what is found is cut out of its chain; at the head of
\* the chain under a port the port gets the node's own sub instead of its
\* successor, so that all of the chain is lost.
AfterDestroy(f) ==
  /\ CASE f \in sub -> /\ sub' = IF IsHead(f) THEN {} ELSE sub \ {f}
                       /\ UNCHANGED <<own, chain>>
       [] f \in own \ sub -> own' = own \ {f} /\ UNCHANGED <<sub, chain>>
       [] OTHER -> chain' = chain \ {f} /\ UNCHANGED <<sub, own>>
  /\ UNCHANGED replaced

-----------------------------------------------------------------------------
(* Loads *)

Running == crashed = NoFn
Idle == Running /\ event = NoEvent

\* udev_register, twice; the list only grows.
RegisterTable(t) ==
  udev_cb' = IF Len(udev_cb) < MaxCallbacks THEN Append(udev_cb, t) ELSE udev_cb

\* Rows with function 0 in the chain show their card again.
SlotsOfChain ==
  [s \in Slot |-> IF s \in chain THEN "shown" ELSE slots[s]]

\* netsnmp_arch_pcislot_container_load
LoadSlots ==
  /\ Idle
  /\ slots' = SlotsOfChain
  /\ RegisterTable("slot")
  /\ UNCHANGED <<worldVars, treeVars, functs, queue, event, calling, crashed>>

\* netsnmp_arch_pcifunc_container_load
LoadFuncts ==
  /\ Idle
  /\ functs' = functs \cup (chain \cap Fn)
  /\ RegisterTable("funct")
  /\ UNCHANGED <<worldVars, treeVars, slots, queue, event, calling, crashed>>

\* init_cpqStdPciTable preloads both, which registers the callbacks; what
\* changes between the scan and that is not heard of.  The slot of a card may
\* be listed in /sys/bus/pci/slots, and then has a row without a card too.
Machine == {P \in SUBSET Fn : P \cap CardFn \in {{}, CardFn}}

Init ==
  /\ present \in Machine
  /\ \E found \in Machine :
       /\ Scanned(found)
       /\ slots \in {[s \in Slot |-> IF s \in found THEN "shown"
                                     ELSE IF s \in listed THEN "(Empty)" ELSE "none"] :
                       listed \in SUBSET Cards}
       /\ functs = found
       /\ missed = (found \ present) \cup (present \ found)
  /\ udev_cb = <<"slot", "funct">>
  /\ queue = <<>> /\ event = NoEvent /\ calling = <<>>
  /\ crashed = NoFn /\ changes = 0 /\ hasty = {} /\ replaced = {}

-----------------------------------------------------------------------------
(* The machine *)

UnderWay(f) == event.fn = f \/ \E i \in DOMAIN queue : queue[i].fn = f

Announce(action, f) ==
  IF Len(queue) < MaxQueue
  THEN /\ queue' = Append(queue, [action |-> action, fn |-> f])
       /\ UNCHANGED missed
  ELSE /\ missed' = missed \cup {f}
       /\ UNCHANGED queue

Change(f) ==
  /\ Running /\ changes < MaxChanges /\ changes' = changes + 1
  /\ UNCHANGED <<treeVars, rowVars, udev_cb, event, calling, crashed>>

\* A card is found function by function, the first first.
Plug(f) ==
  /\ f \notin present
  /\ f \in CardFn => 0 .. (f - 1) \subseteq present
  /\ present' = present \cup {f}
  /\ Announce("add", f)
  /\ hasty' = IF UnderWay(f) THEN hasty ELSE hasty \ {f}
  /\ Change(f)

\* It goes in the other order; other functions than 0 also go alone.
Unplug(f) ==
  /\ f \in present
  /\ f = 0 => present \cap CardFn = {0}
  /\ present' = present \ {f}
  /\ Announce("remove", f)
  /\ hasty' = IF UnderWay(f) THEN hasty \cup {f} ELSE hasty
  /\ Change(f)

-----------------------------------------------------------------------------
(* The callbacks *)

Receive ==
  /\ Idle /\ queue # <<>>
  /\ event' = Head(queue) /\ queue' = Tail(queue)
  /\ calling' = udev_cb
  /\ UNCHANGED <<worldVars, treeVars, rowVars, udev_cb, crashed>>

Done == IF Len(calling) = 1 THEN event' = NoEvent ELSE UNCHANGED event

\* cpqpci_remove_device, for an event of any function of the device.
RemoveDevice(f) ==
  IF PciNodeFind(Zero(f))
  THEN /\ slots' = IF slots[Zero(f)] = "none" THEN slots
                   ELSE [slots EXCEPT ![Zero(f)] = "(Empty)"]
       /\ AfterDestroy(Zero(f))
  ELSE UNCHANGED <<treeVars, slots>>

\* The functions behind the port of a card are read again, and the first of
\* them is shown.  The nodes go under function 0 of the device of the port,
\* whatever the function of the port, in the place of what was there.
ReadAgain(d) ==
  /\ sub' = IF Card(d) = {} THEN {Blank} ELSE Card(d)
  /\ replaced' = (replaced \cup (sub \cap Cards)) \ {d}
  /\ slots' = IF slots[d] = "none" THEN slots ELSE [slots EXCEPT ![d] = "shown"]
  /\ UNCHANGED <<chain, own>>

\* Mutant: a bridge that has functions behind it is not read again.
AddDeviceOnce(f) ==
  IF f \in Behind /\ sub = {} THEN ReadAgain(Zero(f)) ELSE UNCHANGED <<treeVars, slots>>

\* cpqpci_add_device: nothing is done for the root bus.
AddDevice(f) ==
  IF f \in Behind THEN ReadAgain(Zero(f)) ELSE UNCHANGED <<treeVars, slots>>

\* A blank node has no device to take the name of an empty slot from.
NameIsMissing(f) ==
  f \in Behind /\ Card(Zero(f)) = {} /\ slots[Zero(f)] = "(Empty)"

CallSlot ==
  /\ Running /\ calling # <<>> /\ Head(calling) = "slot"
  /\ calling' = Tail(calling) /\ Done
  /\ LET f == event.fn
     IN \/ /\ event.action = "remove"
           /\ RemoveDevice(f) /\ UNCHANGED crashed
        \/ /\ event.action = "add"
           /\ AddDevice(f)
           /\ crashed' = IF NameIsMissing(f) THEN f ELSE NoFn
  /\ UNCHANGED <<worldVars, functs, udev_cb, queue>>

\* Mutant: the rows of all functions of the device.
RemoveFunctions(f) ==
  /\ functs' = {g \in functs : Zero(g) # Zero(f)}
  /\ UNCHANGED crashed

\* Mutant: the node is looked up first, as when a function is added.
RemoveKnownFunction(f) ==
  /\ functs' = IF PciNodeFind(f) THEN functs \ {f} ELSE functs
  /\ UNCHANGED crashed

\* cpqpci_remove_function
RemoveFunction(f) ==
  /\ functs' = functs \ {f}
  /\ UNCHANGED crashed

\* cpqpci_add_function: the row is inserted and made of a node that is
\* taken to be there.
AddFunction(f) ==
  /\ functs' = functs \cup {f}
  /\ crashed' = IF PciNodeFind(f) THEN NoFn ELSE f

CallFunct ==
  /\ Running /\ calling # <<>> /\ Head(calling) = "funct"
  /\ calling' = Tail(calling) /\ Done
  /\ \/ event.action = "remove" /\ RemoveFunction(event.fn)
     \/ event.action = "add" /\ AddFunction(event.fn)
  /\ UNCHANGED <<worldVars, treeVars, slots, udev_cb, queue>>

Next ==
  \/ LoadSlots \/ LoadFuncts
  \/ \E f \in Fn : Plug(f) \/ Unplug(f)
  \/ Receive \/ CallSlot \/ CallFunct

Spec == Init /\ [][Next]_vars

-----------------------------------------------------------------------------
(* Properties *)

Settled(f) == Running /\ f \notin missed /\ ~UnderWay(f)

\* A function that is there, and all events of which were heard, has its
\* row; and the slot shows a card of which that is true for all functions.
\* Only a slot that neither the scan nor /sys/bus/pci/slots knew has no row.
CardIsShown ==
  /\ \A f \in Fn : f \in present /\ Settled(f) => f \in functs
  /\ \A d \in Cards :
       Device(d) \subseteq present /\ (\A f \in Device(d) : Settled(f)) =>
         slots[d] = "shown" \/ (slots[d] = "none" /\ d \notin chain)

\* A card that is gone, each event of which was heard in time.
Gone(d) ==
  Device(d) \cap present = {} /\ \A f \in Device(d) : Settled(f) /\ f \notin hasty

\* The row of a function that is gone is there only if the tree had it from
\* the start.  A slot shows a card that is gone only for that reason or
\* because a card behind another port of the device took the place of its
\* nodes: its removal found none of them then.
GhostsAreLeftBehind ==
  /\ \A f \in Fn : f \notin present /\ Settled(f) /\ f \in functs => f \in chain
  /\ \A d \in Cards : Gone(d) /\ slots[d] = "shown" => d \in chain \cup replaced

\* The agent takes the node of a function that is added for granted.  It is
\* there, unless the function is gone again or is one of the root bus.
CrashNeedsHaste == crashed \in RootFn \cup hasty \cup {NoFn}

-----------------------------------------------------------------------------
(***************************************************************************)
(* Why the properties hold: PciTablesProofs.                               *)
(***************************************************************************)

\* The card is there while function 0 is.
CardHasZero == Card(0) # {} => 0 \in present

\* One card is under the first port, and what is under the others is in the
\* chain, too; a slot without a row is not.
TreeIsWhole ==
  /\ \A d \in Cards : d \in sub => sub \subseteq Device(d)
  /\ own \subseteq chain
  /\ \A d \in Cards : slots[d] = "none" => d \notin chain

\* An event is dispatched while it has callbacks to go to; the table of
\* slots has the first of them, and the table of functions has one, too.
InTurn ==
  /\ event = NoEvent <=> calling = <<>>
  /\ Head(udev_cb) = "slot" /\ "funct" \in Range(udev_cb)

Queued(f) == \E i \in DOMAIN queue : queue[i].fn = f
IsLast(i) == \A j \in DOMAIN queue : j > i => queue[j].fn # queue[i].fn

\* The last event of a function says whether it is there.
LastNews ==
  /\ \A i \in DOMAIN queue :
       queue[i].fn \notin missed /\ IsLast(i) => (queue[i].action = "add" <=> queue[i].fn \in present)
  /\ event # NoEvent /\ event.fn \notin missed /\ ~Queued(event.fn)
       => (event.action = "add" <=> event.fn \in present)

\* What is announced and gone again was hasty.
HastyGone ==
  /\ \A i \in DOMAIN queue : queue[i].action = "add" => queue[i].fn \in present \cup hasty
  /\ event.action = "add" => event.fn \in present \cup hasty

\* Of the other functions of the card nothing is heard after the last of 0.
ZeroIsLast ==
  0 \notin present \cup missed =>
    /\ \A i \in DOMAIN queue : queue[i].fn \in CardFn \ {0} =>
         \E j \in DOMAIN queue : j > i /\ queue[j].fn = 0
    /\ event.fn \in CardFn \ {0} => Queued(0)

\* What the callbacks have done for the event so far.
SlotDone ==
  /\ event.fn \in Behind \ hasty /\ event.action = "add" => event.fn \in sub
  /\ event.fn \in Behind /\ event.action = "add" => slots[Zero(event.fn)] # "(Empty)"
  /\ event.fn \in Cards /\ event.action = "remove" => event.fn \notin sub
FunctDone == event.fn \in functs <=> event.action = "add"
CallsDone ==
  event # NoEvent => /\ calling = udev_cb \/ SlotDone
                     /\ "funct" \in Range(calling) \/ FunctDone

Hasty(d) == \E f \in Device(d) : f \in missed \cup hasty

\* A slot that shows its card has the node of it, or lost it to another card.
ShownHasNode ==
  \A d \in Cards : slots[d] = "shown" /\ ~Hasty(d) =>
    \/ d \in chain \cup sub \cup replaced
    \/ \E i \in DOMAIN queue : queue[i].fn \in Device(d) /\ queue[i].action = "add"
    \/ event.fn \in Device(d) /\ event.action = "add" /\ calling = udev_cb

\* The node of a card under the first port is there while function 0 is, or
\* will be heard of.
NodeIsNews ==
  \A d \in Cards : d \in sub =>
    \/ d \in present \cup missed \/ Queued(d)
    \/ event.fn = d /\ calling = udev_cb

IInv ==
  /\ CardHasZero /\ TreeIsWhole /\ InTurn /\ LastNews /\ HastyGone /\ ZeroIsLast
  /\ CallsDone /\ ShownHasNode /\ NodeIsNews
  /\ CardIsShown /\ GhostsAreLeftBehind /\ CrashNeedsHaste
=============================================================================
