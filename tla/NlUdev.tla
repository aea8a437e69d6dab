------------------------------- MODULE NlUdev -------------------------------
(***************************************************************************)
(* The dispatcher of the kernel's uevents (common/nl_udev.c): the list of  *)
(* callbacks that the tables register, the netlink socket that is opened   *)
(* with the first of them, and the event whose callbacks are running.      *)
(* This module has no next-state relation: the thread that reads the       *)
(* socket is that of the tables, see NvmeTable.                            *)
(***************************************************************************)
EXTENDS Integers, Sequences

CONSTANTS
  Device,        \* what a devpath names
  MaxQueue,      \* bound on the events in the socket
  MaxCallbacks   \* bound on the callbacks in the list

ASSUME NlUdevAssumption ==
  /\ MaxQueue \in Nat \ {0}
  /\ MaxCallbacks \in Nat \ {0}

VARIABLES
  socket,      \* the netlink socket: "none" or "open"
  udev_cb,     \* the callbacks, in the order of registration
  queue,       \* events in the socket
  event,       \* the event that udev_event_process works on
  calling      \* the callbacks, as positions in the list, that it has still to call

udevVars == <<socket, udev_cb, queue, event, calling>>

Subsystem == {"block", "pci", "bsg"}

\* Of the types only two occur in block devices; others have none.
Event == [subsystem : Subsystem, action : {"add", "remove"},
          devtype : {"disk", "partition", "none"}, dev : Device]

\* strstr(cb->action, action): the actions of a callback are a set.  The
\* empty devtype stands for all.
Callback == [subsystem : Subsystem, action : SUBSET {"add", "remove"},
             devtype : {"", "disk"},
             func : {"add_disk", "remove_disk", "add_ata", "remove_ata", "other"}]

NoEvent == [subsystem |-> "none"]

UdevTypeOK ==
  /\ socket \in {"none", "open"}
  /\ udev_cb \in Seq(Callback)
  /\ queue \in Seq(Event) /\ Len(queue) <= MaxQueue
  /\ event \in Event \cup {NoEvent}
  /\ calling \in SUBSET (1 .. Len(udev_cb))

\* Other tables may have registered theirs before.
OtherCallback == [subsystem |-> "pci", action |-> {"add", "remove"},
                  devtype |-> "", func |-> "other"]

UdevInit ==
  /\ udev_cb \in {<<>>, <<OtherCallback>>}
  /\ socket = IF udev_cb = <<>> THEN "none" ELSE "open"
  /\ queue = <<>>
  /\ event = NoEvent /\ calling = {}

-----------------------------------------------------------------------------
\* udev_register, for each of cbs.  With the first callback of all the socket
\* is opened, once: if that fails nobody tries again.  The list only grows.
Register(cbs, opens) ==
  /\ socket' = IF udev_cb = <<>> /\ opens THEN "open" ELSE socket
  /\ udev_cb' = IF Len(udev_cb) + Len(cbs) <= MaxCallbacks
                THEN udev_cb \o cbs ELSE udev_cb
  /\ UNCHANGED <<queue, event, calling>>

\* The kernel sends an event, which arrives or not.
Deliver(ev) == /\ socket = "open" /\ Len(queue) < MaxQueue
               /\ queue' = Append(queue, ev)
               /\ UNCHANGED <<socket, udev_cb, event, calling>>

\* Mutant of Matches: for events of all types.
MatchesAnyType(cb, ev) ==
  /\ cb.subsystem = ev.subsystem
  /\ ev.action \in cb.action

Matches(cb, ev) ==
  /\ cb.subsystem = ev.subsystem
  /\ ev.action \in cb.action
  /\ cb.devtype = "" \/ cb.devtype = ev.devtype

\* udev_event_process goes over the list once, in order.
Callees(ev) == {i \in 1 .. Len(udev_cb) : Matches(udev_cb[i], ev)}

Receive ==
  /\ queue # <<>>
  /\ event' = Head(queue)
  /\ queue' = Tail(queue)
  /\ calling' = Callees(event')
  /\ UNCHANGED <<socket, udev_cb>>

\* The next callback, on the event of Receive.
Call(func) ==
  /\ \E i \in calling :
       /\ \A j \in calling : i <= j
       /\ udev_cb[i].func = func
       /\ calling' = calling \ {i}
  /\ UNCHANGED <<socket, udev_cb, queue, event>>

Finish ==
  /\ calling = {}
  /\ event' = NoEvent
  /\ UNCHANGED <<socket, udev_cb, queue, calling>>
=============================================================================
