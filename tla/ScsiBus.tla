------------------------------ MODULE ScsiBus -------------------------------
(***************************************************************************)
(* The drives of a machine that the kernel announces on the "bsg"          *)
(* subsystem, and the agent's thread that hears of them.  The SAS tables   *)
(* and the ATA tables both listen to these events; see ScsiTables.         *)
(***************************************************************************)
EXTENDS NlUdev, FiniteSets

CONSTANTS
  SasDrive,    \* drives behind the SAS adapter
  AtaDisk,     \* drives behind the AHCI controller
  HostOf,      \* the SCSI host of a drive
  MaxCopies,   \* bound on the times that a table registers its callbacks
  MaxFaults    \* bound on the events that overrun the socket

ASSUME ScsiBusAssumption ==
  /\ MaxCopies \in Nat \ {0} /\ MaxCallbacks >= 2 * MaxCopies + 2
  /\ SasDrive \cup AtaDisk = Device /\ SasDrive \cap AtaDisk = {}
  /\ HostOf \in [Device -> Nat]
  /\ MaxFaults \in Nat

VARIABLES
  present,     \* drives in the machine
  faults,
  at,          \* what the thread does: "idle", "sas" (a load), "event"; or "dead"
  todo,        \* drives that the load has not come to
  unheard      \* for the properties: drives of which no news may be expected

busVars == <<present, faults, at, todo, unheard>>

BusTypeOK ==
  /\ UdevTypeOK
  /\ present \in SUBSET Device
  /\ faults \in 0 .. MaxFaults
  /\ at \in {"idle", "sas", "event", "dead"}
  /\ at = "event" => event \in Event
  /\ todo \in SUBSET Device
  /\ unheard \in SUBSET Device

BusInit ==
  /\ udev_cb = <<>> /\ socket = "none"
  /\ queue = <<>> /\ event = NoEvent /\ calling = {}
  /\ present \in SUBSET Device
  /\ faults = 0
  /\ at = "idle" /\ todo = {}
  /\ unheard = present

BsgEvent(action, d) ==
  [subsystem |-> "bsg", action |-> action, devtype |-> "none", dev |-> d]

IsAbout(ev, d) == ev.subsystem = "bsg" /\ ev.dev = d
Expected == {d \in Device : \E i \in 1 .. Len(queue) : IsAbout(queue[i], d)}

\* An event arrives, or nobody listens, or the socket overruns.
Announce(action, d) ==
  \/ /\ at # "dead"
     /\ Deliver(BsgEvent(action, d))
     /\ UNCHANGED faults
     /\ unheard' = unheard \ {d}
  \/ /\ \/ (socket = "none" \/ at = "dead") /\ UNCHANGED faults
        \/ socket = "open" /\ faults < MaxFaults /\ faults' = faults + 1
     /\ UNCHANGED udevVars
     /\ unheard' = unheard \cup {d}

Plug(d) ==
  /\ d \notin present
  /\ present' = present \cup {d}
  /\ Announce("add", d)
  /\ UNCHANGED <<at, todo>>

Unplug(d) ==
  /\ d \in present
  /\ present' = present \ {d}
  /\ Announce("remove", d)
  /\ UNCHANGED <<at, todo>>

\* Every load of a table registers its two callbacks again; more copies than
\* MaxCopies would do again what those before them have done.
RegisterPair(cbs) ==
  IF Cardinality({i \in 1 .. Len(udev_cb) : udev_cb[i] = cbs[1]}) < MaxCopies
  THEN Register(cbs, TRUE) ELSE UNCHANGED udevVars

\* The callbacks of the table that a drive belongs to.
OwnFunc(d) == IF d \in SasDrive THEN {"add_disk", "remove_disk"}
                                ELSE {"add_ata", "remove_ata"}

\* udev_event_process takes a message and then calls, one after the other,
\* the callbacks that match.
StartEvent ==
  /\ at = "idle"
  /\ at' = "event"
  /\ Receive
  /\ unheard' = {d \in Device :
                   \/ d \in unheard
                   \/ /\ event'.dev = d /\ d \notin Expected'
                      /\ \A i \in calling' : udev_cb[i].func \notin OwnFunc(d)}
  /\ UNCHANGED <<present, faults, todo>>

EndEvent ==
  /\ at = "event"
  /\ Finish
  /\ at' = "idle"
  /\ UNCHANGED <<present, faults, todo, unheard>>

\* The conditions of all tables: other 1, ok 2, degraded 3, failed 4.
MAKE_CONDITION(total, new) == IF new > total THEN new ELSE total

CPQ_REG_OTHER == 1
CPQ_REG_OK == 2
CPQ_REG_DEGRADED == 3
CPQ_REG_FAILED == 4
Condition == CPQ_REG_OTHER .. CPQ_REG_FAILED
=============================================================================
