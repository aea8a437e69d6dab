----------------------------- MODULE NvmeTable ------------------------------
(***************************************************************************)
(* The table of PCIe disks (cpqSePCIeDiskTable.c, nvme_linux.c) and the    *)
(* uevents that keep it up to date.  The agent's thread either loads the   *)
(* table, disk by disk, or processes an event, callback by callback; the   *)
(* disks come and go at any moment.                                        *)
(*                                                                         *)
(* A row is known by the PCI address of its disk.  A disk has one          *)
(* namespace, and its name does not change while its address does not.     *)
(***************************************************************************)
EXTENDS NlUdev, FiniteSets

CONSTANTS
  Virtual,     \* block devices with no PCI address in their path: dm-0, loop0
  MaxFaults,   \* bound on the faults of one behaviour
  Faults       \* the kinds of fault that may happen

ASSUME NvmeAssumption ==
  /\ Virtual \subseteq Device
  /\ MaxFaults \in Nat
  /\ Faults \subseteq {"overrun", "socket", "open", "partition", "other", "virtual"}

VARIABLES
  present,     \* addresses that have a disk
  faults,
  at,          \* what the thread does: "idle", "load", "event"; or "dead"
  todo,        \* disks that the load has not come to
  rows,        \* the addresses in the container
  condition,   \* cpqSePCIeDiskCondition of each row
  tableCondition,  \* cpqSePCIeDiskTableCondition
  \* for the properties
  unheard,     \* disks of which the agent missed the last event, or could not open
  confused,    \* addresses for which some other disk was taken
  reported     \* rows with a trap 1017 since they were last OK

worldVars == <<present, faults>>
rowVars == <<rows, condition, tableCondition, reported>>
vars == <<udevVars, worldVars, at, todo, rowVars, unheard, confused>>

NVME_COND_OK == 2
NVME_COND_DEGRADED == 3
NVME_COND_FAILED == 4

Condition == {NVME_COND_OK, NVME_COND_DEGRADED, NVME_COND_FAILED}

Disk == Device \ Virtual

TypeOK ==
  /\ UdevTypeOK
  /\ present \in SUBSET Device
  /\ faults \in 0 .. MaxFaults
  /\ at \in {"idle", "load", "event", "dead"}
  /\ at = "event" => event \in Event
  /\ todo \in SUBSET Device /\ rows \in SUBSET Device
  /\ condition \in [Device -> Condition]
  /\ tableCondition \in Condition
  /\ unheard \in SUBSET Device /\ confused \in SUBSET Device
  /\ reported \in SUBSET Device

Init ==
  /\ UdevInit
  /\ present \in SUBSET Disk
  /\ faults = 0
  /\ at = "idle" /\ todo = {}
  /\ rows = {}
  /\ condition = [d \in Device |-> NVME_COND_OK]
  /\ tableCondition = NVME_COND_OK
  /\ unheard = present /\ confused = {} /\ reported = {}

Fault(kind) == kind \in Faults /\ faults < MaxFaults /\ faults' = faults + 1
NoFault == UNCHANGED faults

-----------------------------------------------------------------------------
(* The disks and the kernel *)

BlockEvent(action, devtype, d) ==
  [subsystem |-> "block", action |-> action, devtype |-> devtype, dev |-> d]

\* Disks of which an event is on its way.
IsDisk(ev, d) == ev.subsystem = "block" /\ ev.devtype = "disk" /\ ev.dev = d
Expected(q) == {d \in Device : \E i \in 1 .. Len(q) : IsDisk(q[i], d)}

\* Nobody listens, or the socket overruns.
Missed(d) == /\ \/ (socket = "none" \/ at = "dead") /\ NoFault
                \/ Fault("overrun")
             /\ UNCHANGED udevVars
             /\ unheard' = unheard \cup {d}

Announce(action, d) ==
  \/ /\ at # "dead"
     /\ Deliver(BlockEvent(action, "disk", d)) /\ NoFault /\ unheard' = unheard \ {d}
  \/ Missed(d)

Plug(d) ==
  /\ d \in Disk \ present
  /\ present' = present \cup {d}
  /\ Announce("add", d)
  /\ UNCHANGED <<at, todo, rowVars, confused>>

Unplug(d) ==
  /\ d \in present
  /\ present' = present \ {d}
  /\ Announce("remove", d)
  /\ UNCHANGED <<at, todo, rowVars, confused>>

\* A partition of the disk is deleted.
Repartition(d) ==
  /\ d \in present
  /\ Fault("partition")
  /\ Deliver(BlockEvent("remove", "partition", d))
  /\ UNCHANGED <<present, at, todo, rowVars, unheard, confused>>

\* Some other block device goes whose path has the digits of the address
\* where get_Bus, get_Dev and get_Func look for them: of "0:0:10:1" and a
\* function 0 they make 10:01.0.
UnplugOther(d) ==
  /\ d \in Disk
  /\ Fault("other")
  /\ Deliver(BlockEvent("remove", "disk", d))
  /\ confused' = confused \cup {d}
  /\ UNCHANGED <<present, at, todo, rowVars, unheard>>

\* A logical volume, a loop device or the disk of an iSCSI session goes.
UnplugVirtual(d) ==
  /\ d \in Virtual
  /\ Fault("virtual")
  /\ Deliver(BlockEvent("remove", "disk", d))
  /\ UNCHANGED <<present, at, todo, rowVars, unheard, confused>>

-----------------------------------------------------------------------------
(* nvme_add_disk *)

\* The log page has a warning or none, or there is no log page and the
\* health page is good, poor or missing.
Reading == {"no warning", "warning", "good", "poor", "missing"}

\* Without a warning the condition stays what it was.
ConditionAfter(before, reading) ==
  IF reading = "no warning" THEN before
  ELSE IF reading = "good" THEN NVME_COND_OK
  ELSE IF reading = "missing" THEN NVME_COND_FAILED
  ELSE NVME_COND_DEGRADED

\* Mutant of MAKE_CONDITION: the new condition, without the maximum.
LatestCondition(total, new) == new

MAKE_CONDITION(total, new) == IF new > total THEN new ELSE total

\* The condition before the visit; a new row is OK.
OldCondition(d) == IF d \in rows THEN condition[d] ELSE NVME_COND_OK

\* A disk that can be opened.  It has been found, or is new and inserted.
Read(d, reading, final) ==
  LET c == ConditionAfter(OldCondition(d), reading)
      trap == OldCondition(d) = NVME_COND_OK /\ c = NVME_COND_FAILED
  IN /\ rows' = rows \cup {d}
     /\ tableCondition' = MAKE_CONDITION(tableCondition, c)
     /\ condition' = [condition EXCEPT ![d] = final[c]]
     /\ reported' = IF final[c] = NVME_COND_OK THEN reported \ {d}
                    ELSE IF trap THEN reported \cup {d} ELSE reported

\* A disk that is not there, or does not open.  A new row is forgotten.  What
\* the load adds to the condition of the table is in it already: the row was
\* read once (TableCoversRows).
Unread(d, final) ==
  /\ IF d \in rows /\ final[condition[d]] = NVME_COND_OK
     THEN /\ condition' = [condition EXCEPT ![d] = NVME_COND_OK]
          /\ reported' = reported \ {d}
     ELSE UNCHANGED <<condition, reported>>
  /\ UNCHANGED <<rows, tableCondition>>

nvme_add_disk(d, final) ==
  \/ /\ d \in present
     /\ \E reading \in Reading : Read(d, reading, final)
     /\ NoFault
  \/ d \notin present /\ Unread(d, final) /\ NoFault
  \/ d \in present /\ Unread(d, final) /\ Fault("open")

-----------------------------------------------------------------------------
(* netsnmp_arch_nvmedrv_container_load, when the cache has expired *)

\* Mutant of LoadScan: a table that has its callbacks is not loaded again.
LoadOnce ==
  /\ at = "idle"
  /\ present # {}
  /\ Len(udev_cb) <= 1
  /\ at' = "load"
  /\ todo' = present
  /\ UNCHANGED <<udevVars, worldVars, rowVars, unheard, confused>>

\* Mutant of LoadScan: a load without disks goes on to register callbacks.
LoadAnyway ==
  /\ at = "idle"
  /\ at' = "load"
  /\ todo' = present
  /\ UNCHANGED <<udevVars, worldVars, rowVars, unheard, confused>>

\* scandir.  Without a disk the load fails, before it registers callbacks.
LoadScan ==
  /\ at = "idle"
  /\ present # {}
  /\ at' = "load"
  /\ todo' = present
  /\ UNCHANGED <<udevVars, worldVars, rowVars, unheard, confused>>

\* The condition is kept as it was read.
AsRead == [c \in Condition |-> c]

\* A disk that has gone since is skipped (readlink).  The rows of others
\* stay: the cache does not free them before a load.
LoadDisk(d) ==
  /\ at = "load" /\ d \in todo
  /\ todo' = todo \ {d}
  /\ \/ d \notin present /\ NoFault /\ UNCHANGED <<rowVars, unheard>>
     \/ /\ d \in present
        /\ nvme_add_disk(d, AsRead)
        /\ unheard' = IF d \notin rows' THEN unheard \cup {d}
                      ELSE IF d \in Expected(queue) THEN unheard ELSE unheard \ {d}
  /\ UNCHANGED <<udevVars, present, at, confused>>

AddDisk == [subsystem |-> "block", action |-> {"add"}, devtype |-> "disk",
            func |-> "add_disk"]
RemoveDisk == [subsystem |-> "block", action |-> {"remove"}, devtype |-> "disk",
               func |-> "remove_disk"]

\* Every load registers both callbacks again.
LoadEnd ==
  /\ at = "load" /\ todo = {}
  /\ at' = "idle"
  /\ \/ NoFault /\ Register(<<AddDisk, RemoveDisk>>, TRUE)
     \/ Fault("socket") /\ udev_cb = <<>> /\ Register(<<AddDisk, RemoveDisk>>, FALSE)
  /\ UNCHANGED <<present, todo, rowVars, unheard, confused>>

-----------------------------------------------------------------------------
(* An event *)

StartEvent ==
  /\ at = "idle"
  /\ at' = "event"
  /\ Receive
  /\ unheard' = {d \in Device :
                   \/ d \in unheard
                   \/ /\ IsDisk(event', d) /\ calling' = {}
                      /\ d \notin Expected(queue')}
  /\ UNCHANGED <<worldVars, todo, rowVars, confused>>

\* cpqnvme_add_disk: a new disk is OK, whatever was read.
AlwaysOK == [c \in Condition |-> NVME_COND_OK]

cpqnvme_add_disk ==
  /\ at = "event"
  /\ Call("add_disk")
  /\ nvme_add_disk(event.dev, AlwaysOK)
  /\ unheard' = IF event.dev \in present /\ event.dev \notin rows'
                THEN unheard \cup {event.dev} ELSE unheard
  /\ UNCHANGED <<present, at, todo, confused>>

cpqnvme_remove_disk ==
  /\ at = "event" /\ event.dev \notin Virtual
  /\ Call("remove_disk")
  /\ rows' = rows \ {event.dev}
  /\ condition' = [condition EXCEPT ![event.dev] = NVME_COND_OK]
  /\ reported' = reported \ {event.dev}
  /\ UNCHANGED <<worldVars, at, todo, tableCondition, unheard, confused>>

\* get_Bus copies from two bytes before the last colon of the path, get_Func
\* from behind the last dot, and neither asks whether there is one.
CopyBeforeNull ==
  /\ at = "event" /\ event.dev \in Virtual
  /\ Call("remove_disk")
  /\ at' = "dead"
  /\ UNCHANGED <<worldVars, todo, rowVars, unheard, confused>>

EndEvent ==
  /\ at = "event"
  /\ Finish
  /\ at' = "idle"
  /\ UNCHANGED <<worldVars, todo, rowVars, unheard, confused>>

Load == LoadScan \/ (\E d \in Device : LoadDisk(d)) \/ LoadEnd
Process ==
  StartEvent \/ cpqnvme_add_disk \/ cpqnvme_remove_disk \/ CopyBeforeNull \/ EndEvent
World ==
  \E d \in Device :
    Plug(d) \/ Unplug(d) \/ Repartition(d) \/ UnplugOther(d) \/ UnplugVirtual(d)

Next == Load \/ Process \/ World

Spec == Init /\ [][Next]_vars

\* The thread never stays in a load or an event.  The main loop serves both
\* its descriptors and the requests of the iLO, which reads the table again
\* and again.
Fairness == SF_vars(Load) /\ SF_vars(Process)

FairSpec == Spec /\ Fairness

-----------------------------------------------------------------------------
(* Properties *)

\* Once the events are processed the rows are the disks: loads that overlap
\* with events, callbacks that run several times and disks that go before
\* they are read leave no row behind and none out.  Excepted are disks that
\* the agent could not have heard of (cpqnvme_add_disk,
\* cpqnvme_remove_disk, netsnmp_arch_nvmedrv_container_load).
Settled == at = "idle" /\ queue = <<>>
RowsFollowDisks ==
  Settled => \A d \in Device \ (unheard \cup confused) : d \in rows <=> d \in present

\* The condition of the table is never better than that of a row, though
\* load and events write both at different moments (MAKE_CONDITION).
TableCoversRows == \A d \in rows : condition[d] <= tableCondition

\* A disk that stays gets its row and keeps it, whatever event was missed:
\* the next load finds it.  That is while the agent lives: some block devices
\* take it with them when they go (get_Bus).
StayingDiskHasRow ==
  [](at # "dead") => \A d \in Disk : <>[](d \in present) => <>[](d \in rows)

\* On a machine without such disks the agent outlives all of them: the load
\* returns before it registers the callback that would be called for them.
DisklessAgentLives == [](present = {}) => [](at # "dead")

\* A disk is still to be worked through while an event of it is in the
\* socket or in work, or when it could not be heard of.
Stale == Expected(queue) \cup {d \in Device : at = "event" /\ IsDisk(event, d)}
                         \cup unheard \cup confused

Table == INSTANCE FollowingTable WITH stale <- Stale

\* The loads and the callbacks together implement the abstract table: no
\* step for one disk disturbs the row of another, at any moment and not only
\* when the agent is idle (nvme_add_disk, cpqnvme_remove_disk).
FollowsDevices == Table!Spec
-----------------------------------------------------------------------------
(***************************************************************************)
(* Why RowsFollowDisks holds: NvmeTableProofs.                             *)
(***************************************************************************)
Known(d) == d \notin unheard \cup confused
Working(d) == at = "event" /\ IsDisk(event, d)

DisksOnly == present \subseteq Disk /\ rows \subseteq Disk

CallbacksAreOurs ==
  \A i \in 1 .. Len(udev_cb) : udev_cb[i] \in {OtherCallback, AddDisk, RemoveDisk}

CallsMatch ==
  /\ at \notin {"event", "dead"} => calling = {}
  /\ \A i \in calling : Matches(udev_cb[i], event)

\* The last event in the socket says whether the disk is there,
IsLast(q, d, i) ==
  /\ i \in 1 .. Len(q) /\ IsDisk(q[i], d)
  /\ \A j \in 1 .. Len(q) : IsDisk(q[j], d) => j <= i

LastEventIsTrue ==
  \A d \in Expected(queue) : Known(d) =>
    \E i \in 1 .. Len(queue) :
      IsLast(queue, d, i) /\ (queue[i].action = "add" <=> d \in present)

\* or if there is none, the event that is processed says so, and its first
\* callback makes the row,
EventIsTrue ==
  \A d \in Device \ Expected(queue) : Known(d) /\ Working(d) =>
    /\ event.action = "add" <=> d \in present
    /\ calling # {} \/ (d \in rows <=> d \in present)

\* or else the row is right already.
RowIsTrue ==
  \A d \in Device \ Expected(queue) : Known(d) /\ ~Working(d) =>
    (d \in rows <=> d \in present)

IInv == /\ DisksOnly
        /\ CallbacksAreOurs
        /\ CallsMatch
        /\ LastEventIsTrue
        /\ EventIsTrue
        /\ RowIsTrue
=============================================================================
