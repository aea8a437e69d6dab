# A verification project for hp-ams

hp-ams is `amsHelper`, the agent of HP's Agentless Management Service: one
single-threaded process that runs beside the operating system of a ProLiant
server and talks to the server's management controller, the iLO. It does two
things. As an AgentX subagent it fills SNMP tables (disks, adapters, PCI,
NICs, software) that the iLO reads, and sends traps when something changes. As
a *recorder client* it sends records to the iLO's Active Health System log over
a CHIF channel: once at start-up (boot, operating system, drivers, services,
packages, kernel crash dumps), periodically (operating system, processor and
memory usage), and once when it stops.

This directory holds TLA+ modules for it, TLC configurations, and proofs
checked by TLAPS. Sections 1 and 2 are the inventory and the plan; sections 3
onwards describe what exists.

## 1. Inventory

| Part | State it keeps | Operations | Interacts through |
|---|---|---|---|
| Main program (`amsHelper.c`) | options, `ams_running` | `main`, `receive`, `stop_server` | everything |
| Recorder channel (`recorder/linux.c`, `log.c`) | `rec_fd`, `s_ams_rec_class`, `s_ams_rec_handle`, `s_sequence`, three `*_usage_reinit` flags | `init_rec`, `close_rec`, `doWrite`, `doRead`, `doWriteRead`; `rec_api13/1/4/3/6`, `rec_init` | CHIF requests and replies with the iLO |
| Counters (`osusage.c`, `memusage.c`, `procusage.c`, `data_access/perf*.c`) | alarms registered, earlier processor sample | `LOG_OS/PROCESSOR/MEMORY_USAGE`, `rec_log_*_usage` callbacks | recorder channel, net-snmp alarms |
| One-shot records (`boot.c`, `osinfo.c`, `driver.c`, `service.c`, `package.c`) | none | `LOG_*` routines, once each; module hot-plug callbacks, which are registered but never called (section 3) | recorder channel, udev dispatcher |
| Crash dumps (`crash.c`) | tag files in the crash directories | `LOG_PROCESS_CRASHES` | file system, external programs, recorder channel |
| udev dispatcher (`common/nl_udev.c`) | list of callbacks, netlink socket | `udev_register`, `udev_event_process` | the hardware tables |
| PCIe disks (`nvme_linux.c`) | rows, their conditions, table condition | load, add and remove callback, trap | sysfs, dispatcher, net-snmp cache |
| SAS adapters and drives (`sas_linux.c`) | rows, last status, overall condition, health | two loads, two callbacks, traps | the same |
| ATA controllers and disks (`ide_linux.c`) | rows, status, health | two loads, two callbacks, traps | the same, and the same events as SAS |
| Fibre Channel adapters (`fca_linux.c`) | rows, last status, condition, health | load, callback, traps | sysfs, dispatcher |
| Network interfaces (`nic_linux.c`, `cpqNic*.c`) | rows of two tables, overall status, health | two loads, link messages, traps | sysfs, a netlink socket of its own |
| PCI slots and functions (`pci_linux.c`) | the tree of nodes, rows of two tables | two loads, four callbacks | sysfs at start, dispatcher |
| Host MIB (`cpqHost`) | three tables, status arrays, distribution | loads, scalars, test trap | net-snmp caches and alarms |
| Performance MIB (`cpqPerf`) | three tables, scalars, previous samples | loads | net-snmp caches |
| Table registrations (`cpq*Table.c`, everywhere) | a container and a cache each | `initialize_table_*`, `*_handler` | net-snmp: requests, cache, alarm |
| Libraries (`smbios.c`, `scsi_info.c`, `utils.c`, `libcpqhost`) | SMBIOS table | look-ups | sysfs, ioctl |

The process has one thread. What is concurrent is the outside: the iLO can
reset, refuse, be slow or lose a request between any two exchanges; devices come
and go between two reads of sysfs; a signal or a power cut comes between any two
steps. Within the agent, loads, callbacks and alarms follow each other in any
order. What makes each part correct:

* recorder: records that can be decoded (their descriptors were sent to the
  feeder in use), stored under their own code, counters that survive an iLO
  reset, no resource of the iLO used up;
* crash dumps: what is marked as processed was sent, and is not sent again;
* dispatcher and tables: rows that follow the devices, conditions that are
  not better than the rows, traps that do not mislead whoever relies on them;
* registrations: rows that live as long as the code that walks them expects;
* main loop: a signal stops the agent with its shutdown record, and alarms run.

`PROJECT.json` lists every component, and the hazards at their lines.

## 2. Plan

| Modules | Section | State |
|---|---|---|
| `RecorderChannel`, `Recorder`, `RecorderProofs` | 3 | checked and proved |
| `CrashLog`, `CrashLogProofs` | 4 | checked and proved |
| `FollowingTable` (abstract), `NlUdev`, `NvmeTable`, `NvmeTableProofs` | 5 | checked and proved, with the refinement |
| `ScsiBus`, `SasTable`, `IdeTable`, `ScsiTables`, `ScsiTablesProofs` | 6 | checked and proved, with the refinement |
| `FcaTable`, `FcaTableProofs` | 7 | checked and proved |
| `NicTables`, `NicTablesProofs` | 8 | checked and proved |
| `TableRegistry`, `SnmpTables`, `SnmpTablesProofs` | 9 | checked and proved |
| `PciTables`, `PciTablesProofs` | 10 | checked and proved |
| `MainLoop` | 11 | checked |

"Proved" is said of the safety properties, in each case for every value of the
constants; what is proved and what stays with TLC is told in the section of each
part and summed up in section 12. What is left:

1. the safety half of `MainLoop` (what is armed when the loop sleeps);
2. the First and Last flags of the recorder's listings and the processor
   sample, as functions over bounded inputs.

## 3. The recorder

### Modules

`RecorderChannel` holds the client's variables (named as in the source) and the
iLO's, and the operators for one exchange. It has no next-state relation. An
exchange is one step; what becomes of it is an *outcome*:

| Outcome | In the code |
|---|---|
| `answered` | `doWriteRead` returns the reply's `rcode` |
| `refused` | the same, with an error code: nothing is closed |
| `slow` | `read` returns -1 although the iLO took the request (`cnt != EINTR` is always true, so an interrupted read is not repeated); `close_rec(1)`, except in `rec_api13` |
| `lost` | `write` fails, or the request never arrives |
| `nochannel` | `init_rec` opens no channel |
| `nomem` | the reply is fine but the caller's next `malloc` fails |

A channel that the iLO tore down by resetting is `"dead"`: the next request on
it is `lost`. `late` holds a reply that came after its reader gave up, which a
later request on the same channel would read, since nothing compares sequence
numbers. Only `rec_api13` leaves a channel open after a failure.

`Recorder` has an action per kind of exchange (`Alloc`, `Register`, `Describe`,
`SetCode`, `SetUsageCode`, `LogRecord`, `LogUsage`), whose success and failure
continuations are those of the `LOG_*` routines and the usage callbacks, and the
actions of `main()` (`StartNext`, `Running`, `Alarm`, `Stop`, `Exit`). `Reset`
is the iLO's. `NoProcessors` is the return of `LOG_PROCESSOR_USAGE` when
`/sys/class/cpuid` is gone (`procusage.c:54`). `Die` is where the process may end
by itself: the field descriptors that `procusage.c:79` takes from an unchecked
`malloc`, and the blob that `LOG_DRIVER` frees before it has allocated it when an
entry is too large (`driver.c:155-206`).

`ModuleEvent` is a kernel module that is loaded or removed. `LOG_DRIVERS` means to
have `rec_driver_load_dynamic` and `rec_driver_unload_dynamic` called then, which
set a code and log a record without `rec_init` and without descriptors. Their
registration (`driver.c:306-307`) gives `udev_register` four arguments for five, with
no prototype in sight: the function lands in the place of the device type, where
its machine code is compared with the `DEVTYPE` of events, and the place of the
callback is null. The uevents of modules have no `DEVTYPE`, so the entry never matches
and the records are never written (`ModuleCallback`). With the registration as it must have been
meant (`ModuleCallbackAsMeant`, a mutant) an iLO reset followed by a module that is
loaded leaves a record that cannot be decoded: whoever adds the missing argument
has to describe the records again, too.

`FailureSeen` says which value `rec_init` returns when it fails:
`log.c:10-15` defines `false` as 1 unless a header has defined it, in which case
no caller ever sees the failure. The runs use that reading (`FALSE`); the proofs
cover both.

The data of a record is abstracted to the code of the routine that wrote it,
the code the feeder had, and whether all its descriptors had been taken from
that feeder. Time is abstracted: an alarm that is due may run at any moment.

### Runs

All use 4 feeders, 2 blobs of processor descriptors and at most 2 faults.
Two faults are the interesting number: one to break the session and one to hit
the repair. Three blobs would only repeat the middle one. A third fault was
tried for the safety properties while writing and shows nothing new. Each
fault loses at most one feeder, so that four are never used up.
`CounterOrder` is the start-up cut down to one routine before the three
counters; `ListingOrder` keeps every routine whose failure path is its own.
`CHECK_DEADLOCK FALSE` since the program stops.

| Run | Shows |
|---|---|
| `RecorderCounters` | with broken channels, resets, and modules that come and go, every record can be decoded |
| `RecorderLive` | with all kinds of fault, missing descriptors are always marked for repetition, a late reply is harmless, no alarm is registered twice and no routine stores a record under another's code; armed counters log again after the last fault; the channel is given back |

`RecordsAreDescribed` is checked (and proved) only where requests get through or
break the channel (`NothingHalfDone`). When the iLO refuses a descriptor, when
memory or channels run out half-way through a repetition, or when `/sys/class/cpuid`
is gone, `LOG_*_USAGE` returns early and its caller
logs all the same; that record lacks descriptors, the flag stays set, and the
next alarm repeats them. `MissingIsAskedFor` is the property that survives.

The crash log is the exception to `RecordsHaveTheirCode`:
`log_buffer_contents_rec` never calls `rec_api3`, so that its records go under
whatever code was set last.

With `FailureSeen` and `slow` together a late reply to `rec_api13` shifts every
later reply by one and the session properties fail. `InOrder` excludes this
combination, which the source as it stands cannot show.

### Fairness

`FairSpec` assumes weak fairness of the thread (it never blocks for ever: the
driver's read times out) and strong fairness of each counter's alarm: an alarm
with `SA_REPEAT` is due again after its period, and `run_alarms()` reaches it
whenever the loop is idle. Nothing is assumed about the iLO; faults are bounded
by `MaxFaults`, so the liveness properties say what happens after the last one.

### Proofs

`RecorderProofs` proves, for every start-up order, every number of feeders,
faults and processor blobs, and every set of faults allowed:

* `TypeCorrect`: `Spec => []TypeOK`.
* `Invariance`: `InOrder` implies `Spec => []IInv`, with the corollaries
  `MissingIsAlwaysAskedFor`, `RecordsAlwaysHaveTheirCode` and
  `LateReplyNeverFindsFeeder`.
* `NeverTwoAlarms`: `Spec => []OneAlarmPerCounter`, without any assumption.
* `RecordsAlwaysDescribed`: `RecordsAreDescribed`, where requests get through
  or break the channel (`NothingHalfDone`), module events as they are
  registered included.

`MissingIsAskedFor` is not inductive. `IInv` adds that a late reply finds no
feeder registered (so it can only fail the request that reads it), that class
and handle are taken in order, that a nested repetition still has its flag set,
that the blobs already counted were taken by the feeder in use, that without a
handle every armed counter has its flag set, and that the feeder's code is the
running routine's once it is set. The argument is per exchange: a *success*
can only be the reply to the request itself, so what was sent was taken; any
broken exchange ends in `ForgetSession`, after which there is no handle and all
flags are set. `NeverTwoAlarms` needs only that the routine a callback calls has
its flag set (`NestedRepeats`) and that start-up calls each routine once.

Assumptions: `ChannelAssumption`, `RecorderAssumption` (checked by TLC in every
run), `InOrder` and, for the last theorem, `NothingHalfDone`. Only
model-checked: liveness.

## 4. The crash dumps

### Module

`CrashLog` is `LOG_PROCESS_CRASHES`, which runs once per start of the agent, over
any number of starts. What survives the process is `dumped` (directories with a
`vmcore`) and `tagged` (directories with the tag file); `found`, `previous`,
`total`, `file` and `cur` are the lists and locals of one process.

| Action | In `crash.c` |
|---|---|
| `Start` | the two `find_crash_entries`, before anything is processed |
| `NextItem` | the loop of `process_new_crashes` |
| `ExtractDmesg`, `Analyse` | the two halves of `process_crash_item`: external programs, then the file they wrote |
| `Record` | one turn of the loop of `log_buffer_contents` |
| `EndItems`, `Tag`, `Return` | the aggregate decides whether `update_previous_crash_entries` runs, which writes one tag file after another |
| `Kill` | the process is killed anywhere; lists and progress are lost |
| `Dump` | the kernel crashes while the agent does not run |

A file is its length and the length up to its first NUL, because
`log_buffer_contents` measures it with `strlen`: text has none, a gzip file has one
in its header. `ok`, `failed` and `processed` are history variables of the
properties. The fault `program` means that an external program
leaves no file to send; `script`, that the input for `crash` cannot be written;
`record`, that the iLO does not accept a record (why is the subject of
`Recorder`); `tag`, that a tag file cannot be created.

### Runs

`MaxBlob = 2` stands for the 962 bytes of a record and a file of 5 bytes for one
of three records: the boundary cases of a file (shorter, equal, one more, two
records, three) all occur. Three dumps are the least for which a kill, a failed
tag file and a success fall on different ones.

| Run | Shows |
|---|---|
| `CrashLogSafe` | what is tagged was processed with success and is never sent again, over kills and faults; with the programs installed every dump is tagged in the end |
| `CrashLogCancel` | failures of 1 and -1 cancel out, and both dumps are tagged |

`CrashLogSafe` leaves out the fault `script`, which is what `CrashLogCancel` needs:
only then do two dumps of one process fail with different signs.

### Fairness

`FairSpec` assumes that the process runs on while it is not killed (its reads
and programs end) and that the service is started again after it stops, which
every boot does, and `hp-ams.service` (`Restart=on-abort`) after a fatal signal. Faults, kills among them, are bounded; new
dumps are bounded by the number of directories. `TagEntry` cannot fail for ever
for the same reason. This is an assumption on whoever runs the machine: an agent
that ends its work with a failed dump does nothing more about it until it is
started again.

### Proofs

`CrashLogProofs`, for any set of directories, file lengths, tools and faults:
`CrashTypeCorrect`; `NeverSentTwice`, from `ListsHold` alone, since nothing but
`Tag` writes a tag and nothing is in work by then; and `TaggedWasAlwaysProcessed`
under `NoScript` (the fault `script` is not among `Faults`). `TaggedWasProcessed` is
not inductive: `IInv` adds that every entry found is still to come, in work, done
or failed (`EveryItemEnds`), that all failures of one process have the same sign
(`PartFitsTools`, `FailuresAddUp`), so that a sum of zero means that none failed,
and that what is left to tag was processed (`TagsAreEarned`). Only
model-checked: `EventuallyTagged`.

## 5. The hot-plug tables

### Modules

`NlUdev` is the dispatcher: the list of callbacks, the netlink socket that comes
with the first of them, the events in it, and the callbacks still to run for the
event in work. It has no next-state relation: there is one thread, and the module
that uses the dispatcher drives it.

`NvmeTable` EXTENDS it with the table of PCIe disks. The thread is idle, in a
load or in an event; the disks change at any moment.

| Action | In the code |
|---|---|
| `LoadScan`, `LoadDisk`, `LoadEnd` | `netsnmp_arch_nvmedrv_container_load`: `scandir`, one disk, the registrations |
| `StartEvent`, `EndEvent` | `udev_event_process`: the message and its matching callbacks, the end of the list |
| `cpqnvme_add_disk`, `cpqnvme_remove_disk`, `CopyBeforeNull` | the callbacks, each once per registration; the last for a path without address |
| `Plug`, `Unplug`, `Repartition`, `UnplugOther`, `UnplugVirtual` | the kernel: disks, partitions, other devices whose path has the digits of an address, and devices whose path has none |

`nvme_add_disk` (with `Read` and `Unread`) is shared by the load and by the add
callback, which differ in what they leave in the condition: what was read, or
OK. The old container is not freed before a load (the cache's flags), so a row
goes only with a remove event. `tableCondition` is the maximum that never falls.

Three history variables carry what the properties need. `unheard` has the disks
whose latest event the agent could not have: sent while nobody listened, lost,
without callback, or for a disk that did not open. `confused` has the addresses
that `UnplugOther` named. `reported` has the rows with a trap for a failure since
they were last OK. Nothing in the actions reads them.

The callback for a removed disk takes the address out of the path of *any* block
device. A path without a colon (a logical volume, a loop device, zram: `Virtual`)
makes `get_Bus` copy from two bytes before a null pointer
(`nvme_linux.c:72-74`, from line 378), and the agent dies (`at = "dead"`). So every
promise about disks holds while the agent lives: after that nobody hears of
anything, and `StayingDiskHasRow` says so in its premise. What does protect a
machine without PCIe disks is that a load that finds none returns before it
registers the callback: `DisklessAgentLives`.

A disk has one namespace and keeps its name while it keeps its address; disks
over a fabric, whose path has no address either, are left out. The
number of registrations stops at `MaxCallbacks`: more repeat the same pair.

### Runs

Two disks, so that what is done to one can disturb the other, and a device without address; two events in the
socket (an add and a remove in either order behind an event in work); two loads'
worth of callbacks after another table's; one fault of any kind (the removal of a
foreign or a virtual device counts as one).

| Run | Shows |
|---|---|
| `NvmeHotPlug` | once settled, the rows are the disks that could have been heard of; the table's condition covers its rows; a disk that stays gets its row and keeps it, while the agent lives; an agent that never finds a disk does live; the table implements `FollowingTable` |

`FollowingTable` is what a table kept by loads and events promises at every
moment: for each device there is a time during which its row may be wrong
(`stale`: an event is on its way, or was missed), and a step of the agent touches
the row of one such device only. `NvmeTable` and `SasTable` define `stale` from
their queue, event and history and are checked to implement it
(`FollowsDevices`, `SasFollowsDrives`). The ATA table does not: a load empties
it first, and every row is wrong for a moment.

### Fairness

Strong fairness of `Load` and of `Process`: the iLO reads the table again and
again and its cache expires after 300 seconds, and the main loop serves every
readable descriptor and every request. Each of them can be disabled by the other
for a while, since one thread does both. Nothing is assumed about the disks.

### Proofs

`NvmeTableProofs`, for any set of disks, queue, number of callbacks and faults and
without further assumptions: `TypeCorrect`, `TableAlwaysCoversRows`, and
`RowsAlwaysFollowDisks`. The last needs `IInv`: for a disk that is neither unheard of
nor confused, the *last word* on it is true. The last word is the last event for
it in the socket (`LastEventIsTrue`); if there is none, the event in work, whose
first callback makes the row right and whose others do not change it again
(`EventIsTrue`); otherwise the row itself (`RowIsTrue`). A load that overtakes
queued events may make the row wrong for a while, which is why the row counts
only when there is no event left.

`ImplementsFollowingTable` is the refinement `Spec => FollowsDevices`. Two facts
about every state are its invariants: what `stale` is made of (`StaleIsParts`),
and that the row of any device that is not stale is right (`RightWhereNotStale`,
which is `IInv` in the words of `FollowingTable`). Then every action is a step or
a stutter of the abstract table: a load or a callback changes the row of one
disk, which is stale or else was right before and is so after; a change of the
machine makes its own disk stale and leaves the rows alone. `StayingDiskHasRow` and
`DisklessAgentLives` are only model-checked.

## 6. The SAS and ATA tables

`ScsiBus` EXTENDS `NlUdev` with the drives of a machine, whose `bsg` events both
families of tables listen to. `SasTable` and `IdeTable` are the tables;
`ScsiTables` composes them: one thread, so that a load of one, a load of the other
and the callbacks of an event exclude each other.

| Action | In the code |
|---|---|
| `HbaLoad`; `SasLoadNoHba`, `SasScan`, `SasLoadDrive`, `SasLoadEnd` | `netsnmp_arch_sashba_container_load`; `netsnmp_arch_sasphydrv_container_load`, one drive at a time |
| `cpqsas_add_sas_end_device`, `cpqsas_remove_sas_end_device` | the callbacks |
| `CtlrLoad`, `AtaLoad`, `AtaRelease` | `netsnmp_arch_idecntlr_container_load`, `netsnmp_arch_idedisk_container_load`, the release of an idle cache |
| `cpqide_add_ide_end_device`, `cpqide_remove_ide_end_device` | the callbacks |

A row is there or not; of its columns there is the status. The condition of the
adapter (`overall`), and the entry of each family in the array of health are
separate variables, since the code writes them at different moments. What a
drive answers (health page, endurance, temperature) is free at each reading.
`told` is what the last trap said. `unread` has the rows that had no status when they
were made, which the code does not report.

`masked` is the time from a load of the adapters to the next load of the drives.
The first replaces the overall condition, drives included, by that of the adapter
(`sas_linux.c:1081`), so that during this time the condition may be better than a
drive's. The code does no more, and `OverallCoversDrives` does not say more: it is
about the rest of the time, in which each load forgets the drives, gathers them
again, and callbacks raise the condition in between.

A SAS drive that goes between the look at its link and the look at its directory
leaves `get_ScsiDname` without a list of targets, and it frees the pointer it never
set (`sas_linux.c:313-321`): the agent goes on or dies (`Vanished`). Of a dead agent
nothing is promised.

The row of an ATA disk is known by its index, `Host + 2 * Target + 1`
(`disk_index`), which leaves out the bus and is not one to one: disks behind a port
multiplier share a row, and so do target 1 of host 0 and target 0 of host 2. A
shared row stands for the disk that was read last, and goes with the first one
that goes. The model has this; the properties speak of disks whose row is their
own (`HasOwnRow`), and so does the run.

| Run | Shows |
|---|---|
| `ScsiHotPlug` | a SAS drive and an ATA disk, one event lost: bad drives have been reported, conditions cover rows (outside `masked`), the ATA rows are the disks once settled, the SAS table implements `FollowingTable` |
| `ScsiForeignDrive` | with the SAS adapter as SCSI host 1, a SAS drive gets a row among the ATA disks; a finding |

One drive of each kind: the drives of one table meet only in the condition, which
is a maximum, and the two tables meet in every event. Each table registers its
callbacks at most twice (`MaxCopies`), so that a callback runs again after
itself. Both runs are without deadlock: drives can always change.

### Proofs

`ScsiTablesProofs`, for any SAS drives and ATA disks, any hosts and targets, queue, number of
callbacks and faults. Besides `TypeCorrect`:

* `AtaHealthAlwaysCoversRows`: inductive with the types.
* `BadDriveIsAlwaysTold`: inductive with one addition, that a row without status
  is an unread one (`ToldInv`), since a drive that leaves this status for a bad one
  is not reported.
* `AtaRowsAlwaysFollowDisks`, for disks that share their row with no other: from
  `FollowInv`, which says of each device that the
  last word on it is true, as in section 5, for the events that both families
  share; and of the rows of each table what they may be while nothing is on its
  way. It also needs that there are no callbacks and events but the four and those
  of the bus (`CallbacksAreOurs`, `EventsAreBsg`, `CallsMatch`), and that drives have
  rows only after an adapter was found.
* `OverallAlwaysCoversDrives`, which leaves out the time after a load of the
  adapters as the property does: `CoverInv` adds that in the middle of a load the
  condition covers the drives that were visited.
* `SasImplementsFollowingTable`: `Spec => SasFollowsDrives`, from `FollowInv`. What
  is done for the ATA disks is a stutter of it, the shared events included.

`AtaRowsAreAta` is violated, and so has no theorem (`ScsiForeignDrive`).

## 7. The Fibre Channel table

`FcaTable` has the ports and their SCSI hosts, the load (`LoadStart`, `LoadHost`,
`LoadEnd`; first as part of the registration, when nobody listens yet) and the
callback (`Update`). Its events are a set of hosts and not a queue, because the
callback reads the port when it runs, whatever happened in between; an event may
be lost. `HostStatus` and `cpqfca_update_status` are the two readings, which differ:
the load takes over a status it cannot tell and the callback drops it.

`FcaPorts`: two hosts, three changes of the machine (a port leaves its state,
comes back, and something happens to the other host). `TrapsFollowStatus`,
`PortIsShown` (of the rows that are there: whether a host has one is up to the next
load, and not stated) and `HealthCoversRows` are invariants, `ErrorIsShown` is a liveness
property under weak fairness of the load: a manager keeps reading the table, and
each time the cache has expired it is loaded. No fairness of the events is
assumed.

`FcaTableProofs` has the three invariants as theorems (`TrapsAlwaysFollowStatus`,
`PortIsAlwaysShown`, `HealthAlwaysCoversRows`) and `TypeCorrect`, for any hosts, any
part of the port states and any number of changes. The first and the third are
inductive with the types: `FcaCondition` never falls, and each place that changes
a status sends the trap in the same step. The second adds that a host has no row
and is in no listing before it comes (`AbsentIsUnknown`); without it a host that
comes could have a status that nobody read. `ErrorIsShown` is only model-checked.

Not claimed, because no text of the repository says what should be: a host whose
state and port are both bad is shown as OTHER, which is better than either
(`fca_linux.c:569`); `init_cpqFibreArray` writes OK over the condition its own load
has found, while the array of health keeps it (`cpqFibreArray.c:55`).

## 8. The network interfaces

`NicTables` has the interfaces with their links and masters, "lo" among them, both
tables, the overall status and the health. `LogStart/LogVisit/LogInsert/LogEnd` and
`PhysStart/PhysVisit/PhysEnd` are the loads, one name at a time; `NewLink` and `DelLink`
are the messages, read when they are worked through. `SendNicTrap` is part of
whatever step changes a status.

A message waits in `pending`, where it says that something about the interface
changed, or in `left`, where it says that a port left its bridge. The kernel tells
the latter with an `RTM_DELLINK` of the family `AF_BRIDGE`, and
`cpqnic_iflink_process` does not look at the family
(`cpqNicIfPhysAdapterTable.c:108-121`): the rows of an adapter or of a bond that is
still there go, until the next loads make them again. `told` is the status that
the traps leave a manager with, which stays when the row goes.

The agent follows a null pointer in three places, and `crashed` says for which
interface:

* the two tables are loaded apart, and a trap about a member of a bond takes the
  number of good members from the row of the bond, which may not be there
  (`nic_linux.c:773`): `CrashOnlyForUnlisted` says when;
* the card of a new row is described by its function 0, whose node is taken to be
  in the PCI tree (`nic_linux.c:1226-1233`; `Split` has the adapters that are not function 0
  of their card);
* the load looks up the name of a new interface twice, and inserts a null row when
  the interface goes in between (`nic_linux.c:1730`, `LogInsert`).

Of the last two the properties say nothing but that a crashed agent does nothing
more.

`NicLinks` has two adapters, one of which (`Steady`) keeps its link and its place, so
that it only counts as member; one group, a bond or a bridge by choice of `Init`;
"lo"; two changes of the machine: enough for a port that leaves a bridge and fails
before it has its row again, and for a bond that comes and loses its member.
`Wide` has the interfaces whose index does not survive a
signed char (`nic_linux.c:1541`). Renaming an interface is not
modelled, and indices are not used twice.

The run checks that rows are true once settled, that the overall status covers
all rows but the one inserted last (`fresh`), that traps follow the link, that the
crash for a bond needs one that was made, or left a bridge, after the last load
began (`unlisted`), and that a lasting failure reaches the health. The last assumes
strong fairness of `LogStart` (both loads compete for
the thread) and weak fairness of the steps of a load. `CHECK_DEADLOCK FALSE`,
because a crashed agent does nothing more.

`TrapsFollowLink` does not promise a trap for everything. No trap tells of a status
that is OTHER, and a new row starts from OTHER: a failure that comes while the row
of an adapter is away, because it left a bridge, is told by no trap. The history
variable follows the code there: a manager must look at the row. What the
property excludes is a change between OK and failed of one row that is not told,
whatever loads and messages were in between.

The names are a set with an order, `Place`: a load visits the least that is left
(`Visits`), as `scandir` with `alphasort` has it.

`NicTablesProofs` proves all four invariants and `TypeCorrect`, for any adapters,
bonds and bridges, any order of the names and any number of changes:
`RowsAreAlwaysTrue`, `OverallAlwaysCoversRows`, `TrapsAlwaysFollowLink`,
`CrashIsOnlyForUnlisted`. The inductive invariant adds

* `RowsTrue`: the rows of an adapter without message are true at any moment and
  not only when the thread is idle, since a load reads what a message would have
  told;
* `ChangesAreTold`: what was told of an adapter is what its row has, at any moment;
* `BondsAreListed`: a bond that is not `unlisted` has a row or is still to be visited
  by the load in progress, so that a trap finds it;
* `LoadCoversRows` and `LoIsThere`: a load begins with OK and need not visit a row
  that no name is left for; that it covers all rows when it ends is due to "lo",
  which is visited in every load and makes the condition from all rows again;
* `MastersExist`: members belong to groups that are there; `SocketIsClosed`: there is
  no message during the loads at start.

`FailureReachesHealth` is only model-checked.

## 9. Registrations and caches

`TableRegistry` has a definition for each `initialize_table_*` and each handler:
columns, timeout, flags of the cache, and which columns are answered. `SnmpTables`
is the life of any one of them, chosen by `Init`: registered with or without
success, loaded by a request when the cache has expired, released by net-snmp's
alarm when idle, changed by events in between. The tables of the PCI tree are
left out of it, since they do not list what there is (section 10), and
`cpqHoFwVerTable`, which has no cache.

A thing that comes or goes and the callback for it are separate steps: `told` has
what a waiting event names. An event may be lost, may be worked through when the
thing is back or gone again, or may be about something else that only looks like
it (`Foreign`: the message of a bridge that a port left, a removed device whose path
ends in the same address). The callback (`HandleEvent`) asks nobody whether the thing
is there: it adds a row, drops it, or does nothing. What it does in each table is
the subject of sections 5 to 8, the crash of section 5 included.

Two loads are modelled by what they leave out. That of the file systems ends with
the first one that cannot be read and keeps the mount table open
(`fsys_linux.c:81-82`): each such load costs a descriptor (`leaked`), and when there is
none left `setmntent` fails and the table is empty. That of the processes parses
`stat` with a `sscanf` that ends at a space in the name (`swrun_linux.c:60-68`): a
process with such a name is taken to have the parent of the process before it,
and is left out when that one belongs to the kernel (`Parsed`, `Parent`).

The run `SnmpTables` shows of all these tables:

* those loaded from nothing never answer for what was gone a timeout ago
  (`RepliesAreRecent`);
* in those whose rows carry something over (a status told by a trap, a sample),
  loads and the release of idle caches never free or replace a row, whether its
  thing is there or not: a row goes only with an event that names it, so that
  tables without events lose none (`EntriesStay`);
* those walked by other code through their OID can be walked at any moment, and
  list what has been there since the start but for what an event took after the
  last load (`ContainersAreReadable`);
* what stays is answered for from the time on when nothing hides it, with weak
  fairness of time and of requests (`ThingIsAnswered`). What hides a thing is in
  `Listable`: an unreadable file system in front of it or no descriptor; for a process,
  being unreadable, of the kernel, or with a space in its name; and an event that
  names it and is not worked through. A file system that fails for ever uses up
  the descriptors, after which nothing is promised.

Two things to list, so that a failing one may hide another; two descriptors; the
clock ticks every 60 seconds, the shortest period of the release alarm, against
timeouts from 5 to 600.

`SnmpTablesProofs`, for each of the tables, any number of things to list, any number
of descriptors and any step of the clock: `TypeCorrect`, `RepliesAreAlwaysRecent`,
`ContainersAreAlwaysReadable`, and the action property as `EntriesAlwaysStay`. The
first lemmas read the registry: what flags and timeouts the snapshots, the tables
that remember and those walked directly have. A flag that is dropped in one of
those `initialize_table` functions makes a lemma fail.

`RepliesAreRecent` is about a past answer; what makes it inductive is that nothing
in a table that is loaded from nothing is older than its load (`LastLoad`: no row
without a valid cache, and a row's thing was there when the load was made; `NoEvents`:
no callback changes such a table), that
what is there was just seen (`HereIsSeen`), and that no answer is left from before
the registration (`NothingYet`). `GroupsDangle` (only a group of scalars outlives
the failure of its registration) keeps the undefined answers of a freed
registration away from the tables. `ContainersAreReadable` rests on the flags: a load
lists everything and frees nothing, and no other step but a callback takes a row.
`ThingIsAnswered` is only model-checked.

What the model shows besides, and the properties leave out: ATA disks are not
among the snapshots, because a row that an event made before the first load
survives it; with `DONT_FREE_BEFORE_LOAD` rows of things that no event announces
outlive them (`cpqFcaHostCntlrTable`, `cpqLinOs*Table`). Claimed columns without answer: 8 and 9 of
`cpqHoFileSysTable`, 22 of `cpqNicIfLogMapTable`, 7 of `cpqSePciSlotTable`, 5 and 6 of
`cpqLinOsProcessorTable`, 3 and 5 of `cpqLinOsSys`.

## 10. The PCI tables

`PciTables` has the tree: `chain` is `pci_root` and its successors, `sub` the nodes under
the node of the first port of a bridge device, `own` those under its other ports
from the scan at start. Both tables list the chain, which is read from sysfs once; afterwards
only hot-plug events change it (`RemoveDevice` with `AfterDestroy`, `AddDevice`,
`RemoveFunction`, `AddFunction`, called through `CallSlot` and `CallFunct`). The list of
callbacks is that of `NlUdev`, kept as a sequence of tables, because each load
registers the pair of its table once more and their order decides whether the
node is there when the row is made. The chains are sets: they are in
the order of the names, and all that matters of the order is which node is the
head of `sub` (`IsHead`).

A card is put under its port by looking up bus and device of the parent as
*function 0*, whatever function the port is (`pci_linux.c:1263-1268`). So the cards
behind all ports of one bridge device end under the node of the first port, and
each plug replaces the nodes of the card that was there (`pci_linux.c:1285`):
`SiblingFn` are the cards behind the other ports, `ReadAgain` does the replacing, and
`replaced` has the cards that lost their nodes. The removal of such a card finds no
node and does nothing: its slot is shown for ever.

The functions behind a port are read when the event is handled. When they have
left by then an empty node takes the place of the card's (`Blank`); a slot that is
shown empty then takes its name from a null pointer (`NameIsMissing`), and the row of a
function is made from a node that is not there (`AddFunction`).

The scan, both loads and the registration of the callbacks are one step of `Init`, but
the machine may have changed since the scan (`found` against `present`), in which case
nobody hears of the change (`missed`).

`PciHotPlug`: a bridge device with two ports, a card of two functions behind the
first and one of one function behind the second, and one function
of the root bus; two events in the socket, three registrations, five changes (a
card of two functions that leaves and comes back is four).
It shows

* `CardIsShown`: a function that is there, and all of whose events were heard, has its
  row, and the slot shows a card of which that is true for all functions. The only
  slot without row is one that neither the scan nor `/sys/bus/pci/slots` knew.
* `GhostsAreLeftBehind`: the row of a function that is gone was in the tree from the
  start; a slot that shows a card that is gone does so for this reason or because
  the card's nodes were replaced by those of another port's card.
* `CrashNeedsHaste`: a function whose node is missed left before its event was
  handled, or is one of the root bus, for which nothing adds a node.

`CHECK_DEADLOCK FALSE` as for the NICs.

`PciTablesProofs` proves these three (`CardIsAlwaysShown`, `GhostsAreAlwaysLeftBehind`,
`CrashAlwaysNeedsHaste`) and `TypeCorrect`, for any functions on the root bus, a card
of any number of functions, any cards behind sibling ports, any socket and any number
of changes, from
`PciAssumption`: the functions of the card are 0 and up without gaps, and both tables
can register a callback. The inductive invariant has three kinds of parts:

* about the events: the last one of a function says whether it is there
  (`LastNews`), one that was announced and is gone again is `hasty` (`HastyGone`),
  and of a card without function 0 nothing is heard after the last event of 0
  (`ZeroIsLast`), because the kernel removes 0 last and adds it first;
* about the event in work: what the callbacks that have run have done for it
  (`CallsDone`, from `SlotDone` and `FunctDone`), the slot's always before the
  function's (`InTurn`), which is why the function's callback finds its node;
* about the tree: one card is under the first port, and a slot without row is not
  in the chain (`TreeIsWhole`); a slot that shows its card has the node of it, lost it
  to another card, or an event that
  will make it is under way (`ShownHasNode`); and a node of function 0 that should
  not be there is removed by an event that is under way (`NodeIsNews`).

What the model shows besides: removing one function of several shows the slot
as "(Empty)"; a card in a slot without row never gets one; a card that was there
at start and is removed comes back with the next load. No text of the repository
says otherwise, so that none of these is a finding.

## 11. The main program

`MainLoop` is `main` and `receive`. `Check` is the test of the iLO's generation, which
needs the SMBIOS tables: without them the agent ends, or with `-O` goes on without
looking at the iLO;
`StartStep` goes through the start-up with the switches of `-M`, `Install` is the flag
and the two `signal` calls in their order, and `Test`, `Select`, `Wake`, `Dispatch`,
`Timeout`, `Interrupted`, `RunAlarms` are the loop, which an error of `select()` other than
`EINTR` ends like a signal (`SelectFails`); `Select` and `Wake` are apart because a
signal interrupts the second only. `Signal` is either `stop_server` or, without
handler, the end of the process. What a step leaves behind is a set of alarms;
which of them, `Recorder` and `SnmpTables` tell.

The run `MainLoop` (two counters, four lists of MIBs, two iLOs) shows that a signal
that has its handler leads to the shutdown record (`StopIsLogged`), although one
that comes between the test and `select()` is only seen at the next event: some
alarm ends the sleep. Without any alarm (`-P0`, no MIB with a cache, no counter)
nothing does, and the property says so. `DueAlarmRuns` shows that alarms are not
starved by requests. Fairness: weak, of the thread as a whole and of each alarm's
clock. `EINTR` with `ams_running` still set does not occur: only the two signals
have handlers. The shutdown record is also sent without AHS logging (`-M` without
0), as the code has it.

## 12. What is not modelled

Listed with reasons in `PROJECT.json`. Whole parts: distribution detection, SMBIOS
look-ups and SCSI commands (what they return is an input), the generated NIC
data base, patches and packaging. Of the modelled parts: the values of
counters, samples and most columns; the entries of the recorder's listings;
memory that is not freed; names, paths and `kdump.conf`; two agents started at
once; options other than `-M`, `-k` and `-O`.

Proved for every value of the constants are all safety invariants that the passing
runs check, the action property `EntriesStay`, and both refinements of
`FollowingTable`. Each inductive invariant was checked by TLC, on the instance of
its run, before it was proved. Only model-checked, because the prover has no
rules for fairness and ENABLED, are the liveness properties: `CountersResume`,
`ChannelGivenBack`, `EventuallyTagged`, `StayingDiskHasRow`, `DisklessAgentLives` (whose
premises are about whole behaviours), `ErrorIsShown`,
`FailureReachesHealth`, `ThingIsAnswered`, and both properties of `MainLoop`. The
recorder's theorems `MissingIsAlwaysAskedFor`, `RecordsAlwaysHaveTheirCode` and
`LateReplyNeverFindsFeeder` assume `InOrder`, `RecordsAlwaysDescribed` also
`NothingHalfDone`, and `TaggedWasAlwaysProcessed` assumes `NoScript`; sections 3
and 4 say why. All others need only the assumptions on the constants that the
modules state.

`TypeOK` is proved in every module that has a proof module; two runs check it
besides.
