------------------------------ MODULE IdeTable ------------------------------
(***************************************************************************)
(* The table of ATA disks (cpqIde, ide_linux.c), below the one controller  *)
(* row that netsnmp_arch_idecntlr_container_load makes.  Unlike the SAS    *)
(* table it is emptied before every load, and also when its cache has      *)
(* expired and nobody asks.                                                *)
(***************************************************************************)
EXTENDS ScsiBus

CONSTANT TargetOf   \* the SCSI target of a drive

ASSUME IdeTableAssumption == TargetOf \in [Device -> Nat]

\* The index of a disk's row.  It leaves out the bus, and differs for the four
\* disks of hosts 0 and 1 with two targets each, but not for all: target 1 of
\* host 0 has the row of target 0 of host 2.
disk_index(d) == HostOf[d] + 2 * TargetOf[d] + 1
Index == {disk_index(d) : d \in Device}

HasOwnRow(d) == \A e \in Device \ {d} : disk_index(e) # disk_index(d)

VARIABLES
  ataDisks,    \* the rows of the table; any drive may be taken for an ATA disk
  ataStatus,   \* cpqIdeAtaDiskStatus
  ataValid,    \* the cache is valid
  ataOverall,  \* cpqIdeControllerOverallCondition
  ataHealth    \* the entry of cpqHoMibHealthStatusArray

ideVars == <<ataDisks, ataStatus, ataValid, ataOverall, ataHealth>>

\* IDE_DISK_STATUS_*; a disk whose state is not "running" has none.
IDE_DISK_STATUS_NONE == 0
IDE_DISK_STATUS_OTHER == 1
IDE_DISK_STATUS_OK == 2
IDE_DISK_STATUS_SMARTERROR == 3
AtaStatus == IDE_DISK_STATUS_NONE .. IDE_DISK_STATUS_SMARTERROR

IdeTypeOK ==
  /\ ataDisks \in SUBSET Index
  /\ ataStatus \in [Index -> AtaStatus]
  /\ ataValid \in BOOLEAN
  /\ ataOverall \in Condition /\ ataHealth \in Condition

\* After the registration: the table of controllers is loaded, this one not.
IdeInit ==
  /\ ataDisks = {}
  /\ ataStatus = [i \in Index |-> IDE_DISK_STATUS_NONE]
  /\ ataValid = FALSE
  /\ ataOverall = CPQ_REG_OK /\ ataHealth = CPQ_REG_OK

\* The loop over the controllers ends at the first row, whatever its
\* location: all disks are below a controller with this index.
ControllerIndex == 1

\* netsnmp_arch_idecntlr_container_load, into an empty container.
CtlrLoad ==
  /\ at = "idle"
  /\ ataOverall' = CPQ_REG_OK
  /\ UNCHANGED <<udevVars, busVars, ataDisks, ataStatus, ataValid, ataHealth>>

\* The condition of a disk is its status, by MAKE_CONDITION.
Degraded(s) == s >= CPQ_REG_DEGRADED

\* Mutant of HealthAfter: one of the two comparisons mended into a shift.
HealthHalfMended(statuses) == ataHealth

\* (1 < (condition - 1)) is 1 for a condition that is degraded or failed.
\* The entry never becomes OK again.
HealthAfter(statuses) ==
  IF \E s \in statuses : Degraded(s) THEN CPQ_REG_DEGRADED ELSE ataHealth

\* What is left in the container when a load begins.
Kept == IF ataValid THEN {} ELSE ataDisks

\* ide_add_disk.  If it opens, a disk with a health page is OK or has a SMART
\* error, one without is OTHER; else its status is what it was, or for a
\* new row OK or none.
AtaStatusRead(i, rows) ==
  IF i \in rows THEN {ataStatus[i], IDE_DISK_STATUS_OTHER, IDE_DISK_STATUS_OK,
                      IDE_DISK_STATUS_SMARTERROR}
  ELSE AtaStatus

AtaAdd == [subsystem |-> "bsg", action |-> {"add"}, devtype |-> "", func |-> "add_ata"]
AtaRemove == [subsystem |-> "bsg", action |-> {"remove"}, devtype |-> "", func |-> "remove_ata"]

\* netsnmp_arch_idedisk_container_load: only "/ata" devices are disks.
\* Without one the callbacks are not registered.  Of disks with the same index
\* the last one leaves its status in the row.
AtaLoad ==
  LET found == present \cap AtaDisk
      made == {disk_index(d) : d \in found} IN
  /\ at = "idle"
  /\ ataValid' = TRUE
  /\ ataDisks' = Kept \cup made
  /\ \E read \in [found -> AtaStatus], last \in [made -> found] :
       /\ \A d \in found : read[d] \in AtaStatusRead(disk_index(d), Kept)
       /\ \A i \in made : disk_index(last[i]) = i
       /\ ataStatus' = [i \in Index |-> IF i \in made THEN read[last[i]]
                                        ELSE IF i \in Kept THEN ataStatus[i]
                                        ELSE IDE_DISK_STATUS_NONE]
       /\ LET statuses == {read[d] : d \in found} IN
            /\ ataHealth' = HealthAfter(statuses)
            /\ ataOverall' \in statuses \cup {ataOverall}
            /\ \A s \in statuses \cup {ataOverall} : s <= ataOverall'
  /\ IF found = {} THEN UNCHANGED udevVars ELSE RegisterPair(<<AtaAdd, AtaRemove>>)
  /\ unheard' = {d \in unheard : d \in AtaDisk => d \in Expected \/ disk_index(d) \in Kept}
  /\ UNCHANGED <<present, faults, at, todo>>

\* release_cached_resources frees what has expired.
AtaRelease ==
  /\ at = "idle" /\ ataValid
  /\ ataValid' = FALSE
  /\ ataDisks' = {}
  /\ ataStatus' = [i \in Index |-> IDE_DISK_STATUS_NONE]
  /\ UNCHANGED <<udevVars, busVars, ataOverall, ataHealth>>

-----------------------------------------------------------------------------
(* The callbacks *)

\* The number of the host is compared with the index of the controller; the
\* kind of device is not looked at, nor whether it is still there.
cpqide_add_ide_end_device ==
  LET d == event.dev
      i == disk_index(d) IN
  /\ at = "event"
  /\ Call("add_ata")
  /\ IF HostOf[d] = ControllerIndex
     THEN \E s \in AtaStatusRead(i, ataDisks) :
            /\ ataDisks' = ataDisks \cup {i}
            /\ ataStatus' = [ataStatus EXCEPT ![i] = IDE_DISK_STATUS_OK]
            /\ ataOverall' = MAKE_CONDITION(ataOverall, s)
            /\ ataHealth' = HealthAfter({s})
     ELSE UNCHANGED <<ataDisks, ataStatus, ataOverall, ataHealth>>
  /\ UNCHANGED <<busVars, ataValid>>

\* Mutant of cpqide_remove_ide_end_device: without CONTAINER_REMOVE.
AtaReportsOnly ==
  /\ at = "event"
  /\ Call("remove_ata")
  /\ UNCHANGED <<busVars, ideVars>>

\* The row is looked for below a controller with the number of the host.
cpqide_remove_ide_end_device ==
  LET d == event.dev
      i == disk_index(d) IN
  /\ at = "event"
  /\ Call("remove_ata")
  /\ IF HostOf[d] = ControllerIndex
     THEN /\ ataDisks' = ataDisks \ {i}
          /\ ataStatus' = [ataStatus EXCEPT ![i] = IDE_DISK_STATUS_NONE]
     ELSE UNCHANGED <<ataDisks, ataStatus>>
  /\ UNCHANGED <<busVars, ataValid, ataOverall, ataHealth>>

-----------------------------------------------------------------------------
(* Properties *)

\* The health of the ATA disks that the host MIB shows is not better than a
\* row: the comparison that stands where a shift was meant still finds
\* every degraded disk (ide_add_disk).
AtaHealthCoversRows ==
  \A i \in ataDisks : Degraded(ataStatus[i]) => ataHealth >= CPQ_REG_DEGRADED

\* Once the events are worked through, the rows of a cache that is valid are
\* the disks, if the number of their host is the controller's index and they
\* share their row with no other: rows that the add callback makes for a disk
\* that is gone again, or that stay in the container from before a load, are
\* not left behind.
AtaRowsFollowDisks ==
  at = "idle" /\ ataValid /\ queue = <<>> =>
    \A d \in AtaDisk \ unheard :
      HostOf[d] = ControllerIndex /\ HasOwnRow(d) =>
        (disk_index(d) \in ataDisks <=> d \in present)

\* "Only SATA drives" (ide_add_disk).
AtaRowsAreAta == ataDisks \subseteq {disk_index(d) : d \in AtaDisk}
=============================================================================
