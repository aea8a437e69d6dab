------------------------------ MODULE SasTable ------------------------------
(***************************************************************************)
(* The tables of SAS adapters and SAS drives (cpqScsi, sas_linux.c), of a  *)
(* machine with one adapter.  Both tables are loaded when their caches     *)
(* expire, each for itself; rows are kept from one load to the next, and   *)
(* two callbacks make and remove the rows of drives in between.            *)
(***************************************************************************)
EXTENDS ScsiBus

VARIABLES
  hbaCondition,   \* cpqSasHbaCondition, or 0 before the adapter has its row
  overall,        \* cpqSasHbaOverallCondition
  drives,         \* the rows of the drive table
  status,         \* cpqSasPhyDrvStatus of each row
  sasHealth,      \* the entry of cpqHoMibHealthStatusArray
  \* for the properties
  told,           \* drives whose last trap had a bad status
  unread,         \* rows that had no status at first, until they are OK
  masked          \* the adapter was loaded after the drives

sasVars == <<hbaCondition, overall, drives, status, sasHealth, told, unread, masked>>

SAS_PHYS_STATUS_OTHER == 1
SAS_PHYS_STATUS_OK == 2
SAS_PHYS_STATUS_PREDICTIVEFAILURE == 3
SAS_PHYS_STATUS_FAILED == 5
SAS_PHYS_STATUS_MISSINGWASOK == 6

\* Nothing sets the status offline(4), ssdWearOut(10) or notAuthenticated(12).
Status == {SAS_PHYS_STATUS_OTHER, SAS_PHYS_STATUS_OK,
           SAS_PHYS_STATUS_PREDICTIVEFAILURE, SAS_PHYS_STATUS_FAILED}

SasTypeOK ==
  /\ hbaCondition \in {0, CPQ_REG_OTHER, CPQ_REG_OK, CPQ_REG_FAILED}
  /\ overall \in 0 .. CPQ_REG_FAILED
  /\ drives \in SUBSET SasDrive
  /\ status \in [SasDrive -> Status]
  /\ sasHealth \in Condition
  /\ told \in SUBSET SasDrive
  /\ unread \in SUBSET SasDrive
  /\ masked \in BOOLEAN

SasInit ==
  /\ hbaCondition = 0 /\ overall = 0
  /\ drives = {}
  /\ status = [d \in SasDrive |-> SAS_PHYS_STATUS_OTHER]
  /\ sasHealth = CPQ_REG_OK
  /\ told = {}
  /\ unread = {}
  /\ masked = TRUE

-----------------------------------------------------------------------------
(* sas_add_disk *)

SasCondition(s) ==
  IF s = SAS_PHYS_STATUS_OK THEN CPQ_REG_OK
  ELSE IF s = SAS_PHYS_STATUS_PREDICTIVEFAILURE THEN CPQ_REG_DEGRADED
  ELSE IF s = SAS_PHYS_STATUS_FAILED THEN CPQ_REG_FAILED
  ELSE CPQ_REG_OTHER

\* What a drive answers: its health page (-1: none), at least 95% of its
\* endurance used, hotter than its maximum.
Reading == [health : {-1, 0, 1}, worn : BOOLEAN, hot : BOOLEAN]

StatusRead(r) ==
  IF r.health < 0 THEN SAS_PHYS_STATUS_FAILED
  ELSE IF (r.health # 0 /\ r.worn) \/ r.hot THEN SAS_PHYS_STATUS_PREDICTIVEFAILURE
  ELSE SAS_PHYS_STATUS_OK

\* Of a row that is there already the status is kept; of a new one it is OK
\* if the kernel says "running".
StatusBefore(d, running) ==
  IF d \in drives THEN status[d]
  ELSE IF running THEN SAS_PHYS_STATUS_OK ELSE SAS_PHYS_STATUS_OTHER

\* The statuses it may have then: the drive is read, if its generic device opens.
StatusAfter(d, running) ==
  {StatusBefore(d, running)} \cup {StatusRead(r) : r \in Reading}

Bad == {SAS_PHYS_STATUS_PREDICTIVEFAILURE, SAS_PHYS_STATUS_FAILED}

\* SendSasTrap: the columns of the row, status among them.
SendSasTrap(d, s) == IF s \in Bad THEN told \cup {d} ELSE told \ {d}

\* Mutant of TrapDue: a drive that is bad when it is first seen is not news.
TrapIfChanged(d, s) ==
  d \in drives /\ status[d] = SAS_PHYS_STATUS_OK /\ s \in Bad

TrapDue(d, s) ==
  /\ d \notin drives \/ status[d] = SAS_PHYS_STATUS_OK
  /\ s \in Bad

\* Mutant of sas_add_disk: the condition is taken with the new row.
AddToOverallOnce(d, s) ==
  /\ drives' = drives \cup {d}
  /\ overall' = IF d \in drives THEN overall ELSE MAKE_CONDITION(overall, SasCondition(s))

\* Every drive of the adapter that can be found gets a row.  Its status is s,
\* unless the caller writes another.
sas_add_disk(d, s) ==
  /\ drives' = drives \cup {d}
  /\ overall' = MAKE_CONDITION(overall, SasCondition(s))

IsNow(d, s) ==
  /\ status' = [status EXCEPT ![d] = s]
  /\ unread' = IF s = SAS_PHYS_STATUS_OTHER THEN unread \cup {d}
               ELSE IF s = SAS_PHYS_STATUS_OK THEN unread \ {d} ELSE unread

AfterTrap(d, s) == IF TrapDue(d, s) THEN SendSasTrap(d, s) ELSE told

-----------------------------------------------------------------------------
(* The two loads *)

HbaStatusCondition(s) ==
  CASE s = "running" -> CPQ_REG_OK
    [] s = "unreadable" -> CPQ_REG_FAILED
    [] s = "other" -> CPQ_REG_OTHER

\* netsnmp_arch_sashba_container_load.  The state of the adapter is read
\* once, for its new row.
HbaLoad ==
  /\ at = "idle"
  /\ \E s \in {"running", "unreadable", "other"} :
       hbaCondition' = IF hbaCondition = 0 THEN HbaStatusCondition(s) ELSE hbaCondition
  /\ overall' = hbaCondition'
  /\ sasHealth' = MAKE_CONDITION(CPQ_REG_OK, overall')
  /\ masked' = TRUE
  /\ UNCHANGED <<udevVars, busVars, drives, status, told, unread>>

SasAdd == [subsystem |-> "bsg", action |-> {"add"}, devtype |-> "", func |-> "add_disk"]
SasRemove == [subsystem |-> "bsg", action |-> {"remove"}, devtype |-> "", func |-> "remove_disk"]

\* netsnmp_arch_sasphydrv_container_load without the row of an adapter.
SasLoadNoHba ==
  /\ at = "idle" /\ hbaCondition = 0
  /\ RegisterPair(<<SasAdd, SasRemove>>)
  /\ sasHealth' = CPQ_REG_OK
  /\ UNCHANGED <<busVars, hbaCondition, overall, drives, status, told, unread, masked>>

\* The load ends at once if there is no drive.
SasScan ==
  /\ at = "idle" /\ hbaCondition # 0
  /\ overall' = hbaCondition
  /\ IF present \cap SasDrive = {}
     THEN UNCHANGED <<at, todo>>
     ELSE at' = "sas" /\ todo' = present \cap SasDrive
  /\ UNCHANGED <<udevVars, present, faults, unheard, hbaCondition, drives,
                 status, sasHealth, told, unread, masked>>

\* A drive that goes between two looks at it: if its link cannot be read it is
\* passed over, but if its directory cannot be listed (get_ScsiDname) a list
\* is freed that nobody made, and the agent dies or goes on.
Vanished == at' \in {"sas", "dead"}

SasLoadDrive(d) ==
  /\ at = "sas" /\ d \in todo
  /\ todo' = todo \ {d}
  /\ IF d \in present
     THEN \E s \in UNION {StatusAfter(d, running) : running \in BOOLEAN} :
            /\ sas_add_disk(d, s)
            /\ IsNow(d, s)
            /\ told' = AfterTrap(d, s)
            /\ unheard' = IF d \in Expected THEN unheard ELSE unheard \ {d}
            /\ UNCHANGED at
     ELSE Vanished /\ UNCHANGED <<unheard, overall, drives, status, told, unread>>
  /\ UNCHANGED <<udevVars, present, faults, hbaCondition, sasHealth, masked>>

SasLoadEnd ==
  /\ at = "sas" /\ todo = {}
  /\ at' = "idle"
  /\ sasHealth' = MAKE_CONDITION(CPQ_REG_OK, overall)
  /\ RegisterPair(<<SasAdd, SasRemove>>)
  /\ masked' = FALSE
  /\ UNCHANGED <<present, faults, todo, unheard, hbaCondition, overall, drives,
                 status, told, unread>>

-----------------------------------------------------------------------------
(* The callbacks *)

\* cpqsas_add_sas_end_device, for a drive of the adapter: whatever was read,
\* and whatever trap was sent for that, the drive is OK and a trap says so.
SasAddsDrive ==
  LET d == event.dev IN
  /\ d \in present /\ d \in SasDrive /\ hbaCondition # 0
  /\ \E s \in UNION {StatusAfter(d, running) : running \in BOOLEAN} : sas_add_disk(d, s)
  /\ IsNow(d, SAS_PHYS_STATUS_OK)
  /\ told' = SendSasTrap(d, SAS_PHYS_STATUS_OK)
  /\ UNCHANGED unheard

\* A drive that is gone again, has no adapter yet, or is no SAS drive.
SasIgnoresDrive ==
  /\ ~(event.dev \in present /\ event.dev \in SasDrive /\ hbaCondition # 0)
  /\ unheard' = IF event.dev \in present \cap (SasDrive \ drives)
                THEN unheard \cup {event.dev} ELSE unheard
  /\ UNCHANGED <<drives, overall, status, told, unread>>

cpqsas_add_sas_end_device ==
  /\ at = "event"
  /\ Call("add_disk")
  /\ SasAddsDrive \/ SasIgnoresDrive
  /\ UNCHANGED <<present, faults, at, todo, hbaCondition, sasHealth, masked>>

\* "add missing": the status of the trap.
Missing(s) == IF s = SAS_PHYS_STATUS_OTHER THEN s ELSE s + 4

\* Mutant of HasRow: the switch over the status returns in its default.
HasKnownRow(d) == d \in drives /\ status[d] # SAS_PHYS_STATUS_OTHER

HasRow(d) == d \in drives

cpqsas_remove_sas_end_device ==
  LET d == event.dev IN
  /\ at = "event"
  /\ Call("remove_disk")
  /\ IF HasRow(d)
     THEN /\ told' = SendSasTrap(d, Missing(status[d]))
          /\ drives' = drives \ {d}
          /\ status' = [status EXCEPT ![d] = SAS_PHYS_STATUS_OTHER]
          /\ unread' = unread \ {d}
     ELSE UNCHANGED <<told, drives, status, unread>>
  /\ UNCHANGED <<present, faults, at, todo, unheard, hbaCondition, overall,
                 sasHealth, masked>>

SasCallback == cpqsas_add_sas_end_device \/ cpqsas_remove_sas_end_device

-----------------------------------------------------------------------------
(* Properties *)

\* "send a trap if drive is failed or degraded on the first time through or
\* it it changes from OK to degraded of failed" (sas_add_disk): of a drive
\* with a bad status the last trap said that it is bad, in whatever order
\* loads and callbacks saw it, and though the callback for an added drive
\* overwrites what was read.  A row that had no status at first is excepted.
BadDriveIsTold ==
  \A d \in drives \ unread : status[d] \in Bad => d \in told

\* From the end of a load of the drives to the next load of the adapter, which
\* forgets them, the overall condition of the adapter is as bad as that of a
\* drive that the agent knows to be degraded or failed
\* (netsnmp_arch_sasphydrv_container_load, cpqsas_add_sas_end_device).
OverallCoversDrives ==
  at \notin {"sas", "dead"} /\ ~masked =>
    \A d \in (drives \cap present) \ (unheard \cup Expected) :
      \/ at = "event" /\ event.dev = d
      \/ SasCondition(status[d]) <= CPQ_REG_OK
      \/ SasCondition(status[d]) <= overall

\* Drives that need not be in the table, or out of it.
StaleDrives ==
  (Expected \cup unheard \cup {d \in Device : at = "event" /\ IsAbout(event, d)}) \cap SasDrive

SasFollowing == INSTANCE FollowingTable
  WITH Device <- SasDrive, present <- present \cap SasDrive, rows <- drives,
       stale <- StaleDrives

\* Loads and callbacks keep the table as FollowingTable promises: what is
\* done for one drive leaves the rows of the others alone, and when nothing
\* about a drive is on its way its row is there if and only if it is
\* (netsnmp_arch_sasphydrv_container_load, cpqsas_*_sas_end_device).
SasFollowsDrives == SasFollowing!Spec
=============================================================================
