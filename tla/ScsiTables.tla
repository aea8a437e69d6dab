----------------------------- MODULE ScsiTables -----------------------------
(***************************************************************************)
(* The SAS tables and the ATA table in one agent: both are told of every   *)
(* drive, and one thread does the loads and the callbacks of both.         *)
(***************************************************************************)
EXTENDS SasTable, IdeTable

vars == <<udevVars, busVars, sasVars, ideVars>>

TypeOK == BusTypeOK /\ SasTypeOK /\ IdeTypeOK

Init == BusInit /\ SasInit /\ IdeInit

World == /\ \E d \in Device : Plug(d) \/ Unplug(d)
         /\ UNCHANGED <<sasVars, ideVars>>

LoadSas == /\ \/ HbaLoad \/ SasLoadNoHba \/ SasScan
              \/ \E d \in SasDrive : SasLoadDrive(d)
              \/ SasLoadEnd
           /\ UNCHANGED ideVars

LoadAta == (CtlrLoad \/ AtaLoad \/ AtaRelease) /\ UNCHANGED sasVars

Process == \/ (StartEvent \/ EndEvent) /\ UNCHANGED <<sasVars, ideVars>>
           \/ cpqsas_add_sas_end_device /\ UNCHANGED ideVars
           \/ cpqsas_remove_sas_end_device /\ UNCHANGED ideVars
           \/ cpqide_add_ide_end_device /\ UNCHANGED sasVars
           \/ cpqide_remove_ide_end_device /\ UNCHANGED sasVars

Next == World \/ LoadSas \/ LoadAta \/ Process

Spec == Init /\ [][Next]_vars

-----------------------------------------------------------------------------
(***************************************************************************)
(* Why the tables follow their drives: ScsiTablesProofs.                   *)
(***************************************************************************)
Known(d) == d \notin unheard
Working(d) == at = "event" /\ IsAbout(event, d)
Due(d) == \E i \in calling : udev_cb[i].func \in OwnFunc(d)

CallbacksAreOurs ==
  \A i \in 1 .. Len(udev_cb) : udev_cb[i] \in {SasAdd, SasRemove, AtaAdd, AtaRemove}

EventsAreBsg ==
  /\ \A i \in 1 .. Len(queue) : queue[i].subsystem = "bsg"
  /\ at = "event" => event.subsystem = "bsg"

CallsMatch ==
  /\ at # "event" => calling = {}
  /\ \A i \in calling : Matches(udev_cb[i], event)

\* The last event for a drive says whether it is there, be it in the socket
\* or in work.
IsLast(q, d, i) ==
  /\ i \in 1 .. Len(q) /\ IsAbout(q[i], d)
  /\ \A j \in 1 .. Len(q) : IsAbout(q[j], d) => j <= i

LastWordIsTrue(d) ==
  Known(d) =>
    /\ d \in Expected =>
         \E i \in 1 .. Len(queue) :
           IsLast(queue, d, i) /\ (queue[i].action = "add" <=> d \in present)
    /\ d \notin Expected /\ Working(d) => (event.action = "add" <=> d \in present)

\* When the callbacks for it have run, the row is right; in a table that is
\* not valid it may be missing.
Settled(d) == Known(d) /\ d \notin Expected /\ (Working(d) => ~Due(d))

SasRowIsRight(d) ==
  Settled(d) => /\ d \in drives <=> d \in present
                /\ Working(d) /\ d \in drives => status[d] = SAS_PHYS_STATUS_OK

AtaRowIsRight(d) ==
  HostOf[d] = ControllerIndex /\ HasOwnRow(d) /\ Settled(d) =>
    /\ disk_index(d) \in ataDisks => d \in present
    /\ ataValid /\ d \in present => disk_index(d) \in ataDisks

FollowInv ==
  /\ CallbacksAreOurs /\ EventsAreBsg /\ CallsMatch
  /\ hbaCondition = 0 => drives = {} /\ at # "sas"
  /\ \A d \in Device : LastWordIsTrue(d)
  /\ \A d \in SasDrive : SasRowIsRight(d)
  /\ \A d \in AtaDisk : AtaRowIsRight(d)

\* In the middle of a load the condition covers what has been visited.
Covered(d) == SasCondition(status[d]) <= CPQ_REG_OK \/ SasCondition(status[d]) <= overall
CoverInv ==
  /\ OverallCoversDrives
  /\ at = "sas" =>
       \A d \in (drives \cap present) \ (unheard \cup Expected \cup todo) : Covered(d)

\* A row without status counts as unread.
ToldInv ==
  /\ BadDriveIsTold
  /\ \A d \in drives : status[d] = SAS_PHYS_STATUS_OTHER => d \in unread
=============================================================================
