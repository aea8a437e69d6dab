-------------------------- MODULE ScsiTablesProofs ---------------------------
(***************************************************************************)
(* The SAS and ATA tables: types, the health of the ATA disks, the traps   *)
(* for SAS drives, the rows of both tables against the drives, the         *)
(* condition of the SAS adapter, and the refinement of FollowingTable.     *)
(***************************************************************************)
EXTENDS ScsiTables, SequenceTheorems, TLAPS

-----------------------------------------------------------------------------
(* The dispatcher *)

OurCallbacks == {SasAdd, SasRemove, AtaAdd, AtaRemove}

LEMMA CallbackTypes == OurCallbacks \subseteq Callback
BY DEF OurCallbacks, SasAdd, SasRemove, AtaAdd, AtaRemove, Callback, Subsystem

\* The list of callbacks after udev_register: one more pair, or the same.
LEMMA Registered ==
  ASSUME UdevTypeOK, NEW add \in OurCallbacks, NEW remove \in OurCallbacks,
         RegisterPair(<<add, remove>>)
  PROVE  /\ UdevTypeOK'
         /\ UNCHANGED <<queue, event, calling>>
         /\ CallbacksAreOurs => CallbacksAreOurs'
<1> DEFINE pair == <<add, remove>>
<1>1. /\ udev_cb \in Seq(Callback) /\ Len(udev_cb) \in Nat
      /\ udev_cb' \in {udev_cb, udev_cb \o pair}
      /\ socket' \in {"none", "open"}
      /\ UNCHANGED <<queue, event, calling>>
  BY DEF RegisterPair, Register, UdevTypeOK, udevVars
<1>2. pair \in Seq(Callback) /\ Len(pair) = 2 /\ \A i \in 1 .. 2 : pair[i] \in OurCallbacks
  BY CallbackTypes
<1> HIDE DEF pair
<1>3. CASE udev_cb' = udev_cb
  BY <1>1, <1>3 DEF UdevTypeOK, CallbacksAreOurs
<1>4. CASE udev_cb' = udev_cb \o pair
  <2>1. /\ udev_cb' \in Seq(Callback) /\ Len(udev_cb') = Len(udev_cb) + 2
        /\ \A i \in 1 .. Len(udev_cb) + 2 :
             udev_cb'[i] = IF i <= Len(udev_cb) THEN udev_cb[i] ELSE pair[i - Len(udev_cb)]
    <3>1. /\ udev_cb \o pair \in Seq(Callback)
          /\ Len(udev_cb \o pair) = Len(udev_cb) + Len(pair)
          /\ \A i \in 1 .. Len(udev_cb) + Len(pair) :
               (udev_cb \o pair)[i] = IF i <= Len(udev_cb) THEN udev_cb[i]
                                      ELSE pair[i - Len(udev_cb)]
      BY <1>1, <1>2, ConcatProperties, Zenon
    <3> QED BY <3>1, <1>2, <1>4, Zenon
  <2>2. calling' \in SUBSET (1 .. Len(udev_cb'))
    BY <1>1, <2>1 DEF UdevTypeOK
  <2>3. UdevTypeOK'
    BY <1>1, <2>1, <2>2 DEF UdevTypeOK
  <2>4. ASSUME CallbacksAreOurs, NEW i \in 1 .. Len(udev_cb') PROVE udev_cb'[i] \in OurCallbacks
    <3>1. CASE i <= Len(udev_cb)
      BY <1>1, <2>1, <2>4, <3>1 DEF CallbacksAreOurs, OurCallbacks
    <3>2. CASE i > Len(udev_cb)
      <4>1. i - Len(udev_cb) \in 1 .. 2 /\ udev_cb'[i] = pair[i - Len(udev_cb)]
        BY <1>1, <2>1, <2>4, <3>2
      <4> QED BY <4>1, <1>2
    <3> QED BY <1>1, <2>1, <2>4, <3>1, <3>2
  <2> QED BY <1>1, <2>3, <2>4 DEF CallbacksAreOurs, OurCallbacks
<1> QED BY <1>1, <1>3, <1>4

LEMMA Delivered ==
  ASSUME UdevTypeOK, NEW ev \in Event, Deliver(ev)
  PROVE  /\ UdevTypeOK'
         /\ Len(queue) \in Nat /\ Len(queue') = Len(queue) + 1
         /\ \A i \in 1 .. Len(queue) : queue'[i] = queue[i]
         /\ queue'[Len(queue) + 1] = ev
<1>1. /\ queue \in Seq(Event) /\ queue' = Append(queue, ev) /\ Len(queue) < MaxQueue
      /\ UNCHANGED <<socket, udev_cb, event, calling>>
  BY DEF Deliver, UdevTypeOK
<1>2. /\ queue' \in Seq(Event) /\ Len(queue') = Len(queue) + 1 /\ Len(queue) \in Nat
      /\ \A i \in 1 .. Len(queue) : queue'[i] = queue[i]
      /\ queue'[Len(queue) + 1] = ev
  BY <1>1, AppendProperties
<1>3. Len(queue') <= MaxQueue
  BY <1>1, <1>2, NlUdevAssumption
<1> QED BY <1>1, <1>2, <1>3 DEF UdevTypeOK

LEMMA Received ==
  ASSUME UdevTypeOK, Receive
  PROVE  /\ UdevTypeOK'
         /\ event' \in Event /\ event' = queue[1]
         /\ Len(queue) \in Nat \ {0} /\ Len(queue') = Len(queue) - 1
         /\ \A i \in 1 .. Len(queue') : queue'[i] = queue[i + 1]
<1>1. /\ queue \in Seq(Event) /\ queue # <<>>
      /\ event' = Head(queue) /\ queue' = Tail(queue)
      /\ calling' \in SUBSET (1 .. Len(udev_cb)) /\ UNCHANGED <<socket, udev_cb>>
  BY DEF Receive, UdevTypeOK, Callees
<1>2. /\ event' \in Event /\ queue' \in Seq(Event) /\ Len(queue') = Len(queue) - 1
      /\ \A i \in 1 .. Len(queue') : queue'[i] = queue[i + 1]
      /\ event' = queue[1] /\ Len(queue) \in Nat \ {0}
  BY <1>1, HeadTailProperties
<1>3. Len(queue') <= MaxQueue
  BY <1>1, <1>2, NlUdevAssumption DEF UdevTypeOK
<1> QED BY <1>1, <1>2, <1>3 DEF UdevTypeOK

LEMMA Called ==
  ASSUME UdevTypeOK, NEW func, Call(func)
  PROVE  /\ UdevTypeOK'
         /\ UNCHANGED <<socket, udev_cb, queue, event>>
         /\ \E i \in calling : udev_cb[i].func = func /\ calling' = calling \ {i}
BY DEF Call, UdevTypeOK

LEMMA BsgEventType ==
  ASSUME NEW action \in {"add", "remove"}, NEW d \in Device
  PROVE  /\ BsgEvent(action, d) \in Event
         /\ BsgEvent(action, d).subsystem = "bsg"
         /\ BsgEvent(action, d).action = action
         /\ \A e : IsAbout(BsgEvent(action, d), e) <=> e = d
BY DEF BsgEvent, Event, Subsystem, IsAbout

-----------------------------------------------------------------------------
(* Types, for each part of the state *)

LEMMA ConditionIsNumber ==
  /\ Condition = 1 .. 4
  /\ CPQ_REG_OTHER = 1 /\ CPQ_REG_OK = 2 /\ CPQ_REG_DEGRADED = 3 /\ CPQ_REG_FAILED = 4
BY DEF Condition, CPQ_REG_OTHER, CPQ_REG_OK, CPQ_REG_DEGRADED, CPQ_REG_FAILED

LEMMA Made ==
  ASSUME NEW total \in 0 .. 4, NEW new \in 0 .. 4
  PROVE  /\ MAKE_CONDITION(total, new) \in {total, new}
         /\ total <= MAKE_CONDITION(total, new) /\ new <= MAKE_CONDITION(total, new)
BY DEF MAKE_CONDITION

LEMMA SasConditionType ==
  ASSUME NEW s
  PROVE  /\ SasCondition(s) \in Condition
         /\ s \notin Bad => SasCondition(s) <= CPQ_REG_OK
BY DEF SasCondition, Condition, Bad, CPQ_REG_OTHER, CPQ_REG_OK, CPQ_REG_DEGRADED, CPQ_REG_FAILED

LEMMA StatusAfterType ==
  ASSUME SasTypeOK, NEW d \in SasDrive, NEW running \in BOOLEAN
  PROVE  StatusAfter(d, running) \subseteq Status
<1>1. StatusBefore(d, running) \in Status
  BY DEF StatusBefore, SasTypeOK, Status
<1>2. \A r \in Reading : StatusRead(r) \in Status
  BY DEF StatusRead, Status
<1> QED BY <1>1, <1>2 DEF StatusAfter

\* A drive that is read, by a load or by a callback, and its new row.
LEMMA SasAddType ==
  ASSUME SasTypeOK, NEW d \in SasDrive, NEW read \in Status, NEW s \in Status,
         sas_add_disk(d, read), IsNow(d, s), told' \in {told, told \cup {d}, told \ {d}},
         UNCHANGED <<hbaCondition, sasHealth, masked>>
  PROVE  SasTypeOK'
<1>1. overall' \in 0 .. CPQ_REG_FAILED
  <2>1. overall \in 0 .. 4 /\ SasCondition(read) \in 0 .. 4
    BY SasConditionType, ConditionIsNumber DEF SasTypeOK
  <2> QED BY <2>1, Made, ConditionIsNumber DEF sas_add_disk
<1> QED BY <1>1 DEF SasTypeOK, sas_add_disk, IsNow

LEMMA AfterTrapIs ==
  ASSUME NEW d, NEW s
  PROVE  /\ AfterTrap(d, s) = IF TrapDue(d, s) THEN told \cup {d} ELSE told
         /\ SendSasTrap(d, s) \in {told \cup {d}, told \ {d}}
BY DEF AfterTrap, SendSasTrap, TrapDue

\* What the steps do to the SAS tables.
SasLoadsDrive(d, s) ==
  /\ sas_add_disk(d, s) /\ IsNow(d, s) /\ told' = AfterTrap(d, s)
  /\ UNCHANGED <<hbaCondition, sasHealth, masked>>

SasReplugs(d, s) ==
  /\ sas_add_disk(d, s) /\ IsNow(d, SAS_PHYS_STATUS_OK)
  /\ told' = SendSasTrap(d, SAS_PHYS_STATUS_OK)
  /\ UNCHANGED <<hbaCondition, sasHealth, masked>>

SasRemoves(d) ==
  /\ drives' = drives \ {d}
  /\ status' = [status EXCEPT ![d] = SAS_PHYS_STATUS_OTHER]
  /\ unread' = unread \ {d}
  /\ told' \in {told \cup {d}, told \ {d}}
  /\ UNCHANGED <<hbaCondition, overall, sasHealth, masked>>

LEMMA LoadDriveIs ==
  ASSUME SasTypeOK, NEW d \in SasDrive, SasLoadDrive(d)
  PROVE  \/ d \in present /\ \E s \in Status : SasLoadsDrive(d, s)
         \/ d \notin present /\ UNCHANGED sasVars
<1>1. CASE d \in present
  <2>1. PICK s \in UNION {StatusAfter(d, running) : running \in BOOLEAN} :
          sas_add_disk(d, s) /\ IsNow(d, s) /\ told' = AfterTrap(d, s)
    BY <1>1 DEF SasLoadDrive
  <2>2. s \in Status
    BY <2>1, StatusAfterType
  <2> QED BY <1>1, <2>1, <2>2 DEF SasLoadDrive, SasLoadsDrive
<1>2. CASE d \notin present
  BY <1>2 DEF SasLoadDrive, sasVars
<1> QED BY <1>1, <1>2

LEMMA SasAddIs ==
  ASSUME SasTypeOK, cpqsas_add_sas_end_device
  PROVE  \/ /\ event.dev \in present /\ event.dev \in SasDrive /\ hbaCondition # 0
            /\ \E s \in Status : SasReplugs(event.dev, s)
            /\ UNCHANGED unheard
         \/ SasIgnoresDrive /\ UNCHANGED sasVars
<1>1. CASE SasAddsDrive
  <2>1. event.dev \in present /\ event.dev \in SasDrive /\ hbaCondition # 0 /\ UNCHANGED unheard
    BY <1>1 DEF SasAddsDrive
  <2>2. PICK s \in UNION {StatusAfter(event.dev, running) : running \in BOOLEAN} :
          sas_add_disk(event.dev, s)
    BY <1>1 DEF SasAddsDrive
  <2>3. s \in Status
    BY <2>1, <2>2, StatusAfterType
  <2> QED
    BY <1>1, <2>1, <2>2, <2>3 DEF SasAddsDrive, SasReplugs, cpqsas_add_sas_end_device
<1>2. CASE SasIgnoresDrive
  BY <1>2 DEF SasIgnoresDrive, cpqsas_add_sas_end_device, sasVars
<1> QED BY <1>1, <1>2 DEF cpqsas_add_sas_end_device

LEMMA SasRemoveIs ==
  ASSUME SasTypeOK, cpqsas_remove_sas_end_device
  PROVE  \/ event.dev \in drives /\ SasRemoves(event.dev)
         \/ event.dev \notin drives /\ UNCHANGED sasVars
BY AfterTrapIs DEF cpqsas_remove_sas_end_device, HasRow, SasRemoves, sasVars

\* The steps that leave the SAS tables alone, and those that leave the ATA table alone.
NoSasStep == /\ UNCHANGED sasVars
             /\ \/ \E d \in Device : Plug(d) \/ Unplug(d)
                \/ CtlrLoad \/ AtaLoad \/ AtaRelease \/ StartEvent \/ EndEvent
                \/ cpqide_add_ide_end_device \/ cpqide_remove_ide_end_device
                \/ UNCHANGED vars

NoIdeStep == /\ UNCHANGED ideVars
             /\ \/ \E d \in Device : Plug(d) \/ Unplug(d)
                \/ HbaLoad \/ SasLoadNoHba \/ SasScan \/ SasLoadEnd
                \/ \E d \in SasDrive : SasLoadDrive(d)
                \/ StartEvent \/ EndEvent
                \/ cpqsas_add_sas_end_device \/ cpqsas_remove_sas_end_device
                \/ UNCHANGED vars

LEMMA SasSteps ==
  ASSUME [Next]_vars
  PROVE  \/ NoSasStep \/ HbaLoad \/ SasLoadNoHba \/ SasScan \/ SasLoadEnd
         \/ \E d \in SasDrive : SasLoadDrive(d)
         \/ cpqsas_add_sas_end_device \/ cpqsas_remove_sas_end_device
BY Zenon DEF Next, World, LoadSas, LoadAta, Process, NoSasStep, vars

LEMMA IdeSteps ==
  ASSUME [Next]_vars
  PROVE  \/ NoIdeStep \/ CtlrLoad \/ AtaLoad \/ AtaRelease
         \/ cpqide_add_ide_end_device \/ cpqide_remove_ide_end_device
BY Zenon DEF Next, World, LoadSas, LoadAta, Process, NoIdeStep, vars

LEMMA SasType ==
  ASSUME SasTypeOK, BusTypeOK, [Next]_vars
  PROVE  SasTypeOK'
<1>1. ASSUME UNCHANGED sasVars PROVE SasTypeOK'
  BY <1>1 DEF sasVars, SasTypeOK
<1>2. ASSUME HbaLoad PROVE SasTypeOK'
  <2>1. hbaCondition' \in {0, CPQ_REG_OTHER, CPQ_REG_OK, CPQ_REG_FAILED}
    BY <1>2 DEF HbaLoad, HbaStatusCondition, SasTypeOK
  <2>2. overall' \in 0 .. 4
    BY <1>2, <2>1, ConditionIsNumber DEF HbaLoad
  <2>3. sasHealth' \in Condition
    BY <1>2, <2>2, ConditionIsNumber DEF HbaLoad, MAKE_CONDITION
  <2> QED BY <1>2, <2>1, <2>2, <2>3, ConditionIsNumber DEF HbaLoad, SasTypeOK
<1>3. ASSUME SasLoadNoHba \/ SasScan PROVE SasTypeOK'
  BY <1>3, ConditionIsNumber DEF SasLoadNoHba, SasScan, SasTypeOK
<1>4. ASSUME NEW d \in SasDrive, SasLoadDrive(d) PROVE SasTypeOK'
  <2>1. CASE \E s \in Status : SasLoadsDrive(d, s)
    BY <2>1, SasAddType, AfterTrapIs DEF SasLoadsDrive
  <2> QED BY <1>1, <1>4, <2>1, LoadDriveIs
<1>5. ASSUME SasLoadEnd PROVE SasTypeOK'
  <2>1. sasHealth' \in Condition
    BY <1>5, ConditionIsNumber DEF SasLoadEnd, MAKE_CONDITION, SasTypeOK
  <2> QED BY <1>5, <2>1 DEF SasLoadEnd, SasTypeOK
<1>6. ASSUME cpqsas_add_sas_end_device PROVE SasTypeOK'
  <2>1. CASE event.dev \in SasDrive /\ \E s \in Status : SasReplugs(event.dev, s)
    <3>1. SAS_PHYS_STATUS_OK \in Status
      BY DEF Status
    <3> QED BY <2>1, <3>1, SasAddType, AfterTrapIs DEF SasReplugs
  <2> QED BY <1>1, <1>6, <2>1, SasAddIs
<1>7. ASSUME cpqsas_remove_sas_end_device PROVE SasTypeOK'
  <2>1. CASE event.dev \in drives /\ SasRemoves(event.dev)
    <3>1. event.dev \in SasDrive
      BY <2>1 DEF SasTypeOK
    <3>2. status' \in [SasDrive -> Status] /\ told' \in SUBSET SasDrive
      BY <2>1, <3>1 DEF SasRemoves, SasTypeOK, Status
    <3> QED BY <2>1, <3>2 DEF SasRemoves, SasTypeOK
  <2> QED BY <1>1, <1>7, <2>1, SasRemoveIs
<1>8. ASSUME NoSasStep PROVE SasTypeOK'
  BY <1>1, <1>8 DEF NoSasStep
<1> QED BY <1>2, <1>3, <1>4, <1>5, <1>6, <1>7, <1>8, SasSteps

LEMMA AtaStatusIsNumber ==
  /\ AtaStatus = 0 .. 3
  /\ IDE_DISK_STATUS_NONE = 0 /\ IDE_DISK_STATUS_OTHER = 1
  /\ IDE_DISK_STATUS_OK = 2 /\ IDE_DISK_STATUS_SMARTERROR = 3
BY DEF AtaStatus, IDE_DISK_STATUS_NONE, IDE_DISK_STATUS_OTHER, IDE_DISK_STATUS_OK,
       IDE_DISK_STATUS_SMARTERROR

LEMMA HealthAfterIs ==
  ASSUME NEW statuses
  PROVE  /\ HealthAfter(statuses) \in {CPQ_REG_DEGRADED, ataHealth}
         /\ \A s \in statuses : Degraded(s) => HealthAfter(statuses) = CPQ_REG_DEGRADED
BY DEF HealthAfter

LEMMA IndexOfDevice == \A d \in Device : disk_index(d) \in Index
BY DEF Index

LEMMA AtaAddIs ==
  ASSUME IdeTypeOK, BusTypeOK, cpqide_add_ide_end_device
  PROVE  /\ at = "event" /\ event.dev \in Device /\ Call("add_ata")
         /\ UNCHANGED <<busVars, ataValid>>
         /\ \/ /\ HostOf[event.dev] = ControllerIndex
               /\ ataDisks' = ataDisks \cup {disk_index(event.dev)}
               /\ ataStatus' = [ataStatus EXCEPT ![disk_index(event.dev)] = IDE_DISK_STATUS_OK]
               /\ ataOverall' \in Condition
               /\ ataHealth' \in {CPQ_REG_DEGRADED, ataHealth}
            \/ /\ HostOf[event.dev] # ControllerIndex
               /\ UNCHANGED <<ataDisks, ataStatus, ataOverall, ataHealth>>
<1>1. /\ at = "event" /\ Call("add_ata") /\ UNCHANGED <<busVars, ataValid>>
  BY DEF cpqide_add_ide_end_device
<1>2. event.dev \in Device
  BY <1>1 DEF BusTypeOK, Event
<1>3. CASE HostOf[event.dev] = ControllerIndex
  <2>1. PICK s \in AtaStatusRead(disk_index(event.dev), ataDisks) :
            /\ ataDisks' = ataDisks \cup {disk_index(event.dev)}
            /\ ataStatus' = [ataStatus EXCEPT ![disk_index(event.dev)] = IDE_DISK_STATUS_OK]
            /\ ataOverall' = MAKE_CONDITION(ataOverall, s)
            /\ ataHealth' = HealthAfter({s})
    BY <1>3 DEF cpqide_add_ide_end_device
  <2>2. s \in 0 .. 3
    BY <1>2, <2>1, IndexOfDevice, AtaStatusIsNumber DEF AtaStatusRead, IdeTypeOK
  <2>3. ataOverall' \in Condition
    BY <2>1, <2>2, ConditionIsNumber DEF IdeTypeOK, MAKE_CONDITION
  <2> QED BY <1>1, <1>2, <1>3, <2>1, <2>3, HealthAfterIs
<1>4. CASE HostOf[event.dev] # ControllerIndex
  BY <1>1, <1>2, <1>4 DEF cpqide_add_ide_end_device
<1> QED BY <1>3, <1>4

LEMMA AtaRemoveIs ==
  ASSUME BusTypeOK, cpqide_remove_ide_end_device
  PROVE  /\ at = "event" /\ event.dev \in Device /\ Call("remove_ata")
         /\ UNCHANGED <<busVars, ataValid, ataOverall, ataHealth>>
         /\ \/ /\ HostOf[event.dev] = ControllerIndex
               /\ ataDisks' = ataDisks \ {disk_index(event.dev)}
               /\ ataStatus' = [ataStatus EXCEPT ![disk_index(event.dev)] = IDE_DISK_STATUS_NONE]
            \/ /\ HostOf[event.dev] # ControllerIndex
               /\ UNCHANGED <<ataDisks, ataStatus>>
BY DEF cpqide_remove_ide_end_device, BusTypeOK, Event

LEMMA AtaLoadIs ==
  ASSUME IdeTypeOK, AtaLoad
  PROVE  /\ at = "idle" /\ ataValid' = TRUE
         /\ ataDisks' = Kept \cup {disk_index(d) : d \in present \cap AtaDisk}
         /\ unheard' = {d \in unheard : d \in AtaDisk => d \in Expected \/ disk_index(d) \in Kept}
         /\ UNCHANGED <<present, faults, at, todo>>
         /\ ataStatus' \in [Index -> AtaStatus]
         /\ ataOverall' \in Condition
         /\ ataHealth' \in {CPQ_REG_DEGRADED, ataHealth}
         /\ \A i \in ataDisks' :
              \/ i \in Kept /\ ataStatus'[i] = ataStatus[i]
              \/ Degraded(ataStatus'[i]) => ataHealth' = CPQ_REG_DEGRADED
<1> DEFINE found == present \cap AtaDisk
           made == {disk_index(d) : d \in found}
<1>1. /\ at = "idle" /\ ataValid' = TRUE /\ ataDisks' = Kept \cup made
      /\ unheard' = {d \in unheard : d \in AtaDisk => d \in Expected \/ disk_index(d) \in Kept}
      /\ UNCHANGED <<present, faults, at, todo>>
  BY DEF AtaLoad
<1>2. PICK read \in [found -> AtaStatus], last \in [made -> found] :
        /\ ataStatus' = [i \in Index |-> IF i \in made THEN read[last[i]]
                                         ELSE IF i \in Kept THEN ataStatus[i]
                                         ELSE IDE_DISK_STATUS_NONE]
        /\ ataHealth' = HealthAfter({read[d] : d \in found})
        /\ ataOverall' \in {read[d] : d \in found} \cup {ataOverall}
        /\ \A s \in {read[d] : d \in found} \cup {ataOverall} : s <= ataOverall'
  BY DEF AtaLoad
<1> HIDE DEF found, made
<1>3. ataStatus' \in [Index -> AtaStatus]
  BY <1>2, AtaStatusIsNumber DEF IdeTypeOK
<1>4. ataOverall' \in Condition
  <2>1. ataOverall' \in 0 .. 4 /\ ataOverall <= ataOverall'
    BY <1>2, ConditionIsNumber, AtaStatusIsNumber DEF IdeTypeOK
  <2> QED BY <2>1, ConditionIsNumber DEF IdeTypeOK
<1>5. ASSUME NEW i \in ataDisks'
      PROVE  \/ i \in Kept /\ ataStatus'[i] = ataStatus[i]
             \/ Degraded(ataStatus'[i]) => ataHealth' = CPQ_REG_DEGRADED
  <2>1. made \subseteq Index /\ Kept \subseteq Index
    BY ScsiBusAssumption DEF Kept, IdeTypeOK, Index, made, found
  <2>2. CASE i \in made
    <3>1. ataStatus'[i] = read[last[i]] /\ last[i] \in found
      BY <1>2, <2>1, <2>2
    <3>2. read[last[i]] \in {read[d] : d \in found}
      BY <3>1
    <3> QED BY <1>2, <3>1, <3>2, HealthAfterIs
  <2>3. CASE i \notin made
    <3>1. i \in Kept
      BY <1>1, <1>5, <2>3
    <3> QED BY <1>2, <2>1, <2>3, <3>1
  <2> QED BY <2>2, <2>3
<1>6. ataHealth' \in {CPQ_REG_DEGRADED, ataHealth}
  BY <1>2, HealthAfterIs
<1> QED BY <1>1, <1>3, <1>4, <1>5, <1>6 DEF found, made

LEMMA IdeType ==
  ASSUME IdeTypeOK, BusTypeOK, [Next]_vars
  PROVE  IdeTypeOK'
<1>1. ASSUME NoIdeStep PROVE IdeTypeOK'
  BY <1>1 DEF NoIdeStep, ideVars, IdeTypeOK
<1>2. ASSUME CtlrLoad PROVE IdeTypeOK'
  BY <1>2, ConditionIsNumber DEF CtlrLoad, IdeTypeOK
<1>3. ASSUME AtaLoad PROVE IdeTypeOK'
  <2>1. ataDisks' \in SUBSET Index
    BY <1>3, AtaLoadIs, ScsiBusAssumption DEF Kept, IdeTypeOK, Index
  <2>2. ataHealth' \in Condition
    <3>1. ataHealth' \in {CPQ_REG_DEGRADED, ataHealth}
      BY <1>3, AtaLoadIs
    <3>2. CPQ_REG_DEGRADED \in Condition /\ ataHealth \in Condition
      BY ConditionIsNumber DEF IdeTypeOK
    <3> QED BY <3>1, <3>2
  <2>3. ataStatus' \in [Index -> AtaStatus] /\ ataValid' \in BOOLEAN /\ ataOverall' \in Condition
    BY <1>3, AtaLoadIs
  <2> QED BY <2>1, <2>2, <2>3, Zenon DEF IdeTypeOK
<1>4. ASSUME AtaRelease PROVE IdeTypeOK'
  <2>1. IDE_DISK_STATUS_NONE \in AtaStatus
    BY AtaStatusIsNumber
  <2>2. ataStatus' \in [Index -> AtaStatus]
    BY <1>4, <2>1 DEF AtaRelease
  <2>3. ataValid' \in BOOLEAN /\ ataDisks' \in SUBSET Index /\ UNCHANGED <<ataOverall, ataHealth>>
    BY <1>4 DEF AtaRelease
  <2> QED BY <2>2, <2>3, Zenon DEF IdeTypeOK
<1>5. ASSUME cpqide_add_ide_end_device PROVE IdeTypeOK'
  BY <1>5, AtaAddIs, IndexOfDevice, AtaStatusIsNumber, ConditionIsNumber DEF IdeTypeOK
<1>6. ASSUME cpqide_remove_ide_end_device PROVE IdeTypeOK'
  BY <1>6, AtaRemoveIs, IndexOfDevice, AtaStatusIsNumber DEF IdeTypeOK
<1> QED BY <1>1, <1>2, <1>3, <1>4, <1>5, <1>6, IdeSteps

\* The steps that leave the bus alone but for unheard, and all others.
SasLoads == HbaLoad \/ SasLoadNoHba \/ SasScan \/ SasLoadEnd \/ \E d \in SasDrive : SasLoadDrive(d)
AtaLoads == CtlrLoad \/ AtaLoad \/ AtaRelease
SasCalls == cpqsas_add_sas_end_device \/ cpqsas_remove_sas_end_device
AtaCalls == cpqide_add_ide_end_device \/ cpqide_remove_ide_end_device

LEMMA Steps ==
  ASSUME [Next]_vars
  PROVE  \/ UNCHANGED vars
         \/ (\E d \in Device : Plug(d) \/ Unplug(d)) /\ UNCHANGED <<sasVars, ideVars>>
         \/ SasLoads /\ UNCHANGED ideVars
         \/ AtaLoads /\ UNCHANGED sasVars
         \/ (StartEvent \/ EndEvent) /\ UNCHANGED <<sasVars, ideVars>>
         \/ SasCalls /\ UNCHANGED ideVars
         \/ AtaCalls /\ UNCHANGED sasVars
BY Zenon DEF Next, World, LoadSas, LoadAta, Process, SasLoads, AtaLoads, SasCalls, AtaCalls

LEMMA RegisteredSas ==
  ASSUME UdevTypeOK, RegisterPair(<<SasAdd, SasRemove>>)
  PROVE  /\ UdevTypeOK'
         /\ UNCHANGED <<queue, event, calling>>
         /\ CallbacksAreOurs => CallbacksAreOurs'
BY Registered DEF OurCallbacks

LEMMA RegisteredAta ==
  ASSUME UdevTypeOK, RegisterPair(<<AtaAdd, AtaRemove>>)
  PROVE  /\ UdevTypeOK'
         /\ UNCHANGED <<queue, event, calling>>
         /\ CallbacksAreOurs => CallbacksAreOurs'
BY Registered DEF OurCallbacks

LEMMA AnnounceType ==
  ASSUME BusTypeOK, NEW action \in {"add", "remove"}, NEW d \in Device, Announce(action, d)
  PROVE  /\ UdevTypeOK' /\ faults' \in 0 .. MaxFaults /\ unheard' \in SUBSET Device
         /\ UNCHANGED <<event, calling>>
<1>1. CASE Deliver(BsgEvent(action, d)) /\ UNCHANGED faults /\ unheard' = unheard \ {d}
  BY <1>1, Delivered, BsgEventType DEF BusTypeOK, Deliver
<1>2. CASE /\ UNCHANGED udevVars
           /\ faults' = faults \/ (faults < MaxFaults /\ faults' = faults + 1)
           /\ unheard' = unheard \cup {d}
  <2>1. faults' \in 0 .. MaxFaults
    BY <1>2, ScsiBusAssumption DEF BusTypeOK
  <2> QED BY <1>2, <2>1 DEF BusTypeOK, UdevTypeOK, udevVars
<1> QED BY <1>1, <1>2 DEF Announce

LEMMA BusType ==
  ASSUME BusTypeOK, SasTypeOK, IdeTypeOK, [Next]_vars
  PROVE  BusTypeOK'
<1>1. ASSUME UNCHANGED <<udevVars, busVars>> PROVE BusTypeOK'
  BY <1>1 DEF udevVars, busVars, BusTypeOK, UdevTypeOK
<1>2. ASSUME NEW d \in Device, Plug(d) \/ Unplug(d) PROVE BusTypeOK'
  <2>1. /\ UdevTypeOK' /\ faults' \in 0 .. MaxFaults /\ unheard' \in SUBSET Device
        /\ UNCHANGED <<event, calling>>
    BY <1>2, AnnounceType DEF Plug, Unplug
  <2>2. present' \in SUBSET Device /\ UNCHANGED <<at, todo>>
    BY <1>2 DEF Plug, Unplug, BusTypeOK
  <2> QED BY <2>1, <2>2 DEF BusTypeOK
<1>3. ASSUME SasLoads PROVE BusTypeOK'
  <2>1. CASE HbaLoad
    BY <1>1, <2>1 DEF HbaLoad
  <2>2. CASE SasLoadNoHba
    BY <2>2, RegisteredSas DEF SasLoadNoHba, BusTypeOK, busVars
  <2>3. CASE SasScan
    BY <2>3 DEF SasScan, BusTypeOK, UdevTypeOK, udevVars
  <2>4. CASE SasLoadEnd
    BY <2>4, RegisteredSas DEF SasLoadEnd, BusTypeOK
  <2>5. ASSUME NEW d \in SasDrive, SasLoadDrive(d) PROVE BusTypeOK'
    <3>1. at' \in {"sas", "dead"}
      BY <2>5 DEF SasLoadDrive, Vanished
    <3>2. UNCHANGED <<udevVars, present, faults>> /\ todo' \subseteq todo /\ unheard' \subseteq unheard
      BY <2>5 DEF SasLoadDrive
    <3> QED BY <3>1, <3>2 DEF BusTypeOK, UdevTypeOK, udevVars
  <2> QED BY <1>3, <2>1, <2>2, <2>3, <2>4, <2>5 DEF SasLoads
<1>4. ASSUME AtaLoads PROVE BusTypeOK'
  <2>1. CASE CtlrLoad \/ AtaRelease
    BY <1>1, <2>1 DEF CtlrLoad, AtaRelease
  <2>2. CASE AtaLoad
    <3>1. /\ UdevTypeOK' /\ UNCHANGED event
      <4>1. UNCHANGED udevVars \/ RegisterPair(<<AtaAdd, AtaRemove>>)
        BY <2>2 DEF AtaLoad
      <4> QED BY <4>1, RegisteredAta DEF BusTypeOK, UdevTypeOK, udevVars
    <3>2. UNCHANGED <<present, faults, at, todo>> /\ unheard' \subseteq unheard
      BY <2>2 DEF AtaLoad
    <3> QED BY <3>1, <3>2 DEF BusTypeOK
  <2> QED BY <1>4, <2>1, <2>2 DEF AtaLoads
<1>5. ASSUME StartEvent PROVE BusTypeOK'
  <2>1. UdevTypeOK' /\ event' \in Event
    BY <1>5, Received DEF StartEvent, BusTypeOK
  <2> QED BY <1>5, <2>1 DEF StartEvent, BusTypeOK
<1>6. ASSUME EndEvent PROVE BusTypeOK'
  BY <1>6 DEF EndEvent, Finish, BusTypeOK, UdevTypeOK
<1>7. ASSUME SasCalls PROVE BusTypeOK'
  <2>1. /\ at = "event" /\ UNCHANGED <<present, faults, at, todo>>
        /\ Call("add_disk") \/ Call("remove_disk")
    BY <1>7 DEF SasCalls, cpqsas_add_sas_end_device, cpqsas_remove_sas_end_device
  <2>2. UdevTypeOK' /\ UNCHANGED event
    BY <2>1, Called DEF BusTypeOK
  <2>3. unheard' \in SUBSET Device
    BY <1>7, <2>1 DEF SasCalls, cpqsas_add_sas_end_device, cpqsas_remove_sas_end_device,
                SasAddsDrive, SasIgnoresDrive, BusTypeOK
  <2> QED BY <2>1, <2>2, <2>3 DEF BusTypeOK
<1>8. ASSUME AtaCalls PROVE BusTypeOK'
  <2>1. UNCHANGED busVars /\ (Call("add_ata") \/ Call("remove_ata"))
    BY <1>8 DEF AtaCalls, cpqide_add_ide_end_device, cpqide_remove_ide_end_device
  <2>2. UdevTypeOK' /\ UNCHANGED event
    BY <2>1, Called DEF BusTypeOK
  <2> QED BY <2>1, <2>2 DEF BusTypeOK, busVars
<1>9. UNCHANGED vars => UNCHANGED <<udevVars, busVars>>
  BY DEF vars
<1> QED BY <1>1, <1>2, <1>3, <1>4, <1>5, <1>6, <1>7, <1>8, <1>9, Steps

LEMMA InitType == Init => TypeOK
<1> SUFFICES ASSUME Init PROVE TypeOK
  OBVIOUS
<1>1. UdevTypeOK
  BY NlUdevAssumption DEF Init, BusInit, UdevTypeOK
<1>2. BusTypeOK
  BY <1>1, ScsiBusAssumption DEF Init, BusInit, BusTypeOK
<1>3. SasTypeOK
  BY ConditionIsNumber DEF Init, SasInit, SasTypeOK, Status
<1>4. IdeTypeOK
  <2>1. CPQ_REG_OK \in Condition /\ IDE_DISK_STATUS_NONE \in AtaStatus
    BY ConditionIsNumber, AtaStatusIsNumber
  <2> QED BY <2>1 DEF Init, IdeInit, IdeTypeOK
<1> QED BY <1>2, <1>3, <1>4 DEF TypeOK

\* Every variable of the bus and of both tables keeps its type.
THEOREM TypeCorrect == Spec => []TypeOK
<1>1. TypeOK /\ [Next]_vars => TypeOK'
  BY BusType, SasType, IdeType DEF TypeOK
<1> QED BY <1>1, InitType, PTL DEF Spec

-----------------------------------------------------------------------------
(* The health of the ATA disks *)

LEMMA NextHealth == TypeOK /\ AtaHealthCoversRows /\ [Next]_vars => AtaHealthCoversRows'
<1> SUFFICES ASSUME IdeTypeOK, BusTypeOK, AtaHealthCoversRows, [Next]_vars
             PROVE  AtaHealthCoversRows'
  BY DEF TypeOK
<1> USE ConditionIsNumber
<1>1. CASE NoIdeStep \/ CtlrLoad
  BY <1>1 DEF NoIdeStep, CtlrLoad, ideVars, AtaHealthCoversRows, Degraded
<1>2. CASE AtaLoad
  <2>1. ASSUME NEW i \in ataDisks', Degraded(ataStatus'[i]) PROVE ataHealth' >= CPQ_REG_DEGRADED
    <3>1. \/ i \in Kept /\ ataStatus'[i] = ataStatus[i]
          \/ ataHealth' = CPQ_REG_DEGRADED
      BY <1>2, <2>1, AtaLoadIs
    <3>2. ataHealth' \in {CPQ_REG_DEGRADED, ataHealth}
      BY <1>2, AtaLoadIs
    <3> QED BY <2>1, <3>1, <3>2 DEF AtaHealthCoversRows, Kept
  <2> QED BY <2>1 DEF AtaHealthCoversRows, Degraded
<1>3. CASE AtaRelease
  BY <1>3 DEF AtaRelease, AtaHealthCoversRows
<1>4. CASE cpqide_add_ide_end_device
  <2>1. ASSUME NEW i \in ataDisks', Degraded(ataStatus'[i]) PROVE ataHealth' >= CPQ_REG_DEGRADED
    <3>1. i \in ataDisks /\ ataStatus'[i] = ataStatus[i]
      BY <1>4, <2>1, AtaAddIs, IndexOfDevice, AtaStatusIsNumber DEF IdeTypeOK, Degraded
    <3>2. ataHealth' \in {CPQ_REG_DEGRADED, ataHealth}
      BY <1>4, AtaAddIs
    <3> QED BY <2>1, <3>1, <3>2 DEF AtaHealthCoversRows
  <2> QED BY <2>1 DEF AtaHealthCoversRows, Degraded
<1>5. CASE cpqide_remove_ide_end_device
  BY <1>5, AtaRemoveIs, AtaStatusIsNumber DEF IdeTypeOK, AtaHealthCoversRows, Degraded
<1> QED BY <1>1, <1>2, <1>3, <1>4, <1>5, IdeSteps

\* The health that the host MIB shows of the ATA disks is never better than
\* a row of the table, by loads and callbacks alike (ide_add_disk).
THEOREM AtaHealthAlwaysCoversRows == Spec => []AtaHealthCoversRows
<1>1. Init => AtaHealthCoversRows
  BY DEF Init, IdeInit, AtaHealthCoversRows
<1> QED BY <1>1, NextHealth, TypeCorrect, PTL DEF Spec

-----------------------------------------------------------------------------
(* The traps for SAS drives *)

LEMMA StatusCases ==
  /\ \A s \in Status : s = SAS_PHYS_STATUS_OTHER \/ s = SAS_PHYS_STATUS_OK \/ s \in Bad
  /\ SAS_PHYS_STATUS_OTHER \notin Bad /\ SAS_PHYS_STATUS_OK \notin Bad
  /\ SAS_PHYS_STATUS_OTHER # SAS_PHYS_STATUS_OK
BY DEF Status, Bad, SAS_PHYS_STATUS_OTHER, SAS_PHYS_STATUS_OK,
       SAS_PHYS_STATUS_PREDICTIVEFAILURE, SAS_PHYS_STATUS_FAILED

\* A load finds the drive bad: that is news, or the agent has told it before.
LEMMA LoadTells ==
  ASSUME SasTypeOK, ToldInv, NEW d \in SasDrive, NEW s \in Status, SasLoadsDrive(d, s)
  PROVE  ToldInv'
<1>1. /\ drives' = drives \cup {d} /\ status' = [status EXCEPT ![d] = s]
      /\ unread' = IF s = SAS_PHYS_STATUS_OTHER THEN unread \cup {d}
                   ELSE IF s = SAS_PHYS_STATUS_OK THEN unread \ {d} ELSE unread
      /\ told' = IF TrapDue(d, s) THEN told \cup {d} ELSE told
  BY AfterTrapIs DEF SasLoadsDrive, sas_add_disk, IsNow
<1>2. \A e \in SasDrive : status'[e] = IF e = d THEN s ELSE status[e]
  BY <1>1 DEF SasTypeOK
<1>3. \A e \in SasDrive \ {d} :
        /\ e \in drives' <=> e \in drives
        /\ e \in unread' <=> e \in unread
        /\ e \in told' <=> e \in told
        /\ status'[e] = status[e]
  BY <1>1, <1>2
<1>4. drives' \subseteq SasDrive
  BY <1>1 DEF SasTypeOK
<1>5. ASSUME s \in Bad, d \notin unread PROVE d \in told'
  <2>1. CASE d \notin drives \/ status[d] = SAS_PHYS_STATUS_OK
    BY <1>1, <1>5, <2>1 DEF TrapDue
  <2>2. CASE d \in drives /\ status[d] = SAS_PHYS_STATUS_OTHER
    BY <1>5, <2>2 DEF ToldInv
  <2>3. CASE d \in drives /\ status[d] \in Bad
    BY <1>1, <1>5, <2>3 DEF ToldInv, BadDriveIsTold
  <2>4. status[d] \in Status
    BY DEF SasTypeOK
  <2> QED BY <2>1, <2>2, <2>3, <2>4, StatusCases
<1>6. ASSUME NEW e \in drives' \ unread', status'[e] \in Bad PROVE e \in told'
  <2>1. CASE e = d
    BY <1>1, <1>2, <1>5, <1>6, <2>1, StatusCases
  <2>2. CASE e # d
    BY <1>3, <1>4, <1>6, <2>2 DEF ToldInv, BadDriveIsTold
  <2> QED BY <2>1, <2>2
<1>7. ASSUME NEW e \in drives', status'[e] = SAS_PHYS_STATUS_OTHER PROVE e \in unread'
  <2>1. CASE e = d
    BY <1>1, <1>2, <1>7, <2>1
  <2>2. CASE e # d
    BY <1>3, <1>4, <1>7, <2>2 DEF ToldInv
  <2> QED BY <2>1, <2>2
<1> QED BY <1>6, <1>7 DEF ToldInv, BadDriveIsTold

\* The callbacks leave the drive OK, or without a row.
LEMMA CallTells ==
  ASSUME SasTypeOK, ToldInv, NEW d \in SasDrive,
         SasRemoves(d) \/ \E s \in Status : SasReplugs(d, s)
  PROVE  ToldInv'
<1>1. /\ told' \in {told \cup {d}, told \ {d}} /\ unread' = unread \ {d}
      /\ \/ drives' = drives \ {d}
            /\ status' = [status EXCEPT ![d] = SAS_PHYS_STATUS_OTHER]
         \/ drives' = drives \cup {d}
            /\ status' = [status EXCEPT ![d] = SAS_PHYS_STATUS_OK]
  BY AfterTrapIs, StatusCases DEF SasRemoves, SasReplugs, sas_add_disk, IsNow
<1>2. \A e \in SasDrive \ {d} :
        /\ e \in drives' <=> e \in drives
        /\ e \in unread' <=> e \in unread
        /\ e \in told' <=> e \in told
        /\ status'[e] = status[e]
  BY <1>1 DEF SasTypeOK
<1>3. drives' \subseteq SasDrive
  BY <1>1 DEF SasTypeOK
<1>4. d \in drives' => status'[d] = SAS_PHYS_STATUS_OK
  BY <1>1 DEF SasTypeOK
<1> QED BY <1>2, <1>3, <1>4, StatusCases DEF ToldInv, BadDriveIsTold

LEMMA NextTold == TypeOK /\ ToldInv /\ [Next]_vars => ToldInv'
<1> SUFFICES ASSUME SasTypeOK, ToldInv, [Next]_vars PROVE ToldInv'
  BY DEF TypeOK
<1>1. ASSUME UNCHANGED <<drives, status, told, unread>> PROVE ToldInv'
  BY <1>1 DEF ToldInv, BadDriveIsTold
<1>2. CASE NoSasStep \/ HbaLoad \/ SasLoadNoHba \/ SasScan \/ SasLoadEnd
  BY <1>1, <1>2 DEF NoSasStep, HbaLoad, SasLoadNoHba, SasScan, SasLoadEnd, sasVars
<1>3. ASSUME NEW d \in SasDrive, SasLoadDrive(d) PROVE ToldInv'
  BY <1>1, <1>3, LoadDriveIs, LoadTells DEF sasVars
<1>4. CASE cpqsas_add_sas_end_device
  BY <1>1, <1>4, SasAddIs, CallTells DEF sasVars
<1>5. CASE cpqsas_remove_sas_end_device
  <2>1. event.dev \in drives => event.dev \in SasDrive
    BY DEF SasTypeOK
  <2> QED BY <1>1, <1>5, <2>1, SasRemoveIs, CallTells DEF sasVars
<1> QED BY <1>2, <1>3, <1>4, <1>5, SasSteps

\* Of a SAS drive with a bad status the last trap said that it is bad, in
\* whatever order loads and callbacks saw it (sas_add_disk).
THEOREM BadDriveIsAlwaysTold == Spec => []BadDriveIsTold
<1>1. Init => ToldInv
  BY DEF Init, SasInit, ToldInv, BadDriveIsTold
<1>2. ToldInv => BadDriveIsTold
  BY DEF ToldInv
<1> QED BY <1>1, <1>2, NextTold, TypeCorrect, PTL DEF Spec

-----------------------------------------------------------------------------
(* The news of a drive, in the socket and in work *)

\* An event for another drive is sent.
LEMMA AppendOther ==
  ASSUME UdevTypeOK, NEW ev \in Event, Deliver(ev), NEW d \in Device, ~IsAbout(ev, d)
  PROVE  /\ d \in Expected' <=> d \in Expected
         /\ \A i \in 1 .. Len(queue) : IsLast(queue, d, i) =>
              i \in 1 .. Len(queue') /\ queue'[i] = queue[i] /\ IsLast(queue', d, i)
<1>1. /\ Len(queue') = Len(queue) + 1 /\ Len(queue) \in Nat
      /\ \A i \in 1 .. Len(queue) : queue'[i] = queue[i]
      /\ queue'[Len(queue) + 1] = ev
  BY Delivered
<1>2. ASSUME NEW i \in 1 .. Len(queue'), IsAbout(queue'[i], d)
      PROVE  i \in 1 .. Len(queue) /\ IsAbout(queue[i], d)
  <2>1. i # Len(queue) + 1
    BY <1>1, <1>2
  <2> QED BY <1>1, <1>2, <2>1
<1>3. d \in Expected' <=> d \in Expected
  <2>1. ASSUME NEW i \in 1 .. Len(queue), IsAbout(queue[i], d)
        PROVE  i \in 1 .. Len(queue') /\ IsAbout(queue'[i], d)
    BY <1>1, <2>1
  <2> QED BY <1>2, <2>1 DEF Expected
<1>4. ASSUME NEW i \in 1 .. Len(queue), IsLast(queue, d, i)
      PROVE  i \in 1 .. Len(queue') /\ queue'[i] = queue[i] /\ IsLast(queue', d, i)
  <2>1. i \in 1 .. Len(queue') /\ queue'[i] = queue[i] /\ IsAbout(queue[i], d)
    BY <1>1, <1>4 DEF IsLast
  <2>2. \A j \in 1 .. Len(queue') : IsAbout(queue'[j], d) => j <= i
    BY <1>2, <1>4 DEF IsLast
  <2> QED BY <2>1, <2>2 DEF IsLast
<1> QED BY <1>3, <1>4

\* An event for the drive itself is the last one.
LEMMA AppendOwn ==
  ASSUME UdevTypeOK, NEW ev \in Event, Deliver(ev), NEW d \in Device, IsAbout(ev, d)
  PROVE  /\ d \in Expected'
         /\ \E i \in 1 .. Len(queue') : IsLast(queue', d, i) /\ queue'[i] = ev
<1>1. /\ Len(queue') = Len(queue) + 1 /\ Len(queue) \in Nat
      /\ queue'[Len(queue) + 1] = ev
  BY Delivered
<1> DEFINE n == Len(queue) + 1
<1>2. /\ n \in 1 .. Len(queue') /\ queue'[n] = ev
      /\ \A j \in 1 .. Len(queue') : j <= n
  BY <1>1
<1> HIDE DEF n
<1>3. IsLast(queue', d, n)
  BY <1>2 DEF IsLast
<1> QED BY <1>2, <1>3 DEF Expected

\* The first event is taken from the socket.
LEMMA TakeFirst ==
  ASSUME UdevTypeOK, Receive, NEW d \in Device
  PROVE  /\ d \in Expected <=> d \in Expected' \/ IsAbout(event', d)
         /\ \A i : IsLast(queue, d, i) =>
              /\ d \in Expected' => IsLast(queue', d, i - 1) /\ queue'[i - 1] = queue[i]
              /\ d \notin Expected' => queue[i] = event'
<1>1. /\ event' = queue[1] /\ Len(queue) \in Nat \ {0} /\ Len(queue') = Len(queue) - 1
      /\ \A i \in 1 .. Len(queue') : queue'[i] = queue[i + 1]
  BY Received
<1>2. ASSUME NEW i \in 1 .. Len(queue'), IsAbout(queue'[i], d)
      PROVE  i + 1 \in 1 .. Len(queue) /\ IsAbout(queue[i + 1], d)
  BY <1>1, <1>2
<1>3. ASSUME NEW i \in 1 .. Len(queue), IsAbout(queue[i], d), i # 1
      PROVE  i - 1 \in 1 .. Len(queue') /\ queue'[i - 1] = queue[i]
  <2>1. i - 1 \in 1 .. Len(queue') /\ (i - 1) + 1 = i
    BY <1>1, <1>3
  <2> QED BY <1>1, <2>1
<1>4. d \in Expected' => d \in Expected
  BY <1>2 DEF Expected
<1>5. d \in Expected => d \in Expected' \/ IsAbout(event', d)
  BY <1>1, <1>3 DEF Expected
<1>6. IsAbout(event', d) => d \in Expected
  BY <1>1 DEF Expected
<1>7. ASSUME NEW i, IsLast(queue, d, i), d \in Expected'
      PROVE  IsLast(queue', d, i - 1) /\ queue'[i - 1] = queue[i]
  <2>1. PICK k \in 1 .. Len(queue') : IsAbout(queue'[k], d)
    BY <1>7 DEF Expected
  <2>2. i \in 1 .. Len(queue) /\ IsAbout(queue[i], d) /\ k + 1 <= i
    BY <1>2, <1>7, <2>1 DEF IsLast
  <2>3. i # 1
    BY <1>1, <2>1, <2>2
  <2>4. i - 1 \in 1 .. Len(queue') /\ queue'[i - 1] = queue[i]
    BY <1>3, <2>2, <2>3
  <2>5. ASSUME NEW j \in 1 .. Len(queue'), IsAbout(queue'[j], d) PROVE j <= i - 1
    <3>1. j + 1 <= i
      BY <1>2, <1>7, <2>5 DEF IsLast
    <3> QED BY <1>1, <2>2, <2>5, <3>1
  <2> QED BY <2>2, <2>4, <2>5 DEF IsLast
<1>8. ASSUME NEW i, IsLast(queue, d, i), d \notin Expected'
      PROVE  queue[i] = event'
  <2>1. i \in 1 .. Len(queue) /\ IsAbout(queue[i], d)
    BY <1>8 DEF IsLast
  <2>2. CASE i # 1
    <3>1. i - 1 \in 1 .. Len(queue') /\ IsAbout(queue'[i - 1], d)
      BY <1>3, <2>1, <2>2
    <3> QED BY <1>8, <3>1 DEF Expected
  <2> QED BY <1>1, <2>2
<1> QED BY <1>4, <1>5, <1>6, <1>7, <1>8

-----------------------------------------------------------------------------
(* What the steps do to the news of one drive *)

\* The step does not settle the drive, and if it is settled it was so before.
Undisturbed(d) ==
  /\ Settled(d)' => Settled(d) /\ (d \in present' <=> d \in present)
  /\ Settled(d)' /\ Working(d)' => Working(d)

LEMMA AnnounceKeeps ==
  ASSUME BusTypeOK, NEW d \in Device, NEW e \in Device, LastWordIsTrue(d),
         NEW action \in {"add", "remove"}, Announce(action, e),
         e \in present' <=> action = "add",
         d # e => (d \in present' <=> d \in present),
         UNCHANGED at
  PROVE  LastWordIsTrue(d)' /\ Undisturbed(d)
<1>1. CASE Deliver(BsgEvent(action, e)) /\ unheard' = unheard \ {e}
  <2>1. UdevTypeOK /\ UNCHANGED <<event, calling, udev_cb>>
    BY <1>1 DEF BusTypeOK, Deliver
  <2>2. CASE d = e
    <3>1. PICK i \in 1 .. Len(queue') : IsLast(queue', d, i) /\ queue'[i] = BsgEvent(action, e)
      BY <1>1, <2>1, <2>2, AppendOwn, BsgEventType
    <3>2. d \in Expected'
      BY <1>1, <2>1, <2>2, AppendOwn, BsgEventType
    <3>3. queue'[i].action = "add" <=> d \in present'
      BY <2>2, <3>1, BsgEventType
    <3> QED BY <3>1, <3>2, <3>3 DEF LastWordIsTrue, Undisturbed, Settled
  <2>3. CASE d # e
    <3>1. /\ d \in Expected' <=> d \in Expected
          /\ \A i \in 1 .. Len(queue) : IsLast(queue, d, i) =>
               i \in 1 .. Len(queue') /\ queue'[i] = queue[i] /\ IsLast(queue', d, i)
      BY <1>1, <2>1, <2>3, AppendOther, BsgEventType
    <3>2. /\ Known(d)' <=> Known(d)
          /\ Working(d)' <=> Working(d)
          /\ Due(d)' <=> Due(d)
      BY <1>1, <2>1, <2>3 DEF Known, Working, Due, IsAbout
    <3> QED BY <2>1, <2>3, <3>1, <3>2 DEF LastWordIsTrue, Undisturbed, Settled
  <2> QED BY <2>2, <2>3
<1>2. CASE UNCHANGED udevVars /\ unheard' = unheard \cup {e}
  <2>1. UNCHANGED <<queue, event, calling, udev_cb>> /\ Expected' = Expected
    BY <1>2 DEF udevVars, Expected
  <2>2. CASE d = e
    BY <1>2, <2>2 DEF LastWordIsTrue, Undisturbed, Settled, Known
  <2>3. CASE d # e
    <3>1. /\ Known(d)' <=> Known(d)
          /\ Working(d)' <=> Working(d)
          /\ Due(d)' <=> Due(d)
      BY <1>2, <2>1, <2>3 DEF Known, Working, Due, IsAbout
    <3> QED BY <2>1, <2>3, <3>1 DEF LastWordIsTrue, Undisturbed, Settled
  <2> QED BY <2>2, <2>3
<1> QED BY <1>1, <1>2 DEF Announce

LEMMA PlugKeeps ==
  ASSUME BusTypeOK, NEW d \in Device, NEW e \in Device, LastWordIsTrue(d), Plug(e) \/ Unplug(e)
  PROVE  LastWordIsTrue(d)' /\ Undisturbed(d)
<1>1. CASE Plug(e)
  BY <1>1, AnnounceKeeps DEF Plug
<1>2. CASE Unplug(e)
  BY <1>2, AnnounceKeeps DEF Unplug
<1> QED BY <1>1, <1>2

\* An event begins: its drive has a callback to come, or counts as unheard of.
LEMMA StartEventKeeps ==
  ASSUME BusTypeOK, NEW d \in Device, LastWordIsTrue(d), StartEvent
  PROVE  LastWordIsTrue(d)' /\ Undisturbed(d)
<1>1. /\ at = "idle" /\ at' = "event" /\ Receive /\ UNCHANGED <<present, udev_cb>>
      /\ d \in unheard => d \in unheard'
      /\ IsAbout(event', d) /\ d \notin Expected' /\ ~Due(d)' => d \in unheard'
  BY DEF StartEvent, Receive, IsAbout, Due
<1>2. /\ d \in Expected <=> d \in Expected' \/ IsAbout(event', d)
      /\ \A i : IsLast(queue, d, i) =>
           /\ d \in Expected' => IsLast(queue', d, i - 1) /\ queue'[i - 1] = queue[i]
           /\ d \notin Expected' => queue[i] = event'
  BY <1>1, TakeFirst DEF BusTypeOK
<1>3. Known(d)' => Known(d)
  BY <1>1 DEF Known
<1>4. ~Working(d) /\ (Working(d)' <=> IsAbout(event', d))
  BY <1>1 DEF Working
<1>5. Undisturbed(d)
  BY <1>1, <1>2, <1>3, <1>4 DEF Undisturbed, Settled, Known
<1>6. ASSUME Known(d)', d \in Expected
      PROVE  LastWordIsTrue(d)'
  <2>1. PICK i \in 1 .. Len(queue) :
          IsLast(queue, d, i) /\ (queue[i].action = "add" <=> d \in present)
    BY <1>3, <1>6 DEF LastWordIsTrue
  <2>2. CASE d \in Expected'
    <3>1. /\ IsLast(queue', d, i - 1) /\ i - 1 \in 1 .. Len(queue')
          /\ queue'[i - 1].action = "add" <=> d \in present'
      BY <1>1, <1>2, <2>1, <2>2 DEF IsLast
    <3> QED BY <2>2, <3>1 DEF LastWordIsTrue
  <2>3. CASE d \notin Expected'
    <3>1. event'.action = "add" <=> d \in present'
      BY <1>1, <1>2, <2>1, <2>3
    <3> QED BY <2>3, <3>1 DEF LastWordIsTrue
  <2> QED BY <2>2, <2>3
<1>7. d \notin Expected => LastWordIsTrue(d)'
  BY <1>2, <1>4 DEF LastWordIsTrue
<1>8. ~Known(d)' => LastWordIsTrue(d)'
  BY DEF LastWordIsTrue
<1> QED BY <1>5, <1>6, <1>7, <1>8

LEMMA EndEventKeeps ==
  ASSUME NEW d \in Device, LastWordIsTrue(d), EndEvent
  PROVE  LastWordIsTrue(d)' /\ Undisturbed(d) /\ ~Working(d)'
<1>1. /\ at' = "idle" /\ calling = {} /\ UNCHANGED <<queue, present, unheard>>
  BY DEF EndEvent, Finish
<1>2. ~Working(d)' /\ ~Due(d) /\ (Known(d)' <=> Known(d)) /\ Expected' = Expected
  BY <1>1 DEF Working, Due, Known, Expected
<1> QED BY <1>1, <1>2 DEF LastWordIsTrue, Undisturbed, Settled

\* The thread works for another table, or for none.
LEMMA IdleKeeps ==
  ASSUME NEW d \in Device, LastWordIsTrue(d), at # "event", at' # "event",
         UNCHANGED <<queue, present>>,
         d \in unheard /\ d \in Expected => d \in unheard'
  PROVE  /\ LastWordIsTrue(d)' /\ ~Working(d) /\ ~Working(d)' /\ Expected' = Expected
         /\ (d \in unheard => d \in unheard') => Undisturbed(d)
<1>1. ~Working(d) /\ ~Working(d)' /\ Expected' = Expected
  BY DEF Working, Expected
<1>2. LastWordIsTrue(d)'
  BY <1>1 DEF LastWordIsTrue, Known
<1> QED BY <1>1, <1>2 DEF Undisturbed, Settled, Known

\* A callback runs; only one of the drive's own table settles it.
LEMMA CallKeeps ==
  ASSUME NEW d \in Device, LastWordIsTrue(d), NEW func, Call(func),
         UNCHANGED <<present, at>>, d \in unheard => d \in unheard'
  PROVE  /\ LastWordIsTrue(d)' /\ Expected' = Expected /\ (Working(d)' <=> Working(d))
         /\ Known(d)' => Known(d)
         /\ event.dev # d \/ func \notin OwnFunc(d) => Undisturbed(d)
<1>1. /\ UNCHANGED <<queue, event, udev_cb>>
      /\ \E i \in calling : udev_cb[i].func = func /\ calling' = calling \ {i}
  BY DEF Call
<1>2. /\ Expected' = Expected /\ (Working(d)' <=> Working(d))
      /\ Known(d)' => Known(d)
  BY <1>1 DEF Expected, Working, IsAbout, Known
<1>3. LastWordIsTrue(d)'
  BY <1>1, <1>2 DEF LastWordIsTrue
<1>4. event.dev # d => ~Working(d)
  BY DEF Working, IsAbout
<1>5. func \notin OwnFunc(d) => (Due(d)' <=> Due(d))
  BY <1>1 DEF Due, OwnFunc
<1> QED BY <1>2, <1>3, <1>4, <1>5 DEF Undisturbed, Settled

\* A callback runs on an event that it was registered for.
LEMMA CalledFor ==
  ASSUME BusTypeOK, CallbacksAreOurs, CallsMatch, at = "event",
         NEW func \in {"add_disk", "remove_disk", "add_ata", "remove_ata"}, Call(func)
  PROVE  /\ event.dev \in Device
         /\ Working(event.dev)
         /\ event.action = IF func \in {"add_disk", "add_ata"} THEN "add" ELSE "remove"
<1>1. event \in Event
  BY DEF BusTypeOK
<1>2. PICK i \in calling : udev_cb[i].func = func
  BY DEF Call
<1>3. i \in 1 .. Len(udev_cb) /\ Matches(udev_cb[i], event)
  BY <1>2 DEF BusTypeOK, UdevTypeOK, CallsMatch
<1>4. udev_cb[i] \in OurCallbacks
  BY <1>3 DEF CallbacksAreOurs, OurCallbacks
<1>5. \A cb \in OurCallbacks :
        /\ cb.subsystem = "bsg"
        /\ cb.action = IF cb.func \in {"add_disk", "add_ata"} THEN {"add"} ELSE {"remove"}
  <2>1. /\ SasAdd.subsystem = "bsg" /\ SasAdd.action = {"add"} /\ SasAdd.func = "add_disk"
        /\ SasRemove.subsystem = "bsg" /\ SasRemove.action = {"remove"}
        /\ SasRemove.func = "remove_disk"
        /\ AtaAdd.subsystem = "bsg" /\ AtaAdd.action = {"add"} /\ AtaAdd.func = "add_ata"
        /\ AtaRemove.subsystem = "bsg" /\ AtaRemove.action = {"remove"}
        /\ AtaRemove.func = "remove_ata"
    BY DEF SasAdd, SasRemove, AtaAdd, AtaRemove
  <2> QED BY <2>1 DEF OurCallbacks
<1>6. event.subsystem = "bsg" /\ event.action \in udev_cb[i].action
  BY <1>3, <1>4, <1>5 DEF Matches
<1> QED BY <1>1, <1>2, <1>4, <1>5, <1>6 DEF Working, IsAbout, Event

\* The steps that settle no drive.
Elsewhere == \/ \E e \in Device : Plug(e) \/ Unplug(e)
             \/ StartEvent \/ EndEvent
             \/ CtlrLoad \/ AtaRelease
             \/ HbaLoad \/ SasLoadNoHba \/ SasScan \/ SasLoadEnd
             \/ UNCHANGED vars

LEMMA ElsewhereKeeps ==
  ASSUME BusTypeOK, NEW d \in Device, LastWordIsTrue(d), Elsewhere
  PROVE  LastWordIsTrue(d)' /\ Undisturbed(d)
<1>1. ASSUME NEW e \in Device, Plug(e) \/ Unplug(e) PROVE LastWordIsTrue(d)' /\ Undisturbed(d)
  BY <1>1, PlugKeeps
<1>2. CASE StartEvent
  BY <1>2, StartEventKeeps
<1>3. CASE EndEvent
  BY <1>3, EndEventKeeps
<1>4. CASE CtlrLoad \/ AtaRelease \/ HbaLoad
  <2>1. at # "event" /\ at' # "event" /\ UNCHANGED <<queue, present, unheard>>
    BY <1>4 DEF CtlrLoad, AtaRelease, HbaLoad, udevVars, busVars
  <2> QED BY <2>1, IdleKeeps
<1>5. CASE SasLoadNoHba \/ SasLoadEnd
  <2>1. at # "event" /\ at' # "event" /\ UNCHANGED <<present, unheard>>
        /\ RegisterPair(<<SasAdd, SasRemove>>)
    BY <1>5 DEF SasLoadNoHba, SasLoadEnd, busVars
  <2>2. UNCHANGED queue
    BY <2>1, RegisteredSas DEF BusTypeOK
  <2> QED BY <2>1, <2>2, IdleKeeps
<1>6. CASE SasScan
  <2>1. at # "event" /\ at' # "event" /\ UNCHANGED <<queue, present, unheard>>
    BY <1>6 DEF SasScan, udevVars
  <2> QED BY <2>1, IdleKeeps
<1>7. CASE UNCHANGED vars
  <2>1. UNCHANGED <<queue, event, calling, udev_cb, present, at, unheard>>
    BY <1>7 DEF vars, udevVars, busVars
  <2>2. /\ Expected' = Expected /\ (Working(d)' <=> Working(d)) /\ (Due(d)' <=> Due(d))
        /\ (Known(d)' <=> Known(d))
    BY <2>1 DEF Expected, Working, Due, Known, IsAbout
  <2> QED BY <2>1, <2>2 DEF LastWordIsTrue, Undisturbed, Settled
<1> QED BY <1>1, <1>2, <1>3, <1>4, <1>5, <1>6, <1>7 DEF Elsewhere

LEMMA LoadDriveKeeps ==
  ASSUME NEW d \in Device, LastWordIsTrue(d), NEW e \in SasDrive, SasLoadDrive(e)
  PROVE  /\ LastWordIsTrue(d)' /\ ~Working(d)' /\ UNCHANGED present
         /\ d # e \/ e \notin present => Undisturbed(d)
<1>1. /\ at = "sas" /\ at' \in {"sas", "dead"} /\ UNCHANGED <<queue, present>>
      /\ unheard' = IF e \in present /\ e \notin Expected THEN unheard \ {e} ELSE unheard
  BY DEF SasLoadDrive, Vanished, udevVars
<1> QED BY <1>1, IdleKeeps

LEMMA AtaLoadKeeps ==
  ASSUME BusTypeOK, IdeTypeOK, NEW d \in Device, LastWordIsTrue(d), AtaLoad
  PROVE  /\ LastWordIsTrue(d)' /\ ~Working(d) /\ UNCHANGED present /\ Expected' = Expected
         /\ d \in SasDrive \/ disk_index(d) \in Kept => Undisturbed(d)
<1>1. /\ at = "idle" /\ at' = "idle" /\ UNCHANGED present
      /\ unheard' = {e \in unheard : e \in AtaDisk => e \in Expected \/ disk_index(e) \in Kept}
  BY AtaLoadIs
<1>2. UNCHANGED queue
  <2>1. UNCHANGED udevVars \/ RegisterPair(<<AtaAdd, AtaRemove>>)
    BY DEF AtaLoad
  <2> QED BY <2>1, RegisteredAta DEF udevVars, BusTypeOK
<1>3. d \in SasDrive => d \notin AtaDisk
  BY ScsiBusAssumption
<1> QED BY <1>1, <1>2, <1>3, IdleKeeps

LEMMA SasCallKeeps ==
  ASSUME NEW d \in Device, LastWordIsTrue(d), SasCalls
  PROVE  /\ LastWordIsTrue(d)' /\ Expected' = Expected /\ (Working(d)' <=> Working(d))
         /\ Known(d)' => Known(d)
         /\ event.dev # d \/ d \notin SasDrive => Undisturbed(d)
<1>1. /\ Call("add_disk") \/ Call("remove_disk")
      /\ UNCHANGED <<present, at>>
      /\ d \in unheard => d \in unheard'
  BY DEF SasCalls, cpqsas_add_sas_end_device, cpqsas_remove_sas_end_device, SasAddsDrive,
         SasIgnoresDrive
<1>2. d \notin SasDrive => "add_disk" \notin OwnFunc(d) /\ "remove_disk" \notin OwnFunc(d)
  BY DEF OwnFunc
<1> QED BY <1>1, <1>2, CallKeeps

LEMMA AtaCallKeeps ==
  ASSUME NEW d \in Device, LastWordIsTrue(d), AtaCalls
  PROVE  /\ LastWordIsTrue(d)' /\ Expected' = Expected /\ (Working(d)' <=> Working(d))
         /\ Known(d)' => Known(d)
         /\ event.dev # d \/ d \in SasDrive => Undisturbed(d)
<1>1. /\ Call("add_ata") \/ Call("remove_ata")
      /\ UNCHANGED <<present, at>>
      /\ d \in unheard => d \in unheard'
  BY DEF AtaCalls, cpqide_add_ide_end_device, cpqide_remove_ide_end_device, busVars
<1>2. d \in SasDrive => "add_ata" \notin OwnFunc(d) /\ "remove_ata" \notin OwnFunc(d)
  BY DEF OwnFunc
<1> QED BY <1>1, <1>2, CallKeeps

LEMMA NextNews ==
  ASSUME BusTypeOK, IdeTypeOK, NEW d \in Device, LastWordIsTrue(d), [Next]_vars
  PROVE  LastWordIsTrue(d)'
<1>1. \/ Elsewhere \/ (\E e \in SasDrive : SasLoadDrive(e)) \/ AtaLoad \/ SasCalls \/ AtaCalls
  BY Steps, Zenon DEF Elsewhere, SasLoads, AtaLoads
<1> QED
  BY <1>1, ElsewhereKeeps, LoadDriveKeeps, AtaLoadKeeps, SasCallKeeps, AtaCallKeeps

-----------------------------------------------------------------------------
(* The rows of one drive *)

NoHbaNoRows == hbaCondition = 0 => drives = {} /\ at # "sas"

LEMMA SasRowFrame ==
  ASSUME NEW d \in SasDrive, SasRowIsRight(d), Undisturbed(d),
         d \in drives' <=> d \in drives,
         ~Working(d)' \/ status'[d] = status[d]
  PROVE  SasRowIsRight(d)'
BY DEF SasRowIsRight, Undisturbed

\* What a callback has to do for the drive of its event.
LEMMA CalledRight ==
  ASSUME BusTypeOK, CallbacksAreOurs, CallsMatch, at = "event",
         NEW func \in {"add_disk", "remove_disk", "add_ata", "remove_ata"}, Call(func),
         NEW d \in Device, event.dev = d, LastWordIsTrue(d), Expected' = Expected,
         Known(d)' => Known(d), Settled(d)', UNCHANGED present
  PROVE  d \in present' <=> func \in {"add_disk", "add_ata"}
<1>1. Working(d) /\ event.action = IF func \in {"add_disk", "add_ata"} THEN "add" ELSE "remove"
  BY CalledFor
<1>2. Known(d) /\ d \notin Expected
  BY DEF Settled
<1> QED BY <1>1, <1>2 DEF LastWordIsTrue

LEMMA SasCallMakesRow ==
  ASSUME BusTypeOK, SasTypeOK, CallbacksAreOurs, CallsMatch, NoHbaNoRows,
         NEW d \in SasDrive, d \in Device, LastWordIsTrue(d), SasRowIsRight(d), SasCalls
  PROVE  SasRowIsRight(d)'
<1>1. /\ Expected' = Expected /\ (Working(d)' <=> Working(d))
      /\ Known(d)' => Known(d)
      /\ event.dev # d => Undisturbed(d)
  BY SasCallKeeps
<1>2. at = "event" /\ UNCHANGED present
  BY DEF SasCalls, cpqsas_add_sas_end_device, cpqsas_remove_sas_end_device
<1>3. CASE event.dev # d
  <2>1. (d \in drives' <=> d \in drives) /\ status'[d] = status[d]
    <3>1. CASE cpqsas_add_sas_end_device
      BY <1>3, <3>1, SasAddIs DEF SasReplugs, sas_add_disk, IsNow, SasTypeOK, sasVars
    <3>2. CASE cpqsas_remove_sas_end_device
      BY <1>3, <3>2, SasRemoveIs DEF SasRemoves, SasTypeOK, sasVars
    <3> QED BY <3>1, <3>2 DEF SasCalls
  <2> QED BY <1>1, <1>3, <2>1, SasRowFrame
<1>4. CASE event.dev = d
  <2> SUFFICES ASSUME Settled(d)'
               PROVE  /\ d \in drives' <=> d \in present'
                      /\ Working(d)' /\ d \in drives' => status'[d] = SAS_PHYS_STATUS_OK
    BY DEF SasRowIsRight
  <2>1. CASE cpqsas_add_sas_end_device
    <3>1. d \in present' /\ d \in present
      <4>1. Call("add_disk")
        BY <2>1 DEF cpqsas_add_sas_end_device
      <4> QED BY <1>1, <1>2, <1>4, <4>1, CalledRight
    <3>2. CASE \E s \in Status : SasReplugs(d, s)
      BY <3>1, <3>2 DEF SasReplugs, sas_add_disk, IsNow, SasTypeOK
    <3>3. CASE SasIgnoresDrive
      <4>1. hbaCondition = 0 /\ d \in unheard'
        BY <1>4, <3>1, <3>3 DEF SasIgnoresDrive, NoHbaNoRows
      <4> QED BY <4>1 DEF Settled, Known
    <3> QED BY <1>4, <2>1, <3>2, <3>3, SasAddIs
  <2>2. CASE cpqsas_remove_sas_end_device
    <3>1. d \notin present'
      <4>1. Call("remove_disk")
        BY <2>2 DEF cpqsas_remove_sas_end_device
      <4> QED BY <1>1, <1>2, <1>4, <4>1, CalledRight
    <3>2. d \notin drives'
      BY <1>4, <2>2, SasRemoveIs DEF SasRemoves, sasVars
    <3> QED BY <3>1, <3>2
  <2> QED BY <2>1, <2>2 DEF SasCalls
<1> QED BY <1>3, <1>4

LEMMA NextSasRow ==
  ASSUME BusTypeOK, SasTypeOK, IdeTypeOK, CallbacksAreOurs, CallsMatch, NoHbaNoRows,
         NEW d \in SasDrive, LastWordIsTrue(d), SasRowIsRight(d), [Next]_vars
  PROVE  SasRowIsRight(d)'
<1>1. d \in Device
  BY ScsiBusAssumption
<1>2. ASSUME Undisturbed(d), UNCHANGED <<drives, status>> PROVE SasRowIsRight(d)'
  BY <1>2, SasRowFrame
<1>3. CASE NoSasStep
  <2>1. UNCHANGED <<drives, status>>
    BY <1>3 DEF NoSasStep, sasVars
  <2>2. Elsewhere \/ AtaLoad \/ AtaCalls
    BY <1>3, Zenon DEF NoSasStep, Elsewhere, AtaCalls
  <2> QED BY <1>1, <1>2, <2>1, <2>2, ElsewhereKeeps, AtaLoadKeeps, AtaCallKeeps
<1>4. CASE HbaLoad \/ SasLoadNoHba \/ SasScan \/ SasLoadEnd
  <2>1. UNCHANGED <<drives, status>>
    BY <1>4 DEF HbaLoad, SasLoadNoHba, SasScan, SasLoadEnd
  <2>2. Elsewhere
    BY <1>4 DEF Elsewhere
  <2> QED BY <1>1, <1>2, <2>1, <2>2, ElsewhereKeeps
<1>5. ASSUME NEW e \in SasDrive, SasLoadDrive(e) PROVE SasRowIsRight(d)'
  <2>1. /\ ~Working(d)' /\ UNCHANGED present
        /\ d # e \/ e \notin present => Undisturbed(d)
    BY <1>1, <1>5, LoadDriveKeeps
  <2>2. \/ e \in present /\ drives' = drives \cup {e}
        \/ e \notin present /\ drives' = drives
    BY <1>5, LoadDriveIs DEF SasLoadsDrive, sas_add_disk, sasVars
  <2>3. CASE d = e /\ e \in present
    BY <2>1, <2>2, <2>3 DEF SasRowIsRight
  <2>4. CASE d # e \/ e \notin present
    BY <2>1, <2>2, <2>4, SasRowFrame
  <2> QED BY <2>3, <2>4
<1>6. CASE SasCalls
  BY <1>1, <1>6, SasCallMakesRow
<1> QED BY <1>3, <1>4, <1>5, <1>6, SasSteps DEF SasCalls

LEMMA AtaRowFrame ==
  ASSUME NEW d \in AtaDisk, AtaRowIsRight(d), Undisturbed(d),
         disk_index(d) \in ataDisks' <=> disk_index(d) \in ataDisks, UNCHANGED ataValid
  PROVE  AtaRowIsRight(d)'
BY DEF AtaRowIsRight, Undisturbed

LEMMA NextAtaRow ==
  ASSUME BusTypeOK, SasTypeOK, IdeTypeOK, CallbacksAreOurs, CallsMatch,
         NEW d \in AtaDisk, LastWordIsTrue(d), AtaRowIsRight(d), [Next]_vars
  PROVE  AtaRowIsRight(d)'
<1>1. d \in Device /\ d \notin SasDrive
  BY ScsiBusAssumption
<1>2. ASSUME Undisturbed(d), UNCHANGED <<ataDisks, ataValid>> PROVE AtaRowIsRight(d)'
  BY <1>2, AtaRowFrame
<1>3. CASE NoIdeStep \/ CtlrLoad
  <2>1. UNCHANGED <<ataDisks, ataValid>>
    BY <1>3 DEF NoIdeStep, CtlrLoad, ideVars
  <2>2. Elsewhere \/ (\E e \in SasDrive : SasLoadDrive(e)) \/ SasCalls
    BY <1>3, Zenon DEF NoIdeStep, Elsewhere, SasCalls
  <2> QED BY <1>1, <1>2, <2>1, <2>2, ElsewhereKeeps, LoadDriveKeeps, SasCallKeeps
<1>4. CASE AtaLoad
  <2>1. /\ ~Working(d) /\ UNCHANGED present /\ Expected' = Expected
        /\ disk_index(d) \in Kept => Undisturbed(d)
    BY <1>1, <1>4, AtaLoadKeeps
  <2>2. ataDisks' = Kept \cup {disk_index(e) : e \in present \cap AtaDisk}
    BY <1>4, AtaLoadIs
  <2>3. HostOf[d] = ControllerIndex /\ HasOwnRow(d) /\ Settled(d)' /\ disk_index(d) \in Kept
        => d \in present
    BY <2>1 DEF AtaRowIsRight, Undisturbed, Kept
  <2>4. HasOwnRow(d) => (disk_index(d) \in ataDisks' <=> disk_index(d) \in Kept \/ d \in present)
    <3>1. d \in present => disk_index(d) \in ataDisks'
      BY <2>2
    <3>2. ASSUME HasOwnRow(d), disk_index(d) \in ataDisks', disk_index(d) \notin Kept
          PROVE  d \in present
      <4>1. PICK e \in present \cap AtaDisk : disk_index(e) = disk_index(d)
        BY <2>2, <3>2
      <4>2. e \in Device
        BY ScsiBusAssumption
      <4> QED BY <3>2, <4>1, <4>2 DEF HasOwnRow
    <3> QED BY <2>2, <3>1, <3>2
  <2> QED BY <2>1, <2>3, <2>4 DEF AtaRowIsRight
<1>5. CASE AtaRelease
  BY <1>5 DEF AtaRelease, AtaRowIsRight
<1>6. CASE AtaCalls
  <2>1. /\ Expected' = Expected /\ (Known(d)' => Known(d))
        /\ event.dev # d => Undisturbed(d)
    BY <1>1, <1>6, AtaCallKeeps
  <2>2. at = "event" /\ UNCHANGED <<present, ataValid>>
    BY <1>6 DEF AtaCalls, cpqide_add_ide_end_device, cpqide_remove_ide_end_device, busVars
  <2>3. CASE event.dev # d
    <3>1. CASE HasOwnRow(d)
      <4>1. event.dev \in Device
        BY <2>2 DEF BusTypeOK, Event
      <4>2. disk_index(event.dev) # disk_index(d)
        BY <2>3, <3>1, <4>1 DEF HasOwnRow
      <4>3. disk_index(d) \in ataDisks' <=> disk_index(d) \in ataDisks
        BY <1>6, <4>2, AtaAddIs, AtaRemoveIs DEF AtaCalls
      <4> QED BY <2>1, <2>2, <2>3, <4>3, AtaRowFrame
    <3>2. CASE ~HasOwnRow(d)
      BY <3>2 DEF AtaRowIsRight
    <3> QED BY <3>1, <3>2
  <2>4. CASE event.dev = d
    <3> SUFFICES ASSUME HostOf[d] = ControllerIndex, Settled(d)'
                 PROVE  disk_index(d) \in ataDisks' <=> d \in present'
      BY DEF AtaRowIsRight
    <3>1. CASE cpqide_add_ide_end_device
      <4>1. disk_index(d) \in ataDisks' /\ Call("add_ata")
        BY <2>4, <3>1, AtaAddIs
      <4> QED BY <1>1, <2>1, <2>2, <2>4, <4>1, CalledRight
    <3>2. CASE cpqide_remove_ide_end_device
      <4>1. disk_index(d) \notin ataDisks' /\ Call("remove_ata")
        BY <2>4, <3>2, AtaRemoveIs
      <4> QED BY <1>1, <2>1, <2>2, <2>4, <4>1, CalledRight
    <3> QED BY <1>6, <3>1, <3>2 DEF AtaCalls
  <2> QED BY <2>3, <2>4
<1> QED BY <1>3, <1>4, <1>5, <1>6, IdeSteps DEF AtaCalls

-----------------------------------------------------------------------------
(* The inductive invariant of the rows *)

DispatchInv == CallbacksAreOurs /\ EventsAreBsg /\ CallsMatch

LEMMA NextDispatch ==
  ASSUME BusTypeOK, DispatchInv, [Next]_vars
  PROVE  DispatchInv'
<1>1. ASSUME NEW calls \in SUBSET calling, calling' = calls,
             UNCHANGED <<udev_cb, queue, event, at>>
      PROVE  DispatchInv'
  BY <1>1 DEF DispatchInv, CallbacksAreOurs, EventsAreBsg, CallsMatch, Matches
<1>2. ASSUME UNCHANGED vars PROVE DispatchInv'
  BY <1>1, <1>2 DEF vars, udevVars, busVars
<1>3. ASSUME NEW d \in Device, Plug(d) \/ Unplug(d) PROVE DispatchInv'
  <2>1. PICK action \in {"add", "remove"} : Announce(action, d)
    BY <1>3 DEF Plug, Unplug
  <2>2. UNCHANGED <<udev_cb, event, calling, at>>
    BY <1>3, <2>1 DEF Plug, Unplug, Announce, Deliver, udevVars
  <2>3. CallbacksAreOurs' /\ CallsMatch'
    BY <2>2 DEF DispatchInv, CallbacksAreOurs, CallsMatch, Matches
  <2>4. \A i \in 1 .. Len(queue') : queue'[i].subsystem = "bsg"
    <3>1. CASE Deliver(BsgEvent(action, d))
      <4>1. /\ Len(queue) \in Nat /\ Len(queue') = Len(queue) + 1
            /\ \A i \in 1 .. Len(queue) : queue'[i] = queue[i]
            /\ queue'[Len(queue) + 1].subsystem = "bsg"
        BY <3>1, Delivered, BsgEventType DEF BusTypeOK
      <4> QED BY <4>1 DEF DispatchInv, EventsAreBsg
    <3>2. CASE UNCHANGED udevVars
      BY <3>2 DEF DispatchInv, EventsAreBsg, udevVars
    <3> QED BY <2>1, <3>1, <3>2 DEF Announce
  <2> QED BY <2>2, <2>3, <2>4 DEF DispatchInv, EventsAreBsg
<1>4. ASSUME at # "event", at' # "event", calling' = calling, queue' = queue, CallbacksAreOurs'
      PROVE  DispatchInv'
  BY <1>4 DEF DispatchInv, EventsAreBsg, CallsMatch
<1>5. CASE SasLoads
  <2>1. at # "event" /\ at' # "event"
    BY <1>5 DEF SasLoads, HbaLoad, SasLoadNoHba, SasScan, SasLoadEnd, SasLoadDrive, Vanished, busVars
  <2>2. UNCHANGED udevVars \/ RegisterPair(<<SasAdd, SasRemove>>)
    BY <1>5 DEF SasLoads, HbaLoad, SasLoadNoHba, SasScan, SasLoadEnd, SasLoadDrive
  <2>3. calling' = calling /\ queue' = queue /\ CallbacksAreOurs'
    BY <2>2, RegisteredSas DEF BusTypeOK, DispatchInv, udevVars, CallbacksAreOurs
  <2> QED BY <1>4, <2>1, <2>3
<1>6. CASE AtaLoads
  <2>1. at # "event" /\ at' # "event"
    BY <1>6 DEF AtaLoads, CtlrLoad, AtaLoad, AtaRelease, busVars
  <2>2. UNCHANGED udevVars \/ RegisterPair(<<AtaAdd, AtaRemove>>)
    BY <1>6 DEF AtaLoads, CtlrLoad, AtaLoad, AtaRelease
  <2>3. calling' = calling /\ queue' = queue /\ CallbacksAreOurs'
    BY <2>2, RegisteredAta DEF BusTypeOK, DispatchInv, udevVars, CallbacksAreOurs
  <2> QED BY <1>4, <2>1, <2>3
<1>7. ASSUME StartEvent PROVE DispatchInv'
  <2>1. /\ UNCHANGED udev_cb /\ at' = "event"
        /\ \A i \in calling' : Matches(udev_cb'[i], event')
    BY <1>7 DEF StartEvent, Receive, Callees
  <2>2. /\ event' = queue[1] /\ Len(queue) \in Nat \ {0} /\ Len(queue') = Len(queue) - 1
        /\ \A i \in 1 .. Len(queue') : queue'[i] = queue[i + 1]
    BY <1>7, Received DEF StartEvent, BusTypeOK
  <2>3. EventsAreBsg'
    BY <2>2 DEF DispatchInv, EventsAreBsg
  <2> QED BY <2>1, <2>3 DEF DispatchInv, CallbacksAreOurs, CallsMatch
<1>8. ASSUME EndEvent PROVE DispatchInv'
  BY <1>8 DEF EndEvent, Finish, DispatchInv, CallbacksAreOurs, EventsAreBsg, CallsMatch
<1>9. ASSUME SasCalls \/ AtaCalls PROVE DispatchInv'
  <2>1. calling' \in SUBSET calling /\ UNCHANGED <<udev_cb, queue, event, at>>
    BY <1>9 DEF SasCalls, AtaCalls, cpqsas_add_sas_end_device, cpqsas_remove_sas_end_device,
           cpqide_add_ide_end_device, cpqide_remove_ide_end_device, Call, busVars
  <2> QED BY <1>1, <2>1
<1> QED BY <1>2, <1>3, <1>5, <1>6, <1>7, <1>8, <1>9, Steps

LEMMA NextNoHba ==
  ASSUME SasTypeOK, BusTypeOK, NoHbaNoRows, [Next]_vars
  PROVE  NoHbaNoRows'
<1>1. CASE NoSasStep
  <2>1. UNCHANGED <<hbaCondition, drives>> /\ (at' = "sas" => at = "sas")
    BY <1>1 DEF NoSasStep, sasVars, Plug, Unplug, CtlrLoad, AtaLoad, AtaRelease, StartEvent,
           EndEvent, cpqide_add_ide_end_device, cpqide_remove_ide_end_device, vars, busVars
  <2> QED BY <2>1 DEF NoHbaNoRows
<1>2. CASE HbaLoad
  <2>1. hbaCondition' # 0
    BY <1>2, ConditionIsNumber DEF HbaLoad, HbaStatusCondition
  <2> QED BY <2>1 DEF NoHbaNoRows
<1>3. CASE SasLoadNoHba \/ SasScan \/ SasLoadEnd
  BY <1>3 DEF SasLoadNoHba, SasScan, SasLoadEnd, busVars, NoHbaNoRows
<1>4. ASSUME NEW d \in SasDrive, SasLoadDrive(d) PROVE NoHbaNoRows'
  BY <1>4 DEF SasLoadDrive, NoHbaNoRows
<1>5. CASE cpqsas_add_sas_end_device
  <2>1. at' = "event" /\ UNCHANGED hbaCondition
    BY <1>5 DEF cpqsas_add_sas_end_device
  <2> QED BY <1>5, <2>1, SasAddIs DEF NoHbaNoRows, sasVars
<1>6. CASE cpqsas_remove_sas_end_device
  <2>1. at' = "event"
    BY <1>6 DEF cpqsas_remove_sas_end_device
  <2> QED BY <1>6, <2>1, SasRemoveIs DEF NoHbaNoRows, SasRemoves, sasVars
<1> QED BY <1>1, <1>2, <1>3, <1>4, <1>5, <1>6, SasSteps

LEMMA FollowParts ==
  FollowInv <=> /\ DispatchInv /\ NoHbaNoRows
                /\ \A d \in Device : LastWordIsTrue(d)
                /\ \A d \in SasDrive : SasRowIsRight(d)
                /\ \A d \in AtaDisk : AtaRowIsRight(d)
BY Zenon DEF FollowInv, DispatchInv, NoHbaNoRows

LEMMA NextFollows == TypeOK /\ FollowInv /\ [Next]_vars => FollowInv'
<1> SUFFICES ASSUME BusTypeOK, SasTypeOK, IdeTypeOK, FollowInv, [Next]_vars PROVE FollowInv'
  BY DEF TypeOK
<1>1. /\ DispatchInv /\ NoHbaNoRows
      /\ \A d \in Device : LastWordIsTrue(d)
      /\ \A d \in SasDrive : SasRowIsRight(d)
      /\ \A d \in AtaDisk : AtaRowIsRight(d)
  BY FollowParts
<1>2. CallbacksAreOurs /\ CallsMatch /\ SasDrive \subseteq Device /\ AtaDisk \subseteq Device
  BY <1>1, ScsiBusAssumption DEF DispatchInv
<1>3. DispatchInv' /\ NoHbaNoRows'
  BY <1>1, NextDispatch, NextNoHba
<1>4. \A d \in Device : LastWordIsTrue(d)'
  BY <1>1, NextNews
<1>5. \A d \in SasDrive : SasRowIsRight(d)'
  BY <1>1, <1>2, NextSasRow
<1>6. \A d \in AtaDisk : AtaRowIsRight(d)'
  BY <1>1, <1>2, NextAtaRow
<1> QED BY <1>3, <1>4, <1>5, <1>6, Zenon DEF FollowInv, DispatchInv, NoHbaNoRows

LEMMA InitFollows == Init => FollowInv
<1> SUFFICES ASSUME Init PROVE FollowInv
  OBVIOUS
<1>1. /\ udev_cb = <<>> /\ queue = <<>> /\ calling = {} /\ at = "idle"
      /\ unheard = present /\ drives = {} /\ ataDisks = {}
  BY DEF Init, BusInit, SasInit, IdeInit
<1>2. Expected = {}
  BY <1>1 DEF Expected
<1>3. DispatchInv /\ NoHbaNoRows
  BY <1>1 DEF DispatchInv, NoHbaNoRows, CallbacksAreOurs, EventsAreBsg, CallsMatch
<1>4. \A d : LastWordIsTrue(d) /\ SasRowIsRight(d) /\ AtaRowIsRight(d)
  BY <1>1, <1>2 DEF LastWordIsTrue, SasRowIsRight, AtaRowIsRight, Settled, Known, Working
<1> QED BY <1>3, <1>4, FollowParts

\* The inductive invariant: the last word on a drive, be it in the socket or
\* in work, is true; and when its callbacks have run the rows are right.
THEOREM Invariance == Spec => []FollowInv
BY InitFollows, NextFollows, TypeCorrect, PTL DEF Spec

\* Once the events are worked through the rows of a valid ATA cache are the
\* disks on the host with the controller's index (ide_linux.c).
THEOREM AtaRowsAlwaysFollowDisks == Spec => []AtaRowsFollowDisks
<1>1. FollowInv => AtaRowsFollowDisks
  <2> SUFFICES ASSUME FollowInv, at = "idle", ataValid, queue = <<>>,
                      NEW d \in AtaDisk \ unheard, HostOf[d] = ControllerIndex, HasOwnRow(d)
               PROVE  disk_index(d) \in ataDisks <=> d \in present
    BY DEF AtaRowsFollowDisks
  <2>1. Settled(d)
    BY DEF Settled, Known, Expected, Working
  <2> QED BY <2>1 DEF FollowInv, AtaRowIsRight
<1> QED BY <1>1, Invariance, PTL

-----------------------------------------------------------------------------
(* The condition of the SAS adapter *)

\* A drive that comes or goes is expected, or missed, and no other.
LEMMA AnnounceExpects ==
  ASSUME BusTypeOK, NEW action \in {"add", "remove"}, NEW e \in Device, Announce(action, e),
         NEW d \in Device
  PROVE  d \in Expected' \cup unheard' <=> d = e \/ d \in Expected \cup unheard
<1>1. CASE Deliver(BsgEvent(action, e)) /\ unheard' = unheard \ {e}
  <2>1. CASE d = e
    BY <1>1, <2>1, AppendOwn, BsgEventType DEF BusTypeOK
  <2>2. CASE d # e
    BY <1>1, <2>2, AppendOther, BsgEventType DEF BusTypeOK
  <2> QED BY <2>1, <2>2
<1>2. CASE UNCHANGED udevVars /\ unheard' = unheard \cup {e}
  BY <1>2 DEF udevVars, Expected
<1> QED BY <1>1, <1>2 DEF Announce

\* The rows that the condition has to cover.
Counts(d) == d \in drives /\ d \in present /\ d \notin unheard \cup Expected

LEMMA CoverFrame ==
  ASSUME SasTypeOK, SasTypeOK', CoverInv, UNCHANGED <<at, event, todo, masked>>, overall <= overall',
         \A d \in SasDrive : Counts(d)' => Counts(d) /\ status'[d] = status[d]
  PROVE  CoverInv'
<1>1. overall \in 0 .. 4 /\ overall' \in 0 .. 4
  BY ConditionIsNumber DEF SasTypeOK
<1>2. ASSUME NEW d \in SasDrive, Counts(d)', Covered(d) PROVE Covered(d)'
  <2>1. SasCondition(status[d]) \in 1 .. 4 /\ SasCondition(status'[d]) = SasCondition(status[d])
    BY <1>2, SasConditionType, ConditionIsNumber
  <2> QED BY <1>1, <1>2, <2>1 DEF Covered
<1>3. drives' \subseteq SasDrive
  BY DEF SasTypeOK
<1>4. ASSUME NEW d \in drives', d \in present', d \notin unheard' \cup Expected'
      PROVE  d \in SasDrive /\ Counts(d)' /\ Counts(d)
  BY <1>3, <1>4 DEF Counts
<1>5. OverallCoversDrives'
  <2> SUFFICES ASSUME at' \notin {"sas", "dead"}, ~masked',
                      NEW d \in (drives' \cap present') \ (unheard' \cup Expected'),
                      ~(at' = "event" /\ event'.dev = d)
               PROVE  Covered(d)'
    BY DEF OverallCoversDrives, Covered
  <2>1. d \in SasDrive /\ Counts(d)' /\ Counts(d)
    BY <1>4
  <2>2. Covered(d)
    BY <2>1 DEF CoverInv, OverallCoversDrives, Covered, Counts
  <2> QED BY <1>2, <2>1, <2>2
<1>6. ASSUME at' = "sas",
             NEW d \in (drives' \cap present') \ (unheard' \cup Expected' \cup todo')
      PROVE  Covered(d)'
  <2>1. d \in SasDrive /\ Counts(d)' /\ Counts(d)
    BY <1>4, <1>6
  <2>2. Covered(d)
    BY <1>6, <2>1 DEF CoverInv, Counts
  <2> QED BY <1>2, <2>1, <2>2
<1> QED BY <1>5, <1>6 DEF CoverInv

\* A load covers the drive it reads.
LEMMA LoadDriveCovers ==
  ASSUME SasTypeOK, SasTypeOK', CoverInv, NEW e \in SasDrive, SasLoadDrive(e)
  PROVE  CoverInv'
<1>1. /\ at = "sas" /\ at' \in {"sas", "dead"} /\ todo' = todo \ {e} /\ UNCHANGED <<queue, present>>
      /\ unheard \subseteq unheard' \cup {e}
  BY DEF SasLoadDrive, Vanished, udevVars
<1>2. Expected' = Expected
  BY <1>1 DEF Expected
<1>3. overall \in 0 .. 4 /\ \A s : SasCondition(s) \in 1 .. 4
  BY SasConditionType, ConditionIsNumber DEF SasTypeOK
<1>4. CASE e \in present /\ \E s \in Status : SasLoadsDrive(e, s)
  <2>1. PICK s \in Status : SasLoadsDrive(e, s)
    BY <1>4
  <2>2. /\ drives' = drives \cup {e} /\ status'[e] = s
        /\ \A d \in SasDrive \ {e} : status'[d] = status[d]
        /\ overall' = MAKE_CONDITION(overall, SasCondition(s))
    BY <2>1 DEF SasLoadsDrive, sas_add_disk, IsNow, SasTypeOK
  <2>3. overall' \in 0 .. 4 /\ overall <= overall' /\ SasCondition(s) <= overall'
    BY <1>3, <2>2, Made
  <2>4. ASSUME NEW d \in (drives' \cap present') \ (unheard' \cup Expected' \cup todo')
        PROVE  Covered(d)'
    <3>1. CASE d = e
      BY <2>2, <2>3, <3>1 DEF Covered
    <3>2. CASE d # e
      <4>1. d \in SasDrive /\ status'[d] = status[d]
        BY <2>2, <2>4, <3>2 DEF SasTypeOK
      <4>2. Covered(d)
        BY <1>1, <1>2, <2>2, <2>4, <3>2 DEF CoverInv
      <4> QED BY <1>3, <2>3, <4>1, <4>2 DEF Covered
    <3> QED BY <3>1, <3>2
  <2> QED BY <1>1, <2>4 DEF CoverInv, OverallCoversDrives
<1>5. CASE e \notin present /\ UNCHANGED sasVars
  <2>1. ASSUME NEW d \in (drives' \cap present') \ (unheard' \cup Expected' \cup todo')
        PROVE  Covered(d)'
    <3>1. Covered(d)
      BY <1>1, <1>2, <1>5, <2>1 DEF CoverInv, sasVars
    <3> QED BY <1>5, <3>1 DEF Covered, sasVars
  <2> QED BY <1>1, <2>1 DEF CoverInv, OverallCoversDrives
<1> QED BY <1>4, <1>5, LoadDriveIs

\* Until its event is over a drive may be worse than the condition; then the
\* callback has made it OK.
LEMMA EndEventCovers ==
  ASSUME BusTypeOK, SasTypeOK, FollowInv, CoverInv, EndEvent, UNCHANGED sasVars
  PROVE  CoverInv'
<1>1. /\ at = "event" /\ at' = "idle" /\ calling = {}
      /\ UNCHANGED <<queue, present, unheard, drives, status, overall, masked>>
  BY DEF EndEvent, Finish, sasVars
<1>2. Expected' = Expected
  BY <1>1 DEF Expected
<1>3. ASSUME ~masked, NEW d \in (drives \cap present) \ (unheard \cup Expected)
      PROVE  Covered(d)
  <2>1. CASE event.dev = d
    <3>1. Working(d) /\ Settled(d)
      BY <1>1, <1>3, <2>1 DEF FollowInv, EventsAreBsg, Working, IsAbout, Settled, Known, Due
    <3>2. status[d] = SAS_PHYS_STATUS_OK
      BY <1>3, <3>1 DEF FollowInv, SasRowIsRight, SasTypeOK
    <3> QED BY <3>2, SasConditionType, StatusCases DEF Covered
  <2>2. CASE event.dev # d
    BY <1>1, <1>3, <2>2 DEF CoverInv, OverallCoversDrives, Covered
  <2> QED BY <2>1, <2>2
<1>4. OverallCoversDrives'
  BY <1>1, <1>2, <1>3 DEF OverallCoversDrives, Covered
<1> QED BY <1>1, <1>4 DEF CoverInv

LEMMA StartEventCovers ==
  ASSUME BusTypeOK, SasTypeOK, CoverInv, StartEvent, UNCHANGED sasVars
  PROVE  CoverInv'
<1>1. /\ at = "idle" /\ at' = "event" /\ Receive
      /\ UNCHANGED <<present, drives, status, overall, masked>>
      /\ \A d \in Device : d \in unheard => d \in unheard'
  BY DEF StartEvent, sasVars
<1>2. ASSUME ~masked, NEW d \in (drives \cap present) \ (unheard' \cup Expected'), event'.dev # d
      PROVE  Covered(d)
  <2>1. d \in Device /\ d \notin unheard
    BY <1>1, <1>2, ScsiBusAssumption DEF SasTypeOK
  <2>2. d \notin Expected
    BY <1>1, <1>2, <2>1, TakeFirst DEF BusTypeOK, IsAbout
  <2> QED BY <1>1, <1>2, <2>1, <2>2 DEF CoverInv, OverallCoversDrives, Covered
<1>3. OverallCoversDrives'
  BY <1>1, <1>2 DEF OverallCoversDrives, Covered
<1> QED BY <1>1, <1>3 DEF CoverInv

LEMMA LoadCovers ==
  ASSUME BusTypeOK, SasTypeOK, SasTypeOK', CoverInv,
         HbaLoad \/ SasLoadNoHba \/ SasScan \/ SasLoadEnd
  PROVE  CoverInv'
<1>1. CASE HbaLoad
  BY <1>1 DEF HbaLoad, busVars, CoverInv, OverallCoversDrives
<1>2. ASSUME RegisterPair(<<SasAdd, SasRemove>>) PROVE UNCHANGED <<queue, event>> /\ Expected' = Expected
  BY <1>2, RegisteredSas DEF BusTypeOK, Expected
<1>3. CASE SasLoadNoHba
  <2>1. UNCHANGED <<at, event, todo, masked, drives, status, overall, present, unheard>>
        /\ Expected' = Expected /\ overall <= overall'
    BY <1>2, <1>3, ConditionIsNumber DEF SasLoadNoHba, busVars, SasTypeOK
  <2> QED BY <2>1, CoverFrame DEF Counts
<1>4. CASE SasScan
  <2>1. UNCHANGED <<drives, present>> /\ drives \subseteq SasDrive
    BY <1>4 DEF SasScan, SasTypeOK
  <2>2. \/ drives' \cap present' = {} /\ at' # "sas"
        \/ drives' \cap present' \subseteq todo' /\ at' = "sas"
    BY <1>4, <2>1 DEF SasScan
  <2> QED BY <2>2 DEF CoverInv, OverallCoversDrives
<1>5. CASE SasLoadEnd
  <2>1. /\ at = "sas" /\ todo = {} /\ at' = "idle"
        /\ UNCHANGED <<drives, status, overall, present, unheard>> /\ Expected' = Expected
    BY <1>2, <1>5 DEF SasLoadEnd
  <2> QED BY <2>1 DEF CoverInv, OverallCoversDrives, Covered
<1> QED BY <1>1, <1>3, <1>4, <1>5

LEMMA CallCovers ==
  ASSUME BusTypeOK, SasTypeOK, SasTypeOK', FollowInv, CoverInv, SasCalls
  PROVE  CoverInv'
<1>1. /\ at = "event" /\ UNCHANGED <<at, event, todo, masked, queue, present>>
      /\ unheard \subseteq unheard'
  BY DEF SasCalls, cpqsas_add_sas_end_device, cpqsas_remove_sas_end_device, Call,
         SasAddsDrive, SasIgnoresDrive
<1>2. Expected' = Expected
  BY <1>1 DEF Expected
<1>3. overall \in 0 .. 4 /\ \A s : SasCondition(s) \in 1 .. 4
  BY SasConditionType, ConditionIsNumber DEF SasTypeOK
<1>4. /\ overall' \in 0 .. 4 /\ overall <= overall'
      /\ \A d \in SasDrive : d # event.dev /\ d \in drives' =>
           d \in drives /\ status'[d] = status[d]
  <2>1. CASE UNCHANGED sasVars
    BY <1>3, <2>1 DEF sasVars
  <2>2. CASE event.dev \in SasDrive /\ \E s \in Status : SasReplugs(event.dev, s)
    BY <1>3, <2>2, Made DEF SasReplugs, sas_add_disk, IsNow, SasTypeOK
  <2>3. CASE SasRemoves(event.dev)
    BY <1>3, <2>3 DEF SasRemoves, SasTypeOK
  <2> QED BY <2>1, <2>2, <2>3, SasAddIs, SasRemoveIs DEF SasCalls
<1>5. ASSUME ~masked', NEW d \in (drives' \cap present') \ (unheard' \cup Expected'), event'.dev # d
      PROVE  Covered(d)'
  <2>1. d \in SasDrive /\ d \in drives /\ status'[d] = status[d]
    BY <1>1, <1>4, <1>5 DEF SasTypeOK
  <2>2. Covered(d)
    BY <1>1, <1>2, <1>5, <2>1 DEF CoverInv, OverallCoversDrives, Covered
  <2> QED BY <1>3, <1>4, <2>1, <2>2 DEF Covered
<1>6. OverallCoversDrives'
  BY <1>1, <1>5 DEF OverallCoversDrives, Covered
<1> QED BY <1>1, <1>6 DEF CoverInv

LEMMA NextCovers == TypeOK /\ TypeOK' /\ FollowInv /\ CoverInv /\ [Next]_vars => CoverInv'
<1> SUFFICES ASSUME BusTypeOK, SasTypeOK, IdeTypeOK, SasTypeOK', FollowInv, CoverInv, [Next]_vars
             PROVE  CoverInv'
  BY DEF TypeOK
<1>1. ASSUME UNCHANGED sasVars, UNCHANGED <<at, event, todo>>,
             \A d \in SasDrive : Counts(d)' => Counts(d)
      PROVE  CoverInv'
  <2>1. UNCHANGED <<status, masked, overall>> /\ overall <= overall'
    BY <1>1, ConditionIsNumber DEF sasVars, SasTypeOK
  <2> QED BY <1>1, <2>1, CoverFrame
<1>2. CASE NoSasStep
  <2>1. ASSUME NEW e \in Device, Plug(e) \/ Unplug(e) PROVE CoverInv'
    <3>1. PICK action \in {"add", "remove"} : Announce(action, e)
      BY <2>1 DEF Plug, Unplug
    <3>2. UNCHANGED <<at, event, todo>> /\ \A d : d # e => (d \in present' => d \in present)
      BY <2>1, <3>1 DEF Plug, Unplug, Announce, Deliver, udevVars
    <3>3. ASSUME NEW d \in SasDrive, Counts(d)' PROVE Counts(d)
      <4>1. d \in Device
        BY ScsiBusAssumption
      <4>2. d # e /\ d \notin Expected \cup unheard
        BY <3>1, <3>3, <4>1, AnnounceExpects DEF Counts
      <4> QED BY <1>2, <3>2, <3>3, <4>2 DEF Counts, NoSasStep, sasVars
    <3> QED BY <1>1, <1>2, <3>2, <3>3 DEF NoSasStep
  <2>2. CASE CtlrLoad \/ AtaRelease
    BY <1>1, <1>2, <2>2 DEF NoSasStep, CtlrLoad, AtaRelease, sasVars, udevVars, busVars, Counts, Expected
  <2>3. CASE AtaLoad
    <3>1. /\ UNCHANGED <<present, at, todo>>
          /\ \A d : d \in unheard /\ d \notin AtaDisk => d \in unheard'
      BY <2>3, AtaLoadIs
    <3>2. UNCHANGED <<queue, event>>
      <4>1. UNCHANGED udevVars \/ RegisterPair(<<AtaAdd, AtaRemove>>)
        BY <2>3 DEF AtaLoad
      <4> QED BY <4>1, RegisteredAta DEF udevVars, BusTypeOK
    <3>3. Expected' = Expected /\ SasDrive \cap AtaDisk = {}
      BY <3>2, ScsiBusAssumption DEF Expected
    <3> QED BY <1>1, <1>2, <3>1, <3>2, <3>3 DEF NoSasStep, Counts, sasVars
  <2>4. CASE AtaCalls
    <3>1. UNCHANGED <<queue, event, present, at, todo, unheard>>
      BY <2>4 DEF AtaCalls, cpqide_add_ide_end_device, cpqide_remove_ide_end_device, Call, busVars
    <3>2. Expected' = Expected
      BY <3>1 DEF Expected
    <3> QED BY <1>1, <1>2, <3>1, <3>2 DEF NoSasStep, Counts, sasVars
  <2>5. CASE UNCHANGED vars
    <3>1. UNCHANGED <<queue, event, present, at, todo, unheard>>
      BY <2>5 DEF vars, udevVars, busVars
    <3>2. Expected' = Expected
      BY <3>1 DEF Expected
    <3> QED BY <1>1, <1>2, <3>1, <3>2 DEF NoSasStep, Counts, sasVars
  <2> QED
    BY <1>2, <2>1, <2>2, <2>3, <2>4, <2>5, StartEventCovers, EndEventCovers DEF NoSasStep, AtaCalls
<1>3. CASE HbaLoad \/ SasLoadNoHba \/ SasScan \/ SasLoadEnd
  BY <1>3, LoadCovers
<1>4. ASSUME NEW d \in SasDrive, SasLoadDrive(d) PROVE CoverInv'
  BY <1>4, LoadDriveCovers
<1>5. CASE SasCalls
  BY <1>5, CallCovers
<1> QED BY <1>2, <1>3, <1>4, <1>5, SasSteps DEF SasCalls

\* From the end of a load of the drives to the next load of the adapter its
\* condition is as bad as that of each drive (netsnmp_arch_sasphydrv_container_load).
THEOREM OverallAlwaysCoversDrives == Spec => []OverallCoversDrives
<1>1. Init => CoverInv
  BY DEF Init, BusInit, SasInit, CoverInv, OverallCoversDrives
<1>2. CoverInv => OverallCoversDrives
  BY DEF CoverInv
<1> QED BY <1>1, <1>2, NextCovers, TypeCorrect, Invariance, PTL DEF Spec

-----------------------------------------------------------------------------
(* The SAS table implements FollowingTable *)

\* The drives that the table need not be right about, but for the event in work.
Unsettled(d) == d \in Expected \cup unheard

StaleIsParts == \A d : d \in StaleDrives <=> d \in SasDrive /\ (Unsettled(d) \/ Working(d))
RightWhereNotStale == \A d \in SasDrive \ StaleDrives : d \in drives <=> d \in present

LEMMA StaleParts == StaleIsParts
<1>1. SasDrive \subseteq Device
  BY ScsiBusAssumption
<1> QED BY <1>1 DEF StaleIsParts, StaleDrives, Unsettled, Working

\* Outside of them the table is right: the invariant, in the abstract terms.
LEMMA RightElsewhere == FollowInv => RightWhereNotStale
<1> SUFFICES ASSUME FollowInv, NEW d \in SasDrive, d \notin StaleDrives
             PROVE  d \in drives <=> d \in present
  BY DEF RightWhereNotStale
<1>1. Settled(d)
  BY StaleParts DEF StaleIsParts, Unsettled, Settled, Known
<1> QED BY <1>1 DEF FollowInv, SasRowIsRight

StaleAsBefore == \A d \in SasDrive : d \in StaleDrives' <=> d \in StaleDrives

LEMMA NoNews ==
  ASSUME StaleIsParts, StaleIsParts', UNCHANGED drives, StaleAsBefore,
         \A d \in SasDrive : d \in present' <=> d \in present
  PROVE  [SasFollowing!Next]_(SasFollowing!vars)
<1>1. StaleDrives' = StaleDrives
  <2>1. \A d : d \in StaleDrives' <=> d \in StaleDrives
    BY DEF StaleIsParts, StaleAsBefore
  <2> HIDE DEF StaleDrives
  <2> QED BY <2>1
<1>2. present' \cap SasDrive = present \cap SasDrive
  OBVIOUS
<1> QED BY <1>1, <1>2 DEF SasFollowing!vars

LEMMA WorksOn ==
  ASSUME StaleIsParts, StaleIsParts', NEW d \in SasDrive, d \in StaleDrives,
         UNCHANGED present, drives' \in {drives, drives \cup {d}, drives \ {d}},
         \A e \in SasDrive : e # d => (e \in StaleDrives' <=> e \in StaleDrives),
         d \notin StaleDrives' => (d \in drives' <=> d \in present')
  PROVE  [SasFollowing!Next]_(SasFollowing!vars)
<1>1. StaleDrives' \in {StaleDrives, StaleDrives \ {d}}
  <2>1. \A e : e # d => (e \in StaleDrives' <=> e \in StaleDrives)
    BY DEF StaleIsParts
  <2> HIDE DEF StaleDrives
  <2>2. CASE d \in StaleDrives'
    <3>1. StaleDrives' = StaleDrives
      BY <2>1, <2>2
    <3> QED BY <3>1
  <2>3. CASE d \notin StaleDrives'
    <3>1. StaleDrives' = StaleDrives \ {d}
      BY <2>1, <2>3
    <3> QED BY <3>1
  <2> QED BY <2>2, <2>3
<1>2. drives' \in {drives \cup {d}, drives \ {d}}
  <2>1. drives = drives \cup {d} \/ drives = drives \ {d}
    OBVIOUS
  <2> QED BY <2>1
<1>3. d \notin StaleDrives' => SasFollowing!Right(d)'
  BY DEF SasFollowing!Right
<1>4. SasFollowing!Work(d)
  BY <1>1, <1>2, <1>3 DEF SasFollowing!Work
<1> QED BY <1>4 DEF SasFollowing!Next

LEMMA PlugImplements ==
  ASSUME BusTypeOK, StaleIsParts, StaleIsParts', NEW e \in Device, Plug(e) \/ Unplug(e),
         UNCHANGED drives
  PROVE  [SasFollowing!Next]_(SasFollowing!vars)
<1>1. /\ \E action \in {"add", "remove"} : Announce(action, e)
      /\ present' = IF e \in present THEN present \ {e} ELSE present \cup {e}
      /\ UNCHANGED at
  BY DEF Plug, Unplug
<1>2. \A d \in SasDrive : Unsettled(d)' <=> Unsettled(d) \/ d = e
  <2>1. SasDrive \subseteq Device
    BY ScsiBusAssumption
  <2> QED BY <1>1, <2>1, AnnounceExpects DEF Unsettled
<1>3. \A d : Working(d)' <=> Working(d)
  BY <1>1 DEF Announce, Deliver, udevVars, Working, IsAbout
<1>4. \A d \in SasDrive : d \in StaleDrives' <=> d \in StaleDrives \/ d = e
  BY <1>2, <1>3 DEF StaleIsParts
<1>5. CASE e \in SasDrive
  <2>1. StaleDrives' = StaleDrives \cup {e}
    <3>1. \A d : d \in StaleDrives' <=> d \in StaleDrives \/ d = e
      BY <1>4, <1>5 DEF StaleIsParts
    <3> HIDE DEF StaleDrives
    <3> QED BY <3>1
  <2>2. present' \cap SasDrive = IF e \in present \cap SasDrive THEN (present \cap SasDrive) \ {e}
                                 ELSE (present \cap SasDrive) \cup {e}
    BY <1>1, <1>5
  <2>3. SasFollowing!Change(e)
    BY <2>1, <2>2 DEF SasFollowing!Change
  <2> QED BY <1>5, <2>3 DEF SasFollowing!Next
<1>6. CASE e \notin SasDrive
  <2>1. StaleAsBefore
    BY <1>4, <1>6 DEF StaleAsBefore
  <2> QED BY <1>1, <1>6, <2>1, NoNews
<1> QED BY <1>5, <1>6

\* A load touches a row only of a drive that the table may be wrong about.
LEMMA LoadDriveImplements ==
  ASSUME SasTypeOK, StaleIsParts, StaleIsParts', RightWhereNotStale,
         NEW e \in SasDrive, SasLoadDrive(e)
  PROVE  [SasFollowing!Next]_(SasFollowing!vars)
<1>1. /\ at = "sas" /\ at' \in {"sas", "dead"} /\ UNCHANGED <<queue, present>>
      /\ unheard' = IF e \in present /\ e \notin Expected THEN unheard \ {e} ELSE unheard
  BY DEF SasLoadDrive, Vanished, udevVars
<1>2. drives' = IF e \in present THEN drives \cup {e} ELSE drives
  BY LoadDriveIs DEF SasLoadsDrive, sas_add_disk, sasVars
<1>3. /\ \A d : ~Working(d) /\ ~Working(d)'
      /\ Expected' = Expected
  BY <1>1 DEF Working, Expected
<1>4. \A d \in SasDrive : d # e => (d \in StaleDrives' <=> d \in StaleDrives)
  BY <1>1, <1>3 DEF StaleIsParts, Unsettled
<1>5. CASE e \in present /\ e \in StaleDrives
  BY <1>1, <1>2, <1>4, <1>5, WorksOn
<1>6. CASE ~(e \in present /\ e \in StaleDrives)
  <2>1. drives' = drives
    BY <1>2, <1>6 DEF RightWhereNotStale
  <2>2. e \in StaleDrives' <=> e \in StaleDrives
    BY <1>1, <1>3, <1>6 DEF StaleIsParts, Unsettled
  <2> QED BY <1>1, <1>4, <2>1, <2>2, NoNews DEF StaleAsBefore
<1> QED BY <1>5, <1>6

LEMMA CallImplements ==
  ASSUME BusTypeOK, SasTypeOK, StaleIsParts, StaleIsParts', DispatchInv, SasCalls
  PROVE  [SasFollowing!Next]_(SasFollowing!vars)
<1>1. /\ at = "event" /\ UNCHANGED <<queue, event, present, at>>
      /\ \E func \in {"add_disk", "remove_disk"} : Call(func)
      /\ unheard' \in {unheard, unheard \cup ({event.dev} \cap SasDrive)}
  BY DEF SasCalls, cpqsas_add_sas_end_device, cpqsas_remove_sas_end_device, Call,
         SasAddsDrive, SasIgnoresDrive
<1>2. Working(event.dev)
  BY <1>1, CalledFor DEF DispatchInv
<1>3. /\ \A d : Working(d)' <=> Working(d)
      /\ Expected' = Expected
  BY <1>1 DEF Working, IsAbout, Expected
<1>4. \A d \in SasDrive : d # event.dev => (d \in StaleDrives' <=> d \in StaleDrives)
  BY <1>1, <1>3 DEF StaleIsParts, Unsettled
<1>5. \/ drives' = drives
      \/ event.dev \in SasDrive /\ drives' \in {drives \cup {event.dev}, drives \ {event.dev}}
  <2>1. CASE cpqsas_add_sas_end_device
    BY <2>1, SasAddIs DEF SasReplugs, sas_add_disk, sasVars
  <2>2. CASE cpqsas_remove_sas_end_device
    BY <2>2, SasRemoveIs DEF SasRemoves, sasVars, SasTypeOK
  <2> QED BY <2>1, <2>2 DEF SasCalls
<1>6. CASE event.dev \in SasDrive
  <2>1. event.dev \in StaleDrives /\ event.dev \in StaleDrives'
    BY <1>2, <1>3, <1>6 DEF StaleIsParts
  <2> DEFINE d == event.dev
  <2>2. d \in SasDrive /\ d \in StaleDrives /\ d \in StaleDrives'
        /\ drives' \in {drives, drives \cup {d}, drives \ {d}}
        /\ \A e \in SasDrive : e # d => (e \in StaleDrives' <=> e \in StaleDrives)
    BY <1>4, <1>5, <1>6, <2>1
  <2> HIDE DEF d
  <2> QED BY <1>1, <2>2, WorksOn
<1>7. CASE event.dev \notin SasDrive
  BY <1>1, <1>4, <1>5, <1>7, NoNews DEF StaleAsBefore
<1> QED BY <1>6, <1>7

LEMMA StartEventImplements ==
  ASSUME BusTypeOK, StaleIsParts, StaleIsParts', DispatchInv', StartEvent, UNCHANGED drives
  PROVE  [SasFollowing!Next]_(SasFollowing!vars)
<1>1. /\ at = "idle" /\ at' = "event" /\ Receive /\ UNCHANGED present
      /\ \A d \in Device : d \in unheard' => d \in unheard \/ event'.dev = d
      /\ \A d \in Device : d \in unheard => d \in unheard'
  BY DEF StartEvent
<1>2. \A d \in Device : d \in Expected <=> d \in Expected' \/ IsAbout(event', d)
  BY <1>1, TakeFirst DEF BusTypeOK
<1>3. event'.subsystem = "bsg" /\ SasDrive \subseteq Device
  BY <1>1, ScsiBusAssumption DEF DispatchInv, EventsAreBsg
<1>4. StaleAsBefore
  BY <1>1, <1>2, <1>3 DEF StaleAsBefore, StaleIsParts, Unsettled, Working, IsAbout
<1> QED BY <1>1, <1>4, NoNews

\* The event in work is done with its drive, whose row is right by now.
LEMMA EndEventImplements ==
  ASSUME StaleIsParts, StaleIsParts', RightWhereNotStale', EndEvent, UNCHANGED drives
  PROVE  [SasFollowing!Next]_(SasFollowing!vars)
<1>1. /\ at = "event" /\ at' = "idle" /\ UNCHANGED <<queue, present, unheard>>
  BY DEF EndEvent, Finish
<1>2. /\ \A d : Unsettled(d)' <=> Unsettled(d)
      /\ \A d : ~Working(d)'
      /\ \A d : Working(d) <=> IsAbout(event, d)
  BY <1>1 DEF Unsettled, Expected, Working
<1>3. CASE StaleAsBefore
  BY <1>1, <1>3, NoNews
<1>4. CASE ~StaleAsBefore
  <2>1. PICK d \in SasDrive : ~(d \in StaleDrives' <=> d \in StaleDrives)
    BY <1>4 DEF StaleAsBefore
  <2>2. d \in StaleDrives /\ d \notin StaleDrives' /\ Working(d)
    BY <1>2, <2>1 DEF StaleIsParts
  <2>3. \A e \in SasDrive : e # d => (e \in StaleDrives' <=> e \in StaleDrives)
    BY <1>2, <2>2 DEF StaleIsParts, IsAbout
  <2>4. d \in drives' <=> d \in present'
    BY <2>2 DEF RightWhereNotStale
  <2> QED BY <1>1, <2>2, <2>3, <2>4, WorksOn
<1> QED BY <1>3, <1>4

LEMMA StepImplements ==
  ASSUME BusTypeOK, SasTypeOK, IdeTypeOK, DispatchInv, DispatchInv', StaleIsParts, StaleIsParts',
         RightWhereNotStale, RightWhereNotStale', [Next]_vars
  PROVE  [SasFollowing!Next]_(SasFollowing!vars)
<1>1. ASSUME UNCHANGED <<drives, present, queue>>,
             (at' = at /\ event' = event) \/ (at # "event" /\ at' # "event"),
             \A d \in SasDrive : d \in unheard' <=> d \in unheard
      PROVE  [SasFollowing!Next]_(SasFollowing!vars)
  <2>1. \A d : (Working(d)' <=> Working(d)) /\ Expected' = Expected
    BY <1>1 DEF Working, Expected, IsAbout
  <2>2. StaleAsBefore
    BY <1>1, <2>1 DEF StaleAsBefore, StaleIsParts, Unsettled
  <2> QED BY <1>1, <2>2, NoNews
<1>2. ASSUME RegisterPair(<<SasAdd, SasRemove>>) PROVE UNCHANGED <<queue, event>>
  BY <1>2, RegisteredSas DEF BusTypeOK
<1>3. CASE HbaLoad \/ SasLoadNoHba \/ SasScan \/ SasLoadEnd
  BY <1>1, <1>2, <1>3 DEF HbaLoad, SasLoadNoHba, SasScan, SasLoadEnd, udevVars, busVars
<1>4. ASSUME NEW d \in SasDrive, SasLoadDrive(d) PROVE [SasFollowing!Next]_(SasFollowing!vars)
  BY <1>4, LoadDriveImplements
<1>5. CASE SasCalls
  BY <1>5, CallImplements
<1>6. CASE NoSasStep
  <2>1. UNCHANGED drives
    BY <1>6 DEF NoSasStep, sasVars
  <2>2. CASE CtlrLoad \/ AtaRelease \/ UNCHANGED vars
    BY <1>1, <2>1, <2>2 DEF CtlrLoad, AtaRelease, vars, udevVars, busVars
  <2>3. CASE AtaLoad
    <3>1. UNCHANGED udevVars \/ RegisterPair(<<AtaAdd, AtaRemove>>)
      BY <2>3 DEF AtaLoad
    <3>2. UNCHANGED <<queue, event>> /\ SasDrive \cap AtaDisk = {}
      BY <3>1, RegisteredAta, ScsiBusAssumption DEF udevVars, BusTypeOK
    <3>3. /\ UNCHANGED <<present, at>>
          /\ \A d : d \notin AtaDisk => (d \in unheard' <=> d \in unheard)
      BY <2>3, AtaLoadIs
    <3> QED BY <1>1, <2>1, <3>2, <3>3
  <2>4. CASE AtaCalls
    <3>1. UNCHANGED <<queue, event, present, at, unheard>>
      BY <2>4 DEF AtaCalls, cpqide_add_ide_end_device, cpqide_remove_ide_end_device, Call, busVars
    <3> QED BY <1>1, <2>1, <3>1
  <2> QED
    BY <1>6, <2>1, <2>2, <2>3, <2>4, PlugImplements, StartEventImplements, EndEventImplements
    DEF NoSasStep, AtaCalls
<1> QED BY <1>3, <1>4, <1>5, <1>6, SasSteps DEF SasCalls

\* Loads and callbacks of the SAS table, interleaved with each other, with
\* those of the ATA table and with the drives, implement the abstract table:
\* the row of a drive is touched only while the table need not be right about
\* it, and a drive leaves that state with the right row.
THEOREM SasImplementsFollowingTable == Spec => SasFollowsDrives
<1>1. Init => SasFollowing!Init
  <2> SUFFICES ASSUME Init PROVE SasFollowing!Init
    OBVIOUS
  <2>1. RightWhereNotStale /\ StaleIsParts
    BY InitFollows, RightElsewhere, StaleParts
  <2>2. \A d \in SasDrive \ StaleDrives : SasFollowing!Right(d)
    BY <2>1 DEF RightWhereNotStale, SasFollowing!Right
  <2>3. StaleDrives \in SUBSET SasDrive /\ present \cap SasDrive \in SUBSET SasDrive
    BY DEF StaleDrives
  <2> QED BY <2>2, <2>3 DEF Init, SasInit, SasFollowing!Init
<1>2. TypeOK /\ FollowInv /\ FollowInv' /\ StaleIsParts /\ StaleIsParts'
      /\ RightWhereNotStale /\ RightWhereNotStale' /\ [Next]_vars
      => [SasFollowing!Next]_(SasFollowing!vars)
  BY StepImplements DEF TypeOK, FollowInv, DispatchInv
<1> QED
  BY <1>1, <1>2, TypeCorrect, Invariance, StaleParts, RightElsewhere, PTL
  DEF Spec, SasFollowsDrives, SasFollowing!Spec
=============================================================================
