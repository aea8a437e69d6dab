-------------------------- MODULE NvmeTableProofs ---------------------------
(***************************************************************************)
(* Type correctness of NvmeTable, the condition of the table against that  *)
(* of its rows, the rows against the disks, and the refinement of          *)
(* FollowingTable.                                                         *)
(***************************************************************************)
EXTENDS NvmeTable, SequenceTheorems, TLAPS

-----------------------------------------------------------------------------
(* Types *)

LEMMA ConditionsAreNumbers ==
  /\ Condition \subseteq Nat
  /\ \A total, new \in Condition :
       /\ MAKE_CONDITION(total, new) \in Condition
       /\ total <= MAKE_CONDITION(total, new)
       /\ new <= MAKE_CONDITION(total, new)
       /\ NVME_COND_OK <= total
BY DEF Condition, MAKE_CONDITION, NVME_COND_OK, NVME_COND_DEGRADED, NVME_COND_FAILED

LEMMA ConditionAfterType ==
  ASSUME NEW before \in Condition, NEW reading \in Reading
  PROVE  ConditionAfter(before, reading) \in Condition
BY DEF ConditionAfter, Condition

\* What the two callers do with the condition that was read.
Final == {AsRead, AlwaysOK}

LEMMA FinalType ==
  ASSUME NEW final \in Final
  PROVE  /\ final \in [Condition -> Condition]
         /\ \A c \in Condition : final[c] \in {c, NVME_COND_OK}
BY DEF Final, AsRead, AlwaysOK, Condition

RowTypeOK ==
  /\ rows \in SUBSET Device
  /\ condition \in [Device -> Condition]
  /\ tableCondition \in Condition
  /\ reported \in SUBSET Device

\* A visit keeps the types, and the order of the conditions.
LEMMA ReadRow ==
  ASSUME RowTypeOK, NEW d \in Device, NEW reading \in Reading, NEW final \in Final,
         Read(d, reading, final)
  PROVE  /\ RowTypeOK'
         /\ rows' = rows \cup {d}
         /\ TableCoversRows => TableCoversRows'
<1> DEFINE c == ConditionAfter(OldCondition(d), reading)
<1>1. c \in Condition
  <2>1. OldCondition(d) \in Condition
    BY DEF OldCondition, RowTypeOK, Condition
  <2> QED BY <2>1, ConditionAfterType
<1>2. /\ rows' = rows \cup {d}
      /\ tableCondition' = MAKE_CONDITION(tableCondition, c)
      /\ condition' = [condition EXCEPT ![d] = final[c]]
      /\ reported' \in {reported \ {d}, reported \cup {d}, reported}
  BY DEF Read
<1> HIDE DEF c
<1>3. final[c] \in Condition /\ final[c] \in {c, NVME_COND_OK}
  BY <1>1, FinalType
<1>4. RowTypeOK'
  <2>1. condition' \in [Device -> Condition]
    BY <1>2, <1>3 DEF RowTypeOK
  <2>2. tableCondition' \in Condition
    BY <1>1, <1>2, ConditionsAreNumbers DEF RowTypeOK
  <2>3. reported' \in SUBSET Device /\ rows' \in SUBSET Device
    BY <1>2 DEF RowTypeOK
  <2> QED BY <2>1, <2>2, <2>3 DEF RowTypeOK
<1>5. ASSUME TableCoversRows PROVE TableCoversRows'
  <2> SUFFICES ASSUME NEW e \in rows' PROVE condition'[e] <= tableCondition'
    BY DEF TableCoversRows
  <2>1. /\ tableCondition <= tableCondition'
        /\ c <= tableCondition' /\ NVME_COND_OK <= tableCondition'
    BY <1>1, <1>2, <1>4, ConditionsAreNumbers DEF RowTypeOK
  <2>2. CASE e = d
    BY <2>1, <2>2, <1>2, <1>3 DEF RowTypeOK
  <2>3. CASE e # d
    <3>1. e \in rows /\ condition'[e] = condition[e]
      BY <2>3, <1>2 DEF RowTypeOK
    <3>2. condition[e] \in Nat /\ tableCondition \in Nat /\ tableCondition' \in Nat
      BY <3>1, <1>4, ConditionsAreNumbers DEF RowTypeOK
    <3> QED BY <3>1, <3>2, <2>1, <1>5 DEF TableCoversRows
  <2> QED BY <2>2, <2>3
<1> QED BY <1>2, <1>4, <1>5

LEMMA UnreadRow ==
  ASSUME RowTypeOK, NEW d \in Device, NEW final \in Final, Unread(d, final)
  PROVE  /\ RowTypeOK'
         /\ rows' = rows
         /\ TableCoversRows => TableCoversRows'
<1>1. /\ rows' = rows /\ tableCondition' = tableCondition
      /\ \/ condition' = condition
         \/ condition' = [condition EXCEPT ![d] = NVME_COND_OK]
      /\ reported' \in {reported, reported \ {d}}
  BY DEF Unread
<1>2. RowTypeOK'
  BY <1>1 DEF RowTypeOK, Condition
<1>3. \A e \in rows : condition'[e] \in {condition[e], NVME_COND_OK}
  BY <1>1 DEF RowTypeOK
<1>4. NVME_COND_OK <= tableCondition
  BY ConditionsAreNumbers DEF RowTypeOK
<1> QED BY <1>1, <1>2, <1>3, <1>4 DEF TableCoversRows

\* nvme_add_disk: a disk that is there is read, unless it does not open.
LEMMA Visit ==
  ASSUME RowTypeOK, NEW d \in Device, NEW final \in Final, nvme_add_disk(d, final)
  PROVE  /\ RowTypeOK'
         /\ rows' \in {rows, rows \cup {d}}
         /\ d \notin present => rows' = rows
         /\ TableCoversRows => TableCoversRows'
         /\ UNCHANGED faults \/ Fault("open")
<1>1. CASE d \in present /\ NoFault /\ \E reading \in Reading : Read(d, reading, final)
  <2>1. PICK reading \in Reading : Read(d, reading, final)
    BY <1>1
  <2> QED BY <1>1, <2>1, ReadRow DEF NoFault
<1>2. CASE Unread(d, final) /\ NoFault
  BY <1>2, UnreadRow DEF NoFault
<1>3. CASE Unread(d, final) /\ Fault("open")
  BY <1>3, UnreadRow
<1> QED BY <1>1, <1>2, <1>3, Zenon DEF nvme_add_disk

LEMMA FaultType ==
  ASSUME faults \in 0 .. MaxFaults, NEW kind, UNCHANGED faults \/ Fault(kind)
  PROVE  faults' \in 0 .. MaxFaults
BY NvmeAssumption DEF Fault

LEMMA CallbackTypes == OtherCallback \in Callback /\ AddDisk \in Callback /\ RemoveDisk \in Callback
BY DEF OtherCallback, AddDisk, RemoveDisk, Callback, Subsystem

\* What the list is after udev_register.
LEMMA Registered ==
  ASSUME UdevTypeOK, NEW opens, Register(<<AddDisk, RemoveDisk>>, opens)
  PROVE  /\ UdevTypeOK'
         /\ Len(udev_cb) <= Len(udev_cb')
         /\ \A i \in 1 .. Len(udev_cb) : udev_cb'[i] = udev_cb[i]
         /\ \A i \in 1 .. Len(udev_cb') : i > Len(udev_cb) => udev_cb'[i] \in {AddDisk, RemoveDisk}
<1> DEFINE ours == <<AddDisk, RemoveDisk>>
<1>1. /\ udev_cb \in Seq(Callback)
      /\ udev_cb' \in {udev_cb, udev_cb \o ours}
      /\ socket' \in {"none", "open"}
      /\ UNCHANGED <<queue, event, calling>>
  BY DEF Register, UdevTypeOK
<1>2. ours \in Seq(Callback) /\ Len(ours) = 2
      /\ \A i \in 1 .. 2 : ours[i] \in {AddDisk, RemoveDisk}
  BY CallbackTypes
<1> HIDE DEF ours
<1>3. CASE udev_cb' = udev_cb
  BY <1>1, <1>3 DEF UdevTypeOK
<1>4. CASE udev_cb' = udev_cb \o ours
  <2>1. /\ udev_cb' \in Seq(Callback)
        /\ Len(udev_cb') = Len(udev_cb) + 2
        /\ \A i \in 1 .. Len(udev_cb) + 2 :
             udev_cb'[i] = IF i <= Len(udev_cb) THEN udev_cb[i] ELSE ours[i - Len(udev_cb)]
    <3>1. udev_cb \in Seq(Callback) /\ ours \in Seq(Callback)
      BY <1>1, <1>2
    <3>2. /\ udev_cb \o ours \in Seq(Callback)
          /\ Len(udev_cb \o ours) = Len(udev_cb) + Len(ours)
          /\ \A i \in 1 .. Len(udev_cb) + Len(ours) :
               (udev_cb \o ours)[i] = IF i <= Len(udev_cb) THEN udev_cb[i] ELSE ours[i - Len(udev_cb)]
      BY <3>1, ConcatProperties, Zenon
    <3> QED BY <3>2, <1>2, <1>4, Zenon
  <2>2. Len(udev_cb) \in Nat
    BY <1>1
  <2>3. calling' \in SUBSET (1 .. Len(udev_cb'))
    BY <1>1, <2>1, <2>2 DEF UdevTypeOK
  <2>4. UdevTypeOK'
    BY <1>1, <2>1, <2>3 DEF UdevTypeOK
  <2>5. ASSUME NEW i \in 1 .. Len(udev_cb'), i > Len(udev_cb)
        PROVE  udev_cb'[i] \in {AddDisk, RemoveDisk}
    <3>1. i - Len(udev_cb) \in 1 .. 2 /\ udev_cb'[i] = ours[i - Len(udev_cb)]
      BY <2>1, <2>2, <2>5
    <3> QED BY <3>1, <1>2
  <2> QED BY <2>1, <2>2, <2>4, <2>5
<1> QED BY <1>1, <1>3, <1>4

LEMMA Delivered ==
  ASSUME UdevTypeOK, NEW ev \in Event, Deliver(ev)
  PROVE  /\ UdevTypeOK'
         /\ Len(queue') = Len(queue) + 1
         /\ \A i \in 1 .. Len(queue) : queue'[i] = queue[i]
         /\ queue'[Len(queue) + 1] = ev
<1>1. /\ queue \in Seq(Event) /\ queue' = Append(queue, ev) /\ Len(queue) < MaxQueue
      /\ UNCHANGED <<socket, udev_cb, event, calling>>
  BY DEF Deliver, UdevTypeOK
<1>2. /\ queue' \in Seq(Event) /\ Len(queue') = Len(queue) + 1 
      /\ \A i \in 1 .. Len(queue) : queue'[i] = queue[i]
      /\ queue'[Len(queue) + 1] = ev
  BY <1>1, AppendProperties
<1>3. Len(queue') <= MaxQueue
  BY <1>1, <1>2, NlUdevAssumption
<1> QED BY <1>1, <1>2, <1>3 DEF UdevTypeOK

LEMMA BlockEventType ==
  ASSUME NEW action \in {"add", "remove"}, NEW devtype \in {"disk", "partition"}, NEW d \in Device
  PROVE  BlockEvent(action, devtype, d) \in Event
BY DEF BlockEvent, Event, Subsystem

LEMMA Received ==
  ASSUME UdevTypeOK, Receive
  PROVE  /\ UdevTypeOK'
         /\ event' \in Event /\ queue # <<>> /\ event' = queue[1]
         /\ Len(queue) > 0 /\ Len(queue') = Len(queue) - 1
         /\ \A i \in 1 .. Len(queue') : queue'[i] = queue[i + 1]
<1>1. /\ queue \in Seq(Event) /\ queue # <<>>
      /\ event' = Head(queue) /\ queue' = Tail(queue)
      /\ calling' \in SUBSET (1 .. Len(udev_cb)) /\ UNCHANGED <<socket, udev_cb>>
  BY DEF Receive, UdevTypeOK, Callees
<1>2. /\ event' \in Event /\ queue' \in Seq(Event) /\ Len(queue') = Len(queue) - 1
      /\ \A i \in 1 .. Len(queue') : queue'[i] = queue[i + 1]
      /\ event' = queue[1] /\ Len(queue) > 0
  BY <1>1, HeadTailProperties
<1>3. Len(queue') <= MaxQueue
  BY <1>1, <1>2, NlUdevAssumption DEF UdevTypeOK
<1> QED BY <1>1, <1>2, <1>3 DEF UdevTypeOK

LEMMA Called ==
  ASSUME UdevTypeOK, NEW func, Call(func)
  PROVE  /\ UdevTypeOK'
         /\ UNCHANGED <<socket, udev_cb, queue, event>>
         /\ calling' \subseteq calling
         /\ \E i \in calling : udev_cb[i].func = func
BY DEF Call, UdevTypeOK

-----------------------------------------------------------------------------
OthersTypeOK ==
  /\ present \in SUBSET Device
  /\ faults \in 0 .. MaxFaults
  /\ at \in {"idle", "load", "event", "dead"}
  /\ at = "event" => event \in Event
  /\ todo \in SUBSET Device
  /\ unheard \in SUBSET Device /\ confused \in SUBSET Device

LEMMA TypeParts == TypeOK <=> UdevTypeOK /\ RowTypeOK /\ OthersTypeOK
BY DEF TypeOK, RowTypeOK, OthersTypeOK

LEMMA InitType == Init => TypeOK
<1> SUFFICES ASSUME Init PROVE TypeOK
  OBVIOUS
<1>1. UdevTypeOK
  <2>1. udev_cb \in Seq(Callback)
    <3>1. udev_cb = <<>> \/ udev_cb = <<OtherCallback>>
      BY DEF Init, UdevInit
    <3>2. <<OtherCallback>> \in Seq(Callback)
      BY CallbackTypes
    <3>3. <<>> \in Seq(Callback)
      OBVIOUS
    <3> QED BY <3>1, <3>2, <3>3
  <2> QED BY <2>1, NlUdevAssumption DEF Init, UdevInit, UdevTypeOK
<1>2. RowTypeOK
  BY DEF Init, RowTypeOK, Condition
<1>3. OthersTypeOK
  BY NvmeAssumption DEF Init, OthersTypeOK, Disk
<1> QED BY <1>1, <1>2, <1>3, TypeParts

LEMMA AnnounceType ==
  ASSUME TypeOK, NEW d \in Device, NEW action \in {"add", "remove"}, Announce(action, d)
  PROVE  /\ UdevTypeOK' /\ faults' \in 0 .. MaxFaults /\ unheard' \in SUBSET Device
         /\ event' = event
<1>1. CASE Deliver(BlockEvent(action, "disk", d)) /\ NoFault /\ unheard' = unheard \ {d}
  BY <1>1, BlockEventType, Delivered DEF TypeOK, NoFault, Deliver
<1>2. CASE Missed(d)
  <2>1. faults' \in 0 .. MaxFaults
    BY <1>2, FaultType DEF Missed, TypeOK, NoFault
  <2> QED BY <1>2, <2>1 DEF Missed, TypeOK, UdevTypeOK, udevVars
<1> QED BY <1>1, <1>2 DEF Announce

LEMMA NextType == TypeOK /\ [Next]_vars => TypeOK'
<1> SUFFICES ASSUME TypeOK, [Next]_vars PROVE UdevTypeOK' /\ RowTypeOK' /\ OthersTypeOK'
  BY TypeParts DEF TypeOK, UdevTypeOK, RowTypeOK, OthersTypeOK
<1>1. UdevTypeOK /\ RowTypeOK /\ OthersTypeOK
  BY TypeParts
<1>2. ASSUME NEW d \in Device, Plug(d) \/ Unplug(d) PROVE UdevTypeOK' /\ RowTypeOK' /\ OthersTypeOK'
  <2>1. \E action \in {"add", "remove"} : Announce(action, d)
    BY <1>2 DEF Plug, Unplug
  <2>2. /\ present' \in SUBSET Device
        /\ UNCHANGED <<at, todo, rowVars, confused>>
    BY <1>1, <1>2 DEF Plug, Unplug, OthersTypeOK, Disk
  <2> QED BY <1>1, <2>1, <2>2, AnnounceType DEF RowTypeOK, OthersTypeOK, rowVars
<1>3. ASSUME NEW d \in Device, Repartition(d) \/ UnplugOther(d) \/ UnplugVirtual(d)
      PROVE UdevTypeOK' /\ RowTypeOK' /\ OthersTypeOK'
  <2>1. /\ \E devtype \in {"disk", "partition"} : Deliver(BlockEvent("remove", devtype, d))
        /\ \E kind \in Faults : Fault(kind)
        /\ UNCHANGED <<present, at, todo, rowVars, unheard>>
        /\ confused' \in {confused, confused \cup {d}}
    BY <1>3 DEF Repartition, UnplugOther, UnplugVirtual, Fault
  <2>2. UdevTypeOK' /\ event' = event
    BY <1>1, <2>1, BlockEventType, Delivered DEF Deliver
  <2>3. faults' \in 0 .. MaxFaults
    BY <1>1, <2>1, FaultType DEF OthersTypeOK
  <2> QED BY <1>1, <2>1, <2>2, <2>3 DEF RowTypeOK, OthersTypeOK, rowVars
<1>4. ASSUME LoadScan PROVE UdevTypeOK' /\ RowTypeOK' /\ OthersTypeOK'
  BY <1>1, <1>4 DEF LoadScan, UdevTypeOK, RowTypeOK, OthersTypeOK, udevVars, rowVars, worldVars
<1>5. ASSUME NEW d \in Device, LoadDisk(d) PROVE UdevTypeOK' /\ RowTypeOK' /\ OthersTypeOK'
  <2>1. /\ todo' \in SUBSET Device /\ unheard' \in SUBSET Device
        /\ UNCHANGED <<udevVars, present, at, confused>>
    BY <1>1, <1>5 DEF LoadDisk, OthersTypeOK
  <2>2. RowTypeOK' /\ (UNCHANGED faults \/ Fault("open"))
    <3>1. CASE NoFault /\ UNCHANGED rowVars
      BY <1>1, <3>1 DEF NoFault, RowTypeOK, rowVars
    <3>2. CASE nvme_add_disk(d, AsRead)
      BY <1>1, <3>2, Visit DEF Final
    <3> QED BY <1>5, <3>1, <3>2 DEF LoadDisk, rowVars
  <2> QED BY <1>1, <2>1, <2>2, FaultType DEF UdevTypeOK, OthersTypeOK, udevVars
<1>6. ASSUME LoadEnd PROVE UdevTypeOK' /\ RowTypeOK' /\ OthersTypeOK'
  <2>1. \E opens \in BOOLEAN : Register(<<AddDisk, RemoveDisk>>, opens)
    BY <1>6 DEF LoadEnd
  <2>2. UdevTypeOK' /\ event' = event
    BY <1>1, <2>1, Registered DEF Register
  <2>3. faults' \in 0 .. MaxFaults
    BY <1>1, <1>6, FaultType DEF LoadEnd, OthersTypeOK, NoFault
  <2> QED BY <1>1, <1>6, <2>2, <2>3 DEF LoadEnd, RowTypeOK, OthersTypeOK, rowVars
<1>7. ASSUME StartEvent PROVE UdevTypeOK' /\ RowTypeOK' /\ OthersTypeOK'
  <2>1. UdevTypeOK' /\ event' \in Event
    BY <1>1, <1>7, Received DEF StartEvent
  <2> QED BY <1>1, <1>7, <2>1 DEF StartEvent, RowTypeOK, OthersTypeOK, rowVars, worldVars
<1>8. ASSUME cpqnvme_add_disk PROVE UdevTypeOK' /\ RowTypeOK' /\ OthersTypeOK'
  <2>1. event.dev \in Device
    BY <1>1, <1>8 DEF cpqnvme_add_disk, OthersTypeOK, Event
  <2>2. RowTypeOK' /\ (UNCHANGED faults \/ Fault("open"))
    BY <1>1, <1>8, <2>1, Visit DEF cpqnvme_add_disk, Final
  <2>3. UdevTypeOK' /\ event' = event
    BY <1>1, <1>8, Called DEF cpqnvme_add_disk
  <2> QED BY <1>1, <1>8, <2>1, <2>2, <2>3, FaultType DEF cpqnvme_add_disk, OthersTypeOK
<1>9. ASSUME cpqnvme_remove_disk PROVE UdevTypeOK' /\ RowTypeOK' /\ OthersTypeOK'
  <2>1. UdevTypeOK' /\ event' = event
    BY <1>1, <1>9, Called DEF cpqnvme_remove_disk
  <2>2. RowTypeOK'
    BY <1>1, <1>9 DEF cpqnvme_remove_disk, RowTypeOK, Condition
  <2> QED BY <1>1, <1>9, <2>1, <2>2 DEF cpqnvme_remove_disk, OthersTypeOK, worldVars
<1>10. ASSUME EndEvent PROVE UdevTypeOK' /\ RowTypeOK' /\ OthersTypeOK'
  BY <1>1, <1>10 DEF EndEvent, Finish, UdevTypeOK, RowTypeOK, OthersTypeOK, rowVars, worldVars
<1>11. ASSUME UNCHANGED vars PROVE UdevTypeOK' /\ RowTypeOK' /\ OthersTypeOK'
  BY <1>1, <1>11 DEF vars, UdevTypeOK, RowTypeOK, OthersTypeOK, udevVars, rowVars, worldVars
<1>12. ASSUME CopyBeforeNull PROVE UdevTypeOK' /\ RowTypeOK' /\ OthersTypeOK'
  <2>1. UdevTypeOK'
    BY <1>1, <1>12, Called DEF CopyBeforeNull
  <2> QED BY <1>1, <1>12, <2>1 DEF CopyBeforeNull, RowTypeOK, OthersTypeOK, rowVars, worldVars
<1> QED
  BY <1>2, <1>3, <1>4, <1>5, <1>6, <1>7, <1>8, <1>9, <1>10, <1>11, <1>12, Zenon
  DEF Next, Load, Process, World

\* Every variable keeps its type, whatever disks, events and faults.
THEOREM TypeCorrect == Spec => []TypeOK
BY InitType, NextType, PTL DEF Spec
-----------------------------------------------------------------------------
(* The condition of the table *)

LEMMA NextCovers == TypeOK /\ TableCoversRows /\ [Next]_vars => TableCoversRows'
<1> SUFFICES ASSUME TypeOK, TableCoversRows, [Next]_vars PROVE TableCoversRows'
  OBVIOUS
<1>1. RowTypeOK /\ OthersTypeOK
  BY TypeParts
<1>2. ASSUME UNCHANGED rowVars PROVE TableCoversRows'
  BY <1>2 DEF TableCoversRows, rowVars
<1>3. ASSUME NEW d \in Device, LoadDisk(d) PROVE TableCoversRows'
  <2>1. CASE nvme_add_disk(d, AsRead)
    BY <1>1, <2>1, Visit DEF Final
  <2> QED BY <1>2, <1>3, <2>1 DEF LoadDisk
<1>4. ASSUME cpqnvme_add_disk PROVE TableCoversRows'
  <2>1. event.dev \in Device
    BY <1>1, <1>4 DEF cpqnvme_add_disk, OthersTypeOK, Event
  <2> QED BY <1>1, <1>4, <2>1, Visit DEF cpqnvme_add_disk, Final
<1>5. ASSUME cpqnvme_remove_disk PROVE TableCoversRows'
  BY <1>1, <1>5 DEF cpqnvme_remove_disk, TableCoversRows, RowTypeOK
<1>6. ASSUME NEW d \in Device,
             Plug(d) \/ Unplug(d) \/ Repartition(d) \/ UnplugOther(d) \/ UnplugVirtual(d)
      PROVE UNCHANGED rowVars
  BY <1>6 DEF Plug, Unplug, Repartition, UnplugOther, UnplugVirtual
<1>7. ASSUME LoadScan \/ LoadEnd \/ StartEvent \/ CopyBeforeNull \/ EndEvent \/ UNCHANGED vars
      PROVE UNCHANGED rowVars
  BY <1>7 DEF LoadScan, LoadEnd, StartEvent, CopyBeforeNull, EndEvent, vars
<1> QED
  BY <1>2, <1>3, <1>4, <1>5, <1>6, <1>7, Zenon DEF Next, Load, Process, World

\* The condition of the table is never better than that of any of its rows.
THEOREM TableAlwaysCoversRows == Spec => []TableCoversRows
<1>1. Init => TableCoversRows
  BY DEF Init, TableCoversRows
<1> QED BY <1>1, NextCovers, TypeCorrect, PTL DEF Spec

-----------------------------------------------------------------------------
(* The rows and the disks, for one disk at a time *)

TrueFor(d) == Known(d) =>
  /\ d \in Expected(queue) =>
       \E i \in 1 .. Len(queue) :
         IsLast(queue, d, i) /\ (queue[i].action = "add" <=> d \in present)
  /\ d \notin Expected(queue) /\ Working(d) =>
       /\ event.action = "add" <=> d \in present
       /\ calling # {} \/ (d \in rows <=> d \in present)
  /\ d \notin Expected(queue) /\ ~Working(d) => (d \in rows <=> d \in present)

LEMMA IInvParts ==
  IInv <=> DisksOnly /\ CallbacksAreOurs /\ CallsMatch /\ \A d \in Device : TrueFor(d)
<1>1. Expected(queue) \subseteq Device
  BY DEF Expected
<1> QED BY <1>1, Zenon DEF IInv, LastEventIsTrue, EventIsTrue, RowIsTrue, TrueFor

\* A disk that a step has nothing to do with.
LEMMA Frame ==
  ASSUME NEW d, TrueFor(d), UNCHANGED queue,
         Known(d)' => Known(d),
         d \in present' <=> d \in present,
         d \in rows' <=> d \in rows,
         \/ Working(d)' /\ Working(d) /\ UNCHANGED <<event, calling>>
         \/ ~Working(d)' /\ ~Working(d)
  PROVE  TrueFor(d)'
BY DEF TrueFor, Expected, IsLast, IsDisk

\* The same, when an event for another one is sent.
LEMMA AppendFrame ==
  ASSUME UdevTypeOK, NEW ev \in Event, Deliver(ev),
         NEW d \in Device, TrueFor(d), ~IsDisk(ev, d),
         Known(d)' => Known(d),
         d \in present' <=> d \in present,
         UNCHANGED <<at, rows>>
  PROVE  TrueFor(d)'
<1>1. /\ Len(queue') = Len(queue) + 1 /\ Len(queue) \in Nat
      /\ \A i \in 1 .. Len(queue) : queue'[i] = queue[i]
      /\ queue'[Len(queue) + 1] = ev
  BY Delivered DEF UdevTypeOK
<1>2. d \in Expected(queue') <=> d \in Expected(queue)
  <2>1. ASSUME NEW i \in 1 .. Len(queue'), IsDisk(queue'[i], d)
        PROVE  i \in 1 .. Len(queue) /\ IsDisk(queue[i], d)
    <3>1. i # Len(queue) + 1
      BY <1>1, <2>1
    <3> QED BY <1>1, <2>1, <3>1
  <2>2. ASSUME NEW i \in 1 .. Len(queue), IsDisk(queue[i], d)
        PROVE  i \in 1 .. Len(queue') /\ IsDisk(queue'[i], d)
    BY <1>1, <2>2
  <2> QED BY <2>1, <2>2 DEF Expected
<1>3. ASSUME NEW i \in 1 .. Len(queue), IsLast(queue, d, i)
      PROVE  IsLast(queue', d, i) /\ queue'[i] = queue[i] /\ i \in 1 .. Len(queue')
  <2>1. i \in 1 .. Len(queue') /\ queue'[i] = queue[i] /\ IsDisk(queue[i], d)
    BY <1>1, <1>3 DEF IsLast
  <2>2. ASSUME NEW j \in 1 .. Len(queue'), IsDisk(queue'[j], d) PROVE j <= i
    <3>1. j # Len(queue) + 1
      BY <1>1, <2>2
    <3>2. j \in 1 .. Len(queue) /\ IsDisk(queue[j], d)
      BY <1>1, <2>2, <3>1
    <3> QED BY <1>3, <3>2 DEF IsLast
  <2> QED BY <2>1, <2>2 DEF IsLast
<1>4. Working(d)' <=> Working(d)
  BY DEF Working, Deliver, IsDisk
<1>5. UNCHANGED <<event, calling>>
  BY DEF Deliver
<1> SUFFICES ASSUME Known(d)' PROVE TrueFor(d)'
  BY DEF TrueFor
<1>6. CASE d \in Expected(queue')
  <2>1. PICK i \in 1 .. Len(queue) :
          IsLast(queue, d, i) /\ (queue[i].action = "add" <=> d \in present)
    BY <1>2, <1>6 DEF TrueFor
  <2> QED BY <1>3, <1>6, <2>1 DEF TrueFor
<1>7. CASE d \notin Expected(queue')
  BY <1>2, <1>4, <1>5, <1>7 DEF TrueFor
<1> QED BY <1>6, <1>7

\* An event for the disk itself is the last one.
LEMMA AppendOwn ==
  ASSUME UdevTypeOK, NEW d \in Device, NEW action \in {"add", "remove"},
         Deliver(BlockEvent(action, "disk", d)),
         d \in present' <=> action = "add"
  PROVE  TrueFor(d)'
<1> DEFINE ev == BlockEvent(action, "disk", d)
<1>1. ev \in Event /\ IsDisk(ev, d) /\ ev.action = action
  BY DEF BlockEvent, Event, Subsystem, IsDisk
<1> HIDE DEF ev
<1>2. /\ Len(queue') = Len(queue) + 1 /\ Len(queue) \in Nat
      /\ queue'[Len(queue) + 1] = ev
  BY <1>1, Delivered DEF ev, UdevTypeOK
<1> DEFINE n == Len(queue) + 1
<1>3. /\ n \in 1 .. Len(queue') /\ queue'[n] = ev
      /\ \A j \in 1 .. Len(queue') : j <= n
  BY <1>2
<1> HIDE DEF n
<1>4. IsLast(queue', d, n) /\ queue'[n].action = action
  BY <1>1, <1>3 DEF IsLast
<1>5. d \in Expected(queue')
  BY <1>1, <1>3 DEF Expected
<1> QED BY <1>3, <1>4, <1>5 DEF TrueFor

\* The first event is taken from the socket.
LEMMA TakeFirst ==
  ASSUME UdevTypeOK, Receive, NEW d \in Device
  PROVE  /\ d \in Expected(queue') => d \in Expected(queue)
         /\ d \in Expected(queue) => d \in Expected(queue') \/ IsDisk(event', d)
         /\ IsDisk(event', d) => d \in Expected(queue)
         /\ \A i : IsLast(queue, d, i) =>
              /\ d \in Expected(queue') => IsLast(queue', d, i - 1) /\ queue'[i - 1] = queue[i]
              /\ d \notin Expected(queue') => queue[i] = event'
<1>1. /\ event' = queue[1] /\ Len(queue) \in Nat \ {0} /\ Len(queue') = Len(queue) - 1
      /\ \A i \in 1 .. Len(queue') : queue'[i] = queue[i + 1]
  BY Received DEF UdevTypeOK
<1>2. ASSUME NEW i \in 1 .. Len(queue'), IsDisk(queue'[i], d)
      PROVE  i + 1 \in 1 .. Len(queue) /\ IsDisk(queue[i + 1], d)
  BY <1>1, <1>2
<1>3. ASSUME NEW i \in 1 .. Len(queue), IsDisk(queue[i], d), i # 1
      PROVE  i - 1 \in 1 .. Len(queue') /\ queue'[i - 1] = queue[i]
  <2>1. i - 1 \in 1 .. Len(queue') /\ (i - 1) + 1 = i
    BY <1>1, <1>3
  <2> QED BY <1>1, <2>1
<1>4. d \in Expected(queue') => d \in Expected(queue)
  BY <1>2 DEF Expected
<1>5. d \in Expected(queue) => d \in Expected(queue') \/ IsDisk(event', d)
  BY <1>1, <1>3 DEF Expected
<1>6. IsDisk(event', d) => d \in Expected(queue)
  BY <1>1 DEF Expected
<1>7. ASSUME NEW i, IsLast(queue, d, i), d \in Expected(queue')
      PROVE  IsLast(queue', d, i - 1) /\ queue'[i - 1] = queue[i]
  <2>1. PICK k \in 1 .. Len(queue') : IsDisk(queue'[k], d)
    BY <1>7 DEF Expected
  <2>2. i \in 1 .. Len(queue) /\ IsDisk(queue[i], d) /\ k + 1 <= i
    BY <1>2, <1>7, <2>1 DEF IsLast
  <2>3. i # 1
    BY <1>1, <2>1, <2>2
  <2>4. i - 1 \in 1 .. Len(queue') /\ queue'[i - 1] = queue[i]
    BY <1>3, <2>2, <2>3
  <2>5. ASSUME NEW j \in 1 .. Len(queue'), IsDisk(queue'[j], d) PROVE j <= i - 1
    <3>1. j + 1 <= i
      BY <1>2, <1>7, <2>5 DEF IsLast
    <3> QED BY <1>1, <2>2, <2>5, <3>1
  <2> QED BY <2>2, <2>4, <2>5 DEF IsLast
<1>8. ASSUME NEW i, IsLast(queue, d, i), d \notin Expected(queue')
      PROVE  queue[i] = event'
  <2>1. i \in 1 .. Len(queue) /\ IsDisk(queue[i], d)
    BY <1>8 DEF IsLast
  <2>2. CASE i # 1
    <3>1. i - 1 \in 1 .. Len(queue') /\ IsDisk(queue'[i - 1], d)
      BY <1>3, <2>1, <2>2
    <3> QED BY <1>8, <3>1 DEF Expected
  <2> QED BY <1>1, <2>2
<1> QED BY <1>4, <1>5, <1>6, <1>7, <1>8
-----------------------------------------------------------------------------
(* What the steps do to one disk *)

LEMMA AnnounceKeeps ==
  ASSUME TypeOK, NEW d \in Device, NEW e \in Device, TrueFor(d),
         NEW action \in {"add", "remove"}, Announce(action, e),
         e \in present' <=> action = "add",
         d # e => (d \in present' <=> d \in present),
         UNCHANGED <<at, rows, confused>>
  PROVE  TrueFor(d)'
<1>1. CASE Deliver(BlockEvent(action, "disk", e)) /\ unheard' = unheard \ {e}
  <2>1. CASE d = e
    BY <1>1, <2>1, AppendOwn DEF TypeOK
  <2>2. CASE d # e
    <3>1. ~IsDisk(BlockEvent(action, "disk", e), d)
      BY <2>2 DEF IsDisk, BlockEvent
    <3>2. Known(d)' => Known(d)
      BY <1>1, <2>2 DEF Known
    <3> QED BY <1>1, <2>2, <3>1, <3>2, AppendFrame, BlockEventType DEF TypeOK
  <2> QED BY <2>1, <2>2
<1>2. CASE Missed(e)
  <2>1. UNCHANGED <<queue, event, calling>> /\ unheard' = unheard \cup {e}
    BY <1>2 DEF Missed, udevVars
  <2>2. CASE d = e
    BY <2>1, <2>2 DEF TrueFor, Known
  <2>3. CASE d # e
    <3>1. Known(d)' => Known(d)
      BY <2>1 DEF Known
    <3>2. Working(d)' <=> Working(d)
      BY <2>1 DEF Working, IsDisk
    <3> QED BY <2>1, <2>3, <3>1, <3>2, Frame
  <2> QED BY <2>2, <2>3
<1> QED BY <1>1, <1>2 DEF Announce

LEMMA PlugKeeps ==
  ASSUME TypeOK, NEW d \in Device, NEW e \in Device, TrueFor(d), Plug(e) \/ Unplug(e)
  PROVE  TrueFor(d)'
<1>1. CASE Plug(e)
  BY <1>1, AnnounceKeeps DEF Plug, rowVars
<1>2. CASE Unplug(e)
  BY <1>2, AnnounceKeeps DEF Unplug, rowVars
<1> QED BY <1>1, <1>2

LEMMA RepartitionKeeps ==
  ASSUME TypeOK, NEW d \in Device, NEW e \in Device, TrueFor(d), Repartition(e)
  PROVE  TrueFor(d)'
<1>1. ~IsDisk(BlockEvent("remove", "partition", e), d)
  BY DEF IsDisk, BlockEvent
<1>2. /\ Deliver(BlockEvent("remove", "partition", e))
      /\ UNCHANGED <<present, at, rows, unheard, confused>>
  BY DEF Repartition, rowVars
<1> QED BY <1>1, <1>2, AppendFrame, BlockEventType DEF TypeOK, Known

LEMMA UnplugOtherKeeps ==
  ASSUME TypeOK, NEW d \in Device, NEW e \in Device, TrueFor(d), UnplugOther(e)
  PROVE  TrueFor(d)'
<1>1. /\ Deliver(BlockEvent("remove", "disk", e)) /\ confused' = confused \cup {e}
      /\ UNCHANGED <<present, at, rows, unheard>>
  BY DEF UnplugOther, rowVars
<1>2. CASE d = e
  BY <1>1, <1>2 DEF TrueFor, Known
<1>3. CASE d # e
  <2>1. ~IsDisk(BlockEvent("remove", "disk", e), d)
    BY <1>3 DEF IsDisk, BlockEvent
  <2> QED BY <1>1, <2>1, AppendFrame, BlockEventType DEF TypeOK, Known
<1> QED BY <1>2, <1>3

LEMMA UnplugVirtualKeeps ==
  ASSUME TypeOK, DisksOnly, NEW d \in Device, NEW e \in Device, TrueFor(d), UnplugVirtual(e)
  PROVE  TrueFor(d)'
<1>1. /\ e \in Virtual /\ Deliver(BlockEvent("remove", "disk", e))
      /\ UNCHANGED <<present, at, rows, unheard, confused>>
  BY DEF UnplugVirtual, rowVars
<1>2. CASE d = e
  <2>1. d \notin present'
    BY <1>1, <1>2 DEF DisksOnly, Disk
  <2> QED BY <1>1, <1>2, <2>1, AppendOwn DEF TypeOK
<1>3. CASE d # e
  <2>1. ~IsDisk(BlockEvent("remove", "disk", e), d)
    BY <1>3 DEF IsDisk, BlockEvent
  <2> QED BY <1>1, <2>1, AppendFrame, BlockEventType DEF TypeOK, Known
<1> QED BY <1>2, <1>3

\* A load gives a disk its row and leaves the others alone.
LEMMA LoadDiskKeeps ==
  ASSUME TypeOK, NEW d \in Device, NEW e \in Device, TrueFor(d), LoadDisk(e)
  PROVE  TrueFor(d)'
<1>1. /\ at = "load" /\ UNCHANGED <<queue, event, calling, present, at, confused>>
      /\ e \in present => unheard' = IF e \notin rows' THEN unheard \cup {e}
                                     ELSE IF e \in Expected(queue) THEN unheard
                                     ELSE unheard \ {e}
      /\ e \notin present => unheard' = unheard
  BY DEF LoadDisk, udevVars
<1>2. rows' \in {rows, rows \cup {e}} /\ (e \notin present => rows' = rows)
  BY Visit, TypeParts DEF LoadDisk, rowVars, Final
<1>3. ~Working(d) /\ ~Working(d)'
  BY <1>1 DEF Working
<1>4. CASE d # e \/ e \notin present
  <2>1. Known(d)' => Known(d)
    BY <1>1, <1>4 DEF Known
  <2>2. d \in rows' <=> d \in rows
    BY <1>2, <1>4
  <2> QED BY <1>1, <1>3, <2>1, <2>2, Frame
<1>5. CASE d = e /\ e \in present
  <2> SUFFICES ASSUME Known(d)' PROVE TrueFor(d)'
    BY DEF TrueFor
  <2>1. d \in rows'
    BY <1>1, <1>5 DEF Known
  <2>2. CASE d \in Expected(queue)
    <3>1. Known(d)
      BY <1>1, <1>5, <2>1, <2>2 DEF Known
    <3>2. PICK i \in 1 .. Len(queue) :
            IsLast(queue, d, i) /\ (queue[i].action = "add" <=> d \in present)
      BY <2>2, <3>1 DEF TrueFor
    <3>3. d \in Expected(queue') /\ queue' = queue /\ present' = present
      BY <1>1, <2>2 DEF Expected
    <3> QED BY <3>2, <3>3 DEF TrueFor
  <2>3. CASE d \notin Expected(queue)
    <3>1. d \notin Expected(queue') /\ d \in present'
      BY <1>1, <1>5, <2>3 DEF Expected
    <3> QED BY <1>3, <2>1, <3>1 DEF TrueFor
  <2> QED BY <2>2, <2>3
<1> QED BY <1>4, <1>5

\* An event begins: its disk has a callback to come, or counts as unheard of.
LEMMA StartEventKeeps ==
  ASSUME TypeOK, NEW d \in Device, TrueFor(d), StartEvent
  PROVE  TrueFor(d)'
<1>1. /\ at = "idle" /\ at' = "event" /\ Receive /\ UNCHANGED <<present, rows, confused>>
      /\ d \in unheard => d \in unheard'
      /\ IsDisk(event', d) /\ calling' = {} /\ d \notin Expected(queue') => d \in unheard'
  BY DEF StartEvent, worldVars, rowVars
<1> SUFFICES ASSUME Known(d)' PROVE TrueFor(d)'
  BY DEF TrueFor
<1>2. Known(d)
  BY <1>1 DEF Known
<1>3. ~Working(d) /\ (Working(d)' <=> IsDisk(event', d))
  BY <1>1 DEF Working
<1>4. /\ d \in Expected(queue') => d \in Expected(queue)
      /\ d \in Expected(queue) => d \in Expected(queue') \/ IsDisk(event', d)
      /\ IsDisk(event', d) => d \in Expected(queue)
      /\ \A i : IsLast(queue, d, i) =>
           /\ d \in Expected(queue') => IsLast(queue', d, i - 1) /\ queue'[i - 1] = queue[i]
           /\ d \notin Expected(queue') => queue[i] = event'
  BY <1>1, TakeFirst DEF TypeOK
<1>5. CASE d \in Expected(queue)
  <2>1. PICK i \in 1 .. Len(queue) :
          IsLast(queue, d, i) /\ (queue[i].action = "add" <=> d \in present)
    BY <1>2, <1>5 DEF TrueFor
  <2>2. CASE d \in Expected(queue')
    <3>1. /\ IsLast(queue', d, i - 1) /\ i - 1 \in 1 .. Len(queue')
          /\ queue'[i - 1].action = "add" <=> d \in present'
      BY <1>1, <1>4, <2>1, <2>2 DEF IsLast
    <3> QED BY <2>2, <3>1 DEF TrueFor
  <2>3. CASE d \notin Expected(queue')
    <3>1. event'.action = "add" <=> d \in present'
      BY <1>1, <1>4, <2>1, <2>3
    <3>2. IsDisk(event', d) /\ calling' # {}
      BY <1>1, <1>4, <1>5, <2>3 DEF Known
    <3> QED BY <1>3, <2>3, <3>1, <3>2 DEF TrueFor
  <2> QED BY <2>2, <2>3
<1>6. CASE d \notin Expected(queue)
  <2>1. d \notin Expected(queue') /\ ~Working(d)'
    BY <1>3, <1>4, <1>6
  <2> QED BY <1>1, <1>2, <1>3, <1>6, <2>1 DEF TrueFor
<1> QED BY <1>5, <1>6

\* A callback runs on an event that it was registered for.
LEMMA CalledFor ==
  ASSUME TypeOK, CallbacksAreOurs, CallsMatch, at = "event",
         NEW func \in {"add_disk", "remove_disk"}, Call(func)
  PROVE  /\ event.dev \in Device
         /\ Working(event.dev)
         /\ event.action = IF func = "add_disk" THEN "add" ELSE "remove"
<1>1. event \in Event
  BY DEF TypeOK
<1>2. PICK i \in calling : udev_cb[i].func = func
  BY DEF Call
<1>3. i \in 1 .. Len(udev_cb) /\ Matches(udev_cb[i], event)
  BY <1>2 DEF TypeOK, UdevTypeOK, CallsMatch
<1>4. udev_cb[i] = IF func = "add_disk" THEN AddDisk ELSE RemoveDisk
  <2>1. udev_cb[i] \in {OtherCallback, AddDisk, RemoveDisk}
    BY <1>3 DEF CallbacksAreOurs
  <2>2. /\ OtherCallback.func = "other" /\ AddDisk.func = "add_disk"
        /\ RemoveDisk.func = "remove_disk"
    BY DEF OtherCallback, AddDisk, RemoveDisk
  <2> QED BY <1>2, <2>1, <2>2
<1>5. /\ event.subsystem = "block" /\ event.devtype = "disk"
      /\ event.action = IF func = "add_disk" THEN "add" ELSE "remove"
  BY <1>3, <1>4 DEF Matches, AddDisk, RemoveDisk
<1> QED BY <1>1, <1>5 DEF Working, IsDisk, Event

LEMMA AddKeeps ==
  ASSUME TypeOK, CallbacksAreOurs, CallsMatch, NEW d \in Device, TrueFor(d), cpqnvme_add_disk
  PROVE  TrueFor(d)'
<1>1. /\ at = "event" /\ Call("add_disk") /\ UNCHANGED <<present, at, confused>>
      /\ nvme_add_disk(event.dev, AlwaysOK)
      /\ unheard' = IF event.dev \in present /\ event.dev \notin rows'
                    THEN unheard \cup {event.dev} ELSE unheard
  BY DEF cpqnvme_add_disk
<1>2. event.dev \in Device /\ Working(event.dev) /\ event.action = "add"
  BY <1>1, CalledFor
<1>3. rows' \in {rows, rows \cup {event.dev}}
  BY <1>1, <1>2, Visit, TypeParts DEF Final
<1>4. UNCHANGED <<queue, event>>
  BY <1>1 DEF Call
<1>5. Known(d)' => Known(d)
  BY <1>1 DEF Known
<1>6. Working(d)' <=> Working(d)
  BY <1>1, <1>4 DEF Working, IsDisk
<1>7. CASE d # event.dev
  <2>1. ~Working(d)
    BY <1>7 DEF Working, IsDisk
  <2> QED BY <1>1, <1>3, <1>4, <1>5, <1>6, <1>7, <2>1, Frame
<1>8. CASE d = event.dev
  <2> SUFFICES ASSUME Known(d)' PROVE TrueFor(d)'
    BY DEF TrueFor
  <2>1. Expected(queue') = Expected(queue) /\ queue' = queue /\ present' = present
    BY <1>1, <1>4 DEF Expected
  <2>2. CASE d \in Expected(queue)
    <3>1. PICK i \in 1 .. Len(queue) :
            IsLast(queue, d, i) /\ (queue[i].action = "add" <=> d \in present)
      BY <1>5, <2>2 DEF TrueFor
    <3> QED BY <2>1, <2>2, <3>1 DEF TrueFor
  <2>3. CASE d \notin Expected(queue)
    <3>1. d \in present
      BY <1>2, <1>5, <1>8, <2>3 DEF TrueFor
    <3>2. d \in rows'
      BY <1>1, <1>8, <3>1 DEF Known
    <3>3. event'.action = "add" <=> d \in present'
      BY <1>2, <1>4, <2>1, <3>1
    <3> QED BY <1>2, <1>6, <1>8, <2>1, <2>3, <3>1, <3>2, <3>3 DEF TrueFor
  <2> QED BY <2>2, <2>3
<1> QED BY <1>7, <1>8

LEMMA RemoveKeeps ==
  ASSUME TypeOK, CallbacksAreOurs, CallsMatch, NEW d \in Device, TrueFor(d), cpqnvme_remove_disk
  PROVE  TrueFor(d)'
<1>1. /\ at = "event" /\ Call("remove_disk") /\ UNCHANGED <<present, at, unheard, confused>>
      /\ rows' = rows \ {event.dev}
  BY DEF cpqnvme_remove_disk, worldVars
<1>2. event.dev \in Device /\ Working(event.dev) /\ event.action = "remove"
  BY <1>1, CalledFor
<1>3. UNCHANGED <<queue, event>>
  BY <1>1 DEF Call
<1>4. Known(d)' <=> Known(d)
  BY <1>1 DEF Known
<1>5. Working(d)' <=> Working(d)
  BY <1>1, <1>3 DEF Working, IsDisk
<1>6. CASE d # event.dev
  <2>1. ~Working(d)
    BY <1>6 DEF Working, IsDisk
  <2> QED BY <1>1, <1>3, <1>4, <1>5, <1>6, <2>1, Frame
<1>7. CASE d = event.dev
  <2> SUFFICES ASSUME Known(d)' PROVE TrueFor(d)'
    BY DEF TrueFor
  <2>1. Expected(queue') = Expected(queue) /\ queue' = queue /\ present' = present
    BY <1>1, <1>3 DEF Expected
  <2>2. CASE d \in Expected(queue)
    <3>1. PICK i \in 1 .. Len(queue) :
            IsLast(queue, d, i) /\ (queue[i].action = "add" <=> d \in present)
      BY <1>4, <2>2 DEF TrueFor
    <3> QED BY <2>1, <2>2, <3>1 DEF TrueFor
  <2>3. CASE d \notin Expected(queue)
    <3>1. d \notin present /\ d \notin rows'
      BY <1>1, <1>2, <1>4, <1>7, <2>3 DEF TrueFor
    <3>2. event'.action = "add" <=> d \in present'
      BY <1>2, <1>3, <2>1, <3>1
    <3> QED BY <1>2, <1>5, <1>7, <2>1, <2>3, <3>1, <3>2 DEF TrueFor
  <2> QED BY <2>2, <2>3
<1> QED BY <1>6, <1>7

LEMMA EndEventKeeps ==
  ASSUME TypeOK, NEW d \in Device, TrueFor(d), EndEvent
  PROVE  TrueFor(d)'
<1>1. /\ at = "event" /\ at' = "idle" /\ calling = {}
      /\ UNCHANGED <<queue, present, rows, unheard, confused>>
  BY DEF EndEvent, Finish, worldVars, rowVars
<1>2. Known(d)' <=> Known(d)
  BY <1>1 DEF Known
<1>3. ~Working(d)'
  BY <1>1 DEF Working
<1>4. CASE ~Working(d)
  BY <1>1, <1>2, <1>3, <1>4, Frame
<1>5. CASE Working(d)
  <2> SUFFICES ASSUME Known(d)' PROVE TrueFor(d)'
    BY DEF TrueFor
  <2>1. Expected(queue') = Expected(queue) /\ queue' = queue /\ present' = present
    BY <1>1 DEF Expected
  <2>2. CASE d \in Expected(queue)
    <3>1. PICK i \in 1 .. Len(queue) :
            IsLast(queue, d, i) /\ (queue[i].action = "add" <=> d \in present)
      BY <1>2, <2>2 DEF TrueFor
    <3> QED BY <2>1, <2>2, <3>1 DEF TrueFor
  <2>3. CASE d \notin Expected(queue)
    <3>1. d \in rows' <=> d \in present'
      BY <1>1, <1>2, <1>5, <2>3 DEF TrueFor
    <3> QED BY <1>3, <2>1, <2>3, <3>1 DEF TrueFor
  <2> QED BY <2>2, <2>3
<1> QED BY <1>4, <1>5
\* The event that the agent dies of is of none of its disks.
LEMMA CopyKeeps ==
  ASSUME TypeOK, DisksOnly, NEW d \in Device, TrueFor(d), CopyBeforeNull
  PROVE  TrueFor(d)'
<1>1. /\ at = "event" /\ event.dev \in Virtual /\ at' = "dead"
      /\ UNCHANGED <<queue, event, present, rows, unheard, confused>>
  BY DEF CopyBeforeNull, Call, worldVars, rowVars
<1>2. Known(d)' <=> Known(d)
  BY <1>1 DEF Known
<1>3. ~Working(d)'
  BY <1>1 DEF Working
<1>4. CASE ~Working(d)
  BY <1>1, <1>2, <1>3, <1>4, Frame
<1>5. CASE Working(d)
  <2> SUFFICES ASSUME Known(d)' PROVE TrueFor(d)'
    BY DEF TrueFor
  <2>1. Expected(queue') = Expected(queue) /\ queue' = queue /\ present' = present
    BY <1>1 DEF Expected
  <2>2. d \notin rows' /\ d \notin present'
    BY <1>1, <1>5 DEF Working, IsDisk, DisksOnly, Disk
  <2>3. CASE d \in Expected(queue)
    <3>1. PICK i \in 1 .. Len(queue) :
            IsLast(queue, d, i) /\ (queue[i].action = "add" <=> d \in present)
      BY <1>2, <2>3 DEF TrueFor
    <3> QED BY <2>1, <2>3, <3>1 DEF TrueFor
  <2>4. CASE d \notin Expected(queue)
    BY <1>3, <2>1, <2>2, <2>4 DEF TrueFor
  <2> QED BY <2>3, <2>4
<1> QED BY <1>4, <1>5

-----------------------------------------------------------------------------
(* The inductive invariant *)

LEMMA NextKeeps ==
  ASSUME TypeOK, IInv, NEW d \in Device, [Next]_vars
  PROVE  TrueFor(d)'
<1>1. TrueFor(d) /\ DisksOnly /\ CallbacksAreOurs /\ CallsMatch
  BY IInvParts
<1>2. ASSUME LoadScan \/ LoadEnd PROVE TrueFor(d)'
  <2>1. /\ UNCHANGED <<queue, event, calling, present, rows, unheard, confused>>
        /\ at # "event" /\ at' # "event"
    BY <1>2 DEF LoadScan, LoadEnd, Register, udevVars, worldVars, rowVars
  <2> QED BY <1>1, <2>1, Frame DEF Known, Working
<1>3. ASSUME UNCHANGED vars PROVE TrueFor(d)'
  <2>1. UNCHANGED <<queue, event, calling, present, rows, unheard, confused, at>>
    BY <1>3 DEF vars, udevVars, worldVars, rowVars
  <2> QED BY <1>1, <2>1, Frame DEF Known, Working, IsDisk
<1> QED
  BY <1>1, <1>2, <1>3, PlugKeeps, RepartitionKeeps, UnplugOtherKeeps, UnplugVirtualKeeps,
     LoadDiskKeeps, StartEventKeeps, AddKeeps, RemoveKeeps, CopyKeeps, EndEventKeeps, Zenon
  DEF Next, Load, Process, World

LEMMA NextDisksOnly == TypeOK /\ DisksOnly /\ [Next]_vars => DisksOnly'
<1> SUFFICES ASSUME TypeOK, DisksOnly, [Next]_vars PROVE DisksOnly'
  OBVIOUS
<1>1. ASSUME UNCHANGED <<present, rows>> PROVE DisksOnly'
  BY <1>1 DEF DisksOnly
<1>2. ASSUME NEW d \in Device,
             Plug(d) \/ Unplug(d) \/ Repartition(d) \/ UnplugOther(d) \/ UnplugVirtual(d)
      PROVE  DisksOnly'
  BY <1>2 DEF Plug, Unplug, Repartition, UnplugOther, UnplugVirtual, rowVars, DisksOnly
<1>3. ASSUME NEW d \in Device, NEW final \in Final, nvme_add_disk(d, final), present' = present
      PROVE  DisksOnly'
  <2>1. rows' \in {rows, rows \cup {d}} /\ (d \notin present => rows' = rows)
    BY <1>3, Visit, TypeParts
  <2> QED BY <1>3, <2>1 DEF DisksOnly
<1>4. ASSUME NEW d \in Device, LoadDisk(d) PROVE DisksOnly'
  <2>1. CASE UNCHANGED rowVars
    BY <1>1, <1>4, <2>1 DEF LoadDisk, rowVars
  <2>2. CASE nvme_add_disk(d, AsRead)
    BY <1>3, <1>4, <2>2 DEF LoadDisk, Final
  <2> QED BY <1>4, <2>1, <2>2 DEF LoadDisk
<1>5. ASSUME cpqnvme_add_disk PROVE DisksOnly'
  <2>1. event.dev \in Device
    BY <1>5 DEF cpqnvme_add_disk, TypeOK, Event
  <2> QED BY <1>3, <1>5, <2>1 DEF cpqnvme_add_disk, Final
<1>6. ASSUME cpqnvme_remove_disk PROVE DisksOnly'
  BY <1>6 DEF cpqnvme_remove_disk, worldVars, DisksOnly
<1>7. ASSUME LoadScan \/ LoadEnd \/ StartEvent \/ CopyBeforeNull \/ EndEvent \/ UNCHANGED vars
      PROVE  UNCHANGED <<present, rows>>
  BY <1>7 DEF LoadScan, LoadEnd, StartEvent, CopyBeforeNull, EndEvent, vars, worldVars, rowVars
<1> QED
  BY <1>1, <1>2, <1>4, <1>5, <1>6, <1>7, Zenon DEF Next, Load, Process, World

LEMMA NextCallbacks == TypeOK /\ CallbacksAreOurs /\ CallsMatch /\ [Next]_vars
                       => CallbacksAreOurs' /\ CallsMatch'
<1> SUFFICES ASSUME TypeOK, CallbacksAreOurs, CallsMatch, [Next]_vars
             PROVE  CallbacksAreOurs' /\ CallsMatch'
  OBVIOUS
<1>1. ASSUME NEW calls \in SUBSET calling, calling' = calls, UNCHANGED <<udev_cb, event, at>>
      PROVE  CallbacksAreOurs' /\ CallsMatch'
  BY <1>1 DEF CallbacksAreOurs, CallsMatch, Matches
<1>2. ASSUME NEW d \in Device,
             Plug(d) \/ Unplug(d) \/ Repartition(d) \/ UnplugOther(d) \/ UnplugVirtual(d)
             \/ LoadDisk(d)
      PROVE  UNCHANGED <<calling, udev_cb, event, at>>
  BY <1>2 DEF Plug, Unplug, Repartition, UnplugOther, UnplugVirtual, LoadDisk, Announce, Missed,
              Deliver, udevVars
<1>3. ASSUME LoadScan PROVE CallbacksAreOurs' /\ CallsMatch'
  BY <1>3 DEF LoadScan, CallbacksAreOurs, CallsMatch, udevVars
<1>4. ASSUME LoadEnd PROVE CallbacksAreOurs' /\ CallsMatch'
  <2>1. \E opens \in BOOLEAN : Register(<<AddDisk, RemoveDisk>>, opens)
    BY <1>4 DEF LoadEnd
  <2>2. /\ \A i \in 1 .. Len(udev_cb) : udev_cb'[i] = udev_cb[i]
        /\ \A i \in 1 .. Len(udev_cb') : i > Len(udev_cb) => udev_cb'[i] \in {AddDisk, RemoveDisk}
        /\ Len(udev_cb) \in Nat
    BY <2>1, Registered DEF TypeOK, UdevTypeOK
  <2>3. CallbacksAreOurs'
    <3> SUFFICES ASSUME NEW i \in 1 .. Len(udev_cb')
                 PROVE  udev_cb'[i] \in {OtherCallback, AddDisk, RemoveDisk}
      BY DEF CallbacksAreOurs
    <3>1. CASE i <= Len(udev_cb)
      BY <2>2, <3>1 DEF CallbacksAreOurs
    <3>2. CASE i > Len(udev_cb)
      BY <2>2, <3>2
    <3> QED BY <2>2, <3>1, <3>2
  <2>4. calling' = {} /\ at' # "event"
    BY <1>4, <2>1 DEF LoadEnd, CallsMatch, Register
  <2> QED BY <2>3, <2>4 DEF CallsMatch
<1>5. ASSUME StartEvent PROVE CallbacksAreOurs' /\ CallsMatch'
  <2>1. UNCHANGED udev_cb /\ at' = "event"
        /\ \A i \in calling' : Matches(udev_cb'[i], event')
    BY <1>5 DEF StartEvent, Receive, Callees
  <2> QED BY <2>1 DEF CallbacksAreOurs, CallsMatch
<1>6. ASSUME cpqnvme_add_disk \/ cpqnvme_remove_disk
      PROVE  calling' \in SUBSET calling /\ UNCHANGED <<udev_cb, event, at>>
  BY <1>6 DEF cpqnvme_add_disk, cpqnvme_remove_disk, Call
<1>7. ASSUME EndEvent PROVE CallbacksAreOurs' /\ CallsMatch'
  BY <1>7 DEF EndEvent, Finish, CallbacksAreOurs, CallsMatch
<1>8. ASSUME UNCHANGED vars PROVE UNCHANGED <<calling, udev_cb, event, at>>
  BY <1>8 DEF vars, udevVars
<1>9. ASSUME CopyBeforeNull PROVE CallbacksAreOurs' /\ CallsMatch'
  <2>1. calling' \in SUBSET calling /\ UNCHANGED <<udev_cb, event>> /\ at' = "dead" /\ at = "event"
    BY <1>9 DEF CopyBeforeNull, Call
  <2> QED BY <2>1 DEF CallbacksAreOurs, CallsMatch, Matches
<1> QED
  BY <1>1, <1>2, <1>3, <1>4, <1>5, <1>6, <1>7, <1>8, <1>9, Zenon DEF Next, Load, Process, World

LEMMA InitInv == Init => IInv
<1> SUFFICES ASSUME Init PROVE IInv
  OBVIOUS
<1>1. /\ \A i \in 1 .. Len(udev_cb) : udev_cb[i] = OtherCallback
      /\ calling = {} /\ at = "idle" /\ queue = <<>> /\ rows = {} /\ unheard = present
      /\ present \subseteq Disk
  BY DEF Init, UdevInit
<1>2. Expected(queue) = {}
  BY <1>1 DEF Expected
<1>3. DisksOnly /\ CallbacksAreOurs /\ CallsMatch
  BY <1>1 DEF DisksOnly, CallbacksAreOurs, CallsMatch
<1>4. LastEventIsTrue /\ EventIsTrue /\ RowIsTrue
  BY <1>1, <1>2 DEF LastEventIsTrue, EventIsTrue, RowIsTrue, Known, Working
<1> QED BY <1>3, <1>4 DEF IInv

\* The inductive invariant: the last word on a disk, be it in the socket, in the
\* event that is processed or in the row, is true.
THEOREM Invariance == Spec => []IInv
<1>1. TypeOK /\ IInv /\ [Next]_vars => IInv'
  <2> SUFFICES ASSUME TypeOK, IInv, [Next]_vars PROVE IInv'
    OBVIOUS
  <2>1. DisksOnly' /\ CallbacksAreOurs' /\ CallsMatch'
    BY NextDisksOnly, NextCallbacks, IInvParts
  <2>2. \A d \in Device : TrueFor(d)'
    BY NextKeeps
  <2>3. Expected(queue)' \subseteq Device
    BY DEF Expected
  <2> QED
    BY <2>1, <2>2, <2>3, Zenon DEF IInv, LastEventIsTrue, EventIsTrue, RowIsTrue, TrueFor
<1> QED BY <1>1, InitInv, TypeCorrect, PTL DEF Spec

\* Once the events are processed the rows are the disks that the agent could
\* have heard of, however loads, events and the disks interleave.
THEOREM RowsAlwaysFollowDisks == Spec => []RowsFollowDisks
<1>1. IInv => RowsFollowDisks
  <2> SUFFICES ASSUME IInv, Settled, NEW d \in Device, Known(d)
               PROVE  d \in rows <=> d \in present
    BY DEF RowsFollowDisks, Known
  <2>1. Expected(queue) = {} /\ ~Working(d)
    BY DEF Settled, Expected, Working
  <2> QED BY <2>1 DEF IInv, RowIsTrue
<1> QED BY <1>1, Invariance, PTL
-----------------------------------------------------------------------------
(* NvmeTable implements FollowingTable *)

\* The disks that the table need not be right about, but for the event in work.
Unsettled(d) == d \in Expected(queue) \/ ~Known(d)

StaleIsParts == \A d : d \in Stale <=> d \in Device /\ (Unsettled(d) \/ Working(d))
RightWhereNotStale == \A d \in Device \ Stale : d \in rows <=> d \in present

LEMMA StaleParts == TypeOK => StaleIsParts
<1> SUFFICES ASSUME TypeOK PROVE StaleIsParts
  OBVIOUS
<1>1. /\ Expected(queue) \subseteq Device
      /\ unheard \in SUBSET Device /\ confused \in SUBSET Device
  BY DEF Expected, TypeOK
<1> QED BY <1>1 DEF StaleIsParts, Stale, Unsettled, Known, Working

\* Outside of them the table is right: the invariant, in the abstract terms.
LEMMA RightElsewhere == TypeOK /\ IInv => RightWhereNotStale
<1> SUFFICES ASSUME TypeOK, IInv, NEW d \in Device, d \notin Stale
             PROVE  d \in rows <=> d \in present
  BY DEF RightWhereNotStale
<1>1. d \notin Expected(queue) /\ Known(d) /\ ~Working(d)
  BY StaleParts DEF StaleIsParts, Unsettled
<1> QED BY <1>1 DEF IInv, RowIsTrue

LEMMA ExpectedGrows ==
  ASSUME UdevTypeOK, NEW ev \in Event, Deliver(ev), NEW d \in Device
  PROVE  d \in Expected(queue') <=> d \in Expected(queue) \/ IsDisk(ev, d)
<1>1. /\ Len(queue') = Len(queue) + 1 /\ Len(queue) \in Nat
      /\ \A i \in 1 .. Len(queue) : queue'[i] = queue[i]
      /\ queue'[Len(queue) + 1] = ev
  BY Delivered DEF UdevTypeOK
<1>2. \A i : i \in 1 .. Len(queue') <=> i \in 1 .. Len(queue) \/ i = Len(queue) + 1
  BY <1>1
<1> QED BY <1>1, <1>2 DEF Expected

\* What a step may do to the sets of disks, by the disk that it is about.
StaleAsBefore == \A d \in Device : d \in Stale' <=> d \in Stale

LEMMA NoNews ==
  ASSUME StaleIsParts, StaleIsParts', UNCHANGED <<present, rows>>, StaleAsBefore
  PROVE  [Table!Next]_(Table!vars)
<1>1. Stale' = Stale
  <2>1. \A d : d \in Stale' <=> d \in Stale
    BY DEF StaleIsParts, StaleAsBefore
  <2> HIDE DEF Stale
  <2> QED BY <2>1
<1> QED BY <1>1 DEF Table!vars

LEMMA AnnounceChanges ==
  ASSUME TypeOK, StaleIsParts, StaleIsParts', NEW d \in Device,
         NEW action \in {"add", "remove"}, Announce(action, d),
         present' = IF d \in present THEN present \ {d} ELSE present \cup {d},
         UNCHANGED <<at, rows, confused>>
  PROVE  Table!Change(d)
<1>1. \A e \in Device : e \in Stale' <=> e \in Stale \/ e = d
  <2>1. CASE Deliver(BlockEvent(action, "disk", d)) /\ unheard' = unheard \ {d}
    <3>1. \A e \in Device : IsDisk(BlockEvent(action, "disk", d), e) <=> e = d
      BY DEF IsDisk, BlockEvent
    <3>2. \A e \in Device : e \in Expected(queue') <=> e \in Expected(queue) \/ e = d
      BY <2>1, <3>1, BlockEventType, ExpectedGrows DEF TypeOK
    <3>3. \A e \in Device : Working(e)' <=> Working(e)
      BY <2>1 DEF Deliver, Working, IsDisk
    <3>4. \A e \in Device : Unsettled(e)' <=> Unsettled(e) \/ e = d
      BY <2>1, <3>2 DEF Unsettled, Known
    <3> QED BY <3>3, <3>4 DEF StaleIsParts
  <2>2. CASE Missed(d)
    <3>1. UNCHANGED <<queue, event>> /\ unheard' = unheard \cup {d}
      BY <2>2 DEF Missed, udevVars
    <3>2. \A e \in Device : Working(e)' <=> Working(e)
      BY <3>1 DEF Working, IsDisk
    <3>3. \A e \in Device : Unsettled(e)' <=> Unsettled(e) \/ e = d
      BY <3>1 DEF Unsettled, Known, Expected, IsDisk
    <3> QED BY <3>2, <3>3 DEF StaleIsParts
  <2> QED BY <2>1, <2>2 DEF Announce
<1>2. Stale' = Stale \cup {d}
  <2>1. \A e : e \in Stale' <=> e \in Stale \/ e = d
    BY <1>1 DEF StaleIsParts
  <2> HIDE DEF Stale
  <2> QED BY <2>1
<1> QED BY <1>2 DEF Table!Change

LEMMA WorksOn ==
  ASSUME StaleIsParts, StaleIsParts', NEW d \in Device, d \in Stale,
         UNCHANGED present, rows' \in {rows, rows \cup {d}, rows \ {d}},
         \A e \in Device : e # d => (e \in Stale' <=> e \in Stale),
         d \notin Stale' => (d \in rows' <=> d \in present')
  PROVE  Table!Work(d)
<1>1. Stale' \in {Stale, Stale \ {d}}
  <2>1. \A e : e # d => (e \in Stale' <=> e \in Stale)
    BY DEF StaleIsParts
  <2> HIDE DEF Stale
  <2>2. CASE d \in Stale'
    <3>1. Stale' = Stale
      BY <2>1, <2>2
    <3> QED BY <3>1
  <2>3. CASE d \notin Stale'
    <3>1. Stale' = Stale \ {d}
      BY <2>1, <2>3
    <3> QED BY <3>1
  <2> QED BY <2>2, <2>3
<1>2. rows' \in {rows \cup {d}, rows \ {d}}
  <2>1. rows = rows \cup {d} \/ rows = rows \ {d}
    OBVIOUS
  <2> QED BY <2>1
<1>3. d \notin Stale' => Table!Right(d)'
  BY DEF Table!Right
<1> QED BY <1>1, <1>2, <1>3 DEF Table!Work

LEMMA OtherImplements ==
  ASSUME TypeOK, TypeOK', StaleIsParts, StaleIsParts', NEW d \in Device,
         Repartition(d) \/ UnplugOther(d) \/ UnplugVirtual(d)
  PROVE  [Table!Next]_(Table!vars)
<1>1. CASE Repartition(d)
  <2>1. /\ Deliver(BlockEvent("remove", "partition", d))
        /\ UNCHANGED <<present, rows, at, unheard, confused, event>>
    BY <1>1 DEF Repartition, Deliver, rowVars
  <2>2. \A e \in Device : ~IsDisk(BlockEvent("remove", "partition", d), e)
    BY DEF IsDisk, BlockEvent
  <2>3. \A e \in Device : e \in Expected(queue') <=> e \in Expected(queue)
    BY <2>1, <2>2, BlockEventType, ExpectedGrows DEF TypeOK
  <2>4. StaleAsBefore
    BY <2>1, <2>3 DEF StaleAsBefore, StaleIsParts, Unsettled, Known, Working, IsDisk
  <2> QED BY <2>1, <2>4, NoNews
<1>2. CASE UnplugOther(d) \/ UnplugVirtual(d)
  <2>1. /\ Deliver(BlockEvent("remove", "disk", d))
        /\ confused' \in {confused, confused \cup {d}}
        /\ UNCHANGED <<present, rows, at, unheard, event>>
    BY <1>2 DEF UnplugOther, UnplugVirtual, Deliver, rowVars
  <2>2. \A e \in Device : IsDisk(BlockEvent("remove", "disk", d), e) <=> e = d
    BY DEF IsDisk, BlockEvent
  <2>3. \A e \in Device : e \in Expected(queue') <=> e \in Expected(queue) \/ e = d
    BY <2>1, <2>2, BlockEventType, ExpectedGrows DEF TypeOK
  <2>4. \A e : e \in Stale' <=> e \in Stale \/ e = d
    BY <2>1, <2>3 DEF StaleIsParts, Unsettled, Known, Working, IsDisk
  <2>5. Stale' = Stale \cup {d}
    <3> HIDE DEF Stale
    <3> QED BY <2>4
  <2> QED BY <2>1, <2>5 DEF Table!Next, Table!Distract
<1> QED BY <1>1, <1>2

\* A load touches a row only of a disk that the table may be wrong about.
LEMMA LoadDiskImplements ==
  ASSUME TypeOK, StaleIsParts, StaleIsParts', RightWhereNotStale,
         NEW d \in Device, LoadDisk(d)
  PROVE  [Table!Next]_(Table!vars)
<1>1. /\ UNCHANGED <<queue, event, present, at, confused>>
      /\ at = "load"
      /\ d \in present => unheard' = IF d \notin rows' THEN unheard \cup {d}
                                     ELSE IF d \in Expected(queue) THEN unheard
                                     ELSE unheard \ {d}
      /\ d \notin present => unheard' = unheard
  BY DEF LoadDisk, udevVars
<1>2. rows' \in {rows, rows \cup {d}} /\ (d \notin present => rows' = rows)
  BY Visit, TypeParts DEF LoadDisk, rowVars, Final
<1>3. \A e \in Device : ~Working(e) /\ ~Working(e)'
  BY <1>1 DEF Working
<1>4. \A e \in Device : e \in Expected(queue') <=> e \in Expected(queue)
  BY <1>1 DEF Expected, IsDisk
<1>5. \A e \in Device : e # d => (e \in Stale' <=> e \in Stale)
  BY <1>1, <1>3, <1>4 DEF StaleIsParts, Unsettled, Known
<1>6. CASE d \in present /\ d \in Stale
  <2>1. d \notin Stale' => d \in rows'
    BY <1>1, <1>6 DEF StaleIsParts, Unsettled, Known
  <2>2. Table!Work(d)
    BY <1>1, <1>2, <1>5, <1>6, <2>1, WorksOn
  <2> QED BY <2>2 DEF Table!Next
<1>7. CASE d \notin present \/ d \notin Stale
  <2>1. rows' = rows
    BY <1>2, <1>7 DEF RightWhereNotStale
  <2>2. d \in Stale' <=> d \in Stale
    BY <1>1, <1>3, <1>4, <1>7, <2>1
    DEF StaleIsParts, Unsettled, Known, RightWhereNotStale
  <2> QED BY <1>1, <1>5, <2>1, <2>2, NoNews DEF StaleAsBefore
<1> QED BY <1>6, <1>7

LEMMA StartEventImplements ==
  ASSUME TypeOK, StaleIsParts, StaleIsParts', StartEvent
  PROVE  [Table!Next]_(Table!vars)
<1>1. /\ at = "idle" /\ at' = "event" /\ Receive
      /\ UNCHANGED <<present, rows, confused>>
      /\ \A e \in Device : e \in unheard' => e \in unheard \/ IsDisk(event', e)
      /\ \A e \in Device : e \in unheard => e \in unheard'
  BY DEF StartEvent, worldVars, rowVars
<1>2. \A e \in Device : e \in Expected(queue) <=> e \in Expected(queue') \/ IsDisk(event', e)
  BY <1>1, TakeFirst DEF TypeOK
<1>3. StaleAsBefore
  BY <1>1, <1>2 DEF StaleAsBefore, StaleIsParts, Unsettled, Known, Working
<1> QED BY <1>1, <1>3, NoNews

LEMMA CallbackImplements ==
  ASSUME TypeOK, StaleIsParts, StaleIsParts', CallbacksAreOurs, CallsMatch,
         cpqnvme_add_disk \/ cpqnvme_remove_disk
  PROVE  [Table!Next]_(Table!vars)
<1> DEFINE d == event.dev
<1>1. /\ at = "event" /\ UNCHANGED <<queue, event, present, at, confused>>
      /\ \E func \in {"add_disk", "remove_disk"} : Call(func)
      /\ unheard' \in {unheard, unheard \cup {d}}
  BY DEF cpqnvme_add_disk, cpqnvme_remove_disk, Call, worldVars
<1>2. d \in Device /\ Working(d)
  BY <1>1, CalledFor
<1>3. rows' \in {rows, rows \cup {d}, rows \ {d}}
  <2>1. CASE cpqnvme_add_disk
    BY <1>2, <2>1, Visit, TypeParts DEF cpqnvme_add_disk, Final
  <2>2. CASE cpqnvme_remove_disk
    BY <2>2 DEF cpqnvme_remove_disk
  <2> QED BY <2>1, <2>2
<1> HIDE DEF d
<1>4. \A e \in Device : Working(e)' <=> Working(e)
  BY <1>1 DEF Working, IsDisk
<1>5. \A e \in Device : e # d => (Unsettled(e)' <=> Unsettled(e))
  BY <1>1 DEF Unsettled, Known, Expected, IsDisk
<1>6. d \in Stale /\ d \in Stale' /\ \A e \in Device : e # d => (e \in Stale' <=> e \in Stale)
  BY <1>2, <1>4, <1>5 DEF StaleIsParts
<1>7. Table!Work(d)
  BY <1>1, <1>2, <1>3, <1>6, WorksOn
<1> QED BY <1>2, <1>7 DEF Table!Next

\* The event in work is done with its disk, whose row is right by now.
LEMMA EndEventImplements ==
  ASSUME TypeOK, StaleIsParts, StaleIsParts', RightWhereNotStale', EndEvent \/ CopyBeforeNull
  PROVE  [Table!Next]_(Table!vars)
<1>1. /\ at = "event" /\ at' # "event"
      /\ UNCHANGED <<queue, present, rows, unheard, confused>>
  BY DEF EndEvent, CopyBeforeNull, Call, Finish, worldVars, rowVars
<1>2. /\ \A e \in Device : Unsettled(e)' <=> Unsettled(e)
      /\ \A e \in Device : ~Working(e)'
      /\ \A e \in Device : Working(e) <=> IsDisk(event, e)
  BY <1>1 DEF Unsettled, Known, Expected, IsDisk, Working
<1>3. CASE StaleAsBefore
  BY <1>1, <1>3, NoNews
<1>4. CASE ~StaleAsBefore
  <2>1. PICK d \in Device : ~(d \in Stale' <=> d \in Stale)
    BY <1>4 DEF StaleAsBefore
  <2>2. d \in Stale /\ d \notin Stale' /\ Working(d)
    BY <1>2, <2>1 DEF StaleIsParts
  <2>3. \A e \in Device : e # d => (e \in Stale' <=> e \in Stale)
    BY <1>2, <2>2 DEF StaleIsParts, IsDisk
  <2>4. d \in rows' <=> d \in present'
    BY <2>2 DEF RightWhereNotStale
  <2>5. Table!Work(d)
    BY <1>1, <2>2, <2>3, <2>4, WorksOn
  <2> QED BY <2>5 DEF Table!Next
<1> QED BY <1>3, <1>4

LEMMA StepImplements ==
  ASSUME TypeOK, TypeOK', IInv, StaleIsParts, StaleIsParts',
         RightWhereNotStale, RightWhereNotStale', [Next]_vars
  PROVE  [Table!Next]_(Table!vars)
<1>1. CallbacksAreOurs /\ CallsMatch
  BY DEF IInv
<1>2. ASSUME NEW d \in Device, Plug(d) \/ Unplug(d) PROVE [Table!Next]_(Table!vars)
  <2>1. /\ \E action \in {"add", "remove"} : Announce(action, d)
        /\ present' = IF d \in present THEN present \ {d} ELSE present \cup {d}
        /\ UNCHANGED <<at, rows, confused>>
    BY <1>2 DEF Plug, Unplug, rowVars
  <2>2. Table!Change(d)
    BY <2>1, AnnounceChanges
  <2> QED BY <2>2 DEF Table!Next
<1>3. ASSUME LoadScan \/ LoadEnd \/ UNCHANGED vars PROVE [Table!Next]_(Table!vars)
  <2>1. UNCHANGED <<present, rows, queue, event, unheard, confused>>
    BY <1>3 DEF LoadScan, LoadEnd, Register, vars, udevVars, worldVars, rowVars
  <2>2. at' = at \/ (at # "event" /\ at' # "event")
    BY <1>3 DEF LoadScan, LoadEnd, vars
  <2>3. \A e \in Device : (Unsettled(e)' <=> Unsettled(e)) /\ (Working(e)' <=> Working(e))
    BY <2>1, <2>2 DEF Unsettled, Known, Expected, IsDisk, Working
  <2> QED BY <2>1, <2>3, NoNews DEF StaleIsParts, StaleAsBefore
<1> QED
  BY <1>1, <1>2, <1>3, OtherImplements, LoadDiskImplements, StartEventImplements,
     CallbackImplements, EndEventImplements, Zenon
  DEF Next, Load, Process, World

\* Loads and callbacks, interleaved with each other and with the disks, implement
\* the abstract table, for any number of disks, callbacks, events and faults:
\* the row of a disk is touched only while the table need not be right about
\* it, and a disk leaves that state with the right row.
THEOREM ImplementsFollowingTable == Spec => FollowsDevices
<1>1. Init => Table!Init
  <2> SUFFICES ASSUME Init PROVE Table!Init
    OBVIOUS
  <2>1. TypeOK /\ IInv
    BY InitType, InitInv
  <2>2. StaleIsParts /\ RightWhereNotStale
    BY <2>1, StaleParts, RightElsewhere
  <2>3. Stale \in SUBSET Device
    <3>1. \A d : d \in Stale => d \in Device
      BY <2>2 DEF StaleIsParts
    <3> HIDE DEF Stale
    <3> QED BY <3>1
  <2>4. \A d \in Device \ Stale : Table!Right(d)
    BY <2>2 DEF RightWhereNotStale, Table!Right
  <2>5. present \in SUBSET Device
    BY DEF Init, Disk
  <2> QED BY <2>3, <2>4, <2>5 DEF Init, Table!Init
<1>2. TypeOK /\ IInv /\ StaleIsParts /\ RightWhereNotStale
      /\ TypeOK' /\ StaleIsParts' /\ RightWhereNotStale' /\ [Next]_vars
      => [Table!Next]_(Table!vars)
  BY StepImplements
<1> QED
  BY <1>1, <1>2, TypeCorrect, Invariance, StaleParts, RightElsewhere, PTL
  DEF Spec, FollowsDevices, Table!Spec
=============================================================================
