--------------------------- MODULE FcaTableProofs ----------------------------
(***************************************************************************)
(* The Fibre Channel table: types, the health against the rows, the traps  *)
(* against the rows, and the rows against the ports.                       *)
(***************************************************************************)
EXTENDS FcaTable, TLAPS

-----------------------------------------------------------------------------
(* What is made of the state of a port *)

LEMMA UpdateStatus ==
  ASSUME NEW value, NEW s
  PROVE  LET new == cpqfca_update_status(value, s) IN
         /\ new \in Status
         /\ value = "Online" => new = FC_HBA_STATUS_OK
         /\ value # "Online" => new # FC_HBA_STATUS_OK
         /\ value # "Online" /\ s # FC_HBA_STATUS_OK => new = FC_HBA_STATUS_OTHER
         /\ value \in {"Linkdown", "Bypassed", "Error"} /\ s = FC_HBA_STATUS_OK
              => new # FC_HBA_STATUS_OTHER
BY DEF cpqfca_update_status, Status, FC_HBA_STATUS_OTHER, FC_HBA_STATUS_OK,
       FC_HBA_STATUS_NOTCONNECTED, FC_HBA_STATUS_LOOPDEGRADED, FC_HBA_STATUS_FAILED

LEMMA UpdateCondition ==
  ASSUME NEW s
  PROVE  cpqfca_update_condition(s) \in Condition
BY DEF cpqfca_update_condition, Condition, FC_HBA_CONDITION_OTHER, FC_HBA_CONDITION_OK,
       FC_HBA_CONDITION_DEGRADED, FC_HBA_CONDITION_FAILED

LEMMA HostStatusType ==
  ASSUME TypeOK, NEW h \in Host
  PROVE  HostStatus(h) \in Status
BY DEF TypeOK, HostStatus, Status, FC_HBA_STATUS_OTHER, FC_HBA_STATUS_OK,
       FC_HBA_STATUS_FAILED, FC_HBA_STATUS_NOTCONNECTED

-----------------------------------------------------------------------------
(* A visit of one host *)

Shown == FC_HBA_CONDITION_OK .. FC_HBA_CONDITION_FAILED

RowTypeOK ==
  /\ status \in [Host -> Status \cup {0}]
  /\ FcaCondition \in Shown
  /\ health = FcaCondition
  /\ cond \in Condition
  /\ told \in [Host -> Status]

LEMMA VisitedRow ==
  ASSUME RowTypeOK, NEW h \in Host, NEW s \in Status, Visited(h, s)
  PROVE  /\ RowTypeOK'
         /\ status' = [status EXCEPT ![h] = s]
         /\ HealthCoversRows => HealthCoversRows'
         /\ TrapsFollowStatus => TrapsFollowStatus'
<1> DEFINE c == cpqfca_update_condition(s)
           old == IF status[h] = 0 THEN FC_HBA_STATUS_OTHER ELSE status[h]
<1>1. /\ status' = [status EXCEPT ![h] = s]
      /\ told' = IF TrapDue(old, s) THEN [told EXCEPT ![h] = s] ELSE told
      /\ FcaCondition' = Worst(c)
      /\ health' = FcaCondition'
      /\ cond' \in {FcaCondition', cond}
  BY DEF Visited
<1>2. c \in Condition
  BY UpdateCondition
<1> HIDE DEF c, old
<1>3. FcaCondition' \in Shown /\ FcaCondition <= FcaCondition' /\ c <= FcaCondition'
  BY <1>1, <1>2 DEF Worst, RowTypeOK, Shown, Condition, FC_HBA_CONDITION_OTHER,
                    FC_HBA_CONDITION_OK, FC_HBA_CONDITION_FAILED
<1>4. RowTypeOK'
  <2>1. status' \in [Host -> Status \cup {0}] /\ told' \in [Host -> Status]
    BY <1>1 DEF RowTypeOK
  <2>2. Shown \subseteq Condition
    BY DEF Shown, Condition, FC_HBA_CONDITION_OTHER, FC_HBA_CONDITION_OK,
           FC_HBA_CONDITION_FAILED
  <2> QED BY <1>1, <1>3, <2>1, <2>2 DEF RowTypeOK
<1>5. ASSUME HealthCoversRows PROVE HealthCoversRows'
  <2> SUFFICES ASSUME NEW g \in Host, status'[g] # 0
               PROVE  cpqfca_update_condition(status'[g]) <= health'
    BY DEF HealthCoversRows
  <2>1. CASE g = h
    BY <1>1, <1>3, <2>1 DEF RowTypeOK, c
  <2>2. CASE g # h
    <3>1. status'[g] = status[g]
      BY <1>1, <2>2 DEF RowTypeOK
    <3>2. cpqfca_update_condition(status[g]) <= FcaCondition
      BY <1>5, <3>1 DEF HealthCoversRows, RowTypeOK
    <3>3. /\ cpqfca_update_condition(status[g]) \in Int
          /\ FcaCondition \in Int /\ FcaCondition' \in Int
      BY <1>3, UpdateCondition
      DEF RowTypeOK, Shown, Condition, FC_HBA_CONDITION_OTHER, FC_HBA_CONDITION_OK,
          FC_HBA_CONDITION_FAILED
    <3> QED BY <1>1, <1>3, <3>1, <3>2, <3>3
  <2> QED BY <2>1, <2>2
<1>6. ASSUME TrapsFollowStatus PROVE TrapsFollowStatus'
  <2> SUFFICES ASSUME NEW g \in Host
               PROVE  told'[g] \in {FC_HBA_STATUS_OTHER, status'[g]}
    BY DEF TrapsFollowStatus
  <2>1. CASE g # h
    BY <1>1, <1>6, <2>1 DEF RowTypeOK, TrapsFollowStatus
  <2>2. CASE g = h /\ TrapDue(old, s)
    BY <1>1, <2>2 DEF RowTypeOK
  \* No trap: the status is what it was, or there was none that was told.
  <2>3. CASE g = h /\ ~TrapDue(old, s)
    <3>1. told'[g] = told[g] /\ told[g] \in {FC_HBA_STATUS_OTHER, status[g]}
      BY <1>1, <1>6, <2>3 DEF TrapsFollowStatus
    <3>2. told[g] # 0
      BY DEF RowTypeOK, Status, FC_HBA_STATUS_OTHER, FC_HBA_STATUS_NOTCONNECTED
    <3>3. status'[g] = s /\ (s = old \/ old = FC_HBA_STATUS_OTHER)
      BY <1>1, <2>3 DEF TrapDue, RowTypeOK
    <3> QED BY <2>3, <3>1, <3>2, <3>3 DEF old
  <2> QED BY <2>1, <2>2, <2>3
<1> QED BY <1>1, <1>4, <1>5, <1>6

-----------------------------------------------------------------------------
(* Types *)

OthersTypeOK ==
  /\ port \in [Host -> Port \cup {"absent", "gone"}]
  /\ scsi \in [Host -> {"running", "other", "unreadable"}]
  /\ changes \in 0 .. MaxChanges
  /\ pending \in SUBSET Host
  /\ at \in {"init", "load", "idle"}
  /\ todo \in SUBSET Host
  /\ missed \in SUBSET Host

LEMMA TypeParts == TypeOK <=> RowTypeOK /\ OthersTypeOK
BY DEF TypeOK, RowTypeOK, OthersTypeOK, Shown

\* The status that a load makes of a host, and that a callback makes.
LoadedStatus(h) ==
  IF h \in Present /\ port[h] # "unreadable"
  THEN cpqfca_update_status(port[h], HostStatus(h)) ELSE HostStatus(h)

LEMMA LoadedStatusType ==
  ASSUME TypeOK, NEW h \in Host
  PROVE  LoadedStatus(h) \in Status
BY UpdateStatus, HostStatusType DEF LoadedStatus

LEMMA StatusAfterEventType ==
  ASSUME TypeOK, NEW h \in Host, status[h] # 0
  PROVE  StatusAfterEvent(h) \in Status
BY UpdateStatus DEF StatusAfterEvent, TypeOK

\* What the steps do to the rows: nothing, one visit, or the entry of the
\* array of statuses alone.
OneVisit ==
  \/ \E h \in Host, s \in Status : Visited(h, s)
  \/ /\ UNCHANGED <<status, FcaCondition, health, told>>
     /\ cond' \in {cond, FcaCondition, FC_HBA_CONDITION_OK}

LEMMA StepIsVisit ==
  ASSUME TypeOK, [Next]_vars
  PROVE  OneVisit
<1>1. ASSUME UNCHANGED rowVars PROVE OneVisit
  BY <1>1 DEF rowVars, OneVisit
<1>2. ASSUME NEW h \in Host, PortChanges(h) \/ HostChanges(h) \/ PlugOrUnplug(h)
      PROVE  UNCHANGED rowVars
  BY <1>2 DEF PortChanges, HostChanges, PlugOrUnplug, Change
<1>3. ASSUME LoadStart PROVE OneVisit
  BY <1>3 DEF LoadStart, OneVisit, rowVars
<1>4. ASSUME LoadEnd PROVE OneVisit
  BY <1>4 DEF LoadEnd, OneVisit
<1>5. ASSUME NEW h \in Host, LoadHost(h) PROVE OneVisit
  BY <1>5, LoadedStatusType DEF LoadHost, LoadedStatus, OneVisit
<1>6. ASSUME NEW h \in Host, Update(h) PROVE OneVisit
  BY <1>1, <1>6, StatusAfterEventType DEF Update, OneVisit
<1>7. ASSUME UNCHANGED vars PROVE UNCHANGED rowVars
  BY <1>7 DEF vars, rowVars
<1> QED BY <1>1, <1>2, <1>3, <1>4, <1>5, <1>6, <1>7, Zenon DEF Next

LEMMA RowsKeep ==
  ASSUME RowTypeOK, OneVisit
  PROVE  /\ RowTypeOK'
         /\ HealthCoversRows => HealthCoversRows'
         /\ TrapsFollowStatus => TrapsFollowStatus'
<1>1. CASE \E h \in Host, s \in Status : Visited(h, s)
  BY <1>1, VisitedRow
<1>2. CASE /\ UNCHANGED <<status, FcaCondition, health, told>>
           /\ cond' \in {cond, FcaCondition, FC_HBA_CONDITION_OK}
  <2>1. RowTypeOK'
    BY <1>2 DEF RowTypeOK, Shown, Condition, FC_HBA_CONDITION_OTHER, FC_HBA_CONDITION_OK,
                FC_HBA_CONDITION_FAILED
  <2> QED BY <1>2, <2>1 DEF HealthCoversRows, TrapsFollowStatus
<1> QED BY <1>1, <1>2 DEF OneVisit

LEMMA InitType == Init => TypeOK
<1> SUFFICES ASSUME Init PROVE RowTypeOK /\ OthersTypeOK
  BY TypeParts
<1>1. RowTypeOK
  BY DEF Init, RowTypeOK, Shown, Condition, Status, FC_HBA_CONDITION_OTHER,
         FC_HBA_CONDITION_OK, FC_HBA_CONDITION_FAILED, FC_HBA_STATUS_OTHER,
         FC_HBA_STATUS_NOTCONNECTED
<1>2. OthersTypeOK
  BY FcaAssumption DEF Init, OthersTypeOK, Present
<1> QED BY <1>1, <1>2

LEMMA NextType == TypeOK /\ [Next]_vars => TypeOK'
<1> SUFFICES ASSUME TypeOK, [Next]_vars PROVE RowTypeOK' /\ OthersTypeOK'
  BY TypeParts DEF TypeOK, RowTypeOK, OthersTypeOK, Shown
<1>1. RowTypeOK'
  BY StepIsVisit, RowsKeep, TypeParts
<1>2. OthersTypeOK
  BY TypeParts
<1>3. ASSUME NEW h \in Host, PortChanges(h) \/ HostChanges(h) \/ PlugOrUnplug(h)
      PROVE  OthersTypeOK'
  <2>1. changes' \in 0 .. MaxChanges /\ UNCHANGED <<at, todo>>
    BY <1>2, <1>3, FcaAssumption
    DEF PortChanges, HostChanges, PlugOrUnplug, Change, OthersTypeOK
  <2>2. /\ port' \in [Host -> Port \cup {"absent", "gone"}]
        /\ scsi' \in [Host -> {"running", "other", "unreadable"}]
        /\ pending' \in SUBSET Host /\ missed' \in SUBSET Host
    BY <1>2, <1>3 DEF PortChanges, HostChanges, PlugOrUnplug, OthersTypeOK
  <2> QED BY <1>2, <2>1, <2>2 DEF OthersTypeOK
<1>4. ASSUME LoadStart \/ LoadEnd PROVE OthersTypeOK'
  BY <1>2, <1>4 DEF LoadStart, LoadEnd, OthersTypeOK, worldVars, Present
<1>5. ASSUME NEW h \in Host, LoadHost(h) \/ Update(h) PROVE OthersTypeOK'
  BY <1>2, <1>5 DEF LoadHost, Update, OthersTypeOK, worldVars
<1>6. ASSUME UNCHANGED vars PROVE OthersTypeOK'
  BY <1>2, <1>6 DEF vars, OthersTypeOK, worldVars
<1> QED BY <1>1, <1>3, <1>4, <1>5, <1>6, Zenon DEF Next

\* Every variable keeps its type, for any hosts, states of their ports and
\* changes; the two copies of the condition (FcaCondition, health) agree.
THEOREM TypeCorrect == Spec => []TypeOK
BY InitType, NextType, PTL DEF Spec

-----------------------------------------------------------------------------
(* Health and traps *)

\* The health that the host MIB shows is never better than any row, for any
\* number of hosts (FcaCondition).
THEOREM HealthAlwaysCoversRows == Spec => []HealthCoversRows
<1>1. Init => HealthCoversRows
  BY DEF Init, HealthCoversRows
<1>2. TypeOK /\ HealthCoversRows /\ [Next]_vars => HealthCoversRows'
  BY StepIsVisit, RowsKeep, TypeParts
<1> QED BY <1>1, <1>2, TypeCorrect, PTL DEF Spec

\* The status that the last trap for a host told is the one the host has, if it
\* is not OTHER (SendFcaTrap, oldStatus).
THEOREM TrapsAlwaysFollowStatus == Spec => []TrapsFollowStatus
<1>1. Init => TrapsFollowStatus
  BY DEF Init, TrapsFollowStatus
<1>2. TypeOK /\ TrapsFollowStatus /\ [Next]_vars => TrapsFollowStatus'
  BY StepIsVisit, RowsKeep, TypeParts
<1> QED BY <1>1, <1>2, TypeCorrect, PTL DEF Spec

-----------------------------------------------------------------------------
(* The rows and the ports *)

\* What PortIsShown says of one host.
IsShown(h) ==
  h \in Present /\ h \notin pending \cup missed /\ status[h] # 0 /\ h \notin todo =>
    /\ port[h] = "Online" => status[h] = FC_HBA_STATUS_OK
    /\ port[h] \in {"Linkdown", "Bypassed", "Error"} => status[h] # FC_HBA_STATUS_OK

IsUnknown(h) == port[h] = "absent" => status[h] = 0 /\ h \notin todo

LEMMA IInvParts == IInv <=> \A h \in Host : IsShown(h) /\ IsUnknown(h)
<1>1. \A h : h \in Present => h \in Host
  BY DEF Present
<1>2. PortIsShown <=> \A h \in Host : IsShown(h)
  BY <1>1, Zenon DEF PortIsShown, IsShown
<1> QED BY <1>2 DEF IInv, AbsentIsUnknown, IsUnknown

LEMMA InitInv == Init => IInv
BY IInvParts, FcaAssumption DEF Init, IsShown, IsUnknown, Present

\* A step that changes neither the port nor the row of a host, and does not
\* take it off the lists of those that need not be right.
LEMMA Frame ==
  ASSUME NEW h \in Host, IsShown(h), IsUnknown(h),
         port'[h] = port[h], status'[h] = status[h],
         h \in pending \cup missed => h \in pending' \cup missed',
         h \in todo <=> h \in todo'
  PROVE  IsShown(h)' /\ IsUnknown(h)'
BY DEF IsShown, IsUnknown, Present

\* A load reads the port together with its host.
LEMMA LoadHostShows ==
  ASSUME TypeOK, NEW h \in Host, IsUnknown(h), LoadHost(h)
  PROVE  IsShown(h)' /\ IsUnknown(h)'
<1>1. /\ h \in todo /\ UNCHANGED port
      /\ Visited(h, LoadedStatus(h))
  BY DEF LoadHost, worldVars, LoadedStatus
<1>2. status'[h] = LoadedStatus(h)
  BY <1>1 DEF Visited, TypeOK
<1>3. port[h] # "absent"
  BY <1>1 DEF IsUnknown
<1>4. ASSUME h \in Present, port[h] # "unreadable" 
      PROVE  /\ port[h] = "Online" => LoadedStatus(h) = FC_HBA_STATUS_OK
             /\ port[h] # "Online" => LoadedStatus(h) # FC_HBA_STATUS_OK
  BY <1>4, UpdateStatus DEF LoadedStatus
<1> QED BY <1>1, <1>2, <1>3, <1>4 DEF IsShown, IsUnknown, Present

\* A callback keeps a status that it cannot tell, which is not OK.
LEMMA UpdateShows ==
  ASSUME TypeOK, NEW h \in Host, IsShown(h), IsUnknown(h), Update(h)
  PROVE  IsShown(h)' /\ IsUnknown(h)'
<1>1. UNCHANGED <<port, todo>>
  BY DEF Update, worldVars
<1>2. CASE ~(h \in Present /\ status[h] # 0)
  BY <1>1, <1>2 DEF Update, rowVars, IsShown, IsUnknown, Present
<1>3. CASE h \in Present /\ status[h] # 0
  <2>1. status'[h] = StatusAfterEvent(h)
    BY <1>3 DEF Update, Visited, TypeOK
  <2>2. /\ port[h] = "Online" => StatusAfterEvent(h) = FC_HBA_STATUS_OK
        /\ port[h] \in {"Linkdown", "Bypassed", "Error"}
             => StatusAfterEvent(h) # FC_HBA_STATUS_OK
    <3>1. FC_HBA_STATUS_OTHER # FC_HBA_STATUS_OK
      BY DEF FC_HBA_STATUS_OTHER, FC_HBA_STATUS_OK
    <3> QED BY <3>1, UpdateStatus DEF StatusAfterEvent
  <2>3. port[h] # "absent"
    BY <1>3, FcaAssumption DEF Present
  <2> QED BY <1>1, <2>1, <2>2, <2>3 DEF IsShown, IsUnknown
<1> QED BY <1>2, <1>3

LEMMA ChangesShow ==
  ASSUME TypeOK, NEW h \in Host, IsShown(h), IsUnknown(h),
         PortChanges(h) \/ HostChanges(h) \/ PlugOrUnplug(h)
  PROVE  IsShown(h)' /\ IsUnknown(h)'
<1>1. UNCHANGED <<status, todo>>
  BY DEF PortChanges, HostChanges, PlugOrUnplug, Change, rowVars
<1>2. CASE PortChanges(h)
  <2>1. h \in pending' \cup missed' /\ port[h] # "absent" /\ port'[h] # "absent"
    BY <1>2, FcaAssumption DEF PortChanges, Present, TypeOK
  <2> QED BY <2>1 DEF IsShown, IsUnknown
<1>3. CASE HostChanges(h)
  BY <1>1, <1>3 DEF HostChanges, IsShown, IsUnknown, Present
<1>4. CASE PlugOrUnplug(h)
  <2>1. port[h] = "absent" \/ port'[h] = "gone"
    BY <1>4 DEF PlugOrUnplug, TypeOK
  <2>2. CASE port[h] = "absent"
    BY <1>1, <2>2 DEF IsShown, IsUnknown
  <2>3. CASE port'[h] = "gone"
    BY <2>3, FcaAssumption DEF IsShown, IsUnknown, Present
  <2> QED BY <2>1, <2>2, <2>3
<1> QED BY <1>2, <1>3, <1>4

LEMMA NextInv == TypeOK /\ IInv /\ [Next]_vars => IInv'
<1> SUFFICES ASSUME TypeOK, IInv, [Next]_vars, NEW h \in Host
             PROVE  IsShown(h)' /\ IsUnknown(h)'
  BY IInvParts DEF IInv, PortIsShown, AbsentIsUnknown, IsShown, IsUnknown, Present
<1>1. IsShown(h) /\ IsUnknown(h)
  BY IInvParts
<1>2. ASSUME NEW g \in Host, g # h,
             \/ PortChanges(g) \/ HostChanges(g) \/ PlugOrUnplug(g)
             \/ LoadHost(g) \/ Update(g)
      PROVE  IsShown(h)' /\ IsUnknown(h)'
  <2>1. port'[h] = port[h]
    BY <1>2 DEF PortChanges, HostChanges, PlugOrUnplug, LoadHost, Update, worldVars, TypeOK
  <2>2. status'[h] = status[h]
    BY <1>2 DEF PortChanges, HostChanges, PlugOrUnplug, Change, LoadHost, Update, Visited,
                rowVars, TypeOK
  <2>3. /\ h \in pending \cup missed => h \in pending' \cup missed'
        /\ h \in todo <=> h \in todo'
    BY <1>2 DEF PortChanges, HostChanges, PlugOrUnplug, Change, LoadHost, Update, rowVars
  <2> QED BY <1>1, <2>1, <2>2, <2>3, Frame
<1>3. ASSUME LoadStart PROVE IsShown(h)' /\ IsUnknown(h)'
  <2>1. UNCHANGED <<port, status, pending, missed>> /\ todo' \in {todo, Present}
        /\ (Present # {} => todo' = Present) /\ (Present = {} => todo' = todo)
    BY <1>3 DEF LoadStart, worldVars, rowVars
  <2>2. CASE todo' = todo
    BY <1>1, <2>1, <2>2, Frame
  <2>3. CASE todo' = Present
    BY <1>1, <2>1, <2>3, FcaAssumption DEF IsShown, IsUnknown, Present
  <2> QED BY <2>1, <2>2, <2>3
<1>4. ASSUME LoadEnd PROVE IsShown(h)' /\ IsUnknown(h)'
  BY <1>1, <1>4, Frame DEF LoadEnd, worldVars
<1>5. ASSUME UNCHANGED vars PROVE IsShown(h)' /\ IsUnknown(h)'
  BY <1>1, <1>5, Frame DEF vars, worldVars, rowVars
<1>6. ASSUME NEW g \in Host,
             \/ PortChanges(g) \/ HostChanges(g) \/ PlugOrUnplug(g)
             \/ LoadHost(g) \/ Update(g)
      PROVE  IsShown(h)' /\ IsUnknown(h)'
  BY <1>1, <1>2, <1>6, ChangesShow, LoadHostShows, UpdateShows
<1> QED BY <1>3, <1>4, <1>5, <1>6, Zenon DEF Next

\* The row of a port that is up is OK and that of one that is down is not, when
\* its events are worked through and none was lost, for any number of hosts and
\* changes (netsnmp_arch_fcahc_container_load, cpqfca_update_hba_status).
\* Whether a host has a row is not stated: it gets one with the next load.
THEOREM PortIsAlwaysShown == Spec => []PortIsShown
<1>1. IInv => PortIsShown
  BY DEF IInv
<1> QED BY <1>1, InitInv, NextInv, TypeCorrect, PTL DEF Spec
=============================================================================
