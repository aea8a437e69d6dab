-------------------------- MODULE SnmpTablesProofs --------------------------
(***************************************************************************)
(* The life of any table of the agent: types, how old an answer can be,    *)
(* which containers are whole, and which rows stay.                        *)
(***************************************************************************)
EXTENDS SnmpTables, TLAPS

-----------------------------------------------------------------------------
(* The registry *)

GroupName == {"cpqLinOsCommon", "cpqLinOsSys", "cpqLinOsMem", "cpqLinOsSwap"}

TableName ==
  {"cpqHoFileSysTable", "cpqHoSWRunningTable", "cpqHoSwVerTable",
   "cpqIdeAtaDiskTable", "cpqIdeControllerTable", "cpqFcaHostCntlrTable",
   "cpqSasHbaTable", "cpqSasPhyDrvTable", "cpqNicIfLogMapTable",
   "cpqNicIfPhysAdapterTable", "cpqSePCIeDiskTable", "cpqSePciSlotTable",
   "cpqSePciFunctTable", "cpqSePciMemoryTable", "cpqLinOsDiskTable",
   "cpqLinOsNetworkInterfaceTable", "cpqLinOsProcessorTable"}

LEMMA Names == DOMAIN Groups = GroupName /\ DOMAIN Tables = TableName
<1>1. DOMAIN Groups = GroupName
  BY DEF Groups, GroupName
<1>2. DOMAIN Tables = TableName
  BY DEF Tables, TableName
<1> QED BY <1>1, <1>2

LEMMA RegisteredIs ==
  /\ \A t \in GroupName : t \in DOMAIN Registered /\ Registered[t] = Groups[t]
  /\ \A t \in TableName \ OfTheTree : /\ t \in DOMAIN Registered /\ t \notin DOMAIN Groups
                                      /\ Registered[t] = Tables[t]
  /\ DOMAIN Registered = GroupName \cup (TableName \ OfTheTree)
<1>1. \A t \in TableName : t \notin GroupName
  BY DEF GroupName, TableName
<1>2. DOMAIN Registered = GroupName \cup (TableName \ OfTheTree)
  BY Names DEF Registered
<1>3. \A t \in DOMAIN Registered :
        Registered[t] = IF t \in GroupName THEN Groups[t] ELSE Tables[t]
  BY <1>2, Names DEF Registered
<1> QED BY <1>1, <1>2, <1>3, Names

LEMMA FlagNames ==
  /\ Kept = {"preload", "keep for load", "keep expired", "keep idle"}
  /\ PRELOAD = "preload" /\ DONT_FREE_BEFORE_LOAD = "keep for load"
  /\ DONT_FREE_EXPIRED = "keep expired" /\ DONT_AUTO_RELEASE = "keep idle"
BY DEF Kept, CacheFlag, PRELOAD, DONT_FREE_BEFORE_LOAD, DONT_FREE_EXPIRED, DONT_AUTO_RELEASE

\* What the groups register.
LEMMA GroupsAre ==
  \A t \in GroupName : Registered[t].timeout \in Nat \ {0} /\ Registered[t].flags = Kept
<1>1. \A t \in GroupName : Groups[t].timeout \in {5, 30} /\ Groups[t].flags = Kept
  BY DEF GroupName, Groups, init_cpqLinOsCommon, init_cpqLinOsSys, init_cpqLinOsMem,
         init_cpqLinOsSwap, cpqPerfPollInt, Table
<1> QED BY <1>1, RegisteredIs

\* What the tables register whose rows remember.
KeptName ==
  {"cpqFcaHostCntlrTable", "cpqSasHbaTable", "cpqSasPhyDrvTable",
   "cpqNicIfLogMapTable", "cpqNicIfPhysAdapterTable", "cpqSePCIeDiskTable",
   "cpqLinOsDiskTable", "cpqLinOsNetworkInterfaceTable", "cpqLinOsProcessorTable"}

LEMMA KeptTablesAre ==
  \A t \in KeptName : /\ t \in TableName \ OfTheTree
                      /\ Registered[t].timeout \in Nat \ {0} /\ Registered[t].flags = Kept
<1>1. \A t \in KeptName : t \in TableName \ OfTheTree
  BY DEF KeptName, TableName, OfTheTree
<1>2. \A t \in {"cpqFcaHostCntlrTable", "cpqSasHbaTable", "cpqSasPhyDrvTable"} :
        Tables[t].timeout \in {300, 600} /\ Tables[t].flags = Kept
  BY DEF Tables, Table, initialize_table_cpqFcaHostCntlrTable,
         initialize_table_cpqSasHbaTable, initialize_table_cpqSasPhyDrvTable
<1>3. \A t \in {"cpqNicIfLogMapTable", "cpqNicIfPhysAdapterTable", "cpqSePCIeDiskTable"} :
        Tables[t].timeout \in {30, 300} /\ Tables[t].flags = Kept
  BY DEF Tables, Table, initialize_table_cpqNicIfLogMapTable,
         initialize_table_cpqNicIfPhysAdapterTable, initialize_table_cpqSePCIeDiskTable
<1>4. \A t \in {"cpqLinOsDiskTable", "cpqLinOsNetworkInterfaceTable", "cpqLinOsProcessorTable"} :
        Tables[t].timeout = 5 /\ Tables[t].flags = Kept
  BY DEF Tables, Table, initialize_table_cpqLinOsDiskTable,
         initialize_table_cpqLinOsNetworkInterfaceTable, initialize_table_cpqLinOsProcessorTable
<1>5. \A t \in KeptName : Tables[t].timeout \in Nat \ {0} /\ Tables[t].flags = Kept
  BY <1>2, <1>3, <1>4 DEF KeptName
<1> QED BY <1>1, <1>5, RegisteredIs

\* What the other tables register.
LEMMA OtherTablesAre ==
  /\ \A t \in {"cpqHoFileSysTable", "cpqHoSWRunningTable"} :
       Registered[t].timeout = 240 /\ Registered[t].flags = {}
  /\ Registered["cpqHoSwVerTable"].timeout = 240 /\ Registered["cpqHoSwVerTable"].flags = {PRELOAD}
  /\ Registered["cpqIdeAtaDiskTable"].timeout = 300 /\ Registered["cpqIdeAtaDiskTable"].flags = {}
  /\ Registered["cpqIdeControllerTable"].timeout = 300
  /\ Registered["cpqIdeControllerTable"].flags = {PRELOAD, DONT_FREE_EXPIRED, DONT_AUTO_RELEASE}
<1>1. \A t \in {"cpqHoFileSysTable", "cpqHoSWRunningTable"} :
        Tables[t].timeout = 240 /\ Tables[t].flags = {}
  BY DEF Tables, Table, initialize_table_cpqHoFileSysTable, initialize_table_cpqHoSWRunningTable
<1>2. Tables["cpqHoSwVerTable"].timeout = 240 /\ Tables["cpqHoSwVerTable"].flags = {PRELOAD}
  BY DEF Tables, Table, initialize_table_cpqHoSwVerTable
<1>3. Tables["cpqIdeAtaDiskTable"].timeout = 300 /\ Tables["cpqIdeAtaDiskTable"].flags = {}
  BY DEF Tables, Table, initialize_table_cpqIdeAtaDiskTable
<1>4. /\ Tables["cpqIdeControllerTable"].timeout = 300
      /\ Tables["cpqIdeControllerTable"].flags = {PRELOAD, DONT_FREE_EXPIRED, DONT_AUTO_RELEASE}
  BY DEF Tables, Table, initialize_table_cpqIdeControllerTable
<1>5. \A t \in {"cpqHoFileSysTable", "cpqHoSWRunningTable", "cpqHoSwVerTable",
                "cpqIdeAtaDiskTable", "cpqIdeControllerTable"} : Registered[t] = Tables[t]
  BY RegisteredIs DEF TableName, OfTheTree
<1> QED BY <1>1, <1>2, <1>3, <1>4, <1>5

LEMMA TimeoutIs == \A t \in DOMAIN Registered : Registered[t].timeout \in Nat \ {0}
<1>1. \A t \in DOMAIN Registered :
        \/ t \in GroupName
        \/ t \in KeptName
        \/ t \in {"cpqHoFileSysTable", "cpqHoSWRunningTable"}
        \/ t = "cpqHoSwVerTable" \/ t = "cpqIdeAtaDiskTable" \/ t = "cpqIdeControllerTable"
  BY RegisteredIs DEF TableName, OfTheTree, KeptName
<1> QED BY <1>1, GroupsAre, KeptTablesAre, OtherTablesAre

\* The flags of the three kinds of tables that the properties are about.
LEMMA SnapshotsAre ==
  \A t \in Snapshot : /\ DONT_FREE_BEFORE_LOAD \notin Registered[t].flags
                      /\ t \notin DOMAIN Groups /\ t \notin Followed
<1>1. \A t \in Snapshot : t \notin GroupName /\ t \notin Followed
  BY DEF Snapshot, GroupName, Followed
<1>2. \A t \in {"cpqHoFileSysTable", "cpqHoSWRunningTable"} :
        DONT_FREE_BEFORE_LOAD \notin Registered[t].flags
  BY OtherTablesAre
<1>3. DONT_FREE_BEFORE_LOAD \notin Registered["cpqHoSwVerTable"].flags
  <2>1. Registered["cpqHoSwVerTable"].flags = {PRELOAD}
    BY OtherTablesAre
  <2> QED BY <2>1, FlagNames
<1>4. DONT_FREE_BEFORE_LOAD \notin Registered["cpqIdeControllerTable"].flags
  <2>1. Registered["cpqIdeControllerTable"].flags
          = {PRELOAD, DONT_FREE_EXPIRED, DONT_AUTO_RELEASE}
    BY OtherTablesAre
  <2> QED BY <2>1, FlagNames
<1> QED BY <1>1, <1>2, <1>3, <1>4, Names DEF Snapshot

LEMMA RememberingAre ==
  \A t \in Remembering :
     /\ Registered[t].flags = Kept /\ t \notin DOMAIN Groups
     /\ t \notin {"cpqHoFileSysTable", "cpqHoSWRunningTable", "cpqHoSwVerTable"}
<1>1. \A t \in Remembering : t \in KeptName /\ t \notin GroupName
  BY DEF Remembering, KeptName, GroupName
<1>2. \A t \in Remembering : t \notin {"cpqHoFileSysTable", "cpqHoSWRunningTable", "cpqHoSwVerTable"}
  BY DEF Remembering
<1> QED BY <1>1, <1>2, KeptTablesAre, Names

LEMMA ReadDirectlyAre ==
  \A t \in ReadDirectly :
     /\ PRELOAD \in Registered[t].flags /\ DONT_AUTO_RELEASE \in Registered[t].flags
     /\ t \notin {"cpqHoFileSysTable", "cpqHoSWRunningTable", "cpqHoSwVerTable"}
<1>1. \A t \in ReadDirectly : t \in KeptName \/ t = "cpqIdeControllerTable"
  BY DEF ReadDirectly, KeptName
<1>2. \A t \in ReadDirectly : t \notin {"cpqHoFileSysTable", "cpqHoSWRunningTable", "cpqHoSwVerTable"}
  BY DEF ReadDirectly
<1>3. \A t \in KeptName : PRELOAD \in Registered[t].flags /\ DONT_AUTO_RELEASE \in Registered[t].flags
  BY KeptTablesAre, FlagNames
<1>4. /\ PRELOAD \in Registered["cpqIdeControllerTable"].flags
      /\ DONT_AUTO_RELEASE \in Registered["cpqIdeControllerTable"].flags
  BY OtherTablesAre
<1> QED BY <1>1, <1>2, <1>3, <1>4

-----------------------------------------------------------------------------
(* Types, and what holds along with them *)

LEMMA Steps ==
  ASSUME [Next]_vars
  PROVE  \/ UNCHANGED vars
         \/ Register \/ RegisterFails
         \/ \E i \in Thing : \E c \in Columns : Get(i, c) \/ GetFreed(i, c)
         \/ ReleaseCachedResources
         \/ \E i \in Thing : Arrives(i) \/ Leaves(i) \/ Breaks(i)
         \/ \E i \in Thing : Foreign(i) \/ HandleEvent(i)
         \/ TimePasses
BY Zenon DEF Next

LEMMA TableStays == ASSUME [Next]_vars PROVE table' = table
BY Steps, Zenon
DEF vars, Register, RegisterFails, Get, GetFreed, ReleaseCachedResources, Arrives, Leaves,
    Breaks, Foreign, HandleEvent, TimePasses, RowsStay

LEMMA CappedIs ==
  ASSUME table \in DOMAIN Registered, NEW x \in Nat
  PROVE  /\ Capped(x) \in 0 .. Registered[table].timeout
         /\ \A y \in 0 .. Registered[table].timeout : y <= x => y <= Capped(x)
         /\ \A y \in Nat : x <= y => Capped(x) <= Capped(y)
BY TimeoutIs DEF Capped

\* What a load does to the table, whatever its flags.
LEMMA LoadIs ==
  ASSUME TypeOK, Load
  PROVE  /\ rows' \subseteq Thing /\ made' \subseteq rows'
         /\ valid' = TRUE /\ age' = 0
         /\ leaked' \in 0 .. Descriptors /\ taken' = {}
         /\ Found \subseteq there /\ rows' = FreeBeforeLoad \cup Found
         /\ FreeBeforeLoad \subseteq rows
<1>1. Found \subseteq there
  BY DEF Found, cpqhost_arch_fsys_container_load, cpqhost_arch_swrun_container_load,
         cpqhost_arch_cpqHoSwVer_container_load
<1>2. FreeBeforeLoad \subseteq rows
  BY DEF FreeBeforeLoad
<1>3. leaked' \in 0 .. Descriptors
  BY TablesAssumption DEF Load, MountTableLeft, TypeOK
<1>4. rows' = FreeBeforeLoad \cup Found /\ made' = Found \ FreeBeforeLoad
  BY DEF Load
<1> QED BY <1>1, <1>2, <1>3, <1>4 DEF Load, TypeOK

LEMMA Initially == ASSUME Init PROVE IInv
<1>1. table \in DOMAIN Registered /\ Registered[table].timeout \in Nat \ {0}
  BY TimeoutIs DEF Init
<1>2. there \subseteq Thing /\ broken \subseteq Thing
  BY DEF Init
<1>3. unseen \in [Thing -> 0 .. Registered[table].timeout]
  BY <1>1 DEF Init
<1>4. age = 0 /\ age \in 0 .. Registered[table].timeout
  BY <1>1 DEF Init
<1>9. kind \in [Thing -> Kind] /\ leaked \in 0 .. Descriptors
  BY TablesAssumption DEF Init, Kind
<1>5. TypeOK
  BY <1>1, <1>2, <1>3, <1>4, <1>9 DEF Init, TypeOK
<1>6. HereIsSeen
  BY <1>2 DEF Init, HereIsSeen
<1>7. GroupsDangle /\ NothingYet /\ LastLoad /\ NoEvents /\ ContainersAreReadable
  BY DEF Init, GroupsDangle, NothingYet, LastLoad, NoEvents, ContainersAreReadable
<1>8. RepliesAreRecent
  BY DEF Init, NoReply, RepliesAreRecent
<1> QED BY <1>5, <1>6, <1>7, <1>8 DEF IInv

LEMMA TypeStays == ASSUME IInv, [Next]_vars PROVE TypeOK'
<1> DEFINE T == Registered[table].timeout
<1>1. T \in Nat \ {0} /\ table \in DOMAIN Registered
  BY TimeoutIs DEF IInv, TypeOK
<1>2. table' = table
  BY TableStays
<1>3. TypeOK
  BY DEF IInv
<1>4. CASE UNCHANGED vars
  BY <1>4, <1>3 DEF vars, rowVars, worldVars, TypeOK
<1>5. CASE Register
  <2>1. CASE PRELOAD \in Flags
    <3>1. Load
      BY <1>5, <2>1 DEF Register
    <3>2. age' \in 0 .. T
      BY <3>1, <1>3, <1>1, LoadIs
    <3> QED BY <1>5, <1>2, <1>3, <3>1, <3>2, LoadIs DEF Register, TypeOK
  <2>2. CASE PRELOAD \notin Flags
    BY <1>5, <1>2, <1>3, <2>2 DEF Register, rowVars, TypeOK
  <2> QED BY <2>1, <2>2
<1>0. ASSUME RowsStay
      PROVE  /\ UNCHANGED <<table, up, rows, valid, leaked, taken>> /\ made' = {}
             /\ rows' \subseteq Thing /\ made' \subseteq rows' /\ reply' = NoReply
  BY <1>0, <1>3 DEF RowsStay, TypeOK
<1>6. CASE RegisterFails
  <2>1. up' \in {"dangling", "failed"} /\ reply' = NoReply
    BY <1>6 DEF RegisterFails, IInv, NothingYet
  <2> QED BY <1>6, <1>2, <1>3, <2>1 DEF RegisterFails, rowVars, worldVars, TypeOK
<1>7. ASSUME NEW i \in Thing, NEW c \in Columns, Get(i, c) PROVE TypeOK'
  <2>1. /\ rows' \subseteq Thing /\ made' \subseteq rows'
        /\ valid' \in BOOLEAN /\ age' \in 0 .. T
        /\ leaked' \in 0 .. Descriptors /\ taken' \subseteq Thing
    <3>1. CASE Load
      BY <3>1, <1>1, <1>3, LoadIs
    <3>2. CASE ~Load
      BY <1>3, <1>7, <3>2 DEF Get, NetsnmpCacheCheckAndReload, TypeOK
    <3> QED BY <3>1, <3>2
  <2>2. up = "up" /\ up' = up /\ UNCHANGED worldVars
    BY <1>7 DEF Get
  <2> QED BY <1>2, <1>3, <2>1, <2>2 DEF worldVars, TypeOK
<1>8. ASSUME NEW i \in Thing, NEW c \in Columns, GetFreed(i, c) PROVE TypeOK'
  BY <1>8, <1>2, <1>3 DEF GetFreed, rowVars, worldVars, TypeOK
<1>9. CASE ReleaseCachedResources
  BY <1>9, <1>2, <1>3 DEF ReleaseCachedResources, worldVars, TypeOK
<1>10. ASSUME NEW i \in Thing, Arrives(i) PROVE TypeOK'
  <2>1. unseen' \in [Thing -> 0 .. T]
    BY <1>10, <1>1, <1>3 DEF Arrives, TypeOK
  <2>2. kind' \in [Thing -> Kind] /\ told' \subseteq Thing
    BY <1>10, <1>3 DEF Arrives, Announced, TypeOK
  <2>3. there' \subseteq Thing /\ steady' \subseteq there'
    BY <1>10, <1>3 DEF Arrives, TypeOK
  <2>4. RowsStay /\ age' = age /\ broken' = broken
    BY <1>10 DEF Arrives
  <2> QED BY <1>0, <1>2, <1>3, <2>1, <2>2, <2>3, <2>4 DEF TypeOK
<1>11. ASSUME NEW i \in Thing, Leaves(i) PROVE TypeOK'
  <2>1. told' \subseteq Thing
    BY <1>11, <1>3 DEF Leaves, Announced, TypeOK
  <2>2. there' \subseteq Thing /\ steady' \subseteq there'
    BY <1>11, <1>3 DEF Leaves, TypeOK
  <2>3. RowsStay /\ UNCHANGED <<age, broken, kind, unseen>>
    BY <1>11 DEF Leaves
  <2> QED BY <1>0, <1>2, <1>3, <2>1, <2>2, <2>3 DEF TypeOK
<1>12. ASSUME NEW i \in Thing, Breaks(i) PROVE TypeOK'
  <2>1. broken' \subseteq Thing
    BY <1>12, <1>3 DEF Breaks, TypeOK
  <2>2. RowsStay /\ UNCHANGED <<age, there, kind, told, steady, unseen>>
    BY <1>12 DEF Breaks
  <2> QED BY <1>0, <1>2, <1>3, <2>1, <2>2 DEF TypeOK
<1>14. ASSUME NEW i \in Thing, Foreign(i) PROVE TypeOK'
  <2>1. told' \subseteq Thing
    BY <1>14, <1>3 DEF Foreign, TypeOK
  <2>2. RowsStay /\ UNCHANGED <<age, there, broken, kind, steady, unseen>>
    BY <1>14 DEF Foreign
  <2> QED BY <1>0, <1>2, <1>3, <2>1, <2>2 DEF TypeOK
<1>15. ASSUME NEW i \in Thing, HandleEvent(i) PROVE TypeOK'
  <2>1. told' \subseteq Thing /\ rows' \subseteq Thing /\ made' \subseteq rows'
    BY <1>15, <1>3 DEF HandleEvent, TypeOK
  <2>2. taken' \subseteq Thing
    BY <1>15, <1>3 DEF HandleEvent, TypeOK
  <2>3. /\ reply' = NoReply
        /\ UNCHANGED <<table, up, valid, age, leaked, there, broken, kind, steady, unseen>>
    BY <1>15 DEF HandleEvent
  <2> QED BY <1>2, <1>3, <2>1, <2>2, <2>3 DEF TypeOK
<1>13. CASE TimePasses
  <2>1. age' \in 0 .. T
    BY <1>13, <1>1, <1>3, CappedIs, TablesAssumption DEF TimePasses, TypeOK
  <2>2. ASSUME NEW i \in Thing
        PROVE  (IF i \in there THEN 0 ELSE Capped(unseen[i] + Tick)) \in 0 .. T
    <3>1. unseen[i] + Tick \in Nat
      BY <1>1, <1>3, TablesAssumption DEF TypeOK
    <3> QED BY <3>1, <1>1, CappedIs
  <2>3. unseen' \in [Thing -> 0 .. T]
    BY <1>13, <2>2 DEF TimePasses
  <2>4. RowsStay /\ UNCHANGED <<there, broken, kind, told, steady>>
    BY <1>13 DEF TimePasses
  <2> QED BY <1>0, <1>2, <1>3, <2>1, <2>3, <2>4 DEF TypeOK
<1> QED BY <1>4, <1>5, <1>6, <1>7, <1>8, <1>9, <1>10, <1>11, <1>12, <1>13, <1>14, <1>15, Steps

-----------------------------------------------------------------------------
(* The other parts of the inductive invariant *)

LEMMA UpStays ==
  ASSUME IInv, [Next]_vars PROVE GroupsDangle' /\ NothingYet'
<1>1. table' = table
  BY TableStays
<1>2. CASE UNCHANGED vars
  BY <1>2 DEF vars, rowVars, IInv, GroupsDangle, NothingYet
<1>3. CASE Register
  BY <1>3 DEF Register, GroupsDangle, NothingYet
<1>4. CASE RegisterFails
  BY <1>4, <1>1 DEF RegisterFails, GroupsDangle, NothingYet
<1>5. ASSUME NEW i \in Thing, NEW c \in Columns, Get(i, c) \/ GetFreed(i, c)
      PROVE  GroupsDangle' /\ NothingYet'
  BY <1>5, <1>1 DEF Get, GetFreed, IInv, GroupsDangle, NothingYet
<1>6. CASE ReleaseCachedResources
  BY <1>6 DEF ReleaseCachedResources, GroupsDangle, NothingYet
<1>7. CASE RowsStay
  BY <1>7 DEF RowsStay, IInv, GroupsDangle, NothingYet
<1>8. ASSUME NEW i \in Thing, HandleEvent(i) PROVE GroupsDangle' /\ NothingYet'
  BY <1>8, <1>1 DEF HandleEvent, GroupsDangle, NothingYet
<1>9. ASSUME NEW i \in Thing, Arrives(i) \/ Leaves(i) \/ Breaks(i) \/ Foreign(i)
      PROVE  RowsStay
  BY <1>9 DEF Arrives, Leaves, Breaks, Foreign
<1>10. TimePasses => RowsStay
  BY DEF TimePasses
<1> QED BY <1>2, <1>3, <1>4, <1>5, <1>6, <1>7, <1>8, <1>9, <1>10, Steps

LEMMA SeenStays == ASSUME IInv, [Next]_vars PROVE HereIsSeen'
<1>0. /\ there \subseteq Thing /\ unseen \in [Thing -> 0 .. Registered[table].timeout]
      /\ HereIsSeen
  BY DEF IInv, TypeOK
<1>1. CASE there' = there /\ unseen' = unseen
  BY <1>0, <1>1 DEF HereIsSeen
<1>2. ASSUME NEW i \in Thing, Arrives(i) PROVE HereIsSeen'
  BY <1>0, <1>2 DEF Arrives, HereIsSeen
<1>3. ASSUME NEW i \in Thing, Leaves(i) PROVE HereIsSeen'
  BY <1>0, <1>3 DEF Leaves, HereIsSeen
<1>4. CASE TimePasses
  BY <1>0, <1>4 DEF TimePasses, HereIsSeen
<1>5. \/ there' = there /\ unseen' = unseen
      \/ \E i \in Thing : Arrives(i) \/ Leaves(i)
      \/ TimePasses
  BY Steps DEF vars, worldVars, Register, RegisterFails, Get, GetFreed,
               ReleaseCachedResources, Breaks, Foreign, HandleEvent
<1> QED BY <1>1, <1>2, <1>3, <1>4, <1>5

\* A table that is loaded from nothing lists nothing but what it found.
LEMMA SnapshotLoads ==
  ASSUME IInv, table \in Snapshot, Load
  PROVE  rows' \subseteq there /\ valid' = TRUE /\ age' = 0
<1>1. FreeBeforeLoad = {}
  BY SnapshotsAre DEF IInv, LastLoad, FreeBeforeLoad, Flags
<1> QED BY <1>1, LoadIs DEF IInv

LEMMA LastLoadStays == ASSUME IInv, [Next]_vars PROVE LastLoad'
<1> DEFINE T == Registered[table].timeout
<1>1. T \in Nat \ {0} /\ table \in DOMAIN Registered
  BY TimeoutIs DEF IInv, TypeOK
<1>2. table' = table
  BY TableStays
<1>3. /\ rows \subseteq Thing /\ there \subseteq Thing /\ age \in 0 .. T
      /\ unseen \in [Thing -> 0 .. T]
      /\ \A i \in there : unseen[i] = 0
  BY DEF IInv, TypeOK, HereIsSeen
<1> HIDE DEF T
<1> SUFFICES ASSUME table \in Snapshot
             PROVE  (~valid' => rows' = {}) /\ \A i \in rows' : unseen'[i] <= age'
  BY <1>2 DEF LastLoad
<1>4. /\ ~valid => rows = {}
      /\ \A i \in rows : unseen[i] <= age
  BY DEF IInv, LastLoad
<1>5. table \notin Followed /\ table \notin DOMAIN Groups
  BY SnapshotsAre
<1>6. CASE UNCHANGED <<rows, valid, age, unseen>>
  BY <1>4, <1>6
<1>7. CASE Load /\ unseen' = unseen
  <2>1. rows' \subseteq there /\ valid' = TRUE /\ age' = 0
    BY <1>7, SnapshotLoads
  <2> QED BY <2>1, <1>3, <1>7
<1>8. CASE Register
  BY <1>8, <1>6, <1>7 DEF Register, rowVars
<1>9. CASE RegisterFails
  BY <1>9, <1>6 DEF RegisterFails, rowVars, worldVars
<1>10. ASSUME NEW i \in Thing, NEW c \in Columns, Get(i, c)
       PROVE  (~valid' => rows' = {}) /\ \A j \in rows' : unseen'[j] <= age'
  BY <1>10, <1>6, <1>7 DEF Get, NetsnmpCacheCheckAndReload, worldVars
<1>11. CASE ReleaseCachedResources
  BY <1>11 DEF ReleaseCachedResources
<1>12. ASSUME NEW i \in Thing, Arrives(i)
       PROVE  (~valid' => rows' = {}) /\ \A j \in rows' : unseen'[j] <= age'
  <2>1. rows' = rows /\ valid' = valid /\ age' = age
    BY <1>12 DEF Arrives, RowsStay
  <2>2. \A j \in Thing : unseen'[j] <= unseen[j]
    BY <1>12, <1>3, <1>1 DEF Arrives
  <2>3. \A j \in Thing : unseen'[j] \in Int /\ unseen[j] \in Int
    BY <1>12, <1>3, <1>1 DEF Arrives
  <2> QED BY <1>3, <1>4, <2>1, <2>2, <2>3
<1>13. ASSUME NEW i \in Thing, Leaves(i) \/ Breaks(i) \/ Foreign(i)
       PROVE  (~valid' => rows' = {}) /\ \A j \in rows' : unseen'[j] <= age'
  BY <1>13, <1>6 DEF Leaves, Breaks, Foreign, RowsStay
<1>14. CASE TimePasses
  <2>1. age' = Capped(age + Tick) /\ rows' = rows /\ valid' = valid
    BY <1>14 DEF TimePasses, RowsStay
  <2>2. ASSUME NEW j \in rows PROVE unseen'[j] <= age'
    <3>1. j \in Thing /\ unseen[j] \in Nat /\ age \in Nat /\ Tick \in Nat /\ unseen[j] <= age
      BY <1>1, <1>3, <1>4, TablesAssumption
    <3>2. unseen'[j] = IF j \in there THEN 0 ELSE Capped(unseen[j] + Tick)
      BY <1>14, <3>1 DEF TimePasses
    <3>3. Capped(unseen[j] + Tick) <= Capped(age + Tick)
      <4>1. unseen[j] + Tick \in Nat /\ age + Tick \in Nat /\ unseen[j] + Tick <= age + Tick
        BY <3>1
      <4> QED BY <4>1, <1>1, CappedIs
    <3>4. 0 <= Capped(age + Tick)
      BY <1>1, <3>1, CappedIs
    <3> QED BY <2>1, <3>2, <3>3, <3>4
  <2> QED BY <1>4, <2>1, <2>2
<1>15. CASE UNCHANGED vars
  BY <1>15, <1>6 DEF vars, rowVars, worldVars
<1>16. ASSUME NEW i \in Thing, NEW c \in Columns, GetFreed(i, c)
       PROVE  (~valid' => rows' = {}) /\ \A j \in rows' : unseen'[j] <= age'
  BY <1>16, <1>6 DEF GetFreed, rowVars, worldVars
<1>17. NoEvents
  BY DEF IInv
<1>18. ASSUME NEW i \in Thing, HandleEvent(i) PROVE FALSE
  BY <1>18, <1>17, <1>5 DEF HandleEvent, NoEvents
<1> QED BY <1>8, <1>9, <1>10, <1>11, <1>12, <1>13, <1>14, <1>15, <1>16, <1>18, Steps

\* An answer is about a row, and no load or event is between the two.
LEMMA RepliesStay == ASSUME IInv, [Next]_vars PROVE RepliesAreRecent'
<1> DEFINE T == Registered[table].timeout
<1>1. T \in Nat \ {0} /\ table \in DOMAIN Registered
  BY TimeoutIs DEF IInv, TypeOK
<1>2. table' = table
  BY TableStays
<1>3. CASE reply' = NoReply
  BY <1>3 DEF RepliesAreRecent, NoReply
<1>4. CASE UNCHANGED vars
  BY <1>4 DEF vars, worldVars, IInv, RepliesAreRecent
<1>5. CASE Register \/ RegisterFails
  BY <1>3, <1>5 DEF Register, RegisterFails, IInv, NothingYet
<1>6. ASSUME NEW i \in Thing, NEW c \in Columns, Get(i, c) PROVE RepliesAreRecent'
  <2> SUFFICES ASSUME table \in Snapshot, reply'.answer = "value"
               PROVE  unseen[i] < T
    BY <1>2, <1>6 DEF Get, worldVars, RepliesAreRecent
  <2>1. i \in rows'
    BY <1>6 DEF Get, Reply
  <2>2. CASE ~valid \/ Expired
    <3>1. rows' \subseteq there
      BY <1>6, <2>2, SnapshotLoads DEF Get, NetsnmpCacheCheckAndReload
    <3>2. unseen[i] = 0
      BY <2>1, <3>1 DEF IInv, HereIsSeen
    <3> QED BY <1>1, <3>2
  <2>3. CASE valid /\ ~Expired
    <3>1. rows' = rows
      BY <1>6, <2>3 DEF Get, NetsnmpCacheCheckAndReload
    <3>2. unseen[i] <= age
      BY <2>1, <3>1 DEF IInv, LastLoad
    <3>3. age < T /\ age \in Int
      BY <1>1, <2>3 DEF Expired, IInv, TypeOK
    <3>4. unseen[i] \in Int
      BY <1>1 DEF IInv, TypeOK
    <3> QED BY <1>1, <3>2, <3>3, <3>4
  <2> QED BY <2>2, <2>3
<1>7. ASSUME NEW i \in Thing, NEW c \in Columns, GetFreed(i, c) PROVE RepliesAreRecent'
  <2>1. table \in DOMAIN Groups
    BY <1>7 DEF GetFreed, IInv, GroupsDangle
  <2>2. table' \notin Snapshot
    BY <1>2, <2>1, SnapshotsAre
  <2> QED BY <2>2 DEF RepliesAreRecent
<1>8. CASE ReleaseCachedResources \/ TimePasses
  BY <1>3, <1>8 DEF ReleaseCachedResources, TimePasses, RowsStay
<1>9. ASSUME NEW i \in Thing, Arrives(i) \/ Leaves(i) \/ Breaks(i) PROVE RepliesAreRecent'
  BY <1>3, <1>9 DEF Arrives, Leaves, Breaks, RowsStay
<1>10. ASSUME NEW i \in Thing, Foreign(i) \/ HandleEvent(i) PROVE RepliesAreRecent'
  BY <1>3, <1>10 DEF Foreign, HandleEvent, RowsStay
<1> QED BY <1>4, <1>5, <1>6, <1>7, <1>8, <1>9, <1>10, Steps

\* A container that is read directly lists everything there is after a load.
LEMMA DirectLoads ==
  ASSUME IInv, table \in ReadDirectly, Load PROVE there \subseteq rows'
<1>1. Found = there
  BY ReadDirectlyAre DEF Found
<1> QED BY <1>1, LoadIs DEF IInv

LEMMA ContainersStay == ASSUME IInv, [Next]_vars PROVE ContainersAreReadable'
<1>1. table' = table
  BY TableStays
<1> SUFFICES ASSUME table \in ReadDirectly, up' = "up"
             PROVE  steady' \ taken' \subseteq rows'
  BY <1>1 DEF ContainersAreReadable
<1>2. /\ steady \subseteq there
      /\ up = "up" => steady \ taken \subseteq rows
  BY DEF IInv, TypeOK, ContainersAreReadable
<1>3. PRELOAD \in Flags /\ DONT_AUTO_RELEASE \in Flags
  BY ReadDirectlyAre DEF Flags
<1>4. CASE UNCHANGED vars
  BY <1>2, <1>4 DEF vars, rowVars, worldVars
<1>5. CASE Register
  <2>1. Load /\ steady' = there
    BY <1>3, <1>5 DEF Register
  <2> QED BY <2>1, DirectLoads
<1>6. CASE RegisterFails
  BY <1>6 DEF RegisterFails
<1>7. ASSUME NEW i \in Thing, NEW c \in Columns, Get(i, c)
      PROVE  steady' \ taken' \subseteq rows'
  <2>1. up = "up" /\ steady' = steady
    BY <1>7 DEF Get, worldVars
  <2>2. CASE Load
    BY <1>2, <2>1, <2>2, DirectLoads
  <2>3. CASE rows' = rows /\ taken' = taken
    BY <1>2, <2>1, <2>3
  <2> QED BY <1>7, <2>2, <2>3 DEF Get, NetsnmpCacheCheckAndReload
<1>8. ASSUME NEW i \in Thing, NEW c \in Columns, GetFreed(i, c)
      PROVE  steady' \ taken' \subseteq rows'
  BY <1>8 DEF GetFreed
<1>9. CASE ReleaseCachedResources
  BY <1>3, <1>9 DEF ReleaseCachedResources
<1>10. CASE RowsStay /\ steady' \subseteq steady
  BY <1>2, <1>10 DEF RowsStay
<1>11. ASSUME NEW i \in Thing, Arrives(i) \/ Leaves(i) \/ Breaks(i) \/ Foreign(i)
       PROVE  RowsStay /\ steady' \subseteq steady
  BY <1>11 DEF Arrives, Leaves, Breaks, Foreign
<1>12. TimePasses => RowsStay /\ steady' \subseteq steady
  BY DEF TimePasses
<1>13. ASSUME NEW i \in Thing, HandleEvent(i) PROVE steady' \ taken' \subseteq rows'
  <2>1. taken' = (taken \cup rows) \ rows' /\ steady' = steady /\ up = "up"
    BY <1>13 DEF HandleEvent
  <2> QED BY <1>2, <2>1
<1> QED BY <1>4, <1>5, <1>6, <1>7, <1>8, <1>9, <1>10, <1>11, <1>12, <1>13, Steps

LEMMA NoEventsStay == ASSUME IInv, [Next]_vars PROVE NoEvents'
<1>1. table' = table
  BY TableStays
<1>2. NoEvents
  BY DEF IInv
<1>3. CASE told' \subseteq told
  BY <1>1, <1>2, <1>3 DEF NoEvents
<1>4. ASSUME NEW i \in Thing, Arrives(i) \/ Leaves(i) \/ Foreign(i) PROVE NoEvents'
  BY <1>1, <1>2, <1>4 DEF Arrives, Leaves, Foreign, Announced, NoEvents
<1>5. \/ told' \subseteq told
      \/ \E i \in Thing : Arrives(i) \/ Leaves(i) \/ Foreign(i)
  BY Steps DEF vars, worldVars, Register, RegisterFails, Get, GetFreed,
               ReleaseCachedResources, Breaks, HandleEvent, TimePasses
<1> QED BY <1>3, <1>4, <1>5

LEMMA Invariance == Spec => []IInv
<1>1. Init => IInv
  BY Initially
<1>2. IInv /\ [Next]_vars => IInv'
  <2> SUFFICES ASSUME IInv, [Next]_vars PROVE IInv'
    OBVIOUS
  <2> QED BY TypeStays, UpStays, SeenStays, LastLoadStays, NoEventsStay, ContainersStay,
             RepliesStay DEF IInv
<1> QED BY <1>1, <1>2, PTL DEF Spec

-----------------------------------------------------------------------------
(* The theorems *)

\* The tables hold what their variables are for, and nobody is answered
\* before the registration (cpqhost.c, cpqPerf.c and the init functions).
THEOREM TypeCorrect == Spec => []TypeOK
<1>1. IInv => TypeOK
  BY DEF IInv
<1> QED BY <1>1, Invariance, PTL

\* A table that is loaded from nothing, of any number of things and with a
\* clock of any step, never answers for what was already gone one timeout
\* ago: the loads of cpqHoFileSysTable, cpqHoSWRunningTable,
\* cpqHoSwVerTable and cpqIdeControllerTable replace all rows.
THEOREM RepliesAreAlwaysRecent == Spec => []RepliesAreRecent
<1>1. IInv => RepliesAreRecent
  BY DEF IInv
<1> QED BY <1>1, Invariance, PTL

\* The containers that sas_linux.c, ide_linux.c and nic_linux.c walk without
\* a request list what has been there since the start, but for the rows that
\* events took after the last load (cpqNicIfPhysAdapterTable.c:108-121).
THEOREM ContainersAreAlwaysReadable == Spec => []ContainersAreReadable
<1>1. IInv => ContainersAreReadable
  BY DEF IInv
<1> QED BY <1>1, Invariance, PTL

\* A load of a table whose rows remember keeps all of them.
LEMMA RememberingLoads ==
  ASSUME IInv, table \in Remembering, Load
  PROVE  made' \cap rows = {} /\ rows \subseteq rows'
<1>1. FreeBeforeLoad = rows
  BY RememberingAre DEF Kept, CacheFlag, FreeBeforeLoad, Flags
<1> QED BY <1>1 DEF Load

\* Neither a load nor the release of idle caches frees or replaces a row that
\* remembers the last trap or sample, of a device that is there or not: it
\* goes only with an event that names it.  (The flags that the
\* initialize_table functions of nine tables set.)
THEOREM EntriesAlwaysStay == Spec => EntriesStay
<1> DEFINE Stay == /\ made' \cap rows = {}
                   /\ rows \ rows' \subseteq told \ told'
<1>1. ASSUME IInv, Next, table \in Remembering PROVE Stay
  <2>1. table \notin DOMAIN Groups /\ DONT_AUTO_RELEASE \in Flags
    BY <1>1, RememberingAre DEF Kept, CacheFlag, Flags
  <2>2. CASE Load
    BY <1>1, <2>2, RememberingLoads
  <2>3. CASE rows' = rows /\ made' = {}
    BY <2>3
  <2>4. CASE Register \/ RegisterFails
    <3>1. made = {}
      BY <1>1, <2>4 DEF Register, RegisterFails, IInv, NothingYet
    <3> QED BY <2>2, <2>3, <2>4, <3>1 DEF Register, RegisterFails, rowVars
  <2>5. ASSUME NEW i \in Thing, NEW c \in Columns, Get(i, c) PROVE Stay
    BY <2>2, <2>3, <2>5 DEF Get, NetsnmpCacheCheckAndReload
  <2>6. ASSUME NEW i \in Thing, NEW c \in Columns, GetFreed(i, c) PROVE Stay
    BY <1>1, <2>1, <2>6 DEF GetFreed, IInv, GroupsDangle
  <2>7. CASE ReleaseCachedResources
    BY <2>1, <2>7 DEF ReleaseCachedResources
  <2>8. ASSUME NEW i \in Thing, Arrives(i) \/ Leaves(i) \/ Breaks(i) \/ Foreign(i) PROVE Stay
    BY <2>3, <2>8 DEF Arrives, Leaves, Breaks, Foreign, RowsStay
  <2>9. ASSUME NEW i \in Thing, HandleEvent(i) PROVE Stay
    <3>1. rows \ rows' \subseteq {i} /\ i \in told /\ told' = told \ {i} /\ made' = rows' \ rows
      BY <2>9 DEF HandleEvent
    <3> QED BY <3>1
  <2>10. CASE TimePasses
    BY <2>3, <2>10 DEF TimePasses, RowsStay
  <2> QED BY <1>1, <2>4, <2>5, <2>6, <2>7, <2>8, <2>9, <2>10 DEF Next
<1>2. IInv /\ [Next]_vars => [(table \in Remembering) => Stay]_vars
  BY <1>1
<1>3. Spec => [][Next]_vars
  BY PTL DEF Spec
<1>4. Spec => [][(table \in Remembering) => Stay]_vars
  BY <1>2, <1>3, Invariance, PTL
<1> QED BY <1>4 DEF EntriesStay
=============================================================================
