---------------------------- MODULE SnmpTables -----------------------------
(***************************************************************************)
(* The life of one table of the agent between net-snmp's cache, which      *)
(* loads and frees its rows, the requests it answers and the events that   *)
(* change its rows between loads.  The table is any one of TableRegistry   *)
(* but those of the PCI tree; what is specific to its rows is in the       *)
(* module of its component.                                                *)
(***************************************************************************)
EXTENDS TableRegistry, FiniteSets, FiniteSetsExt

CONSTANTS
  N,            \* what a table can list is 1 .. N, in the order the load finds it
  Tick,         \* seconds between two looks at the clock
  Descriptors   \* files that the agent may open beside those it has

ASSUME TablesAssumption ==
  N \in Nat /\ Tick \in Nat \ {0} /\ Descriptors \in Nat \ {0}

VARIABLES
  table,    \* the table; it does not change
  up,       \* "new", "up", "failed", "dangling" (registered, then freed)
  there,    \* what there is to be listed
  broken,   \* what cannot be read: statvfs or the open of a stat file fails
  kind,     \* processes: "plain", "spaced" (a space in the name), "kernel"
  leaked,   \* mount tables that were opened and not closed
  told,     \* what a waiting event names, whatever became of it meanwhile
  rows,     \* what has a row
  valid,    \* netsnmp_cache.valid
  age,      \* seconds since the last load, as far as the timeout
  reply,    \* the answer to the last request, if that was the last step
  \* for the properties
  made,     \* rows that the last step allocated
  steady,   \* what has been there since the table was registered
  taken,    \* what lost its row to an event after the last load
  unseen    \* seconds since each thing was there, as far as the timeout

rowVars == <<rows, valid, age, made, leaked, taken>>
worldVars == <<there, broken, kind, told, steady, unseen>>
vars == <<table, up, rowVars, worldVars, reply>>

Thing == 1 .. N

\* pci_linux.c lists the nodes of a tree and not what there is.
OfTheTree == {"cpqSePciSlotTable", "cpqSePciFunctTable", "cpqSePciMemoryTable"}

\* Tables that events change between loads.
Followed == {"cpqIdeAtaDiskTable", "cpqSasPhyDrvTable", "cpqSePCIeDiskTable",
             "cpqNicIfLogMapTable", "cpqNicIfPhysAdapterTable"}

\* Tables whose load reads something of each thing that may fail.
Breakable == {"cpqHoFileSysTable", "cpqHoSWRunningTable"}

Registered ==
  [ n \in (DOMAIN Tables \ OfTheTree) \cup DOMAIN Groups |->
      IF n \in DOMAIN Groups THEN Groups[n] ELSE Tables[n] ]

Kind == {"plain", "spaced", "kernel"}

NoReply == [thing |-> 0, column |-> 0, answer |-> "none"]

TypeOK ==
  /\ table \in DOMAIN Registered
  /\ up \in {"new", "up", "failed", "dangling"}
  /\ there \subseteq Thing /\ broken \subseteq Thing
  /\ rows \subseteq Thing /\ made \subseteq rows
  /\ kind \in [Thing -> Kind]
  /\ leaked \in 0 .. Descriptors
  /\ told \subseteq Thing /\ taken \subseteq Thing
  /\ valid \in BOOLEAN
  /\ age \in 0 .. Registered[table].timeout
  /\ steady \subseteq there
  /\ unseen \in [Thing -> 0 .. Registered[table].timeout]
  /\ reply = NoReply \/ up \in {"up", "dangling"}

Flags == Registered[table].flags
Capped(seconds) == IF seconds < Registered[table].timeout THEN seconds
                   ELSE Registered[table].timeout

Init ==
  /\ table \in DOMAIN Registered
  /\ there \in IF table \in DOMAIN Groups THEN {Thing} ELSE SUBSET Thing
  /\ broken \in IF table \in Breakable THEN SUBSET Thing ELSE {{}}
  /\ kind \in IF table = "cpqHoSWRunningTable" THEN [Thing -> Kind]
              ELSE {[i \in Thing |-> "plain"]}
  /\ up = "new" /\ rows = {} /\ valid = FALSE /\ age = 0
  /\ leaked = 0 /\ told = {} /\ taken = {}
  /\ reply = NoReply /\ made = {} /\ steady = {}
  /\ unseen = [i \in Thing |-> IF i \in there THEN 0 ELSE Registered[table].timeout]

-----------------------------------------------------------------------------
(* The cache *)

\* The loads that list things and do no more.  The file systems end with the
\* first one that fails, and then the mount table stays open: with no
\* descriptor left, setmntent fails before the first of them.
cpqhost_arch_fsys_container_load ==
  IF leaked = Descriptors THEN {}
  ELSE {i \in there : \A j \in broken \cap there : i < j}

MountTableLeft == leaked < Descriptors /\ broken \cap there # {}

\* sscanf ends at the space in a name, so that ppid is still that of the
\* process before, and the first of all is init, whose ppid is 0.
Parsed == {i \in there \ broken : kind[i] # "spaced"}
Parent(i) == {j \in Parsed : j <= i /\ \A k \in Parsed : k <= i => k <= j}

\* Mutant: one process that ends meanwhile ends the listing.
SwrunGivesUp == IF broken = {} THEN Parsed ELSE {}

\* A process that cannot be opened is passed over, and so are those of the
\* kernel: ppid 0 or 2.
cpqhost_arch_swrun_container_load ==
  {i \in there \ broken : \E j \in Parent(i) : kind[j] = "plain"}

cpqhost_arch_cpqHoSwVer_container_load == there

Found ==
  IF table = "cpqHoFileSysTable" THEN cpqhost_arch_fsys_container_load
  ELSE IF table = "cpqHoSWRunningTable" THEN cpqhost_arch_swrun_container_load
  ELSE IF table = "cpqHoSwVerTable" THEN cpqhost_arch_cpqHoSwVer_container_load
  ELSE there

\* _cache_free is called before _cache_load unless the flags forbid it.
FreeBeforeLoad == IF valid /\ DONT_FREE_BEFORE_LOAD \notin Flags THEN {} ELSE rows

\* _cache_load ignores what the load of the container returns.
Load ==
  /\ rows' = FreeBeforeLoad \cup Found
  /\ made' = Found \ FreeBeforeLoad
  /\ leaked' = IF table = "cpqHoFileSysTable" /\ MountTableLeft THEN leaked + 1 ELSE leaked
  /\ taken' = {}
  /\ valid' = TRUE
  /\ age' = 0

Expired == age >= Registered[table].timeout

NetsnmpCacheCheckAndReload ==
  IF ~valid \/ Expired THEN Load
  ELSE made' = {} /\ UNCHANGED <<rows, valid, age, leaked, taken>>

\* The alarm of net-snmp that frees the caches nobody asked for.
ReleaseCachedResources ==
  /\ up = "up" /\ valid /\ Expired
  /\ Flags \cap {DONT_AUTO_RELEASE, DONT_FREE_EXPIRED} = {}
  /\ rows' = {} /\ valid' = FALSE /\ made' = {}
  /\ reply' = NoReply
  /\ UNCHANGED <<table, up, age, leaked, taken, worldVars>>

-----------------------------------------------------------------------------
(* Registration, requests and events *)

Register ==
  /\ up = "new"
  /\ up' = "up"
  /\ IF PRELOAD \in Flags THEN Load ELSE UNCHANGED rowVars
  /\ steady' = there
  /\ UNCHANGED <<table, there, broken, kind, told, unseen, reply>>

\* bail: the groups are in the registry of net-snmp by then.
RegisterFails ==
  /\ up = "new"
  /\ up' = IF table \in DOMAIN Groups THEN "dangling" ELSE "failed"
  /\ UNCHANGED <<table, rowVars, worldVars, reply>>

\* The table helper answers for the rows and columns there are not.
Reply(i, c) ==
  IF c \notin Registered[table].min_column .. Registered[table].max_column
  THEN "noSuchObject"
  ELSE IF i \notin rows' THEN "noSuchInstance"
  ELSE Handled(table, i \in rows', c)

Get(i, c) ==
  /\ up = "up"
  /\ NetsnmpCacheCheckAndReload
  /\ reply' = [thing |-> i, column |-> c, answer |-> Reply(i, c)]
  /\ UNCHANGED <<table, up, worldVars>>

\* What a registration that was freed answers is not defined.
GetFreed(i, c) ==
  /\ up = "dangling"
  /\ reply' \in [thing : {i}, column : {c}, answer : {"value", "genErr", "noSuchObject"}]
  /\ UNCHANGED <<table, up, rowVars, worldVars>>

\* The columns that requests are about: the ends and those with no answer.
Columns ==
  LET mn == Registered[table].min_column
      mx == Registered[table].max_column
  IN {mn, mx, mx + 1} \cup {c \in mn .. mx : Handled(table, TRUE, c) # "value"}

\* What changes no row.
RowsStay == made' = {} /\ reply' = NoReply
            /\ UNCHANGED <<table, up, rows, valid, leaked, taken>>

\* An event names what came or went, or it is lost.  One that is about
\* something else may name it too: a message of a bridge that a port left, a
\* removed device whose path ends in the same address.
Announced(i) ==
  \/ UNCHANGED told
  \/ table \in Followed /\ told' = told \cup {i}

Arrives(i) ==
  /\ i \notin there
  /\ there' = there \cup {i}
  /\ unseen' = [unseen EXCEPT ![i] = 0]
  /\ kind' \in IF table = "cpqHoSWRunningTable" THEN {[kind EXCEPT ![i] = k] : k \in Kind}
               ELSE {kind}
  /\ Announced(i)
  /\ RowsStay
  /\ UNCHANGED <<age, broken, steady>>

Leaves(i) ==
  /\ i \in there /\ table \notin DOMAIN Groups
  /\ there' = there \ {i}
  /\ steady' = steady \ {i}
  /\ Announced(i)
  /\ RowsStay
  /\ UNCHANGED <<age, broken, kind, unseen>>

Foreign(i) ==
  /\ i \notin told /\ table \in Followed /\ told' = told \cup {i}
  /\ RowsStay
  /\ UNCHANGED <<age, there, broken, kind, steady, unseen>>

\* The callback asks nobody whether the thing is still there, or gone: it
\* adds a row, drops it, or finds nothing to do.
HandleEvent(i) ==
  /\ up = "up" /\ i \in told
  /\ told' = told \ {i}
  /\ rows' \in {rows, rows \cup {i}, rows \ {i}}
  /\ made' = rows' \ rows
  /\ taken' = (taken \cup rows) \ rows'
  /\ reply' = NoReply
  /\ UNCHANGED <<table, up, valid, age, leaked, there, broken, kind, steady, unseen>>

Breaks(i) ==
  /\ table \in Breakable
  /\ broken' \in {broken \cup {i}, broken \ {i}}
  /\ RowsStay
  /\ UNCHANGED <<age, there, kind, told, steady, unseen>>

TimePasses ==
  /\ age' = Capped(age + Tick)
  /\ unseen' = [i \in Thing |-> IF i \in there THEN 0 ELSE Capped(unseen[i] + Tick)]
  /\ RowsStay
  /\ UNCHANGED <<there, broken, kind, told, steady>>

Next ==
  \/ Register \/ RegisterFails
  \/ \E i \in Thing, c \in Columns : Get(i, c) \/ GetFreed(i, c)
  \/ ReleaseCachedResources
  \/ \E i \in Thing : Arrives(i) \/ Leaves(i) \/ Breaks(i)
  \/ \E i \in Thing : Foreign(i) \/ HandleEvent(i)
  \/ TimePasses

First == Registered[table].min_column

\* Time passes, and somebody walks the table again and again.
Fairness ==
  /\ WF_vars(TimePasses)
  /\ \A i \in Thing : WF_vars(Get(i, First))

Spec == Init /\ [][Next]_vars /\ Fairness

-----------------------------------------------------------------------------
(* Properties *)

\* Tables that are loaded from nothing each time.
Snapshot == {"cpqHoFileSysTable", "cpqHoSWRunningTable", "cpqHoSwVerTable",
             "cpqIdeControllerTable"}

\* Tables whose rows carry something from load to load: the status that the
\* last trap told, the previous sample, a row that others point to.
Remembering ==
  {"cpqFcaHostCntlrTable", "cpqSasHbaTable", "cpqSasPhyDrvTable",
   "cpqNicIfLogMapTable", "cpqNicIfPhysAdapterTable", "cpqSePCIeDiskTable",
   "cpqLinOsDiskTable", "cpqLinOsNetworkInterfaceTable", "cpqLinOsProcessorTable"}

\* Tables whose container is found by its OID and walked without a request:
\* ide_linux.c:289,484, sas_linux.c:699,1102, cpqSasPhyDrvTable.c:547,
\* nic_linux.c:577, cpqNicIfPhysAdapterTable.c:849.
ReadDirectly ==
  {"cpqIdeControllerTable", "cpqSasHbaTable", "cpqSasPhyDrvTable",
   "cpqNicIfLogMapTable", "cpqNicIfPhysAdapterTable"}

\* A table that is loaded from nothing never answers for what was already
\* gone one timeout ago, however loads, the release of idle caches and
\* changes of the machine interleave.
RepliesAreRecent ==
  (table \in Snapshot /\ reply.answer = "value") =>
     unseen[reply.thing] < Registered[table].timeout

\* Neither a load nor the release of idle caches frees or replaces a row that
\* remembers, of a device that is there or not: a row goes only with an event
\* that names it, and the tables without events lose none.
EntriesStay ==
  [][(table \in Remembering) =>
       /\ made' \cap rows = {}
       /\ rows \ rows' \subseteq told \ told']_vars

\* The containers that other code walks without going through the cache list
\* what has been there since the start, whether or not anybody ever asked
\* for the table, and also after it was left alone.  An event may take a row
\* away, but only until the next load.
ContainersAreReadable ==
  (table \in ReadDirectly /\ up = "up") => steady \ taken \subseteq rows

\* What nothing hides from the load.  A file system needs all those before it
\* and a descriptor for the mount table; a process, a name without a space.
Listable(i) ==
  CASE table = "cpqHoFileSysTable" -> (1 .. i) \cap broken = {} /\ leaked < Descriptors
    [] table = "cpqHoSWRunningTable" -> i \notin broken /\ kind[i] = "plain"
    [] OTHER -> TRUE

\* What stays is answered for whenever somebody asks often enough, from the
\* time on when nothing hides it and no event names it: failures before,
\* released caches and lost rows are made good by a load.  (A file system that
\* fails for ever uses up the descriptors, and then none is listed.)
ThingIsAnswered ==
  \A i \in Thing :
    <>[](up = "up" /\ i \in there \ told /\ Listable(i)) =>
      []<>(reply = [thing |-> i, column |-> First, answer |-> "value"])

-----------------------------------------------------------------------------
(* Why the properties hold *)

\* Only a group of scalars outlives the failure of its registration.
GroupsDangle == up = "dangling" => table \in DOMAIN Groups

\* Before its registration a table has no rows and answers nobody.
NothingYet == up = "new" => rows = {} /\ made = {} /\ reply = NoReply

\* What is there is seen now.
HereIsSeen == \A i \in there : unseen[i] = 0

\* A table that is loaded from nothing has no rows but those of its last
\* load, and none that was gone before it.
LastLoad ==
  (table \in Snapshot) => /\ (~valid => rows = {})
                          /\ \A i \in rows : unseen[i] <= age

\* The other tables hear of nothing.
NoEvents == told # {} => table \in Followed

IInv == /\ TypeOK /\ GroupsDangle /\ NothingYet /\ HereIsSeen /\ LastLoad /\ NoEvents
        /\ ContainersAreReadable /\ RepliesAreRecent
=============================================================================
