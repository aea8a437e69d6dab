----------------------------- MODULE NicTables ------------------------------
(***************************************************************************)
(* The two tables of network interfaces (cpqNic, nic_linux.c): one row for *)
(* each interface in cpqNicIfLogMapTable, whose condition for a bond or a  *)
(* bridge is made of its members, and one for each adapter in              *)
(* cpqNicIfPhysAdapterTable, with the traps.  Loads make rows, and read    *)
(* the rows there are again; netlink messages read the row of one          *)
(* interface again, or remove it.                                          *)
(***************************************************************************)
EXTENDS Integers, FiniteSets, FiniteSetsExt

CONSTANTS
  Nic,         \* adapters; the kernel does not use an index twice
  Group,       \* bonding interfaces and bridges
  Lo,          \* the interface "lo", which is always there and OK
  Split,       \* adapters that are not function 0 of their card
  Wide,        \* interfaces whose index is not a signed char (128 to 255)
  Steady,      \* adapters whose link stays OK and that no one moves, to bound the runs
  Place,       \* the place of an interface in the order of the names
  MaxChanges   \* bound on the changes of the machine

Interface == Nic \cup Group \cup {Lo}
NoGroup == "none"
NoInterface == "none"

ASSUME NicAssumption ==
  /\ NoInterface \notin Interface
  /\ Nic \cap Group = {} /\ Lo \notin Nic \cup Group
  /\ Split \subseteq Nic
  /\ Wide \subseteq Interface /\ Steady \subseteq Nic
  /\ Place \in [Interface -> Nat]
  /\ \A i, j \in Interface : Place[i] = Place[j] => i = j
  /\ MaxChanges \in Nat

VARIABLES
  Bond,        \* the bonds among the groups; it does not change
  link,        \* the state of each interface, or "absent" or "gone"
  master,      \* the group of an adapter, or NoGroup
  changes,     \* changes so far
  pending,     \* interfaces with a message in the socket
  left,        \* ports of a bridge with a message that they left it
  at,          \* "log0", "phys0" (the loads at start), "idle", "log" or "phys"
  todo,        \* interfaces that the load has still to visit
  found,       \* an interface without a row that the load is about to add
  lcond,       \* cpqNicIfLogMapCondition, 0 where there is no row
  pstat,       \* cpqNicIfPhysAdapterStatus, 0 where there is no row
  ifLogMapOverallStatus,
  health,      \* the entry of cpqHoMibHealthStatusArray, and cond
  crashed,     \* what the agent followed a null pointer for, or NoInterface
  \* for the properties
  told,        \* the status that the traps leave a manager with
  fresh,       \* the row that was inserted after ifLogMapOverallStatus was made
  unlisted,    \* groups made, or whose row was removed, since a load began
  missed       \* interfaces whose last message was lost

worldVars == <<Bond, link, master, changes>>
logVars == <<lcond, ifLogMapOverallStatus, fresh>>
physVars == <<pstat, crashed, told>>
socketVars == <<pending, left, missed>>
loadVars == <<at, todo, found>>
vars == <<worldVars, logVars, physVars, socketVars, loadVars, health, unlisted>>

ADAPTER_CONDITION_OTHER == 1
ADAPTER_CONDITION_OK == 2
MAP_CONDITION_DEGRADED == 3
ADAPTER_CONDITION_FAILED == 4
STATUS_GENERAL_FAILURE == 3
Condition == ADAPTER_CONDITION_OTHER .. ADAPTER_CONDITION_FAILED
Link == {"ok", "failed", "other"}

TypeOK ==
  /\ Bond \in SUBSET Group
  /\ link \in [Interface -> Link \cup {"absent", "gone"}]
  /\ master \in [Nic -> Group \cup {NoGroup}]
  /\ changes \in 0 .. MaxChanges
  /\ pending \in SUBSET Interface /\ left \in SUBSET Interface
  /\ at \in {"log0", "phys0", "idle", "log", "phys"}
  /\ todo \in SUBSET Interface /\ found \in Interface \cup {NoInterface}
  /\ lcond \in [Interface -> Condition \cup {0}]
  /\ pstat \in [Nic -> {0, ADAPTER_CONDITION_OTHER, ADAPTER_CONDITION_OK, ADAPTER_CONDITION_FAILED}]
  /\ ifLogMapOverallStatus \in Condition \ {ADAPTER_CONDITION_OTHER}
  /\ health \in Condition \ {ADAPTER_CONDITION_OTHER}
  /\ crashed \in Interface \cup {NoInterface}
  /\ told \in [Nic -> {ADAPTER_CONDITION_OTHER, ADAPTER_CONDITION_OK, ADAPTER_CONDITION_FAILED}]
  /\ fresh \in Interface \cup {NoInterface}
  /\ unlisted \in SUBSET Group
  /\ missed \in SUBSET Interface

Bridge == Group \ Bond
Present == {i \in Interface : link[i] \in Link}
Members(g) == {n \in Nic \cap Present : master[n] = g}
Running == crashed = NoInterface

\* init_cpqNic: the load of the first table is about to begin.
Init ==
  /\ Bond \in SUBSET Group
  /\ link \in [Interface -> {"ok", "failed", "absent"}]
  /\ \A g \in Group : link[g] \in {"ok", "absent"}
  /\ \A n \in Steady \cup {Lo} : link[n] = "ok"
  /\ master \in [Nic -> Group \cup {NoGroup}]
  /\ \A n \in Nic : master[n] # NoGroup => {n, master[n]} \subseteq Present
  /\ changes = 0 /\ pending = {} /\ left = {} /\ missed = {}
  /\ at = "log0" /\ todo = Present /\ found = NoInterface
  /\ lcond = [i \in Interface |-> 0]
  /\ pstat = [n \in Nic |-> 0]
  /\ ifLogMapOverallStatus = ADAPTER_CONDITION_OK
  /\ health = ADAPTER_CONDITION_OK
  /\ crashed = NoInterface
  /\ told = [n \in Nic |-> ADAPTER_CONDITION_OTHER]
  /\ fresh = NoInterface /\ unlisted = {}

-----------------------------------------------------------------------------
(* The machine *)

\* A change is announced, unless the socket is not open yet or has no room.
\* Of a port that leaves a bridge, the bridge tells apart (AF_BRIDGE).
Change(I, Ports) ==
  /\ Running /\ changes < MaxChanges
  /\ changes' = changes + 1 /\ UNCHANGED Bond
  /\ \/ /\ at \notin {"log0", "phys0"}
        /\ pending' = pending \cup I
        /\ missed' = missed \ I
        /\ left' \in {left, left \cup Ports}
     \/ /\ missed' = missed \cup I
        /\ UNCHANGED <<pending, left>>
  /\ UNCHANGED <<logVars, physVars, loadVars, health>>

LinkChanges(i) ==
  /\ i \in Present
  /\ Change({i}, {})
  /\ \E l \in Link \ {link[i]} : link' = [link EXCEPT ![i] = l]
  /\ UNCHANGED <<master, unlisted>>

MasterChanges(n) ==
  /\ n \in Present
  /\ Change({n}, {m \in {n} : master[n] \in Bridge})
  /\ \E g \in (Group \cap Present) \cup {NoGroup} :
       master[n] # g /\ master' = [master EXCEPT ![n] = g]
  /\ UNCHANGED <<link, unlisted>>

\* A bond may be a port, too: of a bridge that is none of Group.
BondLeavesBridge(b) ==
  /\ b \in Present
  /\ Change({b}, {b})
  /\ UNCHANGED <<link, master, unlisted>>

\* A group may come with its members.
Appears(i) ==
  /\ link[i] = "absent"
  /\ \E l \in Link : link' = [link EXCEPT ![i] = l]
  /\ \E M \in SUBSET {n \in Nic \cap Present : i \in Group /\ master[n] = NoGroup} :
       /\ master' = [n \in Nic |-> IF n \in M THEN i ELSE master[n]]
       /\ Change({i} \cup M, {})
  /\ unlisted' = unlisted \cup ({i} \cap Group)

Vanishes(i) ==
  /\ i \in Present
  /\ Change({i}, IF i \in Bridge THEN Members(i) ELSE {i})
  /\ link' = [link EXCEPT ![i] = "gone"]
  /\ master' = [n \in Nic |-> IF i \in {n, master[n]} THEN NoGroup ELSE master[n]]
  /\ UNCHANGED unlisted

-----------------------------------------------------------------------------
(* What is read of an interface *)

\* Of a name that is no more, the flags and the carrier read as -1.
get_if_status(i) ==
  IF link[i] = "failed" THEN ADAPTER_CONDITION_FAILED
  ELSE IF link[i] = "other" THEN ADAPTER_CONDITION_OTHER
  ELSE ADAPTER_CONDITION_OK

\* Mutant: a bond without members is listed as little as such a bridge.
HasTypeIfUsed(i) == i \in Nic \cup {Lo} \/ Members(i) # {}

\* get_iftype(i) > 0: the interface is shown at all.
HasType(i) == i \in Nic \cup Bond \cup {Lo} \/ Members(i) # {}

\* A member is looked up by its index, which was kept in a char.
OKCount(g) ==
  Cardinality({n \in Members(g) \ Wide : get_if_status(n) = ADAPTER_CONDITION_OK})

get_bond_status(b) ==
  IF OKCount(b) = 0 \/ get_if_status(b) # ADAPTER_CONDITION_OK THEN ADAPTER_CONDITION_FAILED
  ELSE IF OKCount(b) = Cardinality(Members(b)) THEN ADAPTER_CONDITION_OK
  ELSE MAP_CONDITION_DEGRADED

get_bridge_status(b) ==
  IF OKCount(b) = Cardinality(Members(b)) THEN ADAPTER_CONDITION_OK
  ELSE ADAPTER_CONDITION_FAILED

\* A group that is gone has no type any more.
LogCondition(i) ==
  IF i \in Present \cap Bond THEN get_bond_status(i)
  ELSE IF i \in Present \cap Bridge /\ HasType(i) THEN get_bridge_status(i)
  ELSE get_if_status(i)

-----------------------------------------------------------------------------
(* The loads *)

\* Both loads list the interfaces when they begin, and visit them by name.
Visits(i) == todo' = todo \ {i} /\ \A j \in todo : Place[i] <= Place[j]

-----------------------------------------------------------------------------
(* cpqNicIfLogMapTable *)

\* Mutant: the condition of the interface that was read last.
OverallOfOne(i) == Max({ADAPTER_CONDITION_OK, lcond'[i]})

\* Over the rows in the container: a new row is inserted afterwards.
Overall(i) ==
  Max({ADAPTER_CONDITION_OK} \cup {lcond'[j] : j \in {k \in Interface : lcond[k] # 0}})

cpqNicIfLogMap_reload_entry(i) ==
  /\ lcond' = [lcond EXCEPT ![i] = LogCondition(i)]
  /\ ifLogMapOverallStatus' = Overall(i)
  /\ fresh' = IF lcond[i] = 0 THEN i ELSE NoInterface

\* The agent answers a request for the table after its cache has expired.
LogStart ==
  /\ Running /\ at = "idle"
  /\ at' = "log" /\ todo' = Present
  /\ ifLogMapOverallStatus' = ADAPTER_CONDITION_OK
  /\ unlisted' = {}
  /\ UNCHANGED <<worldVars, physVars, socketVars, lcond, fresh, found, health>>

LogVisit ==
  /\ Running /\ at \in {"log0", "log"} /\ found = NoInterface
  /\ \E i \in todo :
       /\ Visits(i)
       /\ IF i \in Present /\ HasType(i)
          THEN IF lcond[i] = 0
               THEN found' = i /\ UNCHANGED logVars
               ELSE cpqNicIfLogMap_reload_entry(i) /\ UNCHANGED found
          ELSE UNCHANGED <<found, logVars>>
  /\ UNCHANGED <<worldVars, physVars, socketVars, at, health, unlisted>>

\* The name is looked up once more for a new row.  Of an interface that has
\* gone in the meantime a null row is inserted, which the container reads.
LogInsert ==
  /\ Running /\ found # NoInterface
  /\ found' = NoInterface
  /\ IF found \in Present
     THEN cpqNicIfLogMap_reload_entry(found) /\ UNCHANGED crashed
     ELSE crashed' = found /\ UNCHANGED logVars
  /\ UNCHANGED <<worldVars, socketVars, pstat, told, at, todo, health, unlisted>>

\* Mutant: the condition reaches the host MIB at start only.
LogEndQuietly ==
  /\ Running /\ at \in {"log0", "log"} /\ todo = {} /\ found = NoInterface
  /\ IF at = "log0"
     THEN at' = "phys0" /\ todo' = Present /\ health' = ifLogMapOverallStatus
     ELSE at' = "idle" /\ UNCHANGED <<todo, health>>
  /\ UNCHANGED <<worldVars, logVars, physVars, socketVars, found, unlisted>>

LogEnd ==
  /\ Running /\ at \in {"log0", "log"} /\ todo = {} /\ found = NoInterface
  /\ health' = ifLogMapOverallStatus
  /\ IF at = "log0"
     THEN at' = "phys0" /\ todo' = Present
     ELSE at' = "idle" /\ UNCHANGED todo
  /\ UNCHANGED <<worldVars, logVars, physVars, socketVars, found, unlisted>>

-----------------------------------------------------------------------------
(* cpqNicIfPhysAdapterTable *)

\* Mutant: no trap tells that the link is back.
LinkTrapOfFailure(old, new) ==
  IF new >= STATUS_GENERAL_FAILURE /\ old = ADAPTER_CONDITION_OK THEN "down" ELSE "none"

LinkTrap(old, new) ==
  IF new >= STATUS_GENERAL_FAILURE /\ old = ADAPTER_CONDITION_OK THEN "down"
  ELSE IF new = ADAPTER_CONDITION_OK /\ old >= STATUS_GENERAL_FAILURE THEN "up"
  ELSE "none"

\* With a link trap of a member of a bond goes one about the redundancy.
TellsRedundancy(n) == master[n] \in Bond

\* SendNicTrap takes the count for it from the row of the bond, if it finds one.
SendNicTrap(n) ==
  crashed' = IF TellsRedundancy(n) /\ lcond[master[n]] = 0 THEN master[n] ELSE crashed

\* No trap tells of a status that is OTHER, and a new row has been OTHER: a
\* manager must look at the row then.
cpqNicIfPhysAdapter_reload_entry(n) ==
  LET old == IF pstat[n] = 0 THEN ADAPTER_CONDITION_OTHER ELSE pstat[n]
      new == get_if_status(n)
      trap == LinkTrap(old, new)
  IN
  /\ pstat' = [pstat EXCEPT ![n] = new]
  /\ told' = [told EXCEPT ![n] =
       IF trap = "down" THEN ADAPTER_CONDITION_FAILED
       ELSE IF trap = "up" THEN ADAPTER_CONDITION_OK
       ELSE IF ADAPTER_CONDITION_OTHER \in {old, new} THEN new ELSE told[n]]
  /\ IF trap = "none" THEN UNCHANGED crashed ELSE SendNicTrap(n)

PhysStart ==
  /\ Running /\ at = "idle"
  /\ at' = "phys" /\ todo' = Present
  /\ UNCHANGED <<worldVars, logVars, physVars, socketVars, found, health, unlisted>>

\* Only an interface with a device gets a row; what the row says of the card
\* does not change later.
ifphys_entry_load(n) == n \in Nic \cap Present

\* The card of a new row is described by its function 0, whose node is taken
\* to be in pci_root when that of the adapter is.
NoFunction0(i) == i \in Split /\ pstat[i] = 0

PhysVisit ==
  /\ Running /\ at \in {"phys0", "phys"}
  /\ \E i \in todo :
       /\ Visits(i)
       /\ \/ /\ ifphys_entry_load(i)
             /\ cpqNicIfPhysAdapter_reload_entry(i)
             /\ missed' = missed \ {i}
          \/ /\ ifphys_entry_load(i) /\ NoFunction0(i)
             /\ crashed' = i
             /\ UNCHANGED <<pstat, told, missed>>
          \/ /\ ~ifphys_entry_load(i)
             /\ UNCHANGED <<physVars, missed>>
  /\ UNCHANGED <<worldVars, logVars, pending, left, at, found, health, unlisted>>

\* At start the socket is opened now, and all interfaces are asked for.
PhysEnd ==
  /\ Running /\ at \in {"phys0", "phys"} /\ todo = {}
  /\ at' = "idle"
  /\ IF at = "phys0"
     THEN /\ pending' = Present
          /\ missed' = missed \ Present
          /\ health' = ifLogMapOverallStatus
     ELSE UNCHANGED <<pending, missed, health>>
  /\ UNCHANGED <<worldVars, logVars, physVars, left, todo, found, unlisted>>

-----------------------------------------------------------------------------
(* cpqnic_iflink_process *)

cpqNicIfLogMapTable_cache_reload(i) ==
  IF lcond[i] # 0 THEN cpqNicIfLogMap_reload_entry(i) ELSE UNCHANGED logVars

cpqNicIfPhysAdapterTable_cache_reload(i) ==
  IF i \in Nic /\ pstat[i] # 0
  THEN cpqNicIfPhysAdapter_reload_entry(i)
  ELSE UNCHANGED physVars

\* ifLogMapOverallStatus is left as it is.
cpqNicIfLogMapTable_cache_remove(i) ==
  /\ lcond' = [lcond EXCEPT ![i] = 0]
  /\ UNCHANGED <<ifLogMapOverallStatus, fresh>>

cpqNicIfPhysAdapterTable_cache_remove(i) ==
  /\ pstat' = [n \in Nic |-> IF n = i THEN 0 ELSE pstat[n]]
  /\ UNCHANGED <<crashed, told>>

\* Mutant: the rows of the second table wait for the next load, too.
NewLinkOfFirst(i) ==
  /\ Running /\ at = "idle" /\ i \in pending
  /\ \/ i \in Present /\ pending' = pending \ {i}
     \/ UNCHANGED pending
  /\ cpqNicIfLogMapTable_cache_reload(i)
  /\ UNCHANGED <<worldVars, physVars, left, missed, loadVars, health, unlisted>>

\* A row that is there is read again; a new interface waits for the next load.
\* There may be further messages about the interface.
NewLink(i) ==
  /\ Running /\ at = "idle" /\ i \in pending
  /\ \/ i \in Present /\ pending' = pending \ {i}
     \/ UNCHANGED pending
  /\ cpqNicIfLogMapTable_cache_reload(i)
  /\ cpqNicIfPhysAdapterTable_cache_reload(i)
  /\ UNCHANGED <<worldVars, left, missed, loadVars, health, unlisted>>

\* The family of the message is not looked at: a port that leaves its bridge
\* loses its rows, although it is there, until the loads make them again.
DelLink(i) ==
  /\ Running /\ at = "idle"
  /\ \/ i \in pending \ Present /\ pending' = pending \ {i} /\ UNCHANGED left
     \/ i \in left /\ left' = left \ {i} /\ UNCHANGED pending
  /\ cpqNicIfLogMapTable_cache_remove(i)
  /\ cpqNicIfPhysAdapterTable_cache_remove(i)
  /\ unlisted' = unlisted \cup ({i} \cap Group)
  /\ UNCHANGED <<worldVars, missed, loadVars, health>>

-----------------------------------------------------------------------------

Next ==
  \/ \E i \in (Nic \cup Group) \ Steady : LinkChanges(i) \/ Appears(i) \/ Vanishes(i)
  \/ \E n \in Nic \ Steady : MasterChanges(n)
  \/ \E b \in Bond : BondLeavesBridge(b)
  \/ LogStart \/ LogVisit \/ LogInsert \/ LogEnd
  \/ PhysStart \/ PhysVisit \/ PhysEnd
  \/ \E i \in Interface : NewLink(i) \/ DelLink(i)

Spec == Init /\ [][Next]_vars

\* A manager keeps asking for the first table, whose cache lasts 30 seconds,
\* and a load in progress goes on.
Fairness ==
  /\ SF_vars(LogStart)
  /\ WF_vars(LogVisit \/ LogInsert \/ LogEnd \/ PhysVisit \/ PhysEnd)

FairSpec == Spec /\ Fairness

-----------------------------------------------------------------------------
(* Properties *)

\* When its messages are worked through and none was lost, the row of an
\* adapter has the status of its link, and the rows of an interface that is
\* gone are gone, whatever loads came in between (cpqnic_iflink_process).
RowsAreTrue ==
  at = "idle" =>
    \A n \in Nic \ (pending \cup missed) :
      /\ n \in Present /\ pstat[n] # 0 => pstat[n] = get_if_status(n)
      /\ n \notin Present => pstat[n] = 0 /\ lcond[n] = 0

\* The condition of all interfaces is not better than any row, although the
\* messages change one row at a time and a load begins with OK.  The exception
\* is the row that was inserted last, which nothing has read since
\* (cpqNicIfLogMap_reload_entry).
OverallCoversRows ==
  at \notin {"log0", "log"} => \A i \in Interface \ {fresh} : lcond[i] <= ifLogMapOverallStatus

\* The manager who goes by the traps knows the link: when the messages about
\* an adapter are worked through and none was lost, what the traps told last is
\* its link, whatever loads and messages were in between, and unless its row
\* has been OTHER or is new since (cpqNicIfPhysAdapter_reload_entry).
TrapsFollowLink ==
  at = "idle" =>
    \A n \in (Nic \cap Present) \ (pending \cup missed) :
      pstat[n] # 0 => told[n] = get_if_status(n)

\* The agent follows a null pointer to the row of a bond that is there only if
\* no load of the first table began since the bond was made, or since it left
\* a bridge; the order of the loads at start does not matter for it
\* (SendNicTrap, cpqnic_iflink_process).
CrashOnlyForUnlisted ==
  crashed \in Bond /\ crashed \in Present => crashed \in unlisted

\* An adapter that stays failed makes the health that the host MIB shows
\* failed in the end, though a row that is new is left out at first, and
\* though the messages do not touch the health (LogEnd).
FailureReachesHealth ==
  \A n \in Nic \ Steady :
    <>[](Running /\ link[n] = "failed") => <>[](health = ADAPTER_CONDITION_FAILED)

-----------------------------------------------------------------------------
(***************************************************************************)
(* Why the properties hold: NicTablesProofs.                               *)
(***************************************************************************)

\* Members belong to groups that are there.
MastersExist == \A n \in Nic : master[n] # NoGroup => {n, master[n]} \subseteq Present

\* Messages come when the socket is open.
SocketIsClosed == at \in {"log0", "phys0"} => pending = {}

LoIsThere == link[Lo] = "ok"

\* A bond that a load has listed has its row, or gets it in this load.
BondsAreListed ==
  \A b \in (Bond \cap Present) \ unlisted :
    lcond[b] # 0 \/ (at \in {"log0", "log"} /\ b \in todo \cup {found})

\* In a load, "lo" is visited yet, or was when the overall condition was made.
LoadCoversRows ==
  \/ at \in {"log0", "log"} /\ Lo \in todo \cup {found}
  \/ \A i \in Interface \ {fresh} : lcond[i] <= ifLogMapOverallStatus

\* Every change of a row between OK and failed is told.
ChangesAreTold == \A n \in Nic : pstat[n] # 0 => told[n] = pstat[n]

\* True at any time, not only when the thread is idle.
RowsTrue(n) ==
  n \notin pending \cup missed =>
    /\ n \in Present /\ pstat[n] # 0 => pstat[n] = get_if_status(n)
    /\ n \notin Present => pstat[n] = 0 /\ lcond[n] = 0

IInv ==
  /\ MastersExist /\ SocketIsClosed /\ LoIsThere /\ BondsAreListed
  /\ ChangesAreTold /\ CrashOnlyForUnlisted /\ OverallCoversRows /\ LoadCoversRows
  /\ \A n \in Nic : RowsTrue(n)
=============================================================================
