--------------------------- MODULE NicTablesProofs --------------------------
(***************************************************************************)
(* The tables of network interfaces: types, the rows against the links,    *)
(* the overall condition, the traps, and the missing row of a bond.        *)
(***************************************************************************)
EXTENDS NicTables, TLAPS

-----------------------------------------------------------------------------
(* What is read of an interface *)

LEMMA Numbers ==
  /\ ADAPTER_CONDITION_OTHER = 1 /\ ADAPTER_CONDITION_OK = 2
  /\ MAP_CONDITION_DEGRADED = 3 /\ ADAPTER_CONDITION_FAILED = 4
  /\ STATUS_GENERAL_FAILURE = 3 /\ Condition = 1 .. 4
BY DEF ADAPTER_CONDITION_OTHER, ADAPTER_CONDITION_OK, MAP_CONDITION_DEGRADED,
       ADAPTER_CONDITION_FAILED, STATUS_GENERAL_FAILURE, Condition

LEMMA StatusType ==
  ASSUME NEW i
  PROVE  get_if_status(i) \in {1, 2, 4}
BY Numbers DEF get_if_status

LEMMA LogConditionType ==
  ASSUME NEW i
  PROVE  LogCondition(i) \in 1 .. 4
<1>1. get_bond_status(i) \in 1 .. 4 /\ get_bridge_status(i) \in 1 .. 4
  BY Numbers DEF get_bond_status, get_bridge_status
<1> QED BY <1>1, StatusType DEF LogCondition

\* The largest of some conditions, OK among them.
LEMMA MaxIs ==
  ASSUME NEW S \in SUBSET (0 .. 4), 2 \in S
  PROVE  Max(S) \in 2 .. 4 /\ \A c \in S : c <= Max(S)
<1>1. \E m \in S : \A c \in S : m >= c
  <2>1. CASE 4 \in S
    BY <2>1
  <2>2. CASE 4 \notin S /\ 3 \in S
    BY <2>2
  <2>3. CASE 4 \notin S /\ 3 \notin S
    BY <2>3
  <2> QED BY <2>1, <2>2, <2>3
<1>2. Max(S) \in S /\ \A c \in S : Max(S) >= c
  BY <1>1 DEF Max
<1>3. \A m \in S : (\A c \in S : m >= c) => m \in 2 .. 4 /\ \A c \in S : c <= m
  OBVIOUS
<1> QED BY <1>2, <1>3

-----------------------------------------------------------------------------
(* What is done to one row *)

RowsTypeOK ==
  /\ lcond \in [Interface -> Condition \cup {0}]
  /\ pstat \in [Nic -> {0, ADAPTER_CONDITION_OTHER, ADAPTER_CONDITION_OK, ADAPTER_CONDITION_FAILED}]
  /\ ifLogMapOverallStatus \in Condition \ {ADAPTER_CONDITION_OTHER}
  /\ crashed \in Interface \cup {NoInterface}
  /\ told \in [Nic -> {ADAPTER_CONDITION_OTHER, ADAPTER_CONDITION_OK, ADAPTER_CONDITION_FAILED}]
  /\ fresh \in Interface \cup {NoInterface}

LEMMA NumberSets ==
  /\ Condition \cup {0} = 0 .. 4 /\ Condition \ {ADAPTER_CONDITION_OTHER} = 2 .. 4
  /\ {0, ADAPTER_CONDITION_OTHER, ADAPTER_CONDITION_OK, ADAPTER_CONDITION_FAILED} = {0, 1, 2, 4}
  /\ {ADAPTER_CONDITION_OTHER, ADAPTER_CONDITION_OK, ADAPTER_CONDITION_FAILED} = {1, 2, 4}
BY Numbers

LEMMA RowsTypeIs ==
  RowsTypeOK <=> /\ lcond \in [Interface -> 0 .. 4]
                 /\ pstat \in [Nic -> {0, 1, 2, 4}]
                 /\ ifLogMapOverallStatus \in 2 .. 4
                 /\ crashed \in Interface \cup {NoInterface}
                 /\ told \in [Nic -> {1, 2, 4}]
                 /\ fresh \in Interface \cup {NoInterface}
BY NumberSets, Zenon DEF RowsTypeOK

CoversRows == \A i \in Interface \ {fresh} : lcond[i] <= ifLogMapOverallStatus

\* A row of the first table is read: the overall condition covers all rows
\* but one that is new.
LEMMA LogReload ==
  ASSUME RowsTypeOK, NEW i \in Interface, cpqNicIfLogMap_reload_entry(i)
  PROVE  /\ lcond' \in [Interface -> 0 .. 4]
         /\ lcond'[i] \in 1 .. 4
         /\ \A j \in Interface : j # i => lcond'[j] = lcond[j]
         /\ ifLogMapOverallStatus' \in 2 .. 4
         /\ fresh' \in Interface \cup {NoInterface}
         /\ CoversRows'
<1>1. /\ lcond' = [lcond EXCEPT ![i] = LogCondition(i)]
      /\ ifLogMapOverallStatus' = Overall(i)
      /\ fresh' = IF lcond[i] = 0 THEN i ELSE NoInterface
  BY DEF cpqNicIfLogMap_reload_entry
<1>2. /\ lcond' \in [Interface -> 0 .. 4] /\ lcond'[i] \in 1 .. 4
      /\ \A j \in Interface : j # i => lcond'[j] = lcond[j]
  BY <1>1, LogConditionType, RowsTypeIs
<1> DEFINE S == {2} \cup {lcond'[j] : j \in {k \in Interface : lcond[k] # 0}}
<1>3. S \in SUBSET (0 .. 4) /\ 2 \in S
  BY <1>2
<1>4. Overall(i) = Max(S)
  BY Numbers DEF Overall
<1>5. \A j \in Interface : lcond[j] # 0 => lcond'[j] \in S
  OBVIOUS
<1> HIDE DEF S
<1>6. ifLogMapOverallStatus' \in 2 .. 4 /\ \A c \in S : c <= ifLogMapOverallStatus'
  BY <1>1, <1>3, <1>4, MaxIs
<1>7. ASSUME NEW j \in Interface, j # fresh' PROVE lcond'[j] <= ifLogMapOverallStatus'
  <2>1. CASE lcond[j] # 0
    BY <1>5, <1>6, <2>1
  <2>2. CASE lcond[j] = 0
    <3>1. j # i
      BY <1>1, <1>7, <2>2
    <3> QED BY <1>2, <1>6, <2>2, <3>1
  <2> QED BY <2>1, <2>2
<1> QED BY <1>1, <1>2, <1>6, <1>7 DEF CoversRows

\* A row of the second table is read, and a trap sent.
LEMMA PhysReload ==
  ASSUME RowsTypeOK, NEW n \in Nic, cpqNicIfPhysAdapter_reload_entry(n)
  PROVE  /\ pstat' \in [Nic -> {0, 1, 2, 4}] /\ pstat'[n] = get_if_status(n)
         /\ told' \in [Nic -> {1, 2, 4}]
         /\ \A m \in Nic : m # n => pstat'[m] = pstat[m] /\ told'[m] = told[m]
         /\ (pstat[n] # 0 => told[n] = pstat[n]) => told'[n] = pstat'[n]
         /\ \/ crashed' = crashed
            \/ master[n] \in Bond /\ lcond[master[n]] = 0 /\ crashed' = master[n]
<1> DEFINE old == IF pstat[n] = 0 THEN ADAPTER_CONDITION_OTHER ELSE pstat[n]
           new == get_if_status(n)
           trap == LinkTrap(old, new)
           tells == IF trap = "down" THEN ADAPTER_CONDITION_FAILED
                    ELSE IF trap = "up" THEN ADAPTER_CONDITION_OK
                    ELSE IF ADAPTER_CONDITION_OTHER \in {old, new} THEN new ELSE told[n]
<1>1. /\ pstat' = [pstat EXCEPT ![n] = new]
      /\ told' = [told EXCEPT ![n] = tells]
      /\ \/ crashed' = crashed
         \/ master[n] \in Bond /\ lcond[master[n]] = 0 /\ crashed' = master[n]
  BY DEF cpqNicIfPhysAdapter_reload_entry, SendNicTrap, TellsRedundancy
<1>2. new \in {1, 2, 4} /\ old \in {1, 2, 4} /\ old = IF pstat[n] = 0 THEN 1 ELSE pstat[n]
  BY StatusType, Numbers, RowsTypeIs
<1>3. pstat \in [Nic -> {0, 1, 2, 4}] /\ told \in [Nic -> {1, 2, 4}]
  BY RowsTypeIs
<1> HIDE DEF old
<1>4. new = get_if_status(n)
  OBVIOUS
<1> HIDE DEF new
<1>5. /\ trap = "down" <=> new \in {4} /\ old = 2
      /\ trap = "up" <=> new = 2 /\ old = 4
  BY <1>2, Numbers DEF LinkTrap
<1> HIDE DEF trap
<1>6. tells \in {1, 2, 4} /\ ((pstat[n] # 0 => told[n] = pstat[n]) => tells = new)
  BY <1>2, <1>3, <1>5, Numbers
<1> HIDE DEF tells
<1> QED BY <1>1, <1>2, <1>3, <1>4, <1>6

-----------------------------------------------------------------------------
(* What the machine does *)

Moves == \/ \E i \in Nic \cup Group : LinkChanges(i) \/ Appears(i) \/ Vanishes(i)
         \/ \E n \in Nic : MasterChanges(n)
         \/ \E b \in Bond : BondLeavesBridge(b)

WorldTypeOK ==
  /\ Bond \in SUBSET Group
  /\ link \in [Interface -> Link \cup {"absent", "gone"}]
  /\ master \in [Nic -> Group \cup {NoGroup}]
  /\ changes \in 0 .. MaxChanges
  /\ pending \in SUBSET Interface /\ left \in SUBSET Interface
  /\ unlisted \in SUBSET Group
  /\ missed \in SUBSET Interface

\* An interface of which there is no news is as it was; a group that comes is
\* not listed.
Told(i) ==
  /\ i \notin pending' \cup missed' => i \notin pending \cup missed /\ link'[i] = link[i]
  /\ i \in Group \cap Present' => i \in Present \/ i \in unlisted'

LEMMA LinkIs ==
  /\ Link = {"ok", "failed", "other"}
  /\ \A i : i \in Present <=> i \in Interface /\ link[i] \in Link
BY DEF Link, Present

LEMMA ChangeIs ==
  ASSUME WorldTypeOK, NEW I \in SUBSET Interface, NEW P \in SUBSET Interface, Change(I, P)
  PROVE  /\ Running /\ changes' \in 0 .. MaxChanges
         /\ UNCHANGED <<Bond, logVars, physVars, loadVars, health>>
         /\ pending' \in SUBSET Interface /\ missed' \in SUBSET Interface
         /\ left' \in SUBSET Interface
         /\ at \in {"log0", "phys0"} => pending' = pending
         /\ \A i : i \notin pending' \cup missed' => i \notin pending \cup missed /\ i \notin I
<1>1. changes' \in 0 .. MaxChanges
  BY NicAssumption DEF Change, WorldTypeOK
<1>2. /\ Running /\ UNCHANGED <<Bond, logVars, physVars, loadVars, health>>
      /\ \/ /\ at \notin {"log0", "phys0"} /\ pending' = pending \cup I /\ missed' = missed \ I
            /\ left' \in {left, left \cup P}
         \/ pending' = pending /\ missed' = missed \cup I /\ left' = left
  BY DEF Change
<1>3. /\ pending \in SUBSET Interface /\ left \in SUBSET Interface /\ missed \in SUBSET Interface
  BY DEF WorldTypeOK
<1> QED BY <1>1, <1>2, <1>3

LEMMA NewsIs ==
  ASSUME WorldTypeOK, NEW I \in SUBSET Interface, NEW P \in SUBSET Present, Change(I, P),
         \A j \in Interface \ I : link'[j] = link[j],
         \A j \in Group \cap Present' : j \in Present \/ j \in unlisted'
  PROVE  \A j \in Interface : Told(j)
<1>1. P \in SUBSET Interface
  BY LinkIs
<1>2. \A j : j \notin pending' \cup missed' => j \notin pending \cup missed /\ j \notin I
  BY <1>1, ChangeIs, Zenon
<1> QED BY <1>2 DEF Told

LEMMA MoveIs ==
  ASSUME WorldTypeOK, MastersExist, Moves
  PROVE  /\ WorldTypeOK' /\ MastersExist' /\ Running
         /\ UNCHANGED <<Bond, logVars, physVars, loadVars, health>>
         /\ unlisted \subseteq unlisted'
         /\ at \in {"log0", "phys0"} => pending' = pending
         /\ \A i \in Interface : Told(i)
         /\ link'[Lo] = link[Lo]
<1> USE LinkIs
<1>1. /\ Nic \subseteq Interface /\ Group \subseteq Interface /\ Nic \cap Group = {}
      /\ Lo \in Interface /\ Lo \notin Nic \cup Group
  BY NicAssumption DEF Interface
<1>2. ASSUME NEW i \in Nic \cup Group, LinkChanges(i)
      PROVE  /\ WorldTypeOK' /\ MastersExist' /\ unlisted \subseteq unlisted'
             /\ \A j \in Interface : Told(j)
             /\ link'[Lo] = link[Lo]
  <2>1. PICK l \in Link \ {link[i]} : link' = [link EXCEPT ![i] = l]
    BY <1>2 DEF LinkChanges
  <2>2. i \in Present /\ Change({i}, {}) /\ UNCHANGED <<master, unlisted>>
    BY <1>2 DEF LinkChanges
  <2>3. link' \in [Interface -> Link \cup {"absent", "gone"}]
        /\ \A j \in Interface : link'[j] = IF j = i THEN l ELSE link[j]
    BY <2>1 DEF WorldTypeOK
  <2>4. WorldTypeOK'
    BY <2>2, <2>3, ChangeIs DEF WorldTypeOK
  <2>5. \A j : j \in Present' <=> j \in Present
    BY <2>2, <2>3 DEF Present
  <2>6. MastersExist'
    BY <2>2, <2>5 DEF MastersExist
  <2>7. \A j \in Interface : Told(j)
    <3>1. {i} \in SUBSET Interface /\ {} \in SUBSET Present
      BY <1>1, <2>2
    <3> QED BY <2>2, <2>3, <2>5, <3>1, NewsIs
  <2> QED BY <1>1, <2>2, <2>3, <2>4, <2>6, <2>7
<1>3. ASSUME NEW n \in Nic, MasterChanges(n)
      PROVE  /\ WorldTypeOK' /\ MastersExist' /\ unlisted \subseteq unlisted'
             /\ \A j \in Interface : Told(j)
             /\ link'[Lo] = link[Lo]
  <2>1. PICK g \in (Group \cap Present) \cup {NoGroup} : master' = [master EXCEPT ![n] = g]
    BY <1>3 DEF MasterChanges
  <2> DEFINE P == {m \in {n} : master[n] \in Bridge}
  <2>2. n \in Present /\ Change({n}, P) /\ UNCHANGED <<link, unlisted>>
    BY <1>3 DEF MasterChanges
  <2>3. master' \in [Nic -> Group \cup {NoGroup}]
        /\ \A m \in Nic : master'[m] = IF m = n THEN g ELSE master[m]
    BY <2>1 DEF WorldTypeOK
  <2>4. WorldTypeOK'
    BY <1>1, <2>2, <2>3, ChangeIs DEF WorldTypeOK
  <2>5. \A j : j \in Present' <=> j \in Present
    BY <2>2 DEF Present
  <2>6. MastersExist'
    BY <2>2, <2>3, <2>5 DEF MastersExist
  <2>7. \A j \in Interface : Told(j)
    <3>1. {n} \in SUBSET Interface /\ P \in SUBSET Present
      BY <1>1, <2>2
    <3> QED BY <2>2, <2>5, <3>1, NewsIs
  <2> QED BY <2>2, <2>4, <2>6, <2>7
<1>4. ASSUME NEW i \in Nic \cup Group, Appears(i)
      PROVE  /\ WorldTypeOK' /\ MastersExist' /\ unlisted \subseteq unlisted'
             /\ \A j \in Interface : Told(j)
             /\ link'[Lo] = link[Lo]
  <2>1. PICK l \in Link : link' = [link EXCEPT ![i] = l]
    BY <1>4 DEF Appears
  <2>2. PICK M \in SUBSET {n \in Nic \cap Present : i \in Group /\ master[n] = NoGroup} :
          /\ master' = [n \in Nic |-> IF n \in M THEN i ELSE master[n]]
          /\ Change({i} \cup M, {})
    BY <1>4 DEF Appears
  <2>3. link[i] = "absent" /\ unlisted' = unlisted \cup ({i} \cap Group)
    BY <1>4 DEF Appears
  <2>4. i \in Interface /\ {i} \cup M \in SUBSET Interface /\ M \in SUBSET Present
    BY <1>1
  <2>5. link' \in [Interface -> Link \cup {"absent", "gone"}]
        /\ \A j \in Interface : link'[j] = IF j = i THEN l ELSE link[j]
    BY <2>1, <2>4 DEF WorldTypeOK
  <2>6. master' \in [Nic -> Group \cup {NoGroup}]
    BY <2>2 DEF WorldTypeOK
  <2>7. WorldTypeOK'
    <3>1. /\ changes' \in 0 .. MaxChanges /\ Bond' = Bond
          /\ pending' \in SUBSET Interface /\ missed' \in SUBSET Interface
          /\ left' \in SUBSET Interface
      BY <2>2, <2>4, ChangeIs
    <3> QED BY <2>3, <2>5, <2>6, <3>1 DEF WorldTypeOK
  <2>8. \A j : j \in Present' <=> j \in Present \/ j = i
    BY <2>4, <2>5 DEF Present
  <2>9. MastersExist'
    BY <2>2, <2>8 DEF MastersExist
  <2>10. \A j \in Interface : Told(j)
    <3>1. \A j \in Group \cap Present' : j \in Present \/ j \in unlisted'
      BY <2>3, <2>8
    <3>2. {} \in SUBSET Present /\ \A j \in Interface \ ({i} \cup M) : link'[j] = link[j]
      BY <2>5
    <3> QED BY <2>2, <2>4, <3>1, <3>2, NewsIs
  <2> QED BY <1>1, <2>3, <2>5, <2>7, <2>9, <2>10
<1>5. ASSUME NEW i \in Nic \cup Group, Vanishes(i)
      PROVE  /\ WorldTypeOK' /\ MastersExist' /\ unlisted \subseteq unlisted'
             /\ \A j \in Interface : Told(j)
             /\ link'[Lo] = link[Lo]
  <2> DEFINE P == IF i \in Bridge THEN Members(i) ELSE {i}
  <2>1. /\ i \in Present /\ Change({i}, P) /\ UNCHANGED unlisted
        /\ link' = [link EXCEPT ![i] = "gone"]
        /\ master' = [n \in Nic |-> IF i \in {n, master[n]} THEN NoGroup ELSE master[n]]
    BY <1>5 DEF Vanishes
  <2>2. {i} \in SUBSET Interface /\ P \in SUBSET Present /\ P \in SUBSET Interface
    BY <1>1, <2>1 DEF Members
  <2> HIDE DEF P
  <2>3. link' \in [Interface -> Link \cup {"absent", "gone"}]
        /\ \A j \in Interface : link'[j] = IF j = i THEN "gone" ELSE link[j]
    BY <1>1, <2>1 DEF WorldTypeOK
  <2>4. WorldTypeOK'
    <3>1. master' \in [Nic -> Group \cup {NoGroup}]
      BY <2>1 DEF WorldTypeOK
    <3>2. /\ changes' \in 0 .. MaxChanges /\ Bond' = Bond
          /\ pending' \in SUBSET Interface /\ missed' \in SUBSET Interface
          /\ left' \in SUBSET Interface
      BY <2>1, <2>2, ChangeIs
    <3> QED BY <2>1, <2>3, <3>1, <3>2 DEF WorldTypeOK
  <2>5. \A j : j \in Present' <=> (j \in Present /\ j # i)
    BY <2>3 DEF Present
  <2>6. MastersExist'
    BY <2>1, <2>5 DEF MastersExist
  <2>7. \A j \in Interface : Told(j)
    <3>1. /\ \A j \in Interface \ {i} : link'[j] = link[j]
          /\ \A j \in Group \cap Present' : j \in Present \/ j \in unlisted'
      BY <1>1, <2>3, <2>5
    <3> QED BY <2>1, <2>2, <3>1, NewsIs
  <2> QED BY <1>1, <2>1, <2>3, <2>4, <2>6, <2>7
<1>6. ASSUME NEW b \in Bond, BondLeavesBridge(b)
      PROVE  /\ WorldTypeOK' /\ MastersExist' /\ unlisted \subseteq unlisted'
             /\ \A j \in Interface : Told(j)
             /\ link'[Lo] = link[Lo]
  <2>1. b \in Present /\ Change({b}, {b}) /\ UNCHANGED <<link, master, unlisted>>
    BY <1>6 DEF BondLeavesBridge
  <2>2. {b} \in SUBSET Interface /\ {b} \in SUBSET Present
    BY <1>1, <2>1 DEF WorldTypeOK
  <2>3. WorldTypeOK'
    BY <2>1, <2>2, ChangeIs DEF WorldTypeOK
  <2>4. \A j : j \in Present' <=> j \in Present
    BY <2>1 DEF Present
  <2>5. MastersExist'
    BY <2>1, <2>4 DEF MastersExist
  <2>6. \A j \in Interface : Told(j)
    BY <2>1, <2>2, <2>4, NewsIs
  <2> QED BY <2>1, <2>3, <2>5, <2>6
<1>7. /\ Running /\ UNCHANGED <<Bond, logVars, physVars, loadVars, health>>
      /\ at \in {"log0", "phys0"} => pending' = pending
  <2>1. PICK I \in SUBSET Interface, P \in SUBSET Interface : Change(I, P)
    <3>1. CASE \E i \in Nic \cup Group : LinkChanges(i)
      BY <1>1, <3>1 DEF LinkChanges
    <3>2. CASE \E n \in Nic : MasterChanges(n)
      <4>1. PICK n \in Nic : Change({n}, {m \in {n} : master[n] \in Bridge})
        BY <3>2 DEF MasterChanges
      <4>2. {n} \in SUBSET Interface /\ {m \in {n} : master[n] \in Bridge} \in SUBSET Interface
        BY <1>1
      <4> QED BY <4>1, <4>2
    <3>3. CASE \E i \in Nic \cup Group : Appears(i)
      <4>1. PICK i \in Nic \cup Group, M \in SUBSET Nic : Change({i} \cup M, {})
        BY <3>3 DEF Appears
      <4>2. {i} \cup M \in SUBSET Interface
        BY <1>1
      <4> QED BY <4>1, <4>2
    <3>4. CASE \E i \in Nic \cup Group : Vanishes(i)
      <4>1. PICK i \in Nic \cup Group : Change({i}, IF i \in Bridge THEN Members(i) ELSE {i})
        BY <3>4 DEF Vanishes
      <4>2. {i} \in SUBSET Interface /\ Members(i) \in SUBSET Interface
        BY <1>1 DEF Members
      <4> QED BY <4>1, <4>2
    <3>5. CASE \E b \in Bond : BondLeavesBridge(b)
      BY <1>1, <3>5 DEF BondLeavesBridge, WorldTypeOK
    <3> QED BY <3>1, <3>2, <3>3, <3>4, <3>5 DEF Moves
  <2> QED BY <2>1, ChangeIs
<1> QED BY <1>2, <1>3, <1>4, <1>5, <1>6, <1>7 DEF Moves
-----------------------------------------------------------------------------
(* Types *)

LEMMA Steps ==
  ASSUME [Next]_vars
  PROVE  \/ UNCHANGED vars
         \/ Moves
         \/ LogStart \/ LogVisit \/ LogInsert \/ LogEnd
         \/ PhysStart \/ PhysVisit \/ PhysEnd
         \/ \E i \in Interface : NewLink(i) \/ DelLink(i)
BY Zenon DEF Next, Moves

LoadTypeOK ==
  /\ at \in {"log0", "phys0", "idle", "log", "phys"}
  /\ todo \in SUBSET Interface /\ found \in Interface \cup {NoInterface}
  /\ health \in 2 .. 4

LEMMA TypeIs == TypeOK <=> WorldTypeOK /\ RowsTypeOK /\ LoadTypeOK
BY NumberSets, Zenon DEF TypeOK, WorldTypeOK, RowsTypeOK, LoadTypeOK

LEMMA TypeIsThen == (WorldTypeOK /\ RowsTypeOK /\ LoadTypeOK)' => TypeOK'
BY NumberSets, Zenon DEF TypeOK, WorldTypeOK, RowsTypeOK, LoadTypeOK

\* What is left to show of the rows, one table at a time.
LogTypeOK ==
  /\ lcond \in [Interface -> 0 .. 4]
  /\ ifLogMapOverallStatus \in 2 .. 4
  /\ fresh \in Interface \cup {NoInterface}

PhysTypeOK ==
  /\ pstat \in [Nic -> {0, 1, 2, 4}]
  /\ told \in [Nic -> {1, 2, 4}]
  /\ crashed \in Interface \cup {NoInterface}

LEMMA TablesTypeIs == RowsTypeOK <=> LogTypeOK /\ PhysTypeOK
BY NumberSets, Zenon DEF RowsTypeOK, LogTypeOK, PhysTypeOK

LEMMA TablesTypeIsThen == (LogTypeOK /\ PhysTypeOK)' => RowsTypeOK'
BY NumberSets, Zenon DEF RowsTypeOK, LogTypeOK, PhysTypeOK

LEMMA InitType == Init => TypeOK /\ MastersExist
<1> SUFFICES ASSUME Init PROVE TypeOK /\ MastersExist
  OBVIOUS
<1>1. Nic \subseteq Interface /\ Group \subseteq Interface /\ Present \subseteq Interface
  BY DEF Interface, Present
<1>2. WorldTypeOK
  <2>1. link \in [Interface -> Link \cup {"absent", "gone"}]
    BY DEF Init, Link
  <2>2. changes \in 0 .. MaxChanges
    BY NicAssumption DEF Init
  <2> QED BY <2>1, <2>2 DEF Init, WorldTypeOK
<1>3. LogTypeOK /\ PhysTypeOK
  BY Numbers DEF Init, LogTypeOK, PhysTypeOK
<1>4. LoadTypeOK
  BY <1>1, Numbers DEF Init, LoadTypeOK
<1>5. MastersExist
  BY DEF Init, MastersExist
<1> QED BY <1>2, <1>3, <1>4, <1>5, TypeIs, TablesTypeIs

\* What a step of the program leaves alone, and what it may do to a row of
\* each table; the cases of a step are told apart where they matter.
LEMMA VisitedPhys ==
  ASSUME TypeOK, NEW n \in Nic, cpqNicIfPhysAdapter_reload_entry(n), UNCHANGED worldVars
  PROVE  PhysTypeOK'
<1>1. /\ pstat' \in [Nic -> {0, 1, 2, 4}]
      /\ told' \in [Nic -> {1, 2, 4}]
      /\ \/ crashed' = crashed
         \/ master[n] \in Bond /\ lcond[master[n]] = 0 /\ crashed' = master[n]
  BY TypeIs, PhysReload
<1>2. crashed \in Interface \cup {NoInterface} /\ Bond \subseteq Interface
  BY TypeIs, RowsTypeIs DEF WorldTypeOK, Interface
<1> QED BY <1>1, <1>2 DEF PhysTypeOK

LEMMA VisitedLog ==
  ASSUME TypeOK, NEW i \in Interface, cpqNicIfLogMap_reload_entry(i)
  PROVE  LogTypeOK'
BY TypeIs, LogReload DEF LogTypeOK

LEMMA NextType ==
  ASSUME TypeOK, MastersExist, [Next]_vars
  PROVE  TypeOK' /\ MastersExist'
<1>1. WorldTypeOK /\ RowsTypeOK /\ LogTypeOK /\ PhysTypeOK /\ LoadTypeOK
  BY TypeIs, TablesTypeIs
<1>2. Nic \subseteq Interface /\ Group \subseteq Interface /\ Present \subseteq Interface
  BY DEF Interface, Present
<1>3. CASE Moves
  <2>1. WorldTypeOK' /\ MastersExist' /\ UNCHANGED <<Bond, logVars, physVars, loadVars, health>>
    BY <1>1, <1>3, MoveIs
  <2>2. RowsTypeOK' /\ LoadTypeOK'
    BY <1>1, <2>1, Zenon DEF RowsTypeOK, LoadTypeOK, logVars, physVars, loadVars
  <2> QED BY <2>1, <2>2, TypeIsThen
<1> DEFINE Quiet == WorldTypeOK' /\ LoadTypeOK' /\ UNCHANGED worldVars
<1>4. ASSUME Quiet, LogTypeOK', PhysTypeOK'
      PROVE  TypeOK' /\ MastersExist'
  <2>1. MastersExist'
    BY <1>4 DEF MastersExist, Present, worldVars
  <2> QED BY <1>4, <2>1, TypeIsThen, TablesTypeIsThen
<1>5. ASSUME UNCHANGED logVars PROVE LogTypeOK'
  BY <1>1, <1>5 DEF LogTypeOK, logVars
<1>6. ASSUME UNCHANGED physVars PROVE PhysTypeOK'
  BY <1>1, <1>6 DEF PhysTypeOK, physVars
<1>7. CASE UNCHANGED vars
  <2>1. Quiet /\ UNCHANGED logVars /\ UNCHANGED physVars
    BY <1>1, <1>7, Zenon
    DEF vars, worldVars, logVars, physVars, socketVars, loadVars, WorldTypeOK, LoadTypeOK
  <2> QED BY <1>4, <1>5, <1>6, <2>1
<1>8. CASE LogStart
  <2>1. Quiet
    BY <1>1, <1>2, <1>8 DEF LogStart, worldVars, socketVars, WorldTypeOK, LoadTypeOK
  <2>2. LogTypeOK' /\ UNCHANGED physVars
    BY <1>1, <1>8, Numbers DEF LogStart, LogTypeOK
  <2> QED BY <1>4, <1>6, <2>1, <2>2
<1>9. CASE LogEnd
  <2>1. Quiet
    BY <1>1, <1>2, <1>9 DEF LogEnd, worldVars, socketVars, WorldTypeOK, LoadTypeOK, LogTypeOK
  <2>2. UNCHANGED logVars /\ UNCHANGED physVars
    BY <1>9 DEF LogEnd
  <2> QED BY <1>4, <1>5, <1>6, <2>1, <2>2
<1>10. CASE PhysStart
  <2>1. Quiet
    BY <1>1, <1>2, <1>10 DEF PhysStart, worldVars, socketVars, WorldTypeOK, LoadTypeOK
  <2>2. UNCHANGED logVars /\ UNCHANGED physVars
    BY <1>10 DEF PhysStart
  <2> QED BY <1>4, <1>5, <1>6, <2>1, <2>2
<1>11. CASE PhysEnd
  <2>1. Quiet
    BY <1>1, <1>2, <1>11 DEF PhysEnd, worldVars, WorldTypeOK, LoadTypeOK, LogTypeOK
  <2>2. UNCHANGED logVars /\ UNCHANGED physVars
    BY <1>11 DEF PhysEnd
  <2> QED BY <1>4, <1>5, <1>6, <2>1, <2>2
<1>12. CASE LogVisit
  <2>1. PICK i \in todo : /\ todo' = todo \ {i}
                         /\ \/ found' = i /\ UNCHANGED logVars
                            \/ cpqNicIfLogMap_reload_entry(i) /\ UNCHANGED found
                            \/ UNCHANGED <<found, logVars>>
    BY <1>12, Zenon DEF LogVisit, Visits
  <2>2. UNCHANGED <<worldVars, physVars, socketVars, at, health, unlisted>>
    BY <1>12 DEF LogVisit
  <2>3. i \in Interface /\ found' \in Interface \cup {NoInterface}
    BY <1>1, <2>1 DEF LoadTypeOK
  <2>4. Quiet
    BY <1>1, <2>1, <2>2, <2>3 DEF worldVars, socketVars, WorldTypeOK, LoadTypeOK
  <2>5. LogTypeOK'
    BY <1>5, <2>1, <2>3, VisitedLog
  <2> QED BY <1>4, <1>6, <2>2, <2>4, <2>5
<1>13. CASE LogInsert
  <2>1. /\ found # NoInterface /\ found' = NoInterface
        /\ UNCHANGED <<worldVars, socketVars, pstat, told, at, todo, health, unlisted>>
        /\ \/ cpqNicIfLogMap_reload_entry(found) /\ UNCHANGED crashed
           \/ crashed' = found /\ UNCHANGED logVars
    BY <1>13, Zenon DEF LogInsert
  <2>2. found \in Interface
    BY <1>1, <2>1 DEF LoadTypeOK
  <2>3. Quiet
    BY <1>1, <2>1 DEF worldVars, socketVars, WorldTypeOK, LoadTypeOK
  <2>4. LogTypeOK'
    BY <1>5, <2>1, <2>2, VisitedLog
  <2>5. PhysTypeOK'
    BY <1>1, <2>1, <2>2 DEF PhysTypeOK
  <2> QED BY <1>4, <2>3, <2>4, <2>5
<1>14. CASE PhysVisit
  <2>1. PICK i \in todo :
          /\ todo' = todo \ {i}
          /\ \/ i \in Nic /\ cpqNicIfPhysAdapter_reload_entry(i) /\ missed' = missed \ {i}
             \/ i \in Nic /\ crashed' = i /\ UNCHANGED <<pstat, told, missed>>
             \/ UNCHANGED <<physVars, missed>>
    BY <1>14, Zenon DEF PhysVisit, Visits, ifphys_entry_load
  <2>2. UNCHANGED <<worldVars, logVars, pending, left, at, found, health, unlisted>>
    BY <1>14 DEF PhysVisit
  <2>3. Quiet
    <3>1. missed' \in SUBSET Interface
      BY <1>1, <2>1 DEF WorldTypeOK
    <3> QED BY <1>1, <2>1, <2>2, <3>1 DEF worldVars, WorldTypeOK, LoadTypeOK
  <2>4. PhysTypeOK'
    <3>1. CASE i \in Nic /\ cpqNicIfPhysAdapter_reload_entry(i)
      BY <2>2, <3>1, VisitedPhys
    <3>2. CASE i \in Nic /\ crashed' = i /\ UNCHANGED <<pstat, told, missed>>
      BY <1>1, <1>2, <3>2 DEF PhysTypeOK
    <3>3. CASE UNCHANGED physVars
      BY <1>6, <3>3
    <3> QED BY <2>1, <3>1, <3>2, <3>3
  <2> QED BY <1>4, <1>5, <2>2, <2>3, <2>4
<1>15. ASSUME NEW i \in Interface, NewLink(i)
       PROVE  TypeOK' /\ MastersExist'
  <2>1. UNCHANGED <<worldVars, left, missed, loadVars, health, unlisted>>
    BY <1>15 DEF NewLink
  <2>2. Quiet
    <3>1. pending' \in SUBSET Interface
      BY <1>1, <1>15 DEF NewLink, WorldTypeOK
    <3> QED BY <1>1, <2>1, <3>1 DEF worldVars, loadVars, WorldTypeOK, LoadTypeOK
  <2>3. LogTypeOK'
    BY <1>5, <1>15, VisitedLog DEF NewLink, cpqNicIfLogMapTable_cache_reload
  <2>4. PhysTypeOK'
    BY <1>6, <1>15, <2>1, VisitedPhys DEF NewLink, cpqNicIfPhysAdapterTable_cache_reload
  <2> QED BY <1>4, <2>2, <2>3, <2>4
<1>16. ASSUME NEW i \in Interface, DelLink(i)
       PROVE  TypeOK' /\ MastersExist'
  <2>1. /\ UNCHANGED <<worldVars, missed, loadVars, health>>
        /\ unlisted' = unlisted \cup ({i} \cap Group)
        /\ pending' = pending \/ pending' = pending \ {i}
        /\ left' = left \/ left' = left \ {i}
    BY <1>16 DEF DelLink
  <2>2. Quiet
    BY <1>1, <2>1 DEF worldVars, loadVars, WorldTypeOK, LoadTypeOK
  <2>3. LogTypeOK'
    BY <1>1, <1>16 DEF DelLink, cpqNicIfLogMapTable_cache_remove, LogTypeOK
  <2>4. PhysTypeOK'
    BY <1>1, <1>16 DEF DelLink, cpqNicIfPhysAdapterTable_cache_remove, PhysTypeOK
  <2> QED BY <1>4, <2>2, <2>3, <2>4
<1> QED
  BY Steps, <1>3, <1>7, <1>8, <1>9, <1>10, <1>11, <1>12, <1>13, <1>14, <1>15, <1>16

LEMMA TypeAndMasters == Spec => [](TypeOK /\ MastersExist)
<1>1. TypeOK /\ MastersExist /\ [Next]_vars => TypeOK' /\ MastersExist'
  BY NextType
<1> QED BY <1>1, InitType, PTL DEF Spec

\* Every variable keeps to its values: a row has a condition of the MIB or
\* none at all, and the agent ends over an interface.
THEOREM TypeCorrect == Spec => []TypeOK
BY TypeAndMasters, PTL
-----------------------------------------------------------------------------
(* What a step does to the rows *)

\* A row of the second table is only read when it is there, or the adapter;
\* the agent may end before it reads one.
LogStep == UNCHANGED logVars \/ \E i \in Interface : cpqNicIfLogMap_reload_entry(i)
PhysStep ==
  \/ UNCHANGED <<pstat, told>>
  \/ \E n \in Nic : /\ pstat[n] # 0 \/ n \in Present
                    /\ cpqNicIfPhysAdapter_reload_entry(n)

\* The thread works, and the machine does not change meanwhile.
Works ==
  \/ UNCHANGED vars
  \/ LogStart \/ LogVisit \/ LogInsert \/ LogEnd
  \/ PhysStart \/ PhysVisit \/ PhysEnd
  \/ \E i \in Interface : NewLink(i) \/ DelLink(i)

LEMMA NextIs ==
  ASSUME [Next]_vars
  PROVE  Moves \/ Works
BY Steps, Zenon DEF Works

LEMMA WorksIs ==
  ASSUME TypeOK, Works
  PROVE  UNCHANGED worldVars
BY Zenon DEF Works, vars, LogStart, LogVisit, LogInsert, LogEnd, PhysStart, PhysVisit, PhysEnd,
             NewLink, DelLink

LEMMA WorksOnRows ==
  ASSUME TypeOK, Works
  PROVE  (LogStep /\ PhysStep) \/ LogStart \/ \E i \in Interface : DelLink(i)
<1>1. todo \in SUBSET Interface /\ (found = NoInterface \/ found \in Interface)
  BY DEF TypeOK
<1>2. CASE LogVisit
  <2>1. PICK i \in todo : cpqNicIfLogMap_reload_entry(i) \/ UNCHANGED logVars
    BY <1>2, Zenon DEF LogVisit
  <2>2. UNCHANGED physVars
    BY <1>2 DEF LogVisit
  <2> QED BY <1>1, <2>1, <2>2, Zenon DEF LogStep, PhysStep, physVars
<1>3. CASE LogInsert
  <2>1. /\ found # NoInterface /\ UNCHANGED <<pstat, told>>
        /\ cpqNicIfLogMap_reload_entry(found) \/ UNCHANGED logVars
    BY <1>3, Zenon DEF LogInsert
  <2> QED BY <1>1, <2>1, Zenon DEF LogStep, PhysStep
<1>4. CASE PhysVisit
  <2>1. PICK i \in todo : \/ i \in Nic \cap Present /\ cpqNicIfPhysAdapter_reload_entry(i)
                         \/ UNCHANGED <<pstat, told>>
    BY <1>4, Zenon DEF PhysVisit, ifphys_entry_load, physVars
  <2>2. UNCHANGED logVars
    BY <1>4 DEF PhysVisit
  <2> QED BY <2>1, <2>2 DEF LogStep, PhysStep
<1>5. ASSUME NEW i \in Interface, NewLink(i) PROVE LogStep /\ PhysStep
  BY <1>5, Zenon
  DEF NewLink, LogStep, PhysStep, physVars, cpqNicIfLogMapTable_cache_reload,
      cpqNicIfPhysAdapterTable_cache_reload
<1>6. CASE UNCHANGED vars \/ LogEnd \/ PhysStart \/ PhysEnd
  <2>1. UNCHANGED logVars /\ UNCHANGED <<pstat, told>>
    BY <1>6, Zenon DEF vars, LogEnd, PhysStart, PhysEnd, physVars
  <2> QED BY <2>1, Zenon DEF LogStep, PhysStep
<1> QED BY <1>2, <1>3, <1>4, <1>5, <1>6, Zenon DEF Works

LEMMA DelLinkIs ==
  ASSUME TypeOK, NEW i \in Interface, DelLink(i)
  PROVE  /\ at = "idle" /\ Running
         /\ \/ i \in pending /\ i \notin Present /\ pending' = pending \ {i}
            \/ pending' = pending
         /\ \A j \in Interface : lcond'[j] = IF j = i THEN 0 ELSE lcond[j]
         /\ \A n \in Nic : pstat'[n] = IF n = i THEN 0 ELSE pstat[n]
         /\ UNCHANGED <<ifLogMapOverallStatus, fresh, crashed, told>>
         /\ unlisted' = unlisted \cup ({i} \cap Group)
         /\ UNCHANGED <<worldVars, at, todo, found, health, missed>>
<1>1. lcond \in [Interface -> 0 .. 4] /\ pstat \in [Nic -> {0, 1, 2, 4}]
  BY TypeIs, RowsTypeIs
<1> QED
  BY <1>1
  DEF DelLink, cpqNicIfLogMapTable_cache_remove, cpqNicIfPhysAdapterTable_cache_remove, loadVars

LEMMA LoIs == Lo \in Interface /\ Lo # NoInterface /\ (LoIsThere => Lo \in Present) /\ HasType(Lo)
BY NicAssumption, LinkIs DEF Interface, LoIsThere, HasType

\* "lo" stays, and no message comes before the socket is open.
LEMMA NextStart ==
  ASSUME TypeOK, MastersExist, LoIsThere, SocketIsClosed, [Next]_vars
  PROVE  LoIsThere' /\ SocketIsClosed'
<1>1. CASE Moves
  BY <1>1, MoveIs, TypeIs DEF LoIsThere, SocketIsClosed, loadVars
<1>2. ASSUME Works PROVE LoIsThere' /\ SocketIsClosed'
  <2>1. LoIsThere'
    BY <1>2, WorksIs DEF worldVars, LoIsThere
  <2>2. CASE LogStart \/ PhysStart
    BY <2>1, <2>2 DEF LogStart, PhysStart, SocketIsClosed
  <2>3. CASE LogVisit \/ LogInsert \/ PhysVisit \/ UNCHANGED vars
    BY <2>1, <2>3, Zenon DEF LogVisit, LogInsert, PhysVisit, vars, socketVars, loadVars, SocketIsClosed
  <2>4. CASE LogEnd
    BY <2>1, <2>4 DEF LogEnd, socketVars, SocketIsClosed
  <2>5. CASE PhysEnd
    BY <2>1, <2>5 DEF PhysEnd, SocketIsClosed
  <2>6. CASE \E i \in Interface : NewLink(i) \/ DelLink(i)
    BY <2>1, <2>6 DEF NewLink, DelLink, loadVars, SocketIsClosed
  <2> QED BY <1>2, <2>1, <2>2, <2>3, <2>4, <2>5, <2>6 DEF Works
<1> QED BY <1>1, <1>2, NextIs

LEMMA InitStart == Init => LoIsThere /\ SocketIsClosed
BY DEF Init, LoIsThere, SocketIsClosed

-----------------------------------------------------------------------------
(* The overall condition *)

LEMMA CoversIs ==
  /\ LoadCoversRows <=> (at \in {"log0", "log"} /\ Lo \in todo \cup {found}) \/ CoversRows
  /\ LoadCoversRows' <=> (at' \in {"log0", "log"} /\ Lo \in todo' \cup {found'}) \/ CoversRows'
BY DEF LoadCoversRows, CoversRows

LEMMA NextCovers ==
  ASSUME TypeOK, MastersExist, LoIsThere, LoadCoversRows, [Next]_vars
  PROVE  LoadCoversRows'
<1> USE CoversIs
<1>1. ASSUME UNCHANGED logVars, CoversRows PROVE LoadCoversRows'
  BY <1>1 DEF logVars, CoversRows
<1>2. ASSUME NEW i \in Interface, cpqNicIfLogMap_reload_entry(i) PROVE LoadCoversRows'
  BY <1>2, LogReload, TypeIs
<1>3. CASE UNCHANGED <<logVars, at, todo, found>>
  BY <1>1, <1>3
<1>4. CASE Moves
  BY <1>3, <1>4, MoveIs, TypeIs DEF loadVars
<1>5. CASE LogStart
  BY <1>5, LoIs, LinkIs DEF LogStart, LoIsThere
<1>6. CASE LogVisit
  <2>1. PICK i \in todo :
          /\ todo' = todo \ {i} /\ found = NoInterface /\ at' = at
          /\ \/ found' = i /\ UNCHANGED logVars
             \/ cpqNicIfLogMap_reload_entry(i)
             \/ ~(i \in Present /\ HasType(i)) /\ UNCHANGED <<found, logVars>>
    BY <1>6, Zenon DEF LogVisit, Visits
  <2>2. CASE CoversRows /\ UNCHANGED logVars
    BY <1>1, <2>2
  <2>3. CASE cpqNicIfLogMap_reload_entry(i)
    BY <1>2, <2>1, <2>3 DEF TypeOK
  <2>4. CASE /\ at \in {"log0", "log"} /\ Lo \in todo \cup {found}
             /\ found' = i \/ (~(i \in Present /\ HasType(i)) /\ UNCHANGED found)
    <3>1. Lo \in todo
      BY <2>1, <2>4, LoIs
    <3>2. i = Lo => found' = i
      BY <2>4, LoIs
    <3>3. Lo \in todo' \cup {found'}
      BY <2>1, <3>1, <3>2
    <3> QED BY <2>1, <2>4, <3>3
  <2> QED BY <2>1, <2>2, <2>3, <2>4 DEF logVars
<1>7. CASE LogInsert
  <2>1. /\ found # NoInterface /\ todo' = todo /\ at' = at
        /\ \/ cpqNicIfLogMap_reload_entry(found)
           \/ found \notin Present /\ UNCHANGED logVars
    BY <1>7, Zenon DEF LogInsert
  <2>2. CASE cpqNicIfLogMap_reload_entry(found)
    BY <1>2, <2>1, <2>2 DEF TypeOK
  <2>3. CASE found \notin Present /\ UNCHANGED logVars
    <3>1. found # Lo
      BY <2>3, LoIs
    <3> QED BY <1>1, <2>1, <2>3, <3>1
  <2> QED BY <2>1, <2>2, <2>3
<1>8. CASE LogEnd
  BY <1>1, <1>8, LoIs DEF LogEnd
<1>9. CASE PhysStart \/ PhysVisit \/ PhysEnd
  BY <1>1, <1>9, LoIs DEF PhysStart, PhysVisit, PhysEnd
<1>10. ASSUME NEW i \in Interface, NewLink(i) PROVE LoadCoversRows'
  BY <1>2, <1>3, <1>10 DEF NewLink, cpqNicIfLogMapTable_cache_reload, loadVars
<1>11. ASSUME NEW i \in Interface, DelLink(i) PROVE LoadCoversRows'
  <2>1. CoversRows /\ ifLogMapOverallStatus \in 2 .. 4
    BY <1>11, DelLinkIs, TypeIs, RowsTypeIs
  <2> QED BY <1>11, <2>1, DelLinkIs DEF CoversRows
<1>12. CASE UNCHANGED vars
  BY <1>3, <1>12 DEF vars, loadVars
<1> QED BY NextIs, <1>4, <1>5, <1>6, <1>7, <1>8, <1>9, <1>10, <1>11, <1>12 DEF Works

\* Outside a load the condition of all interfaces is not better than any row
\* but the one that was inserted last: a load begins with OK, but reads "lo"
\* at the latest, every reading makes the condition anew of the rows that were
\* there, and a removal takes a row away.
THEOREM OverallAlwaysCoversRows == Spec => []OverallCoversRows
<1>1. Init => LoadCoversRows
  BY LoIs, LinkIs, InitStart DEF Init, LoadCoversRows
<1>2. /\ TypeOK /\ MastersExist /\ LoIsThere /\ SocketIsClosed /\ LoadCoversRows /\ [Next]_vars
        => LoIsThere' /\ SocketIsClosed' /\ LoadCoversRows'
  BY NextStart, NextCovers
<1>3. LoadCoversRows => OverallCoversRows
  BY DEF LoadCoversRows, OverallCoversRows
<1> QED BY <1>1, <1>2, <1>3, InitStart, TypeAndMasters, PTL DEF Spec

-----------------------------------------------------------------------------
(* The rows and the links *)

\* For one adapter: what it takes to be true still.
LEMMA RowStays ==
  ASSUME NEW n \in Nic, RowsTrue(n), UNCHANGED worldVars,
         n \notin pending' \cup missed' => n \notin pending \cup missed,
         pstat'[n] = pstat[n], lcond'[n] = lcond[n]
  PROVE  RowsTrue(n)'
<1>1. (n \in Present' <=> n \in Present) /\ get_if_status(n)' = get_if_status(n)
  BY DEF worldVars, Present, get_if_status
<1> QED BY <1>1 DEF RowsTrue

LEMMA RowIsRead ==
  ASSUME NEW n \in Nic, n \in Present, UNCHANGED worldVars,
         pstat'[n] \in {0, get_if_status(n)}
  PROVE  RowsTrue(n)'
<1>1. (n \in Present' <=> n \in Present) /\ get_if_status(n)' = get_if_status(n)
  BY DEF worldVars, Present, get_if_status
<1> QED BY <1>1 DEF RowsTrue

LEMMA NextRow ==
  ASSUME TypeOK, MastersExist, SocketIsClosed, NEW n \in Nic, RowsTrue(n), [Next]_vars
  PROVE  RowsTrue(n)'
<1>1. n \in Interface /\ todo \in SUBSET Interface /\ found \in Interface \cup {NoInterface}
  BY DEF Interface, TypeOK
<1>2. CASE Moves
  <2>1. UNCHANGED <<logVars, physVars>> /\ Told(n)
    BY <1>1, <1>2, MoveIs, TypeIs
  <2>2. SUFFICES ASSUME n \notin pending' \cup missed' PROVE RowsTrue(n)'
    BY DEF RowsTrue
  <2>3. link'[n] = link[n] /\ n \notin pending \cup missed
    BY <2>1, <2>2 DEF Told
  <2>4. (n \in Present' <=> n \in Present) /\ get_if_status(n)' = get_if_status(n)
    BY <1>1, <2>3 DEF Present, get_if_status
  <2> QED BY <2>1, <2>3, <2>4 DEF RowsTrue, logVars, physVars
<1>3. CASE LogStart \/ LogEnd \/ PhysStart \/ UNCHANGED vars
  <2>1. UNCHANGED <<worldVars, lcond, physVars, pending, missed>>
    BY <1>3 DEF LogStart, LogEnd, PhysStart, vars, logVars, socketVars
  <2> QED BY <2>1, RowStays DEF physVars
\* A load of the first table reads an interface that is there.
<1>4. ASSUME NEW i \in Interface, i \in Present, cpqNicIfLogMap_reload_entry(i),
             UNCHANGED <<worldVars, pstat, socketVars>>
      PROVE  RowsTrue(n)'
  <2>1. CASE n # i
    <3>1. lcond'[n] = lcond[n]
      BY <1>1, <1>4, <2>1, LogReload, TypeIs
    <3> QED BY <1>4, <3>1, RowStays DEF socketVars
  <2>2. CASE n = i
    <3>1. (n \in Present' <=> n \in Present) /\ get_if_status(n)' = get_if_status(n)
      BY <1>4 DEF worldVars, Present, get_if_status
    <3> QED BY <1>4, <2>2, <3>1 DEF RowsTrue, socketVars
  <2> QED BY <2>1, <2>2
<1>5. CASE LogVisit
  <2>1. UNCHANGED <<worldVars, physVars, socketVars>>
    BY <1>5 DEF LogVisit
  <2>2. PICK i \in todo : \/ i \in Present /\ cpqNicIfLogMap_reload_entry(i)
                         \/ UNCHANGED logVars
    BY <1>5, Zenon DEF LogVisit
  <2>3. CASE UNCHANGED logVars
    BY <2>1, <2>3, RowStays DEF logVars, physVars, socketVars
  <2> QED BY <1>1, <1>4, <2>1, <2>2, <2>3 DEF physVars
<1>6. CASE LogInsert
  <2>1. /\ UNCHANGED <<worldVars, pstat, socketVars>> /\ found # NoInterface
        /\ \/ found \in Present /\ cpqNicIfLogMap_reload_entry(found)
           \/ UNCHANGED logVars
    BY <1>6, Zenon DEF LogInsert
  <2>2. CASE UNCHANGED logVars
    BY <2>1, <2>2, RowStays DEF logVars, socketVars
  <2> QED BY <1>1, <1>4, <2>1, <2>2
<1>7. CASE PhysVisit
  <2>1. UNCHANGED worldVars /\ UNCHANGED logVars /\ pending' = pending
    BY <1>7 DEF PhysVisit
  <2>2. PICK i \in todo :
          \/ /\ i \in Nic \cap Present /\ cpqNicIfPhysAdapter_reload_entry(i)
             /\ missed' = missed \ {i}
          \/ UNCHANGED <<pstat, missed>>
    BY <1>7, Zenon DEF PhysVisit, ifphys_entry_load, physVars
  <2>3. CASE UNCHANGED <<pstat, missed>>
    BY <2>1, <2>3, RowStays DEF logVars
  <2>4. CASE i \in Nic \cap Present /\ cpqNicIfPhysAdapter_reload_entry(i) /\ i = n
    <3>1. pstat'[n] = get_if_status(n) /\ n \in Present
      BY <2>4, PhysReload, TypeIs
    <3> QED BY <2>1, <3>1, RowIsRead
  <2>5. CASE /\ i \in Nic \cap Present /\ cpqNicIfPhysAdapter_reload_entry(i) /\ i # n
             /\ missed' = missed \ {i}
    <3>1. pstat'[n] = pstat[n]
      BY <2>5, PhysReload, TypeIs
    <3> QED BY <2>1, <2>5, <3>1, RowStays DEF logVars
  <2> QED BY <2>2, <2>3, <2>4, <2>5
<1>8. CASE PhysEnd
  <2>1. UNCHANGED <<worldVars, logVars, physVars>>
    BY <1>8 DEF PhysEnd
  <2>2. CASE at = "phys0"
    <3>1. pending = {} /\ pending' = Present /\ missed' = missed \ Present
      BY <1>8, <2>2 DEF PhysEnd, SocketIsClosed
    <3> QED BY <2>1, <3>1, RowStays DEF logVars, physVars
  <2>3. CASE at # "phys0"
    <3>1. pending' = pending /\ missed' = missed
      BY <1>8, <2>3 DEF PhysEnd
    <3> QED BY <2>1, <3>1, RowStays DEF logVars, physVars
  <2> QED BY <2>2, <2>3
<1>9. ASSUME NEW i \in Interface, NewLink(i) PROVE RowsTrue(n)'
  <2>1. UNCHANGED worldVars /\ missed' = missed
        /\ (pending' = pending \/ (i \in Present /\ pending' = pending \ {i}))
        /\ i \in pending
    BY <1>9 DEF NewLink
  <2>2. lcond'[n] = lcond[n] \/ i = n
    BY <1>1, <1>9, LogReload, TypeIs DEF NewLink, cpqNicIfLogMapTable_cache_reload, logVars
  <2>3. pstat'[n] = pstat[n] \/ i = n
    BY <1>9, PhysReload, TypeIs DEF NewLink, cpqNicIfPhysAdapterTable_cache_reload, physVars
  <2>4. CASE i # n
    BY <2>1, <2>2, <2>3, <2>4, RowStays
  <2>5. CASE i = n /\ pending' = pending
    BY <2>1, <2>5 DEF RowsTrue
  <2>6. CASE i = n /\ i \in Present
    <3>1. pstat'[n] \in {0, get_if_status(n)}
      <4>1. CASE pstat[n] # 0
        BY <1>9, <2>6, <4>1, PhysReload, TypeIs DEF NewLink, cpqNicIfPhysAdapterTable_cache_reload
      <4>2. CASE pstat[n] = 0
        BY <1>9, <2>6, <4>2 DEF NewLink, cpqNicIfPhysAdapterTable_cache_reload, physVars
      <4> QED BY <4>1, <4>2
    <3> QED BY <2>1, <2>6, <3>1, RowIsRead
  <2> QED BY <2>1, <2>4, <2>5, <2>6
\* Removing the rows is right of an adapter that is gone, and of one that is
\* there no row is wrong.
<1>10. ASSUME NEW i \in Interface, DelLink(i) PROVE RowsTrue(n)'
  <2>1. /\ \/ i \notin Present /\ pending' = pending \ {i}
           \/ pending' = pending
        /\ lcond'[n] = IF n = i THEN 0 ELSE lcond[n]
        /\ pstat'[n] = IF n = i THEN 0 ELSE pstat[n]
        /\ missed' = missed
        /\ UNCHANGED worldVars
    BY <1>1, <1>10, DelLinkIs
  <2>2. CASE n = i
    BY <2>1, <2>2 DEF RowsTrue
  <2>3. CASE n # i
    BY <2>1, <2>3, RowStays
  <2> QED BY <2>2, <2>3
<1> QED BY NextIs, <1>2, <1>3, <1>5, <1>6, <1>7, <1>8, <1>9, <1>10 DEF Works

AllRowsTrue == \A n \in Nic : RowsTrue(n)

LEMMA RowsAndSocket == Spec => [](AllRowsTrue /\ SocketIsClosed)
<1>1. Init => AllRowsTrue
  BY DEF Init, RowsTrue, Interface, AllRowsTrue
<1>2. /\ TypeOK /\ MastersExist /\ LoIsThere /\ SocketIsClosed /\ AllRowsTrue /\ [Next]_vars
        => LoIsThere' /\ SocketIsClosed' /\ AllRowsTrue'
  BY NextStart, NextRow DEF AllRowsTrue
<1> QED BY <1>1, <1>2, InitStart, TypeAndMasters, PTL DEF Spec

\* When the messages about an adapter are worked through and none was lost,
\* its rows tell what its link is, or are not there when it is not; loads,
\* messages and changes may come in any order.
THEOREM RowsAreAlwaysTrue == Spec => []RowsAreTrue
<1>1. AllRowsTrue => RowsAreTrue
  BY DEF AllRowsTrue, RowsTrue, RowsAreTrue
<1> QED BY <1>1, RowsAndSocket, PTL

-----------------------------------------------------------------------------
(* The link traps *)

LEMMA NextTold ==
  ASSUME TypeOK, MastersExist, ChangesAreTold, [Next]_vars
  PROVE  ChangesAreTold'
<1>1. ASSUME UNCHANGED <<pstat, told>> PROVE ChangesAreTold'
  BY <1>1 DEF ChangesAreTold
<1>2. CASE Moves \/ LogStart
  <2>1. UNCHANGED physVars
    BY <1>2, MoveIs, TypeIs DEF LogStart
  <2> QED BY <1>1, <2>1 DEF physVars
<1>3. ASSUME NEW n \in Nic, cpqNicIfPhysAdapter_reload_entry(n) PROVE ChangesAreTold'
  <2>1. /\ \A m \in Nic : m # n => pstat'[m] = pstat[m] /\ told'[m] = told[m]
        /\ (pstat[n] # 0 => told[n] = pstat[n]) => told'[n] = pstat'[n]
    BY <1>3, PhysReload, TypeIs
  <2>2. \A m \in Nic : pstat[m] # 0 => told[m] = pstat[m]
    BY DEF ChangesAreTold
  <2>3. \A m \in Nic : pstat'[m] # 0 => told'[m] = pstat'[m]
    BY <2>1, <2>2
  <2> QED BY <2>3 DEF ChangesAreTold
<1>4. ASSUME NEW i \in Interface, DelLink(i) PROVE ChangesAreTold'
  BY <1>4, DelLinkIs DEF ChangesAreTold
<1> QED BY <1>1, <1>2, <1>3, <1>4, NextIs, WorksOnRows DEF PhysStep

\* When the messages about an adapter are worked through and none was lost,
\* the traps have told its link, or it has been OTHER: every change of a row
\* from OK to failed or back is told (ChangesAreTold), and the row is true.
THEOREM TrapsAlwaysFollowLink == Spec => []TrapsFollowLink
<1>1. Init => ChangesAreTold
  BY DEF Init, ChangesAreTold
<1>2. TypeOK /\ MastersExist /\ ChangesAreTold /\ [Next]_vars => ChangesAreTold'
  BY NextTold
<1>3. AllRowsTrue /\ ChangesAreTold => TrapsFollowLink
  BY DEF AllRowsTrue, RowsTrue, ChangesAreTold, TrapsFollowLink
<1> QED BY <1>1, <1>2, <1>3, RowsAndSocket, TypeAndMasters, PTL DEF Spec

-----------------------------------------------------------------------------
(* The row of the bond *)

LEMMA NextListed ==
  ASSUME TypeOK, MastersExist, BondsAreListed, [Next]_vars
  PROVE  BondsAreListed'
<1>1. Bond \subseteq Group /\ Group \subseteq Interface /\ NoInterface \notin Interface
  BY TypeIs, NicAssumption DEF WorldTypeOK, Interface
<1>2. SUFFICES ASSUME NEW b \in Bond', b \in Present', b \notin unlisted'
               PROVE  lcond'[b] # 0 \/ (at' \in {"log0", "log"} /\ b \in todo' \cup {found'})
  BY DEF BondsAreListed
<1>3. CASE Moves
  <2>1. /\ UNCHANGED <<Bond, logVars, loadVars>> /\ unlisted \subseteq unlisted'
        /\ \A i \in Interface : Told(i)
    BY <1>3, MoveIs, TypeIs
  <2>2. b \in Present /\ b \notin unlisted
    BY <1>1, <1>2, <2>1 DEF Told
  <2> QED BY <1>2, <2>1, <2>2 DEF BondsAreListed, logVars, loadVars
<1>4. ASSUME Works PROVE b \in Interface /\ b \in Bond /\ b \in Present
  <2>1. UNCHANGED worldVars
    BY <1>4, WorksIs
  <2>2. b \in Bond /\ b \in Present
    BY <1>2, <2>1 DEF worldVars, Present
  <2> QED BY <1>1, <2>2
<1>5. ASSUME Works, LogStep, lcond[b] # 0 PROVE lcond'[b] # 0
  <2>1. CASE UNCHANGED logVars
    BY <1>5, <2>1 DEF logVars
  <2>2. ASSUME NEW i \in Interface, cpqNicIfLogMap_reload_entry(i) PROVE lcond'[b] # 0
    BY <1>4, <1>5, <2>2, LogReload, TypeIs
  <2> QED BY <1>5, <2>1, <2>2 DEF LogStep
<1>6. CASE LogStart
  <2>1. at' = "log" /\ todo' = Present
    BY <1>6 DEF LogStart
  <2> QED BY <1>4, <1>6, <2>1 DEF Works
<1>7. ASSUME Works, unlisted' = unlisted
      PROVE  lcond[b] # 0 \/ (at \in {"log0", "log"} /\ b \in todo \cup {found})
  BY <1>4, <1>2, <1>7 DEF BondsAreListed
<1>8. CASE LogVisit
  <2>1. PICK i \in todo :
          /\ todo' = todo \ {i} /\ at' = at /\ found = NoInterface /\ at \in {"log0", "log"}
          /\ \/ found' = i /\ UNCHANGED logVars
             \/ lcond[i] # 0 /\ cpqNicIfLogMap_reload_entry(i)
             \/ ~(i \in Present /\ HasType(i)) /\ UNCHANGED <<found, logVars>>
    BY <1>8, Zenon DEF LogVisit, Visits
  <2>2. Works /\ unlisted' = unlisted
    BY <1>8 DEF LogVisit, Works
  <2>3. LogStep
    BY <2>1 DEF LogStep, TypeOK, logVars
  <2>4. CASE lcond[b] # 0
    BY <1>5, <2>2, <2>3, <2>4
  <2>5. CASE lcond[b] = 0
    <3>1. b \in todo /\ HasType(b) /\ b \in Present
      BY <1>1, <1>4, <1>7, <2>1, <2>2, <2>5 DEF HasType
    <3> QED BY <2>1, <2>5, <3>1
  <2> QED BY <2>4, <2>5
<1>9. CASE LogInsert
  <2>1. /\ todo' = todo /\ at' = at /\ unlisted' = unlisted /\ found # NoInterface
        /\ \/ cpqNicIfLogMap_reload_entry(found)
           \/ found \notin Present /\ UNCHANGED logVars
    BY <1>9, Zenon DEF LogInsert
  <2>2. Works /\ found \in Interface
    BY <1>9, <2>1 DEF Works, TypeOK
  <2>3. LogStep
    BY <2>1, <2>2 DEF LogStep
  <2>4. CASE lcond[b] # 0
    BY <1>5, <2>2, <2>3, <2>4
  <2>5. CASE b = found
    BY <1>4, <2>1, <2>2, <2>5, LogReload, TypeIs
  <2>6. CASE at \in {"log0", "log"} /\ b \in todo
    BY <2>1, <2>6
  <2> QED BY <1>7, <2>1, <2>2, <2>4, <2>5, <2>6
<1>10. CASE UNCHANGED vars
  BY <1>2, <1>10 DEF vars, worldVars, logVars, loadVars, BondsAreListed, Present
<1>11. CASE LogEnd
  <2>1. todo = {} /\ found = NoInterface /\ unlisted' = unlisted /\ UNCHANGED logVars
    BY <1>11 DEF LogEnd
  <2> QED BY <1>1, <1>4, <1>7, <1>11, <2>1 DEF Works, logVars
<1>12. CASE PhysStart \/ PhysVisit \/ PhysEnd
  <2>1. at \notin {"log0", "log"} /\ unlisted' = unlisted /\ UNCHANGED logVars
    BY <1>12 DEF PhysStart, PhysVisit, PhysEnd
  <2> QED BY <1>7, <1>12, <2>1 DEF Works, logVars
<1>13. ASSUME NEW i \in Interface, NewLink(i) PROVE lcond'[b] # 0
  <2>1. at = "idle" /\ unlisted' = unlisted
    BY <1>13 DEF NewLink
  <2>2. Works
    BY <1>13, Zenon DEF Works
  <2>3. LogStep
    BY <1>13, Zenon DEF NewLink, LogStep, cpqNicIfLogMapTable_cache_reload
  <2> QED BY <1>5, <1>7, <2>1, <2>2, <2>3
<1>14. ASSUME NEW i \in Interface, DelLink(i) PROVE lcond'[b] # 0
  <2>1. /\ at = "idle" /\ unlisted' = unlisted \cup ({i} \cap Group)
        /\ \A j \in Interface : lcond'[j] = IF j = i THEN 0 ELSE lcond[j]
    BY <1>14, DelLinkIs
  <2>2. Works
    BY <1>14, Zenon DEF Works
  <2>3. b # i /\ b \notin unlisted /\ b \in Bond /\ b \in Present /\ b \in Interface
    BY <1>1, <1>2, <1>4, <2>1, <2>2
  <2> QED BY <2>1, <2>3 DEF BondsAreListed
<1> QED BY NextIs, <1>3, <1>6, <1>8, <1>9, <1>10, <1>11, <1>12, <1>13, <1>14 DEF Works

\* Once it followed a null pointer, the agent does nothing more.
LEMMA NextCrash ==
  ASSUME TypeOK, MastersExist, BondsAreListed, CrashOnlyForUnlisted, [Next]_vars
  PROVE  CrashOnlyForUnlisted'
<1>1. CASE UNCHANGED vars
  BY <1>1 DEF vars, physVars, worldVars, CrashOnlyForUnlisted, Present
<1>2. ASSUME Running, crashed' = crashed, ~UNCHANGED vars PROVE CrashOnlyForUnlisted'
  <2>1. Bond' = Bond /\ NoInterface \notin Bond
    <3>1. Bond' = Bond
      BY NextIs, MoveIs, WorksIs, TypeIs DEF worldVars
    <3> QED BY <3>1, NicAssumption, TypeIs DEF WorldTypeOK, Interface
  <2> QED BY <1>2, <2>1 DEF Running, CrashOnlyForUnlisted
<1>3. CASE Moves
  <2>1. Running /\ crashed' = crashed
    BY <1>3, MoveIs, TypeIs DEF physVars
  <2> QED BY <1>1, <1>2, <2>1
<1>4. ASSUME NEW n \in Nic, cpqNicIfPhysAdapter_reload_entry(n), UNCHANGED worldVars,
             at \notin {"log0", "log"}, unlisted' = unlisted, crashed' # crashed
      PROVE  CrashOnlyForUnlisted'
  <2>1. master[n] \in Bond /\ lcond[master[n]] = 0 /\ crashed' = master[n]
    BY <1>4, PhysReload, TypeIs
  <2>2. master[n] \in Present => master[n] \in unlisted
    BY <1>4, <2>1 DEF BondsAreListed
  <2> QED BY <1>4, <2>1, <2>2 DEF CrashOnlyForUnlisted, worldVars, Present
<1>5. CASE LogStart \/ LogVisit \/ LogEnd \/ PhysStart \/ PhysEnd
  <2>1. Running /\ crashed' = crashed
    BY <1>5 DEF LogStart, LogVisit, LogEnd, PhysStart, PhysEnd, physVars
  <2> QED BY <1>1, <1>2, <2>1
<1>6. CASE LogInsert
  <2>1. /\ Running /\ UNCHANGED worldVars
        /\ crashed' = crashed \/ (crashed' = found /\ found \notin Present)
    BY <1>6, Zenon DEF LogInsert
  <2>2. CASE crashed' = found /\ found \notin Present
    BY <2>1, <2>2 DEF CrashOnlyForUnlisted, worldVars, Present
  <2> QED BY <1>1, <1>2, <2>1, <2>2
<1>7. CASE PhysVisit
  <2>1. /\ Running /\ UNCHANGED worldVars
        /\ at \notin {"log0", "log"} /\ unlisted' = unlisted
    BY <1>7 DEF PhysVisit
  <2>2. \/ crashed' = crashed
        \/ \E n \in Nic : cpqNicIfPhysAdapter_reload_entry(n)
        \/ crashed' \in Nic
    BY <1>7, Zenon DEF PhysVisit, physVars, ifphys_entry_load
  <2>3. CASE crashed' \in Nic
    <3>1. crashed' \notin Bond'
      BY <2>1, <2>3, NicAssumption, TypeIs DEF WorldTypeOK, worldVars
    <3> QED BY <3>1 DEF CrashOnlyForUnlisted
  <2> QED BY <1>1, <1>2, <1>4, <2>1, <2>2, <2>3
<1>8. ASSUME NEW i \in Interface, NewLink(i) PROVE CrashOnlyForUnlisted'
  <2>1. /\ Running /\ UNCHANGED worldVars
        /\ at \notin {"log0", "log"} /\ unlisted' = unlisted
    BY <1>8 DEF NewLink
  <2>2. crashed' = crashed \/ \E n \in Nic : cpqNicIfPhysAdapter_reload_entry(n)
    BY <1>8 DEF NewLink, cpqNicIfPhysAdapterTable_cache_reload, physVars
  <2> QED BY <1>1, <1>2, <1>4, <2>1, <2>2
<1>9. ASSUME NEW i \in Interface, DelLink(i) PROVE CrashOnlyForUnlisted'
  BY <1>1, <1>2, <1>9, DelLinkIs
<1> QED BY NextIs, <1>1, <1>3, <1>5, <1>6, <1>7, <1>8, <1>9 DEF Works

\* The row of a bond that is there is missing where SendNicTrap looks for it
\* only if no load of the first table has begun since the bond came or left a
\* bridge: any other has its row before the second table is read
\* (BondsAreListed).
THEOREM CrashIsOnlyForUnlisted == Spec => []CrashOnlyForUnlisted
<1>1. Init => BondsAreListed /\ CrashOnlyForUnlisted
  <2>1. Init => BondsAreListed
    BY DEF Init, BondsAreListed
  <2>2. Init => CrashOnlyForUnlisted
    BY NicAssumption DEF Init, CrashOnlyForUnlisted, Interface, Present
  <2> QED BY <2>1, <2>2
<1>2. TypeOK /\ MastersExist /\ BondsAreListed /\ CrashOnlyForUnlisted /\ [Next]_vars
        => BondsAreListed' /\ CrashOnlyForUnlisted'
  BY NextListed, NextCrash
<1> QED BY <1>1, <1>2, TypeAndMasters, PTL DEF Spec
=============================================================================
