--------------------------- MODULE TableRegistry ----------------------------
(***************************************************************************)
(* What each table and each group of scalars of the agent registers with   *)
(* net-snmp: the columns it claims, how long its cache is good for and the *)
(* flags that decide who may free its rows; and which of the columns its   *)
(* handler answers.                                                        *)
(***************************************************************************)
EXTENDS Integers

\* NETSNMP_CACHE_...
PRELOAD == "preload"                         \* loaded when it is registered
DONT_FREE_BEFORE_LOAD == "keep for load"     \* a load finds the old rows
DONT_FREE_EXPIRED == "keep expired"
DONT_AUTO_RELEASE == "keep idle"             \* no alarm frees the rows
CacheFlag == {PRELOAD, DONT_FREE_BEFORE_LOAD, DONT_FREE_EXPIRED, DONT_AUTO_RELEASE}

Table(min, max, seconds, flags) ==
  [min_column |-> min, max_column |-> max, timeout |-> seconds, flags |-> flags]

Kept == CacheFlag

\* What a handler does with one request: its answer, or the exception.
Answer(entry, column, answered) ==
  IF ~entry THEN "genErr"
  ELSE IF column \in answered THEN "value" ELSE "noSuchObject"

-----------------------------------------------------------------------------
(* The tables *)

\* Mutant: the flag that keeps the rows of other tables.
FileSysKept == Table(1, 9, 240, {DONT_FREE_BEFORE_LOAD})

initialize_table_cpqHoFileSysTable == Table(1, 9, 240, {})
cpqHoFileSysTable_handler(entry, column) ==
  Answer(entry, column, 1 .. 7)

initialize_table_cpqHoSWRunningTable == Table(1, 15, 240, {})
cpqHoSWRunningTable_handler(entry, column) ==
  Answer(entry, column, 1 .. 15)

initialize_table_cpqHoSwVerTable == Table(1, 9, 240, {PRELOAD})
cpqHoSwVerTable_handler(entry, column) ==
  Answer(entry, column, 1 .. 9)

initialize_table_cpqIdeAtaDiskTable == Table(1, 24, 300, {})
cpqIdeAtaDiskTable_handler(entry, column) ==
  Answer(entry, column, 1 .. 24)

\* Mutant: the flags that are commented out for the software versions.
IdeControllerReleased == Table(1, 10, 300, {PRELOAD})

initialize_table_cpqIdeControllerTable == Table(1, 10, 300, {PRELOAD, DONT_FREE_EXPIRED, DONT_AUTO_RELEASE})
cpqIdeControllerTable_handler(entry, column) ==
  Answer(entry, column, 1 .. 10)

initialize_table_cpqFcaHostCntlrTable == Table(1, 15, 600, Kept)
cpqFcaHostCntlrTable_handler(entry, column) ==
  Answer(entry, column, 1 .. 15)

initialize_table_cpqSasHbaTable == Table(1, 10, 300, Kept)
cpqSasHbaTable_handler(entry, column) ==
  Answer(entry, column, 1 .. 10)

\* Mutant: the rows are freed like those of a table without history.
SasPhyDrvFreed == Table(1, 27, 300, Kept \ {DONT_FREE_BEFORE_LOAD})

initialize_table_cpqSasPhyDrvTable == Table(1, 27, 300, Kept)
cpqSasPhyDrvTable_handler(entry, column) ==
  Answer(entry, column, 1 .. 27)

initialize_table_cpqNicIfLogMapTable == Table(1, 23, 30, Kept)
cpqNicIfLogMapTable_handler(entry, column) ==
  Answer(entry, column, (1 .. 23 \ {22}))

initialize_table_cpqNicIfPhysAdapterTable == Table(1, 43, 30, Kept)
cpqNicIfPhysAdapterTable_handler(entry, column) ==
  Answer(entry, column, 1 .. 43)

initialize_table_cpqSePCIeDiskTable == Table(1, 15, 300, Kept)
cpqSePCIeDiskTable_handler(entry, column) ==
  Answer(entry, column, 1 .. 15)

initialize_table_cpqSePciSlotTable == Table(1, 13, 300, Kept)
cpqSePciSlotTable_handler(entry, column) ==
  Answer(entry, column, (1 .. 13 \ {7}))

initialize_table_cpqSePciFunctTable == Table(1, 10, 300, Kept)
cpqSePciFunctTable_handler(entry, column) ==
  Answer(entry, column, 1 .. 10)

initialize_table_cpqSePciMemoryTable == Table(1, 8, 240, Kept)
cpqSePciMemoryTable_handler(entry, column) ==
  Answer(entry, column, 1 .. 8)

initialize_table_cpqLinOsDiskTable == Table(1, 18, 5, Kept)
cpqLinOsDiskTable_handler(entry, column) ==
  Answer(entry, column, 1 .. 18)

initialize_table_cpqLinOsNetworkInterfaceTable == Table(1, 10, 5, Kept)
cpqLinOsNetworkInterfaceTable_handler(entry, column) ==
  Answer(entry, column, 1 .. 10)

initialize_table_cpqLinOsProcessorTable == Table(1, 8, 5, Kept)
cpqLinOsProcessorTable_handler(entry, column) ==
  Answer(entry, column, (1 .. 8 \ {5, 6}))

-----------------------------------------------------------------------------
(* The groups of scalars: one row that is always there *)

cpqPerfPollInt == 30

init_cpqLinOsCommon == Table(1, 4, 5, Kept)
cpqLinOsCommon_handler(entry, column) ==
  Answer(entry, column, 1 .. 4)

init_cpqLinOsSys == Table(2, 6, cpqPerfPollInt, Kept)
cpqLinOsSys_handler(entry, column) ==
  Answer(entry, column, (2 .. 6 \ {3, 5}))

init_cpqLinOsMem == Table(2, 14, cpqPerfPollInt, Kept)
cpqLinOsMem_handler(entry, column) ==
  Answer(entry, column, 2 .. 14)

init_cpqLinOsSwap == Table(2, 7, cpqPerfPollInt, Kept)
cpqLinOsSwap_handler(entry, column) ==
  Answer(entry, column, 2 .. 7)

-----------------------------------------------------------------------------
(* By name *)

Groups ==
  [ cpqLinOsCommon |-> init_cpqLinOsCommon,
    cpqLinOsSys |-> init_cpqLinOsSys,
    cpqLinOsMem |-> init_cpqLinOsMem,
    cpqLinOsSwap |-> init_cpqLinOsSwap ]

Tables ==
  [ cpqHoFileSysTable |-> initialize_table_cpqHoFileSysTable,
    cpqHoSWRunningTable |-> initialize_table_cpqHoSWRunningTable,
    cpqHoSwVerTable |-> initialize_table_cpqHoSwVerTable,
    cpqIdeAtaDiskTable |-> initialize_table_cpqIdeAtaDiskTable,
    cpqIdeControllerTable |-> initialize_table_cpqIdeControllerTable,
    cpqFcaHostCntlrTable |-> initialize_table_cpqFcaHostCntlrTable,
    cpqSasHbaTable |-> initialize_table_cpqSasHbaTable,
    cpqSasPhyDrvTable |-> initialize_table_cpqSasPhyDrvTable,
    cpqNicIfLogMapTable |-> initialize_table_cpqNicIfLogMapTable,
    cpqNicIfPhysAdapterTable |-> initialize_table_cpqNicIfPhysAdapterTable,
    cpqSePCIeDiskTable |-> initialize_table_cpqSePCIeDiskTable,
    cpqSePciSlotTable |-> initialize_table_cpqSePciSlotTable,
    cpqSePciFunctTable |-> initialize_table_cpqSePciFunctTable,
    cpqSePciMemoryTable |-> initialize_table_cpqSePciMemoryTable,
    cpqLinOsDiskTable |-> initialize_table_cpqLinOsDiskTable,
    cpqLinOsNetworkInterfaceTable |-> initialize_table_cpqLinOsNetworkInterfaceTable,
    cpqLinOsProcessorTable |-> initialize_table_cpqLinOsProcessorTable ]

Handled(table, entry, column) ==
  CASE table = "cpqHoFileSysTable" -> cpqHoFileSysTable_handler(entry, column)
    [] table = "cpqHoSWRunningTable" -> cpqHoSWRunningTable_handler(entry, column)
    [] table = "cpqHoSwVerTable" -> cpqHoSwVerTable_handler(entry, column)
    [] table = "cpqIdeAtaDiskTable" -> cpqIdeAtaDiskTable_handler(entry, column)
    [] table = "cpqIdeControllerTable" -> cpqIdeControllerTable_handler(entry, column)
    [] table = "cpqFcaHostCntlrTable" -> cpqFcaHostCntlrTable_handler(entry, column)
    [] table = "cpqSasHbaTable" -> cpqSasHbaTable_handler(entry, column)
    [] table = "cpqSasPhyDrvTable" -> cpqSasPhyDrvTable_handler(entry, column)
    [] table = "cpqNicIfLogMapTable" -> cpqNicIfLogMapTable_handler(entry, column)
    [] table = "cpqNicIfPhysAdapterTable" -> cpqNicIfPhysAdapterTable_handler(entry, column)
    [] table = "cpqSePCIeDiskTable" -> cpqSePCIeDiskTable_handler(entry, column)
    [] table = "cpqSePciSlotTable" -> cpqSePciSlotTable_handler(entry, column)
    [] table = "cpqSePciFunctTable" -> cpqSePciFunctTable_handler(entry, column)
    [] table = "cpqSePciMemoryTable" -> cpqSePciMemoryTable_handler(entry, column)
    [] table = "cpqLinOsDiskTable" -> cpqLinOsDiskTable_handler(entry, column)
    [] table = "cpqLinOsNetworkInterfaceTable" -> cpqLinOsNetworkInterfaceTable_handler(entry, column)
    [] table = "cpqLinOsProcessorTable" -> cpqLinOsProcessorTable_handler(entry, column)
    [] table = "cpqLinOsCommon" -> cpqLinOsCommon_handler(entry, column)
    [] table = "cpqLinOsSys" -> cpqLinOsSys_handler(entry, column)
    [] table = "cpqLinOsMem" -> cpqLinOsMem_handler(entry, column)
    [] table = "cpqLinOsSwap" -> cpqLinOsSwap_handler(entry, column)
=============================================================================
