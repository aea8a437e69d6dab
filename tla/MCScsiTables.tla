--------------------------- MODULE MCScsiTables -----------------------------
(***************************************************************************)
(* An instance of ScsiTables for TLC: a SAS drive and an ATA disk.         *)
(***************************************************************************)
EXTENDS ScsiTables

CONSTANTS s1, a1

OneDrive == {s1}
OneDisk == {a1}
DriveAndDisk == {s1, a1}

Hosts == [d \in Device |-> IF d \in AtaDisk THEN 1 ELSE 4]
Targets == [d \in Device |-> 0]

\* The SAS adapter is found first.
SasFirst == [d \in Device |-> IF d \in AtaDisk THEN 2 ELSE 1]
=============================================================================
