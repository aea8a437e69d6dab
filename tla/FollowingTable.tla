-------------------------- MODULE FollowingTable ----------------------------
(***************************************************************************)
(* What a table of devices promises that is kept up to date by events and  *)
(* by loads: a row may differ from its device only while something about   *)
(* the device is still to be worked through, or was missed; what the agent *)
(* does for one device leaves the rows of all others alone.                *)
(***************************************************************************)
CONSTANT Device

VARIABLES
  present,   \* the devices of the machine
  rows,      \* the rows of the table
  stale      \* devices the table need not be right about

vars == <<present, rows, stale>>

Right(d) == d \in rows <=> d \in present

Init ==
  /\ present \in SUBSET Device
  /\ rows = {}
  /\ stale \in SUBSET Device
  /\ \A d \in Device \ stale : Right(d)

\* The device comes or goes.
Change(d) ==
  /\ present' = IF d \in present THEN present \ {d} ELSE present \cup {d}
  /\ stale' = stale \cup {d}
  /\ UNCHANGED rows

\* Something else is taken for an event of the device.
Distract(d) ==
  /\ stale' = stale \cup {d}
  /\ UNCHANGED <<present, rows>>

\* The row of a device, and of no other, is made or removed.
Work(d) ==
  /\ d \in stale
  /\ rows' \in {rows \cup {d}, rows \ {d}}
  /\ stale' \in {stale, stale \ {d}}
  /\ d \notin stale' => Right(d)'
  /\ UNCHANGED present

Next == \E d \in Device : Change(d) \/ Distract(d) \/ Work(d)

Spec == Init /\ [][Next]_vars
=============================================================================
