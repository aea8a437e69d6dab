------------------------------ MODULE FcaTable ------------------------------
(***************************************************************************)
(* The table of Fibre Channel host adapters (cpqFca, fca_linux.c).  A load *)
(* reads the state of every host; between loads a callback for the         *)
(* "fc_transport" uevents reads the state of one port again.  Both compare *)
(* with the status of the last visit and send a trap if it has changed,    *)
(* but they do not treat what they read alike.                             *)
(***************************************************************************)
EXTENDS Integers, FiniteSets

CONSTANTS
  Host,        \* SCSI hosts; the kernel does not use a number twice
  Port,        \* states of a port that can be read
  MaxChanges   \* bound on the changes of the machine

ASSUME FcaAssumption ==
  /\ Port \subseteq {"Online", "Linkdown", "Bypassed", "Error", "Unknown", "unreadable"}
  /\ MaxChanges \in Nat

VARIABLES
  port,        \* port_state of each host, or "absent" or "gone"
  scsi,        \* the state of the SCSI host
  changes,     \* changes so far
  pending,     \* hosts with an event in the socket
  at,          \* "init" (the load at start), "load" or "idle"
  todo,        \* hosts that the load has not come to
  status,      \* cpqFcaHostCntlrStatus, 0 where there is no row
  FcaCondition,
  health,      \* the entry of cpqHoMibHealthStatusArray
  cond,        \* the entry of cpqHostMibStatusArray
  \* for the properties
  told,        \* the status in the last trap, OTHER if none was sent
  missed       \* hosts whose last change did not reach the row's status

worldVars == <<port, scsi, changes>>
rowVars == <<status, FcaCondition, health, cond, told>>
vars == <<worldVars, rowVars, pending, at, todo, missed>>

FC_HBA_STATUS_OTHER == 1
FC_HBA_STATUS_OK == 2
FC_HBA_STATUS_FAILED == 3
FC_HBA_STATUS_SHUTDOWN == 4
FC_HBA_STATUS_LOOPDEGRADED == 5
FC_HBA_STATUS_LOOPFAILED == 6
FC_HBA_STATUS_NOTCONNECTED == 7
Status == FC_HBA_STATUS_OTHER .. FC_HBA_STATUS_NOTCONNECTED

FC_HBA_CONDITION_OTHER == 1
FC_HBA_CONDITION_OK == 2
FC_HBA_CONDITION_DEGRADED == 3
FC_HBA_CONDITION_FAILED == 4
Condition == FC_HBA_CONDITION_OTHER .. FC_HBA_CONDITION_FAILED

TypeOK ==
  /\ port \in [Host -> Port \cup {"absent", "gone"}]
  /\ scsi \in [Host -> {"running", "other", "unreadable"}]
  /\ changes \in 0 .. MaxChanges
  /\ pending \in SUBSET Host
  /\ at \in {"init", "load", "idle"}
  /\ todo \in SUBSET Host
  /\ status \in [Host -> Status \cup {0}]
  /\ FcaCondition \in FC_HBA_CONDITION_OK .. FC_HBA_CONDITION_FAILED
  /\ health = FcaCondition
  /\ cond \in Condition
  /\ told \in [Host -> Status]
  /\ missed \in SUBSET Host

Present == {h \in Host : port[h] \in Port}

\* init_cpqFibreArray, and the load that its registration makes.
Init ==
  /\ port \in [Host -> Port \cup {"absent"}]
  /\ scsi = [h \in Host |-> "running"]
  /\ changes = 0 /\ pending = {} /\ missed = {}
  /\ at = "init" /\ todo = Present
  /\ status = [h \in Host |-> 0]
  /\ FcaCondition = FC_HBA_CONDITION_OK
  /\ health = FC_HBA_CONDITION_OK /\ cond = FC_HBA_CONDITION_OK
  /\ told = [h \in Host |-> FC_HBA_STATUS_OTHER]

-----------------------------------------------------------------------------
(* The machine *)

Change ==
  /\ changes < MaxChanges
  /\ changes' = changes + 1
  /\ UNCHANGED <<rowVars, at, todo>>

\* A remote port comes or goes with the link, if there is one, and the socket
\* may have no room for the event.
PortChanges(h) ==
  /\ Change
  /\ h \in Present
  /\ \E p \in Port \ {port[h]} : port' = [port EXCEPT ![h] = p]
  /\ \/ pending' = pending \cup {h} /\ UNCHANGED missed
     \/ missed' = missed \cup {h} /\ UNCHANGED pending
  /\ UNCHANGED scsi

\* Nothing announces that the host itself fails or recovers.
HostChanges(h) ==
  /\ Change
  /\ h \in Present
  /\ \E s \in {"running", "other", "unreadable"} \ {scsi[h]} :
       scsi' = [scsi EXCEPT ![h] = s]
  /\ UNCHANGED <<port, pending, missed>>

PlugOrUnplug(h) ==
  /\ Change
  /\ \/ /\ port[h] = "absent"
        /\ \E p \in Port : port' = [port EXCEPT ![h] = p]
     \/ /\ h \in Present
        /\ port' = [port EXCEPT ![h] = "gone"]
  /\ UNCHANGED <<scsi, pending, missed>>

-----------------------------------------------------------------------------
(* What is made of the state of a port *)

\* Mutant: without the first comparison a port that is back is not seen.
UpdateFromOK(value, s) ==
  IF s # FC_HBA_STATUS_OK THEN FC_HBA_STATUS_OTHER
  ELSE CASE value = "Online" -> FC_HBA_STATUS_OK
         [] value = "Linkdown" -> FC_HBA_STATUS_NOTCONNECTED
         [] value = "Bypassed" -> FC_HBA_STATUS_LOOPDEGRADED
         [] value = "Error" -> FC_HBA_STATUS_FAILED
         [] OTHER -> FC_HBA_STATUS_OTHER

\* Only a port that was OK gets another status than OK or OTHER.
cpqfca_update_status(value, s) ==
  CASE value = "Online" -> FC_HBA_STATUS_OK
    [] value = "Linkdown" /\ s = FC_HBA_STATUS_OK -> FC_HBA_STATUS_NOTCONNECTED
    [] value = "Bypassed" /\ s = FC_HBA_STATUS_OK -> FC_HBA_STATUS_LOOPDEGRADED
    [] value = "Error" /\ s = FC_HBA_STATUS_OK -> FC_HBA_STATUS_FAILED
    [] OTHER -> FC_HBA_STATUS_OTHER

cpqfca_update_condition(s) ==
  CASE s \in {FC_HBA_STATUS_FAILED, FC_HBA_STATUS_SHUTDOWN, FC_HBA_STATUS_LOOPFAILED}
         -> FC_HBA_CONDITION_FAILED
    [] s = FC_HBA_STATUS_LOOPDEGRADED -> FC_HBA_CONDITION_DEGRADED
    [] s \in {FC_HBA_STATUS_NOTCONNECTED, FC_HBA_STATUS_OK} -> FC_HBA_CONDITION_OK
    [] OTHER -> FC_HBA_CONDITION_OTHER

\* Mutant of TrapDue: a status that is not known is no news.
TrapIfKnown(old, new) ==
  new \notin {old, FC_HBA_STATUS_OTHER} /\ old # FC_HBA_STATUS_OTHER

TrapDue(old, new) == new # old /\ old # FC_HBA_STATUS_OTHER

\* Mutant of Worst: the condition of the host that was visited last.
LastCondition(c) == c

Worst(c) == IF FcaCondition < c THEN c ELSE FcaCondition

\* The end of both visits, SendFcaTrap among it.  A row starts with the old
\* status OTHER, so that its first status is never sent.
Visited(h, s) ==
  LET old == IF status[h] = 0 THEN FC_HBA_STATUS_OTHER ELSE status[h]
      c == cpqfca_update_condition(s)
  IN
  /\ status' = [status EXCEPT ![h] = s]
  /\ told' = IF TrapDue(old, s) THEN [told EXCEPT ![h] = s] ELSE told
  /\ FcaCondition' = Worst(c)
  /\ health' = FcaCondition'
  /\ cond' = IF FcaCondition' # FcaCondition THEN FcaCondition' ELSE cond

-----------------------------------------------------------------------------
(* netsnmp_arch_fcahc_container_load *)

\* Without a host the conditions are written once more and rows are left.
LoadStart ==
  /\ at = "idle"
  /\ IF Present = {}
     THEN /\ cond' = FcaCondition
          /\ UNCHANGED <<at, todo, status, FcaCondition, health, told>>
     ELSE /\ at' = "load" /\ todo' = Present
          /\ UNCHANGED rowVars
  /\ UNCHANGED <<worldVars, pending, missed>>

\* Mutant of HostStatus: the state of the host is read for a new row only.
HostStatusOnce(h) == IF status[h] # 0 THEN status[h] ELSE FC_HBA_STATUS_OK

\* The status by the state of the SCSI host, before that of the port.
HostStatus(h) ==
  CASE h \notin Present \/ scsi[h] = "unreadable"
         -> IF status[h] = 0 THEN FC_HBA_STATUS_OK ELSE status[h]
    [] scsi[h] = "running" -> FC_HBA_STATUS_OK
    [] OTHER -> FC_HBA_STATUS_FAILED

\* A host that was listed and is gone when it is read still gets its row.
LoadHost(h) ==
  /\ at \in {"init", "load"} /\ h \in todo
  /\ todo' = todo \ {h}
  /\ Visited(h, IF h \in Present /\ port[h] # "unreadable"
                THEN cpqfca_update_status(port[h], HostStatus(h))
                ELSE HostStatus(h))
  /\ missed' = missed \ {h}
  /\ UNCHANGED <<worldVars, pending, at>>

\* The initialisation ends by writing OK over what the load has found.
LoadEnd ==
  /\ at \in {"init", "load"} /\ todo = {}
  /\ at' = "idle"
  /\ cond' = IF at = "init" THEN FC_HBA_CONDITION_OK ELSE cond
  /\ UNCHANGED <<worldVars, pending, todo, missed, status, FcaCondition, health, told>>

-----------------------------------------------------------------------------
(* cpqfca_update_hba_status *)

\* A status that cannot be told (OTHER) is not taken over.
StatusAfterEvent(h) ==
  LET s == cpqfca_update_status(port[h], status[h]) IN
  IF port[h] = "unreadable" \/ s = FC_HBA_STATUS_OTHER THEN status[h] ELSE s

\* A change of the link may announce several remote ports.
Update(h) ==
  /\ at = "idle" /\ h \in pending
  /\ pending' \in {pending, pending \ {h}}
  /\ IF h \in Present /\ status[h] # 0
     THEN /\ Visited(h, StatusAfterEvent(h))
          /\ missed' = missed \ {h}
     ELSE UNCHANGED <<rowVars, missed>>
  /\ UNCHANGED <<worldVars, at, todo>>

-----------------------------------------------------------------------------

Next ==
  \/ \E h \in Host : PortChanges(h) \/ HostChanges(h) \/ PlugOrUnplug(h)
  \/ LoadStart \/ LoadEnd
  \/ \E h \in Host : LoadHost(h) \/ Update(h)

Spec == Init /\ [][Next]_vars

\* A manager asks for the table again and again, and each time the cache has
\* expired it is loaded; a load in progress goes on.
Fairness ==
  /\ WF_vars(LoadStart) /\ WF_vars(LoadEnd)
  /\ \A h \in Host : WF_vars(LoadHost(h))

FairSpec == Spec /\ Fairness

-----------------------------------------------------------------------------
(* Properties *)

\* The manager who goes by the traps is not misled: a status sent for a host
\* is the one it has, whichever of loads and callbacks has changed it since
\* (oldStatus in both).  Only OTHER may hide any status, as no trap is sent
\* when a host leaves it.
TrapsFollowStatus ==
  \A h \in Host : told[h] \in {FC_HBA_STATUS_OTHER, status[h]}

\* When the events are worked through and none was lost, the row of a port
\* that is up says OK, whatever it was before and though a callback drops each
\* status it cannot tell; and that of one that is down does not
\* (cpqfca_update_status).  A host gets its row with the next load.
PortIsShown ==
  \A h \in Present \ (pending \cup missed) :
    status[h] # 0 /\ h \notin todo =>
      /\ port[h] = "Online" => status[h] = FC_HBA_STATUS_OK
      /\ port[h] \in {"Linkdown", "Bypassed", "Error"} => status[h] # FC_HBA_STATUS_OK

\* The health that the host MIB shows is not better than any row, however
\* loads and callbacks follow each other (FcaCondition).
HealthCoversRows ==
  \A h \in Host : status[h] # 0 => cpqfca_update_condition(status[h]) <= health

\* A port that stays in error below a running host is shown as failed in the
\* end, though no callback can turn another status into this one.
ErrorIsShown ==
  \A h \in Host :
    <>[](port[h] = "Error" /\ scsi[h] = "running")
      => <>[](status[h] = FC_HBA_STATUS_FAILED)

-----------------------------------------------------------------------------
(***************************************************************************)
(* Why PortIsShown holds: FcaTableProofs.                                  *)
(***************************************************************************)
\* A host has no row, and is in no listing, before it comes.
AbsentIsUnknown == \A h \in Host : port[h] = "absent" => status[h] = 0 /\ h \notin todo

IInv == AbsentIsUnknown /\ PortIsShown
=============================================================================
