------------------------------ MODULE MainLoop -------------------------------
(***************************************************************************)
(* The main program (amsHelper.c): the checks, the start-up in order, the  *)
(* two signal handlers, the loop around select() and the way out.  What a  *)
(* step of the start-up or a request does is the subject of the other      *)
(* modules; here it may leave net-snmp alarms behind, which wake the loop. *)
(***************************************************************************)
EXTENDS Integers, Sequences, FiniteSets

CONSTANTS
  Counter,   \* the usage counters, each with an alarm of its own
  MibLists,  \* what -M can ask for, the default among it
  Device,    \* PCI devices of HP that the hpilo driver may have
  Revision   \* revisions of the device

ASSUME MainAssumption ==
  /\ MibLists \subseteq SUBSET {"ahs", "mibII", "host", "tables", "pmp"}
  /\ Revision \subseteq 0 .. 255
  /\ Counter \cap {"ping", "trap", "cache"} = {}

VARIABLES
  mibs,         \* what the option -M left switched on
  kdump_only,   \* option -k
  gen8_only,    \* FALSE with option -O
  ilo,          \* the iLO: device and revision
  pc,           \* where main() or receive() is
  step,         \* steps of the start-up and of Install that are done
  ams_running,
  handled,      \* signals with the handler stop_server
  alarms,       \* of each alarm: "none", "waiting" or "due"
  packet,       \* a socket is readable
  block,        \* select() was given no timeout
  records,      \* kinds of record sent to the iLO
  asked         \* for the properties: a handled signal came

optionVars == <<mibs, kdump_only, gen8_only, ilo>>
loopVars == <<ams_running, handled, packet, block>>
vars == <<optionVars, pc, step, loopVars, alarms, records, asked>>

Mib == {"ahs", "mibII", "host", "tables", "pmp"}
Alarms == Counter \cup {"ping", "trap", "cache"}
Signals == {"TERM", "INT"}
Over == {"exited", "killed"}

\* What main() does before the loop, in order, and the switch it is under.
Steps == << <<"crashes", "ahs">>, <<"boot", "ahs">>, <<"init_snmp", "always">>,
            <<"mibII", "mibII">>, <<"host", "host">>, <<"listings", "ahs">>,
            <<"tables", "tables">>, <<"pmp", "pmp">>, <<"counters", "ahs">> >>

TypeOK ==
  /\ mibs \in SUBSET Mib /\ kdump_only \in BOOLEAN /\ gen8_only \in BOOLEAN
  /\ ilo \in Device \X Revision
  /\ pc \in {"check", "start", "install", "test", "select", "asleep", "events",
             "timeout", "interrupted", "alarms", "leave"} \cup Over
  /\ step \in 0 .. Len(Steps) + 3
  /\ ams_running \in BOOLEAN /\ handled \in SUBSET Signals
  /\ alarms \in [Alarms -> {"none", "waiting", "due"}]
  /\ {packet, block, asked} \subseteq BOOLEAN
  /\ records \in SUBSET {"crash", "boot", "information", "shutdown"}

-----------------------------------------------------------------------------
(* Start *)

\* GetiLOGen: by the device, and for some by the revision.
GetiLOGen(device, revision) ==
  LET Fixed == [i04 |-> 0, i05 |-> 1, i0e |-> 3, i81 |-> 4]
  IN  IF device \in DOMAIN Fixed THEN Fixed[device]
      ELSE IF device = "i09" /\ revision \notin {3, 4} THEN 1
      ELSE revision - 1

\* The alarms that a step may register: for which, other modules tell.
AlarmsOf(name) ==
  CASE name = "init_snmp"          -> {"ping"}
    [] name = "host"               -> {"trap", "cache"}
    [] name \in {"tables", "pmp"}  -> {"cache"}
    [] name = "counters"           -> Counter
    [] OTHER                       -> {}

RecordsOf(name) ==
  CASE name = "crashes"  -> {"crash"}
    [] name = "boot"     -> {"boot"}
    [] name = "listings" -> {"information"}
    [] OTHER             -> {}

Init ==
  /\ mibs \in MibLists
  /\ kdump_only \in BOOLEAN /\ gen8_only \in BOOLEAN
  /\ ilo \in Device \X Revision
  /\ pc = "check" /\ step = 0
  /\ ams_running = FALSE /\ handled = {} /\ asked = FALSE
  /\ alarms = [a \in Alarms |-> "none"]
  /\ packet = FALSE /\ block = FALSE /\ records = {}

\* Without SMBIOS tables the iLO is not looked at; only with -O that will do.
Check ==
  /\ pc = "check"
  /\ \E smbios \in BOOLEAN :
       LET fits == smbios /\ GetiLOGen(ilo[1], ilo[2]) >= 4
       IN  pc' = IF gen8_only /\ ~fits THEN "exited" ELSE "start"
  /\ UNCHANGED <<optionVars, step, loopVars, alarms, records, asked>>

Register(A) ==
  alarms' = [a \in Alarms |-> IF a \in A /\ alarms[a] = "none" THEN "waiting" ELSE alarms[a]]

\* One step; with -k the first one is all, if it is switched on.
StartStep ==
  /\ pc = "start" /\ step < Len(Steps)
  /\ step' = step + 1
  /\ LET name == Steps[step + 1][1]
         on == Steps[step + 1][2] \in mibs \cup {"always"}
     IN  /\ \E A \in SUBSET AlarmsOf(name) : Register(IF on THEN A ELSE {})
         /\ records' = IF on THEN records \cup RecordsOf(name) ELSE records
         /\ pc' = IF on /\ name = "crashes" /\ kdump_only THEN "exited"
                  ELSE IF step' = Len(Steps) THEN "install" ELSE "start"
  /\ UNCHANGED <<optionVars, loopVars, asked>>

\* Mutant: the flag is set when the handlers are in place.
HandlersFirst == <<"TERM", "INT", "ams_running">>

InstallOrder == <<"ams_running", "TERM", "INT">>

\* ams_running and the two signal() calls.
Install ==
  /\ pc = "install" /\ step' = step + 1
  /\ LET it == InstallOrder[step' - Len(Steps)]
     IN  IF it = "ams_running" THEN ams_running' = TRUE /\ UNCHANGED handled
         ELSE handled' = handled \cup {it} /\ UNCHANGED ams_running
  /\ pc' = IF step' = Len(Steps) + 3 THEN "test" ELSE "install"
  /\ UNCHANGED <<optionVars, packet, block, alarms, records, asked>>

-----------------------------------------------------------------------------
(* receive() *)

Test ==
  /\ pc = "test"
  /\ IF ams_running
     THEN pc' = "select" /\ block' = \A a \in Alarms : alarms[a] = "none"
     ELSE pc' = "leave" /\ UNCHANGED block
  /\ UNCHANGED <<optionVars, step, ams_running, handled, packet, alarms, records, asked>>

\* From here on a signal ends the sleep; one that comes before does not.
Select ==
  /\ pc = "select" /\ pc' = "asleep"
  /\ UNCHANGED <<optionVars, step, loopVars, alarms, records, asked>>

Wake ==
  /\ pc = "asleep"
  /\ \/ packet /\ pc' = "events"
     \/ ~packet /\ ~block /\ (\E a \in Alarms : alarms[a] = "due") /\ pc' = "timeout"
  /\ UNCHANGED <<optionVars, step, loopVars, alarms, records, asked>>

\* Any error but EINTR ends receive(), and main() goes on as after a signal.
SelectFails ==
  /\ pc = "asleep" /\ pc' = "leave"
  /\ UNCHANGED <<optionVars, step, loopVars, alarms, records, asked>>

\* Mutant: alarms are left to the iterations without events.
AlarmsAtTimeout == IF pc = "timeout" THEN "alarms" ELSE "test"

AfterEvents == "alarms"

\* netsnmp_dispatch_external_events2, snmp_read2: a request may load a
\* table; an event may do the same.
Dispatch ==
  /\ pc = "events" /\ packet' = FALSE
  /\ \E A \in SUBSET {"cache"} : Register(A)
  /\ pc' = AfterEvents
  /\ UNCHANGED <<optionVars, step, ams_running, handled, block, records, asked>>

Timeout ==
  /\ pc = "timeout" /\ pc' = AfterEvents
  /\ UNCHANGED <<optionVars, step, loopVars, alarms, records, asked>>

\* EINTR
Interrupted ==
  /\ pc = "interrupted"
  /\ pc' = IF ams_running THEN "select" ELSE "test"
  /\ UNCHANGED <<optionVars, step, loopVars, alarms, records, asked>>

\* run_alarms: all that are due; the release of caches is registered anew
\* while some table is loaded.
RunAlarms ==
  /\ pc = "alarms" /\ pc' = "test"
  /\ \E again \in {"none", "waiting"} :
       alarms' = [a \in Alarms |-> IF alarms[a] # "due" THEN alarms[a]
                                   ELSE IF a = "cache" THEN again ELSE "waiting"]
  /\ UNCHANGED <<optionVars, step, loopVars, records, asked>>

\* snmp_shutdown, LOG_OS_SHUTDOWN: whatever -M says.
Leave ==
  /\ pc = "leave" /\ pc' = "exited"
  /\ records' = records \cup {"shutdown"}
  /\ UNCHANGED <<optionVars, step, loopVars, alarms, asked>>

-----------------------------------------------------------------------------
(* What comes from outside *)

\* stop_server, or the default action.
Signal(s) ==
  /\ pc \notin Over
  /\ IF s \in handled
     THEN /\ ams_running' = FALSE /\ asked' = TRUE
          /\ pc' = IF pc = "asleep" THEN "interrupted" ELSE pc
     ELSE /\ pc' = "killed"
          /\ UNCHANGED <<ams_running, asked>>
  /\ UNCHANGED <<optionVars, step, handled, alarms, packet, block, records>>

\* Packets and kernel events, once there is a session.
Arrive ==
  /\ pc \notin Over /\ step >= 3 /\ packet' = TRUE
  /\ UNCHANGED <<optionVars, pc, step, ams_running, handled, alarms, block, records, asked>>

Elapse(a) ==
  /\ pc \notin Over /\ alarms[a] = "waiting"
  /\ alarms' = [alarms EXCEPT ![a] = "due"]
  /\ UNCHANGED <<optionVars, pc, step, loopVars, records, asked>>

Run == \/ Check \/ StartStep \/ Install
       \/ Test \/ Select \/ Wake \/ Dispatch \/ Timeout \/ Interrupted \/ RunAlarms
       \/ Leave

Next == \/ Run
        \/ SelectFails
        \/ \E s \in Signals : Signal(s)
        \/ Arrive
        \/ \E a \in Alarms : Elapse(a)

Spec == Init /\ [][Next]_vars

\* The thread runs whenever it can, and time passes.
FairSpec == Spec /\ WF_vars(Run) /\ \A a \in Alarms : WF_vars(Elapse(a))

-----------------------------------------------------------------------------
(* Properties *)

\* A signal that has a handler stops the agent with a shutdown record
\* although it may come just before select(), where nothing interrupts:
\* some alarm ends the sleep.  (It can be killed by a second signal as long
\* as that one has no handler.)  Without any alarm the agent may sleep on.
StopIsLogged ==
  asked /\ (\E a \in Alarms : alarms[a] # "none") ~> "shutdown" \in records \/ pc = "killed"

\* An alarm that is due runs, even if there is always something to read.
DueAlarmRuns ==
  \A a \in Alarms :
    alarms[a] = "due" /\ pc \notin Over ~> alarms[a] # "due" \/ asked \/ pc \in Over
=============================================================================
