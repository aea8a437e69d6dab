------------------------------ MODULE Recorder ------------------------------
(***************************************************************************)
(* The recorder client of amsHelper: the LOG_* routines that main() calls  *)
(* once (amsHelper.c), and the usage callbacks that net-snmp alarms call   *)
(* for as long as the agent runs.  The process has one thread, so what     *)
(* interleaves with a routine is the iLO: it can reset, refuse, answer     *)
(* late or not at all between any two exchanges.                           *)
(*                                                                         *)
(* Every routine has the same shape: rec_init (allocate a class, register  *)
(* a feeder, each only if not yet done), one code descriptor and some      *)
(* field descriptors, rec_api3 to set the code, rec_api6 per record.       *)
(* They differ in what they do when a step fails.                          *)
(***************************************************************************)
EXTENDS RecorderChannel, Sequences, FiniteSets

\* The order of main() with every MIB selected.
MainOrder == <<"crash", "boot", "osinfo", "driver", "drvchange", "service",
               "package", "os", "proc", "mem">>

CONSTANTS
  StartOrder,    \* the LOG_* calls of main(): MainOrder, a part of it in a
                 \* small instance, or <<>> where -M leaves out MIB 0
  LogInterval,   \* log_interval, the argument of -I
  FailureSeen    \* is the `false' that rec_init returns a false value?

\* LOG_DRIVERS runs LOG_DRIVER_SETUP a second time, for another code, and
\* main() calls the LOG_* routine of a counter once.
ASSUME RecorderAssumption ==
  /\ StartOrder \in Seq(Code \ {"shutdown"})
  /\ \A i \in 1 .. Len(StartOrder) : StartOrder[i] = "driver" =>
       i < Len(StartOrder) /\ StartOrder[i + 1] = "drvchange"
  /\ \A i, j \in 1 .. Len(StartOrder) :
       StartOrder[i] = StartOrder[j] /\ StartOrder[i] \in Counter => i = j
  /\ LogInterval \in 0 .. 3
  /\ FailureSeen \in BOOLEAN

VARIABLES
  phase,      \* where main() is
  todo,       \* index in StartOrder of the next startup routine
  at,         \* the exchange the running routine is about to make
  cur,        \* the code the running (or last) routine works on
  blob,       \* the next descriptor blob, 0 for the code descriptor
  nested,     \* LOG_*_USAGE called from rec_log_*_usage
  armed,      \* alarms registered for each counter
  primed,     \* rec_log_proc_usage has an earlier sample to compare with
  watched     \* LOG_DRIVERS has registered for the uevents of modules

vars == <<channelVars, phase, todo, at, cur, blob, nested, armed, primed, watched>>

Stage == {"idle", "alloc", "register", "describe", "set", "log"}

RoutineTypeOK ==
  /\ at \in Stage
  /\ cur \in Code
  /\ blob \in 0 .. Blobs(cur)
  /\ nested \in BOOLEAN

TypeOK ==
  /\ ChannelTypeOK
  /\ RoutineTypeOK
  /\ phase \in {"startup", "receive", "shutdown", "stopped"}
  /\ todo \in Nat \ {0}
  /\ armed \in [Counter -> Nat]
  /\ primed \in BOOLEAN
  /\ watched \in BOOLEAN

Init ==
  /\ ChannelInit
  /\ phase = "startup"
  /\ todo = 1
  /\ at = "idle"
  /\ cur = "crash"
  /\ blob = 0
  /\ nested = FALSE
  /\ armed = [c \in Counter |-> 0]
  /\ primed = FALSE
  /\ watched = FALSE

-----------------------------------------------------------------------------
(* Control *)

\* rec_init skips what an earlier routine has already done.
FirstStage ==
  IF s_ams_rec_class = None THEN "alloc"
  ELSE IF s_ams_rec_handle = None THEN "register" ELSE "describe"

Enter(c, inUsage) ==
  /\ cur' = c
  /\ blob' = 0
  /\ at' = FirstStage
  /\ nested' = inUsage

GoTo(stage) ==
  /\ at' = stage
  /\ blob' = 0
  /\ nested' = FALSE
  /\ UNCHANGED cur

Return == GoTo("idle")

\* LOG_DRIVERS gives up before it reaches the set-up of the second code.
SkipRest == todo' = IF cur = "driver" THEN todo + 1 ELSE todo

\* An early return of a LOG_* routine: to main(), or to the usage callback,
\* which goes on to set the code whatever became of the descriptors.
GiveUp ==
  /\ IF nested THEN GoTo("set") ELSE Return
  /\ SkipRest

\* Mutant of InitFailed: the caller gives up, as if it saw the failure.
InitFailedSeen == GiveUp

\* A failed rec_init.  log.c defines false as 1 when no header does, and
\* then the caller's `if (!rec_init())' never sees the failure.
InitFailed ==
  IF FailureSeen THEN GiveUp ELSE /\ at' = "describe"
                                  /\ UNCHANGED <<cur, blob, nested, todo>>

-----------------------------------------------------------------------------
(* The exchanges *)

\* Mutant of Succeeded: any reply will do.
SucceededIfRead(o) == Read(o) /\ o # "nomem"

\* The routine got what it asked for, and goes on.
Succeeded(o) == Result(o, HandleReply(o)) = RECORDER_OK /\ o # "nomem"

\* rec_api13.  The reply code, whatever it is, becomes the class; a failure
\* leaves the channel as it is.
Alloc(o) ==
  /\ at = "alloc"
  /\ Exchange(o, AllocReply(o), FALSE)
  /\ IloAllocate(o)
  /\ s_ams_rec_class' = Result(o, AllocReply(o))
  /\ IF Result(o, AllocReply(o)) = None
     THEN InitFailed
     ELSE /\ at' = IF s_ams_rec_handle = None THEN "register" ELSE "describe"
          /\ UNCHANGED <<cur, blob, nested, todo>>
  /\ UNCHANGED <<s_ams_rec_handle, usage_reinit, phase, armed, primed, watched>>

\* rec_api1
Register(o) ==
  /\ at = "register"
  /\ Exchange(o, RegisterReply(o), Broken(o))
  /\ IloRegister(o)
  /\ IF Result(o, RegisterReply(o)) = RECORDER_OK
     THEN /\ s_ams_rec_handle' = Got(RegisterReply(o)).handle
          /\ UNCHANGED <<s_ams_rec_class, usage_reinit>>
          /\ at' = "describe"
          /\ UNCHANGED <<cur, blob, nested, todo>>
     ELSE SessionAfter(o) /\ InitFailed
  /\ UNCHANGED <<phase, armed, primed, watched>>

\* Mutant of Repetition: usage_reinit is not tested.
NeverRepetition == FALSE

\* All descriptors of the code are sent.
\* A counter arms its alarm, or logs at once with -I0, unless this is the
\* repetition that usage_reinit asked for.
Repetition == usage_reinit[cur]

LastBlob ==
  CASE cur \in Counter /\ Repetition ->
         /\ usage_reinit' = [usage_reinit EXCEPT ![cur] = FALSE]
         /\ GoTo(IF nested THEN "set" ELSE "idle")
         /\ UNCHANGED <<armed, todo>>
    [] cur \in Counter /\ ~Repetition ->
         /\ armed' = [armed EXCEPT ![cur] = IF LogInterval = 0 THEN @ ELSE @ + 1]
         /\ GoTo(IF nested \/ LogInterval = 0 THEN "set" ELSE "idle")
         /\ UNCHANGED <<usage_reinit, todo>>
    [] cur = "drvchange" -> Return /\ UNCHANGED <<usage_reinit, armed, todo>>
    [] cur = "crash" -> GoTo("log") /\ UNCHANGED <<usage_reinit, armed, todo>>
    [] cur = "driver" ->            \* /proc/modules may not open
         /\ \/ GoTo("set") /\ UNCHANGED todo
            \/ Return /\ SkipRest
         /\ UNCHANGED <<usage_reinit, armed>>
    [] OTHER -> GoTo("set") /\ UNCHANGED <<usage_reinit, armed, todo>>

\* Mutant of MoreBlobs: one blob too many.
OneBlobTooMany == blob <= Blobs(cur)

MoreBlobs == blob < Blobs(cur)

NextBlob ==
  /\ blob' = blob + 1
  /\ UNCHANGED <<usage_reinit, at, cur, nested, armed, todo>>

\* rec_api4: doCodeDescriptor for blob 0, rec_api4_field for the others.
Describe(o) ==
  /\ at = "describe"
  /\ Exchange(o, HandleReply(o), Broken(o))
  /\ IloDescribe(o, cur, blob)
  /\ IF Succeeded(o)
     THEN /\ IF MoreBlobs THEN NextBlob ELSE LastBlob
          /\ UNCHANGED <<s_ams_rec_class, s_ams_rec_handle>>
     ELSE SessionAfter(o) /\ GiveUp /\ UNCHANGED armed
  /\ UNCHANGED <<phase, primed, watched>>

\* rec_api3 of the routines main() calls: a failure ends the routine, and
\* so does an empty list.
SetCode(o) ==
  /\ at = "set" /\ cur \notin Counter
  /\ Exchange(o, HandleReply(o), Broken(o))
  /\ IloSetCode(o, cur)
  /\ IF Succeeded(o)
     THEN /\ GoTo("log") \/ (cur \in Listing /\ Return)
          /\ KeepSession /\ UNCHANGED todo
     ELSE SessionAfter(o) /\ GiveUp
  /\ UNCHANGED <<phase, armed, primed, watched>>

\* rec_api3 of a usage callback: any failure is answered by close_rec(1).
\* The first processor sample is only kept, and the channel stays open.
SetUsageCode(o) ==
  /\ at = "set" /\ cur \in Counter
  /\ Exchange(o, HandleReply(o), ~Succeeded(o))
  /\ IloSetCode(o, cur)
  /\ IF Succeeded(o)
     THEN /\ KeepSession
          /\ GoTo(IF cur = "proc" /\ ~primed THEN "idle" ELSE "log")
          /\ primed' = (primed \/ cur = "proc")
     ELSE ForgetSession /\ Return /\ UNCHANGED primed
  /\ UNCHANGED <<phase, todo, armed, watched>>

\* rec_api6 of the routines main() calls.  What becomes of a record is
\* ignored.  Only the listings have more than one record, and they may skip
\* an entry or, but for LOG_DRIVERS, end early on one that is too large.
LogRecord(o) ==
  /\ at = "log" /\ cur \notin Counter
  /\ Exchange(o, HandleReply(o), Broken(o))
  /\ IloLog(o, cur)
  /\ SessionAfter(o)
  /\ Return \/ (cur \in Listing /\ GoTo("log"))
  /\ UNCHANGED <<phase, todo, armed, primed, watched>>

\* Mutant of LogUsage: close_rec(0) is forgotten.
LogUsageKeepingChannel(o) ==
  /\ at = "log" /\ cur \in Counter
  /\ Exchange(o, HandleReply(o), Broken(o))
  /\ IloLog(o, cur)
  /\ SessionAfter(o)
  /\ Return
  /\ UNCHANGED <<phase, todo, armed, primed, watched>>

\* rec_api6 of a usage callback, which then gives the channel back with
\* close_rec(0): class and handle are kept unless the exchange broke.
LogUsage(o) ==
  /\ at = "log" /\ cur \in Counter
  /\ Exchange(o, HandleReply(o), TRUE)
  /\ IloLog(o, cur)
  /\ SessionAfter(o)
  /\ Return
  /\ UNCHANGED <<phase, todo, armed, primed, watched>>

\* Where a routine takes memory after an exchange, and returns if there is
\* none: for the field descriptors, and for the record.
Allocates ==
  \/ at = "describe" /\ blob = 0 /\ Blobs(cur) > 0 /\ cur # "proc"
  \/ at = "describe" /\ blob = Blobs(cur) /\ cur = "crash"
  \/ at = "set" /\ cur \in {"service", "package", "osinfo", "proc"}

\* Where the process may die of memory: LOG_PROCESSOR_USAGE fills field
\* descriptors that it got no memory for, and LOG_DRIVER frees a blob it has
\* not allocated yet when an entry is too large.  (Or it goes on, when what
\* happens to be in the pointer can be freed.)
MayDie ==
  \/ at = "describe" /\ cur = "proc" /\ blob = 1 /\ CanFault("nomem")
  \/ at = "log" /\ cur = "driver"

Die ==
  /\ MayDie
  /\ phase' = "stopped"
  /\ GoTo("idle")
  /\ UNCHANGED <<channelVars, todo, armed, primed, watched>>

Routine ==
  \E o \in Outcome :
    /\ o = "nomem" => Allocates
    /\ \/ Alloc(o) \/ Register(o) \/ Describe(o)
       \/ SetCode(o) \/ SetUsageCode(o) \/ LogRecord(o) \/ LogUsage(o)

-----------------------------------------------------------------------------
(* main() and the alarms *)

\* The next routine of the startup sequence.  The crash log is sent as any
\* number of separate records, each with its own rec_init.
StartNext ==
  /\ phase = "startup" /\ at = "idle"
  /\ todo <= Len(StartOrder)
  /\ \/ /\ Enter(StartOrder[todo], FALSE)
        /\ todo' = todo + 1
     \/ /\ StartOrder[todo] = "crash"
        /\ Enter("crash", FALSE)
        /\ UNCHANGED todo
     \/ /\ StartOrder[todo] = "crash"
        /\ todo' = todo + 1
        /\ UNCHANGED <<cur, blob, at, nested>>
  /\ watched' = (watched \/ StartOrder[todo] = "drvchange")
  /\ UNCHANGED <<channelVars, phase, armed, primed>>

Running ==
  /\ phase = "startup" /\ at = "idle"
  /\ todo > Len(StartOrder)
  /\ phase' = "receive"
  /\ UNCHANGED <<channelVars, todo, at, cur, blob, nested, armed, primed, watched>>

\* run_alarms() calls rec_log_<c>_usage.
Alarm(c) ==
  /\ phase = "receive" /\ at = "idle"
  /\ armed[c] > 0
  /\ cur' = c /\ blob' = 0
  /\ nested' = usage_reinit[c]
  /\ at' = IF usage_reinit[c] THEN FirstStage ELSE "set"
  /\ UNCHANGED <<channelVars, phase, todo, armed, primed, watched>>

\* LOG_PROCESSOR_USAGE returns at once when /sys/class/cpuid is gone: to
\* main(), or to its alarm, which goes on to set the code all the same.
NoProcessors ==
  /\ at = "idle" /\ CanFault("nocpuid")
  /\ faults' = faults + 1
  /\ \/ /\ phase = "startup" /\ todo <= Len(StartOrder)
        /\ StartOrder[todo] = "proc"
        /\ todo' = todo + 1
        /\ UNCHANGED <<at, cur, blob, nested>>
     \/ /\ phase = "receive" /\ armed["proc"] > 0 /\ usage_reinit["proc"]
        /\ at' = "set" /\ cur' = "proc" /\ blob' = 0 /\ nested' = FALSE
        /\ UNCHANGED todo
  /\ UNCHANGED <<clientVars, iloVars, phase, armed, primed, watched>>

\* Mutant of ModuleCallback: the registration that must have been meant.
ModuleCallbackAsMeant == [devtype |-> "", func |-> "drvchange"]

\* What LOG_DRIVERS puts into the list of nl_udev.c.  It calls udev_register
\* with four arguments for five, no prototype being in sight: the callback
\* goes where the device type belongs, as its machine code, and null goes
\* where the callback belongs.
ModuleCallback == [devtype |-> "code", func |-> "null"]

\* A module is loaded or removed.  Its uevent has no DEVTYPE, so only an
\* entry without one is called; rec_driver_load_dynamic and _unload_dynamic
\* would set the code of the records and describe nothing.
ModuleEvent ==
  /\ phase = "receive" /\ at = "idle"
  /\ IF watched /\ ModuleCallback.devtype = ""
     THEN /\ cur' = ModuleCallback.func
          /\ at' = "set" /\ blob' = 0 /\ nested' = FALSE
     ELSE UNCHANGED <<cur, at, blob, nested>>
  /\ UNCHANGED <<channelVars, phase, todo, armed, primed, watched>>

\* receive() returns, on a signal or on a failed select().
Stop ==
  /\ phase = "receive" /\ at = "idle"
  /\ phase' = "shutdown"
  /\ Enter("shutdown", FALSE)
  /\ UNCHANGED <<channelVars, todo, armed, primed, watched>>

Exit ==
  /\ phase = "shutdown" /\ at = "idle"
  /\ phase' = "stopped"
  /\ UNCHANGED <<channelVars, todo, at, cur, blob, nested, armed, primed, watched>>

Reset ==
  /\ phase # "stopped"
  /\ IloReset
  /\ UNCHANGED <<phase, todo, at, cur, blob, nested, armed, primed, watched>>

Next == \/ Routine \/ Die
        \/ StartNext \/ Running
        \/ (\E c \in Counter : Alarm(c)) \/ NoProcessors
        \/ ModuleEvent
        \/ Stop \/ Exit
        \/ Reset

Spec == Init /\ [][Next]_vars

\* The thread runs; an alarm that is due stays due until run_alarms()
\* reaches it, and each one is due again after its period.
Fairness == /\ WF_vars(Routine)
            /\ WF_vars(StartNext \/ Running \/ Exit)
            /\ \A c \in Counter : SF_vars(Alarm(c))

FairSpec == Spec /\ Fairness

-----------------------------------------------------------------------------
(* Properties *)

\* Descriptors that are missing are always sent again at the next alarm: a
\* counter that is armed, or about to be logged, and that does not ask for
\* its descriptors again (usage_reinit clear) has had them taken from the
\* feeder in use, if the iLO still knows that feeder (close_rec(1), and the
\* tests of usage_reinit in LOG_*_USAGE and rec_log_*_usage).
MissingIsAskedFor ==
  \A c \in Counter :
    /\ armed[c] > 0 \/ (cur = c /\ at \in {"set", "log"})
    /\ ~usage_reinit[c]
    /\ s_ams_rec_handle \in feeders
    => Described(s_ams_rec_handle, c)

\* A record the iLO keeps can be decoded: the descriptors of its code were
\* sent for the feeder it came from, also after any number of iLO resets
\* and channel failures (linux.c close_rec, rec_log_*_usage).  The records of
\* modules that come and go would break it, as their descriptors are sent
\* once and for all (driver.c), if their callbacks were ever called.
RecordsAreDescribed == \A r \in log : r.described

\* A record is stored under the code of the routine that wrote it, though
\* all routines share one handle whose code is set in a separate exchange.
\* The crash log is the exception: log_buffer_contents_rec never calls
\* rec_api3, so that its records go under the code that was set last.
RecordsHaveTheirCode == \A r \in log : r.by # "crash" => r.code = r.by

\* A counter's callback is never registered twice, although the alarm
\* itself calls the LOG_*_USAGE that registers it.
OneAlarmPerCounter == \A c \in Counter : armed[c] <= 1

\* A counter whose alarm runs is logged again after every fault: the stale
\* class and handle are found out, replaced, and the descriptors repeated.
CountersResume ==
  \A c \in Counter :
    armed[c] > 0 ~> (\E r \in log : r.by = c) \/ phase # "receive"

\* The channel, one of a few that all clients of the iLO share, is not kept
\* between the samples.
ChannelGivenBack ==
  (\E c \in Counter : armed[c] > 0) ~> rec_fd = "none" \/ phase # "receive"

-----------------------------------------------------------------------------
(***************************************************************************)
(* The inductive invariant, as conjunctions of named parts.  RecorderProofs *)
(* shows that each is preserved, under InOrder.                            *)
(***************************************************************************)

\* A reply read in place of another would pass for a success.  It cannot, if
\* no reply is late, or if rec_init never reports a failure, so that the
\* routine goes on and uses the late replies up.
InOrder == FailureSeen => "slow" \notin Faults

LateReplyFindsNoFeeder ==
  late # NoReply =>
    /\ ~FailureSeen
    /\ rec_fd # "none"
    /\ s_ams_rec_handle = None
    /\ late.rcode = RECORDER_OK => at = "describe" /\ blob = 0

SessionIsOrdered ==
  /\ s_ams_rec_handle # None => s_ams_rec_class # None
  /\ at = "alloc" => s_ams_rec_class = None
  /\ at \in {"alloc", "register"} => s_ams_rec_handle = None /\ blob = 0

NestedRepeats ==
  nested => /\ cur \in Counter /\ usage_reinit[cur]
            /\ at \in {"alloc", "register", "describe"}

BlobsAreTaken ==
  at = "describe" /\ s_ams_rec_handle \in feeders =>
    \A b \in 0 .. (blob - 1) : <<cur, b>> \in descriptors[s_ams_rec_handle]

NoFeederIsAskedFor ==
  s_ams_rec_handle = None =>
    \A c \in Counter :
      armed[c] > 0 \/ (cur = c /\ at \in {"set", "log"}) => usage_reinit[c]

CodeIsSet ==
  at = "log" /\ cur # "crash" /\ s_ams_rec_handle \in feeders =>
    feederCode[s_ams_rec_handle] = cur

IInv == /\ LateReplyFindsNoFeeder
        /\ SessionIsOrdered
        /\ NestedRepeats
        /\ BlobsAreTaken
        /\ NoFeederIsAskedFor
        /\ MissingIsAskedFor
        /\ CodeIsSet
        /\ RecordsHaveTheirCode

\* Why no counter is armed twice: only the startup sequence arms, once.
ArmedInOrder ==
  /\ \A c \in Counter :
       /\ armed[c] <= 1
       /\ armed[c] > 0 => \E i \in 1 .. Len(StartOrder) : i < todo /\ StartOrder[i] = c
  /\ at \in {"alloc", "register", "describe"} /\ ~nested /\ cur \in Counter =>
       /\ armed[cur] = 0
       /\ \E i \in 1 .. Len(StartOrder) : i < todo /\ StartOrder[i] = cur

\* Faults that leave a routine half done and the iLO as it was.
NothingHalfDone == Faults \cap {"refused", "nochannel", "nomem", "nocpuid"} = {}

DescribedWhenLogged ==
  at \in {"set", "log"} /\ s_ams_rec_handle \in feeders =>
    Described(s_ams_rec_handle, cur)
=============================================================================
