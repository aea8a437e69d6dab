-------------------------- MODULE RecorderChannel --------------------------
(***************************************************************************)
(* The path from the recorder client to the iLO: recorder/linux.c (one     *)
(* CHIF channel, opened on demand and closed on failure), recorder/log.c   *)
(* (one request and one reply per rec_api call) and, external to the       *)
(* program, the feeder table of the iLO at the other end.                  *)
(*                                                                         *)
(* The module has no next-state relation of its own: Recorder drives it.   *)
(* One exchange is one step, and what can become of an exchange is an      *)
(* Outcome.  Everything that fails counts against MaxFaults.               *)
(***************************************************************************)
EXTENDS Integers

CONSTANTS
  MaxFeeders,   \* feeders the iLO can hold, RECORDER_MAX_FEEDERS of recorder.h
  MaxFaults,    \* bound on the faults of one behaviour
  Faults,       \* the kinds of fault that may happen
  ProcChunks    \* blobs the processor field descriptors are cut into

ASSUME ChannelAssumption ==
  /\ MaxFeeders \in Nat \ {0}
  /\ MaxFaults \in Nat
  /\ Faults \subseteq {"refused", "slow", "lost", "nochannel", "nomem", "nocpuid", "reset"}
  /\ ProcChunks \in Nat \ {0}

(***************************************************************************)
(* Record codes, ams_rec.h.  The three counters are logged periodically.   *)
(***************************************************************************)
Counter == {"os", "proc", "mem"}
Listing == {"driver", "service", "package"}
Code == Counter \cup Listing
          \cup {"crash", "boot", "osinfo", "drvchange", "shutdown"}

\* Field descriptor blobs a code needs after its code descriptor.
Blobs(c) == CASE c = "proc" -> ProcChunks
              [] c \in {"boot", "shutdown"} -> 0
              [] OTHER -> 1

Feeder == 1 .. MaxFeeders

(***************************************************************************)
(* Reply codes.  A class allocation answers with the class number in the   *)
(* same field that carries the error codes of every other request.         *)
(***************************************************************************)
RECORDER_OK == 0
RECORDER_ERR == 5
AmsClass == 9
None == -1
Rcode == {None, RECORDER_OK, RECORDER_ERR, AmsClass}

Reply == [rcode : Rcode, handle : Feeder \cup {None}]
NoReply == [rcode |-> None, handle |-> None]
ErrReply == [rcode |-> RECORDER_ERR, handle |-> None]

VARIABLES
  \* the client
  rec_fd,            \* "none", "open", or "dead": open, but torn down by the iLO
  late,              \* a reply that came after its reader gave up, unread in the channel
  s_ams_rec_class,
  s_ams_rec_handle,
  usage_reinit,      \* os_usage_reinit, proc_usage_reinit, mem_usage_reinit
  \* the iLO
  iloClass,          \* is the AMS class allocated?
  feeders,           \* registered feeder handles
  feederCode,        \* the code that a feeder's next records get
  descriptors,       \* descriptor blobs taken from each feeder: <<code, blob number>>
  log,               \* records taken since the iLO last started
  faults

clientVars == <<rec_fd, late, s_ams_rec_class, s_ams_rec_handle, usage_reinit>>
iloVars == <<iloClass, feeders, feederCode, descriptors, log>>
channelVars == <<clientVars, iloVars, faults>>

Record == [code : Code \cup {"unset"}, by : Code, described : BOOLEAN]

SessionTypeOK ==
  /\ s_ams_rec_class \in Rcode
  /\ s_ams_rec_handle \in Feeder \cup {None}
  /\ usage_reinit \in [Counter -> BOOLEAN]

IloTypeOK ==
  /\ iloClass \in BOOLEAN
  /\ feeders \in SUBSET Feeder
  /\ feederCode \in [Feeder -> Code \cup {"unset"}]
  /\ descriptors \in [Feeder -> SUBSET (Code \X Nat)]
  /\ log \in SUBSET Record

ChannelTypeOK ==
  /\ rec_fd \in {"none", "open", "dead"}
  /\ late \in Reply
  /\ faults \in 0 .. MaxFaults
  /\ SessionTypeOK
  /\ IloTypeOK

ChannelInit ==
  /\ rec_fd = "none"
  /\ late = NoReply
  /\ s_ams_rec_class = None
  /\ s_ams_rec_handle = None
  /\ usage_reinit = [c \in Counter |-> FALSE]
  /\ iloClass = FALSE
  /\ feeders = {}
  /\ feederCode = [h \in Feeder |-> "unset"]
  /\ descriptors = [h \in Feeder |-> {}]
  /\ log = {}
  /\ faults = 0

-----------------------------------------------------------------------------
(***************************************************************************)
(* The transport.                                                          *)
(*   answered   the request is carried out and a reply read                *)
(*   refused    the iLO answers with an error code                         *)
(*   slow       carried out, but the read gives up before the reply is in  *)
(*   lost       the write fails, or the iLO never sees the request         *)
(*   nochannel  init_rec finds no free channel                             *)
(*   nomem      answered, but the caller has no memory for what comes next *)
(* read() returns -1, never EINTR, so doRead and doWriteRead give up on    *)
(* the first failed read: there is no retry to model.  The other faults    *)
(* are "reset", of the iLO, and "nocpuid", of /sys/class/cpuid.            *)
(***************************************************************************)
Outcome == {"answered", "refused", "slow", "lost", "nochannel", "nomem"}

CanFault(kind) == kind \in Faults /\ faults < MaxFaults

Delivered(o) == o \in {"answered", "refused", "slow", "nomem"}
Read(o) == o \in {"answered", "refused", "nomem"}
Broken(o) == o \in {"slow", "lost"}

\* A dead channel is the trace of a fault already counted.
NewFault(o) == o # "answered" /\ ~(o = "lost" /\ rec_fd = "dead")

\* init_rec opens a channel only if none is open, and an open one that the
\* iLO has torn down fails at the write.
Possible(o) ==
  /\ Delivered(o) => rec_fd # "dead"
  /\ o = "slow" => late = NoReply
  /\ o = "nochannel" => rec_fd = "none"
  /\ NewFault(o) => CanFault(o)

\* Replies are taken in the order the channel queued them; the sequence
\* number of the request is not compared.
Got(reply) == IF late = NoReply THEN reply ELSE late

\* What the rec_api caller is told.
Result(o, reply) == IF Read(o) THEN Got(reply).rcode ELSE None

\* One request and its reply, with the channel closed at the end or left
\* as init_rec, write and read leave it.
Exchange(o, reply, close) ==
  /\ Possible(o)
  /\ faults' = IF NewFault(o) THEN faults + 1 ELSE faults
  /\ IF close
     THEN rec_fd' = "none" /\ late' = NoReply
     ELSE /\ rec_fd' = IF o = "nochannel" \/ rec_fd = "dead" THEN rec_fd ELSE "open"
          /\ late' = IF o = "slow" \/ (Read(o) /\ late # NoReply) THEN reply ELSE late

\* Mutants of ForgetSession: one counter's flag is missed; the handle is kept.
ForgetAllButMem ==
  /\ s_ams_rec_class' = None
  /\ s_ams_rec_handle' = None
  /\ usage_reinit' = [c \in Counter |-> c # "mem" \/ usage_reinit[c]]

ForgetFlagsOnly ==
  /\ usage_reinit' = [c \in Counter |-> TRUE]
  /\ UNCHANGED <<s_ams_rec_class, s_ams_rec_handle>>

\* The part of close_rec(1) that is not the channel: class and handle are
\* forgotten and every counter is to be described again.
ForgetSession ==
  /\ s_ams_rec_class' = None
  /\ s_ams_rec_handle' = None
  /\ usage_reinit' = [c \in Counter |-> TRUE]

KeepSession == UNCHANGED <<s_ams_rec_class, s_ams_rec_handle, usage_reinit>>

\* What a rec_api leaves behind: it calls close_rec(1) when the channel
\* failed, and nothing when the iLO answered with an error.
SessionAfter(o) == IF Broken(o) THEN ForgetSession ELSE KeepSession

-----------------------------------------------------------------------------
(***************************************************************************)
(* The iLO's side of each request.  A handle carries a tag, so a handle    *)
(* from before an iLO reset is not taken for a new one.                    *)
(***************************************************************************)
OkReply == [rcode |-> RECORDER_OK, handle |-> s_ams_rec_handle]

\* A request on the agent's handle is carried out.
Honoured(o) == Delivered(o) /\ o # "refused" /\ s_ams_rec_handle \in feeders

HandleReply(o) == IF Honoured(o) THEN OkReply ELSE ErrReply

AllocReply(o) ==
  IF o = "refused" THEN ErrReply ELSE [rcode |-> AmsClass, handle |-> None]

IloAllocate(o) ==
  /\ iloClass' = (iloClass \/ (Delivered(o) /\ o # "refused"))
  /\ UNCHANGED <<feeders, feederCode, descriptors, log>>

Registers(o) ==
  /\ Delivered(o) /\ o # "refused"
  /\ iloClass /\ s_ams_rec_class = AmsClass
  /\ feeders # Feeder

FreeFeeder == CHOOSE h \in Feeder : h \notin feeders

RegisterReply(o) ==
  IF Registers(o) THEN [rcode |-> RECORDER_OK, handle |-> FreeFeeder]
                  ELSE ErrReply

IloRegister(o) ==
  /\ IF Registers(o)
     THEN /\ feeders' = feeders \cup {FreeFeeder}
          /\ feederCode' = [feederCode EXCEPT ![FreeFeeder] = "unset"]
          /\ descriptors' = [descriptors EXCEPT ![FreeFeeder] = {}]
     ELSE UNCHANGED <<feeders, feederCode, descriptors>>
  /\ UNCHANGED <<iloClass, log>>

IloDescribe(o, c, blob) ==
  /\ descriptors' =
       IF Honoured(o)
       THEN [descriptors EXCEPT ![s_ams_rec_handle] = @ \cup {<<c, blob>>}]
       ELSE descriptors
  /\ UNCHANGED <<iloClass, feeders, feederCode, log>>

IloSetCode(o, c) ==
  /\ feederCode' = IF Honoured(o)
                   THEN [feederCode EXCEPT ![s_ams_rec_handle] = c]
                   ELSE feederCode
  /\ UNCHANGED <<iloClass, feeders, descriptors, log>>

\* Every descriptor blob of code c has been taken from feeder h.
Described(h, c) == \A blob \in 0 .. Blobs(c) : <<c, blob>> \in descriptors[h]

IloLog(o, c) ==
  /\ log' = IF Honoured(o)
            THEN log \cup {[code |-> feederCode[s_ams_rec_handle], by |-> c,
                            described |-> Described(s_ams_rec_handle, c)]}
            ELSE log
  /\ UNCHANGED <<iloClass, feeders, feederCode, descriptors>>

\* The iLO restarts: channels are torn down, what feeders told it is gone.
IloReset ==
  /\ CanFault("reset")
  /\ faults' = faults + 1
  /\ rec_fd' = IF rec_fd = "open" THEN "dead" ELSE rec_fd
  /\ late' = NoReply
  /\ iloClass' = FALSE
  /\ feeders' = {}
  /\ feederCode' = [h \in Feeder |-> "unset"]
  /\ descriptors' = [h \in Feeder |-> {}]
  /\ log' = {}
  /\ UNCHANGED <<s_ams_rec_class, s_ams_rec_handle, usage_reinit>>
=============================================================================
