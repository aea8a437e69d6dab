--------------------------- MODULE RecorderProofs ---------------------------
(***************************************************************************)
(* Proofs about Recorder, for every StartOrder, every number of faults and *)
(* feeders and every number of processor blobs.                            *)
(***************************************************************************)
EXTENDS Recorder, TLAPS

-----------------------------------------------------------------------------
(* Types of the operators that the actions are built from. *)

LEMMA BlobsType == \A c \in Code : Blobs(c) \in Nat
<1>1. ProcChunks \in Nat
  BY ChannelAssumption
<1>2. QED
  BY <1>1 DEF Blobs

LEMMA RepliesType ==
  ASSUME TypeOK, NEW o
  PROVE  /\ AllocReply(o) \in Reply
         /\ HandleReply(o) \in Reply
         /\ RegisterReply(o) \in Reply
         /\ NoReply \in Reply
<1>1. FreeFeeder \in Feeder \/ ~Registers(o)
  BY DEF FreeFeeder, Registers, TypeOK, ChannelTypeOK, SessionTypeOK, IloTypeOK
<1>2. QED
  BY <1>1 DEF TypeOK, ChannelTypeOK, SessionTypeOK, IloTypeOK, AllocReply, HandleReply, RegisterReply,
              OkReply, ErrReply, NoReply, Reply, Rcode, RECORDER_OK,
              RECORDER_ERR, AmsClass, None

LEMMA ResultType ==
  ASSUME TypeOK, NEW o, NEW reply \in Reply
  PROVE  Got(reply) \in Reply /\ Result(o, reply) \in Rcode
  BY DEF Got, Result, TypeOK, ChannelTypeOK, SessionTypeOK, IloTypeOK, Reply, Rcode, NoReply, None

LEMMA ExchangeType ==
  ASSUME TypeOK, NEW o \in Outcome, NEW reply \in Reply,
         NEW close, Exchange(o, reply, close)
  PROVE  /\ rec_fd' \in {"none", "open", "dead"}
         /\ late' \in Reply
         /\ faults' \in 0 .. MaxFaults
<1>1. MaxFaults \in Nat
  BY ChannelAssumption
<1>2. faults' \in 0 .. MaxFaults
  <2>1. CASE NewFault(o)
    <3>1. CanFault(o)
      BY <2>1 DEF Exchange, Possible, NewFault, Outcome
    <3>2. QED
      BY <1>1, <2>1, <3>1 DEF Exchange, CanFault, TypeOK, ChannelTypeOK, SessionTypeOK, IloTypeOK
  <2>2. CASE ~NewFault(o)
    BY <2>2 DEF Exchange, TypeOK, ChannelTypeOK, SessionTypeOK, IloTypeOK
  <2>3. QED
    BY <2>1, <2>2
<1>3. rec_fd' \in {"none", "open", "dead"}
  BY DEF Exchange, TypeOK, ChannelTypeOK, SessionTypeOK, IloTypeOK
<1>4. late' \in Reply
  BY DEF Exchange, TypeOK, ChannelTypeOK, SessionTypeOK, IloTypeOK, NoReply, Reply, Rcode, None
<1>5. QED
  BY <1>2, <1>3, <1>4

LEMMA SessionType ==
  ASSUME SessionTypeOK, ForgetSession \/ KeepSession
  PROVE  SessionTypeOK'
  BY DEF SessionTypeOK, ForgetSession, KeepSession, None, Rcode

LEMMA IloType ==
  ASSUME TypeOK, NEW o, NEW c \in Code, NEW b \in Nat,
         \/ IloAllocate(o)
         \/ IloRegister(o)
         \/ IloDescribe(o, c, b)
         \/ IloSetCode(o, c)
         \/ IloLog(o, c)
  PROVE  IloTypeOK'
<1>1. FreeFeeder \in Feeder \/ ~Registers(o)
  BY DEF FreeFeeder, Registers, TypeOK, ChannelTypeOK, IloTypeOK
<1>2. CASE IloAllocate(o)
  BY <1>2 DEF IloAllocate, TypeOK, ChannelTypeOK, IloTypeOK
<1>3. CASE IloRegister(o)
  BY <1>1, <1>3 DEF IloRegister, TypeOK, ChannelTypeOK, IloTypeOK
<1>4. CASE IloDescribe(o, c, b)
  <2>1. CASE Honoured(o)
    <3>1. s_ams_rec_handle \in Feeder
      BY <2>1 DEF Honoured, TypeOK, ChannelTypeOK, IloTypeOK
    <3>2. descriptors' = [descriptors EXCEPT ![s_ams_rec_handle] = @ \cup {<<c, b>>}]
      BY <1>4, <2>1 DEF IloDescribe
    <3>3. descriptors[s_ams_rec_handle] \cup {<<c, b>>} \in SUBSET (Code \X Nat)
      BY <3>1 DEF TypeOK, ChannelTypeOK, IloTypeOK
    <3>4. descriptors' \in [Feeder -> SUBSET (Code \X Nat)]
      BY <3>1, <3>2, <3>3 DEF TypeOK, ChannelTypeOK, IloTypeOK
    <3>5. QED
      BY <1>4, <3>4 DEF IloDescribe, TypeOK, ChannelTypeOK, IloTypeOK
  <2>2. CASE ~Honoured(o)
    BY <1>4, <2>2 DEF IloDescribe, TypeOK, ChannelTypeOK, IloTypeOK
  <2>3. QED
    BY <2>1, <2>2
<1>5. CASE IloSetCode(o, c)
  BY <1>5 DEF IloSetCode, Honoured, TypeOK, ChannelTypeOK, IloTypeOK
<1>6. CASE IloLog(o, c)
  <2>1. CASE Honoured(o)
    <3>1. s_ams_rec_handle \in Feeder
      BY <2>1 DEF Honoured, TypeOK, ChannelTypeOK, IloTypeOK
    <3>2. Described(s_ams_rec_handle, c) \in BOOLEAN
      BY DEF Described
    <3>3. [code |-> feederCode[s_ams_rec_handle], by |-> c,
           described |-> Described(s_ams_rec_handle, c)] \in Record
      BY <3>1, <3>2 DEF Record, TypeOK, ChannelTypeOK, IloTypeOK
    <3>4. QED
      BY <1>6, <2>1, <3>3 DEF IloLog, TypeOK, ChannelTypeOK, IloTypeOK
  <2>2. CASE ~Honoured(o)
    BY <1>6, <2>2 DEF IloLog, TypeOK, ChannelTypeOK, IloTypeOK
  <2>3. QED
    BY <2>1, <2>2
<1>7. QED
  BY <1>2, <1>3, <1>4, <1>5, <1>6

LEMMA GoToType ==
  ASSUME RoutineTypeOK, NEW stage \in Stage, GoTo(stage)
  PROVE  RoutineTypeOK'
<1>1. Blobs(cur) \in Nat
  BY BlobsType DEF RoutineTypeOK
<1>2. cur' = cur /\ blob' = 0 /\ at' = stage /\ nested' = FALSE
  BY DEF GoTo
<1>3. blob' \in 0 .. Blobs(cur')
  BY <1>1, <1>2
<1>4. QED
  BY <1>2, <1>3 DEF RoutineTypeOK

LEMMA EnterType ==
  ASSUME NEW c \in Code, NEW inUsage \in BOOLEAN, Enter(c, inUsage)
  PROVE  RoutineTypeOK'
<1>1. Blobs(c) \in Nat
  BY BlobsType
<1>2. cur' = c /\ blob' = 0 /\ nested' = inUsage
  BY DEF Enter
<1>3. at' \in Stage
  BY DEF Enter, FirstStage, Stage
<1>4. blob' \in 0 .. Blobs(cur')
  BY <1>1, <1>2
<1>5. QED
  BY <1>1, <1>2, <1>3, <1>4 DEF RoutineTypeOK

LEMMA GiveUpType ==
  ASSUME RoutineTypeOK, todo \in Nat \ {0}, GiveUp \/ InitFailed
  PROVE  RoutineTypeOK' /\ todo' \in Nat \ {0}
<1>1. CASE GiveUp
  <2>1. RoutineTypeOK'
    BY <1>1, GoToType DEF GiveUp, Return, Stage
  <2>2. todo' \in Nat \ {0}
    BY <1>1 DEF GiveUp, SkipRest
  <2>3. QED
    BY <2>1, <2>2
<1>2. CASE InitFailed
  <2>1. CASE FailureSeen
    BY <1>1, <1>2, <2>1 DEF InitFailed
  <2>2. CASE ~FailureSeen
    <3>1. /\ at' = "describe"
          /\ UNCHANGED <<cur, blob, nested, todo>>
      BY <1>2, <2>2 DEF InitFailed
    <3>2. QED
      BY <3>1 DEF RoutineTypeOK, Stage
  <2>3. QED
    BY <2>1, <2>2
<1>3. QED
  BY <1>1, <1>2

-----------------------------------------------------------------------------
(* Type correctness. *)

LEMMA InitType == Init => TypeOK
<1> SUFFICES ASSUME Init PROVE TypeOK
  OBVIOUS
<1>1. MaxFaults \in Nat /\ Blobs("crash") \in Nat
  BY ChannelAssumption, BlobsType DEF Code
<1>2. /\ rec_fd \in {"none", "open", "dead"}
      /\ late \in Reply
      /\ faults \in 0 .. MaxFaults
  BY <1>1 DEF Init, ChannelInit, NoReply, Reply, Rcode, None
<1>3. SessionTypeOK
  BY DEF Init, ChannelInit, SessionTypeOK, Rcode, None
<1>4. IloTypeOK
  BY DEF Init, ChannelInit, IloTypeOK
<1>5. cur = "crash" /\ blob = 0 /\ at = "idle" /\ nested = FALSE
  BY DEF Init
<1>6. RoutineTypeOK
  <2>1. "crash" \in Code /\ 0 \in 0 .. Blobs("crash")
    BY <1>1 DEF Code
  <2>2. QED
    BY <1>5, <2>1 DEF RoutineTypeOK, Stage
<1>7. /\ phase \in {"startup", "receive", "shutdown", "stopped"}
      /\ todo \in Nat \ {0}
      /\ armed \in [Counter -> Nat]
  BY DEF Init
<1>8. primed \in BOOLEAN /\ watched \in BOOLEAN
  BY DEF Init
<1>9. QED
  BY <1>2, <1>3, <1>4, <1>6, <1>7, <1>8 DEF TypeOK, ChannelTypeOK

\* The callbacks of modules are never called.
LEMMA ModuleEventIsNothing == ModuleEvent => UNCHANGED vars
  BY DEF ModuleEvent, ModuleCallback, vars

LEMMA DieEffect ==
  ASSUME Die
  PROVE  /\ UNCHANGED <<rec_fd, late, s_ams_rec_class, s_ams_rec_handle, usage_reinit,
                        feeders, feederCode, descriptors, log, cur, armed, todo>>
         /\ at' = "idle" /\ blob' = 0 /\ ~nested'
         /\ at \in {"describe", "log"} /\ (at = "describe" => blob = 1)
  BY DEF Die, MayDie, GoTo, channelVars, clientVars, iloVars

\* In the alarm's case the descriptors are missing, and stay asked for.
LEMMA NoProcessorsEffect ==
  ASSUME NoProcessors
  PROVE  /\ UNCHANGED <<rec_fd, late, s_ams_rec_class, s_ams_rec_handle, usage_reinit,
                        feeders, feederCode, descriptors, log, armed>>
         /\ at = "idle"
         /\ \/ UNCHANGED <<at, cur, blob, nested>> /\ todo' = todo + 1
            \/ /\ at' = "set" /\ cur' = "proc" /\ blob' = 0 /\ ~nested'
               /\ usage_reinit["proc"] /\ todo' = todo
  BY DEF NoProcessors, clientVars, iloVars

LEMMA StepType == TypeOK /\ [Next]_vars => TypeOK'
<1> SUFFICES ASSUME TypeOK, [Next]_vars PROVE TypeOK'
  OBVIOUS
<1>0. /\ SessionTypeOK /\ RoutineTypeOK
      /\ blob \in Nat /\ cur \in Code
      /\ todo \in Nat \ {0}
      /\ armed \in [Counter -> Nat]
  BY BlobsType DEF TypeOK, ChannelTypeOK, RoutineTypeOK
<1>1. ASSUME NEW o \in Outcome, Alloc(o) PROVE TypeOK'
  <2>1. AllocReply(o) \in Reply
    BY RepliesType
  <2>2. rec_fd' \in {"none", "open", "dead"} /\ late' \in Reply /\ faults' \in 0 .. MaxFaults
    BY <1>1, <2>1, ExchangeType DEF Alloc
  <2>3. IloTypeOK'
    BY <1>0, <1>1, IloType DEF Alloc
  <2>4. SessionTypeOK'
    BY <1>0, <1>1, <2>1, ResultType DEF Alloc, SessionTypeOK
  <2>5. RoutineTypeOK' /\ todo' \in Nat \ {0}
    BY <1>0, <1>1, GiveUpType DEF Alloc, RoutineTypeOK, Stage
  <2>6. QED
    BY <1>1, <2>2, <2>3, <2>4, <2>5 DEF Alloc, TypeOK, ChannelTypeOK
<1>2. ASSUME NEW o \in Outcome, Register(o) PROVE TypeOK'
  <2>1. RegisterReply(o) \in Reply
    BY RepliesType
  <2>2. rec_fd' \in {"none", "open", "dead"} /\ late' \in Reply /\ faults' \in 0 .. MaxFaults
    BY <1>2, <2>1, ExchangeType DEF Register
  <2>3. IloTypeOK'
    BY <1>0, <1>2, IloType DEF Register
  <2>4. SessionTypeOK'
    <3>1. CASE Result(o, RegisterReply(o)) = RECORDER_OK
      <4>1. Got(RegisterReply(o)).handle \in Feeder \cup {None}
        BY <2>1, ResultType DEF Reply
      <4>2. QED
        BY <1>0, <1>2, <3>1, <4>1 DEF Register, SessionTypeOK
    <3>2. CASE Result(o, RegisterReply(o)) # RECORDER_OK
      BY <1>0, <1>2, <3>2, SessionType DEF Register, SessionAfter
    <3>3. QED
      BY <3>1, <3>2
  <2>5. RoutineTypeOK' /\ todo' \in Nat \ {0}
    BY <1>0, <1>2, GiveUpType DEF Register, RoutineTypeOK, Stage
  <2>6. QED
    BY <1>2, <2>2, <2>3, <2>4, <2>5 DEF Register, TypeOK, ChannelTypeOK
<1>3. ASSUME NEW o \in Outcome, Describe(o) PROVE TypeOK'
  <2>1. HandleReply(o) \in Reply
    BY RepliesType
  <2>2. rec_fd' \in {"none", "open", "dead"} /\ late' \in Reply /\ faults' \in 0 .. MaxFaults
    BY <1>3, <2>1, ExchangeType DEF Describe
  <2>3. IloTypeOK'
    BY <1>0, <1>3, IloType DEF Describe
  <2>4. SessionTypeOK'
    <3>1. CASE Succeeded(o) /\ MoreBlobs
      BY <1>0, <1>3, <3>1 DEF Describe, NextBlob, SessionTypeOK
    <3>2. CASE Succeeded(o) /\ ~MoreBlobs
      <4>1. LastBlob /\ UNCHANGED <<s_ams_rec_class, s_ams_rec_handle>>
        BY <1>3, <3>2 DEF Describe
      <4>2. \/ UNCHANGED usage_reinit
            \/ usage_reinit' = [usage_reinit EXCEPT ![cur] = FALSE]
        BY <4>1 DEF LastBlob
      <4>3. QED
        BY <1>0, <4>1, <4>2 DEF SessionTypeOK
    <3>3. CASE ~Succeeded(o)
      BY <1>0, <1>3, <3>3, SessionType DEF Describe, SessionAfter
    <3>4. QED
      BY <3>1, <3>2, <3>3
  <2>5. RoutineTypeOK' /\ todo' \in Nat \ {0}
    <3>1. CASE Succeeded(o) /\ MoreBlobs
      <4>1. NextBlob
        BY <1>3, <3>1 DEF Describe
      <4>2. blob + 1 \in 0 .. Blobs(cur)
        BY <1>0, <3>1, BlobsType DEF MoreBlobs, RoutineTypeOK
      <4>3. QED
        BY <1>0, <4>1, <4>2 DEF NextBlob, RoutineTypeOK
    <3>2. CASE Succeeded(o) /\ ~MoreBlobs
      <4>1. LastBlob
        BY <1>3, <3>2 DEF Describe
      <4>2. \E stage \in Stage : GoTo(stage)
        BY <4>1 DEF LastBlob, Return, Stage
      <4>3. todo' \in Nat \ {0}
        BY <1>0, <4>1 DEF LastBlob, SkipRest
      <4>4. QED
        BY <1>0, <4>2, <4>3, GoToType
    <3>3. CASE ~Succeeded(o)
      BY <1>0, <1>3, <3>3, GiveUpType DEF Describe
    <3>4. QED
      BY <3>1, <3>2, <3>3
  <2>6. armed' \in [Counter -> Nat]
    BY <1>0, <1>3 DEF Describe, NextBlob, LastBlob
  <2>7. QED
    BY <1>3, <2>2, <2>3, <2>4, <2>5, <2>6 DEF Describe, TypeOK, ChannelTypeOK
<1>4. ASSUME NEW o \in Outcome, SetCode(o) PROVE TypeOK'
  <2>1. HandleReply(o) \in Reply
    BY RepliesType
  <2>2. rec_fd' \in {"none", "open", "dead"} /\ late' \in Reply /\ faults' \in 0 .. MaxFaults
    BY <1>4, <2>1, ExchangeType DEF SetCode
  <2>3. IloTypeOK'
    BY <1>0, <1>4, IloType DEF SetCode
  <2>4. SessionTypeOK'
    BY <1>0, <1>4, SessionType DEF SetCode, SessionAfter
  <2>5. RoutineTypeOK' /\ todo' \in Nat \ {0}
    <3>1. CASE Succeeded(o)
      <4>1. \E stage \in Stage : GoTo(stage)
        BY <1>4, <3>1 DEF SetCode, Return, Stage
      <4>2. QED
        BY <1>0, <1>4, <3>1, <4>1, GoToType DEF SetCode
    <3>2. CASE ~Succeeded(o)
      BY <1>0, <1>4, <3>2, GiveUpType DEF SetCode
    <3>3. QED
      BY <3>1, <3>2
  <2>6. QED
    BY <1>4, <2>2, <2>3, <2>4, <2>5 DEF SetCode, TypeOK, ChannelTypeOK
<1>5. ASSUME NEW o \in Outcome, SetUsageCode(o) PROVE TypeOK'
  <2>1. HandleReply(o) \in Reply
    BY RepliesType
  <2>2. rec_fd' \in {"none", "open", "dead"} /\ late' \in Reply /\ faults' \in 0 .. MaxFaults
    BY <1>5, <2>1, ExchangeType DEF SetUsageCode
  <2>3. IloTypeOK'
    BY <1>0, <1>5, IloType DEF SetUsageCode
  <2>4. SessionTypeOK'
    BY <1>0, <1>5, SessionType DEF SetUsageCode, SessionAfter
  <2>5. RoutineTypeOK'
    <3>1. \E stage \in Stage : GoTo(stage)
      BY <1>5 DEF SetUsageCode, Return, Stage
    <3>2. QED
      BY <1>0, <3>1, GoToType
  <2>6. primed' \in BOOLEAN
    BY <1>5 DEF SetUsageCode, TypeOK
  <2>7. QED
    BY <1>5, <2>2, <2>3, <2>4, <2>5, <2>6 DEF SetUsageCode, TypeOK, ChannelTypeOK
<1>6. ASSUME NEW o \in Outcome, LogRecord(o) PROVE TypeOK'
  <2>1. HandleReply(o) \in Reply
    BY RepliesType
  <2>2. rec_fd' \in {"none", "open", "dead"} /\ late' \in Reply /\ faults' \in 0 .. MaxFaults
    BY <1>6, <2>1, ExchangeType DEF LogRecord
  <2>3. IloTypeOK'
    BY <1>0, <1>6, IloType DEF LogRecord
  <2>4. SessionTypeOK'
    BY <1>0, <1>6, SessionType DEF LogRecord, SessionAfter
  <2>5. RoutineTypeOK'
    <3>1. \E stage \in Stage : GoTo(stage)
      BY <1>6 DEF LogRecord, Return, Stage
    <3>2. QED
      BY <1>0, <3>1, GoToType
  <2>6. QED
    BY <1>6, <2>2, <2>3, <2>4, <2>5 DEF LogRecord, TypeOK, ChannelTypeOK
<1>7. ASSUME NEW o \in Outcome, LogUsage(o) PROVE TypeOK'
  <2>1. HandleReply(o) \in Reply
    BY RepliesType
  <2>2. rec_fd' \in {"none", "open", "dead"} /\ late' \in Reply /\ faults' \in 0 .. MaxFaults
    BY <1>7, <2>1, ExchangeType DEF LogUsage
  <2>3. IloTypeOK'
    BY <1>0, <1>7, IloType DEF LogUsage
  <2>4. SessionTypeOK'
    BY <1>0, <1>7, SessionType DEF LogUsage, SessionAfter
  <2>5. RoutineTypeOK'
    <3>1. \E stage \in Stage : GoTo(stage)
      BY <1>7 DEF LogUsage, Return, Stage
    <3>2. QED
      BY <1>0, <3>1, GoToType
  <2>6. QED
    BY <1>7, <2>2, <2>3, <2>4, <2>5 DEF LogUsage, TypeOK, ChannelTypeOK
<1>8. ASSUME UNCHANGED channelVars,
             \/ StartNext \/ Running \/ Stop \/ Exit
             \/ \E c \in Counter : Alarm(c)
      PROVE TypeOK'
  <2>1. ChannelTypeOK'
    BY <1>8 DEF TypeOK, ChannelTypeOK, SessionTypeOK, IloTypeOK, channelVars,
                clientVars, iloVars
  <2>2. CASE StartNext
    <3>1. StartOrder[todo] \in Code
      BY <1>0, <2>2, RecorderAssumption DEF StartNext
    <3>2. "crash" \in Code /\ TRUE \in BOOLEAN /\ FALSE \in BOOLEAN
      BY DEF Code
    <3>3. RoutineTypeOK'
      <4>1. CASE Enter(StartOrder[todo], FALSE) \/ Enter("crash", FALSE)
        BY <3>1, <3>2, <4>1, EnterType
      <4>2. CASE UNCHANGED <<cur, blob, at, nested>>
        BY <1>0, <4>2 DEF RoutineTypeOK
      <4>3. QED
        BY <2>2, <4>1, <4>2 DEF StartNext
    <3>4. todo' = todo \/ todo' = todo + 1
      BY <2>2 DEF StartNext
    <3>5. todo' \in Nat \ {0}
      BY <1>0, <3>4
    <3>6. QED
      BY <2>1, <2>2, <3>3, <3>5 DEF StartNext, TypeOK
  <2>3. CASE Running \/ Exit
    BY <1>0, <2>1, <2>3 DEF Running, Exit, TypeOK, RoutineTypeOK
  <2>4. ASSUME NEW c \in Counter, Alarm(c) PROVE TypeOK'
    <3>1. c \in Code /\ 0 \in 0 .. Blobs(c)
      BY BlobsType DEF Code
    <3>2. RoutineTypeOK'
      <4>1. cur' = c /\ blob' = 0 /\ nested' = usage_reinit[c]
        BY <2>4 DEF Alarm
      <4>2. at' \in Stage
        BY <2>4 DEF Alarm, FirstStage, Stage
      <4>3. nested' \in BOOLEAN
        BY <1>0, <4>1 DEF SessionTypeOK
      <4>4. cur' \in Code /\ blob' \in 0 .. Blobs(cur')
        BY <3>1, <4>1
      <4>5. QED
        BY <4>2, <4>3, <4>4 DEF RoutineTypeOK
    <3>3. QED
      BY <2>1, <2>4, <3>2 DEF Alarm, TypeOK
  <2>5. CASE Stop
    <3>1. "shutdown" \in Code /\ FALSE \in BOOLEAN
      BY DEF Code
    <3>2. RoutineTypeOK'
      BY <2>5, <3>1, EnterType DEF Stop
    <3>3. QED
      BY <2>1, <2>5, <3>2 DEF Stop, TypeOK
  <2>6. QED
    BY <1>8, <2>2, <2>3, <2>4, <2>5
<1>9. CASE Reset
  <2>1. ChannelTypeOK'
    <3>1. faults' \in 0 .. MaxFaults
      BY <1>9, ChannelAssumption DEF Reset, IloReset, CanFault, TypeOK, ChannelTypeOK
    <3>2. /\ rec_fd' \in {"none", "open", "dead"}
          /\ late' \in Reply
      BY <1>9 DEF Reset, IloReset, TypeOK, ChannelTypeOK, NoReply, Reply, Rcode, None
    <3>3. SessionTypeOK'
      BY <1>0, <1>9 DEF Reset, IloReset, SessionTypeOK
    <3>4. IloTypeOK'
      BY <1>9 DEF Reset, IloReset, IloTypeOK
    <3>5. QED
      BY <3>1, <3>2, <3>3, <3>4 DEF ChannelTypeOK
  <2>2. QED
    BY <1>0, <1>9, <2>1 DEF Reset, TypeOK, RoutineTypeOK
<1>10. CASE UNCHANGED vars
  <2>1. ChannelTypeOK'
    BY <1>10 DEF TypeOK, ChannelTypeOK, SessionTypeOK, IloTypeOK, vars, channelVars,
                 clientVars, iloVars
  <2>2. RoutineTypeOK'
    BY <1>0, <1>10 DEF RoutineTypeOK, vars
  <2>3. QED
    BY <1>10, <2>1, <2>2 DEF TypeOK, vars
<1>13. CASE Die
  <2>1. ChannelTypeOK'
    BY <1>13 DEF Die, TypeOK, ChannelTypeOK, SessionTypeOK, IloTypeOK, channelVars,
                 clientVars, iloVars
  <2>2. RoutineTypeOK'
    BY <1>0, <1>13, GoToType DEF Die, Stage
  <2>3. QED
    BY <1>13, <2>1, <2>2 DEF Die, TypeOK
<1>14. CASE NoProcessors
  <2>1. ChannelTypeOK'
    <3>1. faults' \in 0 .. MaxFaults
      BY <1>14, ChannelAssumption DEF NoProcessors, CanFault, TypeOK, ChannelTypeOK
    <3>2. QED
      BY <1>14, <3>1 DEF NoProcessors, TypeOK, ChannelTypeOK, SessionTypeOK, IloTypeOK,
                         clientVars, iloVars
  <2>2. RoutineTypeOK'
    <3>1. "proc" \in Code /\ Blobs("proc") \in Nat
      BY BlobsType DEF Code, Counter
    <3>2. CASE UNCHANGED <<at, cur, blob, nested>>
      BY <1>0, <3>2 DEF RoutineTypeOK
    <3>3. CASE at' = "set" /\ cur' = "proc" /\ blob' = 0 /\ nested' = FALSE
      <4>1. blob' \in 0 .. Blobs(cur')
        BY <3>1, <3>3
      <4>2. QED
        BY <3>1, <3>3, <4>1 DEF RoutineTypeOK, Stage
    <3>4. QED
      BY <1>14, <3>2, <3>3 DEF NoProcessors
  <2>3. todo' \in Nat \ {0}
    <3>1. todo' = todo \/ todo' = todo + 1
      BY <1>14, NoProcessorsEffect
    <3>2. QED
      BY <1>0, <3>1
  <2>4. QED
    BY <1>14, <2>1, <2>2, <2>3 DEF NoProcessors, TypeOK
<1>15. CASE ModuleEvent
  BY <1>10, <1>15, ModuleEventIsNothing
<1>11. CASE Next
  <2>1. CASE Routine
    BY <2>1, <1>1, <1>2, <1>3, <1>4, <1>5, <1>6, <1>7 DEF Routine
  <2>2. CASE StartNext \/ Running \/ Stop \/ Exit \/ \E c \in Counter : Alarm(c)
    <3>1. UNCHANGED channelVars
      BY <2>2 DEF StartNext, Running, Stop, Exit, Alarm
    <3>2. QED
      BY <1>8, <2>2, <3>1
  <2>3. QED
    BY <1>9, <1>11, <1>13, <1>14, <1>15, <2>1, <2>2 DEF Next
<1>12. QED
  BY <1>10, <1>11

\* Every variable keeps its type, whatever the iLO answers.
THEOREM TypeCorrect == Spec => []TypeOK
  BY InitType, StepType, PTL DEF Spec

-----------------------------------------------------------------------------
(* What one exchange does to the reply that may be waiting in the channel,  *)
(* and what a success means.                                               *)

LEMMA LateEffect ==
  ASSUME InOrder, LateReplyFindsNoFeeder,
         NEW o \in Outcome, NEW reply, NEW close, Exchange(o, reply, close),
         late' # NoReply
  PROVE  /\ ~FailureSeen
         /\ rec_fd' # "none"
         /\ ~close
         /\ \/ o = "slow" /\ late' = reply
            \/ late # NoReply /\ Read(o) /\ late' = reply
            \/ late # NoReply /\ o = "lost" /\ late' = late
<1>1. /\ ~close
      /\ rec_fd' = IF o = "nochannel" \/ rec_fd = "dead" THEN rec_fd ELSE "open"
      /\ late' = IF o = "slow" \/ (Read(o) /\ late # NoReply) THEN reply ELSE late
      /\ Possible(o)
  BY DEF Exchange
<1>2. CASE o = "slow"
  <2>1. CanFault(o) /\ rec_fd # "dead"
    BY <1>1, <1>2 DEF Possible, NewFault, Delivered
  <2>2. "slow" \in Faults
    BY <1>2, <2>1 DEF CanFault
  <2>3. QED
    BY <1>1, <1>2, <2>1, <2>2 DEF InOrder
<1>3. CASE o # "slow"
  <2>1. late # NoReply
    BY <1>1, <1>3
  <2>2. ~FailureSeen /\ rec_fd # "none"
    BY <2>1 DEF LateReplyFindsNoFeeder
  <2>3. o # "nochannel"
    BY <1>1, <2>2 DEF Possible
  <2>4. QED
    BY <1>1, <1>3, <2>1, <2>2, <2>3 DEF Outcome, Read
<1>4. QED
  BY <1>2, <1>3

LEMMA SucceededIsHonoured ==
  ASSUME TypeOK, LateReplyFindsNoFeeder, NEW o \in Outcome, Succeeded(o)
  PROVE  \/ Honoured(o)
         \/ s_ams_rec_handle = None /\ at = "describe" /\ blob = 0
<1>1. Result(o, HandleReply(o)) = RECORDER_OK
  BY DEF Succeeded
<1>2. Read(o) /\ Got(HandleReply(o)).rcode = RECORDER_OK
  BY <1>1 DEF Result, RECORDER_OK, None
<1>3. CASE late = NoReply
  <2>1. HandleReply(o).rcode = RECORDER_OK
    BY <1>2, <1>3 DEF Got
  <2>2. QED
    BY <2>1 DEF HandleReply, ErrReply, RECORDER_OK, RECORDER_ERR
<1>4. CASE late # NoReply
  <2>1. late.rcode = RECORDER_OK
    BY <1>2, <1>4 DEF Got
  <2>2. QED
    BY <1>4, <2>1 DEF LateReplyFindsNoFeeder
<1>5. QED
  BY <1>3, <1>4

LEMMA NoneIsNoFeeder == TypeOK => None \notin feeders
<1>1. None \notin Feeder
  BY ChannelAssumption DEF None, Feeder
<1>2. QED
  BY <1>1 DEF TypeOK, ChannelTypeOK, IloTypeOK

LEMMA FirstStageIsOrdered ==
  ASSUME SessionIsOrdered
  PROVE  /\ FirstStage \in {"alloc", "register", "describe"}
         /\ FirstStage = "alloc" => s_ams_rec_class = None
         /\ FirstStage \in {"alloc", "register"} => s_ams_rec_handle = None
  BY DEF FirstStage, SessionIsOrdered

LEMMA InitInv == Init => IInv
<1> SUFFICES ASSUME Init PROVE IInv
  OBVIOUS
<1>1. LateReplyFindsNoFeeder
  BY DEF Init, ChannelInit, LateReplyFindsNoFeeder
<1>2. SessionIsOrdered /\ NestedRepeats /\ BlobsAreTaken /\ CodeIsSet
  BY DEF Init, ChannelInit, SessionIsOrdered, NestedRepeats, BlobsAreTaken, CodeIsSet
<1>3. \A c \in Counter : ~(armed[c] > 0 \/ (cur = c /\ at \in {"set", "log"}))
  BY DEF Init
<1>4. NoFeederIsAskedFor /\ MissingIsAskedFor
  BY <1>3 DEF NoFeederIsAskedFor, MissingIsAskedFor
<1>5. RecordsHaveTheirCode
  BY DEF Init, ChannelInit, RecordsHaveTheirCode
<1>6. QED
  BY <1>1, <1>2, <1>4, <1>5 DEF IInv

-----------------------------------------------------------------------------
(* Parts of the invariant that several actions establish the same way.     *)

LEMMA NoFeeder ==
  ASSUME TypeOK', s_ams_rec_handle' = None
  PROVE  BlobsAreTaken' /\ MissingIsAskedFor' /\ CodeIsSet'
<1>1. None \notin Feeder
  BY ChannelAssumption DEF None, Feeder
<1>2. s_ams_rec_handle' \notin feeders'
  BY <1>1 DEF TypeOK, ChannelTypeOK, IloTypeOK
<1>3. QED
  BY <1>2 DEF BlobsAreTaken, MissingIsAskedFor, CodeIsSet

LEMMA Forgotten ==
  ASSUME TypeOK', ForgetSession
  PROVE  /\ BlobsAreTaken' /\ NoFeederIsAskedFor'
         /\ MissingIsAskedFor' /\ CodeIsSet'
<1>1. s_ams_rec_handle' = None /\ \A c \in Counter : usage_reinit'[c]
  BY DEF ForgetSession
<1>2. QED
  BY <1>1, NoFeeder DEF NoFeederIsAskedFor

\* Descriptors are only added, but to a feeder just registered.
LEMMA DescribedStays ==
  ASSUME NEW o, NEW c, NEW b, IloDescribe(o, c, b), TypeOK,
         NEW h \in Feeder
  PROVE  /\ descriptors[h] \subseteq descriptors'[h]
         /\ \A d : Described(h, d) => Described(h, d)'
<1>1. descriptors[h] \subseteq descriptors'[h]
  <2>1. CASE Honoured(o)
    BY <2>1 DEF IloDescribe, TypeOK, ChannelTypeOK, IloTypeOK
  <2>2. CASE ~Honoured(o)
    BY <2>2 DEF IloDescribe
  <2>3. QED
    BY <2>1, <2>2
<1>2. QED
  BY <1>1 DEF Described

LEMMA GiveUpEffect ==
  ASSUME GiveUp
  PROVE  /\ cur' = cur /\ ~nested' /\ at' \in {"set", "idle"}
         /\ at' = "set" => nested
  BY DEF GiveUp, GoTo, Return

LEMMA InitFailedEffect ==
  ASSUME InitFailed
  PROVE  /\ cur' = cur /\ at' \in {"set", "idle", "describe"}
         /\ nested' => nested /\ at' = "describe"
         /\ at' = "set" => nested
         /\ ~FailureSeen => at' = "describe" /\ blob' = blob
<1>1. CASE FailureSeen
  BY <1>1, GiveUpEffect DEF InitFailed
<1>2. CASE ~FailureSeen
  BY <1>2 DEF InitFailed
<1>3. QED
  BY <1>1, <1>2

-----------------------------------------------------------------------------
(* Every action preserves the invariant. *)

LEMMA AllocInv ==
  ASSUME TypeOK, TypeOK', InOrder, IInv, NEW o \in Outcome, Alloc(o)
  PROVE  IInv'
<1> USE DEF IInv
<1>1. s_ams_rec_handle = None /\ s_ams_rec_handle' = None /\ blob = 0
  BY DEF Alloc, SessionIsOrdered
<1>2. LateReplyFindsNoFeeder'
  <2> SUFFICES ASSUME late' # NoReply
               PROVE  ~FailureSeen /\ rec_fd' # "none" /\ late'.rcode # RECORDER_OK
    BY <1>1 DEF LateReplyFindsNoFeeder
  <2>1. /\ ~FailureSeen /\ rec_fd' # "none"
        /\ late' = AllocReply(o) \/ (late # NoReply /\ late' = late)
    BY LateEffect DEF Alloc
  <2>2. AllocReply(o).rcode # RECORDER_OK
    BY DEF AllocReply, ErrReply, RECORDER_OK, RECORDER_ERR, AmsClass
  <2>3. late # NoReply => late.rcode # RECORDER_OK
    BY DEF LateReplyFindsNoFeeder, Alloc
  <2>4. QED
    BY <2>1, <2>2, <2>3
<1>3. /\ cur' = cur
      /\ at' \in {"register", "describe", "set", "idle"}
      /\ at' = "register" => blob' = blob
      /\ at' = "set" => nested
      /\ nested' => nested /\ at' \in {"register", "describe"}
  BY InitFailedEffect DEF Alloc
<1>4. UNCHANGED <<usage_reinit, armed, log>>
  BY DEF Alloc, IloAllocate
<1>5. SessionIsOrdered'
  BY <1>1, <1>3 DEF SessionIsOrdered
<1>6. NestedRepeats'
  BY <1>3, <1>4 DEF NestedRepeats
<1>7. NoFeederIsAskedFor'
  BY <1>1, <1>3, <1>4 DEF NoFeederIsAskedFor, NestedRepeats
<1>8. RecordsHaveTheirCode'
  BY <1>4 DEF RecordsHaveTheirCode
<1>9. QED
  BY <1>1, <1>2, <1>5, <1>6, <1>7, <1>8, NoFeeder

LEMMA RegisterInv ==
  ASSUME TypeOK, TypeOK', InOrder, IInv, NEW o \in Outcome, Register(o)
  PROVE  IInv'
<1> USE DEF IInv
<1>1. at = "register" /\ s_ams_rec_handle = None /\ blob = 0
  BY DEF Register, SessionIsOrdered
<1>2. UNCHANGED <<armed, log>>
  BY DEF Register, IloRegister
<1>3. RecordsHaveTheirCode'
  BY <1>2 DEF RecordsHaveTheirCode
<1>4. CASE Result(o, RegisterReply(o)) = RECORDER_OK
  <2>1. Read(o) /\ Got(RegisterReply(o)).rcode = RECORDER_OK
    BY <1>4 DEF Result, RECORDER_OK, None
  <2>2. late = NoReply
    BY <1>1, <2>1 DEF Got, LateReplyFindsNoFeeder
  <2>3. Registers(o)
    BY <2>1, <2>2 DEF Got, RegisterReply, ErrReply, RECORDER_OK, RECORDER_ERR
  <2>4. s_ams_rec_handle' = FreeFeeder
    BY <1>4, <2>2, <2>3 DEF Register, Got, RegisterReply
  <2>5. FreeFeeder \in Feeder /\ FreeFeeder # None
    <3>1. FreeFeeder \in Feeder
      BY <2>3 DEF Registers, FreeFeeder, TypeOK, ChannelTypeOK, IloTypeOK
    <3>2. None \notin Feeder
      BY ChannelAssumption DEF None, Feeder
    <3>3. QED
      BY <3>1, <3>2
  <2>6. s_ams_rec_class' = s_ams_rec_class /\ s_ams_rec_class # None
    BY <1>4, <2>3 DEF Register, Registers, AmsClass, None
  <2>7. /\ at' = "describe"
        /\ UNCHANGED <<usage_reinit, cur, blob, nested>>
    BY <1>4 DEF Register
  <2>8. LateReplyFindsNoFeeder'
    <3>1. late' = NoReply
      BY <2>1, <2>2, LateEffect DEF Register, Read
    <3>2. QED
      BY <3>1 DEF LateReplyFindsNoFeeder
  <2>9. SessionIsOrdered' /\ NestedRepeats'
    BY <1>1, <2>6, <2>7 DEF SessionIsOrdered, NestedRepeats
  <2>10. BlobsAreTaken'
    BY <1>1, <2>7 DEF BlobsAreTaken
  <2>11. NoFeederIsAskedFor' /\ CodeIsSet'
    BY <2>4, <2>5, <2>7 DEF NoFeederIsAskedFor, CodeIsSet
  <2>12. MissingIsAskedFor'
    <3>1. \A c \in Counter : armed'[c] > 0 => usage_reinit'[c]
      BY <1>1, <1>2, <2>7 DEF NoFeederIsAskedFor
    <3>2. QED
      BY <2>7, <3>1 DEF MissingIsAskedFor
  <2>13. QED
    BY <1>3, <2>8, <2>9, <2>10, <2>11, <2>12
<1>5. CASE Result(o, RegisterReply(o)) # RECORDER_OK
  <2>1. SessionAfter(o) /\ InitFailed
    BY <1>5 DEF Register
  <2>2. s_ams_rec_handle' = None
    BY <1>1, <2>1 DEF SessionAfter, ForgetSession, KeepSession
  <2>3. LateReplyFindsNoFeeder'
    <3>1. CASE late' = NoReply
      BY <3>1 DEF LateReplyFindsNoFeeder
    <3>2. CASE late' # NoReply
      <4>1. ~FailureSeen /\ rec_fd' # "none"
        BY <3>2, LateEffect DEF Register
      <4>2. at' = "describe" /\ blob' = 0
        BY <1>1, <2>1, <4>1, InitFailedEffect
      <4>3. QED
        BY <2>2, <4>1, <4>2 DEF LateReplyFindsNoFeeder
    <3>3. QED
      BY <3>1, <3>2
  <2>4. /\ cur' = cur /\ at' \in {"set", "idle", "describe"}
        /\ nested' => nested /\ at' = "describe"
        /\ at' = "set" => nested
    BY <2>1, InitFailedEffect
  <2>5. SessionIsOrdered'
    BY <2>2, <2>4 DEF SessionIsOrdered
  <2>6. \A c \in Counter : usage_reinit[c] => usage_reinit'[c]
    BY <2>1 DEF SessionAfter, ForgetSession, KeepSession
  <2>7. NestedRepeats'
    BY <2>4, <2>6 DEF NestedRepeats
  <2>8. NoFeederIsAskedFor'
    BY <1>1, <1>2, <2>4, <2>6 DEF NoFeederIsAskedFor, NestedRepeats
  <2>9. QED
    BY <1>3, <2>2, <2>3, <2>5, <2>7, <2>8, NoFeeder
<1>6. QED
  BY <1>4, <1>5

\* A request on the handle leaves no late reply behind but an error, for a
\* handle that the iLO does not know.
LEMMA HandleExchangeLate ==
  ASSUME TypeOK, InOrder, LateReplyFindsNoFeeder, NEW o \in Outcome, NEW close,
         Exchange(o, HandleReply(o), close), Broken(o) => close,
         s_ams_rec_handle' \in {s_ams_rec_handle, None}
  PROVE  LateReplyFindsNoFeeder'
<1> SUFFICES ASSUME late' # NoReply
             PROVE  /\ ~FailureSeen /\ rec_fd' # "none"
                    /\ s_ams_rec_handle = None /\ late'.rcode # RECORDER_OK
  BY DEF LateReplyFindsNoFeeder
<1>1. /\ ~FailureSeen /\ rec_fd' # "none" /\ ~close
      /\ \/ o = "slow" /\ late' = HandleReply(o)
         \/ late # NoReply /\ Read(o) /\ late' = HandleReply(o)
         \/ late # NoReply /\ o = "lost" /\ late' = late
  BY LateEffect
<1>2. late # NoReply /\ late' = HandleReply(o)
  BY <1>1 DEF Broken
<1>3. s_ams_rec_handle = None
  BY <1>2 DEF LateReplyFindsNoFeeder
<1>4. HandleReply(o).rcode # RECORDER_OK
  BY <1>3, NoneIsNoFeeder DEF HandleReply, Honoured, ErrReply, RECORDER_OK, RECORDER_ERR
<1>5. QED
  BY <1>1, <1>2, <1>3, <1>4

\* What a feeder has been told when a descriptor exchange succeeds.
LEMMA TakenSoFar ==
  ASSUME TypeOK, LateReplyFindsNoFeeder, BlobsAreTaken, NEW o \in Outcome,
         Describe(o), Succeeded(o), s_ams_rec_handle \in feeders
  PROVE  \A b \in 0 .. blob : <<cur, b>> \in descriptors'[s_ams_rec_handle]
<1>1. s_ams_rec_handle \in Feeder /\ Honoured(o)
  BY SucceededIsHonoured, NoneIsNoFeeder DEF TypeOK, ChannelTypeOK, IloTypeOK
<1>2. <<cur, blob>> \in descriptors'[s_ams_rec_handle]
  BY <1>1 DEF Describe, IloDescribe, TypeOK, ChannelTypeOK, IloTypeOK
<1>3. descriptors[s_ams_rec_handle] \subseteq descriptors'[s_ams_rec_handle]
  BY <1>1, DescribedStays DEF Describe
<1>4. blob \in Nat
  BY BlobsType DEF TypeOK, RoutineTypeOK
<1>5. ASSUME NEW b \in 0 .. blob, b # blob
      PROVE  <<cur, b>> \in descriptors'[s_ams_rec_handle]
  <2>1. b \in 0 .. (blob - 1)
    BY <1>4, <1>5
  <2>2. <<cur, b>> \in descriptors[s_ams_rec_handle]
    BY <2>1 DEF BlobsAreTaken, Describe
  <2>3. QED
    BY <1>3, <2>2
<1>6. QED
  BY <1>2, <1>5

LEMMA DescribeInv ==
  ASSUME TypeOK, TypeOK', InOrder, IInv, NEW o \in Outcome, Describe(o)
  PROVE  IInv'
<1> USE DEF IInv
<1>1. at = "describe" /\ cur \in Code
  BY DEF Describe, TypeOK, RoutineTypeOK
<1>2. \A h \in Feeder : /\ descriptors[h] \subseteq descriptors'[h]
                        /\ \A d : Described(h, d) => Described(h, d)'
  BY DescribedStays DEF Describe
<1>3. UNCHANGED <<feeders, feederCode, log>>
  BY DEF Describe, IloDescribe
<1>4. RecordsHaveTheirCode'
  BY <1>3 DEF RecordsHaveTheirCode
<1>5. s_ams_rec_handle' \in {s_ams_rec_handle, None}
  BY DEF Describe, SessionAfter, ForgetSession, KeepSession
<1>6. LateReplyFindsNoFeeder'
  BY <1>5, HandleExchangeLate DEF Describe
<1>7. CASE Succeeded(o)
  <2>1. UNCHANGED <<s_ams_rec_class, s_ams_rec_handle>>
    BY <1>7 DEF Describe
  <2>2. s_ams_rec_handle \in feeders => s_ams_rec_handle \in Feeder
    BY DEF TypeOK, ChannelTypeOK, IloTypeOK
  <2>3. s_ams_rec_handle \in feeders =>
          \A b \in 0 .. blob : <<cur, b>> \in descriptors'[s_ams_rec_handle]
    BY <1>7, TakenSoFar
  <2>4. CASE MoreBlobs
    <3>1. blob' = blob + 1 /\ UNCHANGED <<usage_reinit, at, cur, nested, armed>>
      BY <1>7, <2>4 DEF Describe, NextBlob
    <3>2. SessionIsOrdered' /\ NestedRepeats' /\ CodeIsSet'
      BY <1>1, <2>1, <3>1 DEF SessionIsOrdered, NestedRepeats, CodeIsSet
    <3>3. BlobsAreTaken'
      <4>1. blob' - 1 = blob
        BY <1>1, <3>1, BlobsType DEF TypeOK, RoutineTypeOK
      <4>2. QED
        BY <1>3, <2>1, <2>3, <3>1, <4>1 DEF BlobsAreTaken
    <3>4. NoFeederIsAskedFor'
      BY <2>1, <3>1 DEF NoFeederIsAskedFor
    <3>5. MissingIsAskedFor'
      BY <1>2, <1>3, <2>1, <2>2, <3>1 DEF MissingIsAskedFor
    <3>6. QED
      BY <1>4, <1>6, <3>2, <3>3, <3>4, <3>5
  <2>5. CASE ~MoreBlobs
    <3>1. LastBlob
      BY <1>7, <2>5 DEF Describe
    <3>2. /\ cur' = cur /\ ~nested' /\ at' \in {"set", "idle", "log"}
          /\ at' = "log" => cur = "crash"
      BY <3>1 DEF LastBlob, GoTo, Return, Counter
    <3>3. SessionIsOrdered' /\ NestedRepeats' /\ BlobsAreTaken' /\ CodeIsSet'
      BY <2>1, <3>2 DEF SessionIsOrdered, NestedRepeats, BlobsAreTaken, CodeIsSet
    <3>4. CASE cur \in Counter
      <4>1. Blobs(cur) \in Nat \ {0} /\ blob = Blobs(cur)
        <5>1. Blobs(cur) # 0
          BY <3>4, ChannelAssumption DEF Blobs, Counter
        <5>2. QED
          BY <1>1, <2>5, <5>1, BlobsType DEF MoreBlobs, TypeOK, RoutineTypeOK
      <4>2. Honoured(o)
        BY <1>7, <4>1, SucceededIsHonoured
      <4>3. s_ams_rec_handle \in feeders /\ s_ams_rec_handle # None
        BY <4>2, NoneIsNoFeeder DEF Honoured
      <4>4. Described(s_ams_rec_handle, cur)'
        BY <2>1, <2>3, <3>2, <4>1, <4>3 DEF Described
      <4>5. NoFeederIsAskedFor'
        BY <2>1, <4>3 DEF NoFeederIsAskedFor
      <4>6. \A c \in Counter : c # cur => /\ armed'[c] = armed[c]
                                          /\ usage_reinit'[c] = usage_reinit[c]
        BY <3>1, <3>4 DEF LastBlob, TypeOK, ChannelTypeOK, SessionTypeOK
      <4>7. MissingIsAskedFor'
        <5> SUFFICES ASSUME NEW c \in Counter,
                            armed'[c] > 0 \/ (cur' = c /\ at' \in {"set", "log"}),
                            ~usage_reinit'[c],
                            s_ams_rec_handle' \in feeders'
                     PROVE  Described(s_ams_rec_handle, c)'
          BY DEF MissingIsAskedFor
        <5>1. CASE c = cur
          BY <3>2, <4>4, <5>1
        <5>2. CASE c # cur
          <6>1. Described(s_ams_rec_handle, c)
            BY <3>2, <4>3, <4>6, <5>2 DEF MissingIsAskedFor
          <6>2. QED
            BY <1>2, <2>1, <2>2, <4>3, <6>1
        <5>3. QED
          BY <5>1, <5>2
      <4>8. QED
        BY <1>4, <1>6, <3>3, <4>5, <4>7
    <3>5. CASE cur \notin Counter
      <4>1. UNCHANGED <<armed, usage_reinit>>
        BY <3>1, <3>5 DEF LastBlob
      <4>2. NoFeederIsAskedFor'
        BY <2>1, <3>2, <3>5, <4>1 DEF NoFeederIsAskedFor
      <4>3. MissingIsAskedFor'
        BY <1>2, <1>3, <2>1, <2>2, <3>2, <3>5, <4>1 DEF MissingIsAskedFor
      <4>4. QED
        BY <1>4, <1>6, <3>3, <4>2, <4>3
    <3>6. QED
      BY <3>4, <3>5
  <2>6. QED
    BY <2>4, <2>5
<1>8. CASE ~Succeeded(o)
  <2>1. SessionAfter(o) /\ GiveUp /\ UNCHANGED armed
    BY <1>8 DEF Describe
  <2>2. /\ cur' = cur /\ ~nested' /\ at' \in {"set", "idle"}
        /\ at' = "set" => nested
    BY <2>1, GiveUpEffect
  <2>3. NestedRepeats' /\ BlobsAreTaken' /\ CodeIsSet'
    BY <2>2 DEF NestedRepeats, BlobsAreTaken, CodeIsSet
  <2>4. SessionIsOrdered'
    BY <2>1, <2>2 DEF SessionIsOrdered, SessionAfter, ForgetSession, KeepSession
  <2>5. CASE ForgetSession
    BY <1>4, <1>6, <2>3, <2>4, <2>5, Forgotten
  <2>6. CASE KeepSession
    <3>1. UNCHANGED <<s_ams_rec_handle, usage_reinit>>
      BY <2>6 DEF KeepSession
    <3>2. \A c \in Counter : cur' = c /\ at' \in {"set", "log"} => usage_reinit'[c]
      BY <2>2, <3>1 DEF NestedRepeats
    <3>3. NoFeederIsAskedFor'
      BY <2>1, <3>1, <3>2 DEF NoFeederIsAskedFor
    <3>4. MissingIsAskedFor'
      <4>1. \A h \in feeders : h \in Feeder
        BY DEF TypeOK, ChannelTypeOK, IloTypeOK
      <4>2. QED
        BY <1>2, <1>3, <2>1, <3>1, <3>2, <4>1 DEF MissingIsAskedFor
    <3>5. QED
      BY <1>4, <1>6, <2>3, <2>4, <3>3, <3>4
  <2>7. QED
    BY <2>1, <2>5, <2>6 DEF SessionAfter
<1>9. QED
  BY <1>7, <1>8

LEMMA SetCodeInv ==
  ASSUME TypeOK, TypeOK', InOrder, IInv, NEW o \in Outcome, SetCode(o)
  PROVE  IInv'
<1> USE DEF IInv
<1>1. at = "set" /\ cur \notin Counter /\ ~nested
  BY DEF SetCode, NestedRepeats
<1>2. UNCHANGED <<armed, feeders, descriptors, log>>
  BY DEF SetCode, IloSetCode
<1>3. s_ams_rec_handle' \in {s_ams_rec_handle, None} /\ (SessionAfter(o) \/ KeepSession)
  BY DEF SetCode, SessionAfter, ForgetSession, KeepSession
<1>4. LateReplyFindsNoFeeder'
  BY <1>3, HandleExchangeLate DEF SetCode
<1>5. cur' = cur /\ ~nested' /\ at' \in {"idle", "log"}
  BY <1>1, GiveUpEffect DEF SetCode, GoTo, Return
<1>6. NestedRepeats' /\ BlobsAreTaken' /\ RecordsHaveTheirCode'
  BY <1>2, <1>5 DEF NestedRepeats, BlobsAreTaken, RecordsHaveTheirCode
<1>7. SessionIsOrdered'
  BY <1>3, <1>5 DEF SessionIsOrdered, SessionAfter, ForgetSession, KeepSession
<1>8. CASE ForgetSession
  BY <1>4, <1>6, <1>7, <1>8, Forgotten
<1>9. CASE KeepSession
  <2>1. UNCHANGED <<s_ams_rec_handle, usage_reinit>>
    BY <1>9 DEF KeepSession
  <2>2. NoFeederIsAskedFor' /\ MissingIsAskedFor'
    BY <1>1, <1>2, <1>5, <2>1 DEF NoFeederIsAskedFor, MissingIsAskedFor, Described
  <2>3. CodeIsSet'
    <3>1. CASE Succeeded(o)
      <4>1. Honoured(o)
        BY <1>1, <3>1, SucceededIsHonoured
      <4>2. feederCode'[s_ams_rec_handle] = cur
        BY <4>1 DEF SetCode, IloSetCode, Honoured, TypeOK, ChannelTypeOK, IloTypeOK
      <4>3. QED
        BY <1>5, <2>1, <4>2 DEF CodeIsSet
    <3>2. CASE ~Succeeded(o)
      <4>1. at' # "log"
        BY <3>2, GiveUpEffect DEF SetCode
      <4>2. QED
        BY <4>1 DEF CodeIsSet
    <3>3. QED
      BY <3>1, <3>2
  <2>4. QED
    BY <1>4, <1>6, <1>7, <2>2, <2>3
<1>10. QED
  BY <1>3, <1>8, <1>9 DEF SessionAfter

LEMMA SetUsageCodeInv ==
  ASSUME TypeOK, TypeOK', InOrder, IInv, NEW o \in Outcome, SetUsageCode(o)
  PROVE  IInv'
<1> USE DEF IInv
<1>1. at = "set" /\ cur \in Counter
  BY DEF SetUsageCode
<1>2. UNCHANGED <<armed, feeders, descriptors, log>>
  BY DEF SetUsageCode, IloSetCode
<1>3. s_ams_rec_handle' \in {s_ams_rec_handle, None}
  BY DEF SetUsageCode, ForgetSession, KeepSession
<1>4. LateReplyFindsNoFeeder'
  <2>1. Broken(o) => ~Succeeded(o)
    BY DEF Broken, Succeeded, Result, Read, None, RECORDER_OK
  <2>2. QED
    BY <1>3, <2>1, HandleExchangeLate DEF SetUsageCode
<1>5. cur' = cur /\ ~nested' /\ at' \in {"idle", "log"}
  BY DEF SetUsageCode, GoTo, Return
<1>6. NestedRepeats' /\ BlobsAreTaken' /\ RecordsHaveTheirCode'
  BY <1>2, <1>5 DEF NestedRepeats, BlobsAreTaken, RecordsHaveTheirCode
<1>7. SessionIsOrdered'
  BY <1>5 DEF SetUsageCode, SessionIsOrdered, ForgetSession, KeepSession
<1>8. CASE Succeeded(o)
  <2>1. UNCHANGED <<s_ams_rec_handle, usage_reinit>>
    BY <1>8 DEF SetUsageCode, KeepSession
  <2>2. Honoured(o) /\ s_ams_rec_handle # None
    BY <1>1, <1>8, SucceededIsHonoured, NoneIsNoFeeder DEF Honoured
  <2>3. NoFeederIsAskedFor' /\ MissingIsAskedFor'
    BY <1>1, <1>2, <1>5, <2>1, <2>2 DEF NoFeederIsAskedFor, MissingIsAskedFor, Described
  <2>4. feederCode'[s_ams_rec_handle] = cur
    BY <2>2 DEF SetUsageCode, IloSetCode, Honoured, TypeOK, ChannelTypeOK, IloTypeOK
  <2>5. CodeIsSet'
    BY <1>5, <2>1, <2>4 DEF CodeIsSet
  <2>6. QED
    BY <1>4, <1>6, <1>7, <2>3, <2>5
<1>9. CASE ~Succeeded(o)
  <2>1. ForgetSession
    BY <1>9 DEF SetUsageCode
  <2>2. QED
    BY <1>4, <1>6, <1>7, <2>1, Forgotten
<1>10. QED
  BY <1>8, <1>9

LEMMA LogInv ==
  ASSUME TypeOK, TypeOK', InOrder, IInv, NEW o \in Outcome,
         LogRecord(o) \/ LogUsage(o)
  PROVE  IInv'
<1> USE DEF IInv
<1>1. at = "log"
  BY DEF LogRecord, LogUsage
<1>2. UNCHANGED <<armed, feeders, feederCode, descriptors>> /\ IloLog(o, cur)
  BY DEF LogRecord, LogUsage, IloLog
<1>3. SessionAfter(o) /\ s_ams_rec_handle' \in {s_ams_rec_handle, None}
  BY DEF LogRecord, LogUsage, SessionAfter, ForgetSession, KeepSession
<1>4. LateReplyFindsNoFeeder'
  BY <1>3, HandleExchangeLate DEF LogRecord, LogUsage
<1>5. cur' = cur /\ ~nested' /\ at' \in {"idle", "log"}
  BY DEF LogRecord, LogUsage, GoTo, Return
<1>6. NestedRepeats' /\ BlobsAreTaken'
  BY <1>5 DEF NestedRepeats, BlobsAreTaken
<1>7. SessionIsOrdered'
  BY <1>3, <1>5 DEF SessionIsOrdered, SessionAfter, ForgetSession, KeepSession
<1>8. RecordsHaveTheirCode'
  <2>1. CASE Honoured(o)
    <3>1. cur # "crash" => feederCode[s_ams_rec_handle] = cur
      BY <1>1, <2>1 DEF CodeIsSet, Honoured
    <3>2. log' = log \cup {[code |-> feederCode[s_ams_rec_handle], by |-> cur,
                            described |-> Described(s_ams_rec_handle, cur)]}
      BY <1>2, <2>1 DEF IloLog
    <3>3. QED
      BY <3>1, <3>2 DEF RecordsHaveTheirCode
  <2>2. CASE ~Honoured(o)
    BY <1>2, <2>2 DEF IloLog, RecordsHaveTheirCode
  <2>3. QED
    BY <2>1, <2>2
<1>9. CASE ForgetSession
  BY <1>4, <1>6, <1>7, <1>8, <1>9, Forgotten
<1>10. CASE KeepSession
  <2>1. UNCHANGED <<s_ams_rec_handle, usage_reinit>>
    BY <1>10 DEF KeepSession
  <2>2. NoFeederIsAskedFor' /\ MissingIsAskedFor' /\ CodeIsSet'
    BY <1>1, <1>2, <1>5, <2>1
       DEF NoFeederIsAskedFor, MissingIsAskedFor, CodeIsSet, Described
  <2>3. QED
    BY <1>4, <1>6, <1>7, <1>8, <2>2
<1>11. QED
  BY <1>3, <1>9, <1>10 DEF SessionAfter

\* The steps of main(), of the alarms and of the iLO itself.
LEMMA OtherInv ==
  ASSUME TypeOK, TypeOK', IInv,
         \/ StartNext \/ Running \/ Stop \/ Exit
         \/ \E c \in Counter : Alarm(c)
         \/ Reset \/ UNCHANGED vars
  PROVE  IInv'
<1> USE DEF IInv
<1>1. CASE StartNext \/ Stop
  <2>1. /\ UNCHANGED channelVars /\ UNCHANGED armed /\ at = "idle" /\ ~nested
    BY <1>1 DEF StartNext, Stop, NestedRepeats
  <2>2. /\ UNCHANGED <<rec_fd, late, s_ams_rec_class, s_ams_rec_handle, usage_reinit,
                       feeders, feederCode, descriptors, log>>
    BY <2>1 DEF channelVars, clientVars, iloVars
  <2>3. /\ at' \in {"idle", FirstStage} /\ ~nested'
        /\ at' # "idle" => blob' = 0
    BY <1>1, <2>1 DEF StartNext, Stop, Enter
  <2>4. at' \in {"idle", "alloc", "register", "describe"}
    BY <2>3, FirstStageIsOrdered
  <2>5. LateReplyFindsNoFeeder'
    BY <2>1, <2>2 DEF LateReplyFindsNoFeeder
  <2>6. SessionIsOrdered'
    BY <2>2, <2>3, FirstStageIsOrdered DEF SessionIsOrdered
  <2>7. NestedRepeats' /\ BlobsAreTaken' /\ CodeIsSet'
    BY <2>3, <2>4 DEF NestedRepeats, BlobsAreTaken, CodeIsSet
  <2>8. NoFeederIsAskedFor' /\ MissingIsAskedFor' /\ RecordsHaveTheirCode'
    BY <2>1, <2>2, <2>4 DEF NoFeederIsAskedFor, MissingIsAskedFor, Described,
                            RecordsHaveTheirCode
  <2>9. QED
    BY <2>5, <2>6, <2>7, <2>8
<1>2. ASSUME NEW c \in Counter, Alarm(c) PROVE IInv'
  <2>1. /\ UNCHANGED channelVars /\ UNCHANGED armed /\ at = "idle" /\ armed[c] > 0
        /\ cur' = c /\ blob' = 0 /\ nested' = usage_reinit[c]
        /\ at' = IF usage_reinit[c] THEN FirstStage ELSE "set"
    BY <1>2 DEF Alarm
  <2>2. /\ UNCHANGED <<rec_fd, late, s_ams_rec_class, s_ams_rec_handle, usage_reinit,
                       feeders, feederCode, descriptors, log>>
    BY <2>1 DEF channelVars, clientVars, iloVars
  <2>3. /\ at' \in {"set", "alloc", "register", "describe"}
        /\ nested' => at' \in {"alloc", "register", "describe"}
    BY <2>1, FirstStageIsOrdered
  <2>4. LateReplyFindsNoFeeder'
    BY <2>1, <2>2 DEF LateReplyFindsNoFeeder
  <2>5. SessionIsOrdered'
    BY <2>1, <2>2, FirstStageIsOrdered DEF SessionIsOrdered
  <2>6. NestedRepeats'
    BY <2>1, <2>2, <2>3 DEF NestedRepeats
  <2>7. BlobsAreTaken' /\ CodeIsSet'
    BY <2>1, <2>3 DEF BlobsAreTaken, CodeIsSet
  <2>8. NoFeederIsAskedFor' /\ MissingIsAskedFor' /\ RecordsHaveTheirCode'
    BY <2>1, <2>2 DEF NoFeederIsAskedFor, MissingIsAskedFor, Described,
                      RecordsHaveTheirCode
  <2>9. QED
    BY <2>4, <2>5, <2>6, <2>7, <2>8
<1>3. CASE Running \/ Exit \/ UNCHANGED vars
  <2>1. UNCHANGED <<rec_fd, late, s_ams_rec_class, s_ams_rec_handle, usage_reinit,
                    feeders, feederCode, descriptors, log, at, cur, blob, nested, armed>>
    BY <1>3 DEF Running, Exit, vars, channelVars, clientVars, iloVars
  <2>2. LateReplyFindsNoFeeder' /\ SessionIsOrdered' /\ NestedRepeats'
    BY <2>1 DEF LateReplyFindsNoFeeder, SessionIsOrdered, NestedRepeats
  <2>3. BlobsAreTaken' /\ CodeIsSet' /\ RecordsHaveTheirCode'
    BY <2>1 DEF BlobsAreTaken, CodeIsSet, RecordsHaveTheirCode
  <2>4. NoFeederIsAskedFor' /\ MissingIsAskedFor'
    BY <2>1 DEF NoFeederIsAskedFor, MissingIsAskedFor, Described
  <2>5. QED
    BY <2>2, <2>3, <2>4
<1>4. CASE Reset
  <2>1. /\ late' = NoReply /\ feeders' = {} /\ log' = {}
        /\ UNCHANGED <<s_ams_rec_class, s_ams_rec_handle, usage_reinit,
                       at, cur, blob, nested, armed>>
    BY <1>4 DEF Reset, IloReset
  <2>2. LateReplyFindsNoFeeder' /\ SessionIsOrdered' /\ NestedRepeats'
    BY <2>1 DEF LateReplyFindsNoFeeder, SessionIsOrdered, NestedRepeats
  <2>3. BlobsAreTaken' /\ MissingIsAskedFor' /\ CodeIsSet' /\ RecordsHaveTheirCode'
    BY <2>1 DEF BlobsAreTaken, MissingIsAskedFor, CodeIsSet, RecordsHaveTheirCode
  <2>4. NoFeederIsAskedFor'
    BY <2>1 DEF NoFeederIsAskedFor
  <2>5. QED
    BY <2>2, <2>3, <2>4
<1>5. QED
  BY <1>1, <1>2, <1>3, <1>4

\* What ends the process, or leaves the processors undescribed.
LEMMA FailInv ==
  ASSUME TypeOK, TypeOK', IInv, Die \/ NoProcessors
  PROVE  IInv'
<1> USE DEF IInv
<1>1. CASE Die
  <2>1. LateReplyFindsNoFeeder'
    <3>1. CASE late = NoReply
      BY <1>1, <3>1, DieEffect DEF LateReplyFindsNoFeeder
    <3>2. CASE late # NoReply
      <4>1. late.rcode # RECORDER_OK
        BY <1>1, <3>2, DieEffect DEF LateReplyFindsNoFeeder
      <4>2. QED
        BY <1>1, <3>2, <4>1, DieEffect DEF LateReplyFindsNoFeeder
    <3>3. QED
      BY <3>1, <3>2
  <2>2. SessionIsOrdered' /\ NestedRepeats'
    BY <1>1, DieEffect DEF SessionIsOrdered, NestedRepeats
  <2>3. BlobsAreTaken' /\ CodeIsSet' /\ RecordsHaveTheirCode'
    BY <1>1, DieEffect DEF BlobsAreTaken, CodeIsSet, RecordsHaveTheirCode
  <2>4. NoFeederIsAskedFor' /\ MissingIsAskedFor'
    BY <1>1, DieEffect DEF NoFeederIsAskedFor, MissingIsAskedFor, Described
  <2>5. QED
    BY <2>1, <2>2, <2>3, <2>4
<1>2. CASE NoProcessors
  <2>1. LateReplyFindsNoFeeder' /\ SessionIsOrdered'
    BY <1>2, NoProcessorsEffect DEF LateReplyFindsNoFeeder, SessionIsOrdered
  <2>2. NestedRepeats' /\ BlobsAreTaken' /\ CodeIsSet' /\ RecordsHaveTheirCode'
    BY <1>2, NoProcessorsEffect
       DEF NestedRepeats, BlobsAreTaken, CodeIsSet, RecordsHaveTheirCode
  <2>3. NoFeederIsAskedFor' /\ MissingIsAskedFor'
    BY <1>2, NoProcessorsEffect DEF NoFeederIsAskedFor, MissingIsAskedFor, Described
  <2>4. QED
    BY <2>1, <2>2, <2>3
<1>3. QED
  BY <1>1, <1>2

LEMMA StepInv == InOrder /\ TypeOK /\ TypeOK' /\ IInv /\ [Next]_vars => IInv'
<1> SUFFICES ASSUME InOrder, TypeOK, TypeOK', IInv, [Next]_vars
             PROVE  IInv'
  OBVIOUS
<1>1. CASE Routine
  <2>1. PICK o \in Outcome :
          \/ Alloc(o) \/ Register(o) \/ Describe(o)
          \/ SetCode(o) \/ SetUsageCode(o) \/ LogRecord(o) \/ LogUsage(o)
    BY <1>1 DEF Routine
  <2>2. QED
    BY <2>1, AllocInv, RegisterInv, DescribeInv, SetCodeInv, SetUsageCodeInv, LogInv
<1>2. CASE ~Routine
  BY <1>2, OtherInv, FailInv, ModuleEventIsNothing DEF Next
<1>3. QED
  BY <1>1, <1>2

\* The inductive invariant holds, for every StartOrder, every number of
\* feeders, faults and processor blobs, and every set of faults, as long as
\* no late reply can be taken for another one.
THEOREM Invariance == ASSUME InOrder PROVE Spec => []IInv
<1>1. Init => IInv
  BY InitInv
<1>2. TypeOK /\ TypeOK' /\ IInv /\ [Next]_vars => IInv'
  BY StepInv
<1>3. QED
  BY <1>1, <1>2, TypeCorrect, PTL DEF Spec

\* A late reply, which log.c cannot tell from the reply to its own request,
\* is never read as the success of a request that was not carried out: while
\* one is unread the routine has no feeder, and if it says RECORDER_OK the
\* next exchange is the first of a description.
THEOREM LateReplyNeverFindsFeeder == ASSUME InOrder PROVE Spec => []LateReplyFindsNoFeeder
<1>1. IInv => LateReplyFindsNoFeeder
  BY DEF IInv
<1>2. QED
  BY <1>1, Invariance, PTL

\* A counter whose descriptors the iLO lacks always asks to repeat them:
\* close_rec(1) and the three usage_reinit flags never lose track, over any
\* number of resets, refusals and broken exchanges.
THEOREM MissingIsAlwaysAskedFor == ASSUME InOrder PROVE Spec => []MissingIsAskedFor
<1>1. IInv => MissingIsAskedFor
  BY DEF IInv
<1>2. QED
  BY <1>1, Invariance, PTL

\* No record is ever stored under the code of another routine, although the
\* routines share one handle: a routine never logs after a rec_api3 that the
\* iLO did not carry out.
THEOREM RecordsAlwaysHaveTheirCode == ASSUME InOrder PROVE Spec => []RecordsHaveTheirCode
<1>1. IInv => RecordsHaveTheirCode
  BY DEF IInv
<1>2. QED
  BY <1>1, Invariance, PTL

-----------------------------------------------------------------------------
(* The alarms.  This part needs nothing of InOrder. *)

LEMMA EarlierStays ==
  ASSUME TypeOK, NEW c, todo' \in {todo, todo + 1},
         \E i \in 1 .. Len(StartOrder) : i < todo /\ StartOrder[i] = c
  PROVE  (\E i \in 1 .. Len(StartOrder) : i < todo /\ StartOrder[i] = c)'
<1>1. PICK i \in 1 .. Len(StartOrder) : i < todo /\ StartOrder[i] = c
  OBVIOUS
<1>2. i < todo'
  <2>1. todo \in Nat /\ i \in Nat
    BY RecorderAssumption DEF TypeOK
  <2>2. QED
    BY <1>1, <2>1
<1>3. QED
  BY <1>1, <1>2

\* A step that arms nothing and enters no routine keeps ArmedInOrder.
LEMMA NothingArmed ==
  ASSUME TypeOK, ArmedInOrder, UNCHANGED <<armed, cur>>, todo' \in {todo, todo + 1},
         at' \in {"alloc", "register", "describe"} /\ ~nested' =>
           at \in {"alloc", "register", "describe"} /\ ~nested
  PROVE  ArmedInOrder'
<1>1. ASSUME NEW c \in Counter
      PROVE  /\ armed'[c] <= 1
             /\ armed'[c] > 0 =>
                  (\E i \in 1 .. Len(StartOrder) : i < todo /\ StartOrder[i] = c)'
  <2>1. /\ armed[c] <= 1
        /\ armed[c] > 0 => \E i \in 1 .. Len(StartOrder) : i < todo /\ StartOrder[i] = c
    BY <1>1 DEF ArmedInOrder
  <2>2. armed' = armed
    OBVIOUS
  <2>3. ASSUME armed[c] > 0
        PROVE  (\E i \in 1 .. Len(StartOrder) : i < todo /\ StartOrder[i] = c)'
    <3>1. \E i \in 1 .. Len(StartOrder) : i < todo /\ StartOrder[i] = c
      BY <2>1, <2>3
    <3>2. QED
      BY <3>1, EarlierStays
  <2>4. armed'[c] <= 1
    BY <2>1, <2>2
  <2>5. armed'[c] > 0 => armed[c] > 0
    BY <2>2
  <2>6. QED
    BY <2>3, <2>4, <2>5, Zenon
<1>2. ASSUME at' \in {"alloc", "register", "describe"}, ~nested', cur' \in Counter
      PROVE  /\ armed'[cur'] = 0
             /\ \E i \in 1 .. Len(StartOrder) : i < todo' /\ StartOrder[i] = cur'
  <2>1. /\ armed[cur] = 0
        /\ \E i \in 1 .. Len(StartOrder) : i < todo /\ StartOrder[i] = cur
    BY <1>2 DEF ArmedInOrder
  <2>2. (\E i \in 1 .. Len(StartOrder) : i < todo /\ StartOrder[i] = cur)'
    <3>1. \E i \in 1 .. Len(StartOrder) : i < todo' /\ StartOrder[i] = cur
      BY <2>1, EarlierStays
    <3>2. QED
      BY <3>1
  <2>3. QED
    BY <2>1, <2>2
<1>3. QED
  BY <1>1, <1>2 DEF ArmedInOrder

LEMMA RoutineNested ==
  ASSUME NestedRepeats, NEW o \in Outcome,
         \/ Alloc(o) \/ Register(o) \/ Describe(o)
         \/ SetCode(o) \/ SetUsageCode(o) \/ LogRecord(o) \/ LogUsage(o)
  PROVE  /\ cur' = cur
         /\ todo' \in {todo, todo + 1}
         /\ NestedRepeats'
         /\ at' \in {"alloc", "register", "describe"} /\ ~nested' =>
              at \in {"alloc", "register", "describe"} /\ ~nested
<1>1. CASE Alloc(o)
  <2>1. todo' \in {todo, todo + 1}
    BY <1>1 DEF Alloc, InitFailed, GiveUp, SkipRest
  <2>2. /\ cur' = cur /\ UNCHANGED usage_reinit
        /\ \/ at' \in {"register", "describe"} /\ nested' = nested
           \/ at' \in {"set", "idle"} /\ ~nested'
    BY <1>1, GiveUpEffect DEF Alloc, InitFailed
  <2>3. QED
    BY <1>1, <2>1, <2>2 DEF Alloc, NestedRepeats
<1>2. CASE Register(o)
  <2>1. todo' \in {todo, todo + 1}
    BY <1>2 DEF Register, InitFailed, GiveUp, SkipRest
  <2>2. /\ cur' = cur
        /\ \/ at' \in {"register", "describe"} /\ nested' = nested
           \/ at' \in {"set", "idle"} /\ ~nested'
    BY <1>2, GiveUpEffect DEF Register, InitFailed
  <2>3. \A c \in Counter : usage_reinit[c] => usage_reinit'[c]
    BY <1>2 DEF Register, SessionAfter, ForgetSession, KeepSession
  <2>4. QED
    BY <1>2, <2>1, <2>2, <2>3 DEF Register, NestedRepeats
<1>3. CASE Describe(o)
  <2>1. CASE Succeeded(o) /\ MoreBlobs
    BY <1>3, <2>1 DEF Describe, NextBlob, NestedRepeats
  <2>2. CASE Succeeded(o) /\ ~MoreBlobs
    <3>1. LastBlob
      BY <1>3, <2>2 DEF Describe
    <3>2. cur' = cur /\ ~nested' /\ at' \in {"set", "idle", "log"}
      BY <3>1 DEF LastBlob, GoTo, Return
    <3>3. todo' \in {todo, todo + 1}
      BY <3>1 DEF LastBlob, SkipRest
    <3>4. QED
      BY <3>2, <3>3 DEF NestedRepeats
  <2>3. CASE ~Succeeded(o)
    <3>1. GiveUp
      BY <1>3, <2>3 DEF Describe
    <3>2. todo' \in {todo, todo + 1}
      BY <3>1 DEF GiveUp, SkipRest
    <3>3. QED
      BY <3>1, <3>2, GiveUpEffect DEF NestedRepeats
  <2>4. QED
    BY <2>1, <2>2, <2>3
<1>4. CASE SetCode(o)
  <2>1. todo' \in {todo, todo + 1}
    BY <1>4 DEF SetCode, GiveUp, SkipRest
  <2>2. cur' = cur /\ ~nested' /\ at' \in {"set", "idle", "log"}
    BY <1>4, GiveUpEffect DEF SetCode, GoTo, Return
  <2>3. QED
    BY <2>1, <2>2 DEF NestedRepeats
<1>5. CASE SetUsageCode(o) \/ LogRecord(o) \/ LogUsage(o)
  <2>1. cur' = cur /\ ~nested' /\ at' \in {"set", "idle", "log"} /\ todo' = todo
    BY <1>5 DEF SetUsageCode, LogRecord, LogUsage, GoTo, Return
  <2>2. QED
    BY <2>1 DEF NestedRepeats
<1>6. QED
  BY <1>1, <1>2, <1>3, <1>4, <1>5

LEMMA RoutineArms ==
  ASSUME TypeOK, NestedRepeats, ArmedInOrder, Routine
  PROVE  NestedRepeats' /\ ArmedInOrder'
<1>1. PICK o \in Outcome :
        \/ Alloc(o) \/ Register(o) \/ Describe(o)
        \/ SetCode(o) \/ SetUsageCode(o) \/ LogRecord(o) \/ LogUsage(o)
  BY DEF Routine
<1>2. /\ cur' = cur
      /\ todo' \in {todo, todo + 1}
      /\ NestedRepeats'
      /\ at' \in {"alloc", "register", "describe"} /\ ~nested' =>
           at \in {"alloc", "register", "describe"} /\ ~nested
  BY <1>1, RoutineNested
<1>3. CASE UNCHANGED armed
  BY <1>2, <1>3, NothingArmed
<1>4. CASE armed' # armed
  <2>1. Describe(o) /\ Succeeded(o) /\ ~MoreBlobs
    BY <1>1, <1>4 DEF Alloc, Register, SetCode, SetUsageCode, LogRecord, LogUsage,
                      Describe, NextBlob
  <2>2. LastBlob /\ at = "describe"
    BY <2>1 DEF Describe
  <2>3. cur \in Counter /\ ~usage_reinit[cur]
    BY <1>4, <2>2 DEF LastBlob, Repetition
  <2>4. armed' = [armed EXCEPT ![cur] = IF LogInterval = 0 THEN @ ELSE @ + 1]
    BY <2>2, <2>3 DEF LastBlob, Repetition, Counter
  <2>5. ~nested
    BY <2>3 DEF NestedRepeats
  <2>6. /\ armed[cur] = 0
        /\ \E i \in 1 .. Len(StartOrder) : i < todo /\ StartOrder[i] = cur
    BY <2>2, <2>3, <2>5 DEF ArmedInOrder
  <2>7. (\E i \in 1 .. Len(StartOrder) : i < todo /\ StartOrder[i] = cur)'
    <3>1. (\E i \in 1 .. Len(StartOrder) : i < todo' /\ StartOrder[i] = cur)
      BY <1>2, <2>6, EarlierStays
    <3>2. QED
      BY <1>2, <3>1
  <2>8. \A c \in Counter : c # cur => armed'[c] = armed[c]
    BY <2>4 DEF TypeOK
  <2>9. armed'[cur] \in {0, 1}
    BY <2>3, <2>4, <2>6 DEF TypeOK
  <2>10. at' \notin {"alloc", "register", "describe"}
    BY <2>2 DEF LastBlob, GoTo, Return
  <2>11. ASSUME NEW c \in Counter
         PROVE  /\ armed'[c] <= 1
                /\ armed'[c] > 0 =>
                     (\E i \in 1 .. Len(StartOrder) : i < todo /\ StartOrder[i] = c)'
    <3>1. CASE c = cur
      BY <1>2, <2>7, <2>9, <3>1
    <3>2. CASE c # cur
      BY <1>2, <2>8, <3>2, EarlierStays DEF ArmedInOrder
    <3>3. QED
      BY <3>1, <3>2
  <2>12. QED
    BY <1>2, <2>10, <2>11 DEF ArmedInOrder
<1>5. QED
  BY <1>2, <1>3, <1>4

LEMMA StepArms == TypeOK /\ NestedRepeats /\ ArmedInOrder /\ [Next]_vars
                    => NestedRepeats' /\ ArmedInOrder'
<1> SUFFICES ASSUME TypeOK, NestedRepeats, ArmedInOrder, [Next]_vars
             PROVE  NestedRepeats' /\ ArmedInOrder'
  OBVIOUS
<1>0. todo \in Nat \ {0} /\ Len(StartOrder) \in Nat
  BY RecorderAssumption DEF TypeOK
<1>1. CASE Routine
  BY <1>1, RoutineArms
<1>2. CASE StartNext
  <2>1. UNCHANGED <<armed, usage_reinit>> /\ at = "idle" /\ ~nested /\ todo' \in {todo, todo + 1}
    BY <1>2 DEF StartNext, channelVars, clientVars, NestedRepeats
  <2>2. CASE UNCHANGED <<cur, blob, at, nested>>
    BY <2>1, <2>2, NothingArmed DEF NestedRepeats
  <2>3. CASE Enter("crash", FALSE)
    <3>1. ~nested' /\ cur' \notin Counter
      BY <2>3 DEF Enter, Counter
    <3>2. QED
      BY <2>1, <3>1, EarlierStays DEF ArmedInOrder, NestedRepeats
  <2>4. CASE Enter(StartOrder[todo], FALSE) /\ todo' = todo + 1
    <3>1. ~nested' /\ cur' = StartOrder[todo] /\ todo \in 1 .. Len(StartOrder)
      BY <1>0, <1>2, <2>4 DEF Enter, StartNext
    <3>2. NestedRepeats'
      BY <3>1 DEF NestedRepeats
    <3>3. cur' \in Counter => armed[cur'] = 0
      <4> SUFFICES ASSUME cur' \in Counter, armed[cur'] # 0 PROVE FALSE
        OBVIOUS
      <4>1. armed[cur'] > 0
        BY DEF TypeOK
      <4>2. PICK i \in 1 .. Len(StartOrder) : i < todo /\ StartOrder[i] = cur'
        BY <4>1 DEF ArmedInOrder
      <4>3. i = todo
        BY <3>1, <4>2, RecorderAssumption
      <4>4. QED
        BY <1>0, <4>2, <4>3
    <3>4. todo \in 1 .. Len(StartOrder) /\ todo < todo' /\ StartOrder[todo] = cur'
      BY <1>0, <2>4, <3>1
    <3>5. QED
      BY <2>1, <3>2, <3>3, <3>4, EarlierStays DEF ArmedInOrder
  <2>5. QED
    BY <1>2, <2>2, <2>3, <2>4 DEF StartNext
<1>3. ASSUME NEW c \in Counter, Alarm(c) PROVE NestedRepeats' /\ ArmedInOrder'
  <2>1. /\ UNCHANGED <<armed, usage_reinit, todo>>
        /\ cur' = c /\ nested' = usage_reinit[c]
        /\ at' = IF usage_reinit[c] THEN FirstStage ELSE "set"
    BY <1>3 DEF Alarm, channelVars, clientVars
  <2>2. FirstStage \in {"alloc", "register", "describe"}
    BY DEF FirstStage
  <2>3. NestedRepeats'
    BY <2>1, <2>2 DEF NestedRepeats
  <2>4. ~nested' => at' = "set"
    BY <2>1
  <2>5. QED
    BY <2>1, <2>3, <2>4, EarlierStays DEF ArmedInOrder
<1>4. CASE Stop
  <2>1. UNCHANGED <<armed, todo>> /\ ~nested' /\ cur' \notin Counter
    BY <1>4 DEF Stop, Enter, Counter
  <2>2. QED
    BY <2>1, EarlierStays DEF ArmedInOrder, NestedRepeats
<1>5. CASE Running \/ Exit \/ Reset \/ UNCHANGED vars
  <2>1. UNCHANGED <<armed, todo, at, cur, nested, usage_reinit>>
    BY <1>5 DEF Running, Exit, Reset, IloReset, vars, channelVars, clientVars
  <2>2. QED
    BY <2>1, NothingArmed DEF NestedRepeats
<1>7. CASE Die
  BY <1>7, DieEffect, NothingArmed DEF NestedRepeats
<1>8. CASE NoProcessors
  <2>1. CASE UNCHANGED <<at, cur, blob, nested>> /\ todo' = todo + 1
    BY <1>8, <2>1, NoProcessorsEffect, NothingArmed DEF NestedRepeats
  <2>2. CASE at' = "set" /\ ~nested' /\ todo' = todo
    BY <1>8, <2>2, NoProcessorsEffect, EarlierStays DEF ArmedInOrder, NestedRepeats
  <2>3. QED
    BY <1>8, <2>1, <2>2, NoProcessorsEffect
<1>6. QED
  BY <1>1, <1>2, <1>3, <1>4, <1>5, <1>7, <1>8, ModuleEventIsNothing DEF Next

\* No counter ever has two alarms, whatever the order of the LOG_* calls and
\* whatever fails: the callback that calls the routine that registers it
\* does so only while usage_reinit says that this is a repetition.
THEOREM NeverTwoAlarms == Spec => []OneAlarmPerCounter
<1>1. Init => NestedRepeats /\ ArmedInOrder
  <2> SUFFICES ASSUME Init PROVE NestedRepeats /\ ArmedInOrder
    OBVIOUS
  <2>1. ~nested /\ at = "idle" /\ \A c \in Counter : armed[c] = 0
    BY DEF Init
  <2>2. QED
    BY <2>1 DEF NestedRepeats, ArmedInOrder
<1>2. ArmedInOrder => OneAlarmPerCounter
  BY DEF ArmedInOrder, OneAlarmPerCounter
<1>3. QED
  BY <1>1, <1>2, StepArms, TypeCorrect, PTL DEF Spec

-----------------------------------------------------------------------------
(* Every record can be decoded, where no request is left half done. *)

LEMMA StepDescribed ==
  ASSUME TypeOK, TypeOK', InOrder, NothingHalfDone, IInv,
         DescribedWhenLogged, RecordsAreDescribed, [Next]_vars
  PROVE  DescribedWhenLogged' /\ RecordsAreDescribed'
<1> USE DEF IInv
<1>1. s_ams_rec_handle' = None => DescribedWhenLogged'
  BY ChannelAssumption
     DEF DescribedWhenLogged, TypeOK, ChannelTypeOK, IloTypeOK, Feeder, None
<1>2. UNCHANGED log => RecordsAreDescribed'
  BY DEF RecordsAreDescribed
<1>3. ASSUME NEW o \in Outcome, Alloc(o)
      PROVE  DescribedWhenLogged' /\ RecordsAreDescribed'
  BY <1>1, <1>2, <1>3 DEF Alloc, IloAllocate, SessionIsOrdered
<1>4. ASSUME NEW o \in Outcome, Register(o)
      PROVE  DescribedWhenLogged' /\ RecordsAreDescribed'
  <2>1. at' = "describe" \/ s_ams_rec_handle' = None
    BY <1>4 DEF Register, SessionIsOrdered, SessionAfter, ForgetSession, KeepSession
  <2>2. QED
    BY <1>1, <1>2, <1>4, <2>1 DEF Register, IloRegister, DescribedWhenLogged
<1>5. ASSUME NEW o \in Outcome, Describe(o)
      PROVE  DescribedWhenLogged' /\ RecordsAreDescribed'
  <2>1. UNCHANGED <<feeders, log>>
    BY <1>5 DEF Describe, IloDescribe
  <2>2. CASE Succeeded(o) /\ MoreBlobs
    BY <1>2, <1>5, <2>1, <2>2 DEF Describe, NextBlob, DescribedWhenLogged
  <2>3. CASE Succeeded(o) /\ ~MoreBlobs
    <3>1. blob = Blobs(cur)
      BY <2>3, BlobsType DEF MoreBlobs, TypeOK, RoutineTypeOK
    <3>2. cur' = cur /\ s_ams_rec_handle' = s_ams_rec_handle
      BY <1>5, <2>3 DEF Describe, LastBlob, GoTo, Return
    <3>3. s_ams_rec_handle \in feeders => Described(s_ams_rec_handle, cur)'
      BY <1>5, <2>3, <3>1, <3>2, TakenSoFar DEF Described
    <3>4. QED
      BY <1>2, <2>1, <3>2, <3>3 DEF DescribedWhenLogged
  <2>4. CASE ~Succeeded(o)
    <3>1. SessionAfter(o)
      BY <1>5, <2>4 DEF Describe
    <3>2. o \in {"answered", "slow", "lost"}
      BY <1>5 DEF Describe, Exchange, Possible, NewFault, CanFault, NothingHalfDone, Outcome
    <3>3. CASE o = "answered"
      <4>1. Got(HandleReply(o)).rcode # RECORDER_OK
        BY <2>4, <3>3 DEF Succeeded, Result, Read
      <4>2. s_ams_rec_handle \notin feeders
        <5>1. CASE late = NoReply
          BY <3>3, <4>1, <5>1 DEF Got, HandleReply, OkReply, Honoured, Delivered
        <5>2. CASE late # NoReply
          BY <5>2, NoneIsNoFeeder DEF LateReplyFindsNoFeeder
        <5>3. QED
          BY <5>1, <5>2
      <4>3. UNCHANGED s_ams_rec_handle
        BY <3>1, <3>3 DEF SessionAfter, Broken, KeepSession
      <4>4. QED
        BY <1>2, <2>1, <4>2, <4>3 DEF DescribedWhenLogged
    <3>4. CASE o \in {"slow", "lost"}
      BY <1>1, <1>2, <2>1, <3>1, <3>4 DEF SessionAfter, Broken, ForgetSession
    <3>5. QED
      BY <3>2, <3>3, <3>4
  <2>5. QED
    BY <2>2, <2>3, <2>4
<1>6. ASSUME NEW o \in Outcome, SetCode(o) \/ SetUsageCode(o) \/ LogRecord(o) \/ LogUsage(o)
      PROVE  DescribedWhenLogged' /\ RecordsAreDescribed'
  <2>1. /\ at \in {"set", "log"}
        /\ UNCHANGED <<feeders, descriptors>> /\ cur' = cur
        /\ UNCHANGED log \/ (at = "log" /\ IloLog(o, cur))
        /\ SessionAfter(o) \/ ForgetSession \/ KeepSession
    BY <1>6, GiveUpEffect
       DEF SetCode, SetUsageCode, LogRecord, LogUsage, IloSetCode, IloLog, GoTo, Return
  <2>2. DescribedWhenLogged'
    <3>1. CASE ForgetSession
      BY <1>1, <3>1 DEF ForgetSession
    <3>2. CASE KeepSession
      BY <2>1, <3>2 DEF KeepSession, DescribedWhenLogged, Described
    <3>3. QED
      BY <2>1, <3>1, <3>2 DEF SessionAfter
  <2>3. RecordsAreDescribed'
    <3>1. CASE at = "log" /\ IloLog(o, cur) /\ Honoured(o)
      <4>1. Described(s_ams_rec_handle, cur)
        BY <3>1 DEF DescribedWhenLogged, Honoured
      <4>2. log' = log \cup {[code |-> feederCode[s_ams_rec_handle], by |-> cur,
                              described |-> Described(s_ams_rec_handle, cur)]}
        BY <3>1 DEF IloLog
      <4>3. QED
        BY <4>1, <4>2 DEF RecordsAreDescribed
    <3>2. CASE UNCHANGED log \/ (IloLog(o, cur) /\ ~Honoured(o))
      BY <1>2, <3>2 DEF IloLog
    <3>3. QED
      BY <2>1, <3>1, <3>2
  <2>4. QED
    BY <2>2, <2>3
<1>7. CASE StartNext \/ Stop
  <2>1. at = "idle" /\ at' \in {"idle", FirstStage}
    BY <1>7 DEF StartNext, Stop, Enter
  <2>2. at' \notin {"set", "log"}
    BY <2>1 DEF FirstStage
  <2>3. QED
    BY <1>2, <1>7, <2>2 DEF StartNext, Stop, channelVars, iloVars, DescribedWhenLogged
<1>8. ASSUME NEW c \in Counter, Alarm(c)
      PROVE  DescribedWhenLogged' /\ RecordsAreDescribed'
  <2>1. /\ UNCHANGED <<s_ams_rec_handle, feeders, descriptors, usage_reinit, log>>
        /\ armed[c] > 0 /\ cur' = c
        /\ at' = IF usage_reinit[c] THEN FirstStage ELSE "set"
    BY <1>8 DEF Alarm, channelVars, clientVars, iloVars
  <2>2. at' \in {"set", "log"} => ~usage_reinit[c]
    BY <2>1 DEF FirstStage
  <2>3. QED
    BY <1>2, <2>1, <2>2 DEF DescribedWhenLogged, MissingIsAskedFor, Described
<1>9. CASE Running \/ Exit \/ UNCHANGED vars
  BY <1>2, <1>9 DEF Running, Exit, vars, channelVars, clientVars, iloVars,
                    DescribedWhenLogged, Described
<1>10. CASE Reset
  BY <1>10 DEF Reset, IloReset, DescribedWhenLogged, RecordsAreDescribed
<1>11. CASE Routine
  BY <1>3, <1>4, <1>5, <1>6, <1>11 DEF Routine
<1>13. CASE Die
  BY <1>2, <1>13, DieEffect DEF DescribedWhenLogged
<1>14. CASE NoProcessors
  BY <1>14 DEF NoProcessors, CanFault, NothingHalfDone
<1>12. QED
  BY <1>7, <1>8, <1>9, <1>10, <1>11, <1>13, <1>14, ModuleEventIsNothing DEF Next

\* Where requests either get through or break the channel, every record that
\* the iLO keeps can be decoded with the descriptors of its feeder, however
\* often the iLO resets in between.
THEOREM RecordsAlwaysDescribed ==
  ASSUME InOrder, NothingHalfDone PROVE Spec => []RecordsAreDescribed
<1>1. Init => DescribedWhenLogged /\ RecordsAreDescribed
  BY DEF Init, ChannelInit, DescribedWhenLogged, RecordsAreDescribed
<1>2. TypeOK /\ TypeOK' /\ IInv /\ DescribedWhenLogged /\ RecordsAreDescribed /\ [Next]_vars
        => DescribedWhenLogged' /\ RecordsAreDescribed'
  BY StepDescribed
<1>3. QED
  BY <1>1, <1>2, TypeCorrect, Invariance, PTL DEF Spec
=============================================================================
