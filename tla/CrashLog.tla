------------------------------ MODULE CrashLog ------------------------------
(***************************************************************************)
(* LOG_PROCESS_CRASHES (recorder/crash.c): at every start the agent looks  *)
(* for kernel crash dumps that carry no tag file, extracts the kernel log  *)
(* and an analysis of each with external programs, sends both to the iLO   *)
(* in records of limited size, and at the end tags what it found.          *)
(*                                                                         *)
(* The tag files are all that survives the process, which may be killed    *)
(* between any two steps.  A record that is sent is either accepted or     *)
(* not: how is the subject of Recorder.                                    *)
(***************************************************************************)
EXTENDS Integers, FiniteSets

CONSTANTS
  Crash,       \* names of the directories below the crash directory
  MaxBlob,     \* RECORDER_MAX_BLOB_SIZE
  MaxLen,      \* bound on the length of a file
  Tools,       \* what may be installed: "none", "dmesg" (makedumpfile only), "all"
  Gzip,        \* is gzip installed?
  MaxFaults,   \* bound on the faults of one behaviour
  Faults       \* the kinds of fault that may happen

ASSUME CrashAssumption ==
  /\ MaxBlob \in Nat /\ MaxBlob > 1
  /\ MaxLen \in Nat \ {0}
  /\ Tools \subseteq {"none", "dmesg", "all"}
  /\ Gzip \in BOOLEAN
  /\ MaxFaults \in Nat
  /\ Faults \subseteq {"program", "script", "record", "tag", "kill"}

VARIABLES
  dumped,      \* directories with a vmcore file
  tagged,      \* directories with a SUCCESSFULLY_PROCESSED_TAGFILE
  faults,
  \* of one process
  at,          \* what it does next
  tools,       \* what it finds installed
  found,       \* current_crash_entries
  previous,    \* previous_crash_entries
  todo,        \* the entries that the running loop has not come to
  item,        \* the entry that process_crash_item works on
  total,       \* rc of process_new_crashes
  file,        \* what log_buffer_contents sends: part, bytes, bytes up to a NUL
  cur,         \* bytes of it already passed
  \* for the properties
  ok,          \* items of this process for which process_crash_item returned 0
  failed,      \* and the others it has finished
  processed    \* items for which it ever returned 0

fsVars == <<dumped, tagged>>
listVars == <<tools, found, previous>>
fileVars == <<file, cur>>
ghostVars == <<ok, failed, processed>>
vars == <<fsVars, faults, at, listVars, todo, item, total, fileVars,
          ghostVars>>

File == [part : {"dmesg", "analysis", "advice"}, len : 1 .. MaxLen, text : 1 .. MaxLen]

TypeOK ==
  /\ dumped \in SUBSET Crash /\ tagged \in SUBSET Crash
  /\ faults \in 0 .. MaxFaults
  /\ at \in {"stopped", "item", "dmesg", "analyse", "send", "tag"}
  /\ tools \in {"none", "dmesg", "all"}
  /\ found \in SUBSET Crash /\ previous \in SUBSET Crash /\ todo \in SUBSET Crash
  /\ at \in {"dmesg", "analyse", "send"} => item \in Crash
  /\ total \in Int
  /\ file \in File /\ cur \in 0 .. MaxLen
  /\ ok \in SUBSET Crash /\ failed \in SUBSET Crash /\ processed \in SUBSET Crash

Advice == [part |-> "advice", len |-> 1, text |-> 1]
NoItem == "no item"

Init ==
  /\ dumped = {} /\ tagged = {}
  /\ faults = 0
  /\ at = "stopped"
  /\ tools = "none"
  /\ found = {} /\ previous = {} /\ todo = {}
  /\ item = NoItem
  /\ total = 0
  /\ file = Advice /\ cur = 0
  /\ ok = {} /\ failed = {} /\ processed = {}

\* A fault is optional and counted; without it a step happens as it should.
Fault(kind) == kind \in Faults /\ faults < MaxFaults /\ faults' = faults + 1
NoFault == UNCHANGED faults

-----------------------------------------------------------------------------
(* The list of entries *)

\* Mutant of HasTag: the tag file is looked for under another name.
NeverHasTag(c) == FALSE

HasTag(c) == c \in tagged

\* find_crash_entries
CrashEntries(previously) == {c \in dumped : HasTag(c) = previously}

\* LOG_PROCESS_CRASHES up to process_new_crashes
Start ==
  /\ at = "stopped"
  /\ found' = CrashEntries(FALSE)
  /\ previous' = IF found' = {} THEN {} ELSE CrashEntries(TRUE)
  /\ tools' \in Tools
  /\ todo' = found'
  /\ total' = 0
  /\ ok' = {} /\ failed' = {}
  /\ at' = IF found' = {} THEN "stopped" ELSE "item"
  /\ UNCHANGED <<fsVars, faults, item, fileVars, processed>>

-----------------------------------------------------------------------------
(* One crash: process_crash_item *)

\* Mutant of Aggregate: the result of the last item.
LastResult(rc) == rc

\* process_new_crashes adds up what the items return.
Aggregate(rc) == total + rc

ReturnItem(rc) ==
  /\ at' = "item"
  /\ total' = Aggregate(rc)
  /\ ok' = IF rc = 0 THEN ok \cup {item} ELSE ok
  /\ failed' = IF rc = 0 THEN failed ELSE failed \cup {item}
  /\ processed' = IF rc = 0 THEN processed \cup {item} ELSE processed

NoReturn == UNCHANGED <<total, ok, failed, processed>>

\* log_buffer_contents, from the first byte.
Send(f) ==
  /\ at' = "send"
  /\ file' = f /\ cur' = 0

NoSend == UNCHANGED fileVars

\* The entries come in the order of the directory.  One that is also in the
\* list of previous crashes is passed over.
NextItem ==
  /\ at = "item"
  /\ \E c \in todo :
       /\ todo' = todo \ {c}
       /\ IF c \in previous
          THEN UNCHANGED <<at, item, fileVars>>
          ELSE /\ item' = c
               /\ IF tools = "none" THEN Send(Advice) ELSE at' = "dmesg" /\ NoSend
  /\ NoReturn
  /\ UNCHANGED <<fsVars, faults, listVars>>

\* A file that a program wrote.  A compressed one has a NUL in it, after the
\* file name in its header at the latest; text has none.
Output(f) == IF Gzip THEN f.text < f.len ELSE f.text = f.len

\* Once the kernel log is dealt with, whatever became of it.
AfterDmesg ==
  IF tools = "all" THEN at' = "analyse" /\ NoSend ELSE Send(Advice)

\* makedumpfile and gzip.  If one fails there is no file to send.
ExtractDmesg ==
  /\ at = "dmesg"
  /\ \/ NoFault /\ \E f \in File : f.part = "dmesg" /\ Output(f) /\ Send(f)
     \/ Fault("program") /\ AfterDmesg
  /\ NoReturn
  /\ UNCHANGED <<fsVars, listVars, todo, item>>

\* write_crash_input_script, crash and gzip.  What went wrong before is
\* forgotten: rc is assigned.
Analyse ==
  /\ at = "analyse"
  /\ \/ /\ NoFault
        /\ \E f \in File : f.part = "analysis" /\ Output(f) /\ Send(f)
        /\ NoReturn
     \/ Fault("script") /\ Send(Advice) /\ NoReturn
     \/ Fault("program") /\ ReturnItem(-1) /\ NoSend
  /\ UNCHANGED <<fsVars, listVars, todo, item>>

-----------------------------------------------------------------------------
(* One record: log_buffer_contents *)

\* Mutant of Remainder: any text that is left.
AnyRemainder == file.text - cur > 0

\* strlen ends at the first NUL.
Remainder == file.text - cur > MaxBlob

\* The return value is that of the last record.
AfterSend(rc) ==
  CASE file.part = "dmesg" -> AfterDmesg /\ NoReturn
    [] file.part = "analysis" -> ReturnItem(rc) /\ NoSend
    [] file.part = "advice" -> ReturnItem(1) /\ NoSend

Record(accepted) ==
  /\ at = "send"
  /\ IF accepted THEN NoFault ELSE Fault("record")
  /\ IF Remainder
     THEN /\ cur' = cur + MaxBlob
          /\ UNCHANGED <<at, file>> /\ NoReturn
     ELSE AfterSend(IF accepted THEN 0 ELSE -1)
  /\ UNCHANGED <<fsVars, listVars, todo, item>>
-----------------------------------------------------------------------------
(* The end of process_new_crashes, the tag files, and the process *)

\* Nothing is tagged if an item has failed; otherwise
\* update_previous_crash_entries goes over both lists.
EndItems ==
  /\ at = "item" /\ todo = {}
  /\ IF total = 0 THEN at' = "tag" /\ todo' = found \cup previous
                  ELSE at' = "stopped" /\ UNCHANGED todo
  /\ UNCHANGED <<fsVars, faults, listVars, item, total, fileVars, ghostVars>>

\* Mutant of TagEntry: the loop ends at the first entry that has its tag.
TagUntilTagged(c) ==
  /\ tagged' = tagged \cup {c}
  /\ todo' = IF HasTag(c) THEN {} ELSE todo \ {c}

TagEntry(c) ==
  /\ tagged' = tagged \cup {c}
  /\ todo' = todo \ {c}

Tag ==
  /\ at = "tag"
  /\ \E c \in todo :
       \/ NoFault /\ TagEntry(c)
       \/ ~HasTag(c) /\ Fault("tag") /\ todo' = todo \ {c} /\ UNCHANGED tagged
  /\ UNCHANGED <<dumped, at, listVars, item, total, fileVars, ghostVars>>

Return ==
  /\ at = "tag" /\ todo = {}
  /\ at' = "stopped"
  /\ UNCHANGED <<fsVars, faults, listVars, todo, item, total, fileVars, ghostVars>>

\* The process is killed, or the machine goes down.
Kill ==
  /\ at # "stopped"
  /\ Fault("kill")
  /\ at' = "stopped"
  /\ UNCHANGED <<fsVars, listVars, todo, item, total, fileVars, ghostVars>>

\* The kernel crashes, and the kdump kernel writes a vmcore file.
Dump ==
  /\ at = "stopped"
  /\ \E c \in Crash \ dumped : dumped' = dumped \cup {c}
  /\ UNCHANGED <<tagged, faults, at, listVars, todo, item, total, fileVars,
                 ghostVars>>

Process == \/ NextItem \/ ExtractDmesg \/ Analyse
           \/ \E accepted \in BOOLEAN : Record(accepted)
           \/ EndItems \/ Tag \/ Return

Next == Start \/ Process \/ Kill \/ Dump

Spec == Init /\ [][Next]_vars

\* The process runs on, and is started again after every stop.
Fairness == WF_vars(Process) /\ WF_vars(Start)

FairSpec == Spec /\ Fairness

-----------------------------------------------------------------------------
(* Properties *)

\* What has been tagged is never extracted or sent again, by whatever process
\* (find_crash_entries).
NeverSentAgain ==
  at \in {"dmesg", "analyse", "send"} => item \notin tagged

\* A crash is tagged only after process_crash_item has succeeded with it:
\* a failure of one is not lost in the aggregate (process_new_crashes) or to
\* a kill.  It takes that the items of a process do not fail in opposite
\* ways: see AggregateShowsFailure.
TaggedWasProcessed == tagged \subseteq processed

\* A crash is never lost: once the programs are installed for good it is
\* processed and tagged in the end, over kills and failures
\* (LOG_PROCESS_CRASHES, find_crash_entries).
EventuallyTagged ==
  <>[](tools = "all") => \A c \in Crash : c \in dumped ~> c \in tagged

\* "0 on success, 1 or more on failure (errors from process_crash_item
\* aggregate" (process_new_crashes).
AggregateShowsFailure == at = "tag" => failed = {}

-----------------------------------------------------------------------------
(***************************************************************************)
(* Why the first two hold: CrashLogProofs.                                 *)
(***************************************************************************)
Running == at \in {"item", "dmesg", "analyse", "send"}
InItem == at \in {"dmesg", "analyse", "send"}

\* The lists that a process works from stay true while it sends.
ListsHold ==
  /\ Running => /\ found \cap tagged = {}
                /\ previous \subseteq tagged
                /\ todo \subseteq found
  /\ InItem => item \in found

\* Which part is sent depends on what is installed, if the script can be
\* written.  So all items of a process fail in the same way, and
\* the aggregate cannot come out as zero.
PartFitsTools ==
  /\ at = "analyse" => tools = "all"
  /\ at = "send" => /\ file.part = "analysis" => tools = "all"
                    /\ file.part = "advice" => tools # "all"

FailuresAddUp ==
  Running => IF tools = "all" THEN total <= 0 /\ (failed # {} => total < 0)
                              ELSE total >= 0 /\ (failed # {} => total > 0)

\* Every entry found is still to come, in work, or finished.
EveryItemEnds ==
  /\ ok \subseteq processed
  /\ at = "item" => found \subseteq todo \cup ok \cup failed
  /\ InItem => found \subseteq todo \cup ok \cup failed \cup {item}

TagsAreEarned == at = "tag" => todo \subseteq processed

IInv == /\ ListsHold
        /\ PartFitsTools
        /\ FailuresAddUp
        /\ EveryItemEnds
        /\ TagsAreEarned
        /\ TaggedWasProcessed
=============================================================================
