--------------------------- MODULE CrashLogProofs ---------------------------
(***************************************************************************)
(* Proofs about CrashLog, for any crash directories, file lengths and      *)
(* faults.                                                                 *)
(***************************************************************************)
EXTENDS CrashLog, TLAPS

USE CrashAssumption

-----------------------------------------------------------------------------
(* Types *)

LEMMA SendType ==
  ASSUME NEW f \in File, Send(f)
  PROVE  /\ at' = "send" /\ file' \in File /\ cur' \in 0 .. MaxLen
  BY DEF Send

LEMMA AdviceType == Advice \in File
  BY DEF Advice, File

LEMMA NoSendType ==
  ASSUME TypeOK, NoSend
  PROVE  /\ file' \in File /\ cur' \in 0 .. MaxLen
  BY DEF TypeOK, NoSend, fileVars

LEMMA FaultType ==
  ASSUME TypeOK, NEW kind, Fault(kind) \/ NoFault
  PROVE  faults' \in 0 .. MaxFaults
  BY DEF TypeOK, Fault, NoFault

LEMMA AfterDmesgType ==
  ASSUME TypeOK, AfterDmesg
  PROVE  /\ at' \in {"analyse", "send"}
         /\ file' \in File /\ cur' \in 0 .. MaxLen
  BY NoSendType, SendType, AdviceType DEF AfterDmesg

LEMMA ReturnItemType ==
  ASSUME TypeOK, item \in Crash, NEW rc \in Int, ReturnItem(rc)
  PROVE  /\ at' = "item" /\ total' \in Int
         /\ ok' \in SUBSET Crash /\ failed' \in SUBSET Crash
         /\ processed' \in SUBSET Crash
  BY DEF TypeOK, ReturnItem, Aggregate

LEMMA NoReturnType ==
  ASSUME TypeOK, NoReturn
  PROVE  /\ total' \in Int
         /\ ok' \in SUBSET Crash /\ failed' \in SUBSET Crash
         /\ processed' \in SUBSET Crash
  BY DEF TypeOK, NoReturn

\* What has been passed over lies within the file.
LEMMA ChunkType ==
  ASSUME TypeOK
  PROVE  Remainder => cur + MaxBlob \in 0 .. MaxLen
  BY DEF TypeOK, File, Remainder

LEMMA InitType == Init => TypeOK
  BY AdviceType DEF Init, TypeOK

LEMMA StepType == TypeOK /\ [Next]_vars => TypeOK'
<1> SUFFICES ASSUME TypeOK, [Next]_vars PROVE TypeOK'
  OBVIOUS
<1>1. CASE Start
  BY <1>1 DEF Start, TypeOK, CrashEntries, fsVars, fileVars
<1>2. CASE NextItem
  <2> PICK c \in todo :
       /\ todo' = todo \ {c}
       /\ IF c \in previous
          THEN UNCHANGED <<at, item, fileVars>>
          ELSE /\ item' = c
               /\ IF tools = "none" THEN Send(Advice) ELSE at' = "dmesg" /\ NoSend
    BY <1>2 DEF NextItem
  <2>1. /\ total' \in Int /\ ok' \in SUBSET Crash /\ failed' \in SUBSET Crash
        /\ processed' \in SUBSET Crash
    BY <1>2, NoReturnType DEF NextItem
  <2>2. c \in Crash /\ todo' \in SUBSET Crash
    BY DEF TypeOK
  <2>3. /\ at' \in {"item", "dmesg", "send"}
        /\ at' # "item" => item' \in Crash
        /\ file' \in File /\ cur' \in 0 .. MaxLen
    <3>1. CASE c \in previous
      BY <1>2, <3>1 DEF NextItem, TypeOK, fileVars
    <3>2. CASE c \notin previous /\ tools = "none"
      BY <2>2, <3>2, SendType, AdviceType
    <3>3. CASE c \notin previous /\ tools # "none"
      BY <2>2, <3>3, NoSendType
    <3>4. QED
      BY <3>1, <3>2, <3>3
  <2>4. QED
    BY <1>2, <2>1, <2>2, <2>3 DEF NextItem, TypeOK, fsVars, listVars
<1>3. CASE ExtractDmesg
  <2>1. /\ at' \in {"analyse", "send"}
        /\ file' \in File /\ cur' \in 0 .. MaxLen
    BY <1>3, SendType, AfterDmesgType DEF ExtractDmesg
  <2>2. item \in Crash
    BY <1>3 DEF ExtractDmesg, TypeOK
  <2>3. QED
    BY <1>3, <2>1, <2>2, NoReturnType, FaultType DEF ExtractDmesg, TypeOK, fsVars, listVars
<1>4. CASE Analyse
  <2>1. item \in Crash 
    BY <1>4 DEF Analyse, TypeOK
  <2>2. /\ at' \in {"item", "send"}
        /\ file' \in File /\ cur' \in 0 .. MaxLen
    BY <1>4, <2>1, SendType, NoSendType, AdviceType DEF Analyse, ReturnItem
  <2>3. /\ total' \in Int /\ ok' \in SUBSET Crash /\ failed' \in SUBSET Crash
        /\ processed' \in SUBSET Crash
    BY <1>4, <2>1, NoReturnType, ReturnItemType DEF Analyse
  <2>4. faults' \in 0 .. MaxFaults
    BY <1>4, FaultType DEF Analyse
  <2>5. QED
    BY <1>4, <2>1, <2>2, <2>3, <2>4 DEF Analyse, TypeOK, fsVars, listVars
<1>5. ASSUME NEW accepted \in BOOLEAN, Record(accepted) PROVE TypeOK'
  <2>1. item \in Crash 
    BY <1>5 DEF Record, TypeOK
  <2>2. faults' \in 0 .. MaxFaults
    BY <1>5, FaultType DEF Record
  <2>3. CASE Remainder
    <3>1. at' = "send" /\ file' \in File /\ NoReturn
      BY <1>5, <2>3 DEF Record, TypeOK
    <3>2. cur' \in 0 .. MaxLen
      BY <1>5, <2>3, ChunkType DEF Record, TypeOK
    <3>3. QED
      BY <1>5, <2>1, <2>2, <3>1, <3>2, NoReturnType DEF Record, TypeOK, fsVars, listVars
  <2>4. CASE ~Remainder
    <3>1. PICK rc \in {0, -1} : AfterSend(rc)
      BY <1>5, <2>4 DEF Record
    <3>2. /\ at' \in {"item", "analyse", "send"}
          /\ file' \in File /\ cur' \in 0 .. MaxLen
          /\ total' \in Int /\ ok' \in SUBSET Crash /\ failed' \in SUBSET Crash
          /\ processed' \in SUBSET Crash
      <4>1. file.part \in {"dmesg", "analysis", "advice"}
        BY DEF TypeOK, File
      <4>2. CASE file.part = "dmesg"
        BY <3>1, <4>2, AfterDmesgType, NoReturnType DEF AfterSend
      <4>3. CASE file.part = "analysis"
        BY <2>1, <3>1, <4>3, NoSendType, ReturnItemType DEF AfterSend
      <4>4. CASE file.part = "advice"
        BY <2>1, <3>1, <4>4, NoSendType, ReturnItemType DEF AfterSend
      <4>5. QED
        BY <4>1, <4>2, <4>3, <4>4
    <3>3. QED
      BY <1>5, <2>1, <2>2, <3>2 DEF Record, TypeOK, fsVars, listVars
  <2>5. QED
    BY <2>3, <2>4
<1>6. CASE EndItems
  BY <1>6 DEF EndItems, TypeOK, fsVars, listVars, fileVars, ghostVars
<1>7. CASE Tag
  <2>1. /\ todo' \in SUBSET Crash /\ tagged' \in SUBSET Crash
        /\ faults' \in 0 .. MaxFaults
    BY <1>7, FaultType DEF Tag, TagEntry, TypeOK
  <2>2. QED
    BY <1>7, <2>1 DEF Tag, TypeOK, listVars, fileVars, ghostVars
<1>8. CASE Return
  BY <1>8 DEF Return, TypeOK, fsVars, listVars, fileVars, ghostVars
<1>9. CASE Kill
  <2>1. faults' \in 0 .. MaxFaults
    BY <1>9, FaultType DEF Kill
  <2>2. QED
    BY <1>9, <2>1 DEF Kill, TypeOK, fsVars, listVars, fileVars, ghostVars
<1>10. CASE Dump
  BY <1>10 DEF Dump, TypeOK, listVars, fileVars, ghostVars
<1>11. CASE UNCHANGED vars
  BY <1>11 DEF vars, TypeOK, fsVars, listVars, fileVars, ghostVars
<1>12. QED
  BY <1>1, <1>2, <1>3, <1>4, <1>5, <1>6, <1>7, <1>8, <1>9, <1>10, <1>11 DEF Next, Process

\* Every variable keeps its type, whatever fails.
THEOREM CrashTypeCorrect == Spec => []TypeOK
  BY InitType, StepType, PTL DEF Spec

-----------------------------------------------------------------------------
(* What is in the lists: no assumption on what fails. *)

\* Nothing but Tag writes a tag file, and nothing but Start lists them.
LEMMA ListsStay ==
  ASSUME ListsHold, Running, UNCHANGED <<tagged, listVars, todo>>,
         InItem' => InItem /\ item' = item
  PROVE  ListsHold'
  BY DEF ListsHold, Running, InItem, listVars

LEMMA InitLists == Init => ListsHold
  BY DEF Init, ListsHold, Running, InItem

LEMMA StepLists == TypeOK /\ ListsHold /\ [Next]_vars => ListsHold'
<1> SUFFICES ASSUME TypeOK, ListsHold, [Next]_vars PROVE ListsHold'
  OBVIOUS
<1>1. CASE Start
  BY <1>1 DEF Start, ListsHold, Running, InItem, CrashEntries, HasTag, fsVars
<1>2. CASE NextItem
  <2> PICK c \in todo :
       /\ todo' = todo \ {c}
       /\ IF c \in previous
          THEN UNCHANGED <<at, item, fileVars>>
          ELSE /\ item' = c
               /\ IF tools = "none" THEN Send(Advice) ELSE at' = "dmesg" /\ NoSend
    BY <1>2 DEF NextItem
  <2>1. at = "item" /\ UNCHANGED <<found, previous, tagged>>
    BY <1>2 DEF NextItem, fsVars, listVars
  <2>2. c \in found /\ todo' \subseteq found'
    BY <2>1 DEF ListsHold, Running
  <2>3. InItem' => item' = c
    BY <2>1 DEF InItem
  <2>4. QED
    BY <2>1, <2>2, <2>3 DEF ListsHold, Running, InItem
<1>3. CASE ExtractDmesg
  BY <1>3, ListsStay DEF ExtractDmesg, Running, InItem, fsVars
<1>4. CASE Analyse
  BY <1>4, ListsStay DEF Analyse, Running, InItem, fsVars
<1>5. ASSUME NEW accepted \in BOOLEAN, Record(accepted) PROVE ListsHold'
  BY <1>5, ListsStay DEF Record, Running, InItem, fsVars
<1>6. CASE EndItems
  BY <1>6 DEF EndItems, ListsHold, Running, InItem
<1>7. CASE Tag
  BY <1>7 DEF Tag, ListsHold, Running, InItem
<1>8. CASE Return
  BY <1>8 DEF Return, ListsHold, Running, InItem
<1>9. CASE Kill
  BY <1>9 DEF Kill, ListsHold, Running, InItem
<1>10. CASE Dump
  BY <1>10 DEF Dump, ListsHold, Running, InItem
<1>11. CASE UNCHANGED vars
  BY <1>11 DEF vars, fsVars, listVars, ListsHold, Running, InItem
<1>12. QED
  BY <1>1, <1>2, <1>3, <1>4, <1>5, <1>6, <1>7, <1>8, <1>9, <1>10, <1>11 DEF Next, Process

\* A crash that has its tag file is never extracted or sent again, by this
\* process or a later one, whatever fails and whenever a process is killed.
THEOREM NeverSentTwice == Spec => []NeverSentAgain
<1>1. ListsHold => NeverSentAgain
  BY DEF ListsHold, NeverSentAgain, Running, InItem
<1>2. QED
  BY <1>1, InitLists, StepLists, CrashTypeCorrect, PTL DEF Spec

-----------------------------------------------------------------------------
(* What a tag means, where the script can always be written. *)

NoScript == "script" \notin Faults

LEMMA StepParts ==
  ASSUME NoScript, TypeOK, PartFitsTools, [Next]_vars PROVE PartFitsTools'
<1>1. CASE Start
  BY <1>1 DEF Start, PartFitsTools
<1>2. CASE NextItem
  BY <1>2 DEF NextItem, PartFitsTools, listVars, Send, Advice
<1>3. CASE ExtractDmesg
  BY <1>3 DEF ExtractDmesg, AfterDmesg, PartFitsTools, listVars, Send, Advice
<1>4. CASE Analyse
  <2>1. ~Fault("script")
    BY DEF Fault, NoScript
  <2>2. tools = "all" /\ tools' = tools
    BY <1>4 DEF Analyse, PartFitsTools, listVars
  <2>3. QED
    BY <1>4, <2>1, <2>2 DEF Analyse, PartFitsTools, Send, ReturnItem
<1>5. ASSUME NEW accepted \in BOOLEAN, Record(accepted) PROVE PartFitsTools'
  <2>1. tools' = tools /\ at = "send"
    BY <1>5 DEF Record, listVars
  <2>2. CASE Remainder
    BY <1>5, <2>1, <2>2 DEF Record, PartFitsTools
  <2>3. CASE ~Remainder
    <3>1. PICK rc \in {0, -1} : AfterSend(rc)
      BY <1>5, <2>3 DEF Record
    <3>2. file.part \in {"dmesg", "analysis", "advice"}
      BY DEF TypeOK, File
    <3>3. CASE file.part = "dmesg"
      BY <2>1, <3>1, <3>3 DEF AfterSend, AfterDmesg, PartFitsTools, Send, Advice
    <3>4. CASE file.part # "dmesg"
      BY <3>1, <3>2, <3>4 DEF AfterSend, ReturnItem, PartFitsTools
    <3>5. QED
      BY <3>3, <3>4
  <2>4. QED
    BY <2>2, <2>3
<1>6. CASE EndItems
  BY <1>6 DEF EndItems, PartFitsTools
<1>7. CASE Tag
  BY <1>7 DEF Tag, PartFitsTools
<1>8. CASE Return
  BY <1>8 DEF Return, PartFitsTools
<1>9. CASE Kill
  BY <1>9 DEF Kill, PartFitsTools
<1>10. CASE Dump
  BY <1>10 DEF Dump, PartFitsTools
<1>11. CASE UNCHANGED vars
  BY <1>11 DEF vars, listVars, fileVars, PartFitsTools
<1>12. QED
  BY <1>1, <1>2, <1>3, <1>4, <1>5, <1>6, <1>7, <1>8, <1>9, <1>10, <1>11 DEF Next, Process

\* An item returns, and its result has the sign of its process.
LEMMA ReturnAddsUp ==
  ASSUME TypeOK, FailuresAddUp, EveryItemEnds, InItem,
         NEW rc \in {0, -1, 1}, rc = 1 => tools # "all", rc = -1 => tools = "all",
         ReturnItem(rc), tools' = tools, UNCHANGED <<found, todo>>
  PROVE  FailuresAddUp' /\ EveryItemEnds'
<1>1. at' = "item" /\ total' = total + rc /\ total \in Int
  BY DEF ReturnItem, Aggregate, TypeOK
<1>2. FailuresAddUp'
  <2>1. rc = 0 => failed' = failed
    BY DEF ReturnItem
  <2>2. QED
    BY <1>1, <2>1 DEF FailuresAddUp, Running, InItem
<1>3. EveryItemEnds'
  BY <1>1 DEF EveryItemEnds, InItem, ReturnItem
<1>4. QED
  BY <1>2, <1>3

\* Nothing returns, and the process stays in the item.
LEMMA NoReturnAddsUp ==
  ASSUME FailuresAddUp, EveryItemEnds, InItem, NoReturn, InItem',
         UNCHANGED <<tools, found, todo, item>>
  PROVE  FailuresAddUp' /\ EveryItemEnds'
  BY DEF FailuresAddUp, EveryItemEnds, Running, InItem, NoReturn

LEMMA StepSums ==
  ASSUME NoScript, TypeOK, ListsHold, PartFitsTools, FailuresAddUp, EveryItemEnds,
         [Next]_vars
  PROVE  FailuresAddUp' /\ EveryItemEnds'
<1>1. CASE Start
  BY <1>1 DEF Start, FailuresAddUp, EveryItemEnds, Running, InItem
<1>2. CASE NextItem
  <2> PICK c \in todo :
       /\ todo' = todo \ {c}
       /\ IF c \in previous
          THEN UNCHANGED <<at, item, fileVars>>
          ELSE /\ item' = c
               /\ IF tools = "none" THEN Send(Advice) ELSE at' = "dmesg" /\ NoSend
    BY <1>2 DEF NextItem
  <2>1. at = "item" /\ UNCHANGED <<tools, found, total, ok, failed, processed>>
    BY <1>2 DEF NextItem, listVars, NoReturn
  <2>2. c \notin previous
    BY <2>1 DEF ListsHold, Running
  <2>3. InItem' /\ item' = c
    BY <2>2 DEF InItem, Send
  <2>4. FailuresAddUp'
    BY <2>1, <2>3 DEF FailuresAddUp, Running, InItem
  <2>5. EveryItemEnds'
    BY <2>1, <2>3 DEF EveryItemEnds, InItem
  <2>6. QED
    BY <2>4, <2>5
<1>3. CASE ExtractDmesg
  BY <1>3, NoReturnAddsUp DEF ExtractDmesg, AfterDmesg, Send, InItem, listVars
<1>4. CASE Analyse
  <2>1. ~Fault("script") /\ InItem /\ tools = "all"
    BY <1>4 DEF Fault, NoScript, Analyse, InItem, PartFitsTools
  <2>2. UNCHANGED <<tools, found, todo, item>>
    BY <1>4 DEF Analyse, listVars
  <2>3. CASE NoReturn /\ at' = "send"
    BY <2>1, <2>2, <2>3, NoReturnAddsUp DEF InItem
  <2>4. CASE ReturnItem(-1)
    BY <2>1, <2>2, <2>4, ReturnAddsUp
  <2>5. QED
    BY <1>4, <2>1, <2>3, <2>4 DEF Analyse, Send
<1>5. ASSUME NEW accepted \in BOOLEAN, Record(accepted)
      PROVE  FailuresAddUp' /\ EveryItemEnds'
  <2>1. InItem /\ at = "send" /\ UNCHANGED <<tools, found, todo, item>>
    BY <1>5 DEF Record, InItem, listVars
  <2>2. CASE Remainder
    BY <1>5, <2>1, <2>2, NoReturnAddsUp DEF Record, InItem
  <2>3. CASE ~Remainder
    <3>1. PICK rc \in {0, -1} : AfterSend(rc)
      BY <1>5, <2>3 DEF Record
    <3>2. file.part \in {"dmesg", "analysis", "advice"}
      BY DEF TypeOK, File
    <3>3. CASE file.part = "dmesg"
      BY <2>1, <3>1, <3>3, NoReturnAddsUp DEF AfterSend, AfterDmesg, Send, InItem
    <3>4. CASE file.part = "analysis"
      <4>1. tools = "all" /\ ReturnItem(rc)
        BY <2>1, <3>1, <3>4 DEF AfterSend, PartFitsTools
      <4>2. QED
        BY <2>1, <4>1, ReturnAddsUp
    <3>5. CASE file.part = "advice"
      <4>1. tools # "all" /\ ReturnItem(1)
        BY <2>1, <3>1, <3>5 DEF AfterSend, PartFitsTools
      <4>2. QED
        BY <2>1, <4>1, ReturnAddsUp
    <3>6. QED
      BY <3>2, <3>3, <3>4, <3>5
  <2>4. QED
    BY <2>2, <2>3
<1>6. CASE EndItems
  BY <1>6 DEF EndItems, FailuresAddUp, EveryItemEnds, Running, InItem, ghostVars
<1>7. CASE Tag
  BY <1>7 DEF Tag, FailuresAddUp, EveryItemEnds, Running, InItem, ghostVars
<1>8. CASE Return
  BY <1>8 DEF Return, FailuresAddUp, EveryItemEnds, Running, InItem, ghostVars
<1>9. CASE Kill
  BY <1>9 DEF Kill, FailuresAddUp, EveryItemEnds, Running, InItem, ghostVars
<1>10. CASE Dump
  BY <1>10 DEF Dump, FailuresAddUp, EveryItemEnds, Running, InItem, ghostVars
<1>11. CASE UNCHANGED vars
  BY <1>11 DEF vars, listVars, ghostVars, FailuresAddUp, EveryItemEnds, Running, InItem
<1>12. QED
  BY <1>1, <1>2, <1>3, <1>4, <1>5, <1>6, <1>7, <1>8, <1>9, <1>10, <1>11 DEF Next, Process

LEMMA ProcessedGrows == TypeOK /\ [Next]_vars => processed \subseteq processed'
<1> SUFFICES ASSUME TypeOK, [Next]_vars PROVE processed \subseteq processed'
  OBVIOUS
<1>1. CASE Analyse
  BY <1>1 DEF Analyse, NoReturn, ReturnItem
<1>2. ASSUME NEW accepted \in BOOLEAN, Record(accepted) PROVE processed \subseteq processed'
  <2>1. file.part \in {"dmesg", "analysis", "advice"}
    BY DEF TypeOK, File
  <2>2. QED
    BY <1>2, <2>1 DEF Record, AfterSend, NoReturn, ReturnItem
<1>3. CASE Start \/ NextItem \/ ExtractDmesg
  BY <1>3 DEF Start, NextItem, ExtractDmesg, NoReturn
<1>4. CASE EndItems \/ Tag \/ Return \/ Kill \/ Dump
  BY <1>4 DEF EndItems, Tag, Return, Kill, Dump, ghostVars
<1>5. CASE UNCHANGED vars
  BY <1>5 DEF vars, ghostVars
<1>6. QED
  BY <1>1, <1>2, <1>3, <1>4, <1>5 DEF Next, Process

LEMMA StepTags ==
  ASSUME TypeOK, ListsHold, FailuresAddUp, EveryItemEnds, TagsAreEarned,
         TaggedWasProcessed, [Next]_vars
  PROVE  TagsAreEarned' /\ TaggedWasProcessed'
<1>1. processed \subseteq processed'
  BY ProcessedGrows
<1>2. CASE EndItems
  <2>1. UNCHANGED <<tagged, processed>> /\ at = "item" /\ todo = {}
    BY <1>2 DEF EndItems, fsVars, ghostVars
  <2>2. at' = "tag" => todo' \subseteq processed
    <3> SUFFICES ASSUME at' = "tag" PROVE todo' \subseteq processed
      OBVIOUS
    <3>1. total = 0 /\ todo' = found \cup previous
      BY <1>2 DEF EndItems
    <3>2. failed = {}
      BY <2>1, <3>1 DEF FailuresAddUp, Running
    <3>3. found \subseteq processed
      BY <2>1, <3>2 DEF EveryItemEnds
    <3>4. previous \subseteq processed
      BY <2>1 DEF ListsHold, Running, TaggedWasProcessed
    <3>5. QED
      BY <3>1, <3>3, <3>4
  <2>3. QED
    BY <2>1, <2>2 DEF TagsAreEarned, TaggedWasProcessed
<1>3. CASE Tag
  <2>1. PICK c \in todo : todo' = todo \ {c} /\ tagged' \subseteq tagged \cup {c}
    BY <1>3 DEF Tag, TagEntry
  <2>2. todo \subseteq processed
    BY <1>3 DEF Tag, TagsAreEarned
  <2>3. QED
    BY <1>1, <2>1, <2>2 DEF TagsAreEarned, TaggedWasProcessed
<1>4. CASE at' # "tag" /\ tagged' = tagged
  BY <1>1, <1>4 DEF TagsAreEarned, TaggedWasProcessed
<1>5. CASE Start \/ NextItem \/ ExtractDmesg \/ Analyse
  BY <1>4, <1>5 DEF Start, NextItem, ExtractDmesg, AfterDmesg, Analyse, Send,
                    ReturnItem, fsVars
<1>6. ASSUME NEW accepted \in BOOLEAN, Record(accepted)
      PROVE  at' # "tag" /\ tagged' = tagged
  <2>1. file.part \in {"dmesg", "analysis", "advice"}
    BY DEF TypeOK, File
  <2>2. QED
    BY <1>6, <2>1 DEF Record, AfterSend, AfterDmesg, Send, ReturnItem, fsVars
<1>7. CASE Return \/ Kill
  BY <1>4, <1>7 DEF Return, Kill, fsVars
<1>8. CASE Dump
  BY <1>4, <1>8 DEF Dump
<1>9. CASE UNCHANGED vars
  BY <1>9 DEF vars, fsVars, ghostVars, TagsAreEarned, TaggedWasProcessed
<1>10. QED
  BY <1>2, <1>3, <1>4, <1>5, <1>6, <1>7, <1>8, <1>9 DEF Next, Process

\* A tag file is never made for a crash that has not been processed: where
\* the script can be written, all items of one process fail with results of
\* one sign, so that their sum is zero only if none failed.
THEOREM TaggedWasAlwaysProcessed == ASSUME NoScript PROVE Spec => []TaggedWasProcessed
<1>1. Init => IInv
  BY InitLists DEF Init, IInv, PartFitsTools, FailuresAddUp, EveryItemEnds,
                   TagsAreEarned, TaggedWasProcessed, Running, InItem
<1>2. TypeOK /\ IInv /\ [Next]_vars => IInv'
  BY StepLists, StepParts, StepSums, StepTags DEF IInv
<1>3. IInv => TaggedWasProcessed
  BY DEF IInv
<1>4. QED
  BY <1>1, <1>2, <1>3, CrashTypeCorrect, PTL DEF Spec
=============================================================================
