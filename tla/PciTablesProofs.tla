--------------------------- MODULE PciTablesProofs --------------------------
(***************************************************************************)
(* The tables of PCI slots and functions: types, what is shown of a card   *)
(* that is there or gone, and which function can be without a node.        *)
(***************************************************************************)
EXTENDS PciTables, TLAPS

-----------------------------------------------------------------------------
(* Sequences *)

LEMMA AppendIs ==
  ASSUME NEW S, NEW q \in Seq(S), NEW e \in S
  PROVE  /\ Append(q, e) \in Seq(S) /\ Len(Append(q, e)) = Len(q) + 1
         /\ DOMAIN q = 1 .. Len(q) /\ DOMAIN Append(q, e) = 1 .. (Len(q) + 1)
         /\ Len(q) \in Nat
         /\ \A i \in 1 .. Len(q) : Append(q, e)[i] = q[i]
         /\ Append(q, e)[Len(q) + 1] = e
OBVIOUS

LEMMA TailIs ==
  ASSUME NEW S, NEW q \in Seq(S), q # <<>>
  PROVE  /\ Tail(q) \in Seq(S) /\ Len(Tail(q)) = Len(q) - 1
         /\ DOMAIN q = 1 .. Len(q) /\ DOMAIN Tail(q) = 1 .. (Len(q) - 1)
         /\ Len(q) \in Nat \ {0}
         /\ \A i \in 1 .. (Len(q) - 1) : Tail(q)[i] = q[i + 1]
         /\ Head(q) = q[1] /\ Head(q) \in S
OBVIOUS

\* What is left to go to, after the first.
LEMMA RangeTail ==
  ASSUME NEW S, NEW q \in Seq(S), q # <<>>
  PROVE  /\ \A x : x \in Range(q) <=> x = Head(q) \/ x \in Range(Tail(q))
         /\ Len(q) = 1 <=> Tail(q) = <<>>
<1>1. /\ DOMAIN q = 1 .. Len(q) /\ DOMAIN Tail(q) = 1 .. (Len(q) - 1)
      /\ Len(q) \in Nat \ {0} /\ Head(q) = q[1]
      /\ \A i \in 1 .. (Len(q) - 1) : Tail(q)[i] = q[i + 1]
  BY TailIs
<1>2. ASSUME NEW x \in Range(q) PROVE x = Head(q) \/ x \in Range(Tail(q))
  <2>1. PICK i \in 1 .. Len(q) : q[i] = x
    BY <1>1, <1>2 DEF Range
  <2>2. CASE i = 1
    BY <1>1, <2>1, <2>2
  <2>3. CASE i # 1
    <3>1. i - 1 \in 1 .. (Len(q) - 1) /\ (i - 1) + 1 = i
      BY <1>1, <2>3
    <3>2. Tail(q)[i - 1] = x
      BY <1>1, <2>1, <3>1
    <3> QED BY <1>1, <3>1, <3>2 DEF Range
  <2> QED BY <2>2, <2>3
<1>3. Head(q) \in Range(q)
  <2>1. 1 \in DOMAIN q
    BY <1>1
  <2> QED BY <1>1, <2>1 DEF Range
<1>4. ASSUME NEW x \in Range(Tail(q)) PROVE x \in Range(q)
  <2>1. PICK i \in 1 .. (Len(q) - 1) : Tail(q)[i] = x
    BY <1>1, <1>4 DEF Range
  <2>2. i + 1 \in DOMAIN q /\ q[i + 1] = x
    BY <1>1, <2>1
  <2> QED BY <2>2 DEF Range
<1>5. Len(q) = 1 <=> Tail(q) = <<>>
  <2>1. \A s \in Seq(S) : Len(s) = 0 <=> s = <<>>
    OBVIOUS
  <2>2. Tail(q) \in Seq(S) /\ Len(Tail(q)) = Len(q) - 1 /\ Len(q) \in Nat
    BY TailIs
  <2>3. Len(Tail(q)) = 0 <=> Tail(q) = <<>>
    BY <2>1, <2>2
  <2>4. Len(q) = 1 <=> Len(Tail(q)) = 0
    BY <2>2
  <2> QED BY <2>3, <2>4
<1> QED BY <1>2, <1>3, <1>4, <1>5

LEMMA RangeOfNone == Range(<<>>) = {}
BY DEF Range

-----------------------------------------------------------------------------
(* Functions and events *)

LEMMA Numbers == Bridge = -1 /\ Blank = -2 /\ NoFn = -3
BY DEF Bridge, Blank, NoFn

LEMMA FnIs ==
  /\ 0 \in CardFn /\ 0 \notin RootFn /\ RootFn \subseteq Fn /\ CardFn \subseteq Fn
  /\ Fn \subseteq Nat /\ NoFn \notin Fn /\ Bridge \notin Fn /\ Blank \notin Fn
  /\ \A f \in CardFn : 0 <= f /\ (f # 0 => 0 \in 0 .. (f - 1))
  /\ CardFn \subseteq Behind /\ Behind \subseteq Fn /\ Cards \subseteq Behind
  /\ \A f \in Fn : f \in Behind <=> f \notin RootFn
<1>1. /\ 0 \in CardFn /\ RootFn \subseteq Nat /\ CardFn \subseteq Nat /\ SiblingFn \subseteq Nat
      /\ RootFn \cap (CardFn \cup SiblingFn) = {}
  BY PciAssumption
<1>2. Fn \subseteq Nat
  BY <1>1 DEF Fn, Behind
<1>3. CardFn \subseteq Behind /\ Behind \subseteq Fn /\ Cards \subseteq Behind
  BY <1>1 DEF Fn, Behind, Cards
<1>4. \A f \in Fn : f \in Behind <=> f \notin RootFn
  BY <1>1 DEF Fn, Behind
<1> QED BY <1>1, <1>2, <1>3, <1>4, Numbers DEF Fn

\* Each function behind a port is of one card.
LEMMA DeviceIs ==
  /\ \A d \in Cards : d \in Device(d) /\ Device(d) \subseteq Behind /\ d \in Fn /\ d \in Slot
  /\ \A f \in Behind : /\ Zero(f) \in Cards /\ f \in Device(Zero(f))
                       /\ \A d \in Cards : f \in Device(d) => Zero(f) = d
  /\ \A d, e \in Cards : d \in Device(e) => d = e
  /\ Device(0) = CardFn /\ 0 \in Cards /\ \A d \in Cards : d # 0 => Device(d) = {d}
<1>1. /\ 0 \in CardFn /\ CardFn \subseteq Nat /\ SiblingFn \subseteq Nat
      /\ CardFn \cap SiblingFn = {}
  BY PciAssumption
<1>2. Device(0) = CardFn /\ 0 \in Cards /\ \A d \in Cards : d # 0 => Device(d) = {d}
  BY DEF Device, Cards
<1>3. \A d \in Cards : d \in Device(d) /\ Device(d) \subseteq Behind
  BY <1>1, <1>2 DEF Cards, Behind
<1>4. \A d \in Cards : d \in Fn /\ d \in Slot
  BY FnIs DEF Slot
<1>5. \A d, e \in Cards : d \in Device(e) => d = e
  BY <1>1, <1>2 DEF Cards
<1>6. ASSUME NEW f \in Behind
      PROVE  /\ Zero(f) \in Cards /\ f \in Device(Zero(f))
             /\ \A d \in Cards : f \in Device(d) => Zero(f) = d
  <2>1. CASE f \in CardFn
    <3>1. Zero(f) = 0 /\ f \notin SiblingFn
      BY <1>1, <2>1 DEF Zero
    <3> QED BY <1>2, <2>1, <3>1 DEF Cards
  <2>2. CASE f \notin CardFn
    <3>1. Zero(f) = f /\ f \in SiblingFn /\ f # 0
      BY <1>1, <2>2 DEF Zero, Behind
    <3> QED BY <1>2, <2>2, <3>1 DEF Cards
  <2> QED BY <2>1, <2>2
<1> QED BY <1>2, <1>3, <1>4, <1>5, <1>6

Event == [action : {"add", "remove"}, fn : Fn]

LEMMA EventIs ==
  /\ \A e \in Event : e.action \in {"add", "remove"} /\ e.fn \in Fn /\ e # NoEvent
  /\ \A a \in {"add", "remove"}, f \in Fn :
       /\ [action |-> a, fn |-> f] \in Event
       /\ [action |-> a, fn |-> f].action = a /\ [action |-> a, fn |-> f].fn = f
  /\ NoEvent.action = "none" /\ NoEvent.fn = NoFn /\ NoFn \notin Fn
BY FnIs DEF Event, NoEvent

LEMMA ZeroIs ==
  ASSUME NEW f \in Fn
  PROVE  /\ Zero(f) \in Slot
         /\ f \in Behind => Zero(f) \in Cards
         /\ f \notin Behind => Zero(f) = f /\ f \notin Cards
<1>1. CASE f \in Behind
  BY <1>1, DeviceIs DEF Slot
<1>2. CASE f \notin Behind
  <2>1. f \notin CardFn /\ f \notin Cards
    BY <1>2, FnIs
  <2>2. f \in RootFn
    BY <1>2 DEF Fn
  <2> QED BY <1>2, <2>1, <2>2 DEF Zero, Slot
<1> QED BY <1>1, <1>2

Board == {"none", "(Empty)", "shown"}
Table == {"slot", "funct"}

LEMMA TypeIs ==
  TypeOK <=> /\ present \in SUBSET Fn /\ missed \in SUBSET Fn /\ hasty \in SUBSET Fn
             /\ changes \in 0 .. MaxChanges
             /\ chain \in SUBSET (Fn \cup {Bridge}) /\ sub \in SUBSET (Behind \cup {Blank})
             /\ own \in SUBSET SiblingFn /\ replaced \in SUBSET Cards
             /\ slots \in [Slot -> Board]
             /\ functs \in SUBSET Fn
             /\ udev_cb \in Seq(Table) /\ calling \in Seq(Table)
             /\ Len(udev_cb) <= MaxCallbacks /\ Len(queue) <= MaxQueue
             /\ queue \in Seq(Event)
             /\ event \in Event \cup {NoEvent}
             /\ crashed \in Fn \cup {NoFn}
BY DEF TypeOK, Board, Table, Event

-----------------------------------------------------------------------------
(* What a step does *)

\* The machine changes, and an event tells of it or is lost.
LEMMA ChangeIs ==
  ASSUME TypeOK, NEW f \in Fn, Plug(f) \/ Unplug(f)
  PROVE  /\ Running /\ changes' \in 0 .. MaxChanges
         /\ UNCHANGED <<treeVars, rowVars, udev_cb, event, calling, crashed>>
         /\ present' \in SUBSET Fn /\ missed' \in SUBSET Fn /\ hasty' \in SUBSET Fn
         /\ \A g \in Fn : g # f => /\ g \in present' <=> g \in present
                                   /\ g \in hasty' <=> g \in hasty
                                   /\ g \in missed' <=> g \in missed
         /\ f \in missed => f \in missed'
         /\ \/ f \in missed' /\ queue' = queue
            \/ /\ Len(queue) < MaxQueue /\ missed' = missed
               /\ \E a \in {"add", "remove"} : /\ queue' = Append(queue, [action |-> a, fn |-> f])
                                               /\ a = "add" <=> f \in present'
<1>1. /\ Running /\ changes < MaxChanges /\ changes' = changes + 1
      /\ UNCHANGED <<treeVars, rowVars, udev_cb, event, calling, crashed>>
  BY DEF Plug, Unplug, Change
<1>2. changes' \in 0 .. MaxChanges
  BY <1>1, TypeIs, PciAssumption
<1>3. \/ present' = present \cup {f} /\ Announce("add", f)
      \/ present' = present \ {f} /\ Announce("remove", f)
  BY DEF Plug, Unplug
<1>4. hasty' \in {hasty, hasty \ {f}, hasty \cup {f}}
  BY DEF Plug, Unplug
<1>5. /\ present' \in SUBSET Fn /\ hasty' \in SUBSET Fn
      /\ \A g \in Fn : g # f => /\ g \in present' <=> g \in present
                                /\ g \in hasty' <=> g \in hasty
  BY <1>3, <1>4, TypeIs
<1>6. ASSUME NEW a \in {"add", "remove"}, Announce(a, f)
      PROVE  /\ missed' \in SUBSET Fn
             /\ \A g \in Fn : g # f => (g \in missed' <=> g \in missed)
             /\ f \in missed => f \in missed'
             /\ \/ f \in missed' /\ queue' = queue
                \/ /\ Len(queue) < MaxQueue /\ missed' = missed
                   /\ queue' = Append(queue, [action |-> a, fn |-> f])
  BY <1>6, TypeIs DEF Announce
<1>7. \/ f \in missed' /\ queue' = queue
      \/ /\ Len(queue) < MaxQueue /\ missed' = missed
         /\ \E a \in {"add", "remove"} : /\ queue' = Append(queue, [action |-> a, fn |-> f])
                                         /\ a = "add" <=> f \in present'
  <2>1. CASE present' = present \cup {f} /\ Announce("add", f)
    BY <1>6, <2>1
  <2>2. CASE present' = present \ {f} /\ Announce("remove", f)
    BY <1>6, <2>2
  <2> QED BY <1>3, <2>1, <2>2
<1>8. /\ missed' \in SUBSET Fn
      /\ \A g \in Fn : g # f => (g \in missed' <=> g \in missed)
      /\ f \in missed => f \in missed'
  BY <1>3, <1>6
<1> QED BY <1>1, <1>2, <1>5, <1>7, <1>8

\* A callback is called: the event is done with, or there are more to go to.
LEMMA CallIs ==
  ASSUME TypeOK, InTurn, CallSlot \/ CallFunct
  PROVE  /\ Running /\ event \in Event /\ calling # <<>>
         /\ UNCHANGED <<worldVars, udev_cb, queue>>
         /\ calling' = Tail(calling) /\ calling' \in Seq(Table)
         /\ \A x : x \in Range(calling) <=> x = Head(calling) \/ x \in Range(calling')
         /\ \/ event' = event /\ calling' # <<>>
            \/ event' = NoEvent /\ calling' = <<>>
<1>1. /\ Running /\ calling # <<>> /\ calling' = Tail(calling) /\ Done
      /\ UNCHANGED <<worldVars, udev_cb, queue>>
  BY DEF CallSlot, CallFunct
<1>2. event \in Event /\ calling \in Seq(Table)
  BY <1>1, TypeIs DEF InTurn
<1>3. /\ calling' \in Seq(Table)
      /\ \A x : x \in Range(calling) <=> x = Head(calling) \/ x \in Range(calling')
      /\ Len(calling) = 1 <=> calling' = <<>>
  BY <1>1, <1>2, TailIs, RangeTail
<1>4. \/ event' = event /\ calling' # <<>>
      \/ event' = NoEvent /\ calling' = <<>>
  BY <1>1, <1>3 DEF Done
<1> QED BY <1>1, <1>2, <1>3, <1>4

\* What the callback of the slots changes at all.
LEMMA CallSlotType ==
  ASSUME TypeOK, InTurn, CallSlot
  PROVE  /\ Head(calling) = "slot" /\ UNCHANGED functs
         /\ chain' \in SUBSET (Fn \cup {Bridge}) /\ sub' \in SUBSET (Behind \cup {Blank})
         /\ own' \in SUBSET SiblingFn /\ replaced' \in SUBSET Cards
         /\ slots' \in [Slot -> Board] /\ crashed' \in Fn \cup {NoFn}
         /\ chain' \in {chain, chain \ {Zero(event.fn)}}
<1>1. /\ Head(calling) = "slot" /\ UNCHANGED functs /\ event \in Event
      /\ \/ /\ event.action = "remove" /\ RemoveDevice(event.fn) /\ UNCHANGED crashed
         \/ /\ event.action = "add" /\ AddDevice(event.fn)
            /\ crashed' = IF NameIsMissing(event.fn) THEN event.fn ELSE NoFn
  BY CallIs DEF CallSlot
<1> DEFINE f == event.fn
           e == Zero(f)
<1>2. f \in Fn /\ e \in Slot /\ (f \in Behind => e \in Cards)
  BY <1>1, EventIs, ZeroIs
<1>3. /\ chain \in SUBSET (Fn \cup {Bridge}) /\ sub \in SUBSET (Behind \cup {Blank})
      /\ own \in SUBSET SiblingFn /\ replaced \in SUBSET Cards
      /\ slots \in [Slot -> Board] /\ crashed \in Fn \cup {NoFn} /\ present \in SUBSET Fn
  BY TypeIs
<1> DEFINE Types == /\ chain' \in SUBSET (Fn \cup {Bridge}) /\ sub' \in SUBSET (Behind \cup {Blank})
                    /\ own' \in SUBSET SiblingFn /\ replaced' \in SUBSET Cards
                    /\ slots' \in [Slot -> Board]
                    /\ chain' \in {chain, chain \ {e}}
<1>4. UNCHANGED <<treeVars, slots>> => Types
  BY <1>3 DEF treeVars
<1>5. ASSUME RemoveDevice(f) PROVE Types
  <2>1. CASE ~PciNodeFind(e)
    BY <1>4, <1>5, <2>1 DEF RemoveDevice
  <2>2. CASE PciNodeFind(e)
    <3>1. AfterDestroy(e) /\ slots' \in {slots, [slots EXCEPT ![e] = "(Empty)"]}
      BY <1>5, <2>2 DEF RemoveDevice
    <3>2. slots' \in [Slot -> Board]
      BY <1>2, <1>3, <3>1 DEF Board
    <3>3. /\ chain' \in {chain, chain \ {e}} /\ sub' \in {sub, {}, sub \ {e}}
          /\ own' \in {own, own \ {e}} /\ replaced' = replaced
      BY <3>1 DEF AfterDestroy
    <3> QED BY <1>3, <3>2, <3>3
  <2> QED BY <2>1, <2>2
<1>6. ASSUME AddDevice(f) PROVE Types
  <2>1. CASE f \in Behind
    <3>1. ReadAgain(e)
      BY <1>6, <2>1 DEF AddDevice
    <3>2. e \in Cards /\ Device(e) \subseteq Behind
      BY <1>2, <2>1, DeviceIs
    <3>3. sub' \in SUBSET (Behind \cup {Blank})
      BY <3>1, <3>2 DEF ReadAgain, Card
    <3>4. replaced' \in SUBSET Cards /\ chain' = chain /\ own' = own
      BY <1>3, <3>1 DEF ReadAgain
    <3>5. slots' \in {slots, [slots EXCEPT ![e] = "shown"]}
      BY <3>1 DEF ReadAgain
    <3>6. slots' \in [Slot -> Board]
      BY <1>2, <1>3, <3>5 DEF Board
    <3> QED BY <1>3, <3>3, <3>4, <3>6
  <2>2. CASE f \notin Behind
    BY <1>4, <1>6, <2>2 DEF AddDevice
  <2> QED BY <2>1, <2>2
<1>7. crashed' \in Fn \cup {NoFn}
  BY <1>1, <1>2, <1>3
<1> QED BY <1>1, <1>5, <1>6, <1>7

\* What the callback of the slots does to one card: one function of the card
\* stands for all.
LEMMA CallSlotIs ==
  ASSUME TypeOK, InTurn, TreeIsWhole, CallSlot, NEW d \in Cards
  PROVE  \/ /\ event.action = "remove" /\ event.fn \in Device(d)
            /\ chain' \in {chain, chain \ {d}} /\ d \notin sub'
            /\ d \in chain \cup sub \cup own => slots'[d] # "shown"
            /\ d \notin chain \cup sub \cup own => UNCHANGED <<treeVars, slots>>
            /\ crashed' = crashed
         \/ /\ event.action = "remove" /\ event.fn \notin Device(d)
            /\ chain' \in {chain, chain \ {Zero(event.fn)}} /\ Zero(event.fn) # d
            /\ (d \in sub' <=> d \in sub) /\ replaced' = replaced
            /\ slots'[d] = slots[d] /\ crashed' = crashed
         \/ /\ event.action = "add" /\ event.fn \in Device(d)
            /\ sub' = (IF Card(d) = {} THEN {Blank} ELSE Card(d)) /\ chain' = chain
            /\ slots'[d] # "(Empty)"
            /\ crashed' \in {event.fn, NoFn} /\ (crashed' # NoFn => Card(d) = {})
         \/ /\ event.action = "add" /\ event.fn \in Behind \ Device(d)
            /\ chain' = chain /\ d \notin sub'
            /\ d \in sub \cup replaced => d \in replaced'
            /\ slots'[d] = slots[d]
         \/ /\ event.action = "add" /\ event.fn \notin Behind
            /\ UNCHANGED <<treeVars, slots>> /\ crashed' = NoFn
<1>1. /\ event \in Event
      /\ \/ /\ event.action = "remove" /\ RemoveDevice(event.fn) /\ UNCHANGED crashed
         \/ /\ event.action = "add" /\ AddDevice(event.fn)
            /\ crashed' = IF NameIsMissing(event.fn) THEN event.fn ELSE NoFn
  BY CallIs DEF CallSlot
<1> DEFINE f == event.fn
           e == Zero(f)
<1>2. /\ f \in Fn /\ e \in Slot /\ (f \in Behind => e \in Cards /\ f \in Device(e))
      /\ d \in Slot /\ d \in Device(d) /\ Device(d) \subseteq Behind /\ d \in Fn
      /\ f \in Device(d) <=> e = d
      /\ f \notin Behind => e \notin Cards
  BY <1>1, EventIs, ZeroIs, DeviceIs
<1>3. /\ sub \in SUBSET (Behind \cup {Blank})
      /\ slots \in [Slot -> Board] /\ slots' \in [Slot -> Board]
      /\ d \in sub => sub \subseteq Device(d)
      /\ Blank \notin Fn
  BY TypeIs, CallSlotType, FnIs DEF TreeIsWhole
<1> HIDE DEF f, e
<1>4. CASE event.action = "remove" /\ RemoveDevice(f) /\ UNCHANGED crashed
  <2>1. CASE ~PciNodeFind(e)
    <3>1. e \notin chain \cup sub \cup own /\ UNCHANGED <<treeVars, slots>>
      BY <1>4, <2>1 DEF RemoveDevice, PciNodeFind, e
    <3> QED BY <1>2, <1>4, <3>1 DEF f, e, treeVars
  <2>2. CASE PciNodeFind(e)
    <3>1. /\ AfterDestroy(e)
          /\ slots' = IF slots[e] = "none" THEN slots ELSE [slots EXCEPT ![e] = "(Empty)"]
      BY <1>4, <2>2 DEF RemoveDevice, e
    <3>2. slots'[e] # "shown" /\ \A s \in Slot : s # e => slots'[s] = slots[s]
      BY <1>2, <1>3, <3>1
    <3>3. /\ chain' \in {chain, chain \ {e}} /\ replaced' = replaced
          /\ e \notin sub'
          /\ sub' = sub \/ e \in sub
      BY <3>1 DEF AfterDestroy
    <3>4. e # d => (d \in sub' <=> d \in sub)
      <4>1. SUFFICES ASSUME e # d, e \in sub PROVE d \notin sub /\ d \notin sub'
        BY <3>3
      <4>2. d \notin sub
        <5>1. ASSUME d \in sub PROVE FALSE
          <6>1. e \in Device(d)
            BY <1>3, <4>1, <5>1
          <6>2. e \in Behind
            BY <1>2, <6>1
          <6>3. f \in Behind
            BY <1>2, <4>1, <1>3, FnIs, <6>2, ZeroIs DEF e
          <6> QED BY <1>2, <4>1, <6>1, <6>3, DeviceIs
        <5> QED BY <5>1
      <4>3. sub' \subseteq sub
        BY <3>1 DEF AfterDestroy
      <4> QED BY <4>2, <4>3
    <3> QED BY <1>2, <1>4, <2>2, <3>2, <3>3, <3>4 DEF f, e, PciNodeFind
  <2> QED BY <2>1, <2>2
<1>5. CASE event.action = "add" /\ AddDevice(f) /\ crashed' = IF NameIsMissing(f) THEN f ELSE NoFn
  <2>1. CASE f \in Behind
    <3>1. /\ sub' = (IF Card(e) = {} THEN {Blank} ELSE Card(e)) /\ chain' = chain
          /\ replaced' = (replaced \cup (sub \cap Cards)) \ {e}
          /\ slots' = IF slots[e] = "none" THEN slots ELSE [slots EXCEPT ![e] = "shown"]
      BY <1>5, <2>1 DEF AddDevice, ReadAgain, e
    <3>2. slots'[e] # "(Empty)" /\ \A s \in Slot : s # e => slots'[s] = slots[s]
      BY <1>2, <1>3, <3>1 DEF Board
    <3>3. crashed' \in {f, NoFn} /\ (crashed' # NoFn => Card(e) = {})
      BY <1>5 DEF NameIsMissing, e
    <3>4. CASE e = d
      BY <1>2, <1>5, <3>1, <3>2, <3>3, <3>4 DEF f, e
    <3>5. CASE e # d
      <4>1. d \notin sub'
        <5>1. d \notin Device(e) /\ d # Blank
          BY <1>2, <1>3, <2>1, <3>5, DeviceIs
        <5> QED BY <3>1, <5>1 DEF Card
      <4>2. d \in sub \cup replaced => d \in replaced'
        BY <3>1, <3>5
      <4> QED BY <1>2, <1>5, <2>1, <3>1, <3>2, <3>5, <4>1, <4>2 DEF f
    <3> QED BY <3>4, <3>5
  <2>2. CASE f \notin Behind
    <3>1. UNCHANGED <<treeVars, slots>> /\ crashed' = NoFn
      BY <1>5, <2>2 DEF AddDevice, NameIsMissing
    <3> QED BY <1>5, <2>2, <3>1 DEF f
  <2> QED BY <2>1, <2>2
<1> QED BY <1>1, <1>4, <1>5 DEF f

LEMMA CallFunctIs ==
  ASSUME TypeOK, InTurn, CallFunct
  PROVE  /\ Head(calling) = "funct" /\ UNCHANGED <<treeVars, slots>>
         /\ functs' \in SUBSET Fn /\ crashed' \in Fn \cup {NoFn}
         /\ \A g \in Fn : g # event.fn => (g \in functs' <=> g \in functs)
         /\ event.fn \in functs' <=> event.action = "add"
         /\ \/ crashed' = crashed
            \/ crashed' = NoFn
            \/ crashed' = event.fn /\ event.action = "add" /\ event.fn \notin sub
<1>1. event \in Event /\ event.fn \in Fn /\ functs \in SUBSET Fn /\ crashed \in Fn \cup {NoFn}
  BY CallIs, EventIs, TypeIs
<1>2. /\ Head(calling) = "funct" /\ UNCHANGED <<treeVars, slots>>
      /\ \/ event.action = "remove" /\ functs' = functs \ {event.fn} /\ crashed' = crashed
         \/ /\ event.action = "add" /\ functs' = functs \cup {event.fn}
            /\ crashed' = IF PciNodeFind(event.fn) THEN NoFn ELSE event.fn
  BY DEF CallFunct, RemoveFunction, AddFunction
<1> QED BY <1>1, <1>2 DEF PciNodeFind

-----------------------------------------------------------------------------
(* Types *)

LEMMA Steps ==
  ASSUME [Next]_vars
  PROVE  \/ UNCHANGED vars
         \/ LoadSlots \/ LoadFuncts
         \/ \E f \in Fn : Plug(f) \/ Unplug(f)
         \/ Receive
         \/ CallSlot \/ CallFunct
BY Zenon DEF Next

LEMMA InitType == Init => TypeOK
<1> SUFFICES ASSUME Init PROVE TypeOK
  OBVIOUS
<1>1. PICK found \in Machine :
        /\ chain = {Bridge} \cup found /\ sub = found \cap CardFn /\ own = found \cap SiblingFn
        /\ \E listed \in SUBSET Cards :
             slots = [s \in Slot |-> IF s \in found THEN "shown"
                                    ELSE IF s \in listed THEN "(Empty)" ELSE "none"]
        /\ functs = found /\ missed = (found \ present) \cup (present \ found)
  BY DEF Init, Scanned
<1>6. found \in SUBSET Fn /\ present \in SUBSET Fn
  BY DEF Init, Machine
<1>2. slots \in [Slot -> Board]
  BY <1>1 DEF Board
<1>7. /\ chain \in SUBSET (Fn \cup {Bridge}) /\ sub \in SUBSET (Behind \cup {Blank})
      /\ own \in SUBSET SiblingFn /\ functs \in SUBSET Fn /\ missed \in SUBSET Fn
  BY <1>1, <1>6, FnIs
<1>3. udev_cb \in Seq(Table) /\ Len(udev_cb) = 2 /\ 2 <= MaxCallbacks
  BY PciAssumption DEF Init, Table
<1>4. queue = <<>> /\ calling = <<>> /\ event = NoEvent /\ crashed = NoFn
      /\ changes = 0 /\ hasty = {} /\ replaced = {}
  BY DEF Init
<1>5. queue \in Seq(Event) /\ calling \in Seq(Table) /\ Len(queue) <= MaxQueue /\ changes \in 0 .. MaxChanges
  BY <1>4, PciAssumption
<1> QED BY <1>2, <1>3, <1>4, <1>5, <1>6, <1>7, TypeIs

LEMMA LoadIs ==
  ASSUME TypeOK, LoadSlots \/ LoadFuncts
  PROVE  /\ Running /\ event = NoEvent
         /\ UNCHANGED <<worldVars, treeVars, queue, event, calling, crashed>>
         /\ \/ udev_cb' = udev_cb
            \/ Len(udev_cb) < MaxCallbacks /\ \E t \in Table : udev_cb' = Append(udev_cb, t)
         /\ slots' \in [Slot -> Board] /\ functs' \in SUBSET Fn /\ functs \subseteq functs'
         /\ \A f \in functs' : f \in functs \/ f \in chain
         /\ \A d \in Cards : slots'[d] = slots[d] \/ (slots'[d] = "shown" /\ d \in chain)
<1>1. /\ Running /\ event = NoEvent
      /\ UNCHANGED <<worldVars, treeVars, queue, event, calling, crashed>>
  BY DEF LoadSlots, LoadFuncts, Idle
<1>2. \/ udev_cb' = udev_cb
      \/ Len(udev_cb) < MaxCallbacks /\ \E t \in Table : udev_cb' = Append(udev_cb, t)
  BY DEF LoadSlots, LoadFuncts, RegisterTable, Table
<1>3. Cards \subseteq Slot /\ slots \in [Slot -> Board] /\ functs \in SUBSET Fn
  BY TypeIs DEF Slot
<1>4. CASE LoadSlots
  <2>1. slots' = [s \in Slot |-> IF s \in chain THEN "shown" ELSE slots[s]] /\ functs' = functs
    BY <1>4 DEF LoadSlots, SlotsOfChain
  <2>2. slots' \in [Slot -> Board]
    BY <1>3, <2>1 DEF Board
  <2> QED BY <1>1, <1>2, <1>3, <2>1, <2>2
<1>5. CASE LoadFuncts
  <2>1. functs' = functs \cup (chain \cap Fn) /\ slots' = slots
    BY <1>5 DEF LoadFuncts
  <2> QED BY <1>1, <1>2, <1>3, <2>1
<1> QED BY <1>4, <1>5

LEMMA ReceiveIs ==
  ASSUME TypeOK, Receive
  PROVE  /\ Running /\ event = NoEvent /\ queue # <<>>
         /\ event' = Head(queue) /\ event' \in Event /\ calling' = udev_cb
         /\ queue' = Tail(queue) /\ queue' \in Seq(Event) /\ Len(queue') <= MaxQueue
         /\ UNCHANGED <<worldVars, treeVars, rowVars, udev_cb, crashed>>
<1>1. /\ Running /\ event = NoEvent /\ queue # <<>>
      /\ event' = Head(queue) /\ calling' = udev_cb /\ queue' = Tail(queue)
      /\ UNCHANGED <<worldVars, treeVars, rowVars, udev_cb, crashed>>
  BY DEF Receive, Idle
<1>2. queue \in Seq(Event) /\ Len(queue) <= MaxQueue /\ MaxQueue \in Nat
  BY TypeIs, PciAssumption
<1>3. queue' \in Seq(Event) /\ Len(queue') = Len(queue) - 1 /\ Len(queue) \in Nat /\ event' \in Event
  BY <1>1, <1>2, TailIs
<1> QED BY <1>1, <1>2, <1>3

LEMMA TypeThen ==
  /\ present' \in SUBSET Fn /\ missed' \in SUBSET Fn /\ hasty' \in SUBSET Fn
  /\ changes' \in 0 .. MaxChanges
  /\ chain' \in SUBSET (Fn \cup {Bridge}) /\ sub' \in SUBSET (Behind \cup {Blank})
  /\ own' \in SUBSET SiblingFn /\ replaced' \in SUBSET Cards
  /\ slots' \in [Slot -> Board]
  /\ functs' \in SUBSET Fn
  /\ udev_cb' \in Seq(Table) /\ calling' \in Seq(Table)
  /\ Len(udev_cb') <= MaxCallbacks /\ Len(queue') <= MaxQueue
  /\ queue' \in Seq(Event)
  /\ event' \in Event \cup {NoEvent}
  /\ crashed' \in Fn \cup {NoFn}
  => TypeOK'
BY Zenon DEF TypeOK, Board, Table, Event

LEMMA NextType ==
  ASSUME TypeOK, InTurn, [Next]_vars
  PROVE  TypeOK'
<1>1. /\ present \in SUBSET Fn /\ missed \in SUBSET Fn /\ hasty \in SUBSET Fn
      /\ changes \in 0 .. MaxChanges
      /\ chain \in SUBSET (Fn \cup {Bridge}) /\ sub \in SUBSET (Behind \cup {Blank})
      /\ own \in SUBSET SiblingFn /\ replaced \in SUBSET Cards
      /\ slots \in [Slot -> Board]
      /\ functs \in SUBSET Fn
      /\ udev_cb \in Seq(Table) /\ calling \in Seq(Table)
      /\ Len(udev_cb) <= MaxCallbacks /\ Len(queue) <= MaxQueue
      /\ queue \in Seq(Event)
      /\ event \in Event \cup {NoEvent}
      /\ crashed \in Fn \cup {NoFn}
  BY TypeIs
<1>2. MaxCallbacks \in Nat /\ MaxQueue \in Nat
  BY PciAssumption
<1>3. CASE UNCHANGED vars
  BY <1>1, <1>3, TypeThen DEF vars, worldVars, treeVars, rowVars, eventVars
<1>4. CASE LoadSlots \/ LoadFuncts
  <2>1. udev_cb' \in Seq(Table) /\ Len(udev_cb') <= MaxCallbacks
    <3>1. CASE udev_cb' = udev_cb
      BY <1>1, <3>1
    <3>2. ASSUME Len(udev_cb) < MaxCallbacks, NEW t \in Table, udev_cb' = Append(udev_cb, t)
          PROVE  udev_cb' \in Seq(Table) /\ Len(udev_cb') <= MaxCallbacks
      <4>1. udev_cb' \in Seq(Table) /\ Len(udev_cb') = Len(udev_cb) + 1 /\ Len(udev_cb) \in Nat
        BY <1>1, <3>2, AppendIs
      <4> QED BY <1>2, <3>2, <4>1
    <3> QED BY <1>4, <3>1, <3>2, LoadIs
  <2>2. /\ UNCHANGED <<worldVars, treeVars, queue, event, calling, crashed>>
        /\ slots' \in [Slot -> Board] /\ functs' \in SUBSET Fn
    BY <1>4, LoadIs
  <2> QED BY <1>1, <2>1, <2>2, TypeThen DEF worldVars, treeVars
<1>5. ASSUME NEW f \in Fn, Plug(f) \/ Unplug(f) PROVE TypeOK'
  <2>1. queue' \in Seq(Event) /\ Len(queue') <= MaxQueue
    <3>1. CASE queue' = queue
      BY <1>1, <3>1
    <3>2. ASSUME Len(queue) < MaxQueue, NEW a \in {"add", "remove"},
                 queue' = Append(queue, [action |-> a, fn |-> f])
          PROVE  queue' \in Seq(Event) /\ Len(queue') <= MaxQueue
      <4>1. [action |-> a, fn |-> f] \in Event
        BY EventIs
      <4>2. queue' \in Seq(Event) /\ Len(queue') = Len(queue) + 1 /\ Len(queue) \in Nat
        BY <1>1, <3>2, <4>1, AppendIs
      <4> QED BY <1>2, <3>2, <4>2
    <3> QED BY <1>5, <3>1, <3>2, ChangeIs
  <2>2. /\ changes' \in 0 .. MaxChanges
        /\ UNCHANGED <<treeVars, rowVars, udev_cb, event, calling, crashed>>
        /\ present' \in SUBSET Fn /\ missed' \in SUBSET Fn /\ hasty' \in SUBSET Fn
    BY <1>5, ChangeIs
  <2> QED BY <1>1, <2>1, <2>2, TypeThen DEF treeVars, rowVars
<1>6. CASE Receive
  BY <1>1, <1>6, ReceiveIs, TypeThen DEF worldVars, treeVars, rowVars
<1>7. CASE CallSlot
  <2>1. /\ UNCHANGED <<worldVars, udev_cb, queue>> /\ calling' \in Seq(Table)
        /\ event' \in Event \cup {NoEvent}
    BY <1>1, <1>7, CallIs
  <2>2. /\ chain' \in SUBSET (Fn \cup {Bridge}) /\ sub' \in SUBSET (Behind \cup {Blank})
        /\ own' \in SUBSET SiblingFn /\ replaced' \in SUBSET Cards
        /\ slots' \in [Slot -> Board] /\ crashed' \in Fn \cup {NoFn} /\ functs' = functs
    BY <1>7, CallSlotType
  <2> QED BY <1>1, <2>1, <2>2, TypeThen DEF worldVars
<1>8. CASE CallFunct
  <2>1. /\ UNCHANGED <<worldVars, udev_cb, queue>> /\ calling' \in Seq(Table)
        /\ event' \in Event \cup {NoEvent}
    BY <1>1, <1>8, CallIs
  <2>2. UNCHANGED <<treeVars, slots>> /\ functs' \in SUBSET Fn /\ crashed' \in Fn \cup {NoFn}
    BY <1>8, CallFunctIs
  <2> QED BY <1>1, <2>1, <2>2, TypeThen DEF worldVars, treeVars
<1> QED BY Steps, <1>3, <1>4, <1>5, <1>6, <1>7, <1>8

\* The callback of the slots stays the first in the list.
LEMMA InitInTurn == Init => InTurn
<1> SUFFICES ASSUME Init PROVE InTurn
  OBVIOUS
<1>1. udev_cb = <<"slot", "funct">> /\ event = NoEvent /\ calling = <<>>
  BY DEF Init
<1>2. Head(udev_cb) = "slot"
  BY <1>1
<1>3. 2 \in DOMAIN udev_cb /\ udev_cb[2] = "funct"
  BY <1>1
<1>4. "funct" \in Range(udev_cb)
  BY <1>3 DEF Range
<1> QED BY <1>1, <1>2, <1>4 DEF InTurn

LEMMA NextInTurn ==
  ASSUME TypeOK, InTurn, [Next]_vars
  PROVE  InTurn'
<1>1. udev_cb \in Seq(Table) /\ udev_cb # <<>>
  <2>1. udev_cb \in Seq(Table) /\ "funct" \in Range(udev_cb)
    BY TypeIs DEF InTurn
  <2> QED BY <2>1, RangeOfNone
<1>2. ASSUME udev_cb' = udev_cb, event' = NoEvent <=> calling' = <<>> PROVE InTurn'
  BY <1>2 DEF InTurn
<1>3. CASE UNCHANGED vars
  BY <1>3 DEF InTurn, vars, eventVars
<1>4. CASE LoadSlots \/ LoadFuncts
  <2>1. event' = event /\ calling' = calling
    BY <1>4, LoadIs
  <2>2. CASE udev_cb' = udev_cb
    BY <2>1, <2>2 DEF InTurn
  <2>3. ASSUME NEW t \in Table, udev_cb' = Append(udev_cb, t) PROVE InTurn'
    <3>1. /\ DOMAIN udev_cb = 1 .. Len(udev_cb) /\ DOMAIN udev_cb' = 1 .. (Len(udev_cb) + 1)
          /\ \A i \in 1 .. Len(udev_cb) : udev_cb'[i] = udev_cb[i]
          /\ Len(udev_cb) \in Nat /\ udev_cb' \in Seq(Table)
      BY <1>1, <2>3, AppendIs
    <3>2. udev_cb' # <<>> /\ 1 \in 1 .. Len(udev_cb)
      BY <1>1, <3>1
    <3>3. Head(udev_cb') = Head(udev_cb)
      BY <1>1, <3>1, <3>2, TailIs
    <3>4. "funct" \in Range(udev_cb')
      <4>1. PICK i \in DOMAIN udev_cb : udev_cb[i] = "funct"
        BY DEF InTurn, Range
      <4>2. i \in DOMAIN udev_cb' /\ udev_cb'[i] = "funct"
        BY <3>1, <4>1
      <4> QED BY <4>2 DEF Range
    <3> QED BY <2>1, <3>3, <3>4 DEF InTurn
  <2> QED BY <1>4, <2>2, <2>3, LoadIs
<1>5. ASSUME NEW f \in Fn, Plug(f) \/ Unplug(f) PROVE InTurn'
  BY <1>5, ChangeIs DEF InTurn
<1>6. CASE Receive
  <2>1. event' \in Event /\ calling' = udev_cb /\ udev_cb' = udev_cb
    BY <1>6, ReceiveIs
  <2> QED BY <1>1, <1>2, <2>1, EventIs
<1>7. CASE CallSlot \/ CallFunct
  <2>1. udev_cb' = udev_cb /\ event \in Event
        /\ \/ event' = event /\ calling' # <<>>
           \/ event' = NoEvent /\ calling' = <<>>
    BY <1>7, CallIs
  <2> QED BY <1>2, <2>1, EventIs
<1> QED BY Steps, <1>3, <1>4, <1>5, <1>6, <1>7

LEMMA TypeInTurn == Spec => [](TypeOK /\ InTurn)
<1>1. TypeOK /\ InTurn /\ [Next]_vars => TypeOK' /\ InTurn'
  BY NextType, NextInTurn
<1> QED BY <1>1, InitType, InitInTurn, PTL DEF Spec

\* Every variable keeps its type: rows are only of functions there can be,
\* and what the node of the bridge leads to are functions of the card.
THEOREM TypeCorrect == Spec => []TypeOK
BY TypeInTurn, PTL

-----------------------------------------------------------------------------
(* The events in the socket *)

LEMMA QueueIs ==
  ASSUME TypeOK
  PROVE  /\ DOMAIN queue \subseteq Nat \ {0}
         /\ \A i \in DOMAIN queue : queue[i] \in Event
<1>1. queue \in Seq(Event)
  BY TypeIs
<1>2. DOMAIN queue = 1 .. Len(queue) /\ Len(queue) \in Nat /\ \A i \in 1 .. Len(queue) : queue[i] \in Event
  BY <1>1
<1> QED BY <1>2

\* What a change adds is the last.
LEMMA ChangeQueueIs ==
  ASSUME TypeOK, NEW f \in Fn, Plug(f) \/ Unplug(f)
  PROVE  /\ \A i \in DOMAIN queue : i \in DOMAIN queue' /\ queue'[i] = queue[i]
         /\ \A i \in DOMAIN queue' :
              i \notin DOMAIN queue =>
                /\ i \in Nat /\ queue'[i].fn = f /\ (queue'[i].action = "add" <=> f \in present')
                /\ \A j \in DOMAIN queue : j < i
         /\ f \notin missed' =>
              \E i \in DOMAIN queue' : i \notin DOMAIN queue /\ \A j \in DOMAIN queue : j < i
<1>1. CASE f \in missed' /\ queue' = queue
  BY <1>1
<1>2. ASSUME NEW a \in {"add", "remove"}, queue' = Append(queue, [action |-> a, fn |-> f]),
             a = "add" <=> f \in present'
      PROVE  /\ \A i \in DOMAIN queue : i \in DOMAIN queue' /\ queue'[i] = queue[i]
             /\ \A i \in DOMAIN queue' :
                  i \notin DOMAIN queue =>
                    /\ i \in Nat /\ queue'[i].fn = f /\ (queue'[i].action = "add" <=> f \in present')
                    /\ \A j \in DOMAIN queue : j < i
             /\ \E i \in DOMAIN queue' : i \notin DOMAIN queue /\ \A j \in DOMAIN queue : j < i
  <2> DEFINE e == [action |-> a, fn |-> f]
             n == Len(queue) + 1
  <2>1. e \in Event /\ e.action = a /\ e.fn = f
    BY EventIs
  <2> HIDE DEF e
  <2>2. queue \in Seq(Event) /\ queue' = Append(queue, e)
    BY <1>2, TypeIs DEF e
  <2>3. /\ Len(queue) \in Nat /\ DOMAIN queue = 1 .. Len(queue) /\ DOMAIN queue' = 1 .. (Len(queue) + 1)
        /\ \A i \in 1 .. Len(queue) : queue'[i] = queue[i]
        /\ queue'[n] = e
    BY <2>1, <2>2, AppendIs
  <2>4. n \in DOMAIN queue' /\ n \in Nat /\ n \notin DOMAIN queue /\ \A j \in DOMAIN queue : j < n
    BY <2>3
  <2>5. \A i \in DOMAIN queue' : i \notin DOMAIN queue => i = n
    BY <2>3
  <2>6. \A i \in DOMAIN queue : i \in DOMAIN queue' /\ queue'[i] = queue[i]
    BY <2>3
  <2> HIDE DEF n
  <2> QED BY <1>2, <2>1, <2>3, <2>4, <2>5, <2>6
<1> QED BY <1>1, <1>2, ChangeIs

\* What is received is the first.
LEMMA ReceiveQueueIs ==
  ASSUME TypeOK, Receive
  PROVE  /\ 1 \in DOMAIN queue /\ event' = queue[1]
         /\ \A i \in DOMAIN queue' : i \in Nat \ {0} /\ i + 1 \in DOMAIN queue /\ queue'[i] = queue[i + 1]
         /\ \A i \in DOMAIN queue :
              i # 1 => i > 1 /\ i - 1 \in DOMAIN queue' /\ queue'[i - 1] = queue[i]
<1>1. queue \in Seq(Event) /\ queue # <<>> /\ event' = Head(queue) /\ queue' = Tail(queue)
  BY TypeIs, ReceiveIs
<1>2. /\ DOMAIN queue = 1 .. Len(queue) /\ DOMAIN queue' = 1 .. (Len(queue) - 1)
      /\ Len(queue) \in Nat \ {0}
      /\ \A i \in 1 .. (Len(queue) - 1) : queue'[i] = queue[i + 1]
      /\ event' = queue[1]
  BY <1>1, TailIs
<1>3. ASSUME NEW i \in DOMAIN queue, i # 1
      PROVE  i > 1 /\ i - 1 \in DOMAIN queue' /\ queue'[i - 1] = queue[i]
  <2>1. i > 1 /\ i - 1 \in 1 .. (Len(queue) - 1) /\ (i - 1) + 1 = i
    BY <1>2, <1>3
  <2> QED BY <1>2, <2>1
<1> QED BY <1>2, <1>3

LEMMA QueuedAfter ==
  /\ TypeOK /\ Receive => \A f : Queued(f) => Queued(f)' \/ event'.fn = f
  /\ TypeOK /\ Receive => \A f : Queued(f)' => Queued(f)
  /\ \A f \in Fn : TypeOK /\ (Plug(f) \/ Unplug(f)) =>
       /\ \A g : Queued(g) => Queued(g)'
       /\ \A g : g # f /\ Queued(g)' => Queued(g)
       /\ Queued(f)' \/ f \in missed'
<1>1. ASSUME TypeOK, Receive, NEW f, Queued(f) PROVE Queued(f)' \/ event'.fn = f
  BY <1>1, ReceiveQueueIs DEF Queued
<1>2. ASSUME TypeOK, Receive, NEW f, Queued(f)' PROVE Queued(f)
  BY <1>2, ReceiveQueueIs DEF Queued
<1>3. ASSUME NEW f \in Fn, TypeOK, Plug(f) \/ Unplug(f)
      PROVE  /\ \A g : Queued(g) => Queued(g)'
             /\ \A g : g # f /\ Queued(g)' => Queued(g)
             /\ Queued(f)' \/ f \in missed'
  <2>1. \A g : Queued(g) => Queued(g)'
    BY <1>3, ChangeQueueIs DEF Queued
  <2>2. \A g : g # f /\ Queued(g)' => Queued(g)
    BY <1>3, ChangeQueueIs DEF Queued
  <2>3. Queued(f)' \/ f \in missed'
    BY <1>3, ChangeQueueIs DEF Queued
  <2> QED BY <2>1, <2>2, <2>3
<1> QED BY <1>1, <1>2, <1>3

-----------------------------------------------------------------------------
(* What the events say *)

LEMMA NextCardHasZero ==
  ASSUME TypeOK, InTurn, CardHasZero, [Next]_vars
  PROVE  CardHasZero'
<1>1. ASSUME present' = present PROVE CardHasZero'
  BY <1>1 DEF CardHasZero, Card
<1>2. ASSUME NEW f \in Fn, Plug(f) PROVE CardHasZero'
  <2>1. present' = present \cup {f} /\ (f \in CardFn => 0 .. (f - 1) \subseteq present)
    BY <1>2 DEF Plug
  <2>2. f \in CardFn => 0 \in present'
    BY <2>1, FnIs
  <2> QED BY <2>1, <2>2 DEF CardHasZero, Card, Device
<1>3. ASSUME NEW f \in Fn, Unplug(f) PROVE CardHasZero'
  <2>1. present' = present \ {f} /\ (f = 0 => present \cap CardFn = {0})
    BY <1>3 DEF Unplug
  <2> QED BY <2>1 DEF CardHasZero, Card, Device
<1>4. CASE UNCHANGED vars \/ LoadSlots \/ LoadFuncts \/ Receive
  BY <1>1, <1>4, LoadIs, ReceiveIs DEF vars, worldVars
<1>5. CASE CallSlot \/ CallFunct
  BY <1>1, <1>5, CallIs DEF worldVars
<1> QED BY Steps, <1>2, <1>3, <1>4, <1>5

\* Steps that leave the queue and the machine alone, and finish the event
\* or keep it.
Holds == /\ UNCHANGED <<present, missed, hasty, queue>>
         /\ event' = event \/ event' = NoEvent

LEMMA HoldsIs ==
  ASSUME TypeOK, InTurn, [Next]_vars
  PROVE  Holds \/ Receive \/ \E f \in Fn : Plug(f) \/ Unplug(f)
<1>1. CASE UNCHANGED vars \/ LoadSlots \/ LoadFuncts
  BY <1>1, LoadIs DEF Holds, vars, worldVars, eventVars
<1>2. CASE CallSlot \/ CallFunct
  BY <1>2, CallIs DEF Holds, worldVars
<1> QED BY Steps, <1>1, <1>2

LEMMA NextLastNews ==
  ASSUME TypeOK, InTurn, LastNews, [Next]_vars
  PROVE  LastNews'
<1> DEFINE InQueue == \A i \in DOMAIN queue :
             queue[i].fn \notin missed /\ IsLast(i) => (queue[i].action = "add" <=> queue[i].fn \in present)
           OfEvent == event # NoEvent /\ event.fn \notin missed /\ ~Queued(event.fn)
             => (event.action = "add" <=> event.fn \in present)
<1>1. InQueue /\ OfEvent
  BY DEF LastNews
<1>2. InQueue' /\ OfEvent' => LastNews'
  BY DEF LastNews
<1>3. CASE Holds
  <2>1. \A i : IsLast(i)' <=> IsLast(i)
    BY <1>3 DEF Holds, IsLast
  <2>2. \A f : Queued(f)' <=> Queued(f)
    BY <1>3 DEF Holds, Queued
  <2>3. InQueue'
    BY <1>1, <1>3, <2>1 DEF Holds
  <2>4. OfEvent'
    BY <1>1, <1>3, <2>2 DEF Holds
  <2> QED BY <1>2, <2>3, <2>4
<1>4. CASE Receive
  <2>1. UNCHANGED <<present, missed>>
    BY <1>4, ReceiveIs DEF worldVars
  <2>2. ASSUME NEW i \in DOMAIN queue', queue'[i].fn \notin missed', IsLast(i)'
        PROVE  queue'[i].action = "add" <=> queue'[i].fn \in present'
    <3>1. i + 1 \in DOMAIN queue /\ queue'[i] = queue[i + 1] /\ i \in Nat \ {0}
      BY <1>4, ReceiveQueueIs
    <3>2. IsLast(i + 1)
      <4>1. SUFFICES ASSUME NEW j \in DOMAIN queue, j > i + 1 PROVE queue[j].fn # queue[i + 1].fn
        BY DEF IsLast
      <4>2. j - 1 \in DOMAIN queue' /\ queue'[j - 1] = queue[j] /\ j \in Nat
        BY <1>4, <3>1, <4>1, ReceiveQueueIs, QueueIs
      <4>3. j - 1 > i
        BY <3>1, <4>1, <4>2
      <4> QED BY <2>2, <3>1, <4>2, <4>3 DEF IsLast
    <3> QED BY <1>1, <2>1, <2>2, <3>1, <3>2
  <2>3. OfEvent'
    <3>1. SUFFICES ASSUME event'.fn \notin missed', ~Queued(event.fn)'
                   PROVE  event'.action = "add" <=> event'.fn \in present'
      OBVIOUS
    <3>2. 1 \in DOMAIN queue /\ event' = queue[1]
      BY <1>4, ReceiveQueueIs
    <3>3. IsLast(1)
      <4>1. SUFFICES ASSUME NEW j \in DOMAIN queue, j > 1 PROVE queue[j].fn # queue[1].fn
        BY DEF IsLast
      <4>2. j - 1 \in DOMAIN queue' /\ queue'[j - 1] = queue[j]
        BY <1>4, <4>1, ReceiveQueueIs
      <4> QED BY <3>1, <3>2, <4>2 DEF Queued
    <3> QED BY <1>1, <2>1, <3>1, <3>2, <3>3
  <2> QED BY <1>2, <2>2, <2>3
<1>5. ASSUME NEW f \in Fn, Plug(f) \/ Unplug(f) PROVE LastNews'
  <2>1. /\ event' = event
        /\ \A g \in Fn : g # f => /\ g \in present' <=> g \in present
                                  /\ g \in missed' <=> g \in missed
    BY <1>5, ChangeIs
  <2>2. ASSUME NEW i \in DOMAIN queue', queue'[i].fn \notin missed', IsLast(i)'
        PROVE  queue'[i].action = "add" <=> queue'[i].fn \in present'
    <3>1. CASE i \notin DOMAIN queue
      BY <1>5, <3>1, ChangeQueueIs
    <3>2. CASE i \in DOMAIN queue
      <4>1. queue'[i] = queue[i] /\ queue[i].fn \in Fn /\ i \in Nat
        BY <1>5, <3>2, ChangeQueueIs, QueueIs, EventIs
      <4>2. queue[i].fn # f
        <5>1. SUFFICES ASSUME queue[i].fn = f PROVE FALSE
          OBVIOUS
        <5>2. PICK j \in DOMAIN queue' : j \notin DOMAIN queue /\ i < j /\ queue'[j].fn = f
          BY <1>5, <2>2, <3>2, <4>1, <5>1, ChangeQueueIs
        <5>3. j > i /\ queue'[j].fn = queue'[i].fn
          <6>1. j \in Nat
            BY <1>5, <5>2, ChangeQueueIs
          <6> QED BY <4>1, <5>1, <5>2, <6>1
        <5> QED BY <2>2, <5>2, <5>3 DEF IsLast
      <4>3. IsLast(i)
        BY <1>5, <2>2, <3>2, <4>1, ChangeQueueIs DEF IsLast
      <4> QED BY <1>1, <2>1, <2>2, <3>2, <4>1, <4>2, <4>3
    <3> QED BY <3>1, <3>2
  <2>3. OfEvent'
    <3>1. SUFFICES ASSUME event # NoEvent, event.fn \notin missed', ~Queued(event.fn)'
                   PROVE  event.action = "add" <=> event.fn \in present'
      BY <2>1
    <3>2. event.fn \in Fn
      BY <3>1, TypeIs, EventIs
    <3>3. event.fn # f /\ ~Queued(event.fn)
      BY <1>5, <2>1, <3>1, QueuedAfter
    <3> QED BY <1>1, <2>1, <3>1, <3>2, <3>3
  <2> QED BY <1>2, <2>2, <2>3
<1> QED BY HoldsIs, <1>3, <1>4, <1>5

LEMMA NextHastyGone ==
  ASSUME TypeOK, InTurn, HastyGone, [Next]_vars
  PROVE  HastyGone'
<1>1. CASE Holds
  BY <1>1, EventIs DEF Holds, HastyGone
<1>2. CASE Receive
  BY <1>2, ReceiveIs, ReceiveQueueIs DEF HastyGone, worldVars
<1>3. ASSUME NEW f \in Fn, Plug(f) \/ Unplug(f) PROVE HastyGone'
  <2>1. /\ event' = event
        /\ \A g \in Fn : g # f => /\ g \in present' <=> g \in present
                                  /\ g \in hasty' <=> g \in hasty
    BY <1>3, ChangeIs
  <2>2. UnderWay(f) => f \in present' \cup hasty'
    BY <1>3 DEF Plug, Unplug
  <2>3. ASSUME NEW i \in DOMAIN queue', queue'[i].action = "add"
        PROVE  queue'[i].fn \in present' \cup hasty'
    <3>1. CASE i \notin DOMAIN queue
      BY <1>3, <2>3, <3>1, ChangeQueueIs
    <3>2. CASE i \in DOMAIN queue
      <4>1. queue'[i] = queue[i] /\ queue[i].fn \in Fn
        BY <1>3, <3>2, ChangeQueueIs, QueueIs, EventIs
      <4>2. queue[i].fn \in present \cup hasty
        BY <2>3, <3>2, <4>1 DEF HastyGone
      <4>3. queue[i].fn = f => UnderWay(f)
        BY <3>2 DEF UnderWay
      <4> QED BY <2>1, <2>2, <4>1, <4>2, <4>3
    <3> QED BY <3>1, <3>2
  <2>4. ASSUME event.action = "add" PROVE event.fn \in present' \cup hasty'
    <3>1. event.fn \in Fn /\ event.fn \in present \cup hasty
      BY <2>4, TypeIs, EventIs DEF HastyGone
    <3>2. event.fn = f => UnderWay(f)
      BY DEF UnderWay
    <3> QED BY <2>1, <2>2, <3>1, <3>2
  <2> QED BY <2>1, <2>3, <2>4 DEF HastyGone
<1> QED BY HoldsIs, <1>1, <1>2, <1>3

LEMMA NextZeroIsLast ==
  ASSUME TypeOK, InTurn, CardHasZero, ZeroIsLast, [Next]_vars
  PROVE  ZeroIsLast'
<1>1. CASE Holds
  <2>1. Queued(0)' <=> Queued(0)
    BY <1>1 DEF Holds, Queued
  <2>2. NoEvent.fn \notin CardFn
    BY EventIs, FnIs
  <2> QED BY <1>1, <2>1, <2>2 DEF Holds, ZeroIsLast
<1>2. CASE Receive
  <2>1. SUFFICES ASSUME 0 \notin present \cup missed
                 PROVE  /\ \A i \in DOMAIN queue' : queue'[i].fn \in CardFn \ {0} =>
                             \E j \in DOMAIN queue' : j > i /\ queue'[j].fn = 0
                        /\ event'.fn \in CardFn \ {0} => Queued(0)'
    BY <1>2, ReceiveIs DEF ZeroIsLast, worldVars
  <2>2. ASSUME NEW k \in DOMAIN queue, queue[k].fn \in CardFn \ {0}
        PROVE  \E j \in DOMAIN queue' : j > k - 1 /\ queue'[j].fn = 0
    <3>1. PICK j \in DOMAIN queue : j > k /\ queue[j].fn = 0
      BY <2>1, <2>2 DEF ZeroIsLast
    <3>2. j \in Nat \ {0} /\ k \in Nat \ {0}
      BY <3>1, QueueIs
    <3>3. j - 1 \in DOMAIN queue' /\ queue'[j - 1] = queue[j] /\ j - 1 > k - 1
      BY <1>2, <3>1, <3>2, ReceiveQueueIs
    <3> QED BY <3>1, <3>3
  <2>3. ASSUME NEW i \in DOMAIN queue', queue'[i].fn \in CardFn \ {0}
        PROVE  \E j \in DOMAIN queue' : j > i /\ queue'[j].fn = 0
    <3>1. i + 1 \in DOMAIN queue /\ queue'[i] = queue[i + 1] /\ (i + 1) - 1 = i
      BY <1>2, ReceiveQueueIs
    <3> QED BY <2>2, <2>3, <3>1
  <2>4. ASSUME event'.fn \in CardFn \ {0} PROVE Queued(0)'
    <3>1. 1 \in DOMAIN queue /\ event' = queue[1]
      BY <1>2, ReceiveQueueIs
    <3> QED BY <2>2, <2>4, <3>1 DEF Queued
  <2> QED BY <2>3, <2>4
<1>3. ASSUME NEW f \in Fn, Plug(f) \/ Unplug(f) PROVE ZeroIsLast'
  <2>1. SUFFICES ASSUME 0 \notin present' \cup missed' PROVE ZeroIsLast'
    BY DEF ZeroIsLast
  <2>2. event' = event
    BY <1>3, ChangeIs
  <2>3. CASE f = 0
    <3>1. PICK n \in DOMAIN queue' : n \notin DOMAIN queue /\ \A j \in DOMAIN queue : j < n
      BY <1>3, <2>1, <2>3, ChangeQueueIs
    <3>2. queue'[n].fn = 0 /\ n \in Nat
      BY <1>3, <2>3, <3>1, ChangeQueueIs
    <3>3. ASSUME NEW i \in DOMAIN queue', queue'[i].fn \in CardFn \ {0}
          PROVE  \E j \in DOMAIN queue' : j > i /\ queue'[j].fn = 0
      <4>1. i \in DOMAIN queue
        BY <1>3, <2>3, <3>3, ChangeQueueIs
      <4>2. n > i
        BY <3>1, <3>2, <4>1, QueueIs
      <4> QED BY <3>2, <4>2
    <3>4. Queued(0)'
      BY <3>2 DEF Queued
    <3> QED BY <3>3, <3>4 DEF ZeroIsLast
  <2>4. CASE f \in CardFn \ {0}
    <3>1. 0 \in present
      <4>1. CASE Plug(f)
        <5>1. 0 .. (f - 1) \subseteq present
          BY <2>4, <4>1 DEF Plug
        <5> QED BY <2>4, <5>1, FnIs
      <4>2. CASE Unplug(f)
        <5>1. f \in Card(0)
          BY <2>4, <4>2 DEF Unplug, Card, Device
        <5> QED BY <5>1 DEF CardHasZero
      <4> QED BY <1>3, <4>1, <4>2
    <3>2. 0 \in present'
      BY <1>3, <2>4, <3>1, ChangeIs, FnIs
    <3> QED BY <2>1, <3>2
  <2>5. CASE f \notin CardFn
    <3>1. 0 \in Fn /\ f # 0
      BY <2>5, FnIs
    <3>2. 0 \notin present \cup missed
      BY <1>3, <2>1, <3>1, ChangeIs
    <3>3. ASSUME NEW i \in DOMAIN queue', queue'[i].fn \in CardFn \ {0}
          PROVE  \E j \in DOMAIN queue' : j > i /\ queue'[j].fn = 0
      <4>1. i \in DOMAIN queue /\ queue[i] = queue'[i]
        BY <1>3, <2>5, <3>3, ChangeQueueIs
      <4>2. PICK j \in DOMAIN queue : j > i /\ queue[j].fn = 0
        BY <3>2, <3>3, <4>1 DEF ZeroIsLast
      <4> QED BY <1>3, <4>2, ChangeQueueIs
    <3>4. Queued(0) => Queued(0)'
      BY <1>3, QueuedAfter
    <3> QED BY <2>2, <3>2, <3>3, <3>4 DEF ZeroIsLast
  <2> QED BY <2>3, <2>4, <2>5
<1> QED BY HoldsIs, <1>1, <1>2, <1>3

-----------------------------------------------------------------------------
(* The tree *)

LEMMA NextTree ==
  ASSUME TypeOK, InTurn, TreeIsWhole, [Next]_vars
  PROVE  TreeIsWhole'
<1>1. /\ \A d \in Cards : d \in sub => sub \subseteq Device(d)
      /\ own \subseteq chain
      /\ \A d \in Cards : slots[d] = "none" => d \notin chain
      /\ slots \in [Slot -> Board] /\ Cards \subseteq Slot
  BY TypeIs DEF TreeIsWhole, Slot
<1>2. ASSUME sub' \subseteq sub, own' \subseteq chain', chain' \subseteq chain,
             \A d \in Cards : slots'[d] = "none" => slots[d] = "none"
      PROVE  TreeIsWhole'
  BY <1>1, <1>2 DEF TreeIsWhole
<1>3. CASE UNCHANGED <<treeVars, slots>>
  BY <1>1, <1>2, <1>3 DEF treeVars
<1>4. CASE UNCHANGED vars
  BY <1>3, <1>4 DEF vars, rowVars
<1>5. CASE LoadSlots \/ LoadFuncts
  BY <1>1, <1>2, <1>5, LoadIs DEF treeVars
<1>6. ASSUME NEW f \in Fn, Plug(f) \/ Unplug(f) PROVE TreeIsWhole'
  BY <1>3, <1>6, ChangeIs DEF rowVars
<1>7. CASE Receive
  BY <1>3, <1>7, ReceiveIs DEF rowVars
<1>8. CASE CallFunct
  BY <1>3, <1>8, CallFunctIs
<1>9. CASE CallSlot
  <2> DEFINE e == Zero(event.fn)
  <2>1. event.fn \in Fn /\ e \in Slot /\ (event.fn \in Behind => e \in Cards)
    BY <1>9, CallIs, EventIs, ZeroIs
  <2>2. CASE RemoveDevice(event.fn)
    <3>1. CASE PciNodeFind(e)
      <4>1. /\ AfterDestroy(e)
            /\ slots' = IF slots[e] = "none" THEN slots ELSE [slots EXCEPT ![e] = "(Empty)"]
        BY <2>2, <3>1 DEF RemoveDevice
      <4>2. sub' \subseteq sub /\ own' \subseteq chain' /\ chain' \subseteq chain
        BY <1>1, <4>1 DEF AfterDestroy
      <4>3. \A d \in Cards : slots'[d] = "none" => slots[d] = "none"
        BY <1>1, <2>1, <4>1
      <4> QED BY <1>2, <4>2, <4>3
    <3>2. CASE ~PciNodeFind(e)
      BY <1>3, <2>2, <3>2 DEF RemoveDevice
    <3> QED BY <3>1, <3>2
  <2>3. CASE AddDevice(event.fn) /\ event.fn \in Behind
    <3>1. /\ sub' = (IF Card(e) = {} THEN {Blank} ELSE Card(e)) /\ UNCHANGED <<chain, own>>
          /\ slots' = IF slots[e] = "none" THEN slots ELSE [slots EXCEPT ![e] = "shown"]
      BY <2>3 DEF AddDevice, ReadAgain
    <3>2. ASSUME NEW d \in Cards, d \in sub' PROVE sub' \subseteq Device(d)
      <4>1. d # Blank
        BY FnIs
      <4>2. d \in Card(e) /\ sub' = Card(e)
        BY <3>1, <3>2, <4>1
      <4>3. d = e
        BY <2>1, <2>3, <4>2, DeviceIs DEF Card
      <4> QED BY <4>2, <4>3 DEF Card
    <3>3. \A d \in Cards : slots'[d] = "none" => slots[d] = "none"
      BY <1>1, <2>1, <3>1
    <3> QED BY <1>1, <3>1, <3>2, <3>3 DEF TreeIsWhole
  <2>4. CASE AddDevice(event.fn) /\ event.fn \notin Behind
    BY <1>3, <2>4 DEF AddDevice
  <2> QED BY <1>9, <2>2, <2>3, <2>4 DEF CallSlot
<1> QED BY Steps, <1>4, <1>5, <1>6, <1>7, <1>8, <1>9

-----------------------------------------------------------------------------
(* What the callbacks do *)

\* What a callback leaves of the event that it was called for, whether it
\* was the last or not.
SlotAfter ==
  /\ event.fn \in Behind \ hasty /\ event.action = "add" => event.fn \in sub'
  /\ event.fn \in Behind /\ event.action = "add" => slots'[Zero(event.fn)] # "(Empty)"
  /\ event.fn \in Cards /\ event.action = "remove" => event.fn \notin sub'
FunctAfter == event.fn \in functs' <=> event.action = "add"

\* With the first callback the slots are done with.
LEMMA FunctIsLater ==
  ASSUME TypeOK, InTurn, CallsDone, CallFunct
  PROVE  calling # udev_cb /\ SlotDone
<1>1. Head(calling) = "funct" /\ Head(udev_cb) = "slot" /\ event # NoEvent
  BY CallFunctIs, CallIs, EventIs DEF InTurn
<1>2. calling # udev_cb
  BY <1>1
<1> QED BY <1>1, <1>2 DEF CallsDone

LEMMA CallSlotAdds ==
  ASSUME TypeOK, InTurn, TreeIsWhole, CallSlot, NEW d \in Cards,
         event.action = "add", event.fn \in Device(d)
  PROVE  /\ sub' = (IF Card(d) = {} THEN {Blank} ELSE Card(d))
         /\ slots'[d] # "(Empty)"
<1>1. event.action # "remove" /\ event.fn \in Behind
  BY DeviceIs
<1> DEFINE Read == /\ sub' = (IF Card(d) = {} THEN {Blank} ELSE Card(d)) /\ chain' = chain
                   /\ slots'[d] # "(Empty)"
                   /\ crashed' \in {event.fn, NoFn} /\ (crashed' # NoFn => Card(d) = {})
<1>2. Read
  BY <1>1, CallSlotIs, Zenon
<1> QED BY <1>2

LEMMA CallAfter ==
  ASSUME TypeOK, InTurn, TreeIsWhole, HastyGone, CallsDone, CallSlot \/ CallFunct
  PROVE  SlotAfter /\ ("funct" \in Range(calling') \/ FunctAfter)
<1>1. /\ event \in Event /\ event.fn \in Fn /\ event # NoEvent
      /\ \A x : x \in Range(calling) <=> x = Head(calling) \/ x \in Range(calling')
  BY CallIs, EventIs
<1>2. CASE CallSlot
  <2>1. "funct" \in Range(calling') \/ FunctAfter
    <3>1. Head(calling) = "slot" /\ functs' = functs
      BY <1>2, CallSlotType
    <3> QED BY <1>1, <3>1 DEF CallsDone, FunctDone, FunctAfter
  <2>2. SlotAfter
    <3>1. CASE event.action = "remove"
      <4>1. ASSUME event.fn \in Cards PROVE event.fn \notin sub'
        BY <1>2, <3>1, <4>1, CallSlotIs, DeviceIs
      <4> QED BY <3>1, <4>1 DEF SlotAfter
    <3>2. CASE event.action = "add"
      <4>1. SUFFICES ASSUME event.fn \in Behind
                     PROVE  /\ event.fn \notin hasty => event.fn \in sub'
                            /\ slots'[Zero(event.fn)] # "(Empty)"
        BY <3>2 DEF SlotAfter
      <4>2. Zero(event.fn) \in Cards /\ event.fn \in Device(Zero(event.fn))
        BY <4>1, DeviceIs
      <4>3. /\ sub' = (IF Card(Zero(event.fn)) = {} THEN {Blank} ELSE Card(Zero(event.fn)))
            /\ slots'[Zero(event.fn)] # "(Empty)"
        BY <1>2, <3>2, <4>2, CallSlotAdds
      <4>4. event.fn \in present \cup hasty
        BY <3>2 DEF HastyGone
      <4>5. event.fn \in present => event.fn \in Card(Zero(event.fn))
        BY <4>2 DEF Card
      <4> QED BY <4>3, <4>4, <4>5
    <3> QED BY <1>1, <3>1, <3>2, EventIs
  <2> QED BY <2>1, <2>2
<1>3. CASE CallFunct
  <2>1. SlotDone /\ UNCHANGED <<treeVars, slots>> /\ (event.fn \in functs' <=> event.action = "add")
    BY <1>3, FunctIsLater, CallFunctIs
  <2> QED BY <2>1 DEF SlotDone, SlotAfter, FunctAfter, treeVars
<1> QED BY <1>2, <1>3

LEMMA NextCallsDone ==
  ASSUME TypeOK, InTurn, TreeIsWhole, HastyGone, CallsDone, [Next]_vars
  PROVE  CallsDone'
<1>1. CASE UNCHANGED vars
  BY <1>1
  DEF CallsDone, SlotDone, FunctDone, vars, worldVars, treeVars, rowVars, eventVars
<1>2. CASE LoadSlots \/ LoadFuncts
  BY <1>2, LoadIs DEF CallsDone
<1>3. ASSUME NEW f \in Fn, Plug(f) \/ Unplug(f) PROVE CallsDone'
  <2>1. UNCHANGED <<treeVars, rowVars, udev_cb, event, calling>>
    BY <1>3, ChangeIs
  <2>2. SUFFICES ASSUME event # NoEvent PROVE CallsDone'
    BY <2>1 DEF CallsDone
  <2>3. event.fn \in Fn
    BY <2>2, TypeIs, EventIs
  <2>4. event.fn \in hasty => event.fn \in hasty'
    <3>1. CASE event.fn # f
      BY <1>3, <2>3, <3>1, ChangeIs
    <3>2. CASE event.fn = f
      <4>1. UnderWay(f)
        BY <3>2 DEF UnderWay
      <4> QED BY <1>3, <3>2, <4>1 DEF Plug, Unplug
    <3> QED BY <3>1, <3>2
  <2>5. (calling' = udev_cb') \/ SlotDone'
    <3>1. CASE calling = udev_cb
      BY <2>1, <3>1
    <3>2. CASE SlotDone
      BY <2>1, <2>4, <3>2 DEF SlotDone, treeVars, rowVars
    <3> QED BY <2>2, <3>1, <3>2 DEF CallsDone
  <2>6. "funct" \in Range(calling') \/ FunctDone'
    BY <2>1, <2>2 DEF CallsDone, FunctDone, rowVars
  <2> QED BY <2>5, <2>6 DEF CallsDone
<1>4. CASE Receive
  <2>1. calling' = udev_cb' /\ "funct" \in Range(calling')
    BY <1>4, ReceiveIs DEF InTurn
  <2> QED BY <2>1 DEF CallsDone
<1>5. CASE CallSlot \/ CallFunct
  <2>1. /\ SlotAfter /\ ("funct" \in Range(calling') \/ FunctAfter)
        /\ event' = event \/ event' = NoEvent
        /\ hasty' = hasty
    BY <1>5, CallAfter, CallIs DEF worldVars
  <2>2. CASE event' = event
    <3>1. SlotDone'
      BY <2>1, <2>2 DEF SlotAfter, SlotDone
    <3>2. FunctAfter => FunctDone'
      BY <2>2 DEF FunctAfter, FunctDone
    <3> QED BY <2>1, <3>1, <3>2 DEF CallsDone
  <2>3. CASE event' = NoEvent
    BY <2>3 DEF CallsDone
  <2> QED BY <2>1, <2>2, <2>3
<1> QED BY Steps, <1>1, <1>2, <1>3, <1>4, <1>5

\* ShownHasNode for one card.
AddQueued(d) == \E i \in DOMAIN queue : queue[i].fn \in Device(d) /\ queue[i].action = "add"
AddBegins(d) == event.fn \in Device(d) /\ event.action = "add" /\ calling = udev_cb
Noded(d) == d \in chain \cup sub \cup replaced

LEMMA NextCardHasNode ==
  ASSUME TypeOK, InTurn, CardHasZero, TreeIsWhole, HastyGone, [Next]_vars, NEW d \in Cards,
         slots[d] = "shown" /\ ~Hasty(d) => Noded(d) \/ AddQueued(d) \/ AddBegins(d),
         slots'[d] = "shown", ~Hasty(d)'
  PROVE  Noded(d)' \/ AddQueued(d)' \/ AddBegins(d)'
<1>1. Device(d) \subseteq Behind /\ d \in Device(d) /\ Device(d) \subseteq Fn
  BY DeviceIs, FnIs
<1>2. UNCHANGED worldVars => (Hasty(d)' <=> Hasty(d))
  BY DEF Hasty, worldVars
<1>3. UNCHANGED treeVars => (Noded(d)' <=> Noded(d))
  BY DEF Noded, treeVars
<1>4. UNCHANGED queue => (AddQueued(d)' <=> AddQueued(d))
  BY DEF AddQueued
<1>5. UNCHANGED <<event, calling, udev_cb>> => (AddBegins(d)' <=> AddBegins(d))
  BY DEF AddBegins
<1>6. CASE UNCHANGED vars
  BY <1>2, <1>3, <1>4, <1>5, <1>6 DEF vars, rowVars, eventVars
<1>7. CASE LoadSlots \/ LoadFuncts
  <2>1. /\ UNCHANGED <<worldVars, treeVars, queue, event>> /\ event = NoEvent
        /\ slots'[d] = slots[d] \/ d \in chain
    BY <1>7, LoadIs
  <2>2. ~AddBegins(d)
    BY <2>1, EventIs DEF AddBegins
  <2>3. d \in chain => Noded(d)'
    BY <2>1 DEF Noded, treeVars
  <2> QED BY <1>2, <1>3, <1>4, <2>1, <2>2, <2>3
<1>8. ASSUME NEW f \in Fn, Plug(f) \/ Unplug(f)
      PROVE  Noded(d)' \/ AddQueued(d)' \/ AddBegins(d)'
  <2>1. /\ UNCHANGED <<treeVars, rowVars, udev_cb, event, calling>>
        /\ \A g \in Fn : g # f => /\ g \in hasty' <=> g \in hasty
                                  /\ g \in missed' <=> g \in missed
        /\ f \in missed => f \in missed'
    BY <1>8, ChangeIs
  <2>2. AddQueued(d) => AddQueued(d)'
    BY <1>8, ChangeQueueIs DEF AddQueued
  <2>3. CASE ~Hasty(d)
    BY <1>3, <1>5, <2>1, <2>2, <2>3 DEF rowVars
  <2>4. CASE Hasty(d)
    <3>1. PICK g \in Device(d) : g \in missed \cup hasty
      BY <2>4 DEF Hasty
    <3>2. g \notin missed' \cup hasty' /\ g \in Fn
      BY <1>1 DEF Hasty
    <3>3. g = f /\ f \in Device(d)
      BY <2>1, <3>1, <3>2
    <3>4. f \notin missed' /\ f \notin hasty' /\ f \in hasty
      BY <2>1, <3>1, <3>2, <3>3
    <3>5. f \in present'
      BY <1>8, <3>4 DEF Plug, Unplug
    <3>6. PICK i \in DOMAIN queue' : i \notin DOMAIN queue
      BY <1>8, <3>4, ChangeQueueIs
    <3>7. queue'[i].fn = f /\ queue'[i].action = "add"
      BY <1>8, <3>5, <3>6, ChangeQueueIs
    <3> QED BY <3>3, <3>7 DEF AddQueued
  <2> QED BY <2>3, <2>4
<1>9. CASE Receive
  <2>1. /\ UNCHANGED <<worldVars, treeVars, rowVars, udev_cb>> /\ calling' = udev_cb
        /\ event = NoEvent
    BY <1>9, ReceiveIs
  <2>2. ~AddBegins(d)
    BY <2>1, EventIs DEF AddBegins
  <2>3. AddQueued(d) => AddQueued(d)' \/ AddBegins(d)'
    <3>1. SUFFICES ASSUME NEW i \in DOMAIN queue, queue[i].fn \in Device(d), queue[i].action = "add"
                   PROVE  AddQueued(d)' \/ AddBegins(d)'
      BY DEF AddQueued
    <3>2. CASE i = 1
      BY <1>9, <2>1, <3>1, <3>2, ReceiveQueueIs DEF AddBegins
    <3>3. CASE i # 1
      BY <1>9, <3>1, <3>3, ReceiveQueueIs DEF AddQueued
    <3> QED BY <3>2, <3>3
  <2> QED BY <1>2, <1>3, <2>1, <2>2, <2>3 DEF rowVars
<1>10. CASE CallFunct
  <2>1. UNCHANGED <<worldVars, queue>> /\ UNCHANGED <<treeVars, slots>>
    BY <1>10, CallIs, CallFunctIs
  <2>2. ~AddBegins(d)
    BY <1>10, CallFunctIs DEF InTurn, AddBegins
  <2> QED BY <1>2, <1>3, <1>4, <2>1, <2>2
<1>11. CASE CallSlot
  <2>1. UNCHANGED <<worldVars, queue>> /\ event \in Event
    BY <1>11, CallIs
  <2>2. CASE event.action = "remove"
    <3>1. ~AddBegins(d)
      BY <2>2 DEF AddBegins
    <3>2. CASE event.fn \in Device(d)
      <4>1. UNCHANGED <<treeVars, slots>>
        BY <1>11, <2>2, <3>2, CallSlotIs
      <4> QED BY <1>2, <1>3, <1>4, <2>1, <3>1, <4>1
    <3>3. CASE event.fn \notin Device(d)
      <4>1. /\ d \in sub' <=> d \in sub
            /\ chain' \in {chain, chain \ {Zero(event.fn)}} /\ Zero(event.fn) # d
            /\ replaced' = replaced /\ slots'[d] = slots[d]
        BY <1>11, <2>2, <3>3, CallSlotIs
      <4>2. Noded(d) => Noded(d)'
        BY <4>1 DEF Noded
      <4> QED BY <1>2, <1>4, <2>1, <3>1, <4>1, <4>2
    <3> QED BY <3>2, <3>3
  <2>3. CASE event.action = "add"
    <3>1. CASE event.fn \in Device(d)
      <4>1. event.fn \in present
        BY <1>2, <2>1, <2>3, <3>1 DEF HastyGone, Hasty
      <4>2. event.fn \in Card(d)
        BY <3>1, <4>1 DEF Card
      <4>3. d \in Card(d)
        <5>1. CASE d = 0
          BY <1>1, <4>2, <5>1 DEF CardHasZero, Card
        <5>2. CASE d # 0
          BY <4>2, <5>2, DeviceIs DEF Card
        <5> QED BY <5>1, <5>2
      <4>4. sub' = Card(d)
        BY <1>11, <2>3, <3>1, <4>2, CallSlotAdds
      <4> QED BY <4>3, <4>4 DEF Noded
    <3>2. CASE event.fn \notin Device(d)
      <4>1. ~AddBegins(d)
        BY <3>2 DEF AddBegins
      <4>2. slots'[d] = slots[d] /\ (Noded(d) => Noded(d)')
        BY <1>11, <2>3, <3>2, CallSlotIs DEF Noded, treeVars
      <4> QED BY <1>2, <1>4, <2>1, <4>1, <4>2
    <3> QED BY <3>1, <3>2
  <2> QED BY <2>1, <2>2, <2>3, EventIs
<1> QED BY Steps, <1>6, <1>7, <1>8, <1>9, <1>10, <1>11

LEMMA NextShownHasNode ==
  ASSUME TypeOK, InTurn, CardHasZero, TreeIsWhole, HastyGone, ShownHasNode, [Next]_vars
  PROVE  ShownHasNode'
<1>1. ASSUME NEW d \in Cards, slots'[d] = "shown", ~Hasty(d)'
      PROVE  Noded(d)' \/ AddQueued(d)' \/ AddBegins(d)'
  <2>1. slots[d] = "shown" /\ ~Hasty(d) => Noded(d) \/ AddQueued(d) \/ AddBegins(d)
    BY DEF ShownHasNode, Noded, AddQueued, AddBegins
  <2> QED BY <1>1, <2>1, NextCardHasNode
<1> QED BY <1>1 DEF ShownHasNode, Noded, AddQueued, AddBegins

LEMMA NextNodeIsNews ==
  ASSUME TypeOK, InTurn, CardHasZero, TreeIsWhole, HastyGone, NodeIsNews, [Next]_vars
  PROVE  NodeIsNews'
<1>1. SUFFICES ASSUME NEW d \in Cards, d \in sub'
               PROVE  d \in present' \cup missed' \/ Queued(d)' \/ (event'.fn = d /\ calling' = udev_cb')
  BY DEF NodeIsNews
<1>2. /\ d \in sub => d \in present \cup missed \/ Queued(d) \/ (event.fn = d /\ calling = udev_cb)
      /\ d \in Fn /\ d \in Device(d)
  BY DeviceIs DEF NodeIsNews
<1>3. ASSUME Queued(d), queue' = queue PROVE Queued(d)'
  BY <1>3 DEF Queued
<1>4. CASE UNCHANGED vars \/ LoadSlots \/ LoadFuncts
  <2>1. UNCHANGED <<worldVars, treeVars, queue, event, calling>>
        /\ (event = NoEvent \/ udev_cb' = udev_cb)
    BY <1>4, LoadIs DEF vars, eventVars
  <2>2. NoEvent.fn # d
    BY <1>2, EventIs
  <2> QED BY <1>1, <1>2, <1>3, <2>1, <2>2 DEF worldVars, treeVars
<1>5. ASSUME NEW f \in Fn, Plug(f) \/ Unplug(f)
      PROVE  d \in present' \cup missed' \/ Queued(d)' \/ (event'.fn = d /\ calling' = udev_cb')
  <2>1. /\ UNCHANGED <<treeVars, udev_cb, event, calling>>
        /\ \A g \in Fn : g # f => /\ g \in present' <=> g \in present
                                  /\ g \in missed' <=> g \in missed
    BY <1>5, ChangeIs
  <2>2. CASE f = d
    BY <1>5, <2>2, QueuedAfter
  <2>3. CASE f # d
    <3>1. Queued(d) => Queued(d)'
      BY <1>5, QueuedAfter
    <3> QED BY <1>1, <1>2, <2>1, <2>3, <3>1 DEF treeVars
  <2> QED BY <2>2, <2>3
<1>6. CASE Receive
  <2>1. /\ UNCHANGED <<worldVars, treeVars, udev_cb>> /\ calling' = udev_cb /\ event.fn # d
    BY <1>2, <1>6, ReceiveIs, EventIs
  <2>2. Queued(d) => Queued(d)' \/ event'.fn = d
    BY <1>6, QueuedAfter
  <2> QED BY <1>1, <1>2, <2>1, <2>2 DEF worldVars, treeVars
<1>7. CASE CallFunct
  <2>1. UNCHANGED <<worldVars, queue>> /\ sub' = sub /\ calling # udev_cb
    BY <1>7, CallIs, CallFunctIs DEF InTurn, treeVars
  <2> QED BY <1>1, <1>2, <1>3, <2>1 DEF worldVars
<1>8. CASE CallSlot
  <2>1. UNCHANGED <<worldVars, queue>> /\ event \in Event
    BY <1>8, CallIs
  <2>2. CASE event.fn \in Device(d)
    <3>1. event.action = "add"
      BY <1>1, <1>8, <2>1, <2>2, CallSlotIs, EventIs
    <3>2. d \in Card(d)
      <4>1. sub' = (IF Card(d) = {} THEN {Blank} ELSE Card(d)) /\ d # Blank
        BY <1>2, <1>8, <2>2, <3>1, CallSlotAdds, FnIs
      <4> QED BY <1>1, <4>1
    <3> QED BY <2>1, <3>2 DEF Card, worldVars
  <2>3. CASE event.fn \notin Device(d)
    <3>1. d \in sub /\ event.fn # d
      BY <1>1, <1>2, <1>8, <2>1, <2>3, CallSlotIs, EventIs DEF treeVars
    <3> QED BY <1>2, <1>3, <2>1, <3>1 DEF worldVars
  <2> QED BY <2>2, <2>3
<1> QED BY Steps, <1>4, <1>5, <1>6, <1>7, <1>8

-----------------------------------------------------------------------------
(* The function that was without a node *)

LEMMA NextCrash ==
  ASSUME TypeOK, InTurn, TreeIsWhole, HastyGone, CallsDone, CrashNeedsHaste, [Next]_vars
  PROVE  CrashNeedsHaste'
<1>1. ASSUME crashed' = NoFn PROVE CrashNeedsHaste'
  BY <1>1 DEF CrashNeedsHaste
<1>2. ASSUME crashed' = crashed, hasty' = hasty PROVE CrashNeedsHaste'
  BY <1>2 DEF CrashNeedsHaste
<1>3. CASE UNCHANGED vars \/ LoadSlots \/ LoadFuncts \/ Receive
  BY <1>2, <1>3, LoadIs, ReceiveIs DEF vars, worldVars
<1>4. ASSUME NEW f \in Fn, Plug(f) \/ Unplug(f) PROVE CrashNeedsHaste'
  BY <1>1, <1>4, ChangeIs DEF Running
<1>5. ASSUME CallSlot \/ CallFunct, crashed' = event.fn, event.action = "add",
             event.fn \in Behind => event.fn \in hasty
      PROVE  CrashNeedsHaste'
  <2>1. event.fn \in Fn /\ hasty' = hasty
    BY <1>5, CallIs, EventIs DEF worldVars
  <2> QED BY <1>5, <2>1, FnIs DEF CrashNeedsHaste
<1>6. CASE CallSlot
  <2>1. crashed = NoFn
    BY <1>6, CallIs DEF Running
  <2>2. CASE crashed' # NoFn
    <3>1. /\ event.action = "add" /\ crashed' = event.fn /\ event.fn \in Behind
          /\ Card(Zero(event.fn)) = {}
      BY <1>6, <2>1, <2>2 DEF CallSlot, NameIsMissing
    <3>2. event.fn \in Device(Zero(event.fn))
      BY <3>1, DeviceIs
    <3>3. event.fn \in hasty
      BY <3>1, <3>2 DEF HastyGone, Card
    <3> QED BY <1>5, <1>6, <3>1, <3>3
  <2> QED BY <1>1, <2>2
<1>7. CASE CallFunct
  <2>1. crashed = NoFn /\ event \in Event
    BY <1>7, CallIs DEF Running
  <2>2. CASE crashed' # NoFn
    <3>1. /\ event.action = "add" /\ crashed' = event.fn /\ event.fn \notin sub
      BY <1>7, <2>1, <2>2, CallFunctIs
    <3>2. event.fn \in Behind => event.fn \in hasty
      BY <1>7, <3>1, FunctIsLater DEF SlotDone
    <3> QED BY <1>5, <1>7, <3>1, <3>2
  <2> QED BY <1>1, <2>2
<1> QED BY Steps, <1>3, <1>4, <1>6, <1>7

Working == CardHasZero /\ TreeIsWhole /\ HastyGone /\ CallsDone

LEMMA InitTree == Init => TreeIsWhole
<1> SUFFICES ASSUME Init PROVE TreeIsWhole
  OBVIOUS
<1>1. PICK found \in Machine :
        /\ chain = {Bridge} \cup found /\ sub = found \cap CardFn /\ own = found \cap SiblingFn
        /\ \E listed \in SUBSET Cards :
             slots = [s \in Slot |-> IF s \in found THEN "shown"
                                    ELSE IF s \in listed THEN "(Empty)" ELSE "none"]
  BY DEF Init, Scanned
<1>2. ASSUME NEW d \in Cards, d \in sub PROVE sub \subseteq Device(d)
  <2>1. d = 0
    BY <1>1, <1>2, DeviceIs
  <2> QED BY <1>1, <2>1, DeviceIs
<1>3. ASSUME NEW d \in Cards, slots[d] = "none" PROVE d \notin chain
  <2>1. d \in Slot /\ d # Bridge
    BY DeviceIs, FnIs
  <2>2. d \notin found
    BY <1>1, <1>3, <2>1
  <2> QED BY <1>1, <2>1, <2>2
<1>4. own \subseteq chain
  BY <1>1
<1> QED BY <1>2, <1>3, <1>4 DEF TreeIsWhole

LEMMA AlwaysWorking == Spec => []Working
<1>1. Init => Working
  <2>1. ASSUME Init PROVE Working
    <3>1. queue = <<>> /\ event = NoEvent /\ present \cap CardFn \in {{}, CardFn}
      BY <2>1 DEF Init, Machine
    <3>2. CardHasZero
      BY <3>1, FnIs DEF CardHasZero, Card, Device
    <3>3. HastyGone
      BY <3>1, EventIs DEF HastyGone
    <3>4. CallsDone
      BY <3>1 DEF CallsDone
    <3> QED BY <2>1, <3>2, <3>3, <3>4, InitTree DEF Working
  <2> QED BY <2>1
<1>2. TypeOK /\ InTurn /\ Working /\ [Next]_vars => Working'
  BY NextCardHasZero, NextTree, NextHastyGone, NextCallsDone DEF Working
<1> QED BY <1>1, <1>2, TypeInTurn, PTL DEF Spec

\* cpqpci_add_function takes the node of its function for granted, and
\* cpqpci_add_device that of the first of a card: what the agent finds no node
\* for was gone again when it was handled, or is of the root bus.
THEOREM CrashAlwaysNeedsHaste == Spec => []CrashNeedsHaste
<1>1. Init => CrashNeedsHaste
  BY DEF Init, CrashNeedsHaste
<1>2. TypeOK /\ InTurn /\ Working /\ CrashNeedsHaste /\ [Next]_vars => CrashNeedsHaste'
  BY NextCrash DEF Working
<1> QED BY <1>1, <1>2, TypeInTurn, AlwaysWorking, PTL DEF Spec

-----------------------------------------------------------------------------
(* What is shown *)

\* CardIsShown and GhostsAreLeftBehind for one function.
Shown(f) ==
  Settled(f) => /\ f \in present => f \in functs
                /\ f \notin present /\ f \in functs => f \in chain
SlotShown(d) ==
  Device(d) \subseteq present /\ (\A f \in Device(d) : Settled(f)) => slots[d] # "(Empty)"

\* A function is not settled by a change of it, nor by the event's receipt.
LEMMA SettledBefore ==
  ASSUME TypeOK, InTurn, NEW f \in Fn, Settled(f)'
  PROVE  /\ LoadSlots \/ LoadFuncts \/ Receive => Settled(f)
         /\ \A g \in Fn : Plug(g) \/ Unplug(g) => g # f /\ Settled(f)
         /\ CallSlot \/ CallFunct =>
              \/ event.fn # f /\ Settled(f)
              \/ event.fn = f /\ ~Queued(f) /\ f \notin missed /\ event' = NoEvent
<1>1. Running' /\ f \notin missed' /\ event'.fn # f /\ ~Queued(f)'
  BY DEF Settled, UnderWay, Queued
<1>2. ASSUME Running, f \notin missed, event.fn # f, ~Queued(f) PROVE Settled(f)
  BY <1>2 DEF Settled, UnderWay, Queued
<1>3. ASSUME LoadSlots \/ LoadFuncts PROVE Settled(f)
  <2>1. Running /\ UNCHANGED <<missed, event>> /\ (Queued(f)' <=> Queued(f))
    BY <1>3, LoadIs DEF worldVars, Queued
  <2> QED BY <1>1, <1>2, <2>1
<1>4. ASSUME Receive PROVE Settled(f)
  <2>1. Running /\ missed' = missed /\ event.fn # f
    BY <1>4, ReceiveIs, EventIs DEF worldVars
  <2>2. Queued(f) => Queued(f)' \/ event'.fn = f
    BY <1>4, QueuedAfter
  <2> QED BY <1>1, <1>2, <2>1, <2>2
<1>5. ASSUME NEW g \in Fn, Plug(g) \/ Unplug(g) PROVE g # f /\ Settled(f)
  <2>1. g # f
    BY <1>1, <1>5, QueuedAfter
  <2>2. Running /\ (f \in missed' <=> f \in missed) /\ event' = event /\ (Queued(f) => Queued(f)')
    BY <1>5, <2>1, ChangeIs, QueuedAfter
  <2> QED BY <1>1, <1>2, <2>1, <2>2
<1>6. ASSUME CallSlot \/ CallFunct
      PROVE  \/ event.fn # f /\ Settled(f)
             \/ event.fn = f /\ ~Queued(f) /\ f \notin missed /\ event' = NoEvent
  <2>1. Running /\ missed' = missed /\ (Queued(f)' <=> Queued(f)) /\ (event' = event \/ event' = NoEvent)
    BY <1>6, CallIs DEF worldVars, Queued
  <2> QED BY <1>1, <1>2, <2>1
<1> QED BY <1>3, <1>4, <1>5, <1>6

LEMMA NextShown ==
  ASSUME TypeOK, InTurn, Working, LastNews, ZeroIsLast, [Next]_vars,
         NEW f \in Fn, Shown(f)
  PROVE  Shown(f)'
<1>1. SUFFICES ASSUME Settled(f)'
               PROVE  /\ f \in present' => f \in functs'
                      /\ f \notin present' /\ f \in functs' => f \in chain'
  BY DEF Shown
<1>2. CASE UNCHANGED vars
  <2>1. Settled(f)
    BY <1>1, <1>2 DEF Settled, Running, UnderWay, vars, worldVars, eventVars
  <2> QED BY <1>2, <2>1 DEF Shown, vars, worldVars, treeVars, rowVars
<1>3. CASE LoadSlots \/ LoadFuncts
  <2>1. Settled(f)
    BY <1>1, <1>3, SettledBefore
  <2>2. UNCHANGED <<worldVars, treeVars>> /\ functs \subseteq functs'
        /\ \A g \in functs' : g \in functs \/ g \in chain
    BY <1>3, LoadIs
  <2> QED BY <2>1, <2>2 DEF Shown, worldVars, treeVars
<1>4. CASE Receive
  BY <1>1, <1>4, SettledBefore, ReceiveIs DEF Shown, worldVars, treeVars, rowVars
<1>5. ASSUME NEW g \in Fn, Plug(g) \/ Unplug(g)
      PROVE  /\ f \in present' => f \in functs'
             /\ f \notin present' /\ f \in functs' => f \in chain'
  <2>1. g # f /\ Settled(f)
    BY <1>1, <1>5, SettledBefore
  <2>2. (f \in present' <=> f \in present) /\ UNCHANGED <<treeVars, rowVars>>
    BY <1>5, <2>1, ChangeIs
  <2> QED BY <2>1, <2>2 DEF Shown, treeVars, rowVars
<1>6. CASE CallSlot \/ CallFunct
  <2>1. UNCHANGED <<worldVars, queue>> /\ event \in Event /\ event # NoEvent
    BY <1>6, CallIs, EventIs
  <2>2. CASE event.fn = f /\ ~Queued(f) /\ f \notin missed /\ event' = NoEvent
    <3>1. event.action = "add" <=> f \in present
      BY <2>1, <2>2 DEF LastNews
    <3>2. calling' = <<>>
      BY <1>6, <2>1, <2>2, CallIs
    <3>3. FunctAfter
      BY <1>6, <3>2, CallAfter, RangeOfNone DEF Working
    <3> QED BY <2>1, <2>2, <3>1, <3>3 DEF FunctAfter, worldVars
  <2>3. CASE event.fn # f /\ Settled(f)
    <3>1. f \in functs' <=> f \in functs
      BY <1>6, <2>3, CallSlotType, CallFunctIs
    <3>2. f \in chain /\ f \notin present => f \in chain'
      <4>1. CASE CallFunct
        BY <4>1, CallFunctIs DEF treeVars
      <4>2. CASE CallSlot /\ Zero(event.fn) # f
        BY <4>2, CallSlotType
      <4>3. CASE CallSlot /\ Zero(event.fn) = f
        <5>1. f = 0 /\ event.fn \in CardFn \ {0}
          BY <2>3, <4>3 DEF Zero
        <5>2. f \notin missed /\ ~Queued(f)
          BY <2>3 DEF Settled, UnderWay, Queued
        <5> QED BY <5>1, <5>2 DEF ZeroIsLast
      <4> QED BY <1>6, <4>1, <4>2, <4>3
    <3> QED BY <2>1, <2>3, <3>1, <3>2 DEF Shown, worldVars
  <2> QED BY <1>1, <1>6, <2>2, <2>3, SettledBefore
<1> QED BY Steps, <1>2, <1>3, <1>4, <1>5, <1>6

LEMMA NextSlotShown ==
  ASSUME TypeOK, InTurn, Working, LastNews, [Next]_vars, NEW d \in Cards, SlotShown(d)
  PROVE  SlotShown(d)'
<1>1. SUFFICES ASSUME Device(d) \subseteq present', \A f \in Device(d) : Settled(f)'
               PROVE  slots'[d] # "(Empty)"
  BY DEF SlotShown
<1>2. d \in Device(d) /\ Device(d) \subseteq Fn
  BY DeviceIs, FnIs
<1>3. CASE UNCHANGED vars
  <2>1. \A f \in Device(d) : Settled(f)
    BY <1>1, <1>3 DEF Settled, Running, UnderWay, vars, worldVars, eventVars
  <2> QED BY <1>1, <1>3, <2>1 DEF SlotShown, vars, worldVars, rowVars
<1>4. CASE LoadSlots \/ LoadFuncts
  <2>1. \A f \in Device(d) : Settled(f)
    BY <1>1, <1>2, <1>4, SettledBefore
  <2>2. present' = present /\ (slots'[d] = slots[d] \/ slots'[d] = "shown")
    BY <1>4, LoadIs DEF worldVars
  <2> QED BY <1>1, <2>1, <2>2 DEF SlotShown
<1>5. CASE Receive
  <2>1. \A f \in Device(d) : Settled(f)
    BY <1>1, <1>2, <1>5, SettledBefore
  <2> QED BY <1>1, <1>5, <2>1, ReceiveIs DEF SlotShown, worldVars, rowVars
<1>6. ASSUME NEW g \in Fn, Plug(g) \/ Unplug(g) PROVE slots'[d] # "(Empty)"
  <2>1. \A f \in Device(d) : g # f /\ Settled(f)
    BY <1>1, <1>2, <1>6, SettledBefore
  <2>2. Device(d) \subseteq present /\ slots' = slots
    BY <1>1, <1>2, <1>6, <2>1, ChangeIs DEF rowVars
  <2> QED BY <2>1, <2>2 DEF SlotShown
<1>7. CASE CallSlot \/ CallFunct
  <2>1. UNCHANGED <<worldVars, queue>> /\ event \in Event /\ event # NoEvent
    BY <1>7, CallIs, EventIs
  <2>2. CASE event.fn \in Device(d)
    <3>1. ~Queued(event.fn) /\ event.fn \notin missed
      BY <1>1, <1>2, <1>7, <2>2, SettledBefore
    <3>2. event.fn \in present
      BY <1>1, <2>1, <2>2 DEF worldVars
    <3>3. event.action = "add"
      BY <2>1, <3>1, <3>2 DEF LastNews
    <3>4. event.fn \in Behind /\ Zero(event.fn) = d
      BY <2>2, DeviceIs
    <3> QED BY <1>7, <3>3, <3>4, CallAfter DEF Working, SlotAfter
  <2>3. CASE event.fn \notin Device(d)
    <3>1. \A f \in Device(d) : Settled(f)
      BY <1>1, <1>2, <1>7, <2>3, SettledBefore
    <3>2. slots'[d] = slots[d]
      BY <1>7, <2>1, <2>3, CallSlotIs, CallFunctIs, EventIs DEF Working
    <3> QED BY <1>1, <2>1, <3>1, <3>2 DEF SlotShown, worldVars
  <2> QED BY <2>2, <2>3
<1> QED BY Steps, <1>3, <1>4, <1>5, <1>6, <1>7

News == LastNews /\ ZeroIsLast /\ ShownHasNode /\ NodeIsNews
Rows == (\A f \in Fn : Shown(f)) /\ (\A d \in Cards : SlotShown(d))

\* What changed between the scan and the registration is missed.
LEMMA InitNews == Init => News /\ Rows
<1> SUFFICES ASSUME Init PROVE News /\ Rows
  OBVIOUS
<1>1. PICK found \in Machine :
        /\ chain = {Bridge} \cup found /\ sub = found \cap CardFn /\ own = found \cap SiblingFn
        /\ \E listed \in SUBSET Cards :
             slots = [s \in Slot |-> IF s \in found THEN "shown"
                                    ELSE IF s \in listed THEN "(Empty)" ELSE "none"]
        /\ functs = found /\ missed = (found \ present) \cup (present \ found)
  BY DEF Init, Scanned
<1>2. queue = <<>> /\ event = NoEvent /\ DOMAIN queue = {} /\ event.fn \notin Fn
  BY EventIs DEF Init
<1>3. ASSUME NEW d \in Cards
      PROVE  d \in Slot /\ d \in Fn /\ d \in Device(d) /\ (slots[d] = "shown" <=> d \in found)
  <2>1. d \in Slot /\ d \in Fn /\ d \in Device(d)
    BY DeviceIs
  <2> QED BY <1>1, <2>1
<1>4. LastNews
  BY <1>2 DEF LastNews
<1>5. ZeroIsLast
  BY <1>2, FnIs DEF ZeroIsLast
<1>6. ShownHasNode
  BY <1>1, <1>3 DEF ShownHasNode
<1>7. NodeIsNews
  BY <1>1 DEF NodeIsNews
<1>8. \A f \in Fn : Shown(f)
  BY <1>1 DEF Shown, Settled
<1>9. \A d \in Cards : SlotShown(d)
  <2>1. SUFFICES ASSUME NEW d \in Cards, Device(d) \subseteq present, Settled(d)
                 PROVE  slots[d] # "(Empty)"
    BY <1>3 DEF SlotShown
  <2>2. d \in found
    BY <1>1, <1>3, <2>1 DEF Settled
  <2> QED BY <1>3, <2>2
<1> QED BY <1>4, <1>5, <1>6, <1>7, <1>8, <1>9 DEF News, Rows

LEMMA AlwaysNews == Spec => [](News /\ Rows)
<1>1. TypeOK /\ InTurn /\ Working /\ News /\ Rows /\ [Next]_vars => News' /\ Rows'
  <2>1. ASSUME TypeOK, InTurn, Working, News, Rows, [Next]_vars PROVE News'
    BY <2>1, NextLastNews, NextZeroIsLast, NextShownHasNode, NextNodeIsNews DEF Working, News
  <2>2. ASSUME TypeOK, InTurn, Working, News, Rows, [Next]_vars PROVE Rows'
    <3>1. \A f \in Fn : Shown(f)'
      BY <2>2, NextShown DEF News, Rows
    <3>2. \A d \in Cards : SlotShown(d)'
      BY <2>2, NextSlotShown DEF News, Rows
    <3> QED BY <3>1, <3>2 DEF Rows
  <2> QED BY <2>1, <2>2
<1> QED BY <1>1, InitNews, TypeInTurn, AlwaysWorking, PTL DEF Spec

\* What is there is shown when its events are handled, whatever loads and
\* other events came in between: of each function the last event counts
\* (LastNews), and both tables have had it (CallsDone).
THEOREM CardIsAlwaysShown == Spec => []CardIsShown
<1>1. TypeOK /\ Working /\ Rows => CardIsShown
  <2>1. ASSUME TypeOK, Working, Rows, NEW d \in Cards,
               Device(d) \subseteq present, \A f \in Device(d) : Settled(f)
        PROVE  slots[d] = "shown" \/ (slots[d] = "none" /\ d \notin chain)
    <3>1. slots[d] # "(Empty)" /\ slots[d] \in Board
      BY <2>1, TypeIs, DeviceIs DEF Rows, SlotShown
    <3> QED BY <2>1, <3>1 DEF Board, Working, TreeIsWhole
  <2> QED BY <2>1 DEF Rows, Shown, CardIsShown
<1> QED BY <1>1, TypeInTurn, AlwaysWorking, AlwaysNews, PTL

\* What is gone is shown only if the tree had it from the start, or if the
\* nodes of its card gave way to those of another port's.  For the slot this
\* rests on the node under the port, which the removal of any function of
\* the card takes away, and which the next card brings back.
THEOREM GhostsAreAlwaysLeftBehind == Spec => []GhostsAreLeftBehind
<1>1. News /\ Rows => GhostsAreLeftBehind
  <2>1. ASSUME News, NEW d \in Cards, Gone(d), slots[d] = "shown"
        PROVE  d \in chain \cup replaced
    <3>1. /\ \A f \in Device(d) : f \notin missed /\ ~Queued(f) /\ event.fn # f /\ f \notin present
          /\ ~Hasty(d) /\ d \in Device(d)
      BY <2>1, DeviceIs DEF Gone, Settled, UnderWay, Queued, Hasty
    <3>2. d \in chain \cup sub \cup replaced
      BY <2>1, <3>1 DEF News, ShownHasNode, Queued
    <3>3. d \notin sub
      BY <3>1, <2>1 DEF News, NodeIsNews
    <3> QED BY <3>2, <3>3
  <2> QED BY <2>1 DEF Rows, Shown, GhostsAreLeftBehind
<1> QED BY <1>1, AlwaysNews, PTL
=============================================================================
