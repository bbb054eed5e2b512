------------------------- MODULE GatewayRelayProofs -------------------------
(***************************************************************************)
(* Proofs about GatewayRelay, for messages, delays and lists of any        *)
(* length: every variable keeps its type whatever the threads do; until a  *)
(* Race, the list of commands is right and the commands are processed in   *)
(* turn; and delays last, with or without a Race.                          *)
(*                                                                         *)
(* Shape says what the list looks like between any two of its accesses, as *)
(* long as there was no Race.                                              *)
(***************************************************************************)
EXTENDS GatewayRelay, TLAPS

Handling == {"publish", "pop", "tail", "clear", "head", "link", "count", "popped"}
Quiet    == {"idle", "stamp", "update", "updated"}

\* The elements linked and those the tail has come to; the first element that
\* is still in the list, and the first that the tail may be at.
LastLinked == IF recv.at \in {"head", "next", "link"} THEN allocated - 1 ELSE allocated
LastTail   == IF recv.at \in {"head", "next", "link", "tail"}
              THEN allocated - 1 ELSE allocated
First      == IF main.at = "publish" \/ Unlinking THEN done ELSE done + 1
FirstTail  == IF main.at \in {"publish", "pop", "tail", "clear"} THEN done ELSE done + 1

\* How many elements were counted in, and how many out.
CountedIn  == IF InAppend THEN allocated - 1 ELSE allocated
CountedOut == IF main.at \in Handling THEN done - 1 ELSE done

\* The elements from first to last are linked, and the head is the first.
Linked(first, last) ==
  /\ list.head = IF first <= last THEN first ELSE NULL
  /\ \A i \in Items : /\ first <= i /\ i < last => list.next[i] = i + 1
                      /\ last <= i => list.next[i] = NULL

EndsAt(first, last) == list.tail = IF first <= last THEN last ELSE NULL

\* What a thread has read is still so when it writes.
ReadsHold ==
  /\ recv.at \in {"next", "link"} => First <= LastLinked
  /\ recv.at = "link" => recv.read = allocated - 1
  /\ recv.at = "added" => recv.read = list.count
  /\ main.at = "clear" => done = LastTail
  /\ main.at = "link" => main.read = IF done < LastLinked THEN done + 1 ELSE NULL
  /\ main.at = "popped" => main.read = list.count

Shape ==
  /\ Linked(First, LastLinked)
  /\ EndsAt(FirstTail, LastTail)
  /\ list.count = CountedIn - CountedOut
  /\ ReadsHold
  /\ done <= LastLinked
  /\ InAppend /\ main.at # "publish" => done < allocated
  /\ ~Race
  /\ "element" \notin undefined

\* Bounds of what TypeOK leaves open: pointers reach no further than to the
\* element allocated last, and the count a removal takes 1 from is not 0.
Bounds ==
  /\ list.head <= allocated /\ list.tail <= allocated
  /\ \A i \in Items : list.next[i] <= allocated
  /\ recv.at = "link" => recv.read <= allocated
  /\ main.at = "link" => main.read <= allocated
  /\ main.at \in {"tail", "clear", "head", "link", "count"} => list.count # 0
  /\ main.at = "popped" => main.read # 0
  /\ main.at \in Handling => main.item = done /\ done # 0
  /\ InAppend => allocated # 0
  /\ allocated + Len(recv.adding) <= MaxItems

\* A delay that has begun is that of the head; until it has lasted its time,
\* the rest of it is what is missing to the resume time.  No other element
\* that is still to be processed has a stamp.
DelayInv ==
  /\ \A i \in done + 1 .. MaxItems : (waited = None \/ i # list.head) => resumeTime[i] = 0
  /\ waited = None => ~passedEnd
  /\ waited # None =>
       /\ ~InHandler
       /\ done < list.head
       /\ kind[list.head] \notin {Command, 0}
       /\ ~passedEnd =>
            /\ resumeTime[list.head] # 0 /\ kind[list.head] < TickMod
            /\ \/ waited >= kind[list.head]
               \/ tick + (kind[list.head] - waited) = resumeTime[list.head]

-----------------------------------------------------------------------------
(* Types *)

ListType == list \in [head : Links, tail : Links, count : Nat, next : [Items -> Links]]

RecvType ==
  recv \in [at : {"wait", "loop", "head", "next", "link", "tail", "count", "added"},
            message : Messages \cup {<< >>}, commandIndex : 0 .. IndexMod - 1,
            adding : Seq(Kinds), read : Nat]

MainType ==
  main \in [at : {"idle", "publish", "pop", "tail", "clear", "head", "link",
                  "count", "popped", "stamp", "update", "updated"},
            item : Links, read : Nat]

ElementsType ==
  /\ kind \in [Items -> Kinds]
  /\ resumeTime \in [Items -> 0 .. TickMod - 1]
  /\ allocated \in 0 .. MaxItems /\ done \in 0 .. allocated

FlagsType ==
  /\ processActive \in BOOLEAN /\ updateActive \in BOOLEAN
  /\ unanswered \in BOOLEAN /\ passedEnd \in BOOLEAN /\ raced \in BOOLEAN
  /\ undefined \subseteq {"element", "stamp"}

TimeType == tick \in 0 .. TickMod - 1 /\ waited \in 0 .. TickMod \cup {None}

LEMMA TypeParts ==
  TypeOK <=> /\ ListType /\ RecvType /\ MainType
             /\ ElementsType /\ FlagsType /\ TimeType
BY DEF TypeOK, ListType, RecvType, MainType, ElementsType, FlagsType, TimeType

LEMMA TypePartsNext ==
  ASSUME ListType', RecvType', MainType', ElementsType', FlagsType', TimeType'
  PROVE  TypeOK'
BY DEF TypeOK, ListType, RecvType, MainType, ElementsType, FlagsType, TimeType

TypeInv == TypeOK /\ Bounds

LEMMA TypeInit == Init => TypeInv
<1> SUFFICES ASSUME Init PROVE TypeInv
  OBVIOUS
<1> USE KindsAssumption, ModuliAssumption, BoundAssumption
<1>1. << >> \in Seq(Kinds)
  OBVIOUS
<1>2. RecvType
  BY <1>1 DEF Init, RecvType
<1>3. MainType
  BY DEF Init, MainType, Links
<1>4. ListType
  BY DEF Init, ListType, Links
<1>5. ElementsType
  BY DEF Init, ElementsType, Kinds
<1>6. FlagsType
  BY DEF Init, FlagsType
<1>7. TimeType
  BY DEF Init, TimeType
<1>8. Bounds
  BY DEF Init, Bounds, NULL, Handling, InAppend
<1> QED
  BY <1>2, <1>3, <1>4, <1>5, <1>6, <1>7, <1>8, TypeParts DEF TypeInv

\* An access to the list keeps the other types.
LEMMA AccessTypes ==
  ASSUME TypeOK, ListType', RecvType', MainType',
         undefined' \subseteq {"element", "stamp"}, raced' \in BOOLEAN,
         UNCHANGED <<content, events, time>>
  PROVE  TypeOK'
<1>1. ElementsType' /\ TimeType'
  BY TypeParts DEF content, time, ElementsType, TimeType
<1>2. FlagsType'
  BY TypeParts DEF events, time, FlagsType
<1> QED
  BY <1>1, <1>2, TypePartsNext

LEMMA MemberOfSequence ==
  ASSUME NEW S, NEW s \in Seq(S), NEW i \in 1 .. Len(s)
  PROVE  s[i] \in S
OBVIOUS

\* The steps of the receive thread that do not touch the list.
LEMMA TypeMessageStep ==
  ASSUME TypeInv, raced' \in BOOLEAN, CommandsArrive \/ NextCommand \/ MessageDone
  PROVE  TypeInv'
<1> USE KindsAssumption, ModuliAssumption, BoundAssumption
<1>1. ListType /\ RecvType /\ MainType /\ FlagsType /\ Bounds
  BY TypeParts DEF TypeInv
<1>2. UNCHANGED <<list, content, main, events, time, undefined>>
  BY DEF CommandsArrive, NextCommand, MessageDone
<1>3. ASSUME RecvType', recv'.at \in {"wait", "loop"},
             allocated + Len(recv'.adding) <= MaxItems
      PROVE  TypeInv'
  <2>1. ListType' /\ MainType' /\ undefined' \subseteq {"element", "stamp"}
    BY <1>1, <1>2 DEF ListType, MainType, FlagsType
  <2>2. Bounds'
    BY <1>1, <1>2, <1>3 DEF Bounds, content, InAppend
  <2> QED
    BY <1>2, <1>3, <2>1, <2>2, AccessTypes DEF TypeInv
<1>4. CASE CommandsArrive
  <2>1. PICK m \in Messages :
          recv' = [recv EXCEPT !.at = "loop", !.message = m, !.commandIndex = 0]
    BY <1>4 DEF CommandsArrive
  <2>2. 0 \in 0 .. IndexMod - 1
    OBVIOUS
  <2>3. RecvType' /\ recv'.at = "loop" /\ recv'.adding = recv.adding
    BY <1>1, <2>1, <2>2 DEF RecvType
  <2> QED
    BY <1>1, <1>3, <2>3 DEF Bounds
<1>5. CASE MessageDone
  <2>1. recv' = [recv EXCEPT !.at = "wait", !.message = << >>, !.commandIndex = 0]
    BY <1>5 DEF MessageDone
  <2>2. 0 \in 0 .. IndexMod - 1
    OBVIOUS
  <2>3. RecvType' /\ recv'.at = "wait" /\ recv'.adding = recv.adding
    BY <1>1, <2>1, <2>2 DEF RecvType
  <2> QED
    BY <1>1, <1>3, <2>3 DEF Bounds
<1>6. CASE NextCommand
  <2> DEFINE c   == recv.message[recv.commandIndex + 1]
             new == Elements(c)
  <2>1. recv.message \in Messages
    BY <1>1, <1>6 DEF NextCommand, RecvType
  <2>2. recv.message \in
          Seq([command : {Command, None}, postDelayMs : Delays \cup {None}])
    BY <2>1, MessagesAssumption
  <2>3. recv.commandIndex + 1 \in 1 .. Len(recv.message)
    BY <1>1, <1>6, <2>2 DEF NextCommand, RecvType
  <2>4. c \in [command : {Command, None}, postDelayMs : Delays \cup {None}]
    BY <2>2, <2>3, MemberOfSequence
  <2>5. new \in Seq(Kinds)
    <3>1. (IF c.command = Command THEN <<Command>> ELSE << >>) \in Seq(Kinds)
      <4>1. <<Command>> \in Seq(Kinds) /\ << >> \in Seq(Kinds)
        BY DEF Kinds
      <4> QED
        BY <4>1
    <3>2. c.postDelayMs # None => <<c.postDelayMs>> \in Seq(Kinds)
      BY <2>4 DEF Kinds
    <3>3. (IF c.postDelayMs # None THEN <<c.postDelayMs>> ELSE << >>) \in Seq(Kinds)
      BY <3>2
    <3> QED
      BY <3>1, <3>3 DEF Elements
  <2>6. /\ recv.at = "loop" /\ allocated + Len(new) <= MaxItems
        /\ recv' = [recv EXCEPT !.adding = new,
                      !.commandIndex = (@ + 1) % IndexMod]
    BY <1>6 DEF NextCommand
  <2>7. (recv.commandIndex + 1) % IndexMod \in 0 .. IndexMod - 1
    BY <1>1 DEF RecvType
  <2> HIDE DEF new
  <2>8. RecvType' /\ recv'.at = "loop" /\ recv'.adding = new
    BY <1>1, <2>5, <2>6, <2>7 DEF RecvType
  <2> QED
    BY <1>3, <2>6, <2>8
<1> QED
  BY <1>4, <1>5, <1>6

LEMMA TypeAllocateStep ==
  ASSUME TypeInv, raced' \in BOOLEAN, Allocate
  PROVE  TypeInv'
<1> USE KindsAssumption, ModuliAssumption, BoundAssumption
<1>1. ListType /\ RecvType /\ MainType /\ ElementsType /\ FlagsType /\ TimeType /\ Bounds
  BY TypeParts DEF TypeInv
<1>2. /\ recv.at = "loop" /\ recv.adding # << >>
      /\ allocated' = allocated + 1
      /\ recv' = [recv EXCEPT !.at = "head", !.adding = Tail(@)]
      /\ kind' = [kind EXCEPT ![allocated'] = Head(recv.adding)]
      /\ UNCHANGED <<list, resumeTime, done, main, events, time, undefined>>
  BY DEF Allocate
<1>3. /\ Len(Tail(recv.adding)) = Len(recv.adding) - 1
      /\ Len(recv.adding) \in Nat \ {0}
      /\ Tail(recv.adding) \in Seq(Kinds) /\ Head(recv.adding) \in Kinds
  BY <1>1, <1>2 DEF RecvType
<1>4. RecvType' /\ recv'.at = "head" /\ recv'.adding = Tail(recv.adding)
  BY <1>1, <1>2, <1>3 DEF RecvType
<1>5. allocated' + Len(recv'.adding) <= MaxItems /\ allocated' \in Items
  BY <1>1, <1>2, <1>3, <1>4 DEF ElementsType, Bounds, Items
<1>6. ListType' /\ MainType' /\ FlagsType' /\ TimeType'
  BY <1>1, <1>2 DEF ListType, MainType, FlagsType, TimeType, events, time
<1>7. ElementsType'
  BY <1>1, <1>2, <1>3, <1>5 DEF ElementsType, Items
<1>8. Bounds'
  <2>1. allocated \in Nat /\ done \in Nat
    BY <1>1 DEF ElementsType
  <2>2. list.head \in Nat /\ list.tail \in Nat /\ main.read \in Nat
    BY <1>1 DEF ListType, MainType, Links, Items, NULL
  <2>3. \A i \in Items : list.next[i] \in Nat
    BY <1>1 DEF ListType, Links, Items, NULL
  <2>4. \A i \in Items : list.next[i] <= allocated + 1
    BY <1>1, <2>1, <2>3 DEF Bounds
  <2> QED
    BY <1>1, <1>2, <1>4, <1>5, <2>1, <2>2, <2>4 DEF Bounds
<1> QED
  BY <1>4, <1>6, <1>7, <1>8, TypePartsNext DEF TypeInv

\* A list whose pointers reach no further than to the last element.
Lists == {l \in [head : Links, tail : Links, count : Nat, next : [Items -> Links]] :
            /\ l.head <= allocated /\ l.tail <= allocated
            /\ \A i \in Items : l.next[i] <= allocated}

LEMMA ListIsOne == TypeInv => list \in Lists
BY TypeParts DEF TypeInv, ListType, Bounds, Lists

\* A change of one field of the list.
LEMMA ListChange ==
  ASSUME TypeInv, NEW to \in Links, to <= allocated, NEW n \in Nat, NEW i
  PROVE  /\ [list EXCEPT !.head = to] \in Lists
         /\ [list EXCEPT !.tail = to] \in Lists
         /\ [list EXCEPT !.next[i] = to] \in Lists
         /\ [list EXCEPT !.count = n] \in Lists
<1>1. ListType /\ Bounds
  BY TypeParts DEF TypeInv
<1>2. /\ [list EXCEPT !.head = to] \in Lists
      /\ [list EXCEPT !.tail = to] \in Lists
      /\ [list EXCEPT !.count = n] \in Lists
  BY <1>1 DEF ListType, Bounds, Lists
<1>3. [list EXCEPT !.next[i] = to] \in Lists
  <2> DEFINE l == [list EXCEPT !.next[i] = to]
  <2>1. /\ l \in [head : Links, tail : Links, count : Nat, next : [Items -> Links]]
        /\ l.head = list.head /\ l.tail = list.tail
        /\ l.next = [list.next EXCEPT ![i] = to]
    BY <1>1 DEF ListType
  <2>2. \A j \in Items : l.next[j] <= allocated
    BY <1>1, <2>1 DEF ListType, Bounds
  <2> QED
    BY <1>1, <2>1, <2>2 DEF Bounds, Lists
<1> QED
  BY <1>2, <1>3

LEMMA TypePushed ==
  ASSUME TypeInv, raced' \in BOOLEAN, InAppend,
         undefined' \subseteq {"element", "stamp"},
         NEW from, NEW to \in {"loop", "next", "link", "tail", "count", "added"},
         NEW read \in Nat, to = "link" => read <= allocated,
         NEW newList \in Lists, newList.count = list.count \/ newList.count # 0,
         PushStep(from, to, read, newList)
  PROVE  TypeInv'
<1>1. ListType /\ RecvType /\ MainType /\ Bounds
  BY TypeParts DEF TypeInv
<1>2. /\ recv' = [recv EXCEPT !.at = to, !.read = read] /\ list' = newList
      /\ UNCHANGED <<content, main, events, time>> /\ UNCHANGED <<allocated, done>>
  BY DEF PushStep, content
<1>3. /\ RecvType' /\ ListType' /\ MainType'
      /\ recv'.at = to /\ recv'.read = read /\ recv'.adding = recv.adding
  BY <1>1, <1>2 DEF RecvType, ListType, MainType, Lists
<1>4. Bounds'
  BY <1>1, <1>2, <1>3 DEF Bounds, Lists
<1> QED
  BY <1>2, <1>3, <1>4, AccessTypes DEF TypeInv

LEMMA TypePushStep ==
  ASSUME TypeInv, raced' \in BOOLEAN, PushBack
  PROVE  TypeInv'
<1> USE BoundAssumption
<1>1. ListType /\ RecvType /\ ElementsType /\ FlagsType /\ Bounds /\ list \in Lists
  BY TypeParts, ListIsOne DEF TypeInv
<1>2. InAppend
  BY DEF PushBack, PushToHead, PushReadsTail, PushLinks, PushToTail, PushReadsCount,
         PushWritesCount, PushStep, InAppend
<1>3. undefined' \subseteq {"element", "stamp"}
  BY <1>1 DEF PushBack, PushToHead, PushReadsTail, PushLinks, PushToTail, PushReadsCount,
              PushWritesCount, FlagsType
<1>4. /\ allocated \in Links /\ allocated <= allocated
      /\ list.tail \in Nat /\ list.tail <= allocated
      /\ list.count \in Nat /\ recv.read + 1 \in Nat /\ recv.read + 1 # 0
  BY <1>1, <1>2 DEF ListType, RecvType, ElementsType, Bounds, Links, Items, NULL
<1>5. /\ [list EXCEPT !.head = allocated] \in Lists
      /\ [list EXCEPT !.tail = allocated] \in Lists
      /\ [list EXCEPT !.next[recv.read] = allocated] \in Lists
      /\ [list EXCEPT !.count = recv.read + 1] \in Lists
  BY <1>4, ListChange
<1>6. /\ [list EXCEPT !.head = allocated].count = list.count
      /\ [list EXCEPT !.tail = allocated].count = list.count
      /\ [list EXCEPT !.next[recv.read] = allocated].count = list.count
      /\ [list EXCEPT !.count = recv.read + 1].count = recv.read + 1
  BY <1>1 DEF ListType
<1>7. CASE PushToHead
  <2>1. \/ PushStep("head", "tail", 0, [list EXCEPT !.head = allocated])
        \/ PushStep("head", "next", 0, list)
    BY <1>7 DEF PushToHead
  <2>2. CASE PushStep("head", "tail", 0, [list EXCEPT !.head = allocated])
    BY <1>2, <1>3, <1>5, <1>6, <2>2, TypePushed
  <2>3. CASE PushStep("head", "next", 0, list)
    BY <1>1, <1>2, <1>3, <2>3, TypePushed
  <2> QED
    BY <2>1, <2>2, <2>3
<1>8. CASE PushReadsTail
  <2>1. PushStep("next", "link", list.tail, list)
    BY <1>8 DEF PushReadsTail
  <2> QED
    BY <1>1, <1>2, <1>3, <1>4, <2>1, TypePushed
<1>9. CASE PushLinks
  <2> DEFINE new == IF recv.read = NULL THEN list
                    ELSE [list EXCEPT !.next[recv.read] = allocated]
  <2>1. PushStep("link", "tail", 0, new)
    BY <1>9 DEF PushLinks
  <2>2. new \in Lists /\ new.count = list.count
    BY <1>1, <1>5, <1>6
  <2> HIDE DEF new
  <2> QED
    BY <1>2, <1>3, <2>1, <2>2, TypePushed
<1>10. CASE PushToTail
  <2>1. PushStep("tail", "count", 0, [list EXCEPT !.tail = allocated])
    BY <1>10 DEF PushToTail
  <2> QED
    BY <1>2, <1>3, <1>5, <1>6, <2>1, TypePushed
<1>11. CASE PushReadsCount
  <2>1. PushStep("count", "added", list.count, list)
    BY <1>11 DEF PushReadsCount
  <2> QED
    BY <1>1, <1>2, <1>3, <1>4, <2>1, TypePushed
<1>12. CASE PushWritesCount
  <2>1. PushStep("added", "loop", 0, [list EXCEPT !.count = recv.read + 1])
    BY <1>12 DEF PushWritesCount
  <2> QED
    BY <1>2, <1>3, <1>4, <1>5, <1>6, <2>1, TypePushed
<1> QED
  BY <1>7, <1>8, <1>9, <1>10, <1>11, <1>12 DEF PushBack

\* The main loop: an element is processed.
LEMMA TypeProcessedStep ==
  ASSUME TypeInv, raced' \in BOOLEAN, ExecuteCommand \/ SkipDelay \/ EndDelay
  PROVE  TypeInv'
<1> USE KindsAssumption, ModuliAssumption, BoundAssumption
<1>1. ListType /\ RecvType /\ MainType /\ ElementsType /\ FlagsType /\ TimeType /\ Bounds
  BY TypeParts DEF TypeInv
<1>2. PICK to \in {"publish", "pop"} : Processed(to)
  BY DEF ExecuteCommand, SkipDelay, EndDelay
<1>3. /\ main' = [main EXCEPT !.at = to, !.item = list.head] /\ done' = list.head
      /\ UNCHANGED <<kind, allocated, resumeTime, list, recv, events, undefined>>
  BY <1>2 DEF Processed
<1>4. main.at = "idle" /\ list.head \in Items /\ list.head <= allocated
  BY <1>1 DEF ExecuteCommand, SkipDelay, EndDelay, Process, ListType, Links, Bounds
<1>5. ListType' /\ RecvType' /\ MainType' /\ main'.at = to /\ main'.item = list.head
  BY <1>1, <1>3, <1>4 DEF ListType, RecvType, MainType, Links
<1>6. ElementsType'
  BY <1>1, <1>3, <1>4 DEF ElementsType, Items
<1>7. passedEnd' \in BOOLEAN /\ TimeType'
  <2>1. CASE ExecuteCommand \/ SkipDelay
    BY <1>1, <2>1 DEF ExecuteCommand, SkipDelay, time, TimeType, FlagsType
  <2>2. CASE EndDelay
    <3>1. tick' = 0 /\ waited' = None /\ passedEnd' = FALSE /\ 0 \in 0 .. TickMod - 1
      BY <2>2 DEF EndDelay
    <3> QED
      BY <3>1 DEF TimeType
  <2> QED
    BY <2>1, <2>2
<1>8. FlagsType'
  BY <1>1, <1>3, <1>7 DEF FlagsType, events
<1>9. Bounds'
  BY <1>1, <1>3, <1>4, <1>5 DEF Bounds, InAppend, Items
<1> QED
  BY <1>5, <1>6, <1>7, <1>8, <1>9, TypePartsNext DEF TypeInv

LEMMA TypeBeginStep ==
  ASSUME TypeInv, raced' \in BOOLEAN, BeginDelay
  PROVE  TypeInv'
<1> USE KindsAssumption, ModuliAssumption, BoundAssumption
<1>1. ListType /\ RecvType /\ MainType /\ ElementsType /\ FlagsType /\ TimeType /\ Bounds
  BY TypeParts DEF TypeInv
<1>2. PICK t \in 0 .. TickMod - 1 :
        DelayBegins(t, (t + kind[list.head]) % TickMod)
  BY DEF BeginDelay
<1>3. list.head \in Items /\ kind[list.head] \in Nat
  BY <1>1, <1>2 DEF DelayBegins, Process, ListType, ElementsType, Links, Kinds
<1>4. (t + kind[list.head]) % TickMod \in 0 .. TickMod - 1
  BY <1>3
<1>5. ListType' /\ RecvType' /\ MainType'
  BY <1>1, <1>2 DEF DelayBegins, ListType, RecvType, MainType
<1>6. ElementsType'
  BY <1>1, <1>2, <1>4 DEF DelayBegins, ElementsType
<1>7. FlagsType'
  BY <1>1, <1>2 DEF DelayBegins, FlagsType, events
<1>8. TimeType'
  BY <1>1, <1>2 DEF DelayBegins, TimeType
<1>9. Bounds'
  BY <1>1, <1>2 DEF DelayBegins, Bounds, InAppend
<1> QED
  BY <1>5, <1>6, <1>7, <1>8, <1>9, TypePartsNext DEF TypeInv

\* The main loop: a step that leaves the elements alone.
LEMMA TypeMainMoved ==
  ASSUME TypeInv, raced' \in BOOLEAN,
         NEW to \in Handling \cup Quiet, NEW read \in Nat, NEW newList \in Lists,
         main' = [main EXCEPT !.at = to, !.read = read], list' = newList,
         undefined' \subseteq {"element", "stamp"},
         UNCHANGED <<content, recv, time>>,
         processActive' \in BOOLEAN, updateActive' \in BOOLEAN, unanswered' \in BOOLEAN,
         to \in Handling => main.at \in Handling,
         to = "link" => read <= allocated,
         to \in {"tail", "clear", "head", "link", "count"} => newList.count # 0,
         to = "popped" => read # 0
  PROVE  TypeInv'
<1>1. ListType /\ RecvType /\ MainType /\ ElementsType /\ FlagsType /\ TimeType /\ Bounds
  BY TypeParts DEF TypeInv
<1>2. UNCHANGED <<kind, resumeTime, allocated, done, tick, waited, passedEnd>>
  BY DEF content, time
<1>3. MainType' /\ main'.at = to /\ main'.read = read /\ main'.item = main.item
  BY <1>1 DEF MainType, Handling, Quiet
<1>4. ListType'
  BY DEF Lists, ListType
<1>5. RecvType' /\ ElementsType' /\ FlagsType' /\ TimeType'
  BY <1>1, <1>2 DEF RecvType, ElementsType, FlagsType, TimeType
<1>6. Bounds'
  BY <1>1, <1>2, <1>3 DEF Bounds, Lists, InAppend
<1> QED
  BY <1>3, <1>4, <1>5, <1>6, TypePartsNext DEF TypeInv

LEMMA TypePopStep ==
  ASSUME TypeInv, raced' \in BOOLEAN, Published \/ PopFront \/ Stamp
  PROVE  TypeInv'
<1> USE BoundAssumption
<1>1. ListType /\ MainType /\ ElementsType /\ FlagsType /\ Bounds /\ list \in Lists
  BY TypeParts, ListIsOne DEF TypeInv
<1>2. /\ UNCHANGED <<content, recv, events, time>>
      /\ undefined' \subseteq {"element", "stamp"}
      /\ processActive' \in BOOLEAN /\ updateActive' \in BOOLEAN /\ unanswered' \in BOOLEAN
  BY <1>1 DEF Published, Stamp, PopFront, PopTestsCount, PopTestsTail, PopClearsTail,
              PopReadsNext, PopMovesHead, PopReadsCount, PopWritesCount, PopStep,
              events, FlagsType
<1>3. ASSUME NEW from \in Handling \cup {"stamp"}, NEW to \in Handling \cup Quiet,
             NEW read \in Nat, NEW newList \in Lists,
             PopStep(from, to, read, newList),
             to \in Handling => from \in Handling,
             to = "link" => read <= allocated,
             to \in {"tail", "clear", "head", "link", "count"} => newList.count # 0,
             to = "popped" => read # 0
      PROVE  TypeInv'
  <2>1. main.at = from /\ main' = [main EXCEPT !.at = to, !.read = read] /\ list' = newList
    BY <1>3 DEF PopStep
  <2> QED
    BY <1>2, <1>3, <2>1, TypeMainMoved
<1>4. AfterPop \in {"idle", "stamp"}
  BY DEF AfterPop
<1>5. CASE Published
  <2>1. main.at = "publish" /\ list' = list
    BY <1>5 DEF Published
  <2>2. PICK to \in {"pop"}, read \in Nat : main' = [main EXCEPT !.at = to, !.read = read]
    BY <1>1, <1>5 DEF Published, MainType
  <2>3. UNCHANGED <<content, recv, time>>
    BY <1>2
  <2>4. to \in Handling /\ main.at \in Handling
    BY <2>1, <2>2 DEF Handling
  <2> QED
    BY <1>1, <1>2, <2>1, <2>2, <2>3, <2>4, TypeMainMoved
<1>6. CASE PopTestsCount
  <2>1. PICK to \in {"tail", "idle", "stamp"} :
          PopStep("pop", to, 0, list) /\ (to = "tail" => list.count # 0)
    BY <1>1, <1>4, <1>6 DEF PopTestsCount, ListType
  <2> QED
    BY <1>1, <1>3, <2>1 DEF Handling, Quiet
<1>7. CASE PopTestsTail
  <2>1. PICK to \in {"clear", "head"} : PopStep("tail", to, 0, list)
    BY <1>7 DEF PopTestsTail
  <2>2. list.count # 0
    BY <1>1, <2>1 DEF PopStep, Bounds
  <2> QED
    BY <1>1, <1>3, <2>1, <2>2 DEF Handling, Quiet
<1>8. CASE PopClearsTail
  <2>1. PopStep("clear", "head", 0, [list EXCEPT !.tail = NULL])
    BY <1>8 DEF PopClearsTail
  <2>2. list.count # 0
    BY <1>1, <2>1 DEF PopStep, Bounds
  <2>3. NULL \in Links /\ NULL <= allocated
    BY <1>1 DEF Links, NULL, ElementsType
  <2> DEFINE new == [list EXCEPT !.tail = NULL]
  <2>4. new \in Lists
    BY <2>3, ListChange
  <2>5. PopStep("clear", "head", 0, new) /\ new.count = list.count
    BY <1>1, <2>1 DEF ListType
  <2> HIDE DEF new
  <2> QED
    BY <1>3, <2>2, <2>4, <2>5 DEF Handling, Quiet
<1>9. CASE PopReadsNext
  <2>1. PopStep("head", "link", list.next[main.item], list)
    BY <1>9 DEF PopReadsNext
  <2>2. list.count # 0 /\ main.item \in Items
    BY <1>1, <2>1 DEF PopStep, Bounds, Handling, ElementsType, Items
  <2>3. list.next[main.item] \in Nat /\ list.next[main.item] <= allocated
    BY <1>1, <2>2 DEF ListType, Bounds, Links, Items, NULL
  <2> QED
    BY <1>1, <1>3, <2>1, <2>2, <2>3 DEF Handling, Quiet
<1>10. CASE PopMovesHead
  <2>1. PopStep("link", "count", 0, [list EXCEPT !.head = main.read])
    BY <1>10 DEF PopMovesHead
  <2>2. list.count # 0 /\ main.read \in Links /\ main.read <= allocated
    BY <1>1, <2>1 DEF PopStep, Bounds, MainType, ElementsType, Links, Items, NULL
  <2> DEFINE new == [list EXCEPT !.head = main.read]
  <2>3. new \in Lists
    BY <2>2, ListChange
  <2>4. PopStep("link", "count", 0, new) /\ new.count = list.count
    BY <1>1, <2>1 DEF ListType
  <2> HIDE DEF new
  <2> QED
    BY <1>3, <2>2, <2>3, <2>4 DEF Handling, Quiet
<1>11. CASE PopReadsCount
  <2>1. PopStep("count", "popped", list.count, list)
    BY <1>11 DEF PopReadsCount
  <2>2. list.count # 0 /\ list.count \in Nat
    BY <1>1, <2>1 DEF PopStep, Bounds, ListType
  <2> QED
    BY <1>1, <1>3, <2>1, <2>2 DEF Handling, Quiet
<1>12. CASE PopWritesCount
  <2>1. PopStep("popped", AfterPop, 0, [list EXCEPT !.count = main.read - 1])
    BY <1>12 DEF PopWritesCount
  <2>2. main.read - 1 \in Nat
    BY <1>1, <2>1 DEF PopStep, Bounds, MainType
  <2>3. NULL \in Links /\ NULL <= allocated
    BY <1>1 DEF Links, NULL, ElementsType
  <2>4. [list EXCEPT !.count = main.read - 1] \in Lists
    BY <2>2, <2>3, ListChange
  <2> QED
    BY <1>3, <1>4, <2>1, <2>4 DEF Handling, Quiet
<1>13. CASE Stamp
  <2>1. PopStep("stamp", "idle", 0, list)
    BY <1>13 DEF Stamp
  <2> QED
    BY <1>1, <1>3, <2>1 DEF Handling, Quiet
<1> QED
  BY <1>5, <1>6, <1>7, <1>8, <1>9, <1>10, <1>11, <1>12, <1>13 DEF PopFront

LEMMA TypeQuietStep ==
  ASSUME TypeInv, raced' \in BOOLEAN,
         StateRequested \/ ProcessFreed \/ StateUpdate \/ TableCleared
           \/ LinkConnected \/ LinkDisconnected \/ Tick \/ UNCHANGED system
  PROVE  TypeInv'
<1> USE ModuliAssumption
<1>1. ListType /\ MainType /\ ElementsType /\ FlagsType /\ TimeType /\ Bounds
      /\ list \in Lists /\ RecvType
  BY TypeParts, ListIsOne DEF TypeInv
<1>2. CASE Tick
  <2>1. /\ tick' = (tick + 1) % TickMod /\ passedEnd' = passedEnd
        /\ waited' = IF waited < TickMod THEN waited + 1 ELSE waited
        /\ waited # None
        /\ UNCHANGED <<list, content, recv, main, events, undefined>>
    BY <1>2 DEF Tick
  <2>2. TimeType'
    BY <1>1, <2>1 DEF TimeType
  <2>3. ListType' /\ RecvType' /\ MainType' /\ ElementsType' /\ FlagsType' /\ Bounds'
    BY <1>1, <2>1 DEF ListType, RecvType, MainType, ElementsType, FlagsType, Bounds,
                      InAppend, content, events
  <2> QED
    BY <2>2, <2>3, TypePartsNext DEF TypeInv
<1>3. CASE StateUpdate
  <2>1. /\ UNCHANGED <<list, content, recv, time, undefined>>
        /\ processActive' \in BOOLEAN /\ updateActive' \in BOOLEAN
        /\ unanswered' \in BOOLEAN /\ main.read \in Nat
    BY <1>1, <1>3 DEF StateUpdate, UpdateBegins, UpdatePublishes, UpdateEnds, FlagsType,
                      events, MainType
  <2>2. PICK to \in Quiet : main' = [main EXCEPT !.at = to, !.read = main.read]
    BY <1>1, <1>3 DEF StateUpdate, UpdateBegins, UpdatePublishes, UpdateEnds, Quiet, MainType
  <2> QED
    BY <1>1, <2>1, <2>2, TypeMainMoved DEF FlagsType, Quiet, Handling
<1>4. CASE StateRequested \/ ProcessFreed \/ TableCleared
             \/ LinkConnected \/ LinkDisconnected \/ UNCHANGED system
  <2>1. UNCHANGED <<list, content, recv, main, time>>
    BY <1>4 DEF StateRequested, ProcessFreed, TableCleared, LinkConnected,
                LinkDisconnected, system
  <2>2. FlagsType'
    BY <1>1, <1>4 DEF StateRequested, ProcessFreed, TableCleared, LinkConnected,
                      LinkDisconnected, system, events, time, FlagsType
  <2>3. ListType' /\ RecvType' /\ MainType' /\ ElementsType' /\ TimeType' /\ Bounds'
    BY <1>1, <2>1 DEF ListType, RecvType, MainType, ElementsType, TimeType, Bounds,
                      InAppend, content, time
  <2> QED
    BY <2>2, <2>3, TypePartsNext DEF TypeInv
<1> QED
  BY <1>2, <1>3, <1>4

LEMMA TypeStep == TypeInv /\ [Next]_vars => TypeInv'
<1> SUFFICES ASSUME TypeInv, [Next]_vars PROVE TypeInv'
  OBVIOUS
<1>1. raced' \in BOOLEAN
  BY TypeParts DEF TypeInv, FlagsType, Next, vars
<1>2. Step \/ UNCHANGED system
  BY DEF Next, vars
<1> QED
  BY <1>1, <1>2, TypeMessageStep, TypeAllocateStep, TypePushStep, TypeProcessedStep,
     TypeBeginStep, TypePopStep, TypeQuietStep
  DEF Step, ReceiveThread, ProcessCommand

LEMMA TypeInvariant == Spec => []TypeInv
BY TypeInit, TypeStep, PTL DEF Spec

\* Whatever the threads do to the list, every variable keeps its type; the
\* count of the list, from which the main loop takes 1, never falls below 0.
THEOREM GatewayRelayTypeCorrect == Spec => []TypeOK
<1>1. TypeInv => TypeOK
  BY DEF TypeInv
<1> QED
  BY <1>1, TypeInvariant, PTL

-----------------------------------------------------------------------------
(* The list *)

ShapeInv == TypeInv /\ (~raced => Shape)

LEMMA ShapeInit == Init => ShapeInv
<1> SUFFICES ASSUME Init PROVE Shape
  BY TypeInit DEF ShapeInv
<1> QED
  BY BoundAssumption
  DEF Init, Shape, Linked, EndsAt, ReadsHold, Race, InAppend, Unlinking, First, FirstTail,
      LastLinked, LastTail, CountedIn, CountedOut, Handling, Items, NULL

LEMMA Numbers ==
  ASSUME TypeInv
  PROVE  /\ allocated \in Nat /\ done \in Nat /\ MaxItems \in Nat
         /\ allocated <= MaxItems /\ done <= allocated
         /\ \A i \in Nat : i # 0 /\ i <= allocated => i \in Items
BY TypeParts, BoundAssumption DEF TypeInv, ElementsType, Items

\* Steps in which both threads stay outside of their accesses to the list, or
\* where they were.
LEMMA ShapeQuiet ==
  ASSUME TypeInv, Shape, UNCHANGED <<list, allocated, done>>,
         \/ recv' = recv
         \/ recv.at \in {"wait", "loop"} /\ recv'.at \in {"wait", "loop"},
         \/ main' = main
         \/ main.at \in Quiet /\ main'.at \in Quiet,
         "element" \notin undefined'
  PROVE  Shape'
BY Numbers DEF Shape, Linked, EndsAt, ReadsHold, Race, InAppend, Unlinking, First, FirstTail,
       LastLinked, LastTail, CountedIn, CountedOut, Handling, Quiet

LEMMA ShapeQuietSteps ==
  ASSUME TypeInv, Shape,
         \/ CommandsArrive \/ NextCommand \/ MessageDone \/ StateRequested
         \/ BeginDelay \/ ProcessFreed \/ Stamp \/ StateUpdate
         \/ TableCleared \/ LinkConnected \/ LinkDisconnected \/ Tick
         \/ UNCHANGED system
  PROVE  Shape'
<1>1. RecvType /\ MainType /\ ListType
  BY TypeParts DEF TypeInv
<1>2. CASE CommandsArrive \/ NextCommand \/ MessageDone
  <2>1. /\ UNCHANGED <<list, allocated, done, main, undefined>>
        /\ recv.at \in {"wait", "loop"} /\ recv'.at \in {"wait", "loop"}
    BY <1>1, <1>2 DEF CommandsArrive, NextCommand, MessageDone, content, RecvType
  <2> QED
    BY <2>1, ShapeQuiet DEF Shape
<1>3. CASE StateRequested \/ BeginDelay \/ TableCleared \/ LinkConnected
             \/ LinkDisconnected \/ Tick \/ UNCHANGED system
  <2>1. UNCHANGED <<list, allocated, done, recv, main, undefined>>
    BY <1>3 DEF StateRequested, BeginDelay, DelayBegins, TableCleared, LinkConnected,
                LinkDisconnected, Tick, system, content
  <2> QED
    BY <2>1, ShapeQuiet DEF Shape
<1>4. CASE StateUpdate
  <2>1. /\ UNCHANGED <<list, allocated, done, recv, undefined>>
        /\ main.at \in Quiet /\ main'.at \in Quiet
    BY <1>1, <1>4 DEF StateUpdate, UpdateBegins, UpdatePublishes, UpdateEnds, content,
                      Quiet, MainType
  <2> QED
    BY <2>1, ShapeQuiet DEF Shape
<1>5. CASE Stamp
  <2>1. /\ UNCHANGED <<list, allocated, done, recv>>
        /\ main.at \in Quiet /\ main'.at \in Quiet
        /\ "element" \notin undefined'
    BY <1>1, <1>5 DEF Stamp, PopStep, content, Quiet, MainType, Shape
  <2> QED
    BY <2>1, ShapeQuiet
<1>6. CASE ProcessFreed
  <2>1. main.at = "idle" /\ list.head # NULL /\ list.head <= done
    BY <1>6 DEF ProcessFreed
  <2>2. list.head = done + 1
    BY <2>1 DEF Shape, Linked, First, Unlinking
  <2> QED
    BY <2>1, <2>2, Numbers
<1> QED
  BY <1>2, <1>3, <1>4, <1>5, <1>6

\* The elements are numbered from 1; a removal that overlaps with an append is
\* that of an element ahead of the last one.
LEMMA Order ==
  ASSUME TypeInv
  PROVE  /\ First \in Nat \ {0} /\ FirstTail \in Nat \ {0}
         /\ First = done \/ First = done + 1
         /\ First <= FirstTail
         /\ Shape /\ InAppend /\ Unlinking => done + 1 < allocated
<1>1. MainType /\ Bounds
  BY TypeParts DEF TypeInv
<1>2. main.at = "publish" \/ Unlinking => done # 0 /\ main.item = done
  BY <1>1 DEF Bounds, Handling, Unlinking
<1> QED
  BY <1>2, Numbers DEF First, FirstTail, Unlinking, Shape, Race

LEMMA ShapeAllocate ==
  ASSUME TypeInv, Shape, Allocate, ~Race'
  PROVE  Shape'
<1>1. RecvType /\ MainType /\ ListType
  BY TypeParts DEF TypeInv
<1>2. /\ recv.at = "loop" /\ recv'.at = "head" /\ allocated' = allocated + 1
      /\ UNCHANGED <<list, done, main, undefined>>
  BY <1>1 DEF Allocate, RecvType
<1> QED
  BY <1>2, Numbers
  DEF Shape, Linked, EndsAt, ReadsHold, InAppend, Unlinking, First, FirstTail,
      LastLinked, LastTail, CountedIn, CountedOut, Handling

LEMMA ShapePush ==
  ASSUME TypeInv, Shape, PushBack, ~Race'
  PROVE  Shape'
<1>1. RecvType /\ MainType /\ ListType /\ Bounds
  BY TypeParts DEF TypeInv
<1>2. UNCHANGED <<main, allocated, done>>
  BY DEF PushBack, PushToHead, PushReadsTail, PushLinks, PushToTail, PushReadsCount,
         PushWritesCount, PushStep, content
<1>3. allocated \in Items /\ allocated # 0
  BY <1>1, Numbers
  DEF PushBack, PushToHead, PushReadsTail, PushLinks, PushToTail, PushReadsCount,
      PushWritesCount, PushStep, Bounds, InAppend
<1>4. CASE PushToHead
  <2>1. CASE list.head = NULL
    <3>1. /\ recv.at = "head" /\ recv'.at = "tail" /\ undefined' = undefined
          /\ list'.head = allocated /\ list'.tail = list.tail
          /\ list'.next = list.next /\ list'.count = list.count
      BY <1>1, <1>4, <2>1 DEF PushToHead, PushStep, RecvType, ListType
    <3>2. First > allocated - 1
      BY <2>1, <3>1, Numbers, Order DEF Shape, Linked, LastLinked, NULL
    <3>3. ~Unlinking /\ main.at # "publish" /\ done = allocated - 1
      BY <3>1, <3>2, Numbers DEF Shape, First, Unlinking, LastLinked, Race, InAppend
    <3>4. First = allocated /\ FirstTail = allocated
      BY <3>3, Numbers DEF First, FirstTail, Unlinking
    <3>5. /\ First' = First /\ FirstTail' = FirstTail /\ CountedOut' = CountedOut
          /\ LastLinked' = allocated /\ LastTail' = allocated - 1
          /\ CountedIn' = CountedIn /\ InAppend /\ InAppend'
      BY <1>2, <3>1 DEF First, FirstTail, Unlinking, CountedOut, LastLinked, LastTail,
                        CountedIn, InAppend
    <3>6. Linked(First, LastLinked)'
      BY <1>2, <1>3, <3>1, <3>4, <3>5, Numbers DEF Shape, Linked, LastLinked, Items
    <3>7. EndsAt(FirstTail, LastTail)'
      BY <1>2, <3>1, <3>4, <3>5, Numbers DEF Shape, EndsAt, LastTail
    <3>8. ReadsHold'
      BY <1>2, <3>1, <3>3, <3>4, <3>5, Numbers DEF Shape, ReadsHold, Unlinking
    <3> QED
      BY <1>2, <3>1, <3>3, <3>5, <3>6, <3>7, <3>8, Numbers DEF Shape
  <2>2. CASE list.head # NULL
    <3>1. /\ recv.at = "head" /\ recv'.at = "next" /\ UNCHANGED <<list, undefined>>
      BY <1>1, <1>4, <2>2 DEF PushToHead, PushStep, RecvType
    <3> QED
      BY <1>2, <2>2, <3>1, Numbers
      DEF Shape, Linked, EndsAt, ReadsHold, InAppend, Unlinking, First, FirstTail,
          LastLinked, LastTail, CountedIn, CountedOut, Handling
  <2> QED
    BY <2>1, <2>2
<1>5. CASE PushReadsTail
  <2>1. /\ recv.at = "next" /\ recv'.at = "link" /\ recv'.read = list.tail
        /\ UNCHANGED <<list, undefined>>
    BY <1>1, <1>5 DEF PushReadsTail, PushStep, RecvType
  <2>2. FirstTail <= allocated - 1
    BY <2>1, Numbers, Order
    DEF Shape, ReadsHold, First, FirstTail, LastLinked, Unlinking, InAppend
  <2>3. list.tail = allocated - 1
    BY <2>1, <2>2 DEF Shape, EndsAt, LastTail
  <2> QED
    BY <1>2, <2>1, <2>3, Numbers
    DEF Shape, Linked, EndsAt, ReadsHold, InAppend, Unlinking, First, FirstTail,
        LastLinked, LastTail, CountedIn, CountedOut, Handling
<1>6. CASE PushLinks
  <2>1. recv.at = "link" /\ recv.read = allocated - 1 /\ First <= allocated - 1
    BY <1>6 DEF PushLinks, PushStep, Shape, ReadsHold, LastLinked
  <2>2. recv.read # NULL /\ recv.read \in Items
    BY <2>1, Numbers, Order DEF NULL
  <2>3. list.head = First
    BY <2>1 DEF Shape, Linked, LastLinked
  <2>4. ~Freed(recv.read)
    BY <2>1, <2>3, Numbers, Order DEF Freed
  <2>5. /\ recv'.at = "tail" /\ undefined' = undefined
        /\ list'.head = list.head /\ list'.tail = list.tail /\ list'.count = list.count
        /\ list'.next = [list.next EXCEPT ![allocated - 1] = allocated]
    BY <1>1, <1>6, <2>1, <2>2, <2>4 DEF PushLinks, PushStep, RecvType, ListType
  <2>6. \A i \in Items : list'.next[i] = IF i = allocated - 1 THEN allocated
                                                             ELSE list.next[i]
    BY <1>1, <2>1, <2>2, <2>5 DEF ListType
  <2>7. /\ First' = First /\ FirstTail' = FirstTail /\ CountedOut' = CountedOut
        /\ LastLinked = allocated - 1 /\ LastLinked' = allocated
        /\ LastTail = allocated - 1 /\ LastTail' = allocated - 1
        /\ CountedIn' = CountedIn /\ InAppend /\ InAppend'
    BY <1>2, <2>1, <2>5 DEF First, FirstTail, Unlinking, CountedOut, LastLinked, LastTail,
                            CountedIn, InAppend
  <2>8. Linked(First, LastLinked)'
    BY <1>2, <2>1, <2>3, <2>5, <2>6, <2>7, Numbers, Order DEF Shape, Linked, Items
  <2>9. EndsAt(FirstTail, LastTail)'
    BY <2>5, <2>7 DEF Shape, EndsAt
  <2>10. ReadsHold'
    BY <1>2, <2>1, <2>5, <2>7, Numbers, Order DEF Shape, ReadsHold, Unlinking
  <2> QED
    BY <1>2, <2>1, <2>5, <2>7, <2>8, <2>9, <2>10, Numbers DEF Shape
<1>7. CASE PushToTail
  <2>1. /\ recv.at = "tail" /\ recv'.at = "count" /\ undefined' = undefined
        /\ list'.head = list.head /\ list'.tail = allocated
        /\ list'.next = list.next /\ list'.count = list.count
    BY <1>1, <1>7 DEF PushToTail, PushStep, RecvType, ListType
  <2>2. /\ First' = First /\ FirstTail' = FirstTail /\ CountedOut' = CountedOut
        /\ LastLinked = allocated /\ LastLinked' = allocated
        /\ LastTail = allocated - 1 /\ LastTail' = allocated
        /\ CountedIn' = CountedIn /\ InAppend /\ InAppend'
    BY <1>2, <2>1 DEF First, FirstTail, Unlinking, CountedOut, LastLinked, LastTail,
                      CountedIn, InAppend
  <2>3. FirstTail <= allocated
    BY <2>2, Numbers, Order DEF Shape, FirstTail, Unlinking
  <2>4. Linked(First, LastLinked)' /\ EndsAt(FirstTail, LastTail)'
    BY <2>1, <2>2, <2>3 DEF Shape, Linked, EndsAt
  <2>5. ReadsHold'
    BY <1>2, <2>1, <2>2, Numbers, Order DEF Shape, ReadsHold, Unlinking
  <2> QED
    BY <1>2, <2>1, <2>2, <2>4, <2>5 DEF Shape
<1>8. CASE PushReadsCount
  <2>1. /\ recv.at = "count" /\ recv'.at = "added" /\ recv'.read = list.count
        /\ UNCHANGED <<list, undefined>>
    BY <1>1, <1>8 DEF PushReadsCount, PushStep, RecvType
  <2> QED
    BY <1>2, <2>1, Numbers
    DEF Shape, Linked, EndsAt, ReadsHold, InAppend, Unlinking, First, FirstTail,
        LastLinked, LastTail, CountedIn, CountedOut, Handling
<1>9. CASE PushWritesCount
  <2>1. /\ recv.at = "added" /\ recv'.at = "loop" /\ undefined' = undefined
        /\ list'.head = list.head /\ list'.tail = list.tail
        /\ list'.next = list.next /\ list'.count = list.count + 1
    BY <1>1, <1>9 DEF PushWritesCount, PushStep, RecvType, ListType, Shape, ReadsHold
  <2>2. main.at # "popped"
    BY <2>1 DEF Shape, Race, InAppend
  <2> QED
    BY <1>2, <2>1, <2>2, Numbers
    DEF Shape, Linked, EndsAt, ReadsHold, InAppend, Unlinking, First, FirstTail,
        LastLinked, LastTail, CountedIn, CountedOut, Handling
<1> QED
  BY <1>4, <1>5, <1>6, <1>7, <1>8, <1>9 DEF PushBack

LEMMA InTurn ==
  ASSUME TypeInv, Shape, ExecuteCommand \/ SkipDelay \/ EndDelay
  PROVE  done' = done + 1
<1>1. main.at = "idle" /\ list.head # NULL /\ done' = list.head
  BY DEF ExecuteCommand, SkipDelay, EndDelay, Process, Processed
<1> QED
  BY <1>1 DEF Shape, Linked, First, Unlinking

\* The steps that process no element.
LEMMA OthersKeepDone ==
  ASSUME [Next]_vars, ~(ExecuteCommand \/ SkipDelay \/ EndDelay)
  PROVE  done' = done
<1>1. CASE CommandsArrive \/ StateRequested \/ ReceiveThread
  BY <1>1 DEF CommandsArrive, StateRequested, ReceiveThread, NextCommand, MessageDone,
              Allocate, PushBack, PushToHead, PushReadsTail, PushLinks, PushToTail,
              PushReadsCount, PushWritesCount, PushStep, content
<1>2. CASE BeginDelay \/ ProcessFreed
  BY <1>2 DEF BeginDelay, DelayBegins, ProcessFreed, content
<1>3. CASE Published \/ PopFront \/ Stamp
  BY <1>3 DEF Published, PopFront, PopTestsCount, PopTestsTail, PopClearsTail, PopReadsNext,
              PopMovesHead, PopReadsCount, PopWritesCount, Stamp, PopStep, content
<1>4. CASE StateUpdate \/ TableCleared \/ LinkConnected \/ LinkDisconnected \/ Tick
  BY <1>4 DEF StateUpdate, UpdateBegins, UpdatePublishes, UpdateEnds, TableCleared,
              LinkConnected, LinkDisconnected, Tick, content
<1>5. CASE UNCHANGED vars
  BY <1>5 DEF vars, system, content
<1> QED
  BY <1>1, <1>2, <1>3, <1>4, <1>5 DEF Next, Step, ProcessCommand

LEMMA ShapeProcessed ==
  ASSUME TypeInv, Shape, ExecuteCommand \/ SkipDelay \/ EndDelay, ~Race'
  PROVE  Shape'
<1>1. RecvType /\ MainType /\ ListType
  BY TypeParts DEF TypeInv
<1>2. PICK to \in {"publish", "pop"} : Process /\ Processed(to)
  BY DEF ExecuteCommand, SkipDelay, EndDelay
<1>3. /\ main.at = "idle" /\ list.head # NULL
      /\ main'.at = to /\ main'.item = list.head /\ done' = list.head
      /\ UNCHANGED <<list, recv, allocated, undefined>>
  BY <1>1, <1>2 DEF Process, Processed, MainType
<1>4. list.head = done + 1 /\ done + 1 <= LastLinked
  BY <1>3 DEF Shape, Linked, First, Unlinking
<1>5. /\ First = done + 1 /\ First' = done + 1
      /\ FirstTail = done + 1 /\ FirstTail' = done + 1
      /\ CountedOut = done /\ CountedOut' = done
      /\ LastLinked' = LastLinked /\ LastTail' = LastTail
      /\ CountedIn' = CountedIn /\ InAppend' = InAppend
  BY <1>3, <1>4, Numbers DEF First, FirstTail, Unlinking, CountedOut, Handling, LastLinked,
                             LastTail, CountedIn, InAppend
<1>6. Linked(First, LastLinked)' /\ EndsAt(FirstTail, LastTail)'
  BY <1>3, <1>5 DEF Shape, Linked, EndsAt
<1>7. ReadsHold'
  BY <1>3, <1>5 DEF Shape, ReadsHold
<1>8. InAppend' /\ main'.at # "publish" => done' < allocated'
  BY <1>3, <1>4, Numbers DEF Race, Unlinking
<1> QED
  BY <1>3, <1>4, <1>5, <1>6, <1>7, <1>8 DEF Shape

LEMMA ShapePop ==
  ASSUME TypeInv, Shape, Published \/ PopFront, ~Race'
  PROVE  Shape'
<1>1. RecvType /\ MainType /\ ListType /\ Bounds
  BY TypeParts DEF TypeInv
<1>2. /\ UNCHANGED <<recv, allocated, done>> /\ undefined' = undefined
      /\ main.at \in Handling /\ main.item = done /\ done # 0
  BY <1>1 DEF Published, PopFront, PopTestsCount, PopTestsTail, PopClearsTail, PopReadsNext,
              PopMovesHead, PopReadsCount, PopWritesCount, PopStep, content, Bounds, Handling
<1>3. /\ LastLinked' = LastLinked /\ LastTail' = LastTail
      /\ CountedIn' = CountedIn /\ InAppend' = InAppend
  BY <1>2 DEF LastLinked, LastTail, CountedIn, InAppend
<1>4. CASE Published
  <2>1. /\ main.at = "publish" /\ main'.at = "pop" /\ list' = list /\ ~InAppend
    BY <1>1, <1>4 DEF Published, MutexIsFree, MainType, InAppend
  <2> QED
    BY <1>2, <1>3, <2>1, Numbers
    DEF Shape, Linked, EndsAt, ReadsHold, Unlinking, First, FirstTail, CountedOut, Handling
<1>5. CASE PopTestsCount
  <2>1. main.at = "pop"
    BY <1>5 DEF PopTestsCount, PopStep
  <2>2. list.count > 0
    BY <1>2, <2>1, Numbers, Order DEF Shape, CountedIn, CountedOut, Handling, Unlinking
  <2>3. main'.at = "tail" /\ list' = list
    BY <1>1, <1>5, <2>2 DEF PopTestsCount, PopStep, MainType
  <2> QED
    BY <1>2, <1>3, <2>1, <2>3, Numbers
    DEF Shape, Linked, EndsAt, ReadsHold, Unlinking, First, FirstTail, CountedOut, Handling
<1>6. CASE PopTestsTail
  <2>1. main.at = "tail" /\ list' = list
    BY <1>6 DEF PopTestsTail, PopStep
  <2>2. FirstTail = done /\ list.tail = IF done <= LastTail THEN LastTail ELSE NULL
    BY <2>1 DEF FirstTail, Shape, EndsAt
  <2>3. done <= LastTail
    BY <2>1, Numbers, Order DEF Unlinking, InAppend, LastTail
  <2>4. CASE done = LastTail
    <3>1. main'.at = "clear"
      BY <1>1, <1>2, <1>6, <2>2, <2>3, <2>4 DEF PopTestsTail, PopStep, MainType
    <3> QED
      BY <1>2, <1>3, <2>1, <2>4, <3>1, Numbers
      DEF Shape, Linked, EndsAt, ReadsHold, Unlinking, First, FirstTail, CountedOut, Handling
  <2>5. CASE done # LastTail
    <3>1. main'.at = "head"
      BY <1>1, <1>2, <1>6, <2>2, <2>3, <2>5 DEF PopTestsTail, PopStep, MainType
    <3>2. EndsAt(FirstTail, LastTail)'
      BY <1>2, <1>3, <2>1, <2>2, <2>3, <2>5, <3>1, Numbers DEF EndsAt, FirstTail, LastTail
    <3> QED
      BY <1>2, <1>3, <2>1, <3>1, <3>2, Numbers
      DEF Shape, Linked, ReadsHold, Unlinking, First, CountedOut, Handling
  <2> QED
    BY <2>4, <2>5
<1>7. CASE PopClearsTail
  <2>1. /\ main.at = "clear" /\ main'.at = "head"
        /\ list'.head = list.head /\ list'.tail = NULL
        /\ list'.next = list.next /\ list'.count = list.count
    BY <1>1, <1>7 DEF PopClearsTail, PopStep, MainType, ListType
  <2>2. done = LastTail
    BY <2>1 DEF Shape, ReadsHold
  <2>3. EndsAt(FirstTail, LastTail)'
    BY <1>2, <1>3, <2>1, <2>2, Numbers DEF EndsAt, FirstTail
  <2> QED
    BY <1>2, <1>3, <2>1, <2>3, Numbers
    DEF Shape, Linked, ReadsHold, Unlinking, First, CountedOut, Handling
<1>8. CASE PopReadsNext
  <2>1. /\ main.at = "head" /\ main'.at = "link" /\ list' = list
        /\ main'.read = list.next[main.item]
    BY <1>1, <1>8 DEF PopReadsNext, PopStep, MainType
  <2>2. list.next[done] = IF done < LastLinked THEN done + 1 ELSE NULL
    <3>1. done \in Items /\ done <= LastLinked /\ First = done
      BY <1>2, <2>1, Numbers DEF Shape, First, Unlinking
    <3>2. LastLinked \in Nat /\ done \in Nat
      BY <1>1, Numbers DEF LastLinked, Bounds, InAppend
    <3> QED
      BY <3>1, <3>2 DEF Shape, Linked
  <2>3. main'.read = IF done < LastLinked THEN done + 1 ELSE NULL
    BY <1>2, <2>1, <2>2
  <2> QED
    BY <1>2, <1>3, <2>1, <2>3, Numbers
    DEF Shape, Linked, EndsAt, ReadsHold, Unlinking, First, FirstTail, CountedOut, Handling
<1>9. CASE PopMovesHead
  <2>1. /\ main.at = "link" /\ main'.at = "count"
        /\ list'.head = main.read /\ list'.tail = list.tail
        /\ list'.next = list.next /\ list'.count = list.count
    BY <1>1, <1>9 DEF PopMovesHead, PopStep, MainType, ListType
  <2>2. main.read = IF done < LastLinked THEN done + 1 ELSE NULL
    BY <2>1 DEF Shape, ReadsHold
  <2>3. First = done /\ First' = done + 1 /\ FirstTail' = FirstTail
        /\ CountedOut' = CountedOut
    BY <1>2, <2>1 DEF First, FirstTail, Unlinking, CountedOut, Handling
  <2>4. LastLinked \in Nat /\ done \in Nat
    BY Numbers, <1>1 DEF LastLinked, Bounds, InAppend
  <2>5. Linked(First, LastLinked)'
    BY <1>3, <2>1, <2>2, <2>3, <2>4 DEF Shape, Linked, Items
  <2>6. EndsAt(FirstTail, LastTail)'
    BY <1>3, <2>1, <2>3 DEF Shape, EndsAt
  <2>7. ReadsHold'
    BY <1>2, <1>3, <2>1, <2>3, <2>4, Numbers, Order
    DEF Shape, ReadsHold, Unlinking, InAppend, LastLinked
  <2> QED
    BY <1>2, <1>3, <2>1, <2>3, <2>5, <2>6, <2>7, Numbers DEF Shape
<1>10. CASE PopReadsCount
  <2>1. /\ main.at = "count" /\ main'.at = "popped" /\ main'.read = list.count
        /\ list' = list
    BY <1>1, <1>10 DEF PopReadsCount, PopStep, MainType
  <2> QED
    BY <1>2, <1>3, <2>1, Numbers
    DEF Shape, Linked, EndsAt, ReadsHold, Unlinking, First, FirstTail, CountedOut, Handling
<1>11. CASE PopWritesCount
  <2>1. /\ main.at = "popped" /\ main'.at \in {"stamp", "idle"}
        /\ list'.head = list.head /\ list'.tail = list.tail
        /\ list'.next = list.next /\ list'.count = list.count - 1
    BY <1>1, <1>11 DEF PopWritesCount, PopStep, MainType, ListType, AfterPop, Shape, ReadsHold
  <2>2. recv.at # "added"
    BY <2>1 DEF Shape, Race, InAppend
  <2> QED
    BY <1>2, <1>3, <2>1, <2>2, Numbers
    DEF Shape, Linked, EndsAt, ReadsHold, Unlinking, First, FirstTail, CountedIn,
        CountedOut, Handling
<1> QED
  BY <1>4, <1>5, <1>6, <1>7, <1>8, <1>9, <1>10, <1>11 DEF PopFront

LEMMA ShapeStep == ShapeInv /\ [Next]_vars => ShapeInv'
<1> SUFFICES ASSUME ShapeInv, [Next]_vars, ~raced' PROVE Shape'
  BY TypeStep DEF ShapeInv
<1>1. CASE UNCHANGED vars
  BY <1>1, ShapeQuietSteps DEF ShapeInv, vars
<1>2. CASE Next
  <2>1. TypeInv /\ Shape /\ ~Race' /\ Step
    BY <1>2 DEF ShapeInv, Next
  <2> QED
    BY <2>1, ShapeQuietSteps, ShapeAllocate, ShapePush, ShapeProcessed, ShapePop
    DEF Step, ReceiveThread, ProcessCommand
<1> QED
  BY <1>1, <1>2

LEMMA ShapeInvariant == Spec => []ShapeInv
BY ShapeInit, ShapeStep, PTL DEF Spec

\* Nothing but a Race spoils the list: for lists of any length and messages of
\* any kind, however the two threads interleave, the list holds the commands
\* that are left, in their order, and no element is used that is not there.
THEOREM OnlyRacesMatter == Spec => []OnlyRacesSpoilTheList
<1>1. ShapeInv => OnlyRacesSpoilTheList
  <2> SUFFICES ASSUME ShapeInv, ~raced
               PROVE  /\ "element" \notin undefined
                      /\ ~InAppend /\ ~InHandler => ListIsRight
    BY DEF OnlyRacesSpoilTheList
  <2>1. TypeInv /\ Shape
    BY DEF ShapeInv
  <2>2. ASSUME ~InAppend, ~InHandler PROVE ListIsRight
    <3>1. /\ First = done + 1 /\ FirstTail = done + 1
          /\ LastLinked = allocated /\ LastTail = allocated
          /\ CountedIn = allocated /\ CountedOut = done
      BY <2>2 DEF First, FirstTail, LastLinked, LastTail, CountedIn, CountedOut, InAppend,
                  InHandler, Unlinking, Handling
    <3> QED
      BY <2>1, <3>1, Numbers DEF Shape, Linked, EndsAt, ListIsRight, NULL
  <2> QED
    BY <2>1, <2>2 DEF Shape
<1> QED
  BY <1>1, ShapeInvariant, PTL

\* Until a Race or the use of freed memory, each element is processed once, in
\* its turn.
THEOREM CommandsComeInTurn == Spec => ProcessedInTurn
<1>1. ShapeInv /\ [Next]_vars => [raced \/ undefined # {} \/ done' = done + 1]_done
  BY InTurn, OthersKeepDone DEF ShapeInv
<1> QED
  BY <1>1, ShapeInvariant, PTL DEF Spec, ProcessedInTurn

-----------------------------------------------------------------------------
(* The mutex *)

\* An element that is being unlinked while its append is not over is a delay
\* of 0 ms: that alone is taken off without the mutex.
MutexInv == Unlinking /\ InAppend /\ main.item = allocated => kind[allocated] = 0

LEMMA MutexKept ==
  ASSUME MutexInv, UNCHANGED <<kind, allocated>>,
         InAppend' => InAppend,
         Unlinking' => Unlinking /\ main'.item = main.item
  PROVE  MutexInv'
BY DEF MutexInv

LEMMA MutexStep == TypeInv /\ MutexInv /\ [Next]_vars => MutexInv'
<1> SUFFICES ASSUME TypeInv, MutexInv, [Next]_vars PROVE MutexInv'
  OBVIOUS
<1>1. RecvType /\ MainType /\ ElementsType /\ Bounds
  BY TypeParts DEF TypeInv
<1>2. CASE \/ CommandsArrive \/ NextCommand \/ MessageDone \/ StateRequested
           \/ BeginDelay \/ ProcessFreed \/ TableCleared \/ LinkConnected
           \/ LinkDisconnected \/ Tick \/ UNCHANGED vars
  <2>1. UNCHANGED <<kind, allocated, main>>
    BY <1>2 DEF CommandsArrive, NextCommand, MessageDone, StateRequested, BeginDelay,
                DelayBegins, ProcessFreed, TableCleared, LinkConnected, LinkDisconnected,
                Tick, vars, system, content
  <2>2. InAppend' => InAppend
    BY <1>1, <1>2 DEF CommandsArrive, NextCommand, MessageDone, StateRequested, BeginDelay,
                DelayBegins, ProcessFreed, TableCleared, LinkConnected, LinkDisconnected,
                Tick, vars, system, InAppend, RecvType
  <2> QED
    BY <2>1, <2>2, MutexKept DEF Unlinking
<1>3. CASE PushBack
  <2>1. UNCHANGED <<kind, allocated, main>> /\ InAppend
    BY <1>3 DEF PushBack, PushToHead, PushReadsTail, PushLinks, PushToTail, PushReadsCount,
                PushWritesCount, PushStep, content, InAppend
  <2> QED
    BY <2>1, MutexKept DEF Unlinking
<1>4. CASE Allocate
  <2>1. allocated' = allocated + 1 /\ UNCHANGED main
    BY <1>4 DEF Allocate
  <2>2. Unlinking => main.item <= allocated
    BY <1>1, Numbers DEF Bounds, Unlinking, Handling
  <2> QED
    BY <2>1, <2>2, Numbers DEF MutexInv, Unlinking
<1>5. CASE ExecuteCommand \/ EndDelay \/ StateUpdate
  <2>1. UNCHANGED <<kind, allocated>> /\ ~Unlinking'
    BY <1>1, <1>5 DEF ExecuteCommand, EndDelay, Processed, StateUpdate, UpdateBegins,
                      UpdatePublishes, UpdateEnds, content, Unlinking, MainType
  <2> QED
    BY <2>1 DEF MutexInv
<1>6. CASE SkipDelay
  <2>1. /\ kind[list.head] = 0 /\ main'.item = list.head
        /\ UNCHANGED <<kind, allocated>>
    BY <1>1, <1>6 DEF SkipDelay, Processed, MainType
  <2> QED
    BY <2>1 DEF MutexInv
<1>7. CASE Published
  <2>1. recv'.at = "wait"
    BY <1>7 DEF Published, MutexIsFree
  <2> QED
    BY <2>1 DEF MutexInv, InAppend
<1>8. CASE PopFront \/ Stamp
  <2>1. /\ UNCHANGED <<kind, allocated, recv>> /\ main'.item = main.item
        /\ Unlinking' => Unlinking
    BY <1>1, <1>8 DEF PopFront, PopTestsCount, PopTestsTail, PopClearsTail, PopReadsNext,
                      PopMovesHead, PopReadsCount, PopWritesCount, Stamp, PopStep, AfterPop,
                      content, Unlinking, MainType
  <2> QED
    BY <2>1, MutexKept DEF InAppend
<1> QED
  BY <1>2, <1>3, <1>4, <1>5, <1>6, <1>7, <1>8 DEF Next, Step, ReceiveThread, ProcessCommand

\* The mutex that a publication takes keeps every command and every delay but
\* that of 0 ms in the list until its own append has returned.
THEOREM RemovalWaitsForAppend == Spec => []AppendEndsBeforeRemoval
<1>1. Init => MutexInv
  BY DEF Init, MutexInv, InAppend
<1>2. MutexInv => AppendEndsBeforeRemoval
  BY DEF MutexInv, AppendEndsBeforeRemoval
<1> QED
  BY <1>1, <1>2, TypeInvariant, MutexStep, PTL DEF Spec

-----------------------------------------------------------------------------
(* The delays *)

LEMMA DelayInit == Init => DelayInv
BY DEF Init, DelayInv, Items

\* A step that touches neither the delay at the head nor the stamps.
LEMMA DelayUntouched ==
  ASSUME DelayInv, UNCHANGED <<done, resumeTime, time>>,
         waited # None => /\ ~InHandler'
                          /\ list'.head = list.head
                          /\ kind'[list.head] = kind[list.head]
  PROVE  DelayInv'
BY DEF DelayInv, time

LEMMA DelayReceiveStep ==
  ASSUME TypeInv, DelayInv, CommandsArrive \/ StateRequested \/ ReceiveThread
  PROVE  DelayInv'
<1>1. ElementsType /\ ListType /\ Bounds
  BY TypeParts DEF TypeInv
<1>2. CASE CommandsArrive \/ StateRequested \/ NextCommand \/ MessageDone
  BY <1>2, DelayUntouched
  DEF CommandsArrive, StateRequested, NextCommand, MessageDone, content, DelayInv, InHandler
<1>3. CASE Allocate
  <2>1. /\ allocated' = allocated + 1 /\ kind' = [kind EXCEPT ![allocated'] = Head(recv.adding)]
        /\ UNCHANGED <<list, done, resumeTime, main, time>>
    BY <1>3 DEF Allocate
  <2>2. waited # None => list.head # allocated' /\ list.head \in Items
    BY <1>1, <2>1, Numbers DEF DelayInv, Bounds, ListType, Links, NULL
  <2>3. waited # None => kind'[list.head] = kind[list.head]
    BY <1>1, <2>1, <2>2 DEF ElementsType
  <2> QED
    BY <2>1, <2>3, DelayUntouched DEF DelayInv, InHandler
<1>4. CASE PushBack
  <2>1. UNCHANGED <<content, main, time>>
    BY <1>4 DEF PushBack, PushToHead, PushReadsTail, PushLinks, PushToTail, PushReadsCount,
                PushWritesCount, PushStep
  <2>2. waited # None => list.head # NULL
    BY Numbers DEF DelayInv, NULL
  <2>3. waited # None => list'.head = list.head
    <3>1. CASE PushToHead
      BY <2>2, <3>1 DEF PushToHead, PushStep
    <3>2. CASE PushReadsTail \/ PushLinks \/ PushToTail \/ PushReadsCount \/ PushWritesCount
      BY <1>1, <3>2 DEF PushReadsTail, PushLinks, PushToTail, PushReadsCount,
                        PushWritesCount, PushStep, ListType
    <3> QED
      BY <1>4, <3>1, <3>2 DEF PushBack
  <2> QED
    BY <2>1, <2>3, DelayUntouched DEF content, DelayInv, InHandler
<1> QED
  BY <1>2, <1>3, <1>4 DEF ReceiveThread

LEMMA DelayMainStep ==
  ASSUME TypeInv, DelayInv,
         Published \/ PopFront \/ Stamp \/ ProcessFreed \/ StateUpdate
           \/ TableCleared \/ LinkConnected \/ LinkDisconnected
  PROVE  DelayInv'
<1>1. CASE Published \/ PopFront \/ Stamp
  <2>1. InHandler /\ UNCHANGED <<content, time>>
    BY <1>1 DEF Published, PopFront, PopTestsCount, PopTestsTail, PopClearsTail,
                PopReadsNext, PopMovesHead, PopReadsCount, PopWritesCount, Stamp, PopStep,
                InHandler
  <2>2. waited = None
    BY <2>1 DEF DelayInv
  <2> QED
    BY <2>1, <2>2 DEF DelayInv, content, time
<1>2. CASE StateUpdate
  <2>1. /\ UNCHANGED <<list, content, time>>
        /\ main'.at \in {"idle", "update", "updated"}
    BY <1>2, TypeParts DEF StateUpdate, UpdateBegins, UpdatePublishes, UpdateEnds,
                           TypeInv, MainType
  <2> QED
    BY <2>1, DelayUntouched DEF content, InHandler
<1>3. CASE ProcessFreed \/ TableCleared \/ LinkConnected \/ LinkDisconnected
  BY <1>3, DelayUntouched
  DEF ProcessFreed, TableCleared, LinkConnected, LinkDisconnected, content, DelayInv, InHandler
<1> QED
  BY <1>1, <1>2, <1>3

LEMMA DelayProcessStep ==
  ASSUME TypeInv, DelayInv, ExecuteCommand \/ SkipDelay \/ EndDelay
  PROVE  DelayInv'
<1>1. done' = list.head /\ list.head > done /\ UNCHANGED resumeTime
  BY DEF ExecuteCommand, SkipDelay, EndDelay, Process, Processed
<1>2. waited' = None /\ passedEnd' = FALSE
  <2>1. CASE ExecuteCommand \/ SkipDelay
    <3>1. kind[list.head] \in {Command, 0} /\ UNCHANGED time
      BY <2>1 DEF ExecuteCommand, SkipDelay
    <3>2. waited = None
      BY <3>1 DEF DelayInv
    <3>3. passedEnd \in BOOLEAN
      BY TypeParts DEF TypeInv, FlagsType
    <3> QED
      BY <3>1, <3>2, <3>3 DEF DelayInv, time
  <2>2. CASE EndDelay
    BY <2>2 DEF EndDelay
  <2> QED
    BY <2>1, <2>2
<1>3. done \in Nat /\ MaxItems \in Nat /\ list.head \in Nat
  BY TypeParts, Numbers DEF TypeInv, ListType, Links, Items, NULL
<1> QED
  BY <1>1, <1>2, <1>3 DEF DelayInv

\* The resume time of a delay whose end is not past the last tick is its end.
LEMMA DelayBeginStep ==
  ASSUME TypeInv, DelayInv, BeginDelay
  PROVE  DelayInv'
<1> USE KindsAssumption, ModuliAssumption, BoundAssumption
<1> DEFINE h == list.head
<1>1. PICK t \in 0 .. TickMod - 1 : DelayBegins(t, (t + kind[h]) % TickMod)
  BY DEF BeginDelay
<1>2. ListType /\ ElementsType /\ TimeType /\ FlagsType
  BY TypeParts DEF TypeInv
<1>3. /\ main.at = "idle" /\ h # NULL /\ h > done
      /\ kind[h] \notin {Command, 0} /\ resumeTime[h] = 0
      /\ resumeTime' = [resumeTime EXCEPT ![h] = (t + kind[h]) % TickMod]
      /\ UNCHANGED <<kind, done, list, main>>
  BY <1>1 DEF DelayBegins, Process
<1>4. h \in Items /\ done \in Nat
  BY <1>2, <1>3, Numbers DEF ListType, Links
<1>5. kind[h] \in Nat /\ kind[h] # 0
  BY <1>2, <1>3, <1>4 DEF ElementsType, Kinds
<1>6. waited' # None
  BY <1>1 DEF DelayBegins
<1>7. ~InHandler' /\ (done < list.head /\ kind[list.head] \notin {Command, 0})'
  BY <1>3 DEF InHandler
<1>8. \A i \in done' + 1 .. MaxItems : i # list'.head => resumeTime'[i] = 0
  <2> SUFFICES ASSUME NEW i \in done + 1 .. MaxItems, i # h
               PROVE  resumeTime'[i] = 0
    BY <1>3
  <2>1. resumeTime[i] = 0
    BY DEF DelayInv
  <2> QED
    BY <1>2, <1>3, <1>4, <2>1 DEF ElementsType, Items
<1>9. ASSUME ~passedEnd'
      PROVE  /\ resumeTime'[list'.head] # 0 /\ kind'[list'.head] < TickMod
             /\ tick' + (kind'[list'.head] - waited') = resumeTime'[list'.head]
  <2>1. /\ ~passedEnd /\ ~(t + kind[h] >= TickMod)
    BY <1>1, <1>9 DEF DelayBegins
  <2>2. waited = None
    BY <1>3, <2>1 DEF DelayInv
  <2>3. tick' = t /\ waited' = 0
    BY <1>1, <2>2 DEF DelayBegins
  <2>4. (t + kind[h]) % TickMod = t + kind[h]
    BY <1>5, <2>1
  <2>5. resumeTime'[h] = t + kind[h]
    BY <1>2, <1>3, <1>4, <2>4 DEF ElementsType
  <2>6. list'.head = h
    BY <1>3
  <2> HIDE DEF h
  <2> QED
    BY <1>3, <1>5, <2>1, <2>3, <2>5, <2>6
<1> QED
  BY <1>6, <1>7, <1>8, <1>9 DEF DelayInv

LEMMA DelayTickStep ==
  ASSUME TypeInv, DelayInv, Tick
  PROVE  DelayInv'
<1> USE KindsAssumption, ModuliAssumption, BoundAssumption
<1> DEFINE h == list.head
<1>1. ListType /\ ElementsType /\ TimeType
  BY TypeParts DEF TypeInv
<1>2. /\ waited # None
      /\ tick' = (tick + 1) % TickMod
      /\ waited' = IF waited < TickMod THEN waited + 1 ELSE waited
      /\ UNCHANGED <<passedEnd, list, kind, resumeTime, allocated, done, main>>
  BY DEF Tick, content
<1>3. /\ ~InHandler /\ done < h /\ kind[h] \notin {Command, 0}
      /\ ~passedEnd => /\ resumeTime[h] # 0 /\ kind[h] < TickMod
                       /\ \/ waited >= kind[h]
                          \/ tick + (kind[h] - waited) = resumeTime[h]
  BY <1>2 DEF DelayInv
<1>4. h \in Items
  BY <1>1, <1>3, Numbers DEF ListType, Links, NULL
<1>5. kind[h] \in Nat /\ resumeTime[h] \in 0 .. TickMod - 1
  BY <1>1, <1>3, <1>4 DEF ElementsType, Kinds
<1>6. waited \in Nat /\ waited' \in Nat /\ waited <= waited' /\ waited' # None
  BY <1>1, <1>2 DEF TimeType
<1>7. ASSUME waited < kind[h], kind[h] < TickMod,
             tick + (kind[h] - waited) = resumeTime[h]
      PROVE  tick' + (kind[h] - waited') = resumeTime[h]
  <2>1. tick \in 0 .. TickMod - 1
    BY <1>1 DEF TimeType
  <2>2. tick + 1 < TickMod
    BY <1>5, <1>6, <1>7, <2>1
  <2>3. tick' = tick + 1
    BY <1>2, <2>1, <2>2
  <2>4. waited < TickMod
    BY <1>5, <1>6, <1>7
  <2> QED
    BY <1>2, <1>5, <1>6, <1>7, <2>1, <2>3, <2>4
<1>8. ~passedEnd => \/ waited' >= kind[h]
                    \/ tick' + (kind[h] - waited') = resumeTime[h]
  BY <1>3, <1>5, <1>6, <1>7
<1>9. \A i \in done' + 1 .. MaxItems : i # list'.head => resumeTime'[i] = 0
  BY <1>2 DEF DelayInv
<1>10. ~InHandler'
  BY <1>2, <1>3 DEF InHandler
<1> QED
  BY <1>2, <1>3, <1>6, <1>8, <1>9, <1>10 DEF DelayInv

LEMMA DelayStep == TypeInv /\ DelayInv /\ [Next]_vars => DelayInv'
<1> SUFFICES ASSUME TypeInv, DelayInv, [Next]_vars PROVE DelayInv'
  OBVIOUS
<1>1. CASE UNCHANGED vars
  BY <1>1 DEF vars, system, content, time, DelayInv, InHandler
<1> QED
  BY <1>1, DelayReceiveStep, DelayMainStep, DelayProcessStep, DelayBeginStep,
     DelayTickStep
  DEF Next, Step, ProcessCommand

\* A delay holds up the commands behind it for its full time, whatever the
\* width of the tick, unless its end is past the last tick before the wrap.
\* This rests on no condition on the threads.
THEOREM DelaysAreKept == Spec => DelayIsKept
<1>1. Init => TypeInv /\ DelayInv
  BY TypeInit, DelayInit
<1>2. TypeInv /\ DelayInv /\ [Next]_vars => TypeInv' /\ DelayInv'
  BY TypeStep, DelayStep
<1>3. TypeInv /\ DelayInv /\ [Next]_vars =>
        [EndDelay => undefined # {} \/ passedEnd \/ waited >= kind[list.head]]_vars
  <2> SUFFICES ASSUME TypeInv, DelayInv, EndDelay, ~passedEnd
               PROVE  waited >= kind[list.head]
    OBVIOUS
  <2> DEFINE h == list.head
  <2>1. ListType /\ ElementsType /\ TimeType
    BY TypeParts DEF TypeInv
  <2>2. h # NULL /\ h > done /\ resumeTime[h] # 0 /\ kind[h] # Command /\ tick > resumeTime[h]
    BY DEF EndDelay, Process
  <2>3. h \in Items /\ h \in done + 1 .. MaxItems
    BY <2>1, <2>2, Numbers DEF ListType, Links, Items
  <2>4. waited # None
    BY <2>2, <2>3 DEF DelayInv
  <2>5. kind[h] \in Nat
    <3>1. kind[h] \in Kinds
      BY <2>1, <2>3 DEF ElementsType
    <3> QED
      BY <2>2, <3>1, KindsAssumption DEF Kinds
  <2>6. resumeTime[h] \in Nat
    <3>1. resumeTime[h] \in 0 .. TickMod - 1
      BY <2>1, <2>3 DEF ElementsType
    <3> QED
      BY <3>1
  <2>7. waited \in Nat /\ tick \in Nat
    BY <2>1, <2>4, ModuliAssumption DEF TimeType
  <2> QED
    BY <2>2, <2>4, <2>5, <2>6, <2>7 DEF DelayInv
<1> QED
  BY <1>1, <1>2, <1>3, PTL DEF Spec, DelayIsKept
=============================================================================
