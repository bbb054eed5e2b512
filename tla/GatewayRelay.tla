---------------------------- MODULE GatewayRelay ----------------------------
(***************************************************************************)
(* The gateway relay (gateway-relay-socket.c): commands from the server    *)
(* are appended to commandList by the receive thread of the transport and  *)
(* taken off it, one every 20 ms, by an event of the main loop; some of    *)
(* them are delays that hold up the ones behind.  The server may ask for   *)
(* the state of the gateway, which another event of the main loop          *)
(* publishes.                                                              *)
(*                                                                         *)
(* The list has no mutex.  Its two functions come from the framework; they *)
(* are modelled after the copies of them in transport-socket.c, access by  *)
(* access.  What keeps the threads apart, as far as anything does, is      *)
(* sockInfoMutex: the receive thread handles a message with it held        *)
(* (recvSocketThread), and the main loop takes it for a publication        *)
(* (emberAfPluginTransportSocketPublish), so that a command or a delay     *)
(* that was executed is published, and then taken off, only between two    *)
(* messages.  A delay of 0 ms is taken off without a publication, and an   *)
(* append may begin as soon as the publication is done.                    *)
(*                                                                         *)
(* The elements are numbered in the order of their allocation.             *)
(***************************************************************************)
EXTENDS Naturals, Sequences, FiniteSets

CONSTANTS
  Messages,   \* the command messages of the server: sequences of commands
  Command,    \* an element of the list that is no delay
  None,       \* a command of a message without a string, or without a delay
  Delays,     \* the delays a message may ask for, in ms
  TickMod,    \* 2^32: the millisecond tick is a uint32_t
  IndexMod,   \* 2^8: commandIndex is a uint8_t
  MaxItems    \* bound: elements appended

ASSUME KindsAssumption == Delays \subseteq Nat /\ Command \notin Nat /\ None \notin Nat
ASSUME ModuliAssumption == TickMod \in Nat \ {0} /\ IndexMod \in Nat \ {0}
ASSUME BoundAssumption == MaxItems \in Nat

Kinds == {Command} \cup Delays
Items == 1 .. MaxItems
NULL  == 0
Links == Items \cup {NULL}

ASSUME MessagesAssumption ==
  Messages \subseteq Seq([command : {Command, None}, postDelayMs : Delays \cup {None}])

VARIABLES
  list,               \* commandList: head, tail, count, and the next element
                      \* of each element
  kind, resumeTime,   \* the GatewayCommand in each element
  allocated,          \* the number of elements made so far
  done,               \* history: the element processed last
  recv,               \* the receive thread: where it is (at), the message,
                      \* commandIndex, what it is adding for a command, and
                      \* the tail or the count it read
  main,               \* the main loop: where it is (at), the element it
                      \* takes off, and the link or the count it read
  processActive,      \* ProcessCommandEventControl
  updateActive,       \* StateUpdateEventControl
  unanswered,         \* history: a state request that was not yet answered
  tick,               \* halCommonGetInt32uMillisecondTick, during a delay
  waited, passedEnd,  \* history of the delay at the head: the ms since it
                      \* began (None: it has not), and whether its end is
                      \* past the last tick
  undefined,          \* what memory has the program used that it must not
                      \* use: an element of the list, or the stamp of one
  raced               \* history: have an append and a removal met where they
                      \* disturb each other?

content == <<kind, resumeTime, allocated, done>>
events  == <<processActive, updateActive, unanswered>>
time    == <<tick, waited, passedEnd>>

system == <<list, content, recv, main, events, time, undefined>>
vars   == <<system, raced>>

Init ==
  /\ list = [head |-> NULL, tail |-> NULL, count |-> 0,
             next |-> [i \in Items |-> NULL]]
  /\ kind = [i \in Items |-> Command]
  /\ resumeTime = [i \in Items |-> 0]
  /\ allocated = 0 /\ done = 0
  /\ recv = [at |-> "wait", message |-> << >>, commandIndex |-> 0,
             adding |-> << >>, read |-> 0]
  /\ main = [at |-> "idle", item |-> NULL, read |-> 0]
  /\ processActive = FALSE
  /\ updateActive = TRUE /\ unanswered = TRUE
  /\ tick = 0 /\ waited = None /\ passedEnd = FALSE
  /\ undefined = {} /\ raced = FALSE

\* The receive thread holds sockInfoMutex from the message to the return.
MutexIsFree == recv.at = "wait"

InAppend   == recv.at \in {"head", "next", "link", "tail", "count", "added"}
Unlinking  == main.at \in {"pop", "tail", "clear", "head", "link"}
InHandler  == main.at \notin {"idle", "update", "updated"}

\* The element that goes is in the way of the append, or both count.
Race == InAppend /\ \/ Unlinking /\ main.item + 1 >= allocated
                    \/ recv.at = "added" /\ main.at = "popped"
-----------------------------------------------------------------------------
(* What one command of a message appends: itself, then its delay.          *)
Elements(c) == (IF c.command = Command THEN <<Command>> ELSE << >>)
            \o (IF c.postDelayMs # None THEN <<c.postDelayMs>> ELSE << >>)

\* Bound: a message is taken only if there are elements left for all of it.
Fits(m) ==
  allocated + Cardinality({i \in DOMAIN m : m[i].command = Command})
            + Cardinality({i \in DOMAIN m : m[i].postDelayMs # None}) <= MaxItems

(* The receive thread: handleCommandsMessage is called with a message.     *)
CommandsArrive ==
  /\ recv.at = "wait"
  /\ \E m \in Messages :
       /\ Fits(m)
       /\ recv' = [recv EXCEPT !.at = "loop", !.message = m, !.commandIndex = 0]
  /\ UNCHANGED <<list, content, main, events, time, undefined>>

\* Mutant: the index wraps one command earlier.
NextCommandNarrow ==
  /\ recv.at = "loop" /\ recv.adding = << >>
  /\ recv.commandIndex < Len(recv.message)
  /\ LET new == Elements(recv.message[recv.commandIndex + 1])
     IN  /\ allocated + Len(new) <= MaxItems
         /\ recv' = [recv EXCEPT !.adding = new,
                       !.commandIndex = (@ + 1) % (IndexMod - 1)]
  /\ UNCHANGED <<list, content, main, events, time, undefined>>

NextCommand ==
  /\ recv.at = "loop" /\ recv.adding = << >>
  /\ recv.commandIndex < Len(recv.message)
  /\ LET new == Elements(recv.message[recv.commandIndex + 1])
     IN  /\ allocated + Len(new) <= MaxItems
         /\ recv' = [recv EXCEPT !.adding = new,
                       !.commandIndex = (@ + 1) % IndexMod]
  /\ UNCHANGED <<list, content, main, events, time, undefined>>

MessageDone ==
  /\ recv.at = "loop" /\ recv.adding = << >>
  /\ recv.commandIndex >= Len(recv.message)
  /\ recv' = [recv EXCEPT !.at = "wait", !.message = << >>, !.commandIndex = 0]
  /\ UNCHANGED <<list, content, main, events, time, undefined>>

(* addCommandToList, addPostDelayMsToList                                  *)
Allocate ==
  /\ recv.at = "loop" /\ recv.adding # << >>
  /\ allocated' = allocated + 1
  /\ kind' = [kind EXCEPT ![allocated'] = Head(recv.adding)]
  /\ recv' = [recv EXCEPT !.at = "head", !.adding = Tail(@)]
  /\ UNCHANGED <<list, resumeTime, done, main, events, time, undefined>>

(* emberAfPluginLinkedListPushBack: the element goes behind the tail, or   *)
(* becomes the head if there is none.                                      *)
PushStep(from, to, read, newList) ==
  /\ recv.at = from
  /\ recv' = [recv EXCEPT !.at = to, !.read = read]
  /\ list' = newList
  /\ UNCHANGED <<content, main, events, time>>

PushToHead ==
  /\ \/ list.head = NULL /\ PushStep("head", "tail", 0, [list EXCEPT !.head = allocated])
     \/ list.head # NULL /\ PushStep("head", "next", 0, list)
  /\ UNCHANGED undefined

\* Mutant: the element goes behind the head.
PushReadsHead == PushStep("next", "link", list.head, list) /\ UNCHANGED undefined

PushReadsTail == PushStep("next", "link", list.tail, list) /\ UNCHANGED undefined

\* An element taken off the list was freed.
Freed(i) == i <= done /\ i # list.head

PushLinks ==
  /\ PushStep("link", "tail", 0,
       IF recv.read = NULL THEN list ELSE [list EXCEPT !.next[recv.read] = allocated])
  /\ undefined' = undefined \cup
       (IF recv.read = NULL \/ Freed(recv.read) THEN {"element"} ELSE {})

PushToTail ==
  /\ PushStep("tail", "count", 0, [list EXCEPT !.tail = allocated])
  /\ UNCHANGED undefined

PushReadsCount == PushStep("count", "added", list.count, list) /\ UNCHANGED undefined

PushWritesCount ==
  /\ PushStep("added", "loop", 0, [list EXCEPT !.count = recv.read + 1])
  /\ UNCHANGED undefined

PushBack == PushToHead \/ PushReadsTail \/ PushLinks \/ PushToTail
              \/ PushReadsCount \/ PushWritesCount

(* handlePublishStateMessage                                               *)
StateRequested ==
  /\ recv.at = "wait"
  /\ updateActive' = TRUE /\ unanswered' = TRUE
  /\ UNCHANGED <<processActive, list, content, recv, main, time, undefined>>

ReceiveThread == NextCommand \/ MessageDone \/ Allocate \/ PushBack
-----------------------------------------------------------------------------
(* The main loop: ProcessCommandEventHandler runs and finds an element.    *)
Process ==
  /\ main.at = "idle"
  /\ processActive
  /\ list.head # NULL
  /\ list.head > done

\* An element that is still in the list after it was processed was freed:
\* what its content is now, and what is done with it, is not determined.
ProcessFreed ==
  /\ main.at = "idle"
  /\ processActive
  /\ list.head # NULL
  /\ list.head <= done
  /\ undefined' = undefined \cup {"element"}
  /\ UNCHANGED <<list, content, recv, main, events, time>>

(* The element is processed; what is left is to publish that (to), to free *)
(* it and to take it off.                                                  *)
Processed(to) ==
  /\ main' = [main EXCEPT !.at = to, !.item = list.head]
  /\ done' = list.head
  /\ UNCHANGED <<kind, allocated, resumeTime, list, recv, events, undefined>>

ExecuteCommand ==
  /\ Process
  /\ kind[list.head] = Command
  /\ Processed("publish")
  /\ UNCHANGED time

(* A delay begins at the tick t; before it, any time may have passed.      *)
DelayBegins(t, resume) ==
  /\ Process
  /\ kind[list.head] \notin {Command, 0}
  /\ resumeTime[list.head] = 0
  /\ IF waited = None THEN tick' = t /\ waited' = 0
                      ELSE tick = t /\ UNCHANGED <<tick, waited>>
  /\ resumeTime' = [resumeTime EXCEPT ![list.head] = resume]
  /\ passedEnd' = (passedEnd \/ t + kind[list.head] >= TickMod)
  /\ UNCHANGED <<kind, allocated, done, list, recv, main, events, undefined>>

\* Mutant: the delay is left out of the sum.
BeginDelayAtOnce == \E t \in 0 .. TickMod - 1 : DelayBegins(t, t)

\* Mutant: the sum is one of 64 bits.
BeginDelayWide == \E t \in 0 .. TickMod - 1 : DelayBegins(t, t + kind[list.head])

(* The resume time is a sum of two uint32_t, and 0 means there is none.    *)
BeginDelay ==
  \E t \in 0 .. TickMod - 1 : DelayBegins(t, (t + kind[list.head]) % TickMod)

(* A delay of 0 ms: nothing is published.                                  *)
SkipDelay ==
  /\ Process
  /\ kind[list.head] = 0 /\ resumeTime[list.head] = 0
  /\ Processed("pop")
  /\ UNCHANGED time

EndDelay ==
  /\ Process
  /\ kind[list.head] # Command /\ resumeTime[list.head] # 0
  /\ tick > resumeTime[list.head]
  /\ Processed("publish")
  /\ tick' = 0 /\ waited' = None /\ passedEnd' = FALSE

\* Mutant: the publication does not wait for the mutex.
PublishedAtOnce ==
  /\ main.at = "publish"
  /\ main' = [main EXCEPT !.at = "pop"]
  /\ UNCHANGED <<list, content, recv, events, time, undefined>>

(* publishCommandExecutedPayload, publishDelayExecutedPayload: the main    *)
(* loop takes the mutex and gives it up again.                             *)
Published ==
  /\ main.at = "publish" /\ MutexIsFree
  /\ main' = [main EXCEPT !.at = "pop"]
  /\ UNCHANGED <<list, content, recv, events, time, undefined>>

(* emberAfPluginLinkedListPopFront, and for a delay of 0 ms the stamp that *)
(* follows it.                                                             *)
PopStep(from, to, read, newList) ==
  /\ main.at = from
  /\ main' = [main EXCEPT !.at = to, !.read = read]
  /\ list' = newList
  /\ UNCHANGED <<content, recv, events, time>>

AfterPop == IF kind[main.item] = 0 THEN "stamp" ELSE "idle"

PopTestsCount ==
  /\ PopStep("pop", IF list.count > 0 THEN "tail" ELSE AfterPop, 0, list)
  /\ UNCHANGED undefined

\* Mutant: the tail stays at the element that goes.
PopKeepsTail == PopStep("tail", "head", 0, list) /\ UNCHANGED undefined

PopTestsTail ==
  /\ PopStep("tail", IF list.tail = main.item THEN "clear" ELSE "head", 0, list)
  /\ UNCHANGED undefined

PopClearsTail ==
  /\ PopStep("clear", "head", 0, [list EXCEPT !.tail = NULL])
  /\ UNCHANGED undefined

PopReadsNext == PopStep("head", "link", list.next[main.item], list) /\ UNCHANGED undefined

PopMovesHead ==
  /\ PopStep("link", "count", 0, [list EXCEPT !.head = main.read])
  /\ UNCHANGED undefined

PopReadsCount == PopStep("count", "popped", list.count, list) /\ UNCHANGED undefined

PopWritesCount ==
  /\ PopStep("popped", AfterPop, 0, [list EXCEPT !.count = main.read - 1])
  /\ UNCHANGED undefined

PopFront == PopTestsCount \/ PopTestsTail \/ PopClearsTail \/ PopReadsNext
              \/ PopMovesHead \/ PopReadsCount \/ PopWritesCount

(* The resume time is written into the element after it was freed, which   *)
(* goes unnoticed or not.                                                  *)
Stamp ==
  /\ PopStep("stamp", "idle", 0, list)
  /\ undefined' \in {undefined, undefined \cup {"stamp"}}

ProcessCommand ==
  \/ ExecuteCommand \/ BeginDelay \/ SkipDelay \/ EndDelay \/ ProcessFreed
  \/ Published \/ PopFront \/ Stamp
-----------------------------------------------------------------------------
(* The main loop: StateUpdateEventHandler, and who switches the events.    *)
(* The handler switches the event off, publishes the state, which takes    *)
(* the mutex, and returns.                                                 *)
UpdateBegins ==
  /\ main.at = "idle"
  /\ updateActive
  /\ updateActive' = FALSE
  /\ main' = [main EXCEPT !.at = "update"]
  /\ UNCHANGED <<processActive, unanswered, list, content, recv, time, undefined>>

UpdatePublishes ==
  /\ main.at = "update" /\ MutexIsFree
  /\ unanswered' = FALSE
  /\ main' = [main EXCEPT !.at = "updated"]
  /\ UNCHANGED <<processActive, updateActive, list, content, recv, time, undefined>>

\* Mutant: the handler switches the event off when it is done.
UpdateEndsInactive ==
  /\ main.at = "updated"
  /\ updateActive' = FALSE
  /\ main' = [main EXCEPT !.at = "idle"]
  /\ UNCHANGED <<processActive, unanswered, list, content, recv, time, undefined>>

UpdateEnds ==
  /\ main.at = "updated"
  /\ main' = [main EXCEPT !.at = "idle"]
  /\ UNCHANGED <<events, list, content, recv, time, undefined>>

StateUpdate == UpdateBegins \/ UpdatePublishes \/ UpdateEnds

(* deviceTableClearedCallback, whatever cleared the table                  *)
TableCleared ==
  /\ main.at = "idle"
  /\ updateActive' = TRUE /\ unanswered' = TRUE
  /\ UNCHANGED <<processActive, list, content, recv, main, time, undefined>>

(* emberAfPluginTransportSocketStateChangedCallback                        *)
LinkConnected ==
  /\ main.at = "idle"
  /\ processActive' = TRUE
  /\ updateActive' = TRUE /\ unanswered' = TRUE
  /\ UNCHANGED <<list, content, recv, main, time, undefined>>

LinkDisconnected ==
  /\ main.at = "idle"
  /\ processActive
  /\ processActive' = FALSE
  /\ UNCHANGED <<updateActive, unanswered, list, content, recv, main, time,
                 undefined>>

(* A millisecond of a delay passes.                                        *)
Tick ==
  /\ waited # None
  /\ tick' = (tick + 1) % TickMod
  /\ waited' = IF waited < TickMod THEN waited + 1 ELSE waited
  /\ UNCHANGED <<passedEnd, list, content, recv, main, events, undefined>>

Step ==
  \/ CommandsArrive \/ StateRequested \/ ReceiveThread
  \/ ProcessCommand \/ StateUpdate
  \/ TableCleared \/ LinkConnected \/ LinkDisconnected
  \/ Tick

Next == Step /\ raced' = (raced \/ Race')

Spec == Init /\ [][Next]_vars

(* The main loop serves its events, and finishes the handlers it began;    *)
(* the receive thread sleeps (RECV_SOCK_THREAD_DELAY_MS) after it gave up  *)
(* the mutex, so that the main loop gets it in the end.                    *)
FairSpec == Spec /\ WF_system(UpdateBegins \/ UpdateEnds)
                 /\ WF_system(PopFront \/ Stamp)
                 /\ WF_system(ReceiveThread)
                 /\ SF_system(UpdatePublishes)
                 /\ SF_system(Published)
-----------------------------------------------------------------------------
TypeOK ==
  /\ list \in [head : Links, tail : Links, count : Nat, next : [Items -> Links]]
  /\ kind \in [Items -> Kinds]
  /\ resumeTime \in [Items -> 0 .. TickMod - 1]
  /\ allocated \in 0 .. MaxItems /\ done \in 0 .. allocated
  /\ recv \in [at : {"wait", "loop", "head", "next", "link", "tail", "count", "added"},
               message : Messages \cup {<< >>}, commandIndex : 0 .. IndexMod - 1,
               adding : Seq(Kinds), read : Nat]
  /\ main \in [at : {"idle", "publish", "pop", "tail", "clear", "head", "link",
                     "count", "popped", "stamp", "update", "updated"},
               item : Links, read : Nat]
  /\ {processActive, updateActive, unanswered, passedEnd, raced} \subseteq BOOLEAN
  /\ undefined \subseteq {"element", "stamp"}
  /\ tick \in 0 .. TickMod - 1
  /\ waited \in 0 .. TickMod \cup {None}

\* The list holds the elements appended and not yet processed, in their
\* order, and its tail and its count agree with it.
ListIsRight ==
  /\ list.count = allocated - done
  /\ IF done = allocated
     THEN list.head = NULL /\ list.tail = NULL
     ELSE /\ list.head = done + 1
          /\ list.tail = allocated
          /\ list.next[allocated] = NULL
          /\ \A i \in done + 1 .. allocated - 1 : list.next[i] = i + 1

(***************************************************************************)
(* Between two operations the list is right: no command is lost and none   *)
(* is left behind ("We need to keep a list of commands to process as the   *)
(* come in", gateway-relay-socket.c:85).  The code does not keep it.       *)
(***************************************************************************)
CommandsAreKept == ~InAppend /\ ~InHandler /\ undefined = {} => ListIsRight

(***************************************************************************)
(* What spoils the list is an append that meets the removal of one of the  *)
(* two last elements, or of the element appended, or two updates of the    *)
(* count that meet (Race), and nothing else: an append may overlap with    *)
(* the execution of any element, its publication and the removal of an     *)
(* element further ahead.  Without a Race the list is right between two    *)
(* operations, and no element is used that is not there or was freed.      *)
(***************************************************************************)
OnlyRacesSpoilTheList ==
  ~raced => /\ "element" \notin undefined
            /\ ~InAppend /\ ~InHandler => ListIsRight

(***************************************************************************)
(* An element is taken off only after its append has returned, unless it   *)
(* is a delay of 0 ms: sockInfoMutex, taken by the publication before the  *)
(* pop, is held while the message with the element is being handled.       *)
(***************************************************************************)
AppendEndsBeforeRemoval ==
  Unlinking /\ main.item = allocated /\ kind[allocated] # 0 => ~InAppend

(***************************************************************************)
(* Until a Race or the use of freed memory, the elements are processed one *)
(* by one in the order of their arrival, each once                         *)
(* (emberAfPluginGatewayRelaySocketProcessCommandEventHandler).            *)
(***************************************************************************)
ProcessedInTurn == [][raced \/ undefined # {} \/ done' = done + 1]_done

(***************************************************************************)
(* A delay holds up the commands behind it for its full time               *)
(* (resumeTime), unless its end is past the last tick before the wrap, or  *)
(* freed memory was used before.                                           *)
(***************************************************************************)
DelayIsKept ==
  [][EndDelay => undefined # {} \/ passedEnd \/ waited >= kind[list.head]]_vars

(***************************************************************************)
(* Whenever the state of the gateway is asked for - by the server, by a    *)
(* new connection, by a cleared table - it is published after that         *)
(* (publishGatewayStatePayload), also when the request comes while the     *)
(* handler of an earlier one is running or waits for the mutex; unless     *)
(* memory was used that must not be.                                       *)
(***************************************************************************)
StateRequestIsAnswered == unanswered ~> ~unanswered \/ undefined # {}

(***************************************************************************)
(* The receive thread comes back from every message of up to 255 commands  *)
(* (handleCommandsMessage counts them in a uint8_t; a longer message keeps *)
(* it, and the mutex, for ever), unless memory was used that must not be.  *)
(***************************************************************************)
MessagesAreHandled == []<>(recv.at = "wait" \/ undefined # {})
=============================================================================
