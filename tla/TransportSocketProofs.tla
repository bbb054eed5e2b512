------------------------ MODULE TransportSocketProofs ------------------------
(***************************************************************************)
(* Safety of the socket transport, and that its list of buffers is the     *)
(* queue of Outbox, for every number of buffers, payloads and failures.    *)
(***************************************************************************)
EXTENDS TransportSocket, TLAPS

(* The head of the list is the buffer remembered once it was cut short.    *)
HeadIsRemembered ==
  cuts > 0 => /\ Len(sendBuf) > 0
              /\ sendBuf[1].addr = preBuf
              /\ cuts <= attempts + 1

(* SentInOrderOnce in terms of the list itself.                            *)
Consecutive ==
  /\ \A i \in 1 .. Len(sendBuf) : sendBuf[i].msg + Len(sendBuf) = published + i
  /\ lastSent + Len(sendBuf) <= published

SocketInv ==
  TypeOK /\ ConnectedSocketIsOpen /\ HeadIsRemembered /\ Consecutive

Entries == [addr : Buffers, msg : 1 .. MaxMessages]

(***************************************************************************)
(* Lists: what taking the head off and adding an entry do to the entries.  *)
(***************************************************************************)
LEMMA TailFacts ==
  ASSUME NEW S, NEW q \in Seq(S), q # << >>
  PROVE  /\ Len(q) \in Nat \ {0}
         /\ q[1] \in S
         /\ Tail(q) \in Seq(S)
         /\ Len(Tail(q)) = Len(q) - 1
         /\ \A i \in 1 .. Len(Tail(q)) : Tail(q)[i] = q[i + 1]
OBVIOUS

LEMMA AppendFacts ==
  ASSUME NEW S, NEW q \in Seq(S), NEW e \in S
  PROVE  /\ Append(q, e) \in Seq(S)
         /\ Len(Append(q, e)) = Len(q) + 1
         /\ \A i \in 1 .. Len(q) : Append(q, e)[i] = q[i]
         /\ Append(q, e)[Len(q) + 1] = e
OBVIOUS

(* What the invariant says of a list whose head is taken off.              *)
LEMMA TakeHead ==
  ASSUME SocketInv, sendBuf # << >>
  PROVE  /\ Tail(sendBuf) \in Seq(Entries)
         /\ sendBuf[1] \in Entries
         /\ \A i \in 1 .. Len(Tail(sendBuf)) :
              Tail(sendBuf)[i].msg + Len(Tail(sendBuf)) = published + i
         /\ Len(Tail(sendBuf)) = Len(sendBuf) - 1
         /\ Len(sendBuf) \in Nat \ {0}
         /\ sendBuf[1].msg + Len(sendBuf) = published + 1
<1> DEFINE T == Tail(sendBuf)
<1>1. sendBuf \in Seq(Entries) BY DEF SocketInv, TypeOK, Entries
<1>2. /\ Len(sendBuf) \in Nat \ {0} /\ sendBuf[1] \in Entries
      /\ T \in Seq(Entries) /\ Len(T) = Len(sendBuf) - 1
      /\ \A i \in 1 .. Len(T) : T[i] = sendBuf[i + 1]
  BY <1>1, TailFacts
<1>3. \A i \in 1 .. Len(sendBuf) :
        sendBuf[i].msg + Len(sendBuf) = published + i
  BY DEF SocketInv, Consecutive
<1>4. \A i \in 1 .. Len(sendBuf) : sendBuf[i].msg \in Nat
  <2>1. \A i \in 1 .. Len(sendBuf) : sendBuf[i] \in Entries BY <1>1
  <2> QED BY <2>1 DEF Entries
<1>5. published \in Nat BY BoundsAssumption DEF SocketInv, TypeOK
<1> HIDE DEF T
<1>6. ASSUME NEW i \in 1 .. Len(T)
      PROVE  T[i].msg + Len(T) = published + i
  <2>1. i + 1 \in 1 .. Len(sendBuf) BY <1>2
  <2>2. T[i].msg = sendBuf[i + 1].msg BY <1>2
  <2>3. sendBuf[i + 1].msg + Len(sendBuf) = published + (i + 1)
    BY <2>1, <1>3
  <2>4. sendBuf[i + 1].msg \in Nat BY <2>1, <1>4
  <2> QED BY <2>2, <2>3, <2>4, <1>2, <1>5
<1>7. sendBuf[1].msg + Len(sendBuf) = published + 1 BY <1>2, <1>3
<1> QED BY <1>2, <1>6, <1>7 DEF T
-----------------------------------------------------------------------------
LEMMA InitEstablishes == Init => SocketInv
<1> SUFFICES ASSUME Init PROVE SocketInv OBVIOUS
<1>1. sendBuf \in Seq(Entries) /\ Len(sendBuf) = 0 BY DEF Init
<1>2. TypeOK
  <2>1. /\ 0 \in 0 .. EISCONN_STANDBY_MAX /\ 0 \in 0 .. RETRY_MAX
        /\ 0 \in 0 .. MaxMessages /\ 0 \in 0 .. MaxFaults /\ 0 \in Nat
    BY BoundsAssumption
  <2>2. sendBuf \in Seq([addr : Buffers, msg : 1 .. MaxMessages])
    BY <1>1 DEF Entries
  <2> QED BY <2>1, <2>2
      DEF Init, TypeOK, SocketStatus, SocketStates, LinkStates
<1>3. ConnectedSocketIsOpen /\ HeadIsRemembered BY DEF Init, ConnectedSocketIsOpen, HeadIsRemembered
<1>4. Consecutive BY <1>1 DEF Init, Consecutive
<1> QED BY <1>2, <1>3, <1>4 DEF SocketInv

(* A step that leaves the list and the memory of partial writes alone.     *)
LEMMA OtherStep ==
  ASSUME SocketInv, UNCHANGED <<outbox, retries>>,
         sockStatus' \in SocketStatus,
         eiconnCnt' \in 0 .. EISCONN_STANDBY_MAX,
         tcpSocket' \in SocketStates,
         curStatus' \in LinkStates,
         reporting' \in BOOLEAN,
         lastStatus' \in LinkStates,
         faults' \in 0 .. MaxFaults,
         ConnectedSocketIsOpen'
  PROVE  SocketInv'
<1>1. TypeOK' BY DEF SocketInv, TypeOK, outbox, retries
<1>2. HeadIsRemembered' BY DEF SocketInv, HeadIsRemembered, outbox, retries
<1>3. Consecutive' BY DEF SocketInv, Consecutive, outbox, retries
<1> QED BY <1>1, <1>2, <1>3 DEF SocketInv

LEMMA FaultIsBounded ==
  ASSUME TypeOK, Fault PROVE faults' \in 0 .. MaxFaults
BY BoundsAssumption DEF TypeOK, Fault

LEMMA NetworkKeeps ==
  ASSUME SocketInv, HandshakeCompletes \/ HandshakeFails \/ ServerLeaves
  PROVE  SocketInv'
<1>1. /\ UNCHANGED <<outbox, retries, longLink>>
      /\ sockStatus' = sockStatus /\ eiconnCnt' = eiconnCnt
  BY DEF HandshakeCompletes, HandshakeFails, ServerLeaves
<1>2. faults' \in 0 .. MaxFaults
  BY FaultIsBounded
  DEF HandshakeCompletes, HandshakeFails, ServerLeaves, SocketInv, TypeOK
<1>3. tcpSocket' \in SocketStates
  BY DEF HandshakeCompletes, HandshakeFails, ServerLeaves, SocketStates
<1>4. ConnectedSocketIsOpen'
  BY <1>1 DEF HandshakeCompletes, HandshakeFails, ServerLeaves, SocketInv,
              ConnectedSocketIsOpen
<1> QED BY <1>1, <1>2, <1>3, <1>4, OtherStep DEF SocketInv, TypeOK, longLink

(* Which answers come from which socket.                                   *)
LEMMA WhoAnswers ==
  ASSUME TypeOK
  PROVE  /\ "success" \in ConnectResults(tcpSocket)
              => tcpSocket \in {"accepted", "acceptedLost"}
         /\ "EISCONN" \in ConnectResults(tcpSocket)
              => tcpSocket \in {"accepted", "acceptedLost", "established", "lost"}
         /\ tcpSocket \in {"accepted", "acceptedLost", "established", "lost"}
              => Known(tcpSocket) \in {"established", "lost"}
BY DEF TypeOK, SocketStates, ConnectResults, Known

LEMMA ConnectionThreadKeeps ==
  ASSUME SocketInv, ConnectionThread PROVE SocketInv'
<1>0. TypeOK BY DEF SocketInv
<1>1. UNCHANGED <<outbox, retries, longLink>> BY DEF ConnectionThread
<1>2. /\ sockStatus' \in SocketStatus
      /\ eiconnCnt' \in 0 .. EISCONN_STANDBY_MAX
      /\ tcpSocket' \in SocketStates
      /\ faults' \in 0 .. MaxFaults
      /\ ConnectedSocketIsOpen'
  <2>1. CASE ConnectSucceeds \/ AlreadyConnected
    <3>1. tcpSocket' \in {"established", "lost"} /\ sockStatus' = "CONNECTED"
      BY <2>1, <1>0, WhoAnswers DEF ConnectSucceeds, AlreadyConnected
    <3>2. eiconnCnt' \in 0 .. EISCONN_STANDBY_MAX /\ faults' = faults
      BY <2>1, <1>0, BoundsAssumption
      DEF ConnectSucceeds, AlreadyConnected, TypeOK
    <3> QED BY <3>1, <3>2, <1>0
        DEF TypeOK, SocketStatus, SocketStates, ConnectedSocketIsOpen
  <2>2. CASE ConnectInProgress
    BY <2>2, <1>0, BoundsAssumption
    DEF ConnectInProgress, TypeOK, SocketStatus, SocketStates,
        ConnectedSocketIsOpen
  <2>3. CASE ConnectFails
    <3>1. faults' \in 0 .. MaxFaults
      BY <2>3, <1>0, FaultIsBounded DEF ConnectFails, TypeOK
    <3> QED BY <2>3, <3>1, <1>0, BoundsAssumption
        DEF ConnectFails, SocketStatus, SocketStates, ConnectedSocketIsOpen
  <2> QED BY <2>1, <2>2, <2>3 DEF ConnectionThread
<1> QED BY <1>0, <1>1, <1>2, OtherStep DEF TypeOK, longLink

LEMMA MainLoopAndReceiverKeep ==
  ASSUME SocketInv, RecvThread \/ LongLinkSample \/ LongLinkReport
  PROVE  SocketInv'
<1>1. TypeOK /\ ConnectedSocketIsOpen BY DEF SocketInv
<1>2. CASE RecvThread
  BY <1>1, <1>2, OtherStep
  DEF RecvThread, TypeOK, SocketStatus, longLink, ConnectedSocketIsOpen
<1>3. CASE LongLinkSample
  <2>1. /\ sockStatus' \in SocketStatus /\ tcpSocket' \in SocketStates
        /\ ConnectedSocketIsOpen'
    BY <1>1, <1>3
    DEF LongLinkSample, TypeOK, SocketStatus, SocketStates,
        ConnectedSocketIsOpen
  <2> QED BY <1>1, <1>3, <2>1, OtherStep
      DEF LongLinkSample, TypeOK, LinkStates
<1>4. CASE LongLinkReport
  BY <1>1, <1>4, OtherStep
  DEF LongLinkReport, TypeOK, connection, ConnectedSocketIsOpen
<1> QED BY <1>2, <1>3, <1>4

(* A buffer leaves the head of the list, sent or given up.                 *)
LEMMA HeadLeaves ==
  ASSUME SocketInv, sendBuf # << >>, sendBuf' = Tail(sendBuf), cuts' = 0,
         lastSent' \in {lastSent, sendBuf[1].msg},
         published' = published
  PROVE  Consecutive' /\ HeadIsRemembered' /\ sendBuf' \in Seq(Entries)
         /\ lastSent' \in 0 .. MaxMessages
<1> DEFINE T == Tail(sendBuf)  n == Len(sendBuf)  m == sendBuf[1].msg
<1>1. /\ T \in Seq(Entries)
      /\ \A i \in 1 .. Len(T) : T[i].msg + Len(T) = published + i
      /\ Len(T) = n - 1
      /\ n \in Nat \ {0}
      /\ m + n = published + 1
  BY TakeHead
<1>2. m \in 1 .. MaxMessages BY TakeHead DEF Entries
<1>3. /\ published \in Nat /\ lastSent \in 0 .. MaxMessages
      /\ lastSent + n <= published
  BY BoundsAssumption DEF SocketInv, TypeOK, Consecutive
<1>4. sendBuf' = T /\ lastSent' \in {lastSent, m} OBVIOUS
<1> HIDE DEF T, n, m
<1>5. lastSent' + Len(T) <= published
  <2>1. m \in Nat /\ lastSent \in Nat BY <1>2, <1>3, BoundsAssumption
  <2>2. m + Len(T) <= published /\ lastSent + Len(T) <= published
    BY <1>1, <1>3, <2>1
  <2> QED BY <1>4, <2>2
<1>6. lastSent' \in 0 .. MaxMessages
  BY <1>2, <1>3, <1>4, BoundsAssumption
<1>7. Consecutive' BY <1>1, <1>4, <1>5 DEF Consecutive
<1>8. HeadIsRemembered' BY DEF HeadIsRemembered
<1> QED BY <1>1, <1>4, <1>6, <1>7, <1>8

LEMMA WriteThreadKeeps ==
  ASSUME SocketInv, WriteThread PROVE SocketInv'
<1>0. /\ TypeOK /\ ConnectedSocketIsOpen /\ HeadIsRemembered /\ Consecutive
      /\ sendBuf # << >>
      /\ UNCHANGED <<eiconnCnt, tcpSocket, published, longLink>>
  BY DEF SocketInv, WriteThread
<1>1. CASE WrittenWhole
  <2>1. Consecutive' /\ HeadIsRemembered' /\ sendBuf' \in Seq(Entries)
        /\ lastSent' \in 0 .. MaxMessages
    BY <1>0, <1>1, HeadLeaves DEF WrittenWhole
  <2>2. TypeOK'
    BY <1>0, <1>1, <2>1 DEF WrittenWhole, TypeOK, longLink, Entries
  <2>3. ConnectedSocketIsOpen'
    BY <1>0, <1>1 DEF WrittenWhole, ConnectedSocketIsOpen
  <2> QED BY <2>1, <2>2, <2>3 DEF SocketInv
<1>2. CASE WrittenInPart
  <2>0. /\ CutShort /\ sockStatus' = sockStatus /\ lastSent' = lastSent
        /\ faults' \in 0 .. MaxFaults
    BY <1>0, <1>2, FaultIsBounded DEF WrittenInPart
  <2>1. ConnectedSocketIsOpen' BY <1>0, <2>0 DEF ConnectedSocketIsOpen
  <2>2. ASSUME /\ preBuf' \in Buffers \cup {NoBuffer}
               /\ attempts' \in 0 .. RETRY_MAX
               /\ cuts' \in Nat
               /\ sendBuf' \in Seq(Entries)
        PROVE  TypeOK'
    BY <1>0, <2>0, <2>2 DEF TypeOK, longLink, Entries
  <2>3. sendBuf[1].addr \in Buffers /\ Len(sendBuf) \in Nat \ {0}
    BY <1>0, TakeHead DEF Entries
  <2>4. CASE /\ preBuf = NoBuffer /\ attempts = 0
             /\ preBuf' = sendBuf[1].addr
             /\ cuts' = cuts + 1
             /\ UNCHANGED <<attempts, sendBuf>>
    <3>1. cuts = 0
      BY <1>0, <2>3, <2>4, NoBufferAssumption DEF HeadIsRemembered, TypeOK
    <3>2. TypeOK' BY <1>0, <2>2, <2>3, <2>4 DEF TypeOK, Entries
    <3>3. HeadIsRemembered' BY <2>3, <2>4, <3>1 DEF HeadIsRemembered
    <3>4. Consecutive' BY <1>0, <2>0, <2>4 DEF Consecutive
    <3> QED BY <2>1, <3>2, <3>3, <3>4 DEF SocketInv
  <2>5. CASE /\ Remembered /\ attempts < RETRY_MAX
             /\ attempts' = attempts + 1
             /\ cuts' = cuts + 1
             /\ UNCHANGED <<preBuf, sendBuf>>
    <3>1. attempts' \in 0 .. RETRY_MAX /\ cuts' \in Nat
      BY <1>0, <2>5, BoundsAssumption DEF TypeOK
    <3>2. TypeOK' BY <1>0, <2>2, <2>5, <3>1 DEF TypeOK, Entries
    <3>3. HeadIsRemembered'
      BY <1>0, <2>3, <2>5, BoundsAssumption
      DEF HeadIsRemembered, Remembered, TypeOK
    <3>4. Consecutive' BY <1>0, <2>0, <2>5 DEF Consecutive
    <3> QED BY <2>1, <3>2, <3>3, <3>4 DEF SocketInv
  <2>6. CASE /\ attempts' = 0
             /\ preBuf' = NoBuffer
             /\ sendBuf' = Tail(sendBuf)
             /\ cuts' = 0
    <3>1. Consecutive' /\ HeadIsRemembered' /\ sendBuf' \in Seq(Entries)
      BY <1>0, <2>0, <2>6, HeadLeaves
    <3>2. TypeOK' BY <2>2, <2>6, <3>1, BoundsAssumption
    <3> QED BY <2>1, <3>1, <3>2 DEF SocketInv
  <2> QED BY <2>0, <2>4, <2>5, <2>6 DEF CutShort
<1>3. CASE WriteFails
  <2>1. faults' \in 0 .. MaxFaults
    BY <1>0, <1>3, FaultIsBounded DEF WriteFails, TypeOK
  <2>2. UNCHANGED <<outbox, retries>> /\ sockStatus' = "DISCONNECTED"
    BY <1>0, <1>3 DEF WriteFails, outbox, retries
  <2> QED BY <1>0, <2>1, <2>2, OtherStep
      DEF TypeOK, SocketStatus, ConnectedSocketIsOpen, longLink
<1> QED BY <1>1, <1>2, <1>3 DEF WriteThread

(* The list a payload is appended to: the whole of it, or all but its head.*)
LEMMA RoomFacts ==
  ASSUME SocketInv
  PROVE  /\ Room(sendBuf) \in Seq(Entries)
         /\ \A i \in 1 .. Len(Room(sendBuf)) :
              Room(sendBuf)[i].msg + Len(Room(sendBuf)) = published + i
         /\ lastSent + Len(Room(sendBuf)) <= published
<1>1. CASE sockStatus # "CONNECTED" /\ Len(sendBuf) >= MSG_CNT_DISCONN_MAX
  <2>1. Room(sendBuf) = Tail(sendBuf) BY <1>1 DEF Room
  <2>2. sendBuf # << >> BY <1>1, BoundsAssumption
  <2>3. lastSent \in Nat /\ published \in Nat /\ lastSent + Len(sendBuf) <= published
    BY BoundsAssumption DEF SocketInv, TypeOK, Consecutive
  <2>4. Len(Tail(sendBuf)) = Len(sendBuf) - 1 /\ Len(sendBuf) \in Nat \ {0}
    BY <2>2, TakeHead
  <2>5. lastSent + Len(Tail(sendBuf)) <= published BY <2>3, <2>4
  <2> QED BY <2>1, <2>2, <2>5, TakeHead
<1>2. CASE ~(sockStatus # "CONNECTED" /\ Len(sendBuf) >= MSG_CNT_DISCONN_MAX)
  <2>1. Room(sendBuf) = sendBuf BY <1>2 DEF Room
  <2> QED BY <2>1 DEF SocketInv, TypeOK, Consecutive, Entries
<1> QED BY <1>1, <1>2

LEMMA PublishKeeps ==
  ASSUME SocketInv, Publish PROVE SocketInv'
<1> DEFINE R == Room(sendBuf)
<1>0. /\ TypeOK /\ ConnectedSocketIsOpen /\ HeadIsRemembered
      /\ published < MaxMessages /\ published' = published + 1
      /\ cuts' = IF R = sendBuf THEN cuts ELSE 0
      /\ UNCHANGED <<connection, lastSent, preBuf, attempts, longLink, faults>>
  BY DEF SocketInv, Publish
<1>1. PICK addr \in Buffers :
        sendBuf' = Append(R, [addr |-> addr, msg |-> published + 1])
  BY DEF Publish
<1> DEFINE e == [addr |-> addr, msg |-> published + 1]
<1>2. published \in Nat /\ e \in Entries /\ published' \in 0 .. MaxMessages
      /\ e.msg = published + 1 /\ lastSent \in Nat
  BY <1>0, BoundsAssumption DEF TypeOK, Entries
<1>3. /\ R \in Seq(Entries)
      /\ \A i \in 1 .. Len(R) : R[i].msg + Len(R) = published + i
      /\ lastSent + Len(R) <= published
  BY RoomFacts
<1>4. sendBuf' = Append(R, e) BY <1>1
<1> HIDE DEF R, e
<1>5. /\ sendBuf' \in Seq(Entries)
      /\ Len(sendBuf') = Len(R) + 1
      /\ \A i \in 1 .. Len(R) : sendBuf'[i] = R[i]
      /\ sendBuf'[Len(R) + 1] = e
  BY <1>2, <1>3, <1>4, AppendFacts
<1>6. Len(R) \in Nat BY <1>3
<1>7. TypeOK' BY <1>0, <1>2, <1>5 DEF TypeOK, connection, longLink, Entries
<1>8. ConnectedSocketIsOpen' BY <1>0 DEF ConnectedSocketIsOpen, connection
<1>9. HeadIsRemembered'
  <2>1. CASE R = sendBuf
    <3>1. cuts' = cuts BY <1>0, <2>1
    <3>2. ASSUME cuts > 0
          PROVE  Len(sendBuf') > 0 /\ sendBuf'[1] = sendBuf[1]
      BY <1>0, <1>5, <1>6, <2>1, <3>2 DEF HeadIsRemembered
    <3> QED BY <1>0, <3>1, <3>2 DEF HeadIsRemembered
  <2>2. CASE R # sendBuf
    BY <1>0, <2>2 DEF HeadIsRemembered
  <2> QED BY <2>1, <2>2
<1>10. Consecutive'
  <2>1. lastSent' + Len(sendBuf') <= published'
    BY <1>0, <1>2, <1>3, <1>5, <1>6
  <2>2. ASSUME NEW i \in 1 .. Len(sendBuf')
        PROVE  sendBuf'[i].msg + Len(sendBuf') = published' + i
    <3>1. CASE i \in 1 .. Len(R)
      <4>1. sendBuf'[i].msg = R[i].msg /\ R[i].msg + Len(R) = published + i
        BY <1>3, <1>5, <3>1
      <4>2. R[i] \in Entries BY <1>3, <3>1
      <4>3. R[i].msg \in Nat BY <4>2 DEF Entries
      <4> QED BY <1>0, <1>2, <1>5, <1>6, <4>1, <4>3
    <3>2. CASE i = Len(R) + 1
      BY <1>0, <1>2, <1>5, <1>6, <3>2
    <3> QED BY <1>5, <1>6, <3>1, <3>2
  <2> QED BY <2>1, <2>2 DEF Consecutive
<1> QED BY <1>7, <1>8, <1>9, <1>10 DEF SocketInv

LEMMA StepKeeps == SocketInv /\ [Next]_vars => SocketInv'
<1> SUFFICES ASSUME SocketInv, [Next]_vars PROVE SocketInv' OBVIOUS
<1>1. CASE HandshakeCompletes \/ HandshakeFails \/ ServerLeaves
  BY <1>1, NetworkKeeps
<1>2. CASE ConnectionThread BY <1>2, ConnectionThreadKeeps
<1>3. CASE WriteThread BY <1>3, WriteThreadKeeps
<1>4. CASE RecvThread \/ LongLinkSample \/ LongLinkReport
  BY <1>4, MainLoopAndReceiverKeep
<1>5. CASE Publish BY <1>5, PublishKeeps
<1>6. CASE UNCHANGED vars
  BY <1>6, OtherStep
  DEF vars, connection, outbox, retries, longLink, SocketInv, TypeOK,
      ConnectedSocketIsOpen
<1> QED BY <1>1, <1>2, <1>3, <1>4, <1>5, <1>6 DEF Next

(* The inductive invariant holds in every state.                           *)
THEOREM SocketInvariance == Spec => []SocketInv
BY InitEstablishes, StepKeeps, PTL DEF Spec

(***************************************************************************)
(* Every variable keeps its type: the static counters stay in their        *)
(* bounds.                                                                 *)
(***************************************************************************)
THEOREM SocketTypeCorrect == Spec => []TypeOK
BY SocketInvariance, PTL DEF SocketInv

(***************************************************************************)
(* No thread uses a socket that the kernel does not hold connected.        *)
(***************************************************************************)
THEOREM SocketIsOpen == Spec => []ConnectedSocketIsOpen
BY SocketInvariance, PTL DEF SocketInv

(***************************************************************************)
(* A payload is written in part RETRY_MAX + 1 times at most before it is   *)
(* written whole or given up.                                              *)
(***************************************************************************)
THEOREM ResendingIsBounded == Spec => []ResendingEnds
<1>1. SocketInv => ResendingEnds
  BY BoundsAssumption DEF SocketInv, TypeOK, HeadIsRemembered, ResendingEnds
<1> QED BY <1>1, SocketInvariance, PTL
-----------------------------------------------------------------------------
(***************************************************************************)
(* The list of buffers as the queue of Outbox.                             *)
(***************************************************************************)
Msgs(q) == [i \in 1 .. Len(q) |-> q[i].msg]

LEMMA MsgsSeq ==
  ASSUME NEW q \in Seq(Entries)
  PROVE  /\ Msgs(q) \in Seq(1 .. MaxMessages)
         /\ Len(Msgs(q)) = Len(q)
         /\ \A i \in 1 .. Len(q) : Msgs(q)[i] = q[i].msg
<1>1. Len(q) \in Nat OBVIOUS
<1>2. \A i \in 1 .. Len(q) : q[i].msg \in 1 .. MaxMessages
  <2>1. \A i \in 1 .. Len(q) : q[i] \in Entries OBVIOUS
  <2> QED BY <2>1 DEF Entries
<1> QED BY <1>1, <1>2 DEF Msgs

LEMMA MsgsTail ==
  ASSUME NEW q \in Seq(Entries), q # << >>
  PROVE  /\ Msgs(q) # << >>
         /\ Head(Msgs(q)) = q[1].msg
         /\ Msgs(Tail(q)) = Tail(Msgs(q))
<1>1. /\ Len(q) \in Nat \ {0} /\ Tail(q) \in Seq(Entries)
      /\ Len(Tail(q)) = Len(q) - 1
      /\ \A i \in 1 .. Len(Tail(q)) : Tail(q)[i] = q[i + 1]
  BY TailFacts
<1>2. /\ Msgs(q) \in Seq(1 .. MaxMessages) /\ Len(Msgs(q)) = Len(q)
      /\ \A i \in 1 .. Len(q) : Msgs(q)[i] = q[i].msg
  BY MsgsSeq
<1>3. Msgs(q) # << >> BY <1>1, <1>2
<1>4. /\ Tail(Msgs(q)) \in Seq(1 .. MaxMessages)
      /\ Len(Tail(Msgs(q))) = Len(q) - 1
      /\ \A i \in 1 .. Len(Tail(Msgs(q))) : Tail(Msgs(q))[i] = Msgs(q)[i + 1]
  BY <1>2, <1>3, TailFacts
<1>5. /\ Msgs(Tail(q)) \in Seq(1 .. MaxMessages)
      /\ Len(Msgs(Tail(q))) = Len(q) - 1
      /\ \A i \in 1 .. Len(Tail(q)) : Msgs(Tail(q))[i] = Tail(q)[i].msg
  BY <1>1, MsgsSeq
<1>6. ASSUME NEW i \in 1 .. Len(q) - 1
      PROVE  Msgs(Tail(q))[i] = Tail(Msgs(q))[i]
  <2>1. Msgs(Tail(q))[i] = q[i + 1].msg BY <1>1, <1>5
  <2>2. Tail(Msgs(q))[i] = Msgs(q)[i + 1] BY <1>4
  <2>3. i + 1 \in 1 .. Len(q) BY <1>1
  <2> QED BY <2>1, <2>2, <2>3, <1>2
<1>7. Msgs(Tail(q)) = Tail(Msgs(q))
  <2> DEFINE A == Msgs(Tail(q))  B == Tail(Msgs(q))
  <2>1. /\ A \in Seq(1 .. MaxMessages) /\ B \in Seq(1 .. MaxMessages)
        /\ Len(A) = Len(q) - 1 /\ Len(B) = Len(q) - 1
        /\ \A i \in 1 .. Len(q) - 1 : A[i] = B[i]
    BY <1>4, <1>5, <1>6
  <2> HIDE DEF A, B
  <2>2. A = B BY <2>1
  <2> QED BY <2>2 DEF A, B
<1>8. Head(Msgs(q)) = q[1].msg BY <1>1, <1>2, <1>3
<1> QED BY <1>3, <1>7, <1>8

LEMMA MsgsAppend ==
  ASSUME NEW q \in Seq(Entries), NEW e \in Entries
  PROVE  Msgs(Append(q, e)) = Append(Msgs(q), e.msg)
<1>1. /\ Append(q, e) \in Seq(Entries)
      /\ Len(Append(q, e)) = Len(q) + 1
      /\ \A i \in 1 .. Len(q) : Append(q, e)[i] = q[i]
      /\ Append(q, e)[Len(q) + 1] = e
  BY AppendFacts
<1>2. /\ Msgs(q) \in Seq(1 .. MaxMessages) /\ Len(Msgs(q)) = Len(q)
      /\ \A i \in 1 .. Len(q) : Msgs(q)[i] = q[i].msg
  BY MsgsSeq
<1>3. e.msg \in 1 .. MaxMessages /\ Len(q) \in Nat BY DEF Entries
<1> DEFINE A == Msgs(Append(q, e))  B == Append(Msgs(q), e.msg)
<1>4. /\ A \in Seq(1 .. MaxMessages) /\ Len(A) = Len(q) + 1
      /\ \A i \in 1 .. Len(q) + 1 : A[i] = Append(q, e)[i].msg
  BY <1>1, MsgsSeq
<1>5. /\ B \in Seq(1 .. MaxMessages) /\ Len(B) = Len(q) + 1
      /\ \A i \in 1 .. Len(q) : B[i] = Msgs(q)[i]
      /\ B[Len(q) + 1] = e.msg
  BY <1>2, <1>3, AppendFacts
<1> HIDE DEF A, B
<1>6. \A i \in 1 .. Len(q) + 1 : A[i] = B[i] BY <1>1, <1>2, <1>3, <1>4, <1>5
<1>7. A = B BY <1>4, <1>5, <1>6
<1> QED BY <1>7 DEF A, B

(***************************************************************************)
(* A payload is written whole once at most, and in the order of            *)
(* publication.                                                            *)
(***************************************************************************)
THEOREM PayloadsAreSentInOrder == Spec => []SentInOrderOnce
<1>1. SocketInv => SentInOrderOnce
  <2> SUFFICES ASSUME SocketInv PROVE SentInOrderOnce OBVIOUS
  <2>1. sendBuf \in Seq(Entries) /\ Consecutive
    BY DEF SocketInv, TypeOK, Entries
  <2>2. /\ Len(Msgs(sendBuf)) = Len(sendBuf)
        /\ \A i \in 1 .. Len(sendBuf) : Msgs(sendBuf)[i] = sendBuf[i].msg
    BY <2>1, MsgsSeq
  <2>3. /\ \A i \in 1 .. Len(Msgs(sendBuf)) :
             Msgs(sendBuf)[i] + Len(Msgs(sendBuf)) = published + i
        /\ lastSent + Len(Msgs(sendBuf)) <= published
    BY <2>1, <2>2 DEF Consecutive
  <2> QED BY <2>3 DEF SentInOrderOnce, Box!InOrder, Msgs
<1> QED BY <1>1, SocketInvariance, PTL

LEMMA QueueStep ==
  ASSUME SocketInv, [Next]_vars
  PROVE  [Box!Next]_(Box!vars)
<1>0. sendBuf \in Seq(Entries) BY DEF SocketInv, TypeOK, Entries
<1> DEFINE W == Msgs(sendBuf)
<1>1. ASSUME UNCHANGED outbox PROVE [Box!Next]_(Box!vars)
  <2>1. UNCHANGED <<Msgs(sendBuf), published, lastSent>>
    BY <1>1 DEF outbox, Msgs
  <2>2. CASE (sockStatus' = "CONNECTED") = (sockStatus = "CONNECTED")
    BY <2>1, <2>2 DEF Box!vars, Msgs
  <2>3. CASE (sockStatus' = "CONNECTED") = ~(sockStatus = "CONNECTED")
    BY <2>1, <2>3 DEF Box!Next, Box!LinkChange, Msgs
  <2> QED BY <2>2, <2>3
<1>2. CASE WriteThread
  <2>0. /\ sockStatus = "CONNECTED" /\ sendBuf # << >>
        /\ UNCHANGED published
    BY <1>2 DEF WriteThread
  <2>1. W # << >> /\ Head(W) = sendBuf[1].msg /\ Msgs(Tail(sendBuf)) = Tail(W)
    BY <1>0, <2>0, MsgsTail
  <2>2. CASE WrittenWhole
    <3>1. Msgs(sendBuf)' = Tail(W) /\ lastSent' = Head(W)
      BY <2>1, <2>2 DEF WrittenWhole, Msgs
    <3>2. sockStatus' = sockStatus BY <2>2 DEF WrittenWhole
    <3> QED BY <2>0, <2>1, <3>1, <3>2 DEF Box!Next, Box!Send, Msgs
  <2>3. CASE WrittenInPart
    <3>0. CutShort /\ UNCHANGED <<sockStatus, lastSent>>
      BY <2>3 DEF WrittenInPart
    <3>1. sendBuf' = sendBuf \/ sendBuf' = Tail(sendBuf)
      BY <3>0 DEF CutShort
    <3>2. CASE sendBuf' = sendBuf
      BY <1>1, <2>0, <3>0, <3>2 DEF outbox
    <3>3. CASE sendBuf' = Tail(sendBuf)
      <4>1. Msgs(sendBuf)' = Tail(W) BY <2>1, <3>3 DEF Msgs
      <4> QED BY <2>0, <2>1, <3>0, <4>1 DEF Box!Next, Box!GiveUp, Msgs
    <3> QED BY <3>1, <3>2, <3>3
  <2>4. CASE WriteFails
    BY <1>1, <2>0, <2>4 DEF WriteFails, outbox
  <2> QED BY <1>2, <2>2, <2>3, <2>4 DEF WriteThread
<1>3. CASE Publish
  <2>0. /\ published' = published + 1 /\ lastSent' = lastSent
        /\ sockStatus' = sockStatus
    BY <1>3 DEF Publish, connection
  <2>1. PICK addr \in Buffers :
          sendBuf' = Append(Room(sendBuf), [addr |-> addr, msg |-> published + 1])
    BY <1>3 DEF Publish
  <2> DEFINE e == [addr |-> addr, msg |-> published + 1]
             V == IF ~(sockStatus = "CONNECTED") /\ Len(W) >= MSG_CNT_DISCONN_MAX
                  THEN Tail(W) ELSE W
  <2>2. e \in Entries /\ e.msg = published + 1
    BY <1>3, BoundsAssumption DEF Publish, SocketInv, TypeOK, Entries
  <2>3. Len(W) = Len(sendBuf) BY <1>0, MsgsSeq
  <2>4. Msgs(Room(sendBuf)) = V
    <3>1. CASE sockStatus # "CONNECTED" /\ Len(sendBuf) >= MSG_CNT_DISCONN_MAX
      <4>1. sendBuf # << >> BY <3>1, BoundsAssumption
      <4>2. Msgs(Tail(sendBuf)) = Tail(W) BY <1>0, <4>1, MsgsTail
      <4> QED BY <2>3, <3>1, <4>2 DEF Room
    <3>2. CASE ~(sockStatus # "CONNECTED" /\ Len(sendBuf) >= MSG_CNT_DISCONN_MAX)
      BY <2>3, <3>2 DEF Room
    <3> QED BY <3>1, <3>2
  <2>5. Room(sendBuf) \in Seq(Entries) BY RoomFacts
  <2>6. Msgs(Append(Room(sendBuf), e)) = Append(V, published + 1)
    <3> HIDE DEF e, V
    <3>1. Msgs(Append(Room(sendBuf), e)) = Append(Msgs(Room(sendBuf)), e.msg)
      BY <2>2, <2>5, MsgsAppend
    <3> QED BY <2>2, <2>4, <3>1
  <2>7. Msgs(sendBuf)' = Append(V, published + 1) BY <2>1, <2>6 DEF Msgs
  <2> QED BY <2>0, <2>7 DEF Box!Next, Box!Accept, Msgs
<1>4. CASE \/ HandshakeCompletes \/ HandshakeFails \/ ServerLeaves
           \/ ConnectionThread \/ RecvThread \/ LongLinkSample
           \/ LongLinkReport \/ UNCHANGED vars
  BY <1>1, <1>4
  DEF HandshakeCompletes, HandshakeFails, ServerLeaves, ConnectionThread,
      RecvThread, LongLinkSample, LongLinkReport, vars
<1> QED BY <1>2, <1>3, <1>4 DEF Next

(***************************************************************************)
(* The list of buffers behaves as the queue of Outbox: what is published   *)
(* is sent in order and at most once, and lost only where Outbox says so.  *)
(***************************************************************************)
THEOREM TransportImplementsOutbox == Spec => ImplementsOutbox
<1>1. Init => Box!Init
  <2> SUFFICES ASSUME Init PROVE Box!Init OBVIOUS
  <2>1. [i \in 1 .. Len(sendBuf) |-> sendBuf[i].msg] = << >>
    <3>1. sendBuf \in Seq(Entries) /\ Len(sendBuf) = 0 BY DEF Init
    <3>2. Msgs(sendBuf) \in Seq(1 .. MaxMessages) /\ Len(Msgs(sendBuf)) = 0
      BY <3>1, MsgsSeq
    <3>3. Msgs(sendBuf) = << >> BY <3>2
    <3> QED BY <3>3 DEF Msgs
  <2> QED BY <2>1 DEF Init, Box!Init
<1>2. SocketInv /\ [Next]_vars => [Box!Next]_(Box!vars) BY QueueStep
<1> QED BY <1>1, <1>2, SocketInvariance, PTL DEF Spec, ImplementsOutbox, Box!Spec
=============================================================================
