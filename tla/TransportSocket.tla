--------------------------- MODULE TransportSocket ---------------------------
(***************************************************************************)
(* The socket client between the gateway and its server                    *)
(* (transport-socket.c): a connection thread, a write thread, a receive    *)
(* thread and the main loop share one TCP socket, its status and a list of *)
(* buffers to be sent.  Each of the four works under sockInfoMutex and     *)
(* gives it up before it sleeps, so what one of them does between lock and *)
(* unlock is one action here.  The exception is LongLinkEventHandler,      *)
(* whose second half, the report to the layer above, runs without the      *)
(* mutex.                                                                  *)
(*                                                                         *)
(* The kernel's side of the socket (tcpSocket) is external: handshakes     *)
(* complete or fail, the server goes away, a write is cut short or fails.  *)
(* The thread that receives hands data to the layer above with the mutex   *)
(* held.  What that does is in GatewayRelay; it changes nothing here and   *)
(* publishes nothing.                                                      *)
(***************************************************************************)
EXTENDS Naturals, Sequences

CONSTANTS
  Buffers,              \* the addresses malloc can return for a payload
  NoBuffer,             \* NULL
  MSG_CNT_DISCONN_MAX, RETRY_MAX, EISCONN_STANDBY_MAX,
  MaxMessages,          \* bound: payloads published
  MaxFaults             \* bound: failures of the network or the server

ASSUME NoBufferAssumption == NoBuffer \notin Buffers
ASSUME BoundsAssumption ==
  /\ MSG_CNT_DISCONN_MAX \in Nat \ {0}
  /\ RETRY_MAX \in Nat
  /\ EISCONN_STANDBY_MAX \in Nat
  /\ MaxMessages \in Nat
  /\ MaxFaults \in Nat

VARIABLES
  sockStatus,           \* sockInfo.sockStatus
  eiconnCnt,            \* static of connectionThread
  tcpSocket,            \* the kernel's state of sockInfo.tcpSocketFd
  sendBuf,              \* the buffers to be sent: address and payload
  preBuf, attempts,     \* statics of partialWriteEventHandler
  curStatus,            \* the status sampled by the running LongLink handler
  reporting,            \* has the handler sampled, but not yet reported?
  lastStatus,           \* static of the handler: the status reported last
  published,            \* history: the number of payloads accepted
  lastSent,             \* history: the payload written whole last
  cuts,                 \* history: how often the head was written in part
  faults                \* how many failures there have been

connection == <<sockStatus, eiconnCnt, tcpSocket>>
outbox     == <<sendBuf, published, lastSent>>
retries    == <<preBuf, attempts, cuts>>
longLink   == <<curStatus, reporting, lastStatus>>
vars == <<connection, outbox, retries, longLink, faults>>

SocketStatus == {"CONNECTED", "CON_IN_PROG", "DISCONNECTED"}
LinkStates   == {"CONNECTED", "DISCONNECTED"}

(***************************************************************************)
(* The kernel's socket: new, in its handshake, refused, accepted by the    *)
(* server without the client knowing yet, established, or given up by the  *)
(* server.  A socket the client knows to be connected is established or    *)
(* lost.                                                                   *)
(***************************************************************************)
SocketStates == {"new", "connecting", "refused", "accepted", "acceptedLost",
                 "established", "lost"}

(* What connect() answers: success, or errno.                              *)
ConnectResults(s) ==
  CASE s = "new"          -> {"EINPROGRESS", "other"}
    [] s = "connecting"   -> {"other"}                 \* EALREADY
    [] s = "refused"      -> {"other"}
    [] s = "accepted"     -> {"success", "EISCONN"}
    [] s = "acceptedLost" -> {"success", "EISCONN", "other"}
    [] s \in {"established", "lost"} -> {"EISCONN"}

Known(s) == CASE s = "accepted"     -> "established"
              [] s = "acceptedLost" -> "lost"
              [] OTHER              -> s

Fault == faults < MaxFaults /\ faults' = faults + 1

Init ==
  /\ sockStatus = "DISCONNECTED"
  /\ eiconnCnt = 0
  /\ tcpSocket = "new"
  /\ sendBuf = << >>
  /\ preBuf = NoBuffer /\ attempts = 0
  /\ curStatus = "DISCONNECTED" /\ reporting = FALSE
  /\ lastStatus = "DISCONNECTED"
  /\ published = 0 /\ lastSent = 0 /\ cuts = 0 /\ faults = 0
-----------------------------------------------------------------------------
(* The network and the server.                                             *)
HandshakeCompletes ==
  /\ tcpSocket = "connecting"
  /\ tcpSocket' = "accepted"
  /\ UNCHANGED <<sockStatus, eiconnCnt, outbox, retries, longLink, faults>>

HandshakeFails ==
  /\ Fault
  /\ tcpSocket = "connecting"
  /\ tcpSocket' = "refused"
  /\ UNCHANGED <<sockStatus, eiconnCnt, outbox, retries, longLink>>

ServerLeaves ==
  /\ Fault
  /\ \/ tcpSocket = "accepted" /\ tcpSocket' = "acceptedLost"
     \/ tcpSocket = "established" /\ tcpSocket' = "lost"
  /\ UNCHANGED <<sockStatus, eiconnCnt, outbox, retries, longLink>>
-----------------------------------------------------------------------------
(* The connection thread: one turn of its loop, every two seconds.         *)
ConnectSucceeds ==
  /\ "success" \in ConnectResults(tcpSocket)
  /\ sockStatus' = "CONNECTED"
  /\ tcpSocket' = Known(tcpSocket)
  /\ UNCHANGED <<eiconnCnt, faults>>

ConnectInProgress ==
  /\ "EINPROGRESS" \in ConnectResults(tcpSocket)
  /\ sockStatus' = "CON_IN_PROG"
  /\ tcpSocket' = "connecting"
  /\ eiconnCnt' = 0
  /\ UNCHANGED faults

\* Mutant: the answers EISCONN are not counted.
AlreadyConnectedUncounted ==
  /\ "EISCONN" \in ConnectResults(tcpSocket)
  /\ sockStatus' = "CONNECTED"
  /\ tcpSocket' = Known(tcpSocket)
  /\ UNCHANGED <<eiconnCnt, faults>>

\* Mutant: one answer EISCONN too many is tolerated.
AlreadyConnectedOnceMore ==
  /\ "EISCONN" \in ConnectResults(tcpSocket)
  /\ eiconnCnt <= EISCONN_STANDBY_MAX
  /\ sockStatus' = "CONNECTED"
  /\ tcpSocket' = Known(tcpSocket)
  /\ eiconnCnt' = eiconnCnt + 1
  /\ UNCHANGED faults

AlreadyConnected ==
  /\ "EISCONN" \in ConnectResults(tcpSocket)
  /\ eiconnCnt < EISCONN_STANDBY_MAX
  /\ sockStatus' = "CONNECTED"
  /\ tcpSocket' = Known(tcpSocket)
  /\ eiconnCnt' = eiconnCnt + 1
  /\ UNCHANGED faults

(* Every other answer: the socket is closed and a new one made.            *)
ConnectFails ==
  /\ \/ "other" \in ConnectResults(tcpSocket)
     \/ "EISCONN" \in ConnectResults(tcpSocket)
        /\ eiconnCnt >= EISCONN_STANDBY_MAX
  /\ sockStatus' = "DISCONNECTED"
  /\ tcpSocket' = "new"
  /\ eiconnCnt' = 0
  /\ IF tcpSocket = "new" THEN Fault ELSE UNCHANGED faults

ConnectionThread ==
  /\ sockStatus # "CONNECTED"
  /\ \/ ConnectSucceeds
     \/ ConnectInProgress
     \/ AlreadyConnected
     \/ ConnectFails
  /\ UNCHANGED <<outbox, retries, longLink>>
-----------------------------------------------------------------------------
\* Mutant: the buffer stays in the list.
WrittenTwice ==
  /\ lastSent' = sendBuf[1].msg
  /\ cuts' = 0
  /\ UNCHANGED <<sendBuf, sockStatus, preBuf, attempts, faults>>

(* The write thread: one buffer, the head of the list, every 50 ms.        *)
WrittenWhole ==
  /\ lastSent' = sendBuf[1].msg
  /\ sendBuf' = Tail(sendBuf)
  /\ cuts' = 0
  /\ UNCHANGED <<sockStatus, preBuf, attempts, faults>>

(* partialWriteEventHandler remembers the buffer that was cut short, and   *)
(* gives the buffer up when it is not the one remembered or has been tried *)
(* often enough.                                                           *)
Remembered == sendBuf[1].addr = preBuf

\* Mutant: the attempts are not counted.
CutShortUncounted ==
  \/ /\ preBuf = NoBuffer
     /\ preBuf' = sendBuf[1].addr
     /\ cuts' = cuts + 1
     /\ UNCHANGED <<attempts, sendBuf>>
  \/ /\ Remembered
     /\ cuts' = cuts + 1
     /\ UNCHANGED <<preBuf, attempts, sendBuf>>
  \/ /\ preBuf # NoBuffer /\ ~Remembered
     /\ preBuf' = NoBuffer
     /\ sendBuf' = Tail(sendBuf)
     /\ cuts' = 0
     /\ UNCHANGED attempts

CutShort ==
  \/ /\ preBuf = NoBuffer /\ attempts = 0
     /\ preBuf' = sendBuf[1].addr
     /\ cuts' = cuts + 1
     /\ UNCHANGED <<attempts, sendBuf>>
  \/ /\ ~(preBuf = NoBuffer /\ attempts = 0)
     /\ Remembered /\ attempts < RETRY_MAX
     /\ attempts' = attempts + 1
     /\ cuts' = cuts + 1
     /\ UNCHANGED <<preBuf, sendBuf>>
  \/ /\ ~(preBuf = NoBuffer /\ attempts = 0)
     /\ ~(Remembered /\ attempts < RETRY_MAX)
     /\ attempts' = 0
     /\ preBuf' = NoBuffer
     /\ sendBuf' = Tail(sendBuf)
     /\ cuts' = 0

WrittenInPart ==
  /\ Fault
  /\ CutShort
  /\ UNCHANGED <<sockStatus, lastSent>>

(* The error of a socket the server still serves (its buffer is full, a    *)
(* signal) counts as a failure; the buffer stays in the list.              *)
WriteFails ==
  /\ sockStatus' = "DISCONNECTED"
  /\ IF tcpSocket = "lost" THEN UNCHANGED faults ELSE Fault
  /\ UNCHANGED <<sendBuf, lastSent, preBuf, attempts, cuts>>

WriteThread ==
  /\ sockStatus = "CONNECTED"
  /\ sendBuf # << >>
  /\ WrittenWhole \/ WrittenInPart \/ WriteFails
  /\ UNCHANGED <<eiconnCnt, tcpSocket, published, longLink>>

(* The receive thread: recv() returns 0.                                   *)
RecvThread ==
  /\ sockStatus = "CONNECTED"
  /\ tcpSocket = "lost"
  /\ sockStatus' = "DISCONNECTED"
  /\ UNCHANGED <<eiconnCnt, tcpSocket, outbox, retries, longLink, faults>>
-----------------------------------------------------------------------------
\* Mutant: the status stays connected.
LongLinkSampleForgetful ==
  /\ ~reporting
  /\ reporting' = TRUE
  /\ IF sockStatus = "CONNECTED" /\ tcpSocket = "lost"
     THEN /\ curStatus' = "DISCONNECTED"
          /\ tcpSocket' = "new"
     ELSE /\ curStatus' = IF sockStatus = "CONNECTED" THEN "CONNECTED"
                                                      ELSE "DISCONNECTED"
          /\ UNCHANGED tcpSocket
  /\ UNCHANGED <<sockStatus, eiconnCnt, lastStatus, outbox, retries, faults>>

(* LongLinkEventHandler, every two seconds on the main loop.  Under the    *)
(* mutex it looks for the end of the connection and samples the status.    *)
LongLinkSample ==
  /\ ~reporting
  /\ reporting' = TRUE
  /\ IF sockStatus = "CONNECTED" /\ tcpSocket = "lost"
     THEN /\ sockStatus' = "DISCONNECTED"
          /\ tcpSocket' = "new"
     ELSE UNCHANGED <<sockStatus, tcpSocket>>
  /\ curStatus' = IF sockStatus' = "CONNECTED" THEN "CONNECTED"
                                               ELSE "DISCONNECTED"
  /\ UNCHANGED <<eiconnCnt, lastStatus, outbox, retries, faults>>

(* Without the mutex it tells the layer above and remembers what it told.  *)
LongLinkReport ==
  /\ reporting
  /\ reporting' = FALSE
  /\ lastStatus' = curStatus
  /\ UNCHANGED <<curStatus, connection, outbox, retries, faults>>

\* Mutant: > for >=.
RoomOffByOne(buf) ==
  IF sockStatus # "CONNECTED" /\ Len(buf) > MSG_CNT_DISCONN_MAX
  THEN Tail(buf)
  ELSE buf

(* emberAfPluginTransportSocketPublish, called by the main loop.  While    *)
(* the client is not connected, a list at its limit loses its head.        *)
Room(buf) ==
  IF sockStatus # "CONNECTED" /\ Len(buf) >= MSG_CNT_DISCONN_MAX
  THEN Tail(buf)
  ELSE buf

Publish ==
  /\ ~reporting
  /\ published < MaxMessages
  /\ \E addr \in Buffers \ {sendBuf[i].addr : i \in 1 .. Len(sendBuf)} :
       sendBuf' = Append(Room(sendBuf), [addr |-> addr, msg |-> published + 1])
  /\ published' = published + 1
  /\ cuts' = IF Room(sendBuf) = sendBuf THEN cuts ELSE 0
  /\ UNCHANGED <<connection, lastSent, preBuf, attempts, longLink, faults>>
-----------------------------------------------------------------------------
Next ==
  \/ HandshakeCompletes \/ HandshakeFails \/ ServerLeaves
  \/ ConnectionThread \/ WriteThread \/ RecvThread
  \/ LongLinkSample \/ LongLinkReport
  \/ Publish

Spec == Init /\ [][Next]_vars

(***************************************************************************)
(* Each thread takes its turns.  A client that keeps connecting finds a    *)
(* server that answers before the next turn of the connection thread again *)
(* and again; that is a demand on the network, and a strong one, since the *)
(* client abandons each handshake that takes longer than two seconds.      *)
(***************************************************************************)
FairSpec ==
  /\ Spec
  /\ WF_vars(ConnectionThread)
  /\ WF_vars(WriteThread)
  /\ WF_vars(RecvThread)
  /\ WF_vars(LongLinkSample)
  /\ WF_vars(LongLinkReport)
  /\ SF_vars(HandshakeCompletes)
-----------------------------------------------------------------------------
TypeOK ==
  /\ sockStatus \in SocketStatus
  /\ eiconnCnt \in 0 .. EISCONN_STANDBY_MAX
  /\ tcpSocket \in SocketStates
  /\ sendBuf \in Seq([addr : Buffers, msg : 1 .. MaxMessages])
  /\ preBuf \in Buffers \cup {NoBuffer}
  /\ attempts \in 0 .. RETRY_MAX
  /\ curStatus \in LinkStates
  /\ reporting \in BOOLEAN
  /\ lastStatus \in LinkStates
  /\ published \in 0 .. MaxMessages
  /\ lastSent \in 0 .. MaxMessages
  /\ cuts \in Nat
  /\ faults \in 0 .. MaxFaults

(***************************************************************************)
(* The threads write to a socket and read from it only while it is         *)
(* connected in the kernel, too, whichever thread replaced it last         *)
(* (connectionThread and LongLinkEventHandler both close it and make a new *)
(* one).                                                                   *)
(***************************************************************************)
ConnectedSocketIsOpen ==
  sockStatus = "CONNECTED" => tcpSocket \in {"established", "lost"}

(***************************************************************************)
(* A payload that is always cut short does not hold up the ones behind it: *)
(* partialWriteEventHandler keeps it for RETRY_MAX + 1 partial writes at   *)
(* most, whatever buffers it remembers from earlier payloads.              *)
(***************************************************************************)
ResendingEnds == cuts <= RETRY_MAX + 1

(***************************************************************************)
(* The buffers, their order and their losses are those of the abstract     *)
(* queue: sent in order, at most once each, lost only from the front, and  *)
(* only when the list is at its limit while disconnected or a partial      *)
(* write was given up (emberAfPluginTransportSocketPublish,                *)
(* writeSocketThread and the event handlers of the writes).                *)
(***************************************************************************)
Box == INSTANCE Outbox WITH
         Limit    <- MSG_CNT_DISCONN_MAX,
         waiting  <- [i \in 1 .. Len(sendBuf) |-> sendBuf[i].msg],
         accepted <- published,
         lastSent <- lastSent,
         up       <- sockStatus = "CONNECTED"

ImplementsOutbox == Box!Spec

(* The payloads in the list are the latest ones and none of them was sent: *)
(* a payload is written whole once at most.                                *)
SentInOrderOnce == Box!InOrder

(***************************************************************************)
(* Once the network and the server fail no more, the client is connected   *)
(* for good, and the layer above has been told so by the LongLink event.   *)
(***************************************************************************)
LinkIsRestored == <>[](sockStatus = "CONNECTED" /\ lastStatus = "CONNECTED")

(***************************************************************************)
(* Every payload leaves the list in the end, by a write or by a loss that  *)
(* ImplementsOutbox allows.                                                *)
(***************************************************************************)
PayloadsLeave ==
  \A m \in 1 .. MaxMessages :
    [](published >= m => <>(\A i \in 1 .. Len(sendBuf) : sendBuf[i].msg # m))

(***************************************************************************)
(* "After attempting to resend several times, remove it from the list."    *)
(* (transport-socket.c:287): a payload is given up only after it has been  *)
(* resent.                                                                 *)
(***************************************************************************)
GivenUpAfterResending ==
  [][Len(sendBuf') < Len(sendBuf) /\ lastSent' = lastSent => cuts > 0]_vars
=============================================================================
