--------------------------- MODULE GatewayCommands ---------------------------
(***************************************************************************)
(* The commands of the server (gateway-relay-socket-commands.c), on top of *)
(* the command relay.  A command is looked up in commandArray by its name; *)
(* its function builds a ZCL frame for later, sends the frame built before *)
(* to a device of the table, changes the relay's rules, or calls the       *)
(* framework and nothing else.  GatewayRelay says which command is         *)
(* executed when; here, any command may be the next one.                   *)
(*                                                                         *)
(* The buffer of the frame, appZclBuffer, is not the server's alone: it is *)
(* the one of the framework's command line (device-table-lite.c:32-36),    *)
(* which the gateway's console and the server's commands of type CLI       *)
(* drive.  The header there is globalApsFrame, and whether a frame is      *)
(* built is another zclCmdIsBuilt, since the one here is static.           *)
(***************************************************************************)
EXTENDS CommandRelay, TLC

CONSTANTS
  AttributeClusters,  \* the clusters whose attributes the server asks for
  None                \* no frame

VARIABLES
  zclFrameControlDirection,  \* of the global commands to be built
  localApsFrame,             \* its clusterId
  globalApsFrame,            \* the same of the framework's command line
  appZclBuffer,              \* the frame: the cluster it is for, direction
                             \* and command
  zclCmdIsBuilt,
  foreign,                   \* history: is the content of appZclBuffer the
                             \* command line's?
  sent                       \* history: what the last command sent to a device

slot == <<localApsFrame, globalApsFrame, appZclBuffer, zclCmdIsBuilt, foreign>>
gatewayVars == <<vars, zclFrameControlDirection, slot, sent>>

Zcl(cluster, direction, command) ==
  [cluster |-> cluster, direction |-> direction, command |-> command]
-----------------------------------------------------------------------------
(* The functions of commandArray with their names, split into words; the   *)
(* end of one name is a word of its own because another name lacks it.     *)
Creator  == <<"plugin", "network-creator">>
Security == <<"plugin", "network-creator-security">>
Rejoin   == <<"option", "security", "set-allow-trust-center-rejoin-using-well-known-key">>

CommandString == [
  StartNetwork         |-> Creator \o <<"start">>,
  StartNetworkWithParameters |-> Creator \o <<"form">>,
  OpenNetwork          |-> Security \o <<"open-network">>,
  CloseNetwork         |-> Security \o <<"close-network">>,
  SetJoiningKey        |-> Security \o <<"set-joining-link-key">>,
  ClearJoiningKeys     |-> Security \o <<"clear-joining-link-keys">>,
  OpenWithKey          |-> Security \o <<"open-with-key">>,
  ZclSend              |-> <<"plugin", "device-table", "send">>,
  DeviceTableClear     |-> <<"plugin", "device-table", "clear">>,
  CommandRelayAdd      |-> <<"plugin", "command-relay", "add">>,
  CommandRelayRemove   |-> <<"plugin", "command-relay", "remove">>,
  CommandRelayClear    |-> <<"plugin", "command-relay", "clear">>,
  OtaStorageCommonReload |-> <<"plugin", "ota-storage-common", "reload">>,
  OtaServerPolicyQuery |-> <<"plugin", "ota-server", "policy", "query">>,
  OtaServerNotify      |-> <<"plugin", "ota-server", "notify">>,
  IasZoneClientClearAll |-> <<"plugin", "ias-zone-client", "clear-all">>,
  ZdoLeave             |-> <<"zdo", "leave">>,
  ZdoBind              |-> <<"zdo", "bind">>,
  NetworkBoardPjoin    |-> <<"network", "broad-pjoin">>,
  NetworkLeave         |-> <<"network", "leave">>,
  NetworkForm          |-> <<"network", "form">>,
  ZclGlobalDirection   |-> <<"zcl", "global", "direction">>,
  ZclGlobalRead        |-> <<"zcl", "global", "read">>,
  ZclGlobalWrite       |-> <<"zcl", "global", "write">>,
  ZclOnOff             |-> <<"zcl", "on-off">>,
  ZclOnAndMoveToLevel  |-> <<"zcl", "level-control", "o-mv-to-level">>,
  ZclMoveToColorTemp   |-> <<"zcl", "color-control", "movetocolortemp">>,
  ZclMoveToHueAndSat   |-> <<"zcl", "color-control", "movetohueandsat">>,
  ZclGlobalSendMeAReport |-> <<"zcl", "global", "send-me-a-report">>,
  ZclGroup             |-> <<"zcl", "groups">>,
  AllowRejoin          |-> Rejoin,
  SetRejoinTimeout     |-> Rejoin \o <<"-timeout">>]

commandArray == DOMAIN CommandString

(* The names the server uses, and one that is in no entry.                 *)
Names == {CommandString[f] : f \in commandArray} \cup {<<"plugin", "unknown">>}

StartsWith(s, t) == Len(t) <= Len(s) /\ SubSeq(s, 1, Len(t)) = t

\* Mutant: an entry is compared up to its second word.
DispatchShort(input) ==
  {f \in commandArray : StartsWith(input, SubSeq(CommandString[f], 1, 2))}

(* emAfPluginGatewayRelaySocketCommandsProccessing: the function of every  *)
(* entry whose string the input begins with is called.                     *)
Dispatch(input) == {f \in commandArray : StartsWith(input, CommandString[f])}

(* The functions that some command calls, and no other function with it.   *)
Called == {f \in commandArray : \E input \in Names : Dispatch(input) = {f}}
-----------------------------------------------------------------------------
GatewayInit ==
  /\ Init
  /\ zclFrameControlDirection = "toServer"
  /\ localApsFrame = None /\ globalApsFrame = None
  /\ appZclBuffer = None
  /\ zclCmdIsBuilt = FALSE
  /\ foreign = FALSE
  /\ sent = None

(* A command is executed that leaves the relay and the device table alone.  *)
Executed(f) ==
  /\ f \in Called /\ running
  /\ forwarded' = {}
  /\ UNCHANGED <<relayTable, relayFile, known, running>>

ZclGlobalDirection ==
  /\ Executed("ZclGlobalDirection")
  /\ zclFrameControlDirection' \in {"toServer", "toClient"}
  /\ sent' = None
  /\ UNCHANGED slot

(* setApsFrame                                                             *)
SetApsFrame(cluster) == localApsFrame' = cluster

(* What every builder leaves behind.                                       *)
Built(frame) ==
  /\ appZclBuffer' = frame
  /\ zclCmdIsBuilt' = TRUE
  /\ foreign' = FALSE
  /\ sent' = None
  /\ UNCHANGED <<globalApsFrame, zclFrameControlDirection>>

ZclGlobalRead ==
  /\ Executed("ZclGlobalRead")
  /\ \E c \in AttributeClusters :
       SetApsFrame(c) /\ Built(Zcl(c, zclFrameControlDirection, "read"))

(* The value of a string attribute "is not supported"; the frame counts as *)
(* built all the same, and ends with the type.                             *)
ZclGlobalWrite ==
  /\ Executed("ZclGlobalWrite")
  /\ \E c \in AttributeClusters, command \in {"write", "write without value"} :
       SetApsFrame(c) /\ Built(Zcl(c, zclFrameControlDirection, command))

ZclGlobalSendMeAReport ==
  /\ Executed("ZclGlobalSendMeAReport")
  /\ \E c \in AttributeClusters :
       SetApsFrame(c) /\ Built(Zcl(c, zclFrameControlDirection, "report"))

(* Any word but "on" and "off" toggles.                                    *)
ZclOnOff ==
  /\ Executed("ZclOnOff")
  /\ SetApsFrame("onOff")
  /\ \E command \in {"on", "off", "toggle"} :
       Built(Zcl("onOff", "toServer", command))

ZclOnAndMoveToLevel ==
  /\ Executed("ZclOnAndMoveToLevel")
  /\ SetApsFrame("level")
  /\ Built(Zcl("level", "toServer", "move to level with on/off"))

ZclMoveToColorTemp ==
  /\ Executed("ZclMoveToColorTemp")
  /\ SetApsFrame("color")
  /\ Built(Zcl("color", "toServer", "move to color temperature"))

ZclMoveToHueAndSat ==
  /\ Executed("ZclMoveToHueAndSat")
  /\ SetApsFrame("color")
  /\ Built(Zcl("color", "toServer", "move to hue and saturation"))

(* The group command is told by the third letter of its word; a letter     *)
(* that is none of these leaves a frame without a command.                 *)
GroupCommand == [d |-> "add", e |-> "view", t |-> "get", m |-> "remove",
                 a |-> "remove all", dash |-> "add if identifying",
                 other |-> "none"]

\* Mutant: the cluster stays the one of the frame before.
ZclGroupWithoutCluster ==
  /\ Executed("ZclGroup")
  /\ UNCHANGED localApsFrame
  /\ \E third \in DOMAIN GroupCommand :
       Built(Zcl("groups", "toServer", GroupCommand[third]))

ZclGroup ==
  /\ Executed("ZclGroup")
  /\ SetApsFrame("groups")
  /\ \E third \in DOMAIN GroupCommand :
       Built(Zcl("groups", "toServer", GroupCommand[third]))

(* What is in the buffer goes out under a header.                          *)
SendUnder(header, sender, device) ==
  sent' = [by |-> sender, device |-> device,
           frame |-> [aps |-> header, zcl |-> appZclBuffer]]

\* Mutant: the frame stays built after it was sent.
ZclSendKeepsFrame ==
  /\ Executed("ZclSend")
  /\ zclCmdIsBuilt
  /\ \/ \E device \in known : SendUnder(localApsFrame, "server", device)
     \/ known # Devices /\ sent' = None
  /\ UNCHANGED <<zclFrameControlDirection, slot>>

(* Nothing is sent to a device that is not in the table, and the stack may *)
(* refuse what is sent, which is published; the frame is gone in any case. *)
ZclSend ==
  /\ Executed("ZclSend")
  /\ zclCmdIsBuilt
  /\ \/ \E device \in known : SendUnder(localApsFrame, "server", device)
     \/ known # Devices /\ sent' = None
  /\ zclCmdIsBuilt' = FALSE
  /\ UNCHANGED <<zclFrameControlDirection, localApsFrame, globalApsFrame,
                 appZclBuffer, foreign>>

ZclSendNothing ==
  /\ Executed("ZclSend")
  /\ ~zclCmdIsBuilt
  /\ sent' = None
  /\ UNCHANGED <<zclFrameControlDirection, slot>>
-----------------------------------------------------------------------------
(***************************************************************************)
(* The functions that keep nothing, with the function of the framework     *)
(* they pass their arguments on to.                                        *)
(***************************************************************************)
OtaAndZdoCalls == [
  OtaServerNotify        |-> "emberAfOtaServerSendImageNotifyCallback",
  OtaServerPolicyQuery   |-> "emAfOtaServerSetQueryPolicy",
  OtaStorageCommonReload |-> "emberAfOtaStorageInitCallback",
  ZdoLeave               |-> "emberLeaveRequest",
  ZdoBind                |-> "emberBindRequest",
  NetworkBoardPjoin      |-> "emberAfPermitJoin",
  NetworkLeave           |-> "emberLeaveNetwork",
  NetworkForm            |-> "emberAfFormNetwork"]

(* The last two only for a network with centralized security.              *)
NetworkCreatorCalls == [
  OpenNetwork  |-> "emberAfPluginNetworkCreatorSecurityOpenNetwork",
  CloseNetwork |-> "emberAfPluginNetworkCreatorSecurityCloseNetwork",
  StartNetwork |-> "emberAfPluginNetworkCreatorStart",
  StartNetworkWithParameters |-> "emberAfPluginNetworkCreatorNetworkForm"]

SecurityCalls == [
  SetJoiningKey         |-> "ezspAddTransientLinkKey",
  ClearJoiningKeys      |-> "ezspClearTransientLinkKeys",
  OpenWithKey           |-> "emberAfPluginNetworkCreatorSecurityOpenNetworkWithKeyPair",
  IasZoneClientClearAll |-> "emAfClearServers",
  AllowRejoin           |-> "ezspSetPolicy",
  SetRejoinTimeout      |-> "ezspSetConfigurationValue"]

FrameworkCalls == OtaAndZdoCalls @@ NetworkCreatorCalls @@ SecurityCalls

(* A command for the framework, or one that is not found.                  *)
FrameworkCommand ==
  /\ running
  /\ \E input \in Names : Dispatch(input) \subseteq DOMAIN FrameworkCalls
  /\ sent' = None /\ forwarded' = {}
  /\ UNCHANGED <<relayTable, relayFile, known, running,
                 zclFrameControlDirection, slot>>

(* The commands for the rules do what the command line does with them,     *)
(* which can also load and save.  A full table takes no rule, and nobody   *)
(* is told.                                                                *)
RulesCommand ==
  /\ \/ Operator
     \/ /\ running
        /\ Used(relayTable) = Idx
        /\ forwarded' = {}
        /\ UNCHANGED <<relayTable, relayFile, known, running>>
  /\ sent' = None
  /\ UNCHANGED <<zclFrameControlDirection, slot>>

DeviceTableClear ==
  /\ "DeviceTableClear" \in Called
  /\ TableCleared
  /\ sent' = None
  /\ UNCHANGED <<zclFrameControlDirection, slot>>

(* The zcl commands of the command line: the framework builds a frame in   *)
(* the same buffer, under its own header.                                  *)
CommandLineBuilds ==
  /\ running
  /\ \E z \in [cluster : AttributeClusters, direction : {"toServer"},
              command : {"read"}] :
       globalApsFrame' = z.cluster /\ appZclBuffer' = z
  /\ foreign' = TRUE
  /\ sent' = None /\ forwarded' = {}
  /\ UNCHANGED <<relayTable, relayFile, known, running, localApsFrame,
                 zclCmdIsBuilt, zclFrameControlDirection>>

(* emAfDeviceTableLiteSendCommand, emAfDeviceTableLiteIndexSendCommand:    *)
(* whatever is in the buffer is sent, built or not, and the zclCmdIsBuilt  *)
(* that is reset is the framework's.  An index past the table makes an     *)
(* assertion fail.                                                         *)
CommandLineSends ==
  /\ running
  /\ \/ /\ \E device \in known : SendUnder(globalApsFrame, "command line", device)
        /\ UNCHANGED running
     \/ sent' = None /\ UNCHANGED running
     \/ sent' = None /\ running' = FALSE
  /\ forwarded' = {}
  /\ UNCHANGED <<relayTable, relayFile, known, zclFrameControlDirection, slot>>

(* What goes on without the server: commands of devices, and the network.  *)
(* A new endpoint of an IAS zone is sent the address of the gateway, under *)
(* the header of the command line (emAfDeviceTableSendCieAddressWrite).    *)
Elsewhere ==
  /\ \/ /\ CommandReceived \/ DeviceJoins \/ DeviceLeaves \/ TableCleared
        /\ UNCHANGED globalApsFrame
     \/ DeviceJoins /\ globalApsFrame' = "iasZone"
  /\ sent' = None
  /\ UNCHANGED <<zclFrameControlDirection, localApsFrame, appZclBuffer,
                 zclCmdIsBuilt, foreign>>

(* A new process: what was built is lost.                                  *)
Restarted ==
  /\ Restart
  /\ zclFrameControlDirection' = "toServer"
  /\ localApsFrame' = None /\ globalApsFrame' = None /\ appZclBuffer' = None
  /\ zclCmdIsBuilt' = FALSE /\ foreign' = FALSE
  /\ sent' = None

Builder ==
  \/ ZclGlobalRead \/ ZclGlobalWrite \/ ZclGlobalSendMeAReport \/ ZclOnOff
  \/ ZclOnAndMoveToLevel \/ ZclMoveToColorTemp \/ ZclMoveToHueAndSat \/ ZclGroup

GatewayNext ==
  \/ ZclGlobalDirection \/ Builder \/ ZclSend \/ ZclSendNothing
  \/ FrameworkCommand \/ RulesCommand \/ DeviceTableClear
  \/ CommandLineBuilds \/ CommandLineSends
  \/ Elsewhere \/ Restarted

GatewaySpec == GatewayInit /\ [][GatewayNext]_gatewayVars
-----------------------------------------------------------------------------
ZclFrames ==
  [cluster : AttributeClusters, direction : {"toServer", "toClient"},
   command : {"read", "write", "write without value", "report"}]
  \cup {Zcl("onOff", "toServer", c) : c \in {"on", "off", "toggle"}}
  \cup {Zcl("level", "toServer", "move to level with on/off")}
  \cup {Zcl("color", "toServer", c) :
          c \in {"move to color temperature", "move to hue and saturation"}}
  \cup {Zcl("groups", "toServer", GroupCommand[third]) :
          third \in DOMAIN GroupCommand}

(* A frame under the cluster it is for.                                    *)
Frames == {[aps |-> z.cluster, zcl |-> z] : z \in ZclFrames}

(* What globalApsFrame may be for, without the frames of other callers.    *)
Headers == {z.cluster : z \in ZclFrames} \cup {"iasZone", None}

ASSUME NoneAssumption ==
  None \notin ZclFrames \cup [aps : Headers, zcl : ZclFrames \cup {None}]

Slot == INSTANCE FrameSlot WITH
  frame <- IF ~zclCmdIsBuilt THEN None
           ELSE [aps |-> localApsFrame,
                 zcl |-> IF foreign THEN None ELSE appZclBuffer],
  out   <- sent

(***************************************************************************)
(* The globals localApsFrame, appZclBuffer and zclCmdIsBuilt are the slot  *)
(* for one frame that FrameSlot describes: whatever builders, sends, other *)
(* commands, joins and restarts come one after the other, what the server  *)
(* sends goes out once, under the cluster it was built for, and whole      *)
(* unless the command line has built a frame of its own since; the send of *)
(* the command line neither takes the server's frame away nor counts as    *)
(* its send.                                                               *)
(***************************************************************************)
ImplementsFrameSlot == Slot!Spec

NamesAreDistinct ==
  \A f \in commandArray :
    Dispatch(CommandString[f]) =
      IF f = "SetRejoinTimeout" THEN {f, "AllowRejoin"} ELSE {f}

(***************************************************************************)
(* While the gateway runs, the name of a command calls its own function    *)
(* and no other, although the dispatcher compares prefixes and does not    *)
(* stop at a match.  The exception is the time-out of rejoins: its name    *)
(* begins with the name of the command that allows them.                   *)
(***************************************************************************)
OneEntryEach == running => NamesAreDistinct
=============================================================================
