------------------------------ MODULE FrameSlot ------------------------------
(***************************************************************************)
(* What the server may rely on when it builds a ZCL frame with one command *)
(* and sends it with a later one: there is one frame under construction.   *)
(* A new one takes its place and a send takes it away.  The gateway's      *)
(* command line shares the content, not the header: a frame it builds      *)
(* takes the content's place, and then the server's send joins the header  *)
(* of the one with the content of the other.  Short of that, what the      *)
(* server sends is a whole frame that was built since its last send.       *)
(***************************************************************************)
CONSTANTS Frames,    \* the frames that can be built: [aps, zcl], header and
                     \* content
          ZclFrames, \* their contents
          Headers,   \* the headers of the command line
          Devices,   \* the devices a frame may be sent to
          None       \* no frame, and no content of the server's

VARIABLES frame,     \* the server's frame under construction, or None
          out        \* what the last command sent: [by, frame, device], or None

Init == frame = None /\ out = None

Build == frame' \in Frames /\ out' = None

Sent(sender, what) == out' \in [by : {sender}, frame : what, device : Devices]

Send ==
  /\ frame # None /\ frame.zcl # None
  /\ frame' = None
  /\ Sent("server", {frame})

\* The command line has built a frame since.
SendMixed ==
  /\ frame # None /\ frame.zcl = None
  /\ frame' = None
  /\ Sent("server", [aps : {frame.aps}, zcl : ZclFrames])

CommandLineBuilds ==
  /\ frame' = IF frame = None THEN None ELSE [frame EXCEPT !.zcl = None]
  /\ out' = None

\* Under a header of its own, whatever the content is.
CommandLineSends ==
  /\ frame' = frame
  /\ Sent("command line", [aps : Headers, zcl : ZclFrames \cup {None}])

\* A restart of the gateway, or a send to an unknown device.
Drop == frame' = None /\ out' = None

Other == frame' = frame /\ out' = None

Next == Build \/ Send \/ SendMixed \/ CommandLineBuilds \/ CommandLineSends
          \/ Drop \/ Other

Spec == Init /\ [][Next]_<<frame, out>>
=============================================================================
