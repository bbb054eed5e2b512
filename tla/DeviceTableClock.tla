-------------------------- MODULE DeviceTableClock --------------------------
(***************************************************************************)
(* The time discovery takes. DeviceTable with a history variable: for      *)
(* every device, the number of runs of the discovery event since its       *)
(* discovery was last started, counted up to a deadline. The event is      *)
(* scheduled every 50 ms (DEVICE_TABLE_DISCOVERY_QUANTUM_MS), so that a    *)
(* bound on the count is a bound on the time.                              *)
(***************************************************************************)
EXTENDS DeviceTable

VARIABLE clock

\* Twice the time given to one request, for the active endpoints and then for
\* the descriptors, and the run that finds the queue empty.
Deadline == 2 * MaxWaitTicks + 2

ClockInit == clock = [e \in Euis |-> 0]

\* The clock only follows: it is set and counts, and hinders no step.
ClockTick ==
  clock' = [e \in Euis |->
    IF \E n \in NodeIds : StartDiscovery(n, e) THEN 0
    ELSE IF NewDeviceEvent /\ clock[e] < Deadline THEN clock[e] + 1
    ELSE clock[e]]

ClockSpec == Spec /\ ClockInit /\ [][ClockTick]_<<vars, clock>>

-----------------------------------------------------------------------------

\* No device holds up discovery: whatever it and the others answer, how often
\* and in which order, and whatever is retried, no task of a device is queued
\* longer than twice the time limit of one request after its discovery was
\* last started; and two ticks after that, when no device is in its time any
\* more, the event is off. (The answer to the active endpoints request makes
\* new tasks whose own time begins at zero, so the limit of one task is not
\* the limit of the device.)
DiscoveryEndsInTime ==
  /\ \A k \in 1 .. Len(queue) : clock[queue[k].eui64] <= 2 * MaxWaitTicks
  /\ (\A e \in Euis : clock[e] = Deadline) => ~ eventActive
=============================================================================
