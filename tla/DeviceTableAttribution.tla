----------------------- MODULE DeviceTableAttribution -----------------------
(***************************************************************************)
(* Discovery and the table know the sender of an answer by its short       *)
(* address only. Proofs of what that leaves a device:                      *)
(*   - whether short addresses are shared or not, a device loses its first *)
(*     occupied slot, an endpoint or its place in table and queue only to  *)
(*     the events named in the properties, one of which is that a device   *)
(*     with the same short address takes a slot over;                      *)
(*   - if no short address is shared (AddressesDisjoint), no slot is taken *)
(*     over, and no endpoint is credited to a device that does not own it. *)
(*                                                                         *)
(* The inductive invariant of the second part needs that the first slot of *)
(* a device is occupied: a load leaves EUI64s in free slots, and a node id *)
(* change would hand free slots to a device if such a slot came first.     *)
(**************************************************************************)
EXTENDS DeviceTableProofs

EntryBelongs(x) == x.eui64 \in Euis /\ x.nodeId \in Addr[x.eui64]
TableBelongs(t) == \A i \in Occupied(t) : EntryBelongs(t[i])
FileBelongs(d) == \A k \in 1 .. Len(d) : EntryBelongs(d[k])
QueueBelongs(q) == \A k \in 1 .. Len(q) : q[k].nodeId \in Addr[q[k].eui64]

FirstSlotsOccupied(t) == \A e \in Euis : FirstSlotOccupied(t, e)

TableAttribution(t) == TableBelongs(t) /\ FirstSlotsOccupied(t)

-----------------------------------------------------------------------------
(* The queue *)

LEMMA PartBelongs ==
  ASSUME NEW q, QueueBelongs(q), NEW r, DrawnFrom(r, q)
  PROVE  QueueBelongs(r)
BY DEF QueueBelongs, DrawnFrom

LEMMA QueueBelongsInductive ==
  ASSUME QueueInv, QueueBelongs(queue), [Next]_vars
  PROVE  QueueBelongs(queue')
<1>1. queue \in Seq(Tasks) /\ Len(queue) \in Nat /\ Len(queue) <= MaxQueueSize
      /\ SortedByDelay(queue)
      /\ \A a \in 1 .. Len(queue) : PhaseFits(queue[a])
  BY DEF QueueInv, QueueTypeOK, HeadIsNextDue, PhaseMatchesEndpoint, PhaseFits
<1>2. CASE QueueKept
  BY <1>2 DEF QueueKept
<1>3. ASSUME NEW n \in NodeIds, NEW e \in Euis, n \in Addr[e],
             StartDiscovery(n, e)
      PROVE  QueueBelongs(queue')
  <2> DEFINE x == NewTask(e, n, UnknownEndpoint, EndpointsSend)
             ts == <<x>>
  <2>1. PICK q \in DeleteTasksOf(queue, e) : queue' \in Enqueue(q, ts)
    BY <1>3 DEF StartDiscovery, AddTasks
  <2>2. q \in Seq(Tasks) /\ Len(q) <= Len(queue) /\ DrawnFrom(q, queue)
    BY <1>1, DeleteTasksOfProperties
  <2>3. x \in Tasks /\ x.eui64 = e /\ x.nodeId = n
    <3>1. x \in Tasks
      BY NewTaskType, SizesAssumption DEF Endpoints, UnknownEndpoint, Phases
    <3> QED
      BY <3>1 DEF NewTask
  <2> HIDE DEF x
  <2>4. ts \in Seq(Tasks) /\ \A a \in 1 .. Len(ts) : ts[a] = x
    BY <2>3
  <2>5. Len(q) <= MaxQueueSize
    BY <1>1, <2>2, SizesAssumption
  <2> HIDE DEF ts
  <2>6. \A a \in 1 .. Len(queue') : \/ \E b \in 1 .. Len(q) : queue'[a] = q[b]
                                    \/ \E b \in 1 .. Len(ts) : queue'[a] = ts[b]
    BY <2>1, <2>2, <2>4, <2>5, EnqueueProperties
  <2>7. QueueBelongs(q)
    BY <2>2, PartBelongs
  <2>8. \A b \in 1 .. Len(ts) : ts[b].nodeId \in Addr[ts[b].eui64]
    BY <1>3, <2>3, <2>4
  <2> QED
    BY <2>6, <2>7, <2>8 DEF QueueBelongs
<1>4. ASSUME NEW n \in NodeIds, NEW cnt \in 0 .. MaxEndpoints + 1,
             ActiveEndpointsResponse(n, cnt)
      PROVE  QueueBelongs(queue')
  <2> DEFINE k == TaskIndex(queue, n, UnknownEndpoint)
             m == IF cnt > MaxEndpoints THEN MaxEndpoints ELSE cnt
             q == DeleteTask(queue, k)
             ts == [p \in 1 .. m |-> NewTask(queue[k].eui64, n, p, SimpleSend)]
  <2>1. queue' \in Enqueue(q, ts)
    BY <1>4 DEF ActiveEndpointsResponse, AddTasks
  <2>2. k \in 1 .. Len(queue) /\ queue[k].nodeId = n
    BY <1>1, <1>4, TasksForProperties DEF ActiveEndpointsResponse
  <2> HIDE DEF k
  <2>3. q \in Seq(Tasks) /\ Len(q) = Len(queue) - 1 /\ DrawnFrom(q, queue)
    BY <1>1, <2>2, DeleteTaskProperties
  <2>4. queue[k].eui64 \in Euis /\ n \in Addr[queue[k].eui64]
    <3>1. queue[k] \in Tasks
      BY <1>1, <2>2, ElementOfSeq
    <3> QED
      BY <2>2, <3>1 DEF Tasks, QueueBelongs
  <2>5. m \in Nat /\ m <= MaxEndpoints
    BY SizesAssumption
  <2> HIDE DEF m
  <2>6. ASSUME NEW p \in 1 .. m
        PROVE  /\ ts[p] \in Tasks
               /\ ts[p].nodeId = n /\ ts[p].eui64 = queue[k].eui64
    <3>1. p \in Endpoints /\ SimpleSend \in Phases
      BY <2>5, SizesAssumption DEF Endpoints, Phases
    <3>2. NewTask(queue[k].eui64, n, p, SimpleSend) \in Tasks
      BY <2>4, <3>1, NewTaskType
    <3> QED
      BY <3>2 DEF NewTask
  <2>7. ts \in Seq(Tasks) /\ Len(ts) = m
    <3>1. ts \in [1 .. m -> Tasks]
      BY <2>6
    <3> HIDE DEF ts
    <3> QED
      BY <2>5, <3>1
  <2>8. Len(q) <= MaxQueueSize
    BY <1>1, <2>3, SizesAssumption
  <2> HIDE DEF q, ts
  <2>9. \A a \in 1 .. Len(queue') : \/ \E b \in 1 .. Len(q) : queue'[a] = q[b]
                                    \/ \E b \in 1 .. Len(ts) : queue'[a] = ts[b]
    BY <2>1, <2>3, <2>7, <2>8, EnqueueProperties
  <2>10. QueueBelongs(q)
    BY <2>3, PartBelongs
  <2>11. \A b \in 1 .. Len(ts) : ts[b].nodeId \in Addr[ts[b].eui64]
    BY <2>4, <2>6, <2>7
  <2> QED
    BY <2>9, <2>10, <2>11 DEF QueueBelongs
<1>5. ASSUME NEW n \in NodeIds, NEW p \in Endpoints,
             SimpleDescriptorResponse(n, p)
      PROVE  QueueBelongs(queue')
  <2> DEFINE k == TaskIndex(queue, n, p)
  <2>1. queue' = DeleteTask(queue, k)
    BY <1>5 DEF SimpleDescriptorResponse
  <2>2. k \in 1 .. Len(queue)
    BY <1>1, <1>5, TasksForProperties DEF SimpleDescriptorResponse
  <2> HIDE DEF k
  <2>3. DrawnFrom(queue', queue)
    BY <1>1, <2>1, <2>2, DeleteTaskProperties
  <2> QED
    BY <2>3, PartBelongs
<1>6. CASE NewDeviceEvent
  <2>1. PICK q \in ServeHead(queue) : queue' \in AgedQueues(q)
    BY <1>6 DEF NewDeviceEvent
  <2>2. /\ q \in Seq(Tasks)
        /\ \A a \in 1 .. Len(q) : \E b \in 1 .. Len(queue) :
             q[a].eui64 = queue[b].eui64 /\ q[a].nodeId = queue[b].nodeId
    BY <1>1, <2>1, ServeHeadProperties
  <2>3. \A a \in 1 .. Len(queue') : \E b \in 1 .. Len(q) :
          queue'[a].eui64 = q[b].eui64 /\ queue'[a].nodeId = q[b].nodeId
    BY <2>1, <2>2, AgedQueueProperties
  <2> QED
    BY <2>2, <2>3 DEF QueueBelongs
<1>7. ASSUME NEW e \in Euis, DeviceLeft(e) PROVE QueueBelongs(queue')
  BY <1>1, <1>7, DeleteTasksOfProperties, PartBelongs DEF DeviceLeft
<1>8. CASE queue' = <<>>
  BY <1>8, EmptyQueue DEF QueueBelongs
<1> QED
  BY <1>2, <1>3, <1>4, <1>5, <1>6, <1>7, <1>8, QueueSteps

-----------------------------------------------------------------------------
(* The table and the file *)

LEMMA OccupiedMember ==
  ASSUME NEW t, NEW i
  PROVE  i \in Occupied(t) <=> i \in Idx /\ t[i].nodeId # NullNodeId
BY DEF Occupied

\* What keeps the EUI64s and frees no slot keeps the first slot occupied.
LEMMA FirstSlotBySlots ==
  ASSUME NEW t, NEW u, NEW e, FirstSlotOccupied(t, e),
         \A i \in Idx : u[i].eui64 = t[i].eui64,
         \A i \in Occupied(t) : i \in Occupied(u)
  PROVE  FirstSlotOccupied(u, e)
BY OccupiedMember DEF FirstSlotOccupied

\* A deletion clears every later slot of the device.
LEMMA FirstSlotAfterDeletion ==
  ASSUME NEW t \in [Idx -> Entries], NEW e \in Euis, FirstSlotOccupied(t, e),
         NEW i
  PROVE  FirstSlotOccupied(DeleteEntry(t, i), e)
<1> DEFINE u == DeleteEntry(t, i)
           gone(j) == i \in Idx /\ j >= i /\ t[j].eui64 = t[i].eui64
<1>1. \A j \in Idx : u[j] = IF gone(j) THEN NullEntry ELSE t[j]
  BY DeleteEntryProperties
<1>2. NullEntry.eui64 # e
  BY NullAssumption DEF NullEntry
<1> HIDE DEF u
<1> SUFFICES ASSUME NEW j \in Idx, u[j].eui64 = e
             PROVE  \E k \in Occupied(u) : k <= j /\ u[k].eui64 = e
  BY DEF FirstSlotOccupied, u
<1>3. ~ gone(j) /\ t[j].eui64 = e
  BY <1>1, <1>2
<1>4. PICK k \in Occupied(t) : k <= j /\ t[k].eui64 = e
  BY <1>3 DEF FirstSlotOccupied
<1>5. k \in Idx
  BY OccupiedMember
<1>6. ~ gone(k)
  BY <1>3, <1>4, <1>5 DEF Idx
<1>7. u[k] = t[k] /\ k \in Occupied(u)
  BY <1>1, <1>4, <1>5, <1>6, OccupiedMember
<1> QED
  BY <1>4, <1>7

\* A load keeps a stale EUI64 only behind the slot that gets the device back
\* from the file.
LEMMA FirstSlotAfterLoad ==
  ASSUME NEW t \in [Idx -> Entries], NEW e \in Euis, FirstSlotOccupied(t, e),
         NEW d \in Seq(Records), Len(d) <= TableSize,
         \A i \in Occupied(t) : \E k \in 1 .. Len(d) : d[k] = RecordOf(t[i]),
         NEW g \in Endpoints
  PROVE  FirstSlotOccupied(LoadTable(t, d, g), e)
<1> DEFINE u == LoadTable(t, d, g)
<1>1. \A i \in Idx :
        /\ i < Len(d) => /\ i + 1 \in 1 .. Len(d) /\ RecordOf(u[i]) = d[i + 1]
        /\ i >= Len(d) => u[i].nodeId = NullNodeId /\ u[i].eui64 = t[i].eui64
  BY LoadTableProperties
<1> HIDE DEF u
<1>2. Len(d) \in Nat /\ \A i \in Idx : i \in Nat /\ i < TableSize
  BY SizesAssumption DEF Idx
<1>3. ASSUME NEW i \in Idx, i < Len(d)
      PROVE  i \in Occupied(u) /\ u[i].eui64 = d[i + 1].eui64
  <2>1. i + 1 \in 1 .. Len(d) /\ RecordOf(u[i]) = d[i + 1]
    BY <1>1, <1>3
  <2>2. u[i].nodeId = d[i + 1].nodeId /\ u[i].eui64 = d[i + 1].eui64
    BY <2>1 DEF RecordOf
  <2>3. d[i + 1] \in Records
    BY <2>1, ElementOfSeq
  <2>4. u[i].nodeId # NullNodeId
    BY <2>2, <2>3, NullAssumption DEF Records
  <2> QED
    BY <2>2, <2>4, OccupiedMember
<1> SUFFICES ASSUME NEW i \in Idx, u[i].eui64 = e
             PROVE  \E j \in Occupied(u) : j <= i /\ u[j].eui64 = e
  BY DEF FirstSlotOccupied, u
<1>4. CASE i < Len(d)
  BY <1>2, <1>3, <1>4
<1>5. CASE i >= Len(d)
  <2>1. t[i].eui64 = e
    BY <1>1, <1>5
  <2>2. PICK j \in Occupied(t) : t[j].eui64 = e
    BY <2>1 DEF FirstSlotOccupied
  <2>3. PICK k \in 1 .. Len(d) : d[k] = RecordOf(t[j])
    BY <2>2
  <2>4. k - 1 \in Idx /\ k - 1 < Len(d) /\ k - 1 <= i /\ (k - 1) + 1 = k
    BY <1>2, <1>5, SizesAssumption DEF Idx
  <2>5. d[k].eui64 = e
    BY <2>2, <2>3 DEF RecordOf
  <2> QED
    BY <1>3, <2>4, <2>5
<1> QED
  BY <1>2, <1>4, <1>5

\* The attribution only depends on the records of the slots.
LEMMA SameRecordsAttribution ==
  ASSUME NEW t, NEW u, TableAttribution(t),
         \A i \in Idx : RecordOf(u[i]) = RecordOf(t[i])
  PROVE  TableAttribution(u)
<1>1. \A i \in Idx : u[i].nodeId = t[i].nodeId /\ u[i].eui64 = t[i].eui64
  BY RecordFields
<1>2. Occupied(u) = Occupied(t)
  BY <1>1 DEF Occupied
<1>3. \A i \in Occupied(t) : i \in Idx
  BY DEF Occupied
<1>4. FirstSlotsOccupied(u)
  BY <1>1, <1>2, FirstSlotBySlots DEF TableAttribution, FirstSlotsOccupied
<1> QED
  BY <1>1, <1>2, <1>3, <1>4 DEF TableAttribution, TableBelongs, EntryBelongs

\* A deletion from slot i on clears every slot of the device whose first
\* occupied slot it clears.
LEMMA DeletionAttribution ==
  ASSUME NEW t \in [Idx -> Entries], TableAttribution(t), NEW i
  PROVE  TableAttribution(DeleteEntry(t, i))
<1> DEFINE u == DeleteEntry(t, i)
           gone(j) == i \in Idx /\ j >= i /\ t[j].eui64 = t[i].eui64
<1>1. \A j \in Idx : u[j] = IF gone(j) THEN NullEntry ELSE t[j]
  BY DeleteEntryProperties
<1>2. /\ NullEntry.nodeId = NullNodeId
      /\ NullEntry.eui64 \notin Euis
  BY NullAssumption DEF NullEntry
<1> HIDE DEF u
<1>3. \A j \in Occupied(u) : j \in Occupied(t) /\ ~ gone(j) /\ u[j] = t[j]
  BY <1>1, <1>2, OccupiedMember
<1>4. TableBelongs(u)
  BY <1>3 DEF TableAttribution, TableBelongs
<1>5. FirstSlotsOccupied(u)
  BY FirstSlotAfterDeletion DEF TableAttribution, FirstSlotsOccupied, u
<1> QED
  BY <1>4, <1>5 DEF TableAttribution, u

\* A node id change finds the device that rejoined: its first slot is
\* occupied, so the old node id is one of its own, and no other device has it.
LEMMA NodeIdChangeAttribution ==
  ASSUME AddressesDisjoint, NEW t \in [Idx -> Entries], TableAttribution(t),
         NEW e \in Euis, NEW n \in NodeIds, n \in Addr[e],
         FirstIndexFromEui64(t, e) # NullIndex
  PROVE  TableAttribution(
           UpdateNodeId(t, t[FirstIndexFromEui64(t, e)].nodeId, n))
<1> DEFINE i == FirstIndexFromEui64(t, e)
           old == t[i].nodeId
           S == {j \in Idx : t[j].eui64 = e}
           F == {j \in Idx : t[j].nodeId = old}
           f == IndexFromNodeId(t, old)
           u == UpdateNodeId(t, old, n)
<1>1. i \in Idx /\ t[i].eui64 = e /\ \A j \in S : i <= j
  BY FirstOfProperties DEF FirstIndexFromEui64
<1>2. i \in Occupied(t)
  <2>1. PICK j \in Occupied(t) : j <= i /\ t[j].eui64 = e
    BY <1>1 DEF TableAttribution, FirstSlotsOccupied, FirstSlotOccupied
  <2>2. j \in S
    BY <2>1, OccupiedMember
  <2>3. i = j
    BY <1>1, <2>1, <2>2 DEF Idx
  <2> QED
    BY <2>1, <2>3
<1>3. old # NullNodeId /\ old \in Addr[e]
  BY <1>1, <1>2, OccupiedMember DEF TableAttribution, TableBelongs, EntryBelongs
<1> HIDE DEF i, old
<1>4. f \in Idx /\ t[f].nodeId = old /\ \A j \in F : f <= j
  <2>1. i \in F
    BY <1>1 DEF old
  <2> QED
    BY <2>1, FirstOfProperties DEF IndexFromNodeId
<1>5. t[f].eui64 = e /\ f = i
  <2>1. f \in Occupied(t)
    BY <1>3, <1>4, OccupiedMember
  <2>2. t[f].eui64 \in Euis /\ old \in Addr[t[f].eui64]
    BY <1>4, <2>1 DEF TableAttribution, TableBelongs, EntryBelongs
  <2>3. t[f].eui64 = e
    BY <1>3, <2>2 DEF AddressesDisjoint
  <2>4. i <= f /\ f <= i
    BY <1>1, <1>4, <2>3 DEF old
  <2> QED
    BY <1>1, <1>4, <2>3, <2>4 DEF Idx
<1>6. \A j \in Idx :
        /\ u[j].eui64 = t[j].eui64
        /\ u[j].nodeId = IF t[j].eui64 = e THEN n ELSE t[j].nodeId
  <2>1. \A j \in Idx :
          /\ u[j].eui64 = t[j].eui64
          /\ u[j].nodeId = IF f \in Idx /\ j >= f /\ t[j].eui64 = t[f].eui64
                           THEN n ELSE t[j].nodeId
    BY UpdateNodeIdProperties
  <2>2. \A j \in Idx : t[j].eui64 = e => j >= f
    BY <1>1, <1>5 DEF Idx
  <2> QED
    BY <1>4, <1>5, <2>1, <2>2
<1> HIDE DEF u, f
<1>7. n # NullNodeId
  BY NullAssumption
<1>8. \A j \in Occupied(t) : j \in Occupied(u)
  BY <1>6, <1>7, OccupiedMember
<1>9. TableBelongs(u)
  <2> SUFFICES ASSUME NEW j \in Occupied(u) PROVE EntryBelongs(u[j])
    BY DEF TableBelongs
  <2>1. j \in Idx /\ u[j].nodeId # NullNodeId
    BY OccupiedMember
  <2>2. CASE t[j].eui64 = e
    BY <1>6, <2>1, <2>2 DEF EntryBelongs
  <2>3. CASE t[j].eui64 # e
    <3>1. j \in Occupied(t)
      BY <1>6, <2>1, <2>3, OccupiedMember
    <3> QED
      BY <1>6, <2>1, <2>3, <3>1 DEF EntryBelongs, TableAttribution, TableBelongs
  <2> QED
    BY <2>2, <2>3
<1>10. FirstSlotsOccupied(u)
  BY <1>6, <1>8, FirstSlotBySlots DEF TableAttribution, FirstSlotsOccupied
<1> QED
  BY <1>9, <1>10 DEF TableAttribution, u, old, i

LEMMA LoadAttribution ==
  ASSUME NEW t \in [Idx -> Entries], FirstSlotsOccupied(t),
         NEW d \in Seq(Records), Len(d) <= TableSize, FileBelongs(d),
         \A i \in Occupied(t) : \E k \in 1 .. Len(d) : d[k] = RecordOf(t[i]),
         NEW g \in Endpoints
  PROVE  TableAttribution(LoadTable(t, d, g))
<1> DEFINE u == LoadTable(t, d, g)
<1>1. \A i \in Idx :
        /\ i < Len(d) => /\ i + 1 \in 1 .. Len(d) /\ RecordOf(u[i]) = d[i + 1]
        /\ i >= Len(d) => u[i].nodeId = NullNodeId /\ u[i].eui64 = t[i].eui64
  BY LoadTableProperties
<1> HIDE DEF u
<1>2. Len(d) \in Nat /\ \A i \in Idx : i \in Nat /\ i < TableSize
  BY SizesAssumption DEF Idx
<1>3. ASSUME NEW i \in Idx, i < Len(d)
      PROVE  /\ i \in Occupied(u) /\ EntryBelongs(u[i])
             /\ u[i].eui64 = d[i + 1].eui64
  <2>1. i + 1 \in 1 .. Len(d) /\ RecordOf(u[i]) = d[i + 1]
    BY <1>1, <1>3
  <2>2. /\ u[i].nodeId = d[i + 1].nodeId /\ u[i].eui64 = d[i + 1].eui64
    BY <2>1 DEF RecordOf
  <2>3. d[i + 1] \in Records
    BY <2>1, ElementOfSeq
  <2>4. u[i].nodeId # NullNodeId
    BY <2>2, <2>3, NullAssumption DEF Records
  <2> QED
    BY <2>1, <2>2, <2>4, OccupiedMember DEF FileBelongs, EntryBelongs
<1>4. TableBelongs(u)
  <2> SUFFICES ASSUME NEW i \in Occupied(u) PROVE EntryBelongs(u[i])
    BY DEF TableBelongs
  <2>1. i \in Idx /\ i < Len(d)
    BY <1>1, <1>2, OccupiedMember
  <2> QED
    BY <1>3, <2>1
<1>5. FirstSlotsOccupied(u)
  BY FirstSlotAfterLoad DEF FirstSlotsOccupied, u
<1> QED
  BY <1>4, <1>5 DEF TableAttribution, u

\* An answer fills a free slot, or the slot of an endpoint under the short
\* address of the sender, which is an endpoint of the same device.
LEMMA DescriptorAttribution ==
  ASSUME AddressesDisjoint, NEW t \in [Idx -> Entries], TableAttribution(t),
         NEW i \in Idx, NEW e \in Euis, NEW n \in NodeIds, n \in Addr[e],
         t[i].nodeId = n \/ t[i].nodeId = NullNodeId,
         NEW x, x.nodeId = n, x.eui64 = e,
         NEW u, u = [t EXCEPT ![i] = x]
  PROVE  TableAttribution(u)
<1>1. u[i] = x /\ \A j \in Idx : j # i => u[j] = t[j]
  OBVIOUS
<1>2. n # NullNodeId
  BY NullAssumption
<1>3. i \in Occupied(u) /\ \A j \in Occupied(t) : j \in Occupied(u)
  BY <1>1, <1>2, OccupiedMember
<1>4. i \in Occupied(t) => t[i].eui64 = e
  <2> SUFFICES ASSUME i \in Occupied(t) PROVE t[i].eui64 = e
    OBVIOUS
  <2>1. t[i].nodeId = n /\ t[i].eui64 \in Euis /\ n \in Addr[t[i].eui64]
    BY OccupiedMember DEF TableAttribution, TableBelongs, EntryBelongs
  <2> QED
    BY <2>1 DEF AddressesDisjoint
<1>5. \A j \in Occupied(t) : u[j].eui64 = t[j].eui64
  BY <1>1, <1>4, OccupiedMember
<1>6. TableBelongs(u)
  <2> SUFFICES ASSUME NEW j \in Occupied(u) PROVE EntryBelongs(u[j])
    BY DEF TableBelongs
  <2>1. CASE j = i
    BY <1>1, <2>1 DEF EntryBelongs
  <2>2. CASE j # i
    <3>1. j \in Occupied(t) /\ u[j] = t[j]
      BY <1>1, <2>2, OccupiedMember
    <3> QED
      BY <3>1 DEF TableAttribution, TableBelongs
  <2> QED
    BY <2>1, <2>2
<1>7. FirstSlotsOccupied(u)
  <2> SUFFICES ASSUME NEW d \in Euis, NEW j \in Idx, u[j].eui64 = d
               PROVE  \E k \in Occupied(u) : k <= j /\ u[k].eui64 = d
    BY DEF FirstSlotsOccupied, FirstSlotOccupied
  <2>1. CASE j = i
    <3>1. j <= j
      BY DEF Idx
    <3> QED
      BY <1>3, <2>1, <3>1
  <2>2. CASE j # i
    <3>1. PICK k \in Occupied(t) : k <= j /\ t[k].eui64 = d
      BY <1>1, <2>2 DEF TableAttribution, FirstSlotsOccupied, FirstSlotOccupied
    <3> QED
      BY <1>1, <1>3, <1>5, <2>2, <3>1
  <2> QED
    BY <2>1, <2>2
<1> QED
  BY <1>6, <1>7 DEF TableAttribution

LEMMA EmptyTableAttribution ==
  /\ TableAttribution(EmptyTable)
  /\ Occupied(EmptyTable) = {}
<1>1. \A i \in Idx : /\ EmptyTable[i].nodeId = NullNodeId
                     /\ EmptyTable[i].eui64 \notin Euis
  BY NullAssumption DEF EmptyTable, NullEntry
<1>2. Occupied(EmptyTable) = {}
  BY <1>1 DEF Occupied
<1> QED
  BY <1>1, <1>2 DEF TableAttribution, TableBelongs, FirstSlotsOccupied,
                    FirstSlotOccupied

\* What a save writes is attributed as the table is.
LEMMA SavedAttribution ==
  ASSUME NEW t \in [Idx -> Entries], TableAttribution(t), NEW d \in SavedImages(t)
  PROVE  FileBelongs(d)
<1> SUFFICES ASSUME NEW k \in 1 .. Len(d) PROVE EntryBelongs(d[k])
  BY DEF FileBelongs
<1>1. PICK i \in Occupied(t) : d[k] = RecordOf(t[i])
  BY SavedImageProperties
<1>2. EntryBelongs(t[i])
  BY DEF TableAttribution, TableBelongs
<1>3. d[k].nodeId = t[i].nodeId /\ d[k].eui64 = t[i].eui64
  BY <1>1 DEF RecordOf
<1> QED
  BY <1>2, <1>3 DEF EntryBelongs

\* Every handler keeps the attribution of the table and of the file.
LEMMA TableAttributionInductive ==
  ASSUME AddressesDisjoint, QueueInv, TableInv,
         QueueBelongs(queue), TableAttribution(table), FileBelongs(file),
         [Next]_vars
  PROVE  TableAttribution(table') /\ FileBelongs(file')
<1>1. /\ table \in [Idx -> Entries] /\ QueueTypeOK /\ TableTypeOK
      /\ table' \in [Idx -> Entries]
      /\ file \in Seq(Records) /\ Len(file) <= TableSize
  <2>1. TableInv'
    BY TableInvInductive
  <2> QED
    BY <2>1 DEF TableInv, TableTypeOK, QueueInv
<1>2. ASSUME TableAttribution(table'), Save(table') PROVE FileBelongs(file')
  BY <1>1, <1>2, SavedAttribution DEF Save
<1>3. CASE TableKept
  BY <1>3 DEF TableKept
<1>4. ASSUME NEW n \in NodeIds, NEW e \in Euis, n \in Addr[e],
             FirstIndexFromEui64(table, e) # NullIndex,
             ChangeNodeId(FirstIndexFromEui64(table, e), n)
      PROVE  TableAttribution(table') /\ FileBelongs(file')
  BY <1>1, <1>2, <1>4, NodeIdChangeAttribution DEF ChangeNodeId
<1>5. ASSUME NEW n \in NodeIds, NEW p \in Endpoints,
             SimpleDescriptorResponse(n, p)
      PROVE  TableAttribution(table') /\ FileBelongs(file')
  <2>1. PICK i \in Idx, k \in 1 .. Len(queue) :
           /\ queue[k].nodeId = n /\ queue[k].eui64 \in Euis
           /\ table[i].nodeId = n \/ table[i].nodeId = NullNodeId
           /\ table' = [table EXCEPT ![i] =
                          [nodeId |-> n, endpoint |-> p,
                           eui64 |-> queue[k].eui64, state |-> StateJoined]]
    BY <1>1, <1>5, DescriptorPutsEntry
  <2>2. n \in Addr[queue[k].eui64]
    BY <2>1 DEF QueueBelongs
  <2> DEFINE e == queue[k].eui64
             x == [nodeId |-> n, endpoint |-> p, eui64 |-> e, state |-> StateJoined]
  <2>3. /\ x.nodeId = n /\ x.eui64 = e /\ table' = [table EXCEPT ![i] = x]
        /\ e \in Euis /\ n \in Addr[e]
        /\ table[i].nodeId = n \/ table[i].nodeId = NullNodeId
    BY <2>1, <2>2
  <2> HIDE DEF x, e
  <2>4. TableAttribution(table')
    BY <1>1, <2>3, DescriptorAttribution
  <2>5. Save(table')
    BY <1>5 DEF SimpleDescriptorResponse
  <2> QED
    BY <1>2, <2>4, <2>5
<1>6. ASSUME NEW i, NEW j, Save(table') \/ UNCHANGED <<fileExists, file>>,
             \/ table' = DeleteEntry(table, i)
             \/ table' = DeleteEntry(DeleteEntry(table, i), j)
      PROVE  TableAttribution(table') /\ FileBelongs(file')
  <2> DEFINE u == DeleteEntry(table, i)
  <2>1. u \in [Idx -> Entries] /\ TableAttribution(u)
    BY <1>1, DeleteEntryProperties, DeletionAttribution
  <2>2. table' = u \/ table' = DeleteEntry(u, j)
    BY <1>6
  <2> HIDE DEF u
  <2>3. TableAttribution(table')
    BY <2>1, <2>2, DeletionAttribution
  <2> QED
    BY <1>2, <1>6, <2>3
<1>7. ASSUME NEW n \in NodeIds, NEW s \in DeviceStates,
             table' = OptionallyChangeState(table, n, s),
             UNCHANGED <<fileExists, file>>
      PROVE  TableAttribution(table') /\ FileBelongs(file')
  <2>1. \A j \in Idx : RecordOf(table'[j]) = RecordOf(table[j])
    BY <1>1, <1>7, OptionallyChangeStateProperties
  <2> QED
    BY <1>7, <2>1, SameRecordsAttribution
<1>8. CASE NetworkDown
  BY <1>2, <1>8, EmptyTableAttribution DEF NetworkDown
<1>9. CASE Restart
  <2>1. ASSUME NEW g \in Endpoints, table' = LoadTable(EmptyTable, file, g)
        PROVE  TableAttribution(table')
    BY <1>1, <2>1, EmptyTableType, EmptyTableAttribution, LoadAttribution
       DEF TableAttribution
  <2> QED
    BY <1>9, <2>1, EmptyTableAttribution DEF Restart
<1>10. CASE SaveCommand
  BY <1>2, <1>10 DEF SaveCommand
<1>11. CASE LoadCommand
  <2>1. \A i \in Occupied(table) :
          \E k \in 1 .. Len(file) : file[k] = RecordOf(table[i])
    BY DEF TableInv, FileCoversTable
  <2> QED
    BY <1>1, <1>11, <2>1, LoadAttribution DEF LoadCommand, TableAttribution
<1>12. CASE \/ \E e \in Euis : DeviceLeft(e)
            \/ \E i \in Idx : IndexRemoveCommand(i)
            \/ \E e \in Euis : RemoveCommand(e)
  BY <1>3, <1>6, <1>12, DeletionSteps
<1> QED
  BY <1>3, <1>4, <1>5, <1>7, <1>8, <1>9, <1>10, <1>11, <1>12, TableSteps

-----------------------------------------------------------------------------

AttributionInv ==
  AddressesDisjoint =>
    QueueBelongs(queue) /\ TableAttribution(table) /\ FileBelongs(file)

LEMMA AttributionInvInit == Init => AttributionInv
<1> SUFFICES ASSUME Init PROVE AttributionInv
  OBVIOUS
<1>1. QueueBelongs(queue)
  BY EmptyQueue DEF Init, QueueBelongs
<1>2. FileBelongs(file)
  BY EmptyQueue DEF Init, FileBelongs
<1> QED
  BY <1>1, <1>2, EmptyTableAttribution DEF Init, AttributionInv

LEMMA AttributionInvInductive ==
  QueueInv /\ TableInv /\ AttributionInv /\ [Next]_vars => AttributionInv'
<1> SUFFICES ASSUME QueueInv, TableInv, AttributionInv, [Next]_vars,
                    AddressesDisjoint
             PROVE  /\ QueueBelongs(queue') /\ TableAttribution(table')
                    /\ FileBelongs(file')
  BY DEF AttributionInv, AddressesDisjoint
<1>1. QueueBelongs(queue) /\ TableAttribution(table) /\ FileBelongs(file)
  BY DEF AttributionInv
<1> QED
  BY <1>1, QueueBelongsInductive, TableAttributionInductive

LEMMA AttributionInvariant == Spec => []AttributionInv
  BY AttributionInvInit, AttributionInvInductive, QueueInvariant,
     TableInvariant, PTL DEF Spec

\* If no short address is told for two devices, each endpoint in the table, in
\* the file and in the queue is held under an address of the device it is
\* credited to, whatever answers come late or twice and whatever the operator
\* removes, saves and loads.
THEOREM EndpointsAreAttributed == Spec => []EntriesBelongToTheirDevice
<1>1. AttributionInv => EntriesBelongToTheirDevice
  BY DEF AttributionInv, EntriesBelongToTheirDevice, QueueBelongs,
         TableAttribution, TableBelongs, FileBelongs, EntryBelongs
<1> QED
  BY <1>1, AttributionInvariant, PTL

-----------------------------------------------------------------------------
(* Known endpoints *)

\* Without a devices.txt there is nothing in it.
FileThere == fileExists \/ file = << >>

LEMMA FileThereInvariant == Spec => []FileThere
<1>1. Init => FileThere
  BY DEF Init, FileThere
<1>2. FileThere /\ [Next]_vars => FileThere'
  <2> SUFFICES ASSUME FileThere, [Next]_vars PROVE FileThere'
    OBVIOUS
  <2>1. UNCHANGED <<fileExists, file>> \/ fileExists'
    BY TableSteps, DeletionSteps
    DEF TableKept, ChangeNodeId, SimpleDescriptorResponse, Save, NetworkDown,
        Restart, SaveCommand, LoadCommand
  <2> QED
    BY <2>1 DEF FileThere
<1> QED
  BY <1>1, <1>2, PTL DEF Spec

\* Slots that stay occupied by their endpoint keep it known.
LEMMA KnownBySlots ==
  ASSUME NEW t, NEW u,
         \A i \in Occupied(t) :
           /\ i \in Occupied(u)
           /\ u[i].eui64 = t[i].eui64 /\ u[i].endpoint = t[i].endpoint
  PROVE  KnownEndpoints(t) \subseteq KnownEndpoints(u)
BY DEF KnownEndpoints

\* A load brings back every endpoint of the table, each from the file.
LEMMA KnownAfterLoad ==
  ASSUME TableInv, NEW t \in [Idx -> Entries], NEW g \in Endpoints,
         NEW u, u = LoadTable(t, file, g)
  PROVE  KnownEndpoints(table) \subseteq KnownEndpoints(u)
<1> SUFFICES ASSUME NEW i \in Occupied(table), table[i].eui64 \in Euis
             PROVE  <<table[i].eui64, table[i].endpoint>> \in KnownEndpoints(u)
  BY DEF KnownEndpoints
<1>1. file \in Seq(Records) /\ Len(file) \in Nat /\ Len(file) <= TableSize
  BY DEF TableInv, TableTypeOK
<1>2. PICK k \in 1 .. Len(file) : file[k] = RecordOf(table[i])
  BY DEF TableInv, FileCoversTable
<1> DEFINE j == k - 1
<1>3. j \in Idx /\ j < Len(file) /\ j + 1 = k
  BY <1>1, SizesAssumption DEF Idx
<1> HIDE DEF j
<1>4. RecordOf(u[j]) = RecordOf(table[i])
  BY <1>1, <1>2, <1>3, LoadTableProperties
<1>5. /\ u[j].nodeId = table[i].nodeId /\ u[j].endpoint = table[i].endpoint
      /\ u[j].eui64 = table[i].eui64
  BY <1>4, RecordFields
<1>6. j \in Occupied(u)
  BY <1>3, <1>5, OccupiedMember
<1> QED
  BY <1>5, <1>6 DEF KnownEndpoints

\* A deletion takes only endpoints of the device in its first slot.
LEMMA KnownAfterDeletion ==
  ASSUME NEW t \in [Idx -> Entries], NEW i,
         NEW x \in KnownEndpoints(t) \ KnownEndpoints(DeleteEntry(t, i))
  PROVE  i \in Idx /\ x[1] = t[i].eui64
<1> DEFINE u == DeleteEntry(t, i)
<1>1. PICK k \in Occupied(t) :
        x = <<t[k].eui64, t[k].endpoint>> /\ t[k].eui64 \in Euis
  BY DEF KnownEndpoints
<1>2. k \in Idx
  BY DEF Occupied
<1>3. u[k] = IF i \in Idx /\ k >= i /\ t[k].eui64 = t[i].eui64
             THEN NullEntry ELSE t[k]
  BY <1>2, DeleteEntryProperties
<1>4. u[k] # t[k]
  <2> SUFFICES ASSUME u[k] = t[k] PROVE FALSE
    OBVIOUS
  <2> HIDE DEF u
  <2>1. k \in Occupied(u)
    BY <1>2, OccupiedMember
  <2>2. x \in KnownEndpoints(u)
    BY <1>1, <2>1 DEF KnownEndpoints
  <2> QED
    BY <2>2 DEF u
<1> QED
  BY <1>1, <1>3, <1>4

\* An answer leaves each occupied slot its endpoint, and its device unless
\* that is another one with the address of the sender.
LEMMA DescriptorKeepsOrTakesOver ==
  ASSUME QueueInv, TableInv, NEW n \in NodeIds, NEW p \in Endpoints,
         SimpleDescriptorResponse(n, p), NEW j \in Occupied(table)
  PROVE  /\ j \in Occupied(table')
         /\ table'[j].endpoint = table[j].endpoint
         /\ \/ table'[j].eui64 = table[j].eui64
            \/ table[j].endpoint = p /\ TakenOver(table[j].eui64, p)
<1> DEFINE S == {a \in Idx : table[a].nodeId = n /\ table[a].endpoint = p}
           F == {a \in Idx : table[a].nodeId = NullNodeId}
           i == IF FirstOf(S) # NullIndex THEN FirstOf(S) ELSE FirstOf(F)
           k == TaskIndex(queue, n, p)
           x == [nodeId |-> n, endpoint |-> p,
                 eui64 |-> queue[k].eui64, state |-> StateJoined]
<1>1. i # NullIndex /\ table' = [table EXCEPT ![i] = x]
  BY DEF SimpleDescriptorResponse, IndexFromNodeIdAndEndpoint, FindFreeIndex,
         IndexFromNodeId
<1>2. table \in [Idx -> Entries] /\ n # NullNodeId
  BY NullAssumption DEF TableInv, TableTypeOK
<1>3. j \in Idx /\ table[j].nodeId # NullNodeId
  BY OccupiedMember
<1>4. S \in SUBSET Idx /\ F \in SUBSET Idx /\ FirstOf(S) # NullIndex => FirstOf(S) \in S
  BY FirstOfProperties
<1>5. i \in Idx /\ (i = FirstOf(S) \/ i \in F)
  BY <1>1, <1>4, FirstOfProperties
<1>6. CASE j # i
  BY <1>1, <1>2, <1>3, <1>6, OccupiedMember
<1>7. CASE j = i
  <2>1. FirstOf(S) # NullIndex /\ i = FirstOf(S) /\ i \in S
    BY <1>1, <1>3, <1>4, <1>5, <1>7
  <2>2. i = IndexFromNodeIdAndEndpoint(table, n, p)
    BY <2>1 DEF IndexFromNodeIdAndEndpoint
  <2> HIDE DEF i
  <2>3. table'[j] = x /\ x.nodeId = n /\ x.endpoint = p /\ x.eui64 = queue[k].eui64
    BY <1>1, <1>2, <1>3, <1>7
  <2>4. table[j].endpoint = p
    BY <1>7, <2>1
  <2>5. queue[k].eui64 # table[j].eui64 => TakenOver(table[j].eui64, p)
    BY <1>1, <1>7, <2>2 DEF TakenOver
  <2> QED
    BY <1>2, <1>3, <2>3, <2>4, <2>5, OccupiedMember
<1> QED
  BY <1>6, <1>7

\* Unless addresses are shared no slot is ever taken over.
LEMMA NotTakenOver ==
  ASSUME AddressesDisjoint, QueueInv, TableInv, QueueBelongs(queue),
         TableBelongs(table), NEW e \in Euis, NEW p \in Endpoints
  PROVE  ~ TakenOver(e, p)
<1> SUFFICES ASSUME TakenOver(e, p) PROVE FALSE
  OBVIOUS
<1>1. PICK n \in NodeIds :
        /\ SimpleDescriptorResponse(n, p)
        /\ IndexFromNodeIdAndEndpoint(table, n, p) # NullIndex
        /\ table[IndexFromNodeIdAndEndpoint(table, n, p)].eui64 = e
        /\ queue[TaskIndex(queue, n, p)].eui64 # e
  BY DEF TakenOver
<1> DEFINE S == {a \in Idx : table[a].nodeId = n /\ table[a].endpoint = p}
           i == FirstOf(S)
           k == TaskIndex(queue, n, p)
<1>2. i # NullIndex /\ i = IndexFromNodeIdAndEndpoint(table, n, p)
  BY <1>1 DEF IndexFromNodeIdAndEndpoint
<1>3. i \in Idx /\ table[i].nodeId = n /\ n # NullNodeId
  BY <1>2, FirstOfProperties, NullAssumption
<1>4. queue \in Seq(Tasks) /\ k \in 1 .. Len(queue) /\ queue[k].nodeId = n
  BY <1>1, TasksForProperties DEF SimpleDescriptorResponse, QueueInv, QueueTypeOK
<1> HIDE DEF i, k
<1>5. queue[k].eui64 \in Euis
  <2>1. queue[k] \in Tasks
    BY <1>4, ElementOfSeq
  <2> QED
    BY <2>1 DEF Tasks
<1>6. n \in Addr[queue[k].eui64]
  BY <1>4 DEF QueueBelongs
<1>7. n \in Addr[table[i].eui64]
  BY <1>3, OccupiedMember DEF TableBelongs, EntryBelongs
<1>8. table[i].eui64 = e /\ queue[k].eui64 # e
  BY <1>1, <1>2 DEF k
<1> QED
  BY <1>5, <1>6, <1>7, <1>8 DEF AddressesDisjoint

LEMMA KnownAfterRemoveCommand ==
  ASSUME TableInv, NEW e \in Euis, RemoveCommand(e),
         NEW x \in KnownEndpoints(table) \ KnownEndpoints(table')
  PROVE  x[1] = e
<1> DEFINE i == FirstIndexFromEui64(table, e)
           u == DeleteEntry(table, i)
           j == FirstOf({k \in Idx : k > i /\ u[k].eui64 = NullEui})
<1>1. table \in [Idx -> Entries] /\ table' = DeleteEntry(u, j)
  BY DEF TableInv, TableTypeOK, RemoveCommand
<1>2. u \in [Idx -> Entries]
      /\ \A k \in Idx : u[k] = NullEntry \/ u[k] = table[k]
  BY <1>1, DeleteEntryProperties
<1>3. j \in Idx => u[j].eui64 = NullEui
  <2> DEFINE S == {k \in Idx : k > i /\ u[k].eui64 = NullEui}
  <2>1. S \in SUBSET Idx /\ NullIndex \notin Idx
    BY SizesAssumption DEF Idx, NullIndex
  <2>2. j \in Idx => j \in S
    BY <2>1, FirstOfProperties
  <2> QED
    BY <2>2
<1>4. i \in Idx => table[i].eui64 = e
  <2> DEFINE S == {k \in Idx : table[k].eui64 = e}
  <2>1. S \in SUBSET Idx /\ NullIndex \notin Idx /\ i = FirstOf(S)
    BY SizesAssumption DEF Idx, NullIndex, FirstIndexFromEui64
  <2>2. i \in Idx => i \in S
    BY <2>1, FirstOfProperties
  <2> QED
    BY <2>2
<1> HIDE DEF u, j, i
<1>5. CASE x \in KnownEndpoints(u)
  <2>1. j \in Idx /\ x[1] = u[j].eui64
    BY <1>1, <1>2, <1>5, KnownAfterDeletion
  <2>2. x[1] \in Euis
    BY <1>5 DEF KnownEndpoints
  <2> QED
    BY <1>3, <2>1, <2>2, NullAssumption
<1>6. CASE x \notin KnownEndpoints(u)
  <2>1. i \in Idx /\ x[1] = table[i].eui64
    BY <1>1, <1>6, KnownAfterDeletion DEF u
  <2> QED
    BY <1>4, <2>1
<1> QED
  BY <1>5, <1>6

LEMMA KnownStep ==
  ASSUME QueueInv, TableInv, FileThere, [Next]_vars,
         NEW x \in KnownEndpoints(table) \ KnownEndpoints(table')
  PROVE  \/ DeviceLeft(x[1]) \/ NetworkDown
         \/ RemoveCommand(x[1]) \/ IndexRemoveOf(x[1])
         \/ TakenOver(x[1], x[2])
<1>1. table \in [Idx -> Entries] /\ QueueTypeOK /\ TableTypeOK
  BY DEF TableInv, TableTypeOK, QueueInv
<1>2. CASE TableKept \/ SaveCommand
  BY <1>2 DEF TableKept, SaveCommand
<1>3. ASSUME NEW n \in NodeIds, NEW e \in Euis,
             FirstIndexFromEui64(table, e) # NullIndex,
             ChangeNodeId(FirstIndexFromEui64(table, e), n)
      PROVE  FALSE
  <2>1. PICK old : table' = UpdateNodeId(table, old, n)
    BY <1>3 DEF ChangeNodeId
  <2>2. \A k \in Idx : /\ table'[k].eui64 = table[k].eui64
                       /\ table'[k].endpoint = table[k].endpoint
                       /\ table'[k].nodeId \in {n, table[k].nodeId}
    BY <1>1, <2>1, UpdateNodeIdProperties
  <2>3. n # NullNodeId
    BY NullAssumption
  <2> QED
    BY <2>2, <2>3, OccupiedMember, KnownBySlots
<1>4. ASSUME NEW n \in NodeIds, NEW p \in Endpoints,
             SimpleDescriptorResponse(n, p)
      PROVE  TakenOver(x[1], x[2])
  <2>1. PICK j \in Occupied(table) :
          /\ x = <<table[j].eui64, table[j].endpoint>>
          /\ table[j].eui64 \in Euis
    BY DEF KnownEndpoints
  <2>2. table'[j].eui64 # table[j].eui64
    BY <1>4, <2>1, DescriptorKeepsOrTakesOver DEF KnownEndpoints
  <2> QED
    BY <1>4, <2>1, <2>2, DescriptorKeepsOrTakesOver
<1>5. ASSUME NEW e \in Euis, DeviceLeft(e) PROVE DeviceLeft(x[1])
  <2> DEFINE i == FirstIndexFromEui64(table, e)
             S == {k \in Idx : table[k].eui64 = e}
  <2>1. i # NullIndex /\ table' = DeleteEntry(table, i)
    BY <1>5 DEF DeviceLeft
  <2>2. S \in SUBSET Idx /\ i = FirstOf(S)
    BY DEF FirstIndexFromEui64
  <2>3. table[i].eui64 = e
    BY <2>1, <2>2, FirstOfProperties
  <2> HIDE DEF i
  <2>4. x[1] = table[i].eui64
    BY <1>1, <2>1, KnownAfterDeletion
  <2> QED
    BY <1>5, <2>3, <2>4
<1>6. ASSUME NEW i \in Idx, IndexRemoveCommand(i) PROVE IndexRemoveOf(x[1])
  <2>1. x[1] = table[i].eui64
    BY <1>1, <1>6, KnownAfterDeletion DEF IndexRemoveCommand
  <2> QED
    BY <1>6, <2>1 DEF IndexRemoveOf
<1>7. ASSUME NEW e \in Euis, RemoveCommand(e) PROVE RemoveCommand(x[1])
  BY <1>1, <1>7, KnownAfterRemoveCommand
<1>8. ASSUME NEW n \in NodeIds, NEW s \in DeviceStates,
             table' = OptionallyChangeState(table, n, s)
      PROVE  FALSE
  <2>1. \A k \in Idx : /\ table'[k].nodeId = table[k].nodeId
                       /\ table'[k].eui64 = table[k].eui64
                       /\ table'[k].endpoint = table[k].endpoint
    BY <1>1, <1>8, OptionallyChangeStateProperties, RecordFields
  <2> QED
    BY <2>1, OccupiedMember, KnownBySlots
<1>9. CASE Restart
  <2>1. ASSUME NEW g \in Endpoints, table' = LoadTable(EmptyTable, file, g)
        PROVE  FALSE
    BY <2>1, EmptyTableType, KnownAfterLoad
  <2>2. CASE ~fileExists
    <3>1. Len(file) = 0
      BY <2>2 DEF FileThere
    <3>2. Occupied(table) = {}
      BY <3>1 DEF TableInv, FileCoversTable
    <3> QED
      BY <3>2 DEF KnownEndpoints
  <2> QED
    BY <1>9, <2>1, <2>2 DEF Restart
<1>10. CASE LoadCommand
  BY <1>1, <1>10, KnownAfterLoad DEF LoadCommand
<1> QED
  BY <1>2, <1>3, <1>4, <1>5, <1>6, <1>7, <1>8, <1>9, <1>10, TableSteps

\* An endpoint that was discovered stays known until its device leaves, the
\* operator removes it, the network is left, or a device with the same short
\* address answers for it: no change of address, other answer, load or restart
\* takes it away, for any number of devices and any sharing of addresses.
THEOREM EndpointsStayKnown == Spec => KnownEndpointsPersist
<1>1. QueueInv /\ TableInv /\ FileThere /\ [Next]_vars =>
        [\A x \in KnownEndpoints(table) \ KnownEndpoints(table') :
           \/ DeviceLeft(x[1]) \/ NetworkDown
           \/ RemoveCommand(x[1]) \/ IndexRemoveOf(x[1])
           \/ TakenOver(x[1], x[2])]_vars
  BY KnownStep
<1> QED
  BY <1>1, QueueInvariant, TableInvariant, FileThereInvariant,
     PTL DEF Spec, KnownEndpointsPersist

\* If no short address is told for two devices, no slot is taken over, and
\* the exception for that in the theorems of this module never applies.
THEOREM NothingIsTakenOver ==
  Spec => [][AddressesDisjoint =>
               \A e \in Euis, p \in Endpoints : ~ TakenOver(e, p)]_vars
<1>1. QueueInv /\ TableInv /\ AttributionInv =>
        [AddressesDisjoint =>
           \A e \in Euis, p \in Endpoints : ~ TakenOver(e, p)]_vars
  BY NotTakenOver DEF AttributionInv, TableAttribution
<1> QED
  BY <1>1, QueueInvariant, TableInvariant, AttributionInvariant, PTL

-----------------------------------------------------------------------------
(* Stale slots *)

LEMMA FirstSlotStep ==
  ASSUME QueueInv, TableInv, [Next]_vars, NEW e \in Euis,
         FirstSlotOccupied(table, e), ~ FirstSlotOccupied(table', e)
  PROVE  \E p \in Endpoints : TakenOver(e, p)
<1>1. /\ table \in [Idx -> Entries] /\ QueueTypeOK /\ TableTypeOK
      /\ file \in Seq(Records) /\ Len(file) <= TableSize
  BY DEF TableInv, TableTypeOK, QueueInv
<1>2. CASE TableKept \/ SaveCommand
  BY <1>2 DEF TableKept, SaveCommand
<1>3. ASSUME NEW n \in NodeIds, NEW d \in Euis,
             FirstIndexFromEui64(table, d) # NullIndex,
             ChangeNodeId(FirstIndexFromEui64(table, d), n)
      PROVE  FALSE
  <2>1. PICK old : table' = UpdateNodeId(table, old, n)
    BY <1>3 DEF ChangeNodeId
  <2>2. \A k \in Idx : /\ table'[k].eui64 = table[k].eui64
                       /\ table'[k].nodeId \in {n, table[k].nodeId}
    BY <1>1, <2>1, UpdateNodeIdProperties
  <2>3. \A k \in Occupied(table) : k \in Occupied(table')
    BY <2>2, OccupiedMember, NullAssumption
  <2> QED
    BY <2>2, <2>3, FirstSlotBySlots
<1>4. ASSUME NEW n \in NodeIds, NEW p \in Endpoints,
             SimpleDescriptorResponse(n, p)
      PROVE  \E o \in Endpoints : TakenOver(e, o)
  <2>1. PICK i \in Idx, b \in 1 .. Len(queue) :
          table' = [table EXCEPT ![i] =
                      [nodeId |-> n, endpoint |-> p,
                       eui64 |-> queue[b].eui64, state |-> StateJoined]]
    BY <1>1, <1>4, DescriptorPutsEntry
  <2>2. i \in Occupied(table') /\ \A j \in Idx : j # i => table'[j] = table[j]
    BY <1>1, <2>1, OccupiedMember, NullAssumption
  <2>3. PICK j \in Idx :
          /\ table'[j].eui64 = e
          /\ ~ \E k \in Occupied(table') : k <= j /\ table'[k].eui64 = e
    BY DEF FirstSlotOccupied
  <2>4. j # i
    <3>1. j <= j
      BY DEF Idx
    <3> QED
      BY <2>2, <2>3, <3>1
  <2>5. PICK k \in Occupied(table) : k <= j /\ table[k].eui64 = e
    BY <2>2, <2>3, <2>4 DEF FirstSlotOccupied
  <2>6. k \in Occupied(table') => table'[k].eui64 # e
    BY <2>3, <2>5
  <2> QED
    BY <1>4, <2>5, <2>6, DescriptorKeepsOrTakesOver
<1>5. ASSUME NEW i, NEW j,
             \/ table' = DeleteEntry(table, i)
             \/ table' = DeleteEntry(DeleteEntry(table, i), j)
      PROVE  FALSE
  <2> DEFINE u == DeleteEntry(table, i)
  <2>1. u \in [Idx -> Entries] /\ FirstSlotOccupied(u, e)
    BY <1>1, DeleteEntryProperties, FirstSlotAfterDeletion
  <2>2. table' = u \/ table' = DeleteEntry(u, j)
    BY <1>5
  <2> HIDE DEF u
  <2> QED
    BY <2>1, <2>2, FirstSlotAfterDeletion
<1>6. ASSUME NEW n \in NodeIds, NEW s \in DeviceStates,
             table' = OptionallyChangeState(table, n, s)
      PROVE  FALSE
  <2>1. \A j \in Idx : /\ table'[j].nodeId = table[j].nodeId
                       /\ table'[j].eui64 = table[j].eui64
    BY <1>1, <1>6, OptionallyChangeStateProperties, RecordFields
  <2>2. \A k \in Occupied(table) : k \in Occupied(table')
    BY <2>1, OccupiedMember
  <2> QED
    BY <2>1, <2>2, FirstSlotBySlots
<1>7. /\ Occupied(EmptyTable) = {} /\ FirstSlotOccupied(EmptyTable, e)
      /\ EmptyTable \in [Idx -> Entries]
  BY EmptyTableAttribution, EmptyTableType DEF TableAttribution, FirstSlotsOccupied
<1>8. CASE NetworkDown
  BY <1>7, <1>8 DEF NetworkDown
<1>9. CASE Restart
  <2>1. ASSUME NEW g \in Endpoints, table' = LoadTable(EmptyTable, file, g)
        PROVE  FALSE
    BY <1>1, <1>7, <2>1, FirstSlotAfterLoad
  <2> QED
    BY <1>7, <1>9, <2>1 DEF Restart
<1>10. CASE LoadCommand
  <2>1. \A i \in Occupied(table) :
          \E k \in 1 .. Len(file) : file[k] = RecordOf(table[i])
    BY DEF TableInv, FileCoversTable
  <2> QED
    BY <1>1, <1>10, <2>1, FirstSlotAfterLoad DEF LoadCommand
<1>11. CASE \/ \E d \in Euis : DeviceLeft(d)
            \/ \E i \in Idx : IndexRemoveCommand(i)
            \/ \E d \in Euis : RemoveCommand(d)
  BY <1>2, <1>5, <1>11, DeletionSteps
<1> QED
  BY <1>2, <1>3, <1>4, <1>6, <1>8, <1>9, <1>10, <1>11, TableSteps

\* The slot a look-up by EUI64 finds does not become a leftover of a load by
\* any step but an answer of another device with the same short address, for
\* any number of devices and any sharing of addresses.
THEOREM StaleSlotsComeLast == Spec => FirstSlotStaysOccupied
<1>1. QueueInv /\ TableInv /\ [Next]_vars =>
        [\A e \in Euis :
           FirstSlotOccupied(table, e) =>
             \/ FirstSlotOccupied(table', e)
             \/ \E p \in Endpoints : TakenOver(e, p)]_vars
  BY FirstSlotStep
<1> QED
  BY <1>1, QueueInvariant, TableInvariant, PTL DEF Spec, FirstSlotStaysOccupied

-----------------------------------------------------------------------------
(* Known devices *)

InQueue(e, q) == \E k \in 1 .. Len(q) : q[k].eui64 = e
InTable(e, t) == \E i \in Occupied(t) : t[i].eui64 = e

\* What addQueueEntry is called with after the tasks of a device were deleted.
LEMMA StaysQueued ==
  ASSUME NEW e, NEW q \in Seq(Tasks), Len(q) <= MaxQueueSize,
         NEW ts \in Seq(Tasks), NEW r \in Enqueue(q, ts),
         \/ InQueue(e, q)
         \/ Len(q) < MaxQueueSize /\ Len(ts) > 0 /\ ts[1].eui64 = e
  PROVE  InQueue(e, r)
<1>1. /\ DrawnFrom(q, r)
      /\ Len(q) < MaxQueueSize /\ Len(ts) > 0 =>
           \E a \in 1 .. Len(r) : r[a] = ts[1]
  BY EnqueueKeeps
<1>2. CASE InQueue(e, q)
  BY <1>1, <1>2 DEF InQueue, DrawnFrom
<1>3. CASE Len(q) < MaxQueueSize /\ Len(ts) > 0 /\ ts[1].eui64 = e
  BY <1>1, <1>3 DEF InQueue
<1> QED
  BY <1>2, <1>3

\* A new discovery takes the place of a pending one of the same device.
LEMMA QueuedAfterStart ==
  ASSUME QueueInv, NEW n \in NodeIds, NEW d \in Euis, StartDiscovery(n, d),
         NEW e, InQueue(e, queue)
  PROVE  InQueue(e, queue')
<1> DEFINE x == NewTask(d, n, UnknownEndpoint, EndpointsSend)
           ts == <<x>>
<1>1. /\ queue \in Seq(Tasks) /\ Len(queue) \in Nat
      /\ Len(queue) <= MaxQueueSize /\ MaxQueueSize \in Nat
  BY SizesAssumption DEF QueueInv, QueueTypeOK
<1>2. PICK q \in DeleteTasksOf(queue, d) : queue' \in Enqueue(q, ts)
  BY DEF StartDiscovery, AddTasks
<1>3. x \in Tasks /\ x.eui64 = d
  <2>1. x \in Tasks
    BY NewTaskType, SizesAssumption DEF Endpoints, UnknownEndpoint, Phases
  <2> QED
    BY <2>1 DEF NewTask
<1> HIDE DEF x
<1>4. ts \in Seq(Tasks) /\ Len(ts) > 0 /\ ts[1].eui64 = d
  BY <1>3
<1>5. q \in Seq(Tasks) /\ Len(q) \in Nat /\ Len(q) <= MaxQueueSize
  <2>1. q \in Seq(Tasks) /\ Len(q) <= Len(queue)
    BY <1>1, DeleteTasksOfProperties
  <2> QED
    BY <1>1, <2>1, LenProperties
<1> HIDE DEF ts
<1>6. CASE e = d
  <2>1. Len(q) < Len(queue)
    BY <1>1, <1>6, DeleteTasksOfKeeps DEF InQueue
  <2>2. Len(q) < MaxQueueSize
    BY <1>1, <1>5, <2>1
  <2> QED
    BY <1>2, <1>4, <1>5, <1>6, <2>2, StaysQueued
<1>7. CASE e # d
  <2>1. InQueue(e, q)
    BY <1>1, <1>7, DeleteTasksOfKeeps DEF InQueue
  <2> QED
    BY <1>2, <1>4, <1>5, <2>1, StaysQueued
<1> QED
  BY <1>6, <1>7

\* The task that asked for the endpoints is replaced by one for each of them,
\* and the first of these takes the place it leaves.
LEMMA QueuedAfterEndpoints ==
  ASSUME QueueInv, NEW n \in NodeIds, NEW cnt \in 1 .. MaxEndpoints + 1,
         ActiveEndpointsResponse(n, cnt), NEW e, InQueue(e, queue)
  PROVE  InQueue(e, queue')
<1> DEFINE k == TaskIndex(queue, n, UnknownEndpoint)
           m == IF cnt > MaxEndpoints THEN MaxEndpoints ELSE cnt
           q == DeleteTask(queue, k)
           ts == [p \in 1 .. m |-> NewTask(queue[k].eui64, n, p, SimpleSend)]
<1>1. /\ queue \in Seq(Tasks) /\ Len(queue) \in Nat
      /\ Len(queue) <= MaxQueueSize /\ MaxQueueSize \in Nat
  BY SizesAssumption DEF QueueInv, QueueTypeOK
<1>2. queue' \in Enqueue(q, ts)
  BY DEF ActiveEndpointsResponse, AddTasks
<1>3. k \in 1 .. Len(queue)
  BY <1>1, TasksForProperties DEF ActiveEndpointsResponse
<1> HIDE DEF k
<1>4. q \in Seq(Tasks) /\ Len(q) = Len(queue) - 1
  BY <1>1, <1>3, DeleteTaskProperties
<1>5. queue[k].eui64 \in Euis
  <2>1. queue[k] \in Tasks
    BY <1>1, <1>3, ElementOfSeq
  <2> QED
    BY <2>1 DEF Tasks
<1>6. m \in Nat /\ m <= MaxEndpoints /\ 1 \in 1 .. m
  BY SizesAssumption
<1> HIDE DEF m
<1>7. ASSUME NEW p \in 1 .. m
      PROVE  ts[p] \in Tasks /\ ts[p].eui64 = queue[k].eui64
  <2>1. p \in Endpoints /\ SimpleSend \in Phases
    BY <1>6, SizesAssumption DEF Endpoints, Phases
  <2>2. NewTask(queue[k].eui64, n, p, SimpleSend) \in Tasks
    BY <1>5, <2>1, NewTaskType
  <2> QED
    BY <2>2 DEF NewTask
<1>8. ts \in Seq(Tasks) /\ Len(ts) = m
  <2>1. ts \in [1 .. m -> Tasks]
    BY <1>7
  <2> HIDE DEF ts
  <2> QED
    BY <1>6, <2>1
<1>9. /\ Len(q) < MaxQueueSize /\ Len(q) <= MaxQueueSize
      /\ Len(ts) > 0 /\ ts[1].eui64 = queue[k].eui64
  BY <1>1, <1>4, <1>6, <1>7, <1>8
<1>10. InQueue(e, q) \/ e = queue[k].eui64
  BY <1>1, <1>3, DeleteTaskKeeps DEF InQueue
<1> HIDE DEF q, ts
<1> QED
  BY <1>2, <1>4, <1>8, <1>9, <1>10, StaysQueued

\* A descriptor moves the device of its task into the table.
LEMMA WantedAfterDescriptor ==
  ASSUME QueueInv, TableInv, NEW n \in NodeIds, NEW p \in Endpoints,
         SimpleDescriptorResponse(n, p), NEW e, InQueue(e, queue)
  PROVE  InQueue(e, queue') \/ InTable(e, table')
<1>1. /\ table \in [Idx -> Entries] /\ queue \in Seq(Tasks)
      /\ QueueTypeOK /\ TableTypeOK
  BY DEF TableInv, TableTypeOK, QueueInv, QueueTypeOK
<1>2. PICK i \in Idx, k \in 1 .. Len(queue) :
        /\ queue' = DeleteTask(queue, k)
        /\ table' = [table EXCEPT ![i] =
                       [nodeId |-> n, endpoint |-> p,
                        eui64 |-> queue[k].eui64, state |-> StateJoined]]
  BY <1>1, DescriptorPutsEntry
<1>3. CASE queue[k].eui64 = e
  <2>1. table'[i].nodeId = n /\ table'[i].eui64 = e
    BY <1>1, <1>2, <1>3
  <2>2. i \in Occupied(table')
    BY <2>1, NullAssumption, OccupiedMember
  <2> QED
    BY <2>1, <2>2 DEF InTable
<1>4. CASE queue[k].eui64 # e
  <2>1. PICK b \in 1 .. Len(queue) : queue[b].eui64 = e
    BY DEF InQueue
  <2>2. b # k
    BY <1>4, <2>1
  <2> QED
    BY <1>1, <1>2, <2>1, <2>2, DeleteTaskKeeps DEF InQueue
<1> QED
  BY <1>3, <1>4

LEMMA QueuedAfterEvent ==
  ASSUME QueueInv, NewDeviceEvent, NEW b \in 1 .. Len(queue),
         queue[b].waitTime # MaxWaitTicks
  PROVE  InQueue(queue[b].eui64, queue')
<1>1. /\ queue \in Seq(Tasks) /\ SortedByDelay(queue)
      /\ \A a \in 1 .. Len(queue) : PhaseFits(queue[a])
  BY DEF QueueInv, QueueTypeOK, HeadIsNextDue, PhaseMatchesEndpoint, PhaseFits
<1>2. PICK q \in ServeHead(queue) : queue' \in AgedQueues(q)
  BY DEF NewDeviceEvent
<1>3. /\ q \in Seq(Tasks)
      /\ \E a \in 1 .. Len(q) : /\ q[a].eui64 = queue[b].eui64
                                 /\ q[a].waitTime = queue[b].waitTime
  BY <1>1, <1>2, ServeHeadProperties
<1> QED
  BY <1>2, <1>3, AgedQueueKeeps DEF InQueue

\* What takes a device out of discovery.
LEMMA QueuedStep ==
  ASSUME QueueInv, TableInv, [Next]_vars,
         NEW e \in Euis, InQueue(e, queue), ~ InQueue(e, queue'),
         ~ InTable(e, table')
  PROVE  DeviceLeft(e) \/ Restart \/ NoEndpoint(e) \/ TimedOut(e)
<1>1. queue \in Seq(Tasks)
  BY DEF QueueInv, QueueTypeOK
<1>2. ASSUME NEW n \in NodeIds, NEW cnt \in 0 .. MaxEndpoints + 1,
             ActiveEndpointsResponse(n, cnt)
      PROVE  NoEndpoint(e)
  <2> DEFINE k == TaskIndex(queue, n, UnknownEndpoint)
  <2>1. cnt = 0
    BY <1>2, QueuedAfterEndpoints
  <2>2. k \in 1 .. Len(queue) /\ queue[k].nodeId = n
    BY <1>1, <1>2, TasksForProperties DEF ActiveEndpointsResponse
  <2>3. queue' \in Enqueue(DeleteTask(queue, k), <<>>)
    <3>1. [p \in 1 .. 0 |-> NewTask(queue[k].eui64, n, p, SimpleSend)] = <<>>
      OBVIOUS
    <3> QED
      BY <1>2, <2>1, <3>1, SizesAssumption DEF ActiveEndpointsResponse, AddTasks
  <2> HIDE DEF k
  <2>4. queue[k].eui64 = e
    <3> SUFFICES ASSUME queue[k].eui64 # e PROVE FALSE
      OBVIOUS
    <3>1. InQueue(e, DeleteTask(queue, k))
      BY <1>1, <2>2, DeleteTaskKeeps DEF InQueue
    <3>2. /\ DeleteTask(queue, k) \in Seq(Tasks)
          /\ Len(DeleteTask(queue, k)) <= MaxQueueSize
      <4>1. /\ DeleteTask(queue, k) \in Seq(Tasks)
            /\ Len(DeleteTask(queue, k)) = Len(queue) - 1
        BY <1>1, <2>2, DeleteTaskProperties
      <4>2. Len(queue) \in Nat /\ Len(queue) <= MaxQueueSize
        BY <1>1 DEF QueueInv, QueueTypeOK
      <4> QED
        BY <4>1, <4>2, SizesAssumption
    <3> QED
      BY <2>3, <3>1, <3>2, EmptySeq, StaysQueued
  <2> QED
    BY <1>2, <2>1, <2>4 DEF NoEndpoint, k
<1>3. CASE NewDeviceEvent
  <2>1. PICK b \in 1 .. Len(queue) : queue[b].eui64 = e
    BY DEF InQueue
  <2> QED
    BY <1>3, <2>1, QueuedAfterEvent DEF TimedOut
<1>4. ASSUME NEW d \in Euis, DeviceLeft(d) PROVE d = e
  <2>1. queue' \in DeleteTasksOf(queue, d)
    BY <1>4 DEF DeviceLeft
  <2> QED
    BY <1>1, <2>1, DeleteTasksOfKeeps DEF InQueue
<1>5. CASE QueueKept
  BY <1>5 DEF QueueKept, InQueue
<1> QED
  BY <1>2, <1>3, <1>4, <1>5, QueueSteps, QueuedAfterStart, WantedAfterDescriptor

LEMMA WantedStep ==
  ASSUME QueueInv, TableInv, FileThere, [Next]_vars, NEW e \in Euis, Wanted(e)
  PROVE  \/ Wanted(e)'
         \/ DeviceLeft(e) \/ NetworkDown \/ Restart
         \/ RemoveCommand(e) \/ IndexRemoveOf(e)
         \/ NoEndpoint(e) \/ TimedOut(e)
         \/ \E p \in Endpoints : TakenOver(e, p)
<1>1. /\ InTable(e, table) \/ InQueue(e, queue)
      /\ Wanted(e)' <=> InTable(e, table') \/ InQueue(e, queue')
  BY DEF Wanted, InTable, InQueue
<1>2. ASSUME InTable(e, table), ~ InTable(e, table')
      PROVE  \/ DeviceLeft(e) \/ NetworkDown
             \/ RemoveCommand(e) \/ IndexRemoveOf(e)
             \/ \E p \in Endpoints : TakenOver(e, p)
  <2>1. PICK i \in Occupied(table) : table[i].eui64 = e
    BY <1>2 DEF InTable
  <2> DEFINE x == <<e, table[i].endpoint>>
  <2>2. x \in KnownEndpoints(table) /\ x[1] = e /\ x[2] \in Endpoints
    <3>1. table[i] \in Entries
      BY <2>1, OccupiedMember DEF TableInv, TableTypeOK
    <3> QED
      BY <2>1, <3>1 DEF KnownEndpoints, Entries
  <2>3. x \notin KnownEndpoints(table')
    BY <1>2 DEF KnownEndpoints, InTable
  <2> HIDE DEF x
  <2> QED
    BY <2>2, <2>3, KnownStep
<1> QED
  BY <1>1, <1>2, QueuedStep

\* No device is silently forgotten: discovery hands it over to the table, a
\* new discovery takes the place of the pending one although the queue may be
\* full, the queue loses only devices that have no endpoint, have left, or
\* have used up their time, and the table only what KnownEndpointsPersist
\* names; for any number of devices and any sharing of addresses.
THEOREM DevicesAreNotForgotten == Spec => DeviceIsNotForgotten
<1>1. QueueInv /\ TableInv /\ FileThere /\ [Next]_vars =>
        [\A e \in Euis :
           Wanted(e) =>
             \/ Wanted(e)'
             \/ DeviceLeft(e) \/ NetworkDown \/ Restart
             \/ RemoveCommand(e) \/ IndexRemoveOf(e)
             \/ NoEndpoint(e) \/ TimedOut(e)
             \/ \E p \in Endpoints : TakenOver(e, p)]_vars
  BY WantedStep
<1> QED
  BY <1>1, QueueInvariant, TableInvariant, FileThereInvariant,
     PTL DEF Spec, DeviceIsNotForgotten
=============================================================================
