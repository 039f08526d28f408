--------------------------- MODULE ContextProofs ---------------------------
(***************************************************************************)
(* Proofs about module Context, for any number of stream objects, devices  *)
(* and IDs.  Types hold whatever IDs clients pass.  The rest needs clients *)
(* that pass no ID before it was issued (StrictClient): only then has the  *)
(* counter's next ID no entry yet (KeysInv), so that storeStream's insert  *)
(* takes effect and the IDs of open streams and the open streams           *)
(* correspond one to one (EntriesInv).                                     *)
(***************************************************************************)
EXTENDS Context, FiniteSetTheorems, TLAPS

(* The operations on the table, by what they do to it *)
LEMMA StoreType ==
  ASSUME TypeOK, NEW o \in Objects, StoreStream(o)
  PROVE  /\ DOMAIN m_streams' = DOMAIN m_streams \cup {m_streamCounter}
         /\ m_streams' \in [DOMAIN m_streams' -> Objects \cup {nullptr}]
         /\ m_streamCounter' = m_streamCounter + 1
         /\ \A i \in DOMAIN m_streams : m_streams'[i] = m_streams[i]
         /\ m_streamCounter \notin DOMAIN m_streams => m_streams'[m_streamCounter] = o
BY DEF TypeOK, StoreStream

LEMMA TouchedType ==
  ASSUME TypeOK, NEW id \in Int
  PROVE  /\ DOMAIN Touched(id) = DOMAIN m_streams \cup {id}
         /\ Touched(id) \in [DOMAIN Touched(id) -> Objects \cup {nullptr}]
         /\ \A i \in DOMAIN m_streams : Touched(id)[i] = m_streams[i]
         /\ id \notin DOMAIN m_streams => Touched(id)[id] = nullptr
BY DEF TypeOK, Touched

LEMMA RemoveType ==
  ASSUME TypeOK, NEW id, RemoveStream(id)
  PROVE  /\ DOMAIN m_streams' = DOMAIN m_streams \ {id}
         /\ m_streams' \in [DOMAIN m_streams' -> Objects \cup {nullptr}]
         /\ \A i \in DOMAIN m_streams' : m_streams'[i] = m_streams[i]
         /\ object' \in [Objects -> {"none", "open", "shut", "deleted"}]
         /\ \A o \in Objects :
              object'[o] = IF id \in DOMAIN m_streams /\ o = m_streams[id]
                             THEN "deleted" ELSE object[o]
<1>1. CASE id \in DOMAIN m_streams
  BY <1>1 DEF TypeOK, RemoveStream
<1>2. CASE id \notin DOMAIN m_streams
  BY <1>2 DEF TypeOK, RemoveStream
<1>3. QED
  BY <1>1, <1>2

LEMMA ClientIdsAreIntegers == \A id \in ClientIds : id \in Int
BY ContextAssumption DEF ClientIds

LEMMA TypeInit == Init => TypeOK
<1> SUFFICES ASSUME Init PROVE TypeOK
  OBVIOUS
<1>1. Cardinality(Devices) \in Nat
  BY ContextAssumption, FS_CardinalityType
<1>2. m_devices \in Seq(Devices)
  BY <1>1 DEF Init
<1>3. QED
  BY <1>2 DEF Init, TypeOK

(* The three ways to open a stream *)
LEMMA TypeOpen ==
  ASSUME TypeOK, NEW id, NEW o \in Objects, NEW failed \in {"shut", "deleted"},
         Opened(id, o) \/ OpenFailed(o, failed)
  PROVE  /\ m_streams' \in [DOMAIN m_streams' -> Objects \cup {nullptr}]
         /\ DOMAIN m_streams' \subseteq Int
         /\ m_streamCounter' \in Nat
         /\ object' \in [Objects -> {"none", "open", "shut", "deleted"}]
         /\ handed' \in SUBSET Nat /\ issued' \in SUBSET Nat
<1>1. CASE Opened(id, o)
  BY <1>1, StoreType DEF Opened, TypeOK
<1>2. CASE OpenFailed(o, failed)
  BY <1>2 DEF OpenFailed, TypeOK
<1>3. QED
  BY <1>1, <1>2

LEMMA TypeStep == ASSUME TypeOK, [Next]_vars PROVE TypeOK'
<1> USE DEF tables
<1>1. CASE UNCHANGED vars
  BY <1>1 DEF vars, TypeOK
<1>2. ASSUME NEW id, NEW formatID,
             OpenStream(id, formatID) \/ OpenStreamRaw(id, formatID)
      PROVE  TypeOK'
  <2>1. PICK o \in Objects, failed \in {"shut", "deleted"} :
          Opened(id, o) \/ OpenFailed(o, failed)
    BY <1>2 DEF OpenStream, OpenStreamRaw
  <2>2. UNCHANGED <<m_devices, plugged, probing, state>>
    BY <1>2 DEF OpenStream, OpenStreamRaw
  <2>3. QED
    BY <2>1, <2>2, TypeOpen DEF TypeOK
<1>3. ASSUME NEW id, NEW formatID, ProbeOpen(id, formatID)
      PROVE  TypeOK'
  <2>1. PICK o \in Objects : Opened(id, o) \/ OpenFailed(o, "shut")
    BY <1>3 DEF ProbeOpen
  <2>2. UNCHANGED <<m_devices, plugged, state>> /\ probing' \in {probing, m_streamCounter}
    BY <1>3 DEF ProbeOpen
  <2>3. QED
    BY <2>1, <2>2, TypeOpen DEF TypeOK
<1>4. ASSUME NEW id \in ClientIds, CloseStream(id)
      PROVE  TypeOK'
  BY <1>4, RemoveType DEF CloseStream, TypeOK
<1>5. ASSUME NEW id \in ClientIds, Lookup(id) \/ PropertyLookup(id)
      PROVE  TypeOK'
  <2>1. id \in Int
    BY ClientIdsAreIntegers
  <2>2. m_streams' = Touched(id)
    BY <1>5 DEF Lookup, PropertyLookup
  <2>3. /\ DOMAIN m_streams' = DOMAIN m_streams \cup {id}
        /\ m_streams' \in [DOMAIN m_streams' -> Objects \cup {nullptr}]
    BY <2>1, <2>2, TouchedType
  <2>4. QED
    BY <1>5, <2>1, <2>3 DEF Lookup, PropertyLookup, TypeOK
<1>6. ASSUME NEW id \in ClientIds, IsOpenStream(id) \/ IsDeviceStillConnected(id)
      PROVE  TypeOK'
  BY <1>6 DEF IsOpenStream, IsDeviceStillConnected, UseEntry, TypeOK
<1>7. CASE ProbeClose
  BY <1>7, RemoveType DEF ProbeClose, TypeOK
<1>8. CASE RefreshDevices
  <2>1. Cardinality(plugged) \in Nat
    BY ContextAssumption, FS_Subset, FS_CardinalityType DEF TypeOK
  <2>2. m_devices' \in Seq(Devices)
    BY <1>8, <2>1 DEF RefreshDevices, TypeOK
  <2>3. QED
    BY <1>8, <2>2 DEF RefreshDevices, TypeOK
<1>9. CASE ReleaseContext \/ Over
  <2>1. CASE ReleaseContext
    <3>1. m_streams' = [id \in {} |-> nullptr] /\ m_devices' = <<>>
      BY <2>1 DEF ReleaseContext
    <3>2. object' \in [Objects -> {"none", "open", "shut", "deleted"}]
      BY <2>1 DEF ReleaseContext, TypeOK
    <3>3. QED
      BY <2>1, <3>1, <3>2 DEF ReleaseContext, TypeOK
  <2>2. QED
    BY <1>1, <1>9, <2>1 DEF Over
<1>10. ASSUME NEW d \in Devices, Hotplug(d)
       PROVE  TypeOK'
  BY <1>10 DEF Hotplug, TypeOK
<1>11. QED
  BY <1>1, <1>2, <1>3, <1>4, <1>5, <1>6, <1>7, <1>8, <1>9, <1>10
     DEF Next, StreamCall

(* The tables keep their types, whatever IDs clients pass. *)
THEOREM TypeCorrect == Spec => []TypeOK
BY TypeInit, TypeStep, PTL DEF Spec
-----------------------------------------------------------------------------
(* Every key is below the next ID, and so is every ID a client has. *)
KeysInv ==
  /\ \A i \in DOMAIN m_streams : i < m_streamCounter
  /\ issued \subseteq 0..m_streamCounter - 1
  /\ handed \subseteq issued
  /\ probing < m_streamCounter

(* The IDs clients have are the entries that hold an object, those objects  *)
(* are the open ones, and no two entries hold the same.                     *)
EntriesInv ==
  /\ HandedIdsAreStored
  /\ NoDanglingEntry
  /\ \A i \in DOMAIN m_streams : m_streams[i] # nullptr => i \in handed
  /\ \A i, j \in DOMAIN m_streams :
       m_streams[i] = m_streams[j] /\ m_streams[i] # nullptr => i = j
  /\ state # "released" =>
       \A o \in Objects : object[o] = "open" => \E i \in DOMAIN m_streams : m_streams[i] = o
  /\ state = "released" => \A o \in Objects : object[o] # "open"

IInv == TypeOK /\ KeysInv /\ EntriesInv

LEMMA TablesInit == Init => KeysInv /\ EntriesInv
BY ContextAssumption
   DEF Init, KeysInv, EntriesInv, HandedIdsAreStored, NoDanglingEntry

(* Opening: the entry is new, since no client can have touched it. *)
LEMMA OpenedTables ==
  ASSUME IInv, NEW id, NEW o \in Objects, Opened(id, o), UNCHANGED state, Ready,
         probing' \in {probing, m_streamCounter}
  PROVE  KeysInv' /\ EntriesInv'
<1>1. /\ object[o] = "none" /\ object' = [object EXCEPT ![o] = "open"]
      /\ handed' = handed \cup {m_streamCounter}
      /\ issued' = issued \cup {m_streamCounter}
      /\ StoreStream(o)
  BY DEF Opened
<1>2. m_streamCounter \notin DOMAIN m_streams /\ m_streamCounter \in Nat
  BY DEF IInv, KeysInv, TypeOK
<1>3. /\ DOMAIN m_streams' = DOMAIN m_streams \cup {m_streamCounter}
      /\ m_streams'[m_streamCounter] = o
      /\ \A i \in DOMAIN m_streams : m_streams'[i] = m_streams[i]
      /\ m_streamCounter' = m_streamCounter + 1
  BY <1>1, <1>2, StoreType DEF IInv
<1>4. KeysInv'
  BY <1>1, <1>2, <1>3 DEF IInv, KeysInv, TypeOK
<1>5. \A i \in DOMAIN m_streams : m_streams[i] # o
  BY <1>1, ContextAssumption DEF IInv, EntriesInv, NoDanglingEntry
<1>6. \A p \in Objects : object'[p] = IF p = o THEN "open" ELSE object[p]
  BY <1>1 DEF IInv, TypeOK
<1>7. HandedIdsAreStored'
  BY <1>1, <1>3, <1>6 DEF IInv, EntriesInv, HandedIdsAreStored
<1>8. NoDanglingEntry'
  BY <1>3, <1>6 DEF IInv, EntriesInv, NoDanglingEntry, TypeOK
<1>9. \A i, j \in DOMAIN m_streams' :
        m_streams'[i] = m_streams'[j] /\ m_streams'[i] # nullptr => i = j
  BY <1>3, <1>5 DEF IInv, EntriesInv
<1>10. \A i \in DOMAIN m_streams' : m_streams'[i] # nullptr => i \in handed'
  BY <1>1, <1>3 DEF IInv, EntriesInv
<1>11. \A p \in Objects : object'[p] = "open" => \E i \in DOMAIN m_streams' : m_streams'[i] = p
  <2>1. SUFFICES ASSUME NEW p \in Objects, object'[p] = "open"
                 PROVE  \E i \in DOMAIN m_streams' : m_streams'[i] = p
    OBVIOUS
  <2>2. CASE p = o
    BY <1>3, <2>2
  <2>3. CASE p # o
    BY <1>3, <1>6, <2>1, <2>3 DEF IInv, EntriesInv, Ready
  <2>4. QED
    BY <2>2, <2>3
<1>12. state' = "alive"
  BY DEF Ready
<1>13. QED
  BY <1>4, <1>7, <1>8, <1>9, <1>10, <1>11, <1>12 DEF EntriesInv

LEMMA OpenFailedTables ==
  ASSUME IInv, NEW o \in Objects, NEW failed \in {"shut", "deleted"},
         OpenFailed(o, failed), UNCHANGED <<state, probing>>
  PROVE  KeysInv' /\ EntriesInv'
<1>1. /\ object[o] = "none"
      /\ \A p \in Objects : object'[p] = IF p = o THEN failed ELSE object[p]
      /\ UNCHANGED <<m_streams, m_streamCounter, handed, issued>>
  BY DEF OpenFailed, IInv, TypeOK
<1>2. \A i \in DOMAIN m_streams : m_streams[i] # o
  BY <1>1, ContextAssumption DEF IInv, EntriesInv, NoDanglingEntry
<1>3. HandedIdsAreStored' /\ NoDanglingEntry'
  BY <1>1, <1>2 DEF IInv, EntriesInv, HandedIdsAreStored, NoDanglingEntry, TypeOK
<1>4. QED
  BY <1>1, <1>3 DEF IInv, EntriesInv, KeysInv

(* Looking an ID up adds a ghost at most. *)
LEMMA TouchedTables ==
  ASSUME IInv, NEW id \in Int, id < m_streamCounter, m_streams' = Touched(id),
         UNCHANGED <<m_streamCounter, object, handed, issued, probing, state>>
  PROVE  KeysInv' /\ EntriesInv'
<1>1. /\ DOMAIN m_streams' = DOMAIN m_streams \cup {id}
      /\ \A i \in DOMAIN m_streams : m_streams'[i] = m_streams[i]
      /\ id \notin DOMAIN m_streams => m_streams'[id] = nullptr
  BY TouchedType DEF IInv
<1>2. KeysInv'
  BY <1>1 DEF IInv, KeysInv
<1>3. HandedIdsAreStored' /\ NoDanglingEntry'
  BY <1>1 DEF IInv, EntriesInv, HandedIdsAreStored, NoDanglingEntry
<1>4. QED
  BY <1>1, <1>2, <1>3 DEF IInv, EntriesInv

(* Removing an entry deletes the object that only it leads to. *)
LEMMA RemovedTables ==
  ASSUME IInv, NEW id \in Int, RemoveStream(id), state = "alive",
         handed' = handed \ {id}, probing' \in {probing, -1},
         UNCHANGED <<m_streamCounter, issued, state>>
  PROVE  KeysInv' /\ EntriesInv'
<1>1. /\ DOMAIN m_streams' = DOMAIN m_streams \ {id}
      /\ \A i \in DOMAIN m_streams' : m_streams'[i] = m_streams[i]
      /\ \A o \in Objects :
           object'[o] = IF id \in DOMAIN m_streams /\ o = m_streams[id]
                          THEN "deleted" ELSE object[o]
  BY RemoveType DEF IInv
<1>2. KeysInv'
  BY <1>1 DEF IInv, KeysInv, TypeOK
<1>3. \A i \in DOMAIN m_streams' :
        m_streams[i] # nullptr =>
          m_streams[i] \in Objects /\ object'[m_streams[i]] = object[m_streams[i]]
  BY <1>1 DEF IInv, EntriesInv, TypeOK
<1>4. HandedIdsAreStored'
  BY <1>1, <1>3, ContextAssumption DEF IInv, EntriesInv, HandedIdsAreStored
<1>5. NoDanglingEntry'
  BY <1>1, <1>3 DEF IInv, EntriesInv, NoDanglingEntry
<1>6. \A o \in Objects : object'[o] = "open" => \E i \in DOMAIN m_streams' : m_streams'[i] = o
  <2>1. SUFFICES ASSUME NEW o \in Objects, object'[o] = "open"
                 PROVE  \E i \in DOMAIN m_streams' : m_streams'[i] = o
    OBVIOUS
  <2>2. object[o] = "open" /\ ~(id \in DOMAIN m_streams /\ o = m_streams[id])
    BY <1>1, <2>1
  <2>3. PICK i \in DOMAIN m_streams : m_streams[i] = o
    BY <2>2 DEF IInv, EntriesInv
  <2>4. QED
    BY <1>1, <2>2, <2>3
<1>7. QED
  BY <1>1, <1>2, <1>4, <1>5, <1>6 DEF IInv, EntriesInv

LEMMA ReleasedTables == ASSUME IInv, ReleaseContext PROVE KeysInv' /\ EntriesInv'
<1>1. /\ state' = "released" /\ handed' = {} /\ DOMAIN m_streams' = {}
      /\ \A o \in Objects :
           object'[o] = IF \E id \in DOMAIN m_streams : m_streams[id] = o
                          THEN "deleted" ELSE object[o]
  BY DEF ReleaseContext
<1>2. \A o \in Objects : object'[o] # "open"
  BY <1>1 DEF ReleaseContext, Ready, IInv, EntriesInv
<1>3. QED
  BY <1>1, <1>2 DEF ReleaseContext, IInv, KeysInv, EntriesInv, HandedIdsAreStored,
                    NoDanglingEntry

LEMMA TablesStep ==
  ASSUME StrictClient, IInv, [Next]_vars
  PROVE  KeysInv' /\ EntriesInv'
<1>1. ASSUME UNCHANGED <<tables, probing, state>>
      PROVE  KeysInv' /\ EntriesInv'
  BY <1>1 DEF tables, IInv, KeysInv, EntriesInv, HandedIdsAreStored, NoDanglingEntry
<1>2. ASSUME NEW id, NEW formatID,
             OpenStream(id, formatID) \/ OpenStreamRaw(id, formatID)
      PROVE  KeysInv' /\ EntriesInv'
  <2>1. PICK o \in Objects, failed \in {"shut", "deleted"} :
          Opened(id, o) \/ OpenFailed(o, failed)
    BY <1>2 DEF OpenStream, OpenStreamRaw
  <2>2. UNCHANGED <<probing, state>> /\ Ready
    BY <1>2 DEF OpenStream, OpenStreamRaw
  <2>3. QED
    BY <2>1, <2>2, OpenedTables, OpenFailedTables
<1>3. ASSUME NEW id, NEW formatID, ProbeOpen(id, formatID)
      PROVE  KeysInv' /\ EntriesInv'
  <2>1. PICK o \in Objects : \/ Opened(id, o) /\ probing' = m_streamCounter
                             \/ OpenFailed(o, "shut") /\ UNCHANGED probing
    BY <1>3 DEF ProbeOpen
  <2>2. UNCHANGED state /\ Ready
    BY <1>3 DEF ProbeOpen
  <2>3. QED
    BY <2>1, <2>2, OpenedTables, OpenFailedTables
<1>4. ASSUME NEW id \in ClientIds, CloseStream(id)
      PROVE  KeysInv' /\ EntriesInv'
  BY <1>4, ClientIdsAreIntegers, RemovedTables DEF CloseStream, Ready
<1>5. ASSUME NEW id \in ClientIds, Lookup(id) \/ PropertyLookup(id)
      PROVE  KeysInv' /\ EntriesInv'
  <2>1. id \in Int /\ id < m_streamCounter
    BY ClientIdsAreIntegers DEF ClientIds
  <2>2. QED
    BY <1>5, <2>1, TouchedTables DEF Lookup, PropertyLookup
<1>6. ASSUME NEW id \in ClientIds, IsOpenStream(id) \/ IsDeviceStillConnected(id)
      PROVE  KeysInv' /\ EntriesInv'
  <2>1. UNCHANGED <<tables, probing>> /\ state # "released" /\ state' # "released"
    BY <1>6 DEF IsOpenStream, IsDeviceStillConnected, UseEntry, Ready
  <2>2. QED
    BY <2>1 DEF tables, IInv, KeysInv, EntriesInv, HandedIdsAreStored, NoDanglingEntry
<1>7. CASE ProbeClose
  <2>1. probing \in Int
    BY DEF IInv, TypeOK
  <2>2. QED
    BY <1>7, <2>1, RemovedTables DEF ProbeClose
<1>8. CASE RefreshDevices \/ Over \/ UNCHANGED vars
  BY <1>1, <1>8 DEF RefreshDevices, Over, vars
<1>9. CASE ReleaseContext
  BY <1>9, ReleasedTables
<1>10. ASSUME NEW d \in Devices, Hotplug(d)
       PROVE  KeysInv' /\ EntriesInv'
  BY <1>1, <1>10 DEF Hotplug
<1>11. QED
  BY <1>2, <1>3, <1>4, <1>5, <1>6, <1>7, <1>8, <1>9, <1>10 DEF Next, StreamCall

LEMMA InvariantHolds == ASSUME StrictClient PROVE Spec => []IInv
<1>1. Init => IInv
  BY TypeInit, TablesInit DEF IInv
<1>2. IInv /\ [Next]_vars => IInv'
  BY TypeStep, TablesStep DEF IInv
<1>3. QED
  BY <1>1, <1>2, PTL DEF Spec

(* Every ID a client was given and has not closed leads to an open stream. *)
THEOREM HandedStored == ASSUME StrictClient PROVE Spec => []HandedIdsAreStored
<1>1. IInv => HandedIdsAreStored
  BY DEF IInv, EntriesInv
<1>2. QED
  BY <1>1, InvariantHolds, PTL

(* A capturing stream has exactly one ID, and the client has that ID. *)
THEOREM CapturingReachable == ASSUME StrictClient PROVE Spec => []CapturingHasOneId
<1>1. ASSUME IInv, NEW o \in Objects, object[o] = "open", state # "released"
      PROVE  \E id \in handed \cap DOMAIN m_streams : m_streams[id] = o
  <2>1. PICK id \in DOMAIN m_streams : m_streams[id] = o
    BY <1>1 DEF IInv, EntriesInv
  <2>2. id \in handed
    BY <2>1, <1>1, ContextAssumption DEF IInv, EntriesInv
  <2>3. QED
    BY <2>1, <2>2
<1>2. ASSUME IInv, NEW o \in Objects, NEW i \in DOMAIN m_streams,
             NEW j \in DOMAIN m_streams, m_streams[i] = o, m_streams[j] = o
      PROVE  i = j
  BY <1>2, ContextAssumption DEF IInv, EntriesInv
<1>3. IInv => CapturingHasOneId
  BY <1>1, <1>2 DEF CapturingHasOneId
<1>4. QED
  BY <1>3, InvariantHolds, PTL

(* No entry leads to a deleted object. *)
THEOREM NothingDangles == ASSUME StrictClient PROVE Spec => []NoDanglingEntry
<1>1. IInv => NoDanglingEntry
  BY DEF IInv, EntriesInv
<1>2. QED
  BY <1>1, InvariantHolds, PTL

(* A released context has no open stream. *)
THEOREM ReleaseIsComplete == ASSUME StrictClient PROVE Spec => []ReleaseStopsAll
<1>1. IInv => ReleaseStopsAll
  BY DEF IInv, EntriesInv, ReleaseStopsAll
<1>2. QED
  BY <1>1, InvariantHolds, PTL
-----------------------------------------------------------------------------
(* The ID of a new stream has not been issued before; this needs nothing of *)
(* the clients.                                                             *)
IssuedInv == issued \subseteq 0..m_streamCounter - 1

LEMMA EntriesStay ==
  ASSUME TypeOK, IssuedInv, [Next]_vars
  PROVE  /\ IssuedInv'
         /\ \A i \in issued \cap DOMAIN m_streams' :
              m_streams'[i] # nullptr =>
                i \in DOMAIN m_streams /\ m_streams[i] = m_streams'[i]
<1> DEFINE Stay == \A i \in issued \cap DOMAIN m_streams' :
                     m_streams'[i] # nullptr =>
                       i \in DOMAIN m_streams /\ m_streams[i] = m_streams'[i]
<1>1. ASSUME UNCHANGED tables
      PROVE  IssuedInv' /\ Stay
  BY <1>1 DEF tables, IssuedInv
<1>2. ASSUME NEW id, NEW o \in Objects, Opened(id, o)
      PROVE  IssuedInv' /\ Stay
  <2>1. /\ DOMAIN m_streams' = DOMAIN m_streams \cup {m_streamCounter}
        /\ \A i \in DOMAIN m_streams : m_streams'[i] = m_streams[i]
        /\ m_streamCounter' = m_streamCounter + 1
    BY <1>2, StoreType DEF Opened
  <2>2. issued' = issued \cup {m_streamCounter} /\ m_streamCounter \in Nat
    BY <1>2 DEF Opened, TypeOK
  <2>3. QED
    BY <2>1, <2>2 DEF IssuedInv
<1>3. ASSUME NEW id, NEW formatID,
             OpenStream(id, formatID) \/ OpenStreamRaw(id, formatID)
               \/ ProbeOpen(id, formatID)
      PROVE  IssuedInv' /\ Stay
  <2>1. CASE \E o \in Objects : Opened(id, o)
    BY <1>2, <2>1
  <2>2. CASE UNCHANGED <<m_streams, m_streamCounter, issued>>
    BY <2>2 DEF IssuedInv
  <2>3. QED
    BY <1>3, <2>1, <2>2 DEF OpenStream, OpenStreamRaw, ProbeOpen, OpenFailed
<1>4. ASSUME NEW id, RemoveStream(id), UNCHANGED <<m_streamCounter, issued>>
      PROVE  IssuedInv' /\ Stay
  BY <1>4, RemoveType DEF IssuedInv
<1>5. ASSUME NEW id \in ClientIds, Lookup(id) \/ PropertyLookup(id)
      PROVE  IssuedInv' /\ Stay
  <2>1. m_streams' = Touched(id) /\ UNCHANGED <<m_streamCounter, issued>>
    BY <1>5 DEF Lookup, PropertyLookup
  <2>2. /\ DOMAIN m_streams' = DOMAIN m_streams \cup {id}
        /\ \A i \in DOMAIN m_streams : m_streams'[i] = m_streams[i]
        /\ id \notin DOMAIN m_streams => m_streams'[id] = nullptr
    BY <2>1, ClientIdsAreIntegers, TouchedType
  <2>3. Stay
    BY <2>2
  <2>4. QED
    BY <2>1, <2>3 DEF IssuedInv
<1>6. ASSUME NEW id \in ClientIds,
             CloseStream(id) \/ IsOpenStream(id) \/ IsDeviceStillConnected(id)
      PROVE  IssuedInv' /\ Stay
  BY <1>1, <1>4, <1>6 DEF CloseStream, IsOpenStream, IsDeviceStillConnected, UseEntry
<1>7. CASE ProbeClose
  BY <1>4, <1>7 DEF ProbeClose
<1>8. CASE ReleaseContext
  BY <1>8 DEF ReleaseContext, IssuedInv
<1>9. CASE RefreshDevices \/ Over \/ (\E d \in Devices : Hotplug(d)) \/ UNCHANGED vars
  BY <1>1, <1>9 DEF RefreshDevices, Over, Hotplug, vars
<1>10. QED
  BY <1>3, <1>5, <1>6, <1>7, <1>8, <1>9 DEF Next, StreamCall

(* An issued ID never comes to lead to another stream. *)
THEOREM StaleIdsAreHarmless == Spec => IdsAreNotReused
<1>1. Init => TypeOK /\ IssuedInv
  BY TypeInit DEF Init, IssuedInv
<1>2. TypeOK /\ IssuedInv /\ [Next]_vars => (TypeOK /\ IssuedInv)'
  BY TypeStep, EntriesStay
<1>3. Spec => [](TypeOK /\ IssuedInv)
  BY <1>1, <1>2, PTL DEF Spec
<1>4. ASSUME TypeOK /\ IssuedInv, [Next]_vars
      PROVE  [\A id \in issued \cap DOMAIN m_streams' :
                m_streams'[id] # nullptr =>
                  id \in DOMAIN m_streams /\ m_streams[id] = m_streams'[id]]_vars
  BY <1>4, EntriesStay
<1>5. QED
  BY <1>3, <1>4, PTL DEF Spec, IdsAreNotReused
=============================================================================
