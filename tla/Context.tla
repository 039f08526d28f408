------------------------------ MODULE Context -------------------------------
(***************************************************************************)
(* common/context.cpp: the table of capture streams behind the C API.      *)
(* Context hands out stream IDs, keeps the Stream objects in the map       *)
(* m_streams, and owns the list of devices m_devices.  Most calls look a   *)
(* stream up with m_streams[streamID], and std::map's operator[] adds an   *)
(* entry holding nullptr for an ID it does not know: a ghost.              *)
(*                                                                         *)
(* One client thread calls the API (the header asks for no concurrent use  *)
(* of the device list, and nothing in Context locks m_streams); devices    *)
(* are plugged and unplugged at any time.  What the frames of a stream do  *)
(* is module Stream's matter: here a Stream object is allocated, open,     *)
(* shut (its open() failed) or deleted.                                    *)
(***************************************************************************)
EXTENDS Integers, Sequences, FiniteSets

CONSTANTS
  Objects,       \* the Stream objects that may be allocated
  nullptr,
  Devices,       \* the cameras that may be attached
  NumFormats,    \* frame formats of each device; format 0 is MJPG
  MaxId,         \* clients pass IDs from -1 to MaxId
  StrictClient   \* TRUE: clients only pass -1 and IDs they were given once

ASSUME ContextAssumption ==
  /\ nullptr \notin Objects
  /\ IsFiniteSet(Devices)
  /\ NumFormats \in Nat
  /\ MaxId \in Int
  /\ StrictClient \in BOOLEAN

VARIABLES
  m_devices,       \* the enumerated devices, in index order
  m_streams,       \* stream ID -> object or nullptr
  m_streamCounter,
  plugged,         \* external: the devices attached now
  object,          \* object[o]: "none", "open", "shut" or "deleted"
  handed,          \* history: IDs returned by an open, not yet closed
  issued,          \* history: all IDs ever returned by an open
  probing,         \* the stream ID Cap_probeDevice waits on, or -1
  state            \* "alive", "released" or "crashed" (a nullptr is used)

tables == <<m_streams, m_streamCounter, object, handed, issued>>
vars == <<m_devices, tables, plugged, probing, state>>

Init ==
  /\ plugged = Devices
  /\ m_devices \in [1..Cardinality(Devices) -> Devices]
  /\ \A i, j \in DOMAIN m_devices : m_devices[i] = m_devices[j] => i = j
  /\ m_streams = [id \in {} |-> nullptr]
  /\ m_streamCounter = 0
  /\ object = [o \in Objects |-> "none"]
  /\ handed = {}
  /\ issued = {}
  /\ probing = -1
  /\ state = "alive"

(* The client may call: the context is alive and no probe is under way. *)
Ready == state = "alive" /\ probing = -1

ClientIds == {id \in -1..MaxId : StrictClient => id < m_streamCounter}

(* m_streams after an evaluation of m_streams[id] *)
Touched(id) ==
  [i \in DOMAIN m_streams \cup {id} |->
     IF i \in DOMAIN m_streams THEN m_streams[i] ELSE nullptr]
-----------------------------------------------------------------------------
(* Opening a stream. *)
(* Mutants: the stream goes under the next ID but one; the counter is the   *)
(* number of streams, so IDs come back.                                     *)
StoreStreamElsewhere(o) ==
  /\ m_streams' = [i \in DOMAIN m_streams \cup {m_streamCounter + 1} |->
                     IF i \in DOMAIN m_streams THEN m_streams[i] ELSE o]
  /\ m_streamCounter' = m_streamCounter + 1

StoreStreamByCount(o) ==
  /\ m_streams' = [i \in DOMAIN m_streams \cup {m_streamCounter} |->
                     IF i \in DOMAIN m_streams THEN m_streams[i] ELSE o]
  /\ m_streamCounter' = Cardinality(DOMAIN m_streams) + 1

(* storeStream: the next ID; insert() leaves an existing entry as it is.    *)
StoreStream(o) ==
  /\ m_streams' = [i \in DOMAIN m_streams \cup {m_streamCounter} |->
                     IF i \in DOMAIN m_streams THEN m_streams[i] ELSE o]
  /\ m_streamCounter' = m_streamCounter + 1

(* The part openStream and openStreamRaw share: a new object o is opened on *)
(* device id.  open() can fail for many reasons, and does so if the device  *)
(* is gone.  "failed" says what becomes of an object that did not open.     *)
Opened(id, o) ==
  /\ m_devices[id + 1] \in plugged
  /\ object[o] = "none"
  /\ object' = [object EXCEPT ![o] = "open"]
  /\ StoreStream(o)
  /\ handed' = handed \cup {m_streamCounter}
  /\ issued' = issued \cup {m_streamCounter}

OpenFailed(o, failed) ==
  /\ object[o] = "none"
  /\ object' = [object EXCEPT ![o] = failed]
  /\ UNCHANGED <<m_streams, m_streamCounter, handed, issued>>

KnownFormat(id, formatID) == id < Len(m_devices) /\ formatID < NumFormats

OpenStream(id, formatID) ==
  /\ Ready
  /\ KnownFormat(id, formatID)
  /\ \E o \in Objects : Opened(id, o) \/ OpenFailed(o, "shut")
  /\ UNCHANGED <<m_devices, plugged, probing, state>>

(* Only MJPG, and a stream that fails to open is deleted. *)
OpenStreamRaw(id, formatID) ==
  /\ Ready
  /\ KnownFormat(id, formatID) /\ formatID = 0
  /\ \E o \in Objects : Opened(id, o) \/ OpenFailed(o, "deleted")
  /\ UNCHANGED <<m_devices, plugged, probing, state>>
-----------------------------------------------------------------------------
(* Calls on a stream ID. *)
(* Mutants: the entry goes and the object stays; the object goes and the    *)
(* entry stays.                                                             *)
RemoveStreamLeaks(id) ==
  /\ m_streams' = [i \in DOMAIN m_streams \ {id} |-> m_streams[i]]
  /\ UNCHANGED object

RemoveStreamDangles(id) ==
  /\ object' = [o \in Objects |->
                  IF id \in DOMAIN m_streams /\ o = m_streams[id]
                    THEN "deleted" ELSE object[o]]
  /\ UNCHANGED m_streams

(* removeStream: delete the object of the entry, if any, and the entry.     *)
RemoveStream(id) ==
  IF id \in DOMAIN m_streams
    THEN /\ m_streams' = [i \in DOMAIN m_streams \ {id} |-> m_streams[i]]
         /\ object' = [o \in Objects |->
                         IF o = m_streams[id] THEN "deleted" ELSE object[o]]
    ELSE UNCHANGED <<m_streams, object>>

CloseStream(id) ==
  /\ Ready
  /\ id >= 0
  /\ RemoveStream(id)
  /\ handed' = handed \ {id}
  /\ UNCHANGED <<m_devices, m_streamCounter, issued, plugged, probing, state>>

(* captureFrame, captureFrameRaw, getFrameSize, decodeFrame, hasNewFrame,   *)
(* getStreamFrameCount, getStreamResolution, setStreamFrameRate: a negative *)
(* ID is refused; any other is looked up, and a nullptr found is refused.   *)
Lookup(id) ==
  /\ Ready
  /\ id >= 0
  /\ m_streams' = Touched(id)
  /\ UNCHANGED <<m_devices, m_streamCounter, object, handed, issued, plugged,
                 probing, state>>

(* The five property calls look up negative IDs, too. *)
PropertyLookup(id) ==
  /\ Ready
  /\ m_streams' = Touched(id)
  /\ UNCHANGED <<m_devices, m_streamCounter, object, handed, issued, plugged,
                 probing, state>>

(* isOpenStream and isDeviceStillConnected ask whether the ID has an entry, *)
(* then use the object it holds without looking whether that is nullptr.    *)
UseEntry(id) ==
  /\ Ready
  /\ id \in DOMAIN m_streams
  /\ state' = IF m_streams[id] = nullptr THEN "crashed" ELSE state
  /\ UNCHANGED <<m_devices, tables, plugged, probing>>

IsOpenStream(id) == id >= 0 /\ UseEntry(id)
IsDeviceStillConnected(id) == UseEntry(id)
-----------------------------------------------------------------------------
(* probeDevice: openStream, wait for a frame, closeStream.  The device may  *)
(* come and go while it waits.                                              *)

ProbeOpen(id, formatID) ==
  /\ Ready
  /\ KnownFormat(id, formatID)
  /\ \E o \in Objects :
       \/ Opened(id, o) /\ probing' = m_streamCounter
       \/ OpenFailed(o, "shut") /\ UNCHANGED probing
  /\ UNCHANGED <<m_devices, plugged, state>>

ProbeClose ==
  /\ state = "alive"
  /\ probing # -1
  /\ RemoveStream(probing)
  /\ handed' = handed \ {probing}
  /\ probing' = -1
  /\ UNCHANGED <<m_devices, m_streamCounter, issued, plugged, state>>
-----------------------------------------------------------------------------
(* Devices. *)

(* refreshDevices: the list is emptied and enumerated again. *)
RefreshDevices ==
  /\ Ready
  /\ m_devices' \in [1..Cardinality(plugged) -> plugged]
  /\ \A i, j \in DOMAIN m_devices' : m_devices'[i] = m_devices'[j] => i = j
  /\ UNCHANGED <<tables, plugged, probing, state>>

(* External: a camera is attached or removed. *)
Hotplug(d) ==
  /\ state = "alive"
  /\ plugged' = IF d \in plugged THEN plugged \ {d} ELSE plugged \cup {d}
  /\ UNCHANGED <<m_devices, tables, probing, state>>
(* Mutant: the map is emptied and the objects are not deleted. *)
ReleaseContextLeaks ==
  /\ Ready
  /\ state' = "released"
  /\ handed' = {}
  /\ m_streams' = [id \in {} |-> nullptr]
  /\ m_devices' = <<>>
  /\ UNCHANGED <<m_streamCounter, object, issued, plugged, probing>>

(* ~Context deletes every object in the map. *)
ReleaseContext ==
  /\ Ready
  /\ state' = "released"
  /\ object' = [o \in Objects |->
                  IF \E id \in DOMAIN m_streams : m_streams[id] = o
                    THEN "deleted" ELSE object[o]]
  /\ handed' = {}
  /\ m_streams' = [id \in {} |-> nullptr]
  /\ m_devices' = <<>>
  /\ UNCHANGED <<m_streamCounter, issued, plugged, probing>>

Over == state # "alive" /\ UNCHANGED vars

StreamCall(id) ==
  \/ CloseStream(id) \/ Lookup(id) \/ PropertyLookup(id)
  \/ IsOpenStream(id) \/ IsDeviceStillConnected(id)

Next ==
  \/ \E id \in 0..Len(m_devices), formatID \in 0..NumFormats :
       OpenStream(id, formatID) \/ OpenStreamRaw(id, formatID)
         \/ ProbeOpen(id, formatID)
  \/ \E id \in ClientIds : StreamCall(id)
  \/ ProbeClose \/ RefreshDevices \/ ReleaseContext \/ Over
  \/ \E d \in Devices : Hotplug(d)

Spec == Init /\ [][Next]_vars
-----------------------------------------------------------------------------
(* Type correctness of the context's tables. *)
TypeOK ==
  /\ m_devices \in Seq(Devices)
  /\ DOMAIN m_streams \subseteq Int
  /\ m_streams \in [DOMAIN m_streams -> Objects \cup {nullptr}]
  /\ m_streamCounter \in Nat
  /\ plugged \in SUBSET Devices
  /\ object \in [Objects -> {"none", "open", "shut", "deleted"}]
  /\ handed \in SUBSET Nat
  /\ issued \in SUBSET Nat
  /\ probing \in Nat \cup {-1}
  /\ state \in {"alive", "released", "crashed"}

(* storeStream's comment: it stores the stream in the map and returns its   *)
(* ID.  Every ID a client was given and has not closed leads to an open     *)
(* stream.                                                                  *)
HandedIdsAreStored ==
  \A id \in handed : /\ id \in DOMAIN m_streams
                     /\ m_streams[id] \in Objects
                     /\ object[m_streams[id]] = "open"

(* Until the context is released, a capturing stream can be closed: exactly *)
(* one ID leads to it, and the client has it.                               *)
CapturingHasOneId ==
  \A o \in Objects : object[o] = "open" /\ state # "released" =>
    /\ \E id \in handed \cap DOMAIN m_streams : m_streams[id] = o
    /\ \A i, j \in DOMAIN m_streams : m_streams[i] = o /\ m_streams[j] = o => i = j

(* No entry of the map leads to a deleted object, so nothing is used after  *)
(* it was deleted and nothing is deleted twice.                             *)
NoDanglingEntry ==
  \A id \in DOMAIN m_streams :
    m_streams[id] # nullptr => object[m_streams[id]] = "open"

(* Releasing the context stops every camera. *)
ReleaseStopsAll == state = "released" => \A o \in Objects : object[o] # "open"

(* An ID that was issued never comes to lead to another stream: a stale ID  *)
(* a client kept after closing it cannot reach somebody else's camera.      *)
IdsAreNotReused ==
  [][\A id \in issued \cap DOMAIN m_streams' :
       m_streams'[id] # nullptr =>
         id \in DOMAIN m_streams /\ m_streams[id] = m_streams'[id]]_vars

(* isOpenStream answers 1 or 0 for every ID: it never uses a nullptr. *)
IsOpenStreamAnswers == state # "crashed"
=============================================================================
