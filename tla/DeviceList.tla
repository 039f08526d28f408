----------------------------- MODULE DeviceList -----------------------------
(***************************************************************************)
(* The list of cameras and the cameras themselves: enumerateDevices,       *)
(* isDeviceAvailable and what open() and isDeviceConnected look up, in     *)
(* {linux,win,mac}/platformcontext and platformstream.  Between two        *)
(* refreshes the library keeps a name for each camera, and each platform   *)
(* another kind of name: a device node (Linux), a device path or, where    *)
(* there is none, the position in the enumeration (Windows), an object     *)
(* (macOS).  Meanwhile cameras are plugged in and pulled out, and nodes    *)
(* and positions change hands.                                             *)
(*                                                                         *)
(* One client thread; every call is one step here.  What open() does once  *)
(* it has found the camera is in V4L2Stream, DShowStream and AVFStream.    *)
(***************************************************************************)
EXTENDS Integers, FiniteSets

CONSTANTS
  Platforms,  \* those to check
  Cameras,    \* what can be enumerated: one entry per capture node
  Unit,       \* stands for name and bus: equal for two nodes of one camera
  Pathless,   \* Windows: those without the property DevicePath
  Slots,      \* Linux: N of /dev/videoN; elsewhere: order of enumeration
  None

(* What a configuration has to satisfy. *)
DeviceListAssumption ==
  /\ Platforms \subseteq {"Linux", "Windows", "macOS"}
  /\ IsFiniteSet(Cameras)
  /\ Unit \in [Cameras -> Cameras]
  /\ Pathless \subseteq Cameras
  /\ Slots \subseteq Nat
  /\ None \notin Cameras

VARIABLES
  platform,
  slot,       \* external: the camera in each slot, or None
  failing,    \* external: cameras that cannot be opened at present
  m_devices,  \* the list: the cameras listed, each with the name kept of it;
              \* an index stands for the entry it leads to
  stream,     \* the open stream: the same, and the camera that was opened
  changed     \* history: the cameras that came or went since the list was
              \* made, or that it left out

vars == <<platform, slot, failing, m_devices, stream, changed>>

Present == {slot[n] : n \in Slots} \ {None}
SlotOf(c) == CHOOSE n \in Slots : slot[n] = c
Before(c) == {d \in Present : SlotOf(d) < SlotOf(c)}
-----------------------------------------------------------------------------
(* enumerateDevices *)

(* A camera that cannot be opened is left out (Linux), or its property bag  *)
(* cannot be bound (Windows); macOS lists whatever it has discovered.       *)
Listed == IF platform = "macOS" THEN Present ELSE Present \ failing

(* Mutant: a node is known by its place in the list, not by its number.     *)
NameInOrder(c) ==
  CASE platform = "Linux" -> <<"node", Cardinality(Before(c) \cap Listed)>>
    [] platform = "macOS" -> <<"object", c>>
    [] platform = "Windows" ->
         IF c \in Pathless THEN <<"index", Cardinality(Before(c) \cap Listed)>>
                           ELSE <<"path", c>>

(* On Windows num_devices counts the cameras that were listed.              *)
Name(c) ==
  CASE platform = "Linux" -> <<"node", SlotOf(c)>>
    [] platform = "macOS" -> <<"object", c>>
    [] platform = "Windows" ->
         IF c \in Pathless THEN <<"index", Cardinality(Before(c) \cap Listed)>>
                           ELSE <<"path", c>>

Enumerated == {[camera |-> c, name |-> Name(c)] : c \in Listed}

(* m_uniqueID: the camera's name, with its bus (Linux), its device path or  *)
(* index (Windows), its AVFoundation ID (macOS).                            *)
UniqueID(device) ==
  IF platform = "Linux" THEN <<Unit[device.camera]>>
                        ELSE <<Unit[device.camera], device.name>>
-----------------------------------------------------------------------------
(* ::open of a node; FindCaptureDevice; the AVCaptureDevice itself. *)

(* Here num_devices counts all cameras, and only one without a path is      *)
(* compared with its index.                                                 *)
Find(name) ==
  LET Named(c) ==
        CASE name[1] = "node"  -> slot[name[2]] = c
          [] name[1] = "index" -> c \in Pathless /\ Cardinality(Before(c)) = name[2]
          [] OTHER             -> name[2] = c
  IN  IF \E c \in Present \ failing : Named(c)
        THEN CHOOSE c \in Present \ failing : Named(c) ELSE None
(* On Windows isDeviceAvailable compares device paths only, before it       *)
(* calls FindCaptureDevice.                                                 *)
IsAvailable(device) ==
  /\ Find(device.name) # None
  /\ device.name[1] # "index"

(* isDeviceConnected: the open node answers until its camera is removed;    *)
(* the path or index is looked up again; the object knows.                  *)
IsConnected ==
  CASE platform = "Linux"   -> stream.alive
    [] platform = "Windows" -> Find(stream.name) # None
    [] platform = "macOS"   -> stream.alive
-----------------------------------------------------------------------------
Closed == [name |-> None, camera |-> None, alive |-> FALSE]
IsOpen == stream # Closed

Init ==
  /\ platform \in Platforms
  /\ slot \in [Slots -> Cameras \cup {None}]
  /\ \A m, n \in Slots : m # n /\ slot[m] # None => slot[m] # slot[n]
  /\ failing \in SUBSET Cameras
  /\ m_devices = Enumerated
  /\ changed = Present \ Listed
  /\ stream = Closed

RefreshDevices ==
  /\ m_devices' = Enumerated
  /\ changed' = Present \ Listed
  /\ UNCHANGED <<platform, slot, failing, stream>>

OpenStream(device) ==
  /\ ~IsOpen
  /\ LET camera == Find(device.name)
     IN  /\ camera # None
         /\ stream' = [name |-> device.name, camera |-> camera, alive |-> TRUE]
  /\ UNCHANGED <<platform, slot, failing, m_devices, changed>>

CloseStream ==
  /\ IsOpen
  /\ stream' = Closed
  /\ UNCHANGED <<platform, slot, failing, m_devices, changed>>

(* External.  On Linux a camera gets the lowest node that is free, and one  *)
(* whose file is still open is not free.                                    *)
Free ==
  LET empty == {n \in Slots : slot[n] = None
                              /\ ~(platform = "Linux" /\ IsOpen /\ stream.name[2] = n)}
  IN  IF platform = "Linux"
        THEN {n \in empty : \A m \in empty : n <= m} ELSE empty

Plug(c) ==
  /\ c \notin Present
  /\ \E n \in Free : slot' = [slot EXCEPT ![n] = c]
  /\ changed' = changed \cup {c}
  /\ UNCHANGED <<platform, failing, m_devices, stream>>

Unplug(c) ==
  /\ c \in Present
  /\ slot' = [slot EXCEPT ![SlotOf(c)] = None]
  /\ stream' = IF stream.camera = c THEN [stream EXCEPT !.alive = FALSE] ELSE stream
  /\ changed' = changed \cup {c}
  /\ UNCHANGED <<platform, failing, m_devices>>

(* Another process takes or frees a camera. *)
Toggle(c) ==
  /\ failing' = IF c \in failing THEN failing \ {c} ELSE failing \cup {c}
  /\ UNCHANGED <<platform, slot, m_devices, stream, changed>>

Next ==
  \/ RefreshDevices \/ CloseStream
  \/ \E device \in m_devices : OpenStream(device)
  \/ \E c \in Cameras : Plug(c) \/ Unplug(c) \/ Toggle(c)

Spec == Init /\ [][Next]_vars
-----------------------------------------------------------------------------
(* openpnp-capture.h, Cap_refreshDevices: indices may change after it.  An  *)
(* index leads to another camera than the one listed under it only for a    *)
(* reason: a node number, if the listed camera was pulled out since then;   *)
(* the position of a Windows camera without a path, if some camera came or  *)
(* went or could not be bound for the list.  Failures and other programs    *)
(* alone never do it, and neither do paths and objects.                     *)
WrongCameraHasACause ==
  \A device \in m_devices :
    Find(device.name) \notin {device.camera, None} =>
      \/ device.name[1] = "node" /\ device.camera \in changed
      \/ device.name[1] = "index" /\ changed # {}
-----------------------------------------------------------------------------
(* Claims of the header that hold with exceptions.                          *)

(* openpnp-capture.h, Cap_refreshDevices: "device indices may change" after *)
(* it, so not before.                                                       *)
IndexKeepsItsCamera ==
  \A device \in m_devices : Find(device.name) \in {device.camera, None}

(* openpnp-capture.h, Cap_isDeviceStillConnected: CAPRESULT_OK only "if the *)
(* underlying device is still present".                                     *)
ConnectedMeansPresent == IsOpen /\ IsConnected => stream.camera \in Present

(* openpnp-capture.h, Cap_isDeviceAvailable: "a `definitely NOT available'  *)
(* filter".  A camera it rules out could not have been opened.              *)
RuledOutCannotOpen ==
  \A device \in m_devices : ~IsAvailable(device) => Find(device.name) = None

(* openpnp-capture.h, Cap_getDeviceUniqueID: the ID tells the cameras of    *)
(* the list apart.                                                          *)
UniqueIDsDiffer ==
  \A d, e \in m_devices : UniqueID(d) = UniqueID(e) => d = e
=============================================================================
