---------------------------- MODULE MCPlatforms ----------------------------
(***************************************************************************)
(* The four parts of the platform layer that one thread goes through       *)
(* without callbacks: the list of cameras (DeviceList), the search for a   *)
(* format (FormatSelection), the property calls (CameraControls) and the   *)
(* conversion of a frame (YuvConverters).  They share the platform and no  *)
(* other state, so each is explored by itself: in a behaviour one part     *)
(* moves, and the others are not there.                                    *)
(***************************************************************************)
EXTENDS Integers, Sequences, FiniteSets

CONSTANTS
  Platforms,
  Cameras, Unit, Pathless, Slots, None,                 \* DeviceList
  Kinds, Rates, Ranges, MaxCaps, Callers, CapsMayFail,  \* FormatSelection
  PropIDs, SignBit, Limits,                              \* CameraControls
  Widths, Heights, Levels                               \* YuvConverters

VARIABLES
  part,      \* the part that moves
  platform,
  slot, failing, m_devices, stream, changed,
  caller, caps, want, iFormat, selectedConfig, bestFpsDistance, obtained,
  deleted, applied, selection,
  propID, streamOpen, interfaces, limits, hasAuto, outside, value, mode, call,
  step, read, overwrote, touched, result, answer,
  format, width, height, y, u, v, bytes, row, col, rgb

listVars == <<slot, failing, m_devices, stream, changed>>
selectionVars == <<caller, caps, want, iFormat, selectedConfig, bestFpsDistance,
                   obtained, deleted, applied, selection>>
controlVars == <<propID, streamOpen, interfaces, limits, hasAuto, outside, value,
                 mode, call, step, read, overwrote, touched, result, answer>>
conversionVars == <<format, width, height, y, u, v, bytes, row, col, rgb>>
vars == <<part, platform, listVars, selectionVars, controlVars, conversionVars>>

List == INSTANCE DeviceList
Selection == INSTANCE FormatSelection WITH result <- selection
Controls == INSTANCE CameraControls
Conversion == INSTANCE YuvConverters

ASSUME PlatformsAssumption ==
  /\ List!DeviceListAssumption
  /\ Selection!SelectionAssumption
  /\ Controls!CameraControlsAssumption
  /\ Conversion!ConvertersAssumption

NoList ==
  /\ slot = 0 /\ failing = 0 /\ m_devices = 0 /\ stream = 0 /\ changed = 0
NoSelection ==
  /\ caller = 0 /\ caps = 0 /\ want = 0 /\ iFormat = 0 /\ selectedConfig = 0
  /\ bestFpsDistance = 0 /\ obtained = 0 /\ deleted = 0 /\ applied = 0
  /\ selection = 0
NoControls ==
  /\ propID = 0 /\ streamOpen = 0 /\ interfaces = 0 /\ limits = 0
  /\ hasAuto = 0 /\ outside = 0 /\ value = 0 /\ mode = 0 /\ call = 0
  /\ step = 0 /\ read = 0 /\ overwrote = 0 /\ touched = 0 /\ result = 0
  /\ answer = 0

NoConversion ==
  /\ format = 0 /\ width = 0 /\ height = 0 /\ y = 0 /\ u = 0 /\ v = 0
  /\ bytes = 0 /\ row = 0 /\ col = 0 /\ rgb = 0

Init ==
  \/ /\ part = "list"
     /\ List!Init /\ NoSelection /\ NoControls /\ NoConversion
  \/ /\ part = "selection" /\ platform = "Windows"
     /\ Selection!Init /\ NoList /\ NoControls /\ NoConversion
  \/ /\ part = "controls"
     /\ Controls!Init /\ NoList /\ NoSelection /\ NoConversion
  \/ /\ part = "conversion" /\ platform = "Linux"
     /\ Conversion!Init /\ NoList /\ NoSelection /\ NoControls

Next ==
  \/ /\ part = "list" /\ List!Next
     /\ UNCHANGED <<part, selectionVars, controlVars, conversionVars>>
  \/ /\ part = "selection" /\ Selection!Next
     /\ UNCHANGED <<part, platform, listVars, controlVars, conversionVars>>
  \/ /\ part = "controls" /\ Controls!Next
     /\ UNCHANGED <<part, listVars, selectionVars, conversionVars>>
  \/ /\ part = "conversion" /\ Conversion!Next
     /\ UNCHANGED <<part, platform, listVars, selectionVars, controlVars>>

Spec == Init /\ [][Next]_vars
-----------------------------------------------------------------------------
(* An index leads to another camera than the one listed under it only if    *)
(* cameras came or went or failed to be listed (enumerateDevices,           *)
(* FindCaptureDevice).                                                      *)
WrongCameraHasACause == part = "list" => List!WrongCameraHasACause

(* Each media type the search for a format obtains is deleted exactly once. *)
EachDeletedOnce == part = "selection" => Selection!EachDeletedOnce

(* The search for a format sets the capability closest to what is wanted.   *)
ClosestIsApplied == part = "selection" => Selection!ClosestIsApplied

(* A signed control is read as the camera has it (getProperty,              *)
(* getPropertyLimits, getAutoProperty).                                     *)
SignedControlsAreRead == part = "controls" => Controls!SignedControlsAreRead

(* Every pixel of a converted frame is made of its own samples.             *)
ConvertsEveryPixel == part = "conversion" => Conversion!ConvertsEveryPixel
-----------------------------------------------------------------------------
(* Every camera has one capture node. *)
MCEachOne == [c \in Cameras |-> c]

(* No range, a narrow one, and a wide one around the default rates. *)
MCRanges == {<<0, 0>>, <<12, 18>>, <<10, 60>>}

(* With three bits: signed limits, a part of them, and unsigned ones. *)
MCLimits == {<<-4, 3>>, <<0, 2>>, <<2, 6>>}
=============================================================================
