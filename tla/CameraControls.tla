--------------------------- MODULE CameraControls ---------------------------
(***************************************************************************)
(* The property calls (Cap_getPropertyLimits, Cap_setProperty,             *)
(* Cap_getProperty, Cap_setAutoProperty, Cap_getAutoProperty) down to the  *)
(* camera: V4L2 controls (linux/platformstream.cpp), USB control requests  *)
(* of a fixed number of bytes (mac/uvcctrl.mm), and DirectShow interfaces  *)
(* that set a value and its flags together (win/platformstream.cpp), so    *)
(* that setting one takes a Get before the Set.  Between the two another   *)
(* application may change the control, and a camera in automatic mode      *)
(* changes the value itself.                                               *)
(*                                                                         *)
(* One stream, and the control behind one property ID; one client thread.  *)
(* A control of two bytes has a sign bit worth SignBit here.               *)
(***************************************************************************)
EXTENDS Integers, Sequences

CONSTANTS
  Platforms,   \* those to check
  PropIDs,     \* the IDs clients pass
  SignBit,     \* 2^15: the sign bit of a two-byte USB control
  Limits       \* <<lowest, highest>>: what cameras may allow

(* What a configuration has to satisfy. *)
CameraControlsAssumption ==
  /\ Platforms \subseteq {"Linux", "Windows", "macOS"}
  /\ PropIDs \subseteq Nat
  /\ SignBit \in Nat \ {0}
  /\ Limits \subseteq Int \X Int
  /\ \A range \in Limits : range[1] <= range[2]

(* openpnp-capture.h: CAPPROPID_EXPOSURE 1 to CAPPROPID_POWERLINEFREQ 13. *)
ApiControl ==
  <<"exposure", "focus", "zoom", "whitebalance", "gain", "brightness",
    "contrast", "saturation", "gamma", "hue", "sharpness", "backlightcomp",
    "powerlinefreq">>

CAPPROPID_LAST == 14

(* macOS: propertyInfo, whose order has to be that of the property IDs. *)
PropertyInfo ==
  <<"exposure", "focus", "zoom", "whitebalance", "gain", "brightness",
    "contrast", "saturation", "gamma", "hue", "sharpness", "backlightcomp",
    "powerlinefreq">>

(* Windows: gs_properties; the first three belong to IAMCameraControl, the  *)
(* others to IAMVideoProcAmp.  The array begins with a dummy for ID 0,      *)
(* which is DirectShow's number of a camera control all the same: pan.      *)
DSProperties ==
  <<"exposure", "focus", "zoom", "whitebalance", "gain", "brightness",
    "contrast", "saturation", "gamma", "hue", "sharpness", "backlightcomp",
    "powerlinefreq">>

DSControl(id) == IF id = 0 THEN "pan" ELSE DSProperties[id]

IsCameraControl(id) == id <= 3

(* Linux: the cases of the switch statements; gain has none. *)
V4L2Control(id) == IF id = 5 THEN "none" ELSE ApiControl[id]

AutoControls(platform) ==
  CASE platform = "Linux"   -> {"exposure", "focus", "whitebalance", "gain"}
    [] platform = "macOS"   -> {"exposure", "focus", "whitebalance"}
    [] platform = "Windows" -> {"exposure", "focus", "zoom", "whitebalance", "gain"}

VARIABLES
  platform,
  propID,
  streamOpen,   \* does the stream ID lead to a stream?
  interfaces,   \* which of m_camControl, m_videoProcAmp and m_uvc there are
  limits,       \* external: the camera's limits for the control
  hasAuto,      \* external: has it an automatic mode?
  outside,      \* external: is it used by another program, too?
  value, mode,  \* external: its state, the mode as the camera encodes it
  call,         \* the call under way: its name and argument
  step,         \* "call", "set" (between Get and Set), "over"
  read,         \* the value and mode that Get returned
  overwrote,    \* history: the value and mode just before the call's Set
  touched,      \* history: the control that was set
  result,       \* the CapResult
  answer        \* what a get call returned: value, mode or limits

camera == <<limits, hasAuto, value, mode>>
fixed == <<platform, propID, streamOpen, interfaces, outside>>
vars == <<fixed, camera, call, step, read, overwrote, touched, result, answer>>

(* Modes as the cameras encode them.  V4L2's exposure menu: auto 0, manual  *)
(* 1, two semi-automatic modes; UVC's: manual 1, three others; elsewhere    *)
(* off 0, on 1.  DirectShow's flags: automatic 1, manual 2.                 *)
Modes ==
  CASE platform = "Windows"                -> {1, 2}
    [] platform = "Linux" /\ propID = 1    -> 0..3
    [] platform = "macOS" /\ propID = 1    -> {1, 2, 4, 8}
    [] OTHER                               -> {0, 1}

Manual == IF platform = "Windows" THEN 2 ELSE IF propID = 1 THEN 1 ELSE 0

IsAutomatic(m) == m # Manual

(* What setAutoProperty sends: exposure has V4L2_EXPOSURE_APERTURE_PRIORITY *)
(* or V4L2_EXPOSURE_MANUAL, and 8 or 1 in a USB request.                    *)
EncodeAuto(enabled) ==
  CASE platform = "Windows"             -> IF enabled THEN 1 ELSE 2
    [] platform = "Linux" /\ propID = 1 -> IF enabled THEN 3 ELSE 1
    [] platform = "macOS" /\ propID = 1 -> IF enabled THEN 8 ELSE 1
    [] OTHER                            -> IF enabled THEN 1 ELSE 0

(* What getAutoProperty makes of it. *)
DecodeAuto(m) ==
  CASE platform = "Windows"             -> m = 1
    [] platform = "Linux" /\ propID = 1 -> m # 1
    [] platform = "macOS" /\ propID = 1 -> m # 1
    [] platform = "Linux" /\ propID # 1 -> m # 0
    [] OTHER                            -> m = 1

(* Mutant: the two bytes are widened as they are. *)
ZeroExtend(n) == n % (2 * SignBit)

(* The two bytes that come over the bus, and the cast to int16_t.           *)
SignExtend(n) ==
  LET raw == n % (2 * SignBit)
  IN  IF raw >= SignBit THEN raw - 2 * SignBit ELSE raw

Nothing == <<>>
Calls ==
  [name : {"setProperty"}, arg : UNION {l[1]..l[2] : l \in Limits}]
    \cup [name : {"setAutoProperty"}, arg : BOOLEAN]
    \cup [name : {"getProperty", "getAutoProperty", "getPropertyLimits"}, arg : {Nothing}]

Init ==
  /\ platform \in Platforms
  /\ propID \in PropIDs
  /\ streamOpen \in BOOLEAN
  /\ interfaces \in SUBSET {"m_camControl", "m_videoProcAmp", "m_uvc"}
  /\ limits \in Limits
  /\ hasAuto \in BOOLEAN
  /\ outside \in BOOLEAN
  /\ value \in limits[1]..limits[2]
  /\ mode \in IF hasAuto THEN Modes ELSE {Manual}
  /\ call \in Calls
  /\ step = "call"
  /\ read = Nothing /\ overwrote = Nothing
  /\ touched = "none"
  /\ result = "none"
  /\ answer = Nothing
-----------------------------------------------------------------------------
(* The control that the platform finds for the property, "none" if it       *)
(* refuses the ID or lacks the interface.  Windows asks for m_camControl    *)
(* first, whatever the property.  (macOS lets ID 0 pass too; the camera has *)
(* no such control.)                                                        *)
Control ==
  CASE platform = "Windows" ->
         IF /\ propID < CAPPROPID_LAST /\ "m_camControl" \in interfaces
            /\ IsCameraControl(propID) \/ "m_videoProcAmp" \in interfaces
           THEN DSControl(propID) ELSE "none"
    [] platform = "Linux" ->
         IF propID \in 1..CAPPROPID_LAST - 1 THEN V4L2Control(propID) ELSE "none"
    [] platform = "macOS" ->
         IF propID \in 1..CAPPROPID_LAST - 1 /\ "m_uvc" \in interfaces
           THEN PropertyInfo[propID] ELSE "none"

(* The automatic mode: on Linux gain has one although it has no value.      *)
AutoControl ==
  CASE platform = "Linux" /\ propID = 5     -> "gain"
    [] Control \in AutoControls(platform) -> Control
    [] OTHER                              -> "none"

Named == IF call.name \in {"setAutoProperty", "getAutoProperty"}
           THEN IF call.name = "getAutoProperty" /\ platform = "Windows"
                  THEN Control ELSE AutoControl
           ELSE Control

Return(r) == step' = "over" /\ result' = r

Refused == "PROPERTYNOTSUPPORTED"

(* An unknown stream, an unknown property and a request that the camera     *)
(* declines are all one to the caller.                                      *)
NoStream ==
  /\ step = "call" /\ ~streamOpen
  /\ Return(Refused)
  /\ UNCHANGED <<fixed, camera, call, read, overwrote, touched, answer>>

NoControl ==
  /\ step = "call" /\ streamOpen /\ Named = "none"
  /\ Return(Refused)
  /\ UNCHANGED <<fixed, camera, call, read, overwrote, touched, answer>>

(* The camera declines: it has not got the control, or it is locked.  Where *)
(* setAutoProperty begins with a Set on Windows, it does not notice.        *)
Unchecked ==
  platform = "Windows" /\ call.name = "setAutoProperty" /\ IsCameraControl(propID)

CameraDeclines ==
  /\ step = "call" /\ streamOpen /\ Named # "none"
  /\ ~Unchecked
  /\ Return(Refused)
  /\ UNCHANGED <<fixed, camera, call, read, overwrote, touched, answer>>

Accepted(name) == step = "call" /\ streamOpen /\ Named # "none" /\ call.name = name
-----------------------------------------------------------------------------
(* Reading. *)
FromCamera(n) == IF platform = "macOS" /\ propID # 1 THEN SignExtend(n) ELSE n

GetProperty ==
  /\ Accepted("getProperty")
  /\ answer' = <<FromCamera(value)>>
  /\ Return("OK")
  /\ UNCHANGED <<fixed, camera, call, read, overwrote, touched>>

GetPropertyLimits ==
  /\ Accepted("getPropertyLimits")
  /\ answer' = <<FromCamera(limits[1]), FromCamera(limits[2])>>
  /\ Return("OK")
  /\ UNCHANGED <<fixed, camera, call, read, overwrote, touched>>

GetAutoProperty ==
  /\ Accepted("getAutoProperty")
  /\ hasAuto \/ platform = "Windows"
  /\ answer' = <<DecodeAuto(mode)>>
  /\ Return("OK")
  /\ UNCHANGED <<fixed, camera, call, read, overwrote, touched>>
-----------------------------------------------------------------------------
(* Writing. *)

ToCamera(v, m) ==
  /\ value' = v /\ mode' = m
  /\ overwrote' = <<value, mode>>
  /\ touched' = Named
  /\ UNCHANGED <<limits, hasAuto>>

(* VIDIOC_S_CTRL and SET_CUR change the value alone. *)
SetProperty ==
  /\ Accepted("setProperty") /\ platform # "Windows"
  /\ call.arg \in limits[1]..limits[2]
  /\ ToCamera(call.arg, mode)
  /\ Return("OK")
  /\ UNCHANGED <<fixed, call, read, answer>>

SetAutoProperty ==
  /\ Accepted("setAutoProperty") /\ platform # "Windows"
  /\ hasAuto
  /\ ToCamera(value, EncodeAuto(call.arg))
  /\ Return("OK")
  /\ UNCHANGED <<fixed, call, read, answer>>

(* Windows: Get first, to retain the other half. *)
DSGet ==
  /\ call.name \in {"setProperty", "setAutoProperty"}
  /\ Accepted(call.name) /\ platform = "Windows" /\ ~Unchecked
  /\ read' = <<value, mode>>
  /\ step' = "set"
  /\ UNCHANGED <<fixed, camera, call, overwrote, touched, result, answer>>

DSSet ==
  /\ step = "set" /\ call.name = "setProperty"
  /\ IF call.arg \in limits[1]..limits[2]
       THEN ToCamera(call.arg, read[2]) /\ Return("OK")
       ELSE Return(Refused) /\ UNCHANGED <<camera, overwrote, touched>>
  /\ UNCHANGED <<fixed, call, read, answer>>

(* The result of Set is not looked at.                                      *)
DSSetAuto ==
  /\ step = "set" /\ call.name = "setAutoProperty"
  /\ \/ hasAuto /\ ToCamera(read[1], EncodeAuto(call.arg))
     \/ UNCHANGED <<camera, overwrote, touched>>
  /\ Return("OK")
  /\ UNCHANGED <<fixed, call, read, answer>>

(* Nor here: a camera control is set by 0 relative to what it is.           *)
DSSetAutoRelative ==
  /\ Accepted("setAutoProperty") /\ Unchecked
  /\ \/ hasAuto /\ ToCamera(value, EncodeAuto(call.arg))
     \/ UNCHANGED <<camera, overwrote, touched>>
  /\ Return("OK")
  /\ UNCHANGED <<fixed, call, read, answer>>
-----------------------------------------------------------------------------
(* External: the camera adjusts itself, or another program sets it. *)
Adjust ==
  /\ step # "over"
  /\ IsAutomatic(mode) /\ value' \in limits[1]..limits[2]
  /\ UNCHANGED <<fixed, limits, hasAuto, mode, call, step, read, overwrote,
                 touched, result, answer>>

OtherProgram ==
  /\ outside /\ step # "over"
  /\ hasAuto /\ mode' \in Modes
  /\ UNCHANGED <<fixed, limits, hasAuto, value, call, step, read, overwrote,
                 touched, result, answer>>

Over == step = "over" /\ UNCHANGED vars

Next ==
  \/ NoStream \/ NoControl \/ CameraDeclines
  \/ GetProperty \/ GetPropertyLimits \/ GetAutoProperty
  \/ SetProperty \/ SetAutoProperty \/ DSGet \/ DSSet \/ DSSetAuto
  \/ DSSetAutoRelative
  \/ Adjust \/ OtherProgram \/ Over

Spec == Init /\ [][Next]_vars
-----------------------------------------------------------------------------
IsOk(name) == step = "over" /\ call.name = name /\ result = "OK"

(* A property that is read has the value the camera has, negative or not;   *)
(* the limits are the camera's; and it is called automatic if and only if   *)
(* the camera is in none of its manual modes.  It is claimed for controls   *)
(* whose limits fit a signed number: the limits and values of an unsigned   *)
(* one that needs the top bit come out negative on macOS.                   *)
ReadsWhatCameraHas ==
  /\ IsOk("getProperty") => answer = <<value>>
  /\ IsOk("getPropertyLimits") => answer = limits
  /\ IsOk("getAutoProperty") => answer = <<IsAutomatic(mode)>>

SignedControlsAreRead ==
  -SignBit <= limits[1] /\ limits[2] < SignBit => ReadsWhatCameraHas

-----------------------------------------------------------------------------
(* Claims of the header and of comments that hold with exceptions.          *)

(* The tables of three platforms are kept in the order of the property IDs  *)
(* by hand.  What is set is the control that the header names (on Windows,  *)
(* ID 0 is pan).                                                            *)
SetsTheControlNamed ==
  touched # "none" =>
    propID \in DOMAIN ApiControl /\ touched = ApiControl[propID]

(* win/platformstream.cpp: "first we get the property so we can retain the  *)
(* flag settings".  What is written back was read a step earlier.           *)
SetRetainsMode == IsOk("setProperty") => mode = overwrote[2]

(* win/platformstream.cpp: "so we can just set the auto flag but leave the  *)
(* actualy setting itself intact".                                          *)
SetAutoRetainsValue ==
  IsOk("setAutoProperty") /\ overwrote # Nothing => value = overwrote[1]

(* openpnp-capture.h, Cap_setAutoProperty: CAPRESULT_OK if all is well,     *)
(* CAPRESULT_PROPERTYNOTSUPPORTED if the property is not available.         *)
AutoIsSet == IsOk("setAutoProperty") => IsAutomatic(mode) = call.arg

(* openpnp-capture.h, all five calls: "CAPRESULT_ERR if context, stream are *)
(* invalid".                                                                *)
InvalidStreamIsErr == step = "over" /\ ~streamOpen => result = "ERR"
=============================================================================
