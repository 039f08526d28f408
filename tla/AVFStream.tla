----------------------------- MODULE AVFStream -----------------------------
(***************************************************************************)
(* mac/platformstream.mm: a capture stream on macOS, from open() to the    *)
(* destructor.  The API thread makes an AVCaptureSession, adds the device, *)
(* sets its format, starts the session and undoes all that; AVFoundation's *)
(* serial queue runs the delegate, which converts a frame and stores it in *)
(* the stream; another API call may refresh the device list, which owns    *)
(* the device object the stream points at.                                 *)
(*                                                                         *)
(* External: AVFoundation.  startRunning resets the device's format unless *)
(* the device is locked for configuration (the comment in open() says so), *)
(* stopRunning returns when no delegate call is running, and a session     *)
(* retains the devices of its inputs.                                      *)
(***************************************************************************)
EXTENDS Naturals

CONSTANT MaxFrames   \* bound on the frames stored (model checking only)

ASSUME AVFAssumption == MaxFrames \in Nat

VARIABLES
  api,            \* where the API thread is
  m_rawMode,
  m_isOpen,
  m_nativeSession, \* "none", "made" or "running"
  m_device,       \* the stream points at the device object
  m_sized,        \* m_width, m_height, m_frameBuffer and m_tmpBuffer are set
  m_captureDelegate,
  m_newFrame,
  m_frames,
  captured,       \* history: the frames stored in this stream's life
  delegate,       \* the queue: "idle", "called"
  \* the device object
  listed,         \* the context's device list retains it
  input,          \* the session retains it
  locked,         \* locked for configuration
  granted,        \* history: lockForConfiguration has succeeded
  activeFormat,   \* "default" or "requested"
  plugged

members == <<m_rawMode, m_isOpen, m_device, m_sized, m_captureDelegate>>
frames == <<m_newFrame, m_frames, captured>>
object == <<listed, input, locked, granted, activeFormat, plugged>>
vars == <<api, m_nativeSession, members, frames, delegate, object>>

Init ==
  /\ api = "session"
  /\ m_rawMode \in BOOLEAN
  /\ m_isOpen = FALSE
  /\ m_nativeSession = "none"
  /\ m_device = FALSE
  /\ m_sized = FALSE
  /\ m_captureDelegate = FALSE
  /\ m_newFrame = FALSE
  /\ m_frames = 0
  /\ captured = 0
  /\ delegate = "idle"
  /\ listed = TRUE
  /\ input = FALSE
  /\ locked = FALSE
  /\ granted = FALSE
  /\ activeFormat = "default"
  /\ plugged \in BOOLEAN
-----------------------------------------------------------------------------
(* open(), step by step; the steps that fail return false at once. *)

MakeSession ==
  /\ api = "session"
  /\ api' = "input"
  /\ m_device' = TRUE
  /\ m_nativeSession' = "made"
  /\ UNCHANGED <<m_rawMode, m_isOpen, m_sized, m_captureDelegate, frames,
                 delegate, object>>
(* Mutant: the input is not added to the session. *)
AddInputNowhere ==
  /\ api = "input" /\ plugged
  /\ api' = "format"
  /\ UNCHANGED <<m_nativeSession, members, frames, delegate, object>>

AddInput ==
  /\ api = "input" /\ plugged
  /\ api' = "format"
  /\ input' = TRUE
  /\ UNCHANGED <<m_nativeSession, members, frames, delegate, listed, locked,
                 granted, activeFormat, plugged>>

(* A format with the requested width, height and FOURCC was found.  The     *)
(* device is locked for it, or not: the result is not looked at ("FIXME:    *)
(* error checking..").  Without the lock the format may be refused.         *)
SetFormat ==
  /\ api = "format"
  /\ api' = "delegate"
  /\ locked' \in BOOLEAN
  /\ granted' = locked'
  /\ activeFormat' \in {"requested"} \cup (IF locked' THEN {} ELSE {activeFormat})
  /\ m_sized' = TRUE
  /\ UNCHANGED <<m_nativeSession, m_rawMode, m_isOpen, m_device,
                 m_captureDelegate, frames, delegate, listed, input, plugged>>
(* Mutant: the configuration is unlocked as soon as it was set. *)
SetDelegateUnlocks ==
  /\ api = "delegate"
  /\ api' = "start"
  /\ m_captureDelegate' = TRUE
  /\ locked' = FALSE
  /\ UNCHANGED <<m_nativeSession, m_rawMode, m_isOpen, m_device, m_sized,
                 frames, delegate, listed, input, granted, activeFormat,
                 plugged>>

SetDelegate ==
  /\ api = "delegate"
  /\ api' = "start"
  /\ m_captureDelegate' = TRUE
  /\ UNCHANGED <<m_nativeSession, m_rawMode, m_isOpen, m_device, m_sized,
                 frames, delegate, object>>

(* No input, no suitable format, no delegate *)
OpenFails ==
  /\ api \in {"input", "format", "delegate"}
  /\ api' = "failed"
  /\ UNCHANGED <<m_nativeSession, members, frames, delegate, object>>

StartRunning ==
  /\ api = "start"
  /\ api' = "unlock"
  /\ m_nativeSession' = "running"
  /\ activeFormat' = IF locked THEN activeFormat ELSE "default"
  /\ UNCHANGED <<members, frames, delegate, listed, input, locked, granted,
                 plugged>>

Unlock ==
  /\ api = "unlock"
  /\ api' = "opened"
  /\ locked' = FALSE
  /\ UNCHANGED <<m_nativeSession, members, frames, delegate, listed, input,
                 granted, activeFormat, plugged>>

(* m_isOpen is set, then the frame counter is reset. *)
Opened ==
  /\ api = "opened"
  /\ api' = "open"
  /\ m_isOpen' = TRUE
  /\ m_frames' = 0
  /\ UNCHANGED <<m_nativeSession, m_rawMode, m_device, m_sized,
                 m_captureDelegate, m_newFrame, captured, delegate, object>>
-----------------------------------------------------------------------------
(* close(), called by the destructor: of a stream a client closes, and of a *)
(* raw stream whose open() failed.                                          *)

(* stopRunning is called. *)
CloseBegin ==
  /\ api = "open" \/ (api = "failed" /\ m_rawMode)
  /\ api' = "closing"
  /\ m_nativeSession' =
       IF m_nativeSession = "running" THEN "made" ELSE m_nativeSession
  /\ UNCHANGED <<members, frames, delegate, object>>
(* Mutant: the session is released without having been stopped. *)
CloseEndUnstopped ==
  /\ api = "closing"
  /\ api' = "closed"
  /\ m_nativeSession' = "none"
  /\ input' = FALSE
  /\ m_isOpen' = FALSE
  /\ m_device' = FALSE
  /\ UNCHANGED <<m_rawMode, m_sized, m_captureDelegate, frames, delegate,
                 listed, locked, granted, activeFormat, plugged>>

(* stopRunning returns and the session is released. *)
CloseEnd ==
  /\ api = "closing"
  /\ delegate = "idle"
  /\ api' = "closed"
  /\ m_nativeSession' = "none"
  /\ input' = FALSE
  /\ m_isOpen' = FALSE
  /\ m_device' = FALSE
  /\ UNCHANGED <<m_rawMode, m_sized, m_captureDelegate, frames, delegate,
                 listed, locked, granted, activeFormat, plugged>>
-----------------------------------------------------------------------------
(* The delegate's queue. *)

SampleArrives ==
  /\ m_nativeSession = "running" /\ plugged
  /\ delegate = "idle"
  /\ captured < MaxFrames
  /\ delegate' = "called"
  /\ UNCHANGED <<api, m_nativeSession, members, frames, object>>

(* callback() and submitBuffer, or submitRawBuffer; a sample without data   *)
(* or an unlockable pixel buffer is dropped.                                *)
Callback(stored) ==
  /\ delegate = "called"
  /\ delegate' = "idle"
  /\ IF stored /\ (m_rawMode \/ m_sized)
       THEN /\ m_newFrame' = TRUE
            /\ m_frames' = m_frames + 1
            /\ captured' = captured + 1
       ELSE UNCHANGED frames
  /\ UNCHANGED <<api, m_nativeSession, members, object>>

(* captureFrame or captureFrameRaw by a client *)
CaptureFrame ==
  /\ api = "open"
  /\ m_newFrame' = FALSE
  /\ UNCHANGED <<api, m_nativeSession, members, m_frames, captured, delegate,
                 object>>

(* Cap_refreshDevices while the stream is open: the old list is deleted,    *)
(* and the new one has the device if it is still there.                     *)
RefreshDevices ==
  /\ api = "open"
  /\ listed' = plugged
  /\ UNCHANGED <<api, m_nativeSession, members, frames, delegate, input,
                 locked, granted, activeFormat, plugged>>

Unplug ==
  /\ plugged
  /\ plugged' = FALSE
  /\ UNCHANGED <<api, m_nativeSession, members, frames, delegate, listed,
                 input, locked, granted, activeFormat>>

(* The object is deleted, or leaked. *)
Gone ==
  /\ api = "closed" \/ (api = "failed" /\ ~m_rawMode)
  /\ UNCHANGED vars

Next ==
  \/ MakeSession \/ AddInput \/ SetFormat \/ SetDelegate \/ OpenFails
  \/ StartRunning \/ Unlock \/ Opened
  \/ CloseBegin \/ CloseEnd
  \/ SampleArrives \/ \E stored \in BOOLEAN : Callback(stored)
  \/ CaptureFrame \/ RefreshDevices \/ Unplug \/ Gone

Spec == Init /\ [][Next]_vars
-----------------------------------------------------------------------------
(* What a delegate call uses outlives it: the stream object the delegate    *)
(* points at, with its buffers.                                             *)
DelegateHasItsStream ==
  delegate = "called" => m_captureDelegate /\ m_sized /\ api # "closed"

(* openpnp-capture.h, Cap_refreshDevices: "Open streams are NOT affected -  *)
(* their underlying device handles remain valid."  The device object is     *)
(* retained by somebody as long as an open stream points at it, although    *)
(* the stream itself does not retain it.                                    *)
DeviceOutlivesStream == m_isOpen /\ m_device => listed \/ input

(* If the device could be locked for configuration, the session delivers    *)
(* the format open() was asked for: starting it did not override what was   *)
(* configured under the lock.                                               *)
LockedFormatIsKept ==
  m_nativeSession = "running" /\ granted => activeFormat = "requested"

(* openpnp-capture.h, Cap_openStream: "Open a capture stream to a device    *)
(* with specific format requirements".                                      *)
RunsRequestedFormat == m_nativeSession = "running" => activeFormat = "requested"

(* openpnp-capture.h, Cap_getStreamFrameCount: "returns the number of frames *)
(* captured during the lifetime of the stream".                             *)
CountsLifetime == m_isOpen => m_frames = captured

(* Type correctness. *)
TypeOK ==
  /\ api \in {"session", "input", "format", "delegate", "start", "unlock",
              "opened", "open", "failed", "closing", "closed"}
  /\ m_nativeSession \in {"none", "made", "running"}
  /\ {m_rawMode, m_isOpen, m_device, m_sized, m_captureDelegate, m_newFrame,
      listed, input, locked, granted, plugged} \subseteq BOOLEAN
  /\ {m_frames, captured} \subseteq 0..MaxFrames
  /\ delegate \in {"idle", "called"}
  /\ activeFormat \in {"default", "requested"}

(* The stream as CaptureSource sees it: the camera is held by the session.  *)
phase ==
  CASE api = "open"    -> "open"
    [] api = "closing" -> "closing"
    [] api = "closed"  -> "closed"
    [] api \notin {"open", "closing", "closed"} -> "opening"

Source == INSTANCE CaptureSource WITH
  phase <- phase,
  device <- IF m_nativeSession = "none" THEN "free" ELSE "held",
  fresh <- m_newFrame

(* The macOS stream keeps the promises of CaptureSource: no frame is stored *)
(* once close() has returned, and close() gives the camera back.            *)
ImplementsSource == Source!Spec
=============================================================================
