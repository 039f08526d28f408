---------------------------- MODULE DShowStream ----------------------------
(***************************************************************************)
(* win/platformstream.cpp: a capture stream on Windows, from open() to the *)
(* destructor.  The API thread builds a DirectShow filter graph, runs it,  *)
(* applies the wanted format a second time while it runs, and compares the *)
(* resolution it got with the one it asked for.  A DirectShow thread       *)
(* delivers samples to SampleCB from the moment the graph runs, also while *)
(* open() is still changing m_width and m_height without the mutex.        *)
(*                                                                         *)
(* A size stands for width * height * 3; 0 means no size.  DirectShow and  *)
(* the camera are external: they agree on a size when the pins connect,    *)
(* and IMediaControl::Stop returns only when no callback is running.       *)
(***************************************************************************)
EXTENDS Naturals

CONSTANTS
  Sizes,         \* the frame sizes the camera can be set to
  Requested      \* the one open() is called for

ASSUME DShowAssumption ==
  /\ Sizes \subseteq Nat \ {0}
  /\ Requested \in Sizes

VARIABLES
  api,            \* where the API thread is
  m_rawMode,
  held,           \* the interface pointers that hold a reference
  wild,           \* the pointers the constructor left uninitialised
  m_callbackHandler, \* "null", "alive" or "dangling"
  damaged,        \* a pointer that held no reference was released
  m_size,         \* m_width * m_height * 3
  m_frameBuffer,  \* its size
  m_isOpen,
  m_newFrame,
  stored,         \* the sizes the frame in m_frameBuffer was laid out for
  got,            \* and those of the frame a client, with a buffer of the
                  \* requested size, received last
  sample,         \* SampleCB: "none", "arrived", "copying"
  bytes,          \* the sample's length
  layout,         \* m_size when the copy began
  \* DirectShow
  running,
  connected,      \* size of the media type the pins agreed on
  plugged

pointers == <<held, wild, m_callbackHandler, damaged>>
members == <<m_rawMode, m_size, m_frameBuffer, m_isOpen>>
frames == <<m_newFrame, stored, got>>
callback == <<sample, bytes, layout>>
graph == <<running, connected, plugged>>
vars == <<api, pointers, members, frames, callback, graph>>

Init ==
  /\ api = "graph"
  /\ m_rawMode \in BOOLEAN
  /\ held = {}
  /\ wild = {"m_capture", "m_videoProcAmp"}
  /\ m_callbackHandler = "null"
  /\ damaged = FALSE
  /\ m_size = 0
  /\ m_frameBuffer = 0
  /\ m_isOpen = FALSE
  /\ m_newFrame = FALSE
  /\ stored = {}
  /\ got = {}
  /\ sample = "none"
  /\ bytes = 0
  /\ layout = 0
  /\ running = FALSE
  /\ connected = 0
  /\ plugged \in BOOLEAN
-----------------------------------------------------------------------------
(* open() builds the graph in stages; each may fail and then open() returns *)
(* false at once, with what it has acquired so far.                         *)

Acquires ==
  [graph    |-> {"m_graph"},
   builder  |-> {"m_capture"},
   control  |-> {"m_control"},
   source   |-> {"m_sourceFilter"},
   format   |-> {},
   controls |-> {"m_camControl", "m_videoProcAmp"},
   grabber  |-> {"m_sampleGrabberFilter", "m_sampleGrabber"},
   callback |-> {},
   renderer |-> {"m_nullRenderer"},
   render   |-> {}]

Stages == DOMAIN Acquires

After ==
  [graph |-> "builder", builder |-> "control", control |-> "source",
   source |-> "format", format |-> "controls", controls |-> "grabber",
   grabber |-> "callback", callback |-> "renderer", renderer |-> "render",
   render |-> "readback"]

(* The camera controls and the null renderer are optional. *)
Optional == {"controls", "renderer"}

Build(stage, acquired) ==
  /\ api = stage
  /\ stage \in {"source", "render"} => plugged
  /\ IF stage \in Optional
       THEN acquired \subseteq Acquires[stage]
       ELSE acquired = Acquires[stage]
  /\ api' = After[stage]
  /\ held' = held \cup acquired
  /\ wild' = wild \ Acquires[stage]
  /\ m_callbackHandler' =
       IF stage = "callback" THEN "alive" ELSE m_callbackHandler
  /\ IF stage = "render" THEN connected' \in Sizes ELSE UNCHANGED connected
  /\ UNCHANGED <<damaged, members, frames, callback, running, plugged>>

BuildFails(stage) ==
  /\ api = stage
  /\ stage # "controls"
  /\ api' = "failed"
  /\ wild' = wild \ Acquires[stage]
  /\ UNCHANGED <<held, m_callbackHandler, damaged, members, frames, callback,
                 graph>>

(* GetConnectedMediaType: m_width and m_height, and a frame buffer for them; *)
(* if it fails, open() goes on without them.                                *)
ReadBack ==
  /\ api = "readback"
  /\ api' = "run"
  /\ m_size' \in {connected, m_size}
  /\ m_frameBuffer' = m_size'
  /\ UNCHANGED <<pointers, m_rawMode, m_isOpen, frames, callback, graph>>

(* "At this boundary the camera driver may renegotiate the output format    *)
(* AGAIN", says the comment.                                                *)
Run ==
  /\ api = "run"
  /\ api' = "reapply"
  /\ running' = TRUE
  /\ connected' \in Sizes
  /\ UNCHANGED <<pointers, members, frames, callback, plugged>>

(* SetFormat and Reconnect on the running graph *)
Reapply ==
  /\ api = "reapply"
  /\ api' = "check"
  /\ connected' \in Sizes
  /\ UNCHANGED <<pointers, members, frames, callback, running, plugged>>
(* Mutant: any resolution is good enough. *)
FinalCheckLax ==
  /\ api = "check"
  /\ m_size' \in {connected, m_size}
  /\ api' = "matched"
  /\ UNCHANGED <<pointers, m_rawMode, m_frameBuffer, m_isOpen, frames,
                 callback, graph>>

(* The final format replaces m_width and m_height, not the frame buffer, and *)
(* not under the mutex; then the resolution must be the requested one.      *)
FinalCheck ==
  /\ api = "check"
  /\ m_size' \in {connected, m_size}
  /\ api' = IF m_size' = Requested THEN "matched" ELSE "mismatch"
  /\ UNCHANGED <<pointers, m_rawMode, m_frameBuffer, m_isOpen, frames,
                 callback, graph>>

Opened ==
  /\ api = "matched"
  /\ api' = "open"
  /\ m_isOpen' = TRUE
  /\ UNCHANGED <<pointers, m_rawMode, m_size, m_frameBuffer, frames, callback,
                 graph>>

(* setFrameRate on the open stream: SetFormat and Reconnect again, which    *)
(* may also leave the pins unconnected; m_width and m_height stay.          *)
SetFrameRate ==
  /\ api = "open"
  /\ connected' \in Sizes \cup {0}
  /\ UNCHANGED <<api, pointers, members, frames, callback, running, plugged>>
-----------------------------------------------------------------------------
(* close(), called by open() on a resolution mismatch and by the destructor: *)
(* Context deletes open streams when they are closed, and raw streams whose *)
(* open() failed.  Other streams that failed to open are not deleted.       *)
Closing == [mismatch |-> "refusing", open |-> "closing", failed |-> "closing",
            refused |-> "closing"]
(* Mutant: the graph is not stopped first. *)
CloseBeginRunning ==
  /\ api \in DOMAIN Closing
  /\ api \in {"failed", "refused"} => m_rawMode
  /\ api' = Closing[api]
  /\ UNCHANGED <<pointers, members, frames, callback, graph>>

CloseBegin ==
  /\ api \in DOMAIN Closing
  /\ api \in {"failed", "refused"} => m_rawMode
  /\ api' = Closing[api]
  /\ running' = FALSE
  /\ UNCHANGED <<pointers, members, frames, callback, connected, plugged>>

(* Stop, if it was called, has returned: no callback is running.  Every     *)
(* pointer is released and becomes null, except m_callbackHandler, which is *)
(* deleted and keeps its value.  What releasing an uninitialised pointer    *)
(* does depends on the garbage in it.                                       *)
CloseEnd ==
  /\ api \in {"refusing", "closing"}
  /\ running \/ sample = "none"
  /\ api' = IF api = "refusing" THEN "refused" ELSE "closed"
  /\ held' = {}
  /\ wild' = {}
  /\ damaged' \in IF damaged \/ m_callbackHandler = "dangling" THEN {TRUE}
                  ELSE IF wild = {} THEN {FALSE} ELSE BOOLEAN
  /\ m_callbackHandler' =
       IF m_callbackHandler = "null" THEN "null" ELSE "dangling"
  /\ m_size' = 0
  /\ m_frameBuffer' = 0
  /\ m_isOpen' = FALSE
  /\ connected' = 0
  /\ running' = FALSE
  /\ UNCHANGED <<m_rawMode, frames, callback, plugged>>
-----------------------------------------------------------------------------
(* The DirectShow thread: SampleCB *)

SampleArrives ==
  /\ running /\ plugged /\ connected # 0
  /\ sample = "none"
  /\ sample' = "arrived"
  /\ bytes' = connected
  /\ UNCHANGED <<api, pointers, members, frames, layout, graph>>

(* submitRawBuffer takes a sample of any length. *)
SubmitRawBuffer ==
  /\ sample = "arrived" /\ m_rawMode
  /\ sample' = "none"
  /\ m_newFrame' = TRUE
  /\ UNCHANGED <<api, pointers, members, stored, got, bytes, layout, graph>>
(* Mutant: a sample that does not fit is waited for instead of dropped. *)
SubmitBufferRetries ==
  /\ sample = "arrived" /\ ~m_rawMode
  /\ IF bytes <= m_frameBuffer
       THEN sample' = "copying" /\ layout' = m_size
       ELSE UNCHANGED <<sample, layout>>
  /\ UNCHANGED <<api, pointers, members, frames, bytes, graph>>

(* submitBuffer, with the mutex: a sample that fits is copied line by line, *)
(* m_width and m_height being read over and over; another one is dropped.   *)
SubmitBuffer ==
  /\ sample = "arrived" /\ ~m_rawMode
  /\ IF bytes <= m_frameBuffer
       THEN sample' = "copying" /\ layout' = m_size
       ELSE sample' = "none" /\ UNCHANGED layout
  /\ UNCHANGED <<api, pointers, members, frames, bytes, graph>>

(* The lines are laid out for the size at the beginning, at the end, or     *)
(* both.  What lines beyond the buffer overwrite is not followed up here.   *)
SubmitBufferEnds ==
  /\ sample = "copying"
  /\ sample' = "none"
  /\ stored' = {layout, m_size}
  /\ m_newFrame' = TRUE
  /\ UNCHANGED <<api, pointers, members, got, bytes, layout, graph>>

SampleCB == SubmitRawBuffer \/ SubmitBuffer \/ SubmitBufferEnds

(* captureFrame or captureFrameRaw by a client, which needs the mutex *)
CaptureFrame ==
  /\ api = "open" /\ sample # "copying"
  /\ m_newFrame' = FALSE
  /\ got' = stored
  /\ UNCHANGED <<api, pointers, members, stored, callback, graph>>

Unplug ==
  /\ plugged
  /\ plugged' = FALSE
  /\ UNCHANGED <<api, pointers, members, frames, callback, running, connected>>

(* The object is deleted, or leaked. *)
Gone ==
  /\ api = "closed" \/ (api \in {"failed", "refused"} /\ ~m_rawMode)
  /\ UNCHANGED vars

Next ==
  \/ \E stage \in Stages :
       \/ BuildFails(stage)
       \/ \E acquired \in SUBSET Acquires[stage] : Build(stage, acquired)
  \/ ReadBack \/ Run \/ Reapply \/ FinalCheck \/ Opened \/ SetFrameRate
  \/ CloseBegin \/ CloseEnd
  \/ SampleArrives \/ SampleCB
  \/ CaptureFrame \/ Unplug \/ Gone

Spec == Init /\ [][Next]_vars

(* A callback goes on, and so does a close() that was begun. *)
FairSpec == Spec /\ WF_vars(SampleCB) /\ WF_vars(CloseEnd)
-----------------------------------------------------------------------------
(* Type correctness. *)
TypeOK ==
  /\ api \in Stages \cup {"readback", "run", "reapply", "check", "matched",
       "mismatch", "open", "failed", "refusing", "refused", "closing", "closed"}
  /\ held \subseteq UNION {Acquires[stage] : stage \in Stages}
  /\ wild \subseteq {"m_capture", "m_videoProcAmp"}
  /\ m_callbackHandler \in {"null", "alive", "dangling"}
  /\ damaged \in BOOLEAN
  /\ {m_rawMode, m_isOpen, m_newFrame, running, plugged} \subseteq BOOLEAN
  /\ {m_size, m_frameBuffer, bytes, layout, connected} \subseteq Sizes \cup {0}
  /\ stored \cup got \subseteq Sizes \cup {0}
  /\ sample \in {"none", "arrived", "copying"}

(* What SampleCB uses outlives it: as long as a callback runs, the handler  *)
(* object it was called on exists, and the buffer it copies to has a size.  *)
CallbackHasItsObjects ==
  /\ sample # "none" => m_callbackHandler = "alive" /\ "m_sampleGrabber" \in held
  /\ sample = "copying" => m_frameBuffer > 0

(* The rows of a picture are as long as the client takes them to be: a      *)
(* frame that was stored while open() was changing m_width and m_height may *)
(* be laid out for another size, or for two; but once a client of the open  *)
(* stream has got a frame of the requested layout, it gets no other.        *)
LayoutSettles == [][got = {Requested} => got' = {Requested}]_vars

(* submitBuffer: "if (bytes <= m_frameBuffer.size())", and then it writes   *)
(* m_width * m_height * 3 bytes, which are to stay inside the buffer.       *)
WritesStayInside == sample = "copying" => m_size <= m_frameBuffer

(* win/platformstream.cpp, on the resolution check in open(): "We must      *)
(* refuse to open the stream rather than deliver unexpectedly-sized         *)
(* frames."                                                                 *)
DeliversRequestedSize == got \subseteq {Requested}

(* openpnp-capture.h, Cap_isOpenStream: "1 if the stream is open and        *)
(* capturing": the frames of an open stream fit its frame buffer.           *)
OpenStreamCanStore ==
  m_isOpen /\ ~m_rawMode => m_frameBuffer >= m_size

(* openpnp-capture.h, Cap_openStreamRaw: a stream that cannot be opened is  *)
(* answered with -1.  Cleaning up after it releases what was acquired, and  *)
(* nothing else.                                                            *)
ReleasesOnlyItsOwn == ~damaged

(* openpnp-capture.h, Cap_probeDevice: "open the device, wait for a frame,  *)
(* close it".  When the open failed, the device is not kept.                *)
FailedProbeKeepsNothing ==
  api = "failed" /\ ~m_rawMode => "m_sourceFilter" \notin held

(* close() always returns: SampleCB waits for nothing but the mutex. *)
CloseReturns == api = "closing" ~> api = "closed"

(* The stream as CaptureSource sees it: the camera is held by its filter.   *)
(* A second close() after the one in open() changes nothing it could see.   *)
phase ==
  IF api \in {"refused", "closed"} \/ m_callbackHandler = "dangling" THEN "closed"
  ELSE IF api \in {"refusing", "closing"} THEN "closing"
  ELSE IF api = "open" THEN "open" ELSE "opening"

Source == INSTANCE CaptureSource WITH
  phase <- phase,
  device <- IF "m_sourceFilter" \in held THEN "held" ELSE "free",
  fresh <- m_newFrame

(* The Windows stream keeps the promises of CaptureSource: no frame is      *)
(* stored once close() has returned, and close() frees the camera.          *)
ImplementsSource == Source!Spec
=============================================================================
