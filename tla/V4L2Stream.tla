----------------------------- MODULE V4L2Stream -----------------------------
(***************************************************************************)
(* linux/platformstream.cpp: a capture stream on Linux, from open() to     *)
(* close().  Three parties share it: the API thread, which opens and       *)
(* closes; the capture thread captureThreadFunctionAsync, which maps the   *)
(* driver's buffers, passes them back and forth and submits the frames;    *)
(* and the V4L2 driver (external), which fills queued buffers and may      *)
(* fail, stall or lose its device at any time.                             *)
(*                                                                         *)
(* Storing a frame in the Stream base class is one step here: module       *)
(* Stream shows that its mutex makes it look like one.  PlatformStream     *)
(* objects are opened once (Context makes a new one for each open call),   *)
(* so open() on an active stream does not occur.                           *)
(***************************************************************************)
EXTENDS Naturals, Sequences, FiniteSets

CONSTANTS
  NBuffers,    \* mmap buffers granted by the driver (the code asks for 8)
  Formats,     \* pixel formats the driver may choose
  CounterMod   \* m_frames counts modulo this (2^32 in the code)

ASSUME V4L2Assumption ==
  /\ NBuffers \in Nat \ {0, 1}
  /\ CounterMod \in Nat \ {0, 1}

Buffers == 1..NBuffers

VARIABLES
  \* the API thread and the members of Stream and PlatformStream
  api,            \* "new", "fd", "format", "parm", "open", "joining", "closed"
  m_isOpen,
  m_quitThread,
  m_helperThread, \* is there a thread object to join
  m_deviceHandle, \* "unset", "open" or "closed"
  m_fmt,          \* the pixel format agreed with the driver
  sized,          \* m_width and m_height are those of the format, not 0
  m_frameBuffer,  \* TRUE: it has m_width * m_height * 3 bytes, FALSE: none
  m_rawMode,
  m_newFrame,
  m_frames,
  \* the capture thread and its PlatformStreamHelper
  thread,         \* where the capture thread is
  m_buffers,      \* the helper's vector has been given its size
  mapped,         \* the buffers it has mapped
  held,           \* the buffer dequeued and not queued again, 0 if none
  \* the driver
  plugged,
  streaming,
  incoming,       \* queued buffers the driver will fill, in order
  outgoing        \* filled buffers the thread may dequeue, in order

members == <<m_isOpen, m_quitThread, m_helperThread, m_deviceHandle, m_fmt,
             sized, m_frameBuffer, m_rawMode>>
frames == <<m_newFrame, m_frames>>
helper == <<m_buffers, mapped, held>>
driver == <<plugged, streaming, incoming, outgoing>>
vars == <<api, members, frames, thread, helper, driver>>

Init ==
  /\ api = "new"
  /\ m_isOpen = FALSE
  /\ m_quitThread = FALSE
  /\ m_helperThread = FALSE
  /\ m_deviceHandle = "unset"
  /\ m_fmt = "none"
  /\ sized = FALSE
  /\ m_frameBuffer = FALSE
  /\ m_rawMode \in BOOLEAN
  /\ m_newFrame = FALSE
  /\ m_frames = 0
  /\ thread = "none"
  /\ m_buffers = FALSE
  /\ mapped = {}
  /\ held = 0
  /\ plugged \in BOOLEAN
  /\ streaming = FALSE
  /\ incoming = <<>>
  /\ outgoing = <<>>
-----------------------------------------------------------------------------
(* The API thread: open(), step by step.  Every step may fail, and then     *)
(* runs close() before it returns false.                                    *)

(* close() up to the join *)
CloseBegin ==
  /\ sized' = FALSE
  /\ m_isOpen' = FALSE
  /\ m_quitThread' = TRUE
  /\ api' = "joining"
  /\ UNCHANGED <<m_helperThread, m_deviceHandle, m_fmt, m_frameBuffer,
                 m_rawMode, frames, thread, helper, driver>>

OpenDevice ==
  /\ api = "new"
  /\ plugged
  /\ api' = "fd"
  /\ m_deviceHandle' = "open"
  /\ UNCHANGED <<m_isOpen, m_quitThread, m_helperThread, m_fmt, sized,
                 m_frameBuffer, m_rawMode, frames, thread, helper, driver>>

(* VIDIOC_S_FMT asks for a format; what VIDIOC_G_FMT then reports is the    *)
(* driver's choice.                                                         *)
Negotiate(format) ==
  /\ api = "fd"
  /\ plugged
  /\ api' = "format"
  /\ m_fmt' = format
  /\ sized' = TRUE
  /\ UNCHANGED <<m_isOpen, m_quitThread, m_helperThread, m_deviceHandle,
                 m_frameBuffer, m_rawMode, frames, thread, helper, driver>>

(* VIDIOC_S_PARM, then the frame buffer takes its size *)
SetFramePeriod ==
  /\ api = "format"
  /\ plugged
  /\ api' = "parm"
  /\ m_frameBuffer' = TRUE
  /\ m_isOpen' = TRUE
  /\ m_quitThread' = FALSE
  /\ UNCHANGED <<m_helperThread, m_deviceHandle, m_fmt, sized, m_rawMode,
                 frames, thread, helper, driver>>

(* The thread is started and open() returns true; the thread has not mapped *)
(* a buffer yet.                                                            *)
StartThread ==
  /\ api = "parm"
  /\ api' = "open"
  /\ m_helperThread' = TRUE
  /\ thread' = "request"
  /\ UNCHANGED <<m_isOpen, m_quitThread, m_deviceHandle, m_fmt, sized,
                 m_frameBuffer, m_rawMode, frames, helper, driver>>

OpenFails == api \in {"new", "fd", "format"} /\ CloseBegin

Close == api = "open" /\ CloseBegin
(* Mutant: close() does not join the thread. *)
CloseEndUnjoined ==
  /\ api = "joining"
  /\ api' = "closed"
  /\ m_helperThread' = FALSE
  /\ m_frameBuffer' = FALSE
  /\ m_deviceHandle' = "closed"
  /\ UNCHANGED <<m_isOpen, m_quitThread, m_fmt, sized, m_rawMode, frames,
                 thread, helper, driver>>

(* The join returns when the thread function has; a stream whose open()     *)
(* failed has no thread.                                                    *)
CloseEnd ==
  /\ api = "joining"
  /\ m_helperThread => thread = "done"
  /\ api' = "closed"
  /\ m_helperThread' = FALSE
  /\ m_frameBuffer' = FALSE
  /\ m_deviceHandle' = "closed"
  /\ UNCHANGED <<m_isOpen, m_quitThread, m_fmt, sized, m_rawMode, frames,
                 thread, helper, driver>>

(* captureFrame or captureFrameRaw by a client *)
CaptureFrame ==
  /\ m_isOpen /\ api = "open"
  /\ m_newFrame' = FALSE
  /\ UNCHANGED <<api, members, m_frames, thread, helper, driver>>
-----------------------------------------------------------------------------
(* The capture thread. *)

ThreadGoes(here, there) ==
  /\ thread = here
  /\ thread' = there
  /\ UNCHANGED <<api, members>>

(* Any ioctl of the setup may fail; the helper is then destroyed. *)
SetupFails ==
  /\ \E here \in {"request", "map", "queue", "streamon"} : ThreadGoes(here, "exit")
  /\ UNCHANGED <<frames, helper, driver>>
(* Mutant: the helper's vector keeps its size 0. *)
RequestBuffersUnsized ==
  /\ ThreadGoes("request", "map")
  /\ plugged
  /\ UNCHANGED <<frames, helper, driver>>

RequestBuffers ==
  /\ ThreadGoes("request", "map")
  /\ plugged
  /\ m_buffers' = TRUE
  /\ UNCHANGED <<frames, mapped, held, driver>>

MapBuffer ==
  /\ mapped # Buffers
  /\ ThreadGoes("map", "map")
  /\ mapped' = mapped \cup {Cardinality(mapped) + 1}
  /\ UNCHANGED <<frames, m_buffers, held, driver>>

AllMapped ==
  /\ mapped = Buffers
  /\ ThreadGoes("map", "queue")
  /\ UNCHANGED <<frames, helper, driver>>

QueueBuffer ==
  /\ Len(incoming) < NBuffers
  /\ plugged
  /\ ThreadGoes("queue", "queue")
  /\ incoming' = Append(incoming, Len(incoming) + 1)
  /\ UNCHANGED <<frames, helper, plugged, streaming, outgoing>>

AllQueued ==
  /\ Len(incoming) = NBuffers
  /\ ThreadGoes("queue", "streamon")
  /\ UNCHANGED <<frames, helper, driver>>

StreamOn ==
  /\ ThreadGoes("streamon", "loop")
  /\ plugged
  /\ streaming' = TRUE
  /\ UNCHANGED <<frames, helper, plugged, incoming, outgoing>>

(* while(!getThreadQuitState()) *)
TestQuit ==
  /\ ThreadGoes("loop", IF m_quitThread THEN "exit" ELSE "select")
  /\ UNCHANGED <<frames, helper, driver>>

(* select() is interrupted, fails or times out after 5 s, or reports the    *)
(* descriptor readable.                                                     *)
SelectInterrupted ==
  /\ ThreadGoes("select", "loop")
  /\ UNCHANGED <<frames, helper, driver>>

SelectGivesUp ==
  /\ outgoing = <<>> \/ ~plugged
  /\ ThreadGoes("select", "exit")
  /\ UNCHANGED <<frames, helper, driver>>

SelectReady ==
  /\ ThreadGoes("select", "dequeue")
  /\ UNCHANGED <<frames, helper, driver>>
(* Mutant: the buffer is queued again before the frame was submitted. *)
DequeueRequeued ==
  /\ ThreadGoes("dequeue", "submit")
  /\ plugged
  /\ outgoing # <<>>
  /\ held' = Head(outgoing)
  /\ outgoing' = Tail(outgoing)
  /\ incoming' = Append(incoming, Head(outgoing))
  /\ UNCHANGED <<frames, m_buffers, mapped, plugged, streaming>>

(* VIDIOC_DQBUF: EAGAIN goes round the loop, another error ends the thread. *)
Dequeue ==
  /\ ThreadGoes("dequeue", "submit")
  /\ plugged
  /\ outgoing # <<>>
  /\ held' = Head(outgoing)
  /\ outgoing' = Tail(outgoing)
  /\ UNCHANGED <<frames, m_buffers, mapped, plugged, streaming, incoming>>
(* Mutant: EAGAIN goes back to select without a look at the quit flag. *)
DequeueAgainInside ==
  /\ ThreadGoes("dequeue", "select")
  /\ plugged
  /\ outgoing = <<>>
  /\ UNCHANGED <<frames, helper, driver>>

DequeueAgain ==
  /\ ThreadGoes("dequeue", "loop")
  /\ plugged
  /\ outgoing = <<>>
  /\ UNCHANGED <<frames, helper, driver>>

DequeueFails ==
  /\ ThreadGoes("dequeue", "exit")
  /\ UNCHANGED <<frames, helper, driver>>

(* threadSubmitBuffer may or may not store the frame, by format: RGB3 if it *)
(* fits, MJPG on an RGB stream if it decodes to m_width x m_height, which   *)
(* it cannot once close() has zeroed them.  A format it does not know is    *)
(* never stored.                                                            *)
MayStore ==
  CASE m_fmt \in {"YUYV", "NV12", "YU12"} -> {TRUE}
    [] m_fmt = "RGB3"                     -> BOOLEAN
    [] m_fmt = "MJPG"                     ->
         IF m_rawMode THEN {TRUE} ELSE IF sized THEN BOOLEAN ELSE {FALSE}
    [] OTHER                              -> {FALSE}

ThreadSubmitBuffer(stored) ==
  /\ ThreadGoes("submit", "requeue")
  /\ stored \in MayStore
  /\ IF stored
       THEN /\ m_newFrame' = TRUE
            /\ m_frames' = (m_frames + 1) % CounterMod
       ELSE UNCHANGED frames
  /\ UNCHANGED <<helper, driver>>

Requeue ==
  /\ ThreadGoes("requeue", "loop")
  /\ plugged
  /\ incoming' = Append(incoming, held)
  /\ held' = 0
  /\ UNCHANGED <<frames, m_buffers, mapped, plugged, streaming, outgoing>>

RequeueFails ==
  /\ ThreadGoes("requeue", "exit")
  /\ UNCHANGED <<frames, helper, driver>>

(* The helper's destructor: if its vector is not empty, VIDIOC_STREAMOFF    *)
(* takes every buffer back from the driver, then all are unmapped.          *)
StreamOff ==
  /\ ThreadGoes("exit", "unmap")
  /\ IF m_buffers
       THEN streaming' = FALSE /\ incoming' = <<>> /\ outgoing' = <<>>
       ELSE UNCHANGED <<streaming, incoming, outgoing>>
  /\ UNCHANGED <<frames, helper, plugged>>

Unmap ==
  /\ ThreadGoes("unmap", "done")
  /\ mapped' = {}
  /\ m_buffers' = FALSE
  /\ held' = 0
  /\ UNCHANGED <<frames, driver>>

CaptureThread ==
  \/ SetupFails
  \/ RequestBuffers \/ MapBuffer \/ AllMapped \/ QueueBuffer \/ AllQueued
  \/ StreamOn
  \/ TestQuit
  \/ SelectInterrupted \/ SelectGivesUp \/ SelectReady
  \/ Dequeue \/ DequeueAgain \/ DequeueFails
  \/ \E stored \in BOOLEAN : ThreadSubmitBuffer(stored)
  \/ Requeue \/ RequeueFails
  \/ StreamOff \/ Unmap
-----------------------------------------------------------------------------
(* External: the driver and the device. *)

Fill ==
  /\ plugged /\ streaming
  /\ incoming # <<>>
  /\ outgoing' = Append(outgoing, Head(incoming))
  /\ incoming' = Tail(incoming)
  /\ UNCHANGED <<api, members, frames, thread, helper, plugged, streaming>>

Unplug ==
  /\ plugged
  /\ plugged' = FALSE
  /\ streaming' = FALSE
  /\ UNCHANGED <<api, members, frames, thread, helper, incoming, outgoing>>

(* close() has returned and the object is deleted. *)
Gone == api = "closed" /\ UNCHANGED vars

Next ==
  \/ OpenDevice \/ SetFramePeriod \/ StartThread \/ OpenFails
  \/ \E format \in Formats : Negotiate(format)
  \/ Close \/ CloseEnd \/ CaptureFrame
  \/ CaptureThread
  \/ Fill \/ Unplug
  \/ Gone

Spec == Init /\ [][Next]_vars

(* The capture thread keeps running (select returns within 5 s at most),    *)
(* and a close() that was begun goes on; the device owes nothing.           *)
FairSpec == Spec /\ WF_vars(CaptureThread) /\ WF_vars(CloseEnd)
-----------------------------------------------------------------------------
(* Type correctness. *)
TypeOK ==
  /\ api \in {"new", "fd", "format", "parm", "open", "joining", "closed"}
  /\ m_isOpen \in BOOLEAN
  /\ m_quitThread \in BOOLEAN
  /\ m_helperThread \in BOOLEAN
  /\ m_deviceHandle \in {"unset", "open", "closed"}
  /\ m_fmt \in Formats \cup {"none"}
  /\ sized \in BOOLEAN
  /\ m_frameBuffer \in BOOLEAN
  /\ m_rawMode \in BOOLEAN
  /\ m_newFrame \in BOOLEAN
  /\ m_frames \in 0..CounterMod - 1
  /\ thread \in {"none", "request", "map", "queue", "streamon", "loop",
                 "select", "dequeue", "submit", "requeue", "exit", "unmap",
                 "done"}
  /\ m_buffers \in BOOLEAN
  /\ mapped \in SUBSET Buffers
  /\ held \in 0..NBuffers
  /\ plugged \in BOOLEAN
  /\ streaming \in BOOLEAN
  /\ incoming \in Seq(Buffers)
  /\ outgoing \in Seq(Buffers)

Elements(s) == {s[i] : i \in DOMAIN s}

(* The thread and the driver never have a buffer at the same time: the      *)
(* memory the thread reads a frame from is not being filled with the next.  *)
BufferHasOneOwner ==
  /\ thread \in {"submit", "requeue"} =>
       held \in mapped /\ held \notin Elements(incoming) \cup Elements(outgoing)
  /\ Cardinality(Elements(incoming) \cup Elements(outgoing)) = Len(incoming) + Len(outgoing)

(* What the capture thread uses outlives it: the descriptor is open as long *)
(* as the thread runs, and the frame buffer has its size while a frame is   *)
(* written into it, close() or no close().                                  *)
ThreadHasItsResources ==
  thread \notin {"none", "done"} => m_deviceHandle = "open" /\ m_frameBuffer

(* However the capture thread ended (setup failure, unplugged device,       *)
(* timeout, close), the camera is stopped and no buffer stays mapped.       *)
DeadThreadHoldsNothing ==
  thread \in {"none", "done"} =>
    ~streaming /\ mapped = {} /\ incoming = <<>> /\ outgoing = <<>>

(* close() always returns: wherever the capture thread is and whatever the  *)
(* device does, the thread notices the quit flag or ends by an error.       *)
CloseReturns == api = "joining" ~> api = "closed"

(* The stream as CaptureSource sees it: the camera is held as long as its   *)
(* descriptor is open.                                                      *)
phase ==
  CASE api \in {"new", "fd", "format", "parm"} -> "opening"
    [] api = "open"                            -> "open"
    [] api = "joining"                         -> "closing"
    [] api = "closed"                          -> "closed"

Source == INSTANCE CaptureSource WITH
  phase <- phase,
  device <- IF m_deviceHandle = "open" THEN "held" ELSE "free",
  fresh <- m_newFrame

(* The Linux stream keeps the promises of CaptureSource: no frame is stored *)
(* once close() has returned, whatever the capture thread was doing, and    *)
(* close() frees the camera after a failed open() too.                      *)
ImplementsSource == Source!Spec

(* openpnp-capture.h, Cap_isOpenStream: "1 if the stream is open and        *)
(* capturing".  A stream reported open has a running capture thread.        *)
OpenMeansCapturing == api = "open" /\ m_isOpen => thread # "done"

(* openpnp-capture.h, Cap_openStreamRaw: on a raw stream "frames are stored *)
(* as compressed JPEG bytes, not decoded".                                  *)
RawFramesAreJpeg == m_rawMode /\ m_newFrame => m_fmt = "MJPG"
=============================================================================
