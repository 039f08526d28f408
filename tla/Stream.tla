------------------------------- MODULE Stream -------------------------------
(***************************************************************************)
(* common/stream.cpp: the platform-independent half of a capture stream.   *)
(* One capture thread submits frames; any number of API threads (Readers)  *)
(* poll, copy and decode them.  m_bufferMutex is the only synchronisation. *)
(*                                                                         *)
(* A memcpy is not atomic: it moves one chunk per step, so that two        *)
(* threads in the buffer at once would mix frames.  A chunk in memory is   *)
(* represented by the number of the frame it belongs to, 0 for the zeros   *)
(* of a new vector; the n-th frame stored is frame n, i.e. the value       *)
(* m_frames takes with it.  Sizes are counted in chunks.  A buffer is      *)
(* [mem, size, len]: its contents, the vector's size(), and the length of  *)
(* the newest frame in it (for m_rawBuffer, that is m_rawFrameSize).       *)
(*                                                                         *)
(* open() and close() belong to the platform classes (see V4L2Stream);     *)
(* here they are the steps that bracket a stream's life.                   *)
(***************************************************************************)
EXTENDS Naturals, Sequences

CONSTANTS
  Readers,       \* the API threads calling into this stream
  Capture,       \* the capture thread, as an owner of the mutex
  NoThread,      \* the mutex is free
  MaxLen,        \* chunks in the largest frame
  FrameLens,     \* sizes of the frames the device delivers
  CallerLens,    \* sizes of the buffers callers pass
  FrameBufferLen,\* m_width * m_height * 3
  RawEstimate,   \* initial size of m_rawBuffer (width * height * 3 / 4)
  MaxFrames      \* bound on the frames stored

ASSUME StreamAssumption ==
  /\ Capture \notin Readers /\ NoThread \notin Readers \cup {Capture}
  /\ MaxLen \in Nat /\ MaxFrames \in Nat /\ RawEstimate \in Nat
  /\ FrameLens \subseteq 1..MaxLen
  /\ CallerLens \subseteq Nat \ {0}
  /\ FrameBufferLen \in 1..MaxLen

VARIABLES
  phase,          \* "created", "open" (m_isOpen), "closing", "closed"
  m_rawMode,
  m_newFrame,
  m_frames,
  m_frameBuffer,  \* the RGB buffer; its len is history, not in the code
  m_rawBuffer,    \* the JPEG buffer
  m_bufferMutex,  \* the thread that holds the mutex, or NoThread
  submission,     \* the capture thread: [pc, len, pos]
  call,           \* call[r]: r's call in progress, [pc, op, size, pos, seen]
  ret,            \* ret[r]: what r's last call returned, [ok, bytes]
  got,            \* history: the chunks of the last buffer given to r
  taken           \* history: the newest frame captured by any caller

buffers == <<m_newFrame, m_frames, m_frameBuffer, m_rawBuffer>>
callers == <<call, ret, got, taken>>
vars == <<phase, m_rawMode, buffers, m_bufferMutex, submission, callers>>

m_isOpen == phase = "open"

MinOf(a, b) == IF a <= b THEN a ELSE b

IdleCall == [pc |-> "idle", op |-> "hasNewFrame", size |-> 0, pos |-> 1,
             seen |-> <<>>]
IdleSubmission == [pc |-> "idle", len |-> 0, pos |-> 1]
NewBuffer == [mem |-> [i \in 1..MaxLen |-> 0], size |-> 0, len |-> 0]

Init ==
  /\ phase = "created"
  /\ m_rawMode = FALSE
  /\ m_newFrame = FALSE
  /\ m_frames = 0
  /\ m_frameBuffer = NewBuffer
  /\ m_rawBuffer = NewBuffer
  /\ m_bufferMutex = NoThread
  /\ submission = IdleSubmission
  /\ call = [r \in Readers |-> IdleCall]
  /\ ret = [r \in Readers |-> [ok |-> FALSE, bytes |-> 0]]
  /\ got = [r \in Readers |-> <<>>]
  /\ taken = 0
-----------------------------------------------------------------------------
(* The stream's life. *)

(* Context::openStream or openStreamRaw: setRawMode, then a successful open *)
Open(raw) ==
  /\ phase = "created"
  /\ phase' = "open"
  /\ m_rawMode' = raw
  /\ m_rawBuffer' = [m_rawBuffer EXCEPT !.size = IF raw THEN RawEstimate ELSE 0]
  /\ m_frameBuffer' = [m_frameBuffer EXCEPT !.size = FrameBufferLen]
  /\ UNCHANGED <<m_newFrame, m_frames, m_bufferMutex, submission, callers>>

(* close() first clears m_isOpen and asks the capture thread to stop; calls *)
(* made while it waits for that thread are refused.                         *)
Close ==
  /\ phase = "open"
  /\ phase' = "closing"
  /\ UNCHANGED <<m_rawMode, buffers, m_bufferMutex, submission, callers>>

(* The capture thread has been joined: the frame buffer is emptied and the  *)
(* object deleted.  A caller must not be inside the stream at that point.   *)
Teardown ==
  /\ phase = "closing"
  /\ submission.pc = "idle"
  /\ \A r \in Readers : call[r].pc = "idle"
  /\ phase' = "closed"
  /\ m_frameBuffer' = [m_frameBuffer EXCEPT !.size = 0]
  /\ UNCHANGED <<m_rawMode, m_newFrame, m_frames, m_rawBuffer, m_bufferMutex,
                 submission, callers>>
-----------------------------------------------------------------------------
(* The capture thread: submitBuffer on an RGB stream, submitRawBuffer on a  *)
(* raw one.  It may be past its last look at the quit flag when close()     *)
(* begins, so it may still submit while the stream is closing.              *)

Submit(len) ==
  /\ phase \in {"open", "closing"}
  /\ submission.pc = "idle"
  /\ m_frames < MaxFrames
  /\ submission' = [pc |-> "lock", len |-> len, pos |-> 1]
  /\ UNCHANGED <<phase, m_rawMode, buffers, m_bufferMutex, callers>>

(* An RGB frame larger than the frame buffer is dropped. *)
SubmitBufferLock ==
  /\ ~m_rawMode
  /\ submission.pc = "lock"
  /\ m_bufferMutex = NoThread
  /\ m_bufferMutex' = Capture
  /\ submission' = [submission EXCEPT !.pc =
                      IF m_frameBuffer.size >= submission.len THEN "copy"
                                                              ELSE "drop"]
  /\ UNCHANGED <<phase, m_rawMode, buffers, callers>>
(* Mutant: a dropped frame is counted and announced. *)
SubmitBufferDropCounted ==
  /\ submission.pc = "drop"
  /\ m_bufferMutex' = NoThread
  /\ submission' = IdleSubmission
  /\ m_newFrame' = TRUE
  /\ m_frames' = m_frames + 1
  /\ UNCHANGED <<phase, m_rawMode, m_frameBuffer, m_rawBuffer, callers>>

SubmitBufferDrop ==
  /\ submission.pc = "drop"
  /\ m_bufferMutex' = NoThread
  /\ submission' = IdleSubmission
  /\ UNCHANGED <<phase, m_rawMode, buffers, callers>>

SubmitBufferCopy ==
  /\ ~m_rawMode
  /\ submission.pc = "copy"
  /\ submission.pos <= submission.len
  /\ m_frameBuffer' = [m_frameBuffer EXCEPT !.mem[submission.pos] = m_frames + 1]
  /\ submission' = [submission EXCEPT !.pos = submission.pos + 1]
  /\ UNCHANGED <<phase, m_rawMode, m_newFrame, m_frames, m_rawBuffer,
                 m_bufferMutex, callers>>

SubmitBufferDone ==
  /\ ~m_rawMode
  /\ submission.pc = "copy"
  /\ submission.pos > submission.len
  /\ m_frameBuffer' = [m_frameBuffer EXCEPT !.len = submission.len]
  /\ m_newFrame' = TRUE
  /\ m_frames' = m_frames + 1
  /\ m_bufferMutex' = NoThread
  /\ submission' = IdleSubmission
  /\ UNCHANGED <<phase, m_rawMode, m_rawBuffer, callers>>
(* Mutant: the buffer keeps its first size. *)
GrownNever(len) == m_rawBuffer.size

(* The size m_rawBuffer takes for a frame of len chunks: it grows to twice *)
(* the frame it cannot hold, and never shrinks.                            *)
Grown(len) == IF len > m_rawBuffer.size THEN 2 * len ELSE m_rawBuffer.size

SubmitRawLock ==
  /\ m_rawMode
  /\ submission.pc = "lock"
  /\ m_bufferMutex = NoThread
  /\ m_bufferMutex' = Capture
  /\ m_rawBuffer' = [m_rawBuffer EXCEPT !.size = Grown(submission.len)]
  /\ submission' = [submission EXCEPT !.pc = "copy"]
  /\ UNCHANGED <<phase, m_rawMode, m_newFrame, m_frames, m_frameBuffer, callers>>
(* Mutant: the copy does not stop at the end of the frame. *)
SubmitRawCopyUnbounded ==
  /\ m_rawMode
  /\ submission.pc = "copy"
  /\ m_rawBuffer' = [m_rawBuffer EXCEPT !.mem[submission.pos] = m_frames + 1]
  /\ submission' = [submission EXCEPT !.pos = submission.pos + 1]
  /\ UNCHANGED <<phase, m_rawMode, m_newFrame, m_frames, m_frameBuffer,
                 m_bufferMutex, callers>>

SubmitRawCopy ==
  /\ m_rawMode
  /\ submission.pc = "copy"
  /\ submission.pos <= submission.len
  /\ m_rawBuffer' = [m_rawBuffer EXCEPT !.mem[submission.pos] = m_frames + 1]
  /\ submission' = [submission EXCEPT !.pos = submission.pos + 1]
  /\ UNCHANGED <<phase, m_rawMode, m_newFrame, m_frames, m_frameBuffer,
                 m_bufferMutex, callers>>

SubmitRawDone ==
  /\ m_rawMode
  /\ submission.pc = "copy"
  /\ submission.pos > submission.len
  /\ m_rawBuffer' = [m_rawBuffer EXCEPT !.len = submission.len]
  /\ m_newFrame' = TRUE
  /\ m_frames' = m_frames + 1
  /\ m_bufferMutex' = NoThread
  /\ submission' = IdleSubmission
  /\ UNCHANGED <<phase, m_rawMode, m_frameBuffer, callers>>

CaptureThread ==
  \/ SubmitBufferLock \/ SubmitBufferDrop \/ SubmitBufferCopy
  \/ SubmitBufferDone
  \/ SubmitRawLock \/ SubmitRawCopy \/ SubmitRawDone
-----------------------------------------------------------------------------
(* The API threads.  A call looks at m_isOpen, m_rawMode and the caller's  *)
(* buffer before it takes the mutex: it is refused there, or enters.       *)

Begin(r, op, size, accepted) ==
  /\ phase \in {"open", "closing"}
  /\ call[r].pc = "idle"
  /\ IF accepted
       THEN /\ call' = [call EXCEPT ![r] = [pc |-> "lock", op |-> op,
                                    size |-> size, pos |-> 1, seen |-> <<>>]]
            /\ UNCHANGED ret
       ELSE /\ ret' = [ret EXCEPT ![r] = [ok |-> FALSE, bytes |-> 0]]
            /\ UNCHANGED call
  /\ UNCHANGED <<phase, m_rawMode, buffers, m_bufferMutex, submission, got, taken>>

HasNewFrame(r)           == Begin(r, "hasNewFrame", 0, TRUE)
CaptureFrame(r, size)    == Begin(r, "captureFrame", size, ~m_rawMode /\ m_isOpen)
CaptureFrameRaw(r, size) == Begin(r, "captureFrameRaw", size, m_isOpen /\ m_rawMode)
GetFrameSize(r)          == Begin(r, "getFrameSize", 0, m_rawMode)
DecodeFrame(r, size)     == Begin(r, "decodeFrame", size,
                               m_isOpen /\ m_rawMode /\ size >= FrameBufferLen)
(* Mutant: the call does not wait for the mutex. *)
AcquireUnlocked(r) ==
  /\ call[r].pc = "lock"
  /\ call' = [call EXCEPT ![r].pc = "locked"]
  /\ UNCHANGED <<phase, m_rawMode, buffers, m_bufferMutex, submission, ret, got,
                 taken>>

Acquire(r) ==
  /\ call[r].pc = "lock"
  /\ m_bufferMutex = NoThread
  /\ m_bufferMutex' = r
  /\ call' = [call EXCEPT ![r].pc = "locked"]
  /\ UNCHANGED <<phase, m_rawMode, buffers, submission, ret, got, taken>>

Holds(r, op) == call[r].pc = "locked" /\ call[r].op = op

(* Unlock and return.  Each path below that ends a call ends with this. *)
Return(r, ok, bytes) ==
  /\ m_bufferMutex' = NoThread
  /\ call' = [call EXCEPT ![r] = IdleCall]
  /\ ret' = [ret EXCEPT ![r] = [ok |-> ok, bytes |-> bytes]]
  /\ UNCHANGED <<phase, m_rawMode, m_frames, m_frameBuffer, m_rawBuffer,
                 submission>>

(* The call has handed the caller the chunks it saw. *)
Deliver(r) == got' = [got EXCEPT ![r] = call[r].seen]

HasNewFrameReturn(r) ==
  /\ Holds(r, "hasNewFrame")
  /\ Return(r, m_newFrame, 0)
  /\ UNCHANGED <<m_newFrame, got, taken>>

GetFrameSizeReturn(r) ==
  /\ Holds(r, "getFrameSize")
  /\ Return(r, m_rawBuffer.len > 0, m_rawBuffer.len)
  /\ UNCHANGED <<m_newFrame, got, taken>>

(* One chunk of a memcpy out of buf.  captureFrame copies by the size of    *)
(* the RGB buffer, whatever the length of the newest frame in it: behind a  *)
(* frame shorter than the buffer the caller gets what older ones left.      *)
Copy(r, buf, bound) ==
  /\ call[r].pos <= bound
  /\ call' = [call EXCEPT
                ![r].pos = call[r].pos + 1,
                ![r].seen = Append(call[r].seen, buf.mem[call[r].pos])]
  /\ UNCHANGED <<phase, m_rawMode, buffers, m_bufferMutex, submission, ret,
                 got, taken>>

CaptureFrameLen(r) == MinOf(call[r].size, m_frameBuffer.size)

CaptureFrameCopy(r) ==
  /\ Holds(r, "captureFrame")
  /\ Copy(r, m_frameBuffer, CaptureFrameLen(r))

CaptureFrameReturn(r) ==
  /\ Holds(r, "captureFrame")
  /\ call[r].pos > CaptureFrameLen(r)
  /\ Deliver(r)
  /\ taken' = m_frames
  /\ m_newFrame' = FALSE
  /\ Return(r, TRUE, 0)
(* Mutants: the refused frame counts as seen; an early return keeps the     *)
(* mutex.                                                                   *)
CaptureFrameRawTooSmallClears(r) ==
  /\ Holds(r, "captureFrameRaw")
  /\ call[r].size < m_rawBuffer.len
  /\ Return(r, FALSE, m_rawBuffer.len)
  /\ m_newFrame' = FALSE
  /\ UNCHANGED <<got, taken>>

CaptureFrameRawTooSmallLocked(r) ==
  /\ Holds(r, "captureFrameRaw")
  /\ call[r].size < m_rawBuffer.len
  /\ call' = [call EXCEPT ![r] = IdleCall]
  /\ ret' = [ret EXCEPT ![r] = [ok |-> FALSE, bytes |-> m_rawBuffer.len]]
  /\ UNCHANGED <<phase, m_rawMode, buffers, m_bufferMutex, submission, got, taken>>

(* The caller's buffer is too small: it learns the size it needs, and the   *)
(* frame stays marked as new.                                               *)
CaptureFrameRawTooSmall(r) ==
  /\ Holds(r, "captureFrameRaw")
  /\ call[r].size < m_rawBuffer.len
  /\ Return(r, FALSE, m_rawBuffer.len)
  /\ UNCHANGED <<m_newFrame, got, taken>>

CaptureFrameRawCopy(r) ==
  /\ Holds(r, "captureFrameRaw")
  /\ call[r].size >= m_rawBuffer.len
  /\ Copy(r, m_rawBuffer, m_rawBuffer.len)
(* Mutant: the captured frame stays marked as new. *)
CaptureFrameRawReturnStillNew(r) ==
  /\ Holds(r, "captureFrameRaw")
  /\ call[r].size >= m_rawBuffer.len
  /\ call[r].pos > m_rawBuffer.len
  /\ Deliver(r)
  /\ taken' = m_frames
  /\ Return(r, TRUE, m_rawBuffer.len)
  /\ UNCHANGED m_newFrame

CaptureFrameRawReturn(r) ==
  /\ Holds(r, "captureFrameRaw")
  /\ call[r].size >= m_rawBuffer.len
  /\ call[r].pos > m_rawBuffer.len
  /\ Deliver(r)
  /\ taken' = m_frames
  /\ m_newFrame' = FALSE
  /\ Return(r, TRUE, m_rawBuffer.len)

DecodeFrameNone(r) ==
  /\ Holds(r, "decodeFrame")
  /\ m_rawBuffer.len = 0
  /\ Return(r, FALSE, 0)
  /\ UNCHANGED <<m_newFrame, got, taken>>

DecodeFrameRead(r) ==
  /\ Holds(r, "decodeFrame")
  /\ Copy(r, m_rawBuffer, m_rawBuffer.len)

(* The decoder refuses a frame it cannot parse or of another resolution. *)
DecodeFrameReturn(r, ok) ==
  /\ Holds(r, "decodeFrame")
  /\ m_rawBuffer.len > 0
  /\ call[r].pos > m_rawBuffer.len
  /\ IF ok THEN Deliver(r) ELSE UNCHANGED got
  /\ Return(r, ok, 0)
  /\ UNCHANGED <<m_newFrame, taken>>

ApiCall(r) ==
  \/ HasNewFrame(r) \/ GetFrameSize(r)
  \/ \E size \in CallerLens :
       CaptureFrame(r, size) \/ CaptureFrameRaw(r, size) \/ DecodeFrame(r, size)

ApiStep(r) ==
  \/ Acquire(r)
  \/ HasNewFrameReturn(r) \/ GetFrameSizeReturn(r)
  \/ CaptureFrameCopy(r) \/ CaptureFrameReturn(r)
  \/ CaptureFrameRawTooSmall(r) \/ CaptureFrameRawCopy(r)
  \/ CaptureFrameRawReturn(r)
  \/ DecodeFrameNone(r) \/ DecodeFrameRead(r)
  \/ \E ok \in BOOLEAN : DecodeFrameReturn(r, ok)
-----------------------------------------------------------------------------
(* The object is gone; nothing happens to it any more. *)
Gone == phase = "closed" /\ UNCHANGED vars

Next ==
  \/ \E raw \in BOOLEAN : Open(raw)
  \/ Close \/ Teardown \/ Gone
  \/ \E len \in FrameLens : Submit(len)
  \/ CaptureThread
  \/ \E r \in Readers : ApiCall(r) \/ ApiStep(r)

Spec == Init /\ [][Next]_vars

(* Threads that hold or want the mutex keep running; nobody is obliged to   *)
(* make a call, deliver a frame or close the stream.                        *)
Fairness ==
  /\ WF_vars(CaptureThread)
  /\ \A r \in Readers : WF_vars(ApiStep(r))

FairSpec == Spec /\ Fairness
-----------------------------------------------------------------------------
Buffer == [mem : [1..MaxLen -> Nat], size : Nat, len : 0..MaxLen]
Submission == [pc : {"idle", "lock", "copy", "drop"}, len : 0..MaxLen,
               pos : 1..MaxLen + 1]
Ops == {"hasNewFrame", "captureFrame", "captureFrameRaw", "getFrameSize",
        "decodeFrame"}
Call == [pc : {"idle", "lock", "locked"}, op : Ops, size : Nat, pos : Nat \ {0},
         seen : Seq(Nat)]

(* Type correctness of the stream's state. *)
TypeOK ==
  /\ phase \in {"created", "open", "closing", "closed"}
  /\ m_rawMode \in BOOLEAN
  /\ m_newFrame \in BOOLEAN
  /\ m_frames \in Nat
  /\ m_frameBuffer \in Buffer /\ m_frameBuffer.size \in {0, FrameBufferLen}
  /\ m_rawBuffer \in Buffer
  /\ m_bufferMutex \in Readers \cup {Capture, NoThread}
  /\ submission \in Submission
  /\ call \in [Readers -> Call]
  /\ ret \in [Readers -> [ok : BOOLEAN, bytes : Nat]]
  /\ got \in [Readers -> Seq(Nat)]
  /\ taken \in Nat

(* What captureFrame, captureFrameRaw and decodeFrame hand out is in order, *)
(* although the capture thread overwrites the same memory all the time and  *)
(* both sides copy chunk by chunk: a raw frame is never a mixture of two,   *)
(* and in an RGB picture no chunk is followed by one of a newer frame, i.e. *)
(* older chunks appear only behind the end of a shorter frame.              *)
DeliveriesInLayers ==
  \A r \in Readers : \A i, j \in DOMAIN got[r] :
    i < j => /\ got[r][j] <= got[r][i]
             /\ got[r][j] < got[r][i] => ~m_rawMode

(* Every delivery is one frame.  It is so on a device whose RGB frames fill *)
(* the frame buffer (StreamProofs!FullFramesUnmixed); one shorter frame is  *)
(* enough to break it (StreamShort.cfg).                                    *)
OneFramePerDelivery ==
  \A r \in Readers : \A i, j \in DOMAIN got[r] : got[r][i] = got[r][j]

(* No memcpy runs past the vector it reads or writes: the frame being       *)
(* copied in fits the buffer it goes to (the raw buffer was grown first),   *)
(* and the frame length a caller copies by is within what is stored.        *)
CopiesStayInside ==
  /\ submission.pc = "copy" =>
       submission.len <= (IF m_rawMode THEN m_rawBuffer ELSE m_frameBuffer).size
  /\ m_rawBuffer.len <= m_rawBuffer.size
  /\ phase # "closed" => m_frameBuffer.len <= m_frameBuffer.size

(* hasNewFrame says exactly whether the newest frame is still uncaptured:   *)
(* no refused, too small or failed call loses a frame, and no frame that    *)
(* was captured is announced again.                                         *)
NewFrameFlagExact == m_newFrame <=> taken < m_frames

(* Whoever takes the mutex gives it back: every early return between lock   *)
(* and unlock has its unlock.                                               *)
MutexReleased ==
  \A t \in Readers \cup {Capture} : m_bufferMutex = t ~> m_bufferMutex # t

(* No place of a later delivery to the same caller shows an older frame     *)
(* than it showed before; and one that begins with the same frame shows the *)
(* same picture, behind that frame's end, too.                              *)
DeliveriesMoveForward ==
  [][\A r \in Readers : \A i \in DOMAIN got[r] \cap DOMAIN got'[r] :
       /\ got[r][i] <= got'[r][i]
       /\ got[r][1] = got'[r][1] => got[r][i] = got'[r][i]]_vars

(* The mutex makes the chunk-by-chunk copies look like one-step operations  *)
(* on a mailbox that holds the newest frame.  A frame is published when the *)
(* capture thread, in the mutex, begins to copy it.                         *)
Copying == submission.pc = "copy"

Newest == IF Copying THEN m_frames + 1 ELSE m_frames

PictureLen ==
  IF ~m_rawMode THEN FrameBufferLen
  ELSE IF Copying THEN submission.len ELSE m_rawBuffer.len

Picture ==
  [i \in 1..PictureLen |->
     IF Copying /\ i <= submission.len THEN Newest
     ELSE (IF m_rawMode THEN m_rawBuffer ELSE m_frameBuffer).mem[i]]

Mailbox == INSTANCE FrameMailbox WITH
  newest <- Newest, fresh <- m_newFrame \/ Copying, taken <- taken,
  raw <- m_rawMode, picture <- Picture, got <- got

ImplementsMailbox == Mailbox!Spec
=============================================================================
