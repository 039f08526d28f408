---------------------------- MODULE StreamProofs ----------------------------
(***************************************************************************)
(* Proofs about module Stream, for any number of callers, frame sizes and  *)
(* buffer sizes.  The argument: the mutex keeps the capture thread and the *)
(* callers out of each other's copies (MutexInv), so outside a submission  *)
(* the mode's buffer begins with the newest frame, whole (ContentInv), and *)
(* what lies behind it is ever older (LayersInv); what a caller that holds *)
(* the mutex has copied is a prefix of that (CallInv), and so is what it   *)
(* was handed (GotInv).  The last part adds the client loop of module      *)
(* RawCaptureLoop, run by one of the callers.                              *)
(***************************************************************************)
EXTENDS RawCaptureLoop, SequenceTheorems, TLAPS

(* The mutex has the owner its critical sections say. *)
MutexInv ==
  /\ submission.pc \in {"copy", "drop"} <=> m_bufferMutex = Capture
  /\ \A r \in Readers : call[r].pc = "locked" <=> m_bufferMutex = r

(* The buffer the stream's mode uses, and the other one. *)
ModeBuffer == IF m_rawMode THEN m_rawBuffer ELSE m_frameBuffer
OtherBuffer == IF m_rawMode THEN m_frameBuffer ELSE m_rawBuffer

(* Outside a copy the mode's buffer holds the newest frame, whole; during   *)
(* one, what was copied is the frame to come.                               *)
ContentInv ==
  /\ phase = "created" => m_frames = 0 /\ submission.pc = "idle" /\ m_rawMode = FALSE
  /\ phase \in {"open", "closing"} => m_frameBuffer.size = FrameBufferLen
  /\ OtherBuffer.len = 0
  /\ ModeBuffer.len = 0 <=> m_frames = 0
  /\ submission.pc # "idle" => /\ phase \in {"open", "closing"}
                               /\ submission.len \in FrameLens
                               /\ submission.pos <= submission.len + 1
                               /\ m_frames < MaxFrames
  /\ submission.pc = "lock" => submission.pos = 1
  /\ submission.pc = "drop" => ~m_rawMode
  /\ submission.pc = "copy" =>
       \A i \in 1..submission.pos - 1 : ModeBuffer.mem[i] = m_frames + 1
  /\ submission.pc # "copy" =>
       \A i \in 1..ModeBuffer.len : ModeBuffer.mem[i] = m_frames
  /\ m_frames <= MaxFrames

(* No buffer has a chunk in front of a newer one, and none is newer than    *)
(* the frame stored last or being stored.                                   *)
LayersInv ==
  \A b \in {m_frameBuffer, m_rawBuffer} : \A i \in 1..MaxLen :
    /\ b.mem[i] <= Newest
    /\ \A j \in i..MaxLen : b.mem[j] <= b.mem[i]

(* How many chunks the call's memcpy moves. *)
CopyBound(r) == IF call[r].op = "captureFrame" THEN CaptureFrameLen(r)
                                              ELSE m_rawBuffer.len

(* The first n chunks of a buffer. *)
Chunks(b, n) == [i \in 1..n |-> b.mem[i]]

(* What a call in progress has copied is the beginning of the buffer. *)
CallOK(r) ==
  /\ call[r].pc # "idle" => phase \in {"open", "closing"}
  /\ call[r].pc # "idle" /\ call[r].op = "captureFrame" =>
       ~m_rawMode /\ call[r].size > 0
  /\ call[r].pc # "idle" /\ call[r].op \in {"captureFrameRaw", "decodeFrame"} =>
       m_rawMode
  /\ call[r].pc = "lock" => call[r].pos = 1 /\ call[r].seen = <<>>
  /\ call[r].pc = "locked" =>
       /\ call[r].pos <= CopyBound(r) + 1
       /\ call[r].seen = Chunks(ModeBuffer, call[r].pos - 1)

CallInv == \A r \in Readers : CallOK(r)

(* No frame is taken before it is stored. *)
TakenInv == taken <= m_frames

(* A delivery was the beginning of the buffer, which has grown newer since: *)
(* where it begins with another frame now, or else not at all.              *)
GotOK(r) ==
  /\ Len(got[r]) <= MaxLen
  /\ \A i \in 1..Len(got[r]) : got[r][i] <= ModeBuffer.mem[i] /\ got[r][i] <= m_frames
  /\ Len(got[r]) > 0 /\ got[r][1] = ModeBuffer.mem[1] =>
       \A i \in 1..Len(got[r]) : got[r][i] = ModeBuffer.mem[i]

GotInv ==
  /\ phase = "created" => \A r \in Readers : got[r] = <<>>
  /\ \A r \in Readers : GotOK(r)
  /\ DeliveriesInLayers

IInv ==
  /\ TypeOK
  /\ MutexInv
  /\ ContentInv
  /\ LayersInv
  /\ CallInv
  /\ CopiesStayInside
  /\ NewFrameFlagExact
  /\ TakenInv
  /\ GotInv
-----------------------------------------------------------------------------
(* Types. *)

USE StreamAssumption DEF StreamAssumption

Answer == [ok : BOOLEAN, bytes : Nat]

(* A buffer, a submission or a call keeps its type when one field changes. *)
LEMMA BufferLen ==
  ASSUME NEW b \in Buffer, NEW n \in 0..MaxLen
  PROVE  [b EXCEPT !.len = n] \in Buffer
  BY DEF Buffer

LEMMA BufferSize ==
  ASSUME NEW b \in Buffer, NEW n \in Nat
  PROVE  [b EXCEPT !.size = n] \in Buffer
  BY DEF Buffer

LEMMA BufferMem ==
  ASSUME NEW b \in Buffer, NEW i \in Nat, NEW n \in Nat
  PROVE  [b EXCEPT !.mem[i] = n] \in Buffer
  BY DEF Buffer

LEMMA CallMoves ==
  ASSUME NEW d \in Call, NEW S \in Seq(Nat)
  PROVE  [d EXCEPT !.pos = d.pos + 1, !.seen = S] \in Call
  <1> DEFINE T == Seq(Nat)
  <1>0. Call = [pc : {"idle", "lock", "locked"}, op : Ops, size : Nat,
                pos : Nat \ {0}, seen : T]
    BY DEF Call
  <1>1. S \in T
    OBVIOUS
  <1> HIDE DEF T
  <1>2. [d EXCEPT !.pos = d.pos + 1] \in Call
    BY <1>0
  <1>3. \A e \in Call : [e EXCEPT !.seen = S] \in Call
    BY <1>0, <1>1
  <1>4. [d EXCEPT !.pos = d.pos + 1, !.seen = S]
          = [[d EXCEPT !.pos = d.pos + 1] EXCEPT !.seen = S]
    BY <1>0
  <1>5. QED
    BY <1>2, <1>3, <1>4

LEMMA CallLocks ==
  ASSUME NEW d \in Call
  PROVE  [d EXCEPT !.pc = "locked"] \in Call
  BY DEF Call

LEMMA InitialValues ==
  /\ NewBuffer \in Buffer
  /\ IdleSubmission \in Submission
  /\ IdleCall \in Call
  /\ [ok |-> FALSE, bytes |-> 0] \in Answer
  <1>1. NewBuffer \in Buffer
    BY DEF NewBuffer, Buffer
  <1>2. IdleSubmission \in Submission
    BY DEF IdleSubmission, Submission
  <1>3. IdleCall \in Call
    BY DEF IdleCall, Call, Ops
  <1>4. [ok |-> FALSE, bytes |-> 0] \in Answer
    BY DEF Answer
  <1>5. QED
    BY <1>1, <1>2, <1>3, <1>4

LEMMA InitTypeOK == Init => TypeOK
  <1> SUFFICES ASSUME Init PROVE TypeOK
    OBVIOUS
  <1>1. ret \in [Readers -> Answer]
    BY InitialValues DEF Init
  <1>2. call \in [Readers -> Call]
    BY InitialValues DEF Init
  <1>3. got \in [Readers -> Seq(Nat)]
    BY DEF Init
  <1>4. QED
    BY <1>1, <1>2, <1>3, InitialValues DEF Init, NewBuffer, TypeOK, Answer

(* A chunk read out of a buffer is a frame number. *)
LEMMA CopyTypeOK ==
  ASSUME TypeOK, NEW r \in Readers, NEW buf \in Buffer,
         NEW bound \in 0..MaxLen, Copy(r, buf, bound)
  PROVE  TypeOK'
  <1> DEFINE S == Append(call[r].seen, buf.mem[call[r].pos])
  <1>1. call \in [Readers -> Call] /\ call[r] \in Call
    BY DEF TypeOK
  <1>2. S \in Seq(Nat)
    <2>1. call[r].pos \in 1..MaxLen /\ call[r].seen \in Seq(Nat)
      BY <1>1 DEF Call, Copy
    <2>2. buf.mem[call[r].pos] \in Nat
      BY <2>1 DEF Buffer
    <2>3. QED
      BY <2>1, <2>2
  <1>3. call' = [call EXCEPT ![r].pos = call[r].pos + 1, ![r].seen = S]
    BY DEF Copy
  <1> HIDE DEF S
  <1>4. call' = [call EXCEPT ![r] = [call[r] EXCEPT !.pos = call[r].pos + 1, !.seen = S]]
    BY <1>3
  <1>5. call' \in [Readers -> Call]
    BY <1>1, <1>2, <1>4, CallMoves
  <1>6. QED
    BY <1>5 DEF Copy, TypeOK, buffers

LEMMA ReturnTypeOK ==
  ASSUME TypeOK, NEW r \in Readers, NEW ok \in BOOLEAN, NEW n \in Nat,
         Return(r, ok, n), m_newFrame' \in BOOLEAN,
         got' \in [Readers -> Seq(Nat)], taken' \in Nat
  PROVE  TypeOK'
  <1>1. call' \in [Readers -> Call]
    BY InitialValues DEF Return, TypeOK
  <1>2. [ok |-> ok, bytes |-> n] \in Answer
    BY DEF Answer
  <1>3. ret' \in [Readers -> Answer]
    BY <1>2 DEF Return, TypeOK, Answer
  <1>4. QED
    BY <1>1, <1>3 DEF Return, TypeOK, Answer

LEMMA DeliverType ==
  ASSUME TypeOK, NEW r \in Readers, Deliver(r)
  PROVE  got' \in [Readers -> Seq(Nat)]
  <1>1. call[r].seen \in Seq(Nat)
    BY DEF TypeOK, Call
  <1>2. QED
    BY <1>1 DEF Deliver, TypeOK

(* Each entry point of the API is a Begin of its operation. *)
LEMMA ApiCallBegins ==
  ASSUME TypeOK, NEW r \in Readers, ApiCall(r)
  PROVE  \E op \in Ops, size \in Nat, a \in BOOLEAN :
           /\ Begin(r, op, size, a)
           /\ a /\ op = "captureFrame" => ~m_rawMode /\ size > 0
           /\ a /\ op \in {"captureFrameRaw", "decodeFrame"} => m_rawMode
  <1> USE DEF Ops, TypeOK, m_isOpen
  <1>1. CASE HasNewFrame(r)
    BY <1>1 DEF HasNewFrame
  <1>2. CASE GetFrameSize(r)
    BY <1>2 DEF GetFrameSize
  <1>3. CASE \E size \in CallerLens : CaptureFrame(r, size)
    <2>1. PICK size \in CallerLens : CaptureFrame(r, size)
      BY <1>3
    <2>2. size \in Nat /\ size > 0
      OBVIOUS
    <2>3. CASE ~m_rawMode /\ m_isOpen
      <3>1. Begin(r, "captureFrame", size, TRUE)
        BY <2>1, <2>3 DEF CaptureFrame
      <3>2. QED
        BY <2>2, <2>3, <3>1
    <2>4. CASE ~(~m_rawMode /\ m_isOpen)
      <3>1. Begin(r, "captureFrame", size, FALSE)
        BY <2>1, <2>4 DEF CaptureFrame
      <3>2. QED
        BY <2>2, <3>1
    <2>5. QED
      BY <2>3, <2>4
  <1>4. CASE \E size \in CallerLens : CaptureFrameRaw(r, size)
    <2>1. PICK size \in CallerLens : CaptureFrameRaw(r, size)
      BY <1>4
    <2>2. size \in Nat /\ size > 0
      OBVIOUS
    <2>3. CASE m_isOpen /\ m_rawMode
      <3>1. Begin(r, "captureFrameRaw", size, TRUE)
        BY <2>1, <2>3 DEF CaptureFrameRaw
      <3>2. QED
        BY <2>2, <2>3, <3>1
    <2>4. CASE ~(m_isOpen /\ m_rawMode)
      <3>1. Begin(r, "captureFrameRaw", size, FALSE)
        BY <2>1, <2>4 DEF CaptureFrameRaw
      <3>2. QED
        BY <2>2, <3>1
    <2>5. QED
      BY <2>3, <2>4
  <1>5. CASE \E size \in CallerLens : DecodeFrame(r, size)
    <2>1. PICK size \in CallerLens : DecodeFrame(r, size)
      BY <1>5
    <2>2. size \in Nat /\ size > 0
      OBVIOUS
    <2>3. CASE m_isOpen /\ m_rawMode /\ size >= FrameBufferLen
      <3>1. Begin(r, "decodeFrame", size, TRUE)
        BY <2>1, <2>3 DEF DecodeFrame
      <3>2. QED
        BY <2>2, <2>3, <3>1
    <2>4. CASE ~(m_isOpen /\ m_rawMode /\ size >= FrameBufferLen)
      <3>1. Begin(r, "decodeFrame", size, FALSE)
        BY <2>1, <2>4 DEF DecodeFrame
      <3>2. QED
        BY <2>2, <3>1
    <2>5. QED
      BY <2>3, <2>4
  <1>6. QED
    BY <1>1, <1>2, <1>3, <1>4, <1>5 DEF ApiCall

LEMMA BeginTypeOK ==
  ASSUME TypeOK, NEW r \in Readers, NEW op \in Ops, NEW size \in Nat,
         NEW a \in BOOLEAN, Begin(r, op, size, a)
  PROVE  TypeOK'
  <1> DEFINE c == [pc |-> "lock", op |-> op, size |-> size, pos |-> 1, seen |-> <<>>]
  <1>1. c \in Call
    BY DEF Call
  <1>2. CASE a
    <2>1. call' = [call EXCEPT ![r] = c] /\ ret' = ret
      BY <1>2 DEF Begin
    <2>2. call' \in [Readers -> Call]
      BY <1>1, <2>1 DEF TypeOK
    <2>3. QED
      BY <2>1, <2>2 DEF Begin, TypeOK, buffers
  <1>3. CASE ~a
    <2>1. call' = call /\ ret' = [ret EXCEPT ![r] = [ok |-> FALSE, bytes |-> 0]]
      BY <1>3 DEF Begin
    <2>2. ret' \in [Readers -> Answer]
      BY <2>1, InitialValues DEF TypeOK, Answer
    <2>3. QED
      BY <2>1, <2>2 DEF Begin, TypeOK, buffers, Answer
  <1>4. QED
    BY <1>2, <1>3

LEMMA NextTypeOK == TypeOK /\ [Next]_vars => TypeOK'
<1> SUFFICES ASSUME TypeOK, [Next]_vars PROVE TypeOK'
  OBVIOUS
<1> USE DEF buffers, callers
<1>0. /\ m_frameBuffer \in Buffer /\ m_rawBuffer \in Buffer
      /\ m_frameBuffer.size \in {0, FrameBufferLen}
      /\ submission.pos \in Nat /\ submission.len \in 0..MaxLen
      /\ m_frames \in Nat /\ m_frames + 1 \in Nat
  BY DEF TypeOK, Submission
<1>1. ASSUME NEW raw \in BOOLEAN, Open(raw) PROVE TypeOK'
  <2> DEFINE n == IF raw THEN RawEstimate ELSE 0
  <2>1. n \in Nat
    OBVIOUS
  <2>2. m_rawBuffer' = [m_rawBuffer EXCEPT !.size = n]
    BY <1>1 DEF Open
  <2> HIDE DEF n
  <2>3. m_rawBuffer' \in Buffer /\ m_frameBuffer' \in Buffer
    BY <1>0, <1>1, <2>1, <2>2, BufferSize DEF Open
  <2>4. m_frameBuffer'.size = FrameBufferLen
    BY <1>0, <1>1 DEF Open, Buffer
  <2>5. QED
    BY <1>1, <2>3, <2>4 DEF Open, TypeOK
<1>2. CASE Close
  BY <1>2 DEF Close, TypeOK
<1>3. CASE Teardown
  <2>1. m_frameBuffer' \in Buffer /\ m_frameBuffer'.size = 0
    BY <1>0, <1>3, BufferSize DEF Teardown, Buffer
  <2>2. QED
    BY <1>3, <2>1 DEF Teardown, TypeOK
<1>4. CASE Gone \/ UNCHANGED vars
  BY <1>4 DEF Gone, vars, TypeOK
<1>5. ASSUME NEW len \in FrameLens, Submit(len) PROVE TypeOK'
  <2>1. submission' \in Submission
    BY <1>5 DEF Submit, Submission
  <2>2. QED
    BY <1>5, <2>1 DEF Submit, TypeOK
<1>6. CASE SubmitBufferLock
  <2>1. submission' \in Submission
    BY <1>6 DEF SubmitBufferLock, TypeOK, Submission
  <2>2. QED
    BY <1>6, <2>1 DEF SubmitBufferLock, TypeOK
<1>7. CASE SubmitBufferDrop
  BY <1>7, InitialValues DEF SubmitBufferDrop, TypeOK
<1>8. CASE SubmitBufferCopy
  <2>1. submission' \in Submission
    <3>1. submission \in Submission /\ submission.pos <= submission.len
      BY <1>8 DEF SubmitBufferCopy, TypeOK
    <3>2. submission.pos + 1 \in 1..MaxLen + 1
      BY <3>1 DEF Submission
    <3>3. submission' = [submission EXCEPT !.pos = submission.pos + 1]
      BY <1>8 DEF SubmitBufferCopy
    <3>4. QED
      BY <3>1, <3>2, <3>3 DEF Submission
  <2>2. m_frameBuffer' = [m_frameBuffer EXCEPT !.mem[submission.pos] = m_frames + 1]
    BY <1>8 DEF SubmitBufferCopy
  <2>3. m_frameBuffer' \in Buffer /\ m_frameBuffer'.size = m_frameBuffer.size
    BY <1>0, <2>2, BufferMem DEF Buffer
  <2>4. QED
    BY <1>8, <2>1, <2>3 DEF SubmitBufferCopy, TypeOK
<1>9. CASE SubmitBufferDone
  <2>1. m_frameBuffer' \in Buffer /\ m_frameBuffer'.size = m_frameBuffer.size
    BY <1>0, <1>9, BufferLen DEF SubmitBufferDone, Buffer
  <2>2. QED
    BY <1>9, <2>1, InitialValues DEF SubmitBufferDone, TypeOK
<1>10. CASE SubmitRawLock
  <2>1. submission' \in Submission
    BY <1>10 DEF SubmitRawLock, TypeOK, Submission
  <2>2. Grown(submission.len) \in Nat
    BY <1>0 DEF Grown, Buffer
  <2>3. m_rawBuffer' \in Buffer
    BY <1>0, <1>10, <2>2, BufferSize DEF SubmitRawLock
  <2>4. QED
    BY <1>10, <2>1, <2>3 DEF SubmitRawLock, TypeOK
<1>11. CASE SubmitRawCopy
  <2>1. submission' \in Submission
    <3>1. submission \in Submission /\ submission.pos <= submission.len
      BY <1>11 DEF SubmitRawCopy, TypeOK
    <3>2. submission.pos + 1 \in 1..MaxLen + 1
      BY <3>1 DEF Submission
    <3>3. submission' = [submission EXCEPT !.pos = submission.pos + 1]
      BY <1>11 DEF SubmitRawCopy
    <3>4. QED
      BY <3>1, <3>2, <3>3 DEF Submission
  <2>2. m_rawBuffer' = [m_rawBuffer EXCEPT !.mem[submission.pos] = m_frames + 1]
    BY <1>11 DEF SubmitRawCopy
  <2>3. m_rawBuffer' \in Buffer
    BY <1>0, <2>2, BufferMem
  <2>4. QED
    BY <1>11, <2>1, <2>3 DEF SubmitRawCopy, TypeOK
<1>12. CASE SubmitRawDone
  <2>1. m_rawBuffer' \in Buffer
    BY <1>0, <1>12, BufferLen DEF SubmitRawDone
  <2>2. QED
    BY <1>12, <2>1, InitialValues DEF SubmitRawDone, TypeOK
<1>13. ASSUME NEW r \in Readers, ApiCall(r) PROVE TypeOK'
  BY <1>13, ApiCallBegins, BeginTypeOK
<1>14. ASSUME NEW r \in Readers, Acquire(r) PROVE TypeOK'
  <2>1. call' = [call EXCEPT ![r] = [call[r] EXCEPT !.pc = "locked"]]
    BY <1>14 DEF Acquire
  <2>2. call' \in [Readers -> Call]
    BY <2>1, CallLocks DEF TypeOK
  <2>3. QED
    BY <1>14, <2>2 DEF Acquire, TypeOK
<1>15. ASSUME NEW r \in Readers, HasNewFrameReturn(r) PROVE TypeOK'
  BY <1>15, ReturnTypeOK DEF HasNewFrameReturn, TypeOK
<1>16. ASSUME NEW r \in Readers, GetFrameSizeReturn(r) PROVE TypeOK'
  <2>1. /\ m_newFrame' \in BOOLEAN
        /\ got' \in [Readers -> Seq(Nat)]
        /\ taken' \in Nat
    BY <1>16 DEF GetFrameSizeReturn, TypeOK
  <2>2. m_rawBuffer.len \in Nat /\ (m_rawBuffer.len > 0) \in BOOLEAN
    BY <1>0 DEF Buffer
  <2>3. Return(r, m_rawBuffer.len > 0, m_rawBuffer.len)
    BY <1>16 DEF GetFrameSizeReturn
  <2>4. QED
    BY <2>1, <2>2, <2>3, ReturnTypeOK
<1>17. ASSUME NEW r \in Readers, CaptureFrameCopy(r) PROVE TypeOK'
  <2>1. CaptureFrameLen(r) \in 0..MaxLen
    <3>1. call[r].size \in Nat /\ m_frameBuffer.size \in {0, FrameBufferLen}
      BY DEF TypeOK, Call
    <3>2. QED
      BY <3>1 DEF CaptureFrameLen, MinOf
  <2>2. QED
    BY <1>0, <1>17, <2>1, CopyTypeOK DEF CaptureFrameCopy
<1>18. ASSUME NEW r \in Readers, CaptureFrameReturn(r) PROVE TypeOK'
  BY <1>0, <1>18, ReturnTypeOK, DeliverType DEF CaptureFrameReturn
<1>19. ASSUME NEW r \in Readers, CaptureFrameRawTooSmall(r) PROVE TypeOK'
  <2>1. /\ m_newFrame' \in BOOLEAN
        /\ got' \in [Readers -> Seq(Nat)]
        /\ taken' \in Nat
    BY <1>19 DEF CaptureFrameRawTooSmall, TypeOK
  <2>2. m_rawBuffer.len \in Nat /\ (FALSE) \in BOOLEAN
    BY <1>0 DEF Buffer
  <2>3. Return(r, FALSE, m_rawBuffer.len)
    BY <1>19 DEF CaptureFrameRawTooSmall
  <2>4. QED
    BY <2>1, <2>2, <2>3, ReturnTypeOK
<1>20. ASSUME NEW r \in Readers, CaptureFrameRawCopy(r) PROVE TypeOK'
  <2>1. m_rawBuffer.len \in 0..MaxLen
    BY <1>0 DEF Buffer
  <2>2. QED
    BY <1>0, <1>20, <2>1, CopyTypeOK DEF CaptureFrameRawCopy
<1>21. ASSUME NEW r \in Readers, CaptureFrameRawReturn(r) PROVE TypeOK'
  <2>1. m_rawBuffer.len \in Nat
    BY <1>0 DEF Buffer
  <2>2. QED
    BY <1>0, <1>21, <2>1, ReturnTypeOK, DeliverType DEF CaptureFrameRawReturn
<1>22. ASSUME NEW r \in Readers, DecodeFrameNone(r) PROVE TypeOK'
  <2>1. /\ m_newFrame' \in BOOLEAN
        /\ got' \in [Readers -> Seq(Nat)]
        /\ taken' \in Nat
    BY <1>22 DEF DecodeFrameNone, TypeOK
  <2>2. 0 \in Nat /\ (FALSE) \in BOOLEAN
    BY <1>0 DEF Buffer
  <2>3. Return(r, FALSE, 0)
    BY <1>22 DEF DecodeFrameNone
  <2>4. QED
    BY <2>1, <2>2, <2>3, ReturnTypeOK
<1>23. ASSUME NEW r \in Readers, DecodeFrameRead(r) PROVE TypeOK'
  <2>1. m_rawBuffer.len \in 0..MaxLen
    BY <1>0 DEF Buffer
  <2>2. QED
    BY <1>0, <1>23, <2>1, CopyTypeOK DEF DecodeFrameRead
<1>24. ASSUME NEW r \in Readers, NEW ok \in BOOLEAN, DecodeFrameReturn(r, ok) PROVE TypeOK'
  <2>1. got' \in [Readers -> Seq(Nat)]
    BY <1>24, DeliverType DEF DecodeFrameReturn, TypeOK
  <2>2. QED
    BY <1>24, <2>1, ReturnTypeOK DEF DecodeFrameReturn, TypeOK
<1>25. QED
  BY <1>1, <1>2, <1>3, <1>4, <1>5, <1>6, <1>7, <1>8, <1>9, <1>10, <1>11, <1>12,
     <1>13, <1>14, <1>15, <1>16, <1>17, <1>18, <1>19, <1>20, <1>21, <1>22,
     <1>23, <1>24 DEF Next, CaptureThread, ApiStep

(* Every variable keeps its type, in every behaviour. *)
THEOREM TypeCorrect == Spec => []TypeOK
  BY InitTypeOK, NextTypeOK, PTL DEF Spec
-----------------------------------------------------------------------------
(* What the callers' steps do. *)

LEMMA BeginEffect ==
  ASSUME TypeOK, NEW r \in Readers, NEW op, NEW size, NEW a, Begin(r, op, size, a)
  PROVE  /\ UNCHANGED <<phase, m_rawMode, buffers, m_bufferMutex, submission, got, taken>>
         /\ phase \in {"open", "closing"}
         /\ call[r].pc = "idle"
         /\ \A q \in Readers \ {r} : call'[q] = call[q]
         /\ \/ call'[r] = call[r]
            \/ a /\ call'[r] = [pc |-> "lock", op |-> op, size |-> size, pos |-> 1, seen |-> <<>>]
  BY DEF Begin, TypeOK

LEMMA AcquireEffect ==
  ASSUME TypeOK, NEW r \in Readers, Acquire(r)
  PROVE  /\ call'[r].pc = "locked" /\ call'[r].op = call[r].op
         /\ call'[r].size = call[r].size /\ call'[r].pos = call[r].pos
         /\ call'[r].seen = call[r].seen
         /\ \A q \in Readers \ {r} : call'[q] = call[q]
  BY DEF Acquire, TypeOK, Call

LEMMA CopyEffect ==
  ASSUME TypeOK, NEW r \in Readers, NEW buf, NEW bound, Copy(r, buf, bound)
  PROVE  /\ call'[r].pc = call[r].pc /\ call'[r].op = call[r].op
         /\ call'[r].size = call[r].size /\ call'[r].pos = call[r].pos + 1
         /\ call'[r].seen = Append(call[r].seen, buf.mem[call[r].pos])
         /\ \A q \in Readers \ {r} : call'[q] = call[q]
<1> DEFINE d == call[r]
           T == Seq(Nat)
           next == [d EXCEPT !.pos = d.pos + 1, !.seen = Append(d.seen, buf.mem[d.pos])]
<1>1. call = [q \in Readers |-> call[q]] /\ d \in Call
  BY DEF TypeOK
<1>2. call' = [call EXCEPT ![r] = next]
  BY DEF Copy
<1>3. call'[r] = next /\ \A q \in Readers \ {r} : call'[q] = call[q]
  BY <1>1, <1>2
<1>4. d \in [pc : {"idle", "lock", "locked"}, op : Ops, size : Nat, pos : Nat \ {0}, seen : T]
  BY <1>1 DEF Call
<1> HIDE DEF T
<1>5. /\ next.pc = d.pc /\ next.op = d.op /\ next.size = d.size /\ next.pos = d.pos + 1
      /\ next.seen = Append(d.seen, buf.mem[d.pos])
  BY <1>4
<1>6. QED
  BY <1>3, <1>5

(* Copying a chunk leaves the mutex and the place of every call alone. *)
LEMMA CopyKeepsMutex ==
  ASSUME TypeOK, MutexInv, NEW r \in Readers, NEW buf, NEW bound, Copy(r, buf, bound)
  PROVE  MutexInv'
<1>1. \A q \in Readers : call'[q].pc = call[q].pc
  BY CopyEffect
<1>2. UNCHANGED <<submission, m_bufferMutex>>
  BY DEF Copy
<1>3. QED
  BY <1>1, <1>2 DEF MutexInv

LEMMA ReturnEffect ==
  ASSUME TypeOK, NEW r \in Readers, NEW ok, NEW n, Return(r, ok, n)
  PROVE  /\ call'[r] = IdleCall
         /\ \A q \in Readers \ {r} : call'[q] = call[q]
  BY DEF Return, TypeOK

LEMMA CallersKeepFrames ==
  ASSUME NEW r \in Readers, ApiCall(r) \/ ApiStep(r)
  PROVE  UNCHANGED <<phase, m_rawMode, m_frames, m_frameBuffer, m_rawBuffer, submission>>
  BY DEF ApiCall, ApiStep, Acquire, HasNewFrame, GetFrameSize, CaptureFrame,
         CaptureFrameRaw, DecodeFrame, Begin, Return, Copy, HasNewFrameReturn,
         GetFrameSizeReturn, CaptureFrameCopy, CaptureFrameReturn,
         CaptureFrameRawTooSmall, CaptureFrameRawCopy, CaptureFrameRawReturn,
         DecodeFrameNone, DecodeFrameRead, DecodeFrameReturn, buffers

LEMMA NextMutexInv == IInv /\ TypeOK' /\ [Next]_vars => MutexInv'
<1> SUFFICES ASSUME IInv, TypeOK', [Next]_vars PROVE MutexInv'
  OBVIOUS
<1> USE DEF buffers, callers
<1>1. ASSUME NEW raw \in BOOLEAN, Open(raw) PROVE MutexInv'
  BY <1>1 DEF Open, IInv, MutexInv
<1>2. CASE Close
  BY <1>2 DEF Close, IInv, MutexInv
<1>3. CASE Teardown
  BY <1>3 DEF Teardown, IInv, MutexInv
<1>4. CASE Gone \/ UNCHANGED vars
  BY <1>4 DEF Gone, vars, IInv, MutexInv
<1>5. ASSUME NEW len \in FrameLens, Submit(len) PROVE MutexInv'
  BY <1>5 DEF Submit, IInv, MutexInv
<1>6. CASE SubmitBufferLock
  BY <1>6 DEF SubmitBufferLock, IInv, MutexInv
<1>7. CASE SubmitBufferDrop
  BY <1>7 DEF SubmitBufferDrop, IInv, MutexInv, IdleSubmission
<1>8. CASE SubmitBufferCopy
  BY <1>8 DEF SubmitBufferCopy, IInv, MutexInv
<1>9. CASE SubmitBufferDone
  BY <1>9 DEF SubmitBufferDone, IInv, MutexInv, IdleSubmission
<1>10. CASE SubmitRawLock
  BY <1>10 DEF SubmitRawLock, IInv, MutexInv
<1>11. CASE SubmitRawCopy
  BY <1>11 DEF SubmitRawCopy, IInv, MutexInv
<1>12. CASE SubmitRawDone
  BY <1>12 DEF SubmitRawDone, IInv, MutexInv, IdleSubmission
<1>13. ASSUME NEW r \in Readers, ApiCall(r) PROVE MutexInv'
  <2>1. PICK op \in Ops, size \in Nat, a \in BOOLEAN : Begin(r, op, size, a)
    BY <1>13, ApiCallBegins DEF IInv
  <2>2. /\ UNCHANGED <<m_bufferMutex, submission>>
        /\ call[r].pc = "idle"
        /\ \A q \in Readers \ {r} : call'[q] = call[q]
        /\ \/ call'[r] = call[r]
           \/ call'[r] = [pc |-> "lock", op |-> op, size |-> size, pos |-> 1, seen |-> <<>>]
    BY <2>1, BeginEffect DEF IInv
  <2>3. call'[r].pc # "locked"
    BY <2>2
  <2>4. QED
    BY <2>2, <2>3 DEF IInv, MutexInv
<1>14. ASSUME NEW r \in Readers, Acquire(r) PROVE MutexInv'
  BY <1>14, AcquireEffect DEF Acquire, IInv, MutexInv, TypeOK
<1>15. ASSUME NEW r \in Readers, HasNewFrameReturn(r) PROVE MutexInv'
  BY <1>15, ReturnEffect DEF HasNewFrameReturn, Holds, Return, IdleCall, IInv,
     MutexInv, TypeOK
<1>16. ASSUME NEW r \in Readers, GetFrameSizeReturn(r) PROVE MutexInv'
  BY <1>16, ReturnEffect DEF GetFrameSizeReturn, Holds, Return, IdleCall, IInv,
     MutexInv, TypeOK
<1>17. ASSUME NEW r \in Readers, CaptureFrameReturn(r) PROVE MutexInv'
  BY <1>17, ReturnEffect DEF CaptureFrameReturn, Holds, Return, IdleCall, IInv,
     MutexInv, TypeOK
<1>18. ASSUME NEW r \in Readers, CaptureFrameRawTooSmall(r) PROVE MutexInv'
  BY <1>18, ReturnEffect DEF CaptureFrameRawTooSmall, Holds, Return, IdleCall, IInv,
     MutexInv, TypeOK
<1>19. ASSUME NEW r \in Readers, CaptureFrameRawReturn(r) PROVE MutexInv'
  BY <1>19, ReturnEffect DEF CaptureFrameRawReturn, Holds, Return, IdleCall, IInv,
     MutexInv, TypeOK
<1>20. ASSUME NEW r \in Readers, DecodeFrameNone(r) PROVE MutexInv'
  BY <1>20, ReturnEffect DEF DecodeFrameNone, Holds, Return, IdleCall, IInv,
     MutexInv, TypeOK
<1>21. ASSUME NEW r \in Readers, CaptureFrameCopy(r) PROVE MutexInv'
  BY <1>21, CopyKeepsMutex DEF CaptureFrameCopy, IInv
<1>22. ASSUME NEW r \in Readers, CaptureFrameRawCopy(r) PROVE MutexInv'
  BY <1>22, CopyKeepsMutex DEF CaptureFrameRawCopy, IInv
<1>23. ASSUME NEW r \in Readers, DecodeFrameRead(r) PROVE MutexInv'
  BY <1>23, CopyKeepsMutex DEF DecodeFrameRead, IInv
<1>24. ASSUME NEW r \in Readers, NEW ok \in BOOLEAN, DecodeFrameReturn(r, ok) PROVE MutexInv'
  BY <1>24, ReturnEffect DEF DecodeFrameReturn, Holds, Return, IdleCall, IInv,
     MutexInv, TypeOK
<1>25. QED
  BY <1>1, <1>2, <1>3, <1>4, <1>5, <1>6, <1>7, <1>8, <1>9, <1>10, <1>11, <1>12,
     <1>13, <1>14, <1>15, <1>16, <1>17, <1>18, <1>19, <1>20, <1>21, <1>22, <1>23,
     <1>24 DEF Next, CaptureThread, ApiStep

LEMMA NextContentInv == IInv /\ TypeOK' /\ [Next]_vars => ContentInv'
<1> SUFFICES ASSUME IInv, TypeOK', [Next]_vars PROVE ContentInv'
  OBVIOUS
<1> USE DEF buffers, callers
<1>1. ASSUME NEW raw \in BOOLEAN, Open(raw) PROVE ContentInv'
  <2>1. /\ phase = "created" /\ m_frames = 0 /\ submission.pc = "idle"
        /\ m_rawBuffer.len = 0 /\ m_frameBuffer.len = 0
    BY <1>1 DEF Open, IInv, ContentInv, ModeBuffer, OtherBuffer
  <2>2. /\ phase' = "open" /\ m_frames' = m_frames /\ submission' = submission
        /\ m_rawBuffer'.len = 0 /\ m_frameBuffer'.len = 0
        /\ m_frameBuffer'.size = FrameBufferLen
    BY <1>1, <2>1 DEF Open, IInv, TypeOK, Buffer
  <2>3. QED
    BY <2>1, <2>2 DEF ContentInv, ModeBuffer, OtherBuffer
<1>2. CASE Close
  BY <1>2 DEF Close, IInv, ContentInv, ModeBuffer, OtherBuffer
<1>3. CASE Teardown
  BY <1>3 DEF Teardown, IInv, ContentInv, ModeBuffer, OtherBuffer
<1>4. CASE Gone \/ UNCHANGED vars
  BY <1>4 DEF Gone, vars, IInv, ContentInv, ModeBuffer, OtherBuffer
<1>5. ASSUME NEW len \in FrameLens, Submit(len) PROVE ContentInv'
  BY <1>5 DEF Submit, IInv, ContentInv, ModeBuffer, OtherBuffer
<1>6. CASE SubmitBufferLock
  BY <1>6 DEF SubmitBufferLock, IInv, ContentInv, ModeBuffer, OtherBuffer, Buffer
<1>7. CASE SubmitBufferDrop
  BY <1>7 DEF SubmitBufferDrop, IInv, ContentInv, ModeBuffer, OtherBuffer, Buffer,
     IdleSubmission
<1>8. CASE SubmitBufferCopy
  <2>1. /\ submission'.pc = "copy" /\ submission'.len = submission.len
        /\ submission'.pos = submission.pos + 1
        /\ UNCHANGED <<phase, m_rawMode, m_frames, m_rawBuffer>>
        /\ m_frameBuffer'.size = m_frameBuffer.size /\ m_frameBuffer'.len = m_frameBuffer.len
    BY <1>8 DEF SubmitBufferCopy, IInv, TypeOK, Buffer, Submission
  <2>2. /\ ~m_rawMode /\ submission.len \in 0..MaxLen /\ submission.pos \in Nat \ {0}
        /\ submission.pos <= submission.len /\ submission.pc = "copy"
    <3>1. submission.len \in 0..MaxLen /\ submission.pos \in Nat \ {0}
      BY DEF IInv, TypeOK, Submission
    <3>2. QED
      BY <1>8, <3>1 DEF SubmitBufferCopy
  <2>3. ASSUME NEW i \in 1..submission.pos PROVE m_frameBuffer'.mem[i] = m_frames + 1
    <3>1. i \in 1..MaxLen /\ submission.pos \in 1..MaxLen
      BY <2>2
    <3>2. m_frameBuffer'.mem[i] = IF i = submission.pos THEN m_frames + 1 ELSE m_frameBuffer.mem[i]
      BY <1>8, <3>1 DEF SubmitBufferCopy, IInv, TypeOK, Buffer
    <3>3. i # submission.pos => m_frameBuffer.mem[i] = m_frames + 1
      BY <2>2, <3>1 DEF IInv, ContentInv, ModeBuffer
    <3>4. QED
      BY <3>2, <3>3
  <2>4. QED
    BY <2>1, <2>2, <2>3 DEF IInv, ContentInv, ModeBuffer, OtherBuffer
<1>9. CASE SubmitBufferDone
  <2>1. /\ submission'.pc = "idle" /\ m_frames' = m_frames + 1
        /\ UNCHANGED <<phase, m_rawMode, m_rawBuffer>>
        /\ m_frameBuffer'.mem = m_frameBuffer.mem /\ m_frameBuffer'.size = m_frameBuffer.size
        /\ m_frameBuffer'.len = submission.len
    BY <1>9 DEF SubmitBufferDone, IdleSubmission, IInv, TypeOK, Buffer
  <2>2. /\ ~m_rawMode /\ submission.len \in Nat /\ submission.len >= 1 /\ submission.len \in FrameLens
        /\ submission.pos \in Nat /\ submission.pos > submission.len
        /\ submission.pc = "copy" /\ m_frames \in Nat
        /\ m_frames < MaxFrames
    BY <1>9 DEF SubmitBufferDone, IInv, TypeOK, Submission, ContentInv
  <2>3. \A i \in 1..submission.len : m_frameBuffer'.mem[i] = m_frames + 1
    BY <2>1, <2>2 DEF IInv, ContentInv, ModeBuffer
  <2>4. QED
    BY <2>1, <2>2, <2>3 DEF IInv, ContentInv, ModeBuffer, OtherBuffer
<1>10. CASE SubmitRawLock
  BY <1>10 DEF SubmitRawLock, IInv, ContentInv, ModeBuffer, OtherBuffer
<1>11. CASE SubmitRawCopy
  <2>1. /\ submission'.pc = "copy" /\ submission'.len = submission.len
        /\ submission'.pos = submission.pos + 1
        /\ UNCHANGED <<phase, m_rawMode, m_frames, m_frameBuffer>>
        /\ m_rawBuffer'.size = m_rawBuffer.size /\ m_rawBuffer'.len = m_rawBuffer.len
    BY <1>11 DEF SubmitRawCopy, IInv, TypeOK, Buffer, Submission
  <2>2. /\ m_rawMode /\ submission.len \in 0..MaxLen /\ submission.pos \in Nat \ {0}
        /\ submission.pos <= submission.len /\ submission.pc = "copy"
    <3>1. submission.len \in 0..MaxLen /\ submission.pos \in Nat \ {0}
      BY DEF IInv, TypeOK, Submission
    <3>2. QED
      BY <1>11, <3>1 DEF SubmitRawCopy
  <2>3. ASSUME NEW i \in 1..submission.pos PROVE m_rawBuffer'.mem[i] = m_frames + 1
    <3>1. i \in 1..MaxLen /\ submission.pos \in 1..MaxLen
      BY <2>2
    <3>2. m_rawBuffer'.mem[i] = IF i = submission.pos THEN m_frames + 1 ELSE m_rawBuffer.mem[i]
      <4>1. m_rawBuffer \in Buffer
        BY DEF IInv, TypeOK
      <4>2. m_rawBuffer' = [m_rawBuffer EXCEPT !.mem[submission.pos] = m_frames + 1]
        BY <1>11 DEF SubmitRawCopy
      <4>3. QED
        BY <3>1, <4>1, <4>2 DEF Buffer
    <3>3. i # submission.pos => m_rawBuffer.mem[i] = m_frames + 1
      BY <2>2, <3>1 DEF IInv, ContentInv, ModeBuffer
    <3>4. QED
      BY <3>2, <3>3
  <2>4. QED
    BY <2>1, <2>2, <2>3 DEF IInv, ContentInv, ModeBuffer, OtherBuffer
<1>12. CASE SubmitRawDone
  <2>1. /\ submission'.pc = "idle" /\ m_frames' = m_frames + 1
        /\ UNCHANGED <<phase, m_rawMode, m_frameBuffer>>
        /\ m_rawBuffer'.mem = m_rawBuffer.mem /\ m_rawBuffer'.size = m_rawBuffer.size
        /\ m_rawBuffer'.len = submission.len
    BY <1>12 DEF SubmitRawDone, IdleSubmission, IInv, TypeOK, Buffer
  <2>2. /\ m_rawMode /\ submission.len \in Nat /\ submission.len >= 1 /\ submission.len \in FrameLens
        /\ submission.pos \in Nat /\ submission.pos > submission.len
        /\ submission.pc = "copy" /\ m_frames \in Nat
        /\ m_frames < MaxFrames
    BY <1>12 DEF SubmitRawDone, IInv, TypeOK, Submission, ContentInv
  <2>3. \A i \in 1..submission.len : m_rawBuffer'.mem[i] = m_frames + 1
    BY <2>1, <2>2 DEF IInv, ContentInv, ModeBuffer
  <2>4. QED
    BY <2>1, <2>2, <2>3 DEF IInv, ContentInv, ModeBuffer, OtherBuffer
<1>13. ASSUME NEW r \in Readers, ApiCall(r) \/ ApiStep(r) PROVE ContentInv'
  BY <1>13, CallersKeepFrames DEF IInv, ContentInv, ModeBuffer, OtherBuffer
<1>14. QED
  BY <1>1, <1>2, <1>3, <1>4, <1>5, <1>6, <1>7, <1>8, <1>9, <1>10, <1>11, <1>12,
     <1>13 DEF Next, CaptureThread, ApiStep

LEMMA NextCopiesStayInside == IInv /\ TypeOK' /\ [Next]_vars => CopiesStayInside'
<1> SUFFICES ASSUME IInv, TypeOK', [Next]_vars PROVE CopiesStayInside'
  OBVIOUS
<1> USE DEF buffers, callers
<1>1. ASSUME NEW raw \in BOOLEAN, Open(raw) PROVE CopiesStayInside'
  <2>1. /\ submission.pc = "idle"
        /\ m_rawBuffer.len = 0 /\ m_frameBuffer.len = 0
    BY <1>1 DEF Open, IInv, ContentInv, ModeBuffer, OtherBuffer
  <2>2. /\ submission' = submission
        /\ m_rawBuffer'.len = 0 /\ m_frameBuffer'.len = 0
        /\ m_rawBuffer'.size >= 0 /\ m_frameBuffer'.size = FrameBufferLen
    BY <1>1, <2>1 DEF Open, IInv, TypeOK, Buffer
  <2>3. QED
    BY <2>1, <2>2 DEF CopiesStayInside
<1>2. CASE Close
  BY <1>2 DEF Close, IInv, CopiesStayInside
<1>3. CASE Teardown
  BY <1>3 DEF Teardown, IInv, CopiesStayInside
<1>4. CASE Gone \/ UNCHANGED vars
  BY <1>4 DEF Gone, vars, IInv, CopiesStayInside
<1>5. ASSUME NEW len \in FrameLens, Submit(len) PROVE CopiesStayInside'
  BY <1>5 DEF Submit, IInv, CopiesStayInside
<1>6. CASE SubmitBufferLock
  BY <1>6 DEF SubmitBufferLock, IInv, CopiesStayInside, Buffer
<1>7. CASE SubmitBufferDrop
  BY <1>7 DEF SubmitBufferDrop, IInv, CopiesStayInside, Buffer, IdleSubmission
<1>8. CASE SubmitBufferCopy
  BY <1>8 DEF SubmitBufferCopy, IInv, CopiesStayInside, Buffer
<1>9. CASE SubmitBufferDone
  BY <1>9 DEF SubmitBufferDone, IInv, CopiesStayInside, Buffer, IdleSubmission
<1>10. CASE SubmitRawLock
  <2>1. /\ m_rawBuffer'.size = Grown(submission.len)
        /\ m_rawBuffer'.len = m_rawBuffer.len
    BY <1>10 DEF SubmitRawLock, IInv, TypeOK, Buffer
  <2>2. /\ UNCHANGED <<m_rawMode, phase, m_frameBuffer>>
        /\ submission'.len = submission.len
        /\ m_rawMode
    BY <1>10 DEF SubmitRawLock, IInv, TypeOK, Submission
  <2>3. submission.len <= Grown(submission.len) /\ m_rawBuffer.len <= Grown(submission.len)
    <3>1. /\ submission.len \in Nat /\ m_rawBuffer.len \in Nat
          /\ m_rawBuffer.size \in Nat /\ m_rawBuffer.len <= m_rawBuffer.size
      BY DEF IInv, TypeOK, Buffer, Submission, CopiesStayInside
    <3>2. QED
      BY <3>1 DEF Grown
  <2>4. QED
    BY <2>1, <2>2, <2>3 DEF IInv, CopiesStayInside
<1>11. CASE SubmitRawCopy
  BY <1>11 DEF SubmitRawCopy, IInv, CopiesStayInside
<1>12. CASE SubmitRawDone
  BY <1>12 DEF SubmitRawDone, IInv, CopiesStayInside, IdleSubmission
<1>13. ASSUME NEW r \in Readers, ApiCall(r) \/ ApiStep(r) PROVE CopiesStayInside'
  BY <1>13, CallersKeepFrames DEF IInv, CopiesStayInside
<1>14. QED
  BY <1>1, <1>2, <1>3, <1>4, <1>5, <1>6, <1>7, <1>8, <1>9, <1>10, <1>11, <1>12,
     <1>13 DEF Next, CaptureThread, ApiStep

(* A caller inside the mutex keeps the capture thread out of the buffer. *)
LEMMA MutexHeld ==
  ASSUME MutexInv, NEW r \in Readers, call[r].pc = "locked"
  PROVE  m_bufferMutex = r /\ submission.pc \notin {"copy", "drop"}
  BY DEF MutexInv

(* No chunk at all, and one chunk more. *)
LEMMA NoChunks == \A b : Chunks(b, 0) = <<>>
  BY DEF Chunks

LEMMA ChunkAppended ==
  ASSUME NEW b \in Buffer, NEW n \in Nat, n < MaxLen
  PROVE  Append(Chunks(b, n), b.mem[n + 1]) = Chunks(b, n + 1)
  <1>1. Chunks(b, n) \in Seq(Nat) /\ Len(Chunks(b, n)) = n
    BY DEF Chunks, Buffer
  <1>2. b.mem[n + 1] \in Nat
    BY DEF Buffer
  <1>3. QED
    BY <1>1, <1>2 DEF Chunks

(* A call copies from the mode's buffer and stays inside it. *)
LEMMA CopyInside ==
  ASSUME IInv, NEW r \in Readers, call[r].pc # "idle"
  PROVE  /\ CopyBound(r) \in 0..MaxLen
         /\ ModeBuffer \in Buffer /\ call[r].pos \in Nat \ {0}
<1>1. /\ m_frameBuffer \in Buffer /\ m_rawBuffer \in Buffer
      /\ m_frameBuffer.size \in {0, FrameBufferLen} /\ call[r] \in Call
  BY DEF IInv, TypeOK
<1>2. call[r].size \in Nat /\ call[r].pos \in Nat \ {0} /\ m_rawBuffer.len \in 0..MaxLen
  BY <1>1 DEF Call, Buffer
<1>3. CaptureFrameLen(r) \in 0..MaxLen
  BY <1>1, <1>2 DEF CaptureFrameLen, MinOf
<1>4. QED
  BY <1>1, <1>2, <1>3 DEF CopyBound, ModeBuffer

(* What a caller in the mutex has copied after one chunk more. *)
LEMMA CopyCallOK ==
  ASSUME IInv, NEW r \in Readers, call[r].pc = "locked",
         Copy(r, ModeBuffer, CopyBound(r)), ApiStep(r)
  PROVE  CallOK(r)'
  <1>1. /\ CallOK(r) /\ TypeOK
        /\ call[r].pos \in Nat \ {0} /\ call[r].pos <= CopyBound(r)
        /\ CopyBound(r) \in 0..MaxLen /\ ModeBuffer \in Buffer
    BY CopyInside DEF IInv, CallInv, Copy
  <1>2. /\ call'[r].pc = "locked" /\ call'[r].op = call[r].op
        /\ call'[r].size = call[r].size /\ call'[r].pos = call[r].pos + 1
        /\ call'[r].seen = Append(call[r].seen, ModeBuffer.mem[call[r].pos])
    BY <1>1, CopyEffect
  <1>3. UNCHANGED <<phase, m_rawMode, m_frames, ModeBuffer, m_frameBuffer, m_rawBuffer>>
    BY CallersKeepFrames DEF ModeBuffer
  <1>4. CopyBound(r)' = CopyBound(r)
    BY <1>2, <1>3 DEF CopyBound, CaptureFrameLen
  <1>5. call'[r].seen = Chunks(ModeBuffer, call[r].pos)
    <2> DEFINE n == call[r].pos - 1
    <2>1. n \in Nat /\ n < MaxLen /\ call[r].pos = n + 1
      BY <1>1
    <2>2. call[r].seen = Chunks(ModeBuffer, n)
      BY <1>1 DEF CallOK
    <2> HIDE DEF n
    <2>3. QED
      BY <1>1, <1>2, <2>1, <2>2, ChunkAppended
  <1>6. Chunks(ModeBuffer, call[r].pos)' = Chunks(ModeBuffer', call'[r].pos)
    BY DEF Chunks
  <1>7. call'[r].seen = Chunks(ModeBuffer, call[r].pos - 1)'
    BY <1>1, <1>2, <1>3, <1>5 DEF Chunks
  <1>8. call'[r].pos <= CopyBound(r)' + 1
    BY <1>1, <1>2, <1>4
  <1>9. QED
    BY <1>1, <1>2, <1>3, <1>7, <1>8 DEF CallOK

(* A call's state is its own. *)
LEMMA OtherCallsOK ==
  ASSUME IInv, NEW r \in Readers, ApiCall(r) \/ ApiStep(r),
         \A q \in Readers \ {r} : call'[q] = call[q], CallOK(r)'
  PROVE  CallInv'
  <1>1. UNCHANGED <<phase, m_rawMode, m_frameBuffer, m_rawBuffer>>
    BY CallersKeepFrames
  <1>2. ASSUME NEW q \in Readers \ {r} PROVE CallOK(q)'
    <2>1. CallOK(q) /\ call'[q] = call[q]
      BY DEF IInv, CallInv
    <2>2. QED
      BY <1>1, <2>1 DEF CallOK, CopyBound, CaptureFrameLen, Chunks, ModeBuffer
  <1>3. QED
    BY <1>2 DEF CallInv

(* A call that returns is idle again. *)
LEMMA ReturnCallInv ==
  ASSUME IInv, NEW r \in Readers, NEW ok, NEW n, Return(r, ok, n), ApiStep(r)
  PROVE  CallInv'
  <1>1. /\ call'[r].pc = "idle"
        /\ \A q \in Readers \ {r} : call'[q] = call[q]
    BY ReturnEffect DEF IInv, IdleCall
  <1>2. CallOK(r)'
    BY <1>1 DEF CallOK
  <1>3. QED
    BY <1>1, <1>2, OtherCallsOK

LEMMA NextCallInv == IInv /\ TypeOK' /\ [Next]_vars => CallInv'
<1> SUFFICES ASSUME IInv, TypeOK', [Next]_vars PROVE CallInv'
  OBVIOUS
<1> USE DEF buffers, callers
<1>1. ASSUME NEW raw \in BOOLEAN, Open(raw) PROVE CallInv'
  BY <1>1 DEF Open, IInv, CallInv, CallOK
<1>2. CASE Close
  BY <1>2 DEF Close, IInv, CallInv, CallOK, CopyBound, CaptureFrameLen, Chunks, ModeBuffer
<1>3. CASE Teardown
  BY <1>3 DEF Teardown, CallInv, CallOK
<1>4. CASE Gone \/ UNCHANGED vars
  <2>1. UNCHANGED <<phase, m_rawMode, m_frameBuffer, m_rawBuffer, call>>
    BY <1>4 DEF Gone, vars
  <2>2. ASSUME NEW r \in Readers, CallOK(r) PROVE CallOK(r)'
    BY <2>1, <2>2 DEF CallOK, CopyBound, CaptureFrameLen, Chunks, ModeBuffer
  <2>3. QED
    BY <2>2 DEF IInv, CallInv
<1>5. ASSUME NEW len \in FrameLens, Submit(len) PROVE CallInv'
  BY <1>5 DEF Submit, IInv, CallInv, CallOK, CopyBound, CaptureFrameLen, Chunks, ModeBuffer
<1>6. CASE SubmitBufferLock
  BY <1>6 DEF SubmitBufferLock, IInv, CallInv, CallOK, CopyBound, CaptureFrameLen,
     Chunks, ModeBuffer, MutexInv
<1>7. CASE SubmitBufferDrop
  BY <1>7 DEF SubmitBufferDrop, IInv, CallInv, CallOK, CopyBound, CaptureFrameLen,
     Chunks, ModeBuffer, MutexInv
<1>8. CASE SubmitBufferCopy
  BY <1>8 DEF SubmitBufferCopy, IInv, CallInv, CallOK, MutexInv, Buffer
<1>9. CASE SubmitBufferDone
  <2>1. \A r \in Readers : call[r].pc # "locked"
    BY <1>9 DEF SubmitBufferDone, IInv, MutexInv
  <2>2. QED
    BY <1>9, <2>1 DEF SubmitBufferDone, IInv, CallInv, CallOK
<1>10. CASE SubmitRawLock
  BY <1>10 DEF SubmitRawLock, IInv, CallInv, CallOK, MutexInv
<1>11. CASE SubmitRawCopy
  BY <1>11 DEF SubmitRawCopy, IInv, CallInv, CallOK, MutexInv
<1>12. CASE SubmitRawDone
  <2>1. \A r \in Readers : call[r].pc # "locked"
    BY <1>12 DEF SubmitRawDone, IInv, MutexInv
  <2>2. QED
    BY <1>12, <2>1 DEF SubmitRawDone, IInv, CallInv, CallOK
<1>13. ASSUME NEW r \in Readers, ApiCall(r) PROVE CallInv'
  <2>1. PICK op \in Ops, size \in Nat, a \in BOOLEAN :
               /\ Begin(r, op, size, a)
               /\ a /\ op = "captureFrame" => ~m_rawMode /\ size > 0
               /\ a /\ op \in {"captureFrameRaw", "decodeFrame"} => m_rawMode
    BY <1>13, ApiCallBegins DEF IInv
  <2>2. /\ call[r].pc = "idle" /\ phase \in {"open", "closing"}
        /\ \A q \in Readers \ {r} : call'[q] = call[q]
        /\ \/ call'[r] = call[r]
           \/ a /\ call'[r] = [pc |-> "lock", op |-> op, size |-> size, pos |-> 1, seen |-> <<>>]
    BY <2>1, BeginEffect DEF IInv
  <2>3. UNCHANGED <<phase, m_rawMode>>
    BY <1>13, CallersKeepFrames
  <2>4. CallOK(r)'
    BY <2>1, <2>2, <2>3 DEF CallOK
  <2>5. QED
    BY <1>13, <2>2, <2>4, OtherCallsOK
<1>14. ASSUME NEW r \in Readers, Acquire(r) PROVE CallInv'
  <2>1. ApiCall(r) \/ ApiStep(r)
    BY <1>14 DEF ApiStep
  <2>2. /\ UNCHANGED <<phase, m_rawMode, m_frameBuffer, m_rawBuffer>>
        /\ CallOK(r) /\ call[r].pc = "lock"
    BY <1>14, <2>1, CallersKeepFrames DEF Acquire, IInv, CallInv
  <2>3. /\ call'[r].pc = "locked" /\ call'[r].op = call[r].op
        /\ call'[r].size = call[r].size /\ call'[r].pos = call[r].pos
        /\ call'[r].seen = call[r].seen
        /\ \A q \in Readers \ {r} : call'[q] = call[q]
    BY <1>14, AcquireEffect DEF IInv
  <2>4. call'[r].pos = 1 /\ call'[r].seen = Chunks(ModeBuffer, call[r].pos - 1)'
    BY <2>2, <2>3, NoChunks DEF CallOK, Chunks
  <2>5. CopyBound(r)' = CopyBound(r)
    BY <2>2, <2>3 DEF CopyBound, CaptureFrameLen
  <2>6. CopyBound(r) \in Nat
    BY <2>2, CopyInside
  <2>7. CallOK(r)'
    BY <2>2, <2>3, <2>4, <2>5, <2>6 DEF CallOK
  <2>8. QED
    BY <2>1, <2>3, <2>7, OtherCallsOK
<1>15. ASSUME NEW r \in Readers, HasNewFrameReturn(r) PROVE CallInv'
  BY <1>15, ReturnCallInv DEF ApiStep, HasNewFrameReturn
<1>16. ASSUME NEW r \in Readers, GetFrameSizeReturn(r) PROVE CallInv'
  BY <1>16, ReturnCallInv DEF ApiStep, GetFrameSizeReturn
<1>17. ASSUME NEW r \in Readers, CaptureFrameReturn(r) PROVE CallInv'
  BY <1>17, ReturnCallInv DEF ApiStep, CaptureFrameReturn
<1>18. ASSUME NEW r \in Readers, CaptureFrameRawTooSmall(r) PROVE CallInv'
  BY <1>18, ReturnCallInv DEF ApiStep, CaptureFrameRawTooSmall
<1>19. ASSUME NEW r \in Readers, CaptureFrameRawReturn(r) PROVE CallInv'
  BY <1>19, ReturnCallInv DEF ApiStep, CaptureFrameRawReturn
<1>20. ASSUME NEW r \in Readers, DecodeFrameNone(r) PROVE CallInv'
  BY <1>20, ReturnCallInv DEF ApiStep, DecodeFrameNone
<1>21. ASSUME NEW r \in Readers, CaptureFrameCopy(r) PROVE CallInv'
  <2>1. /\ ApiCall(r) \/ ApiStep(r)
        /\ ApiStep(r) /\ call[r].pc = "locked"
    BY <1>21 DEF ApiStep, CaptureFrameCopy, Holds
  <2>2. ModeBuffer = m_frameBuffer /\ CopyBound(r) = CaptureFrameLen(r)
    BY <1>21 DEF CaptureFrameCopy, Holds, IInv, CallInv, CallOK, ModeBuffer, CopyBound
  <2>3. Copy(r, ModeBuffer, CopyBound(r))
    BY <1>21, <2>2 DEF CaptureFrameCopy
  <2>4. CallOK(r)' /\ \A q \in Readers \ {r} : call'[q] = call[q]
    BY <2>1, <2>3, CopyCallOK, CopyEffect DEF IInv
  <2>5. QED
    BY <2>1, <2>4, OtherCallsOK
<1>22. ASSUME NEW r \in Readers, CaptureFrameRawCopy(r) PROVE CallInv'
  <2>1. /\ ApiCall(r) \/ ApiStep(r)
        /\ ApiStep(r) /\ call[r].pc = "locked"
    BY <1>22 DEF ApiStep, CaptureFrameRawCopy, Holds
  <2>2. ModeBuffer = m_rawBuffer /\ CopyBound(r) = m_rawBuffer.len
    BY <1>22 DEF CaptureFrameRawCopy, Holds, IInv, CallInv, CallOK, ModeBuffer, CopyBound
  <2>3. Copy(r, ModeBuffer, CopyBound(r))
    BY <1>22, <2>2 DEF CaptureFrameRawCopy
  <2>4. CallOK(r)' /\ \A q \in Readers \ {r} : call'[q] = call[q]
    BY <2>1, <2>3, CopyCallOK, CopyEffect DEF IInv
  <2>5. QED
    BY <2>1, <2>4, OtherCallsOK
<1>23. ASSUME NEW r \in Readers, DecodeFrameRead(r) PROVE CallInv'
  <2>1. /\ ApiCall(r) \/ ApiStep(r)
        /\ ApiStep(r) /\ call[r].pc = "locked"
    BY <1>23 DEF ApiStep, DecodeFrameRead, Holds
  <2>2. ModeBuffer = m_rawBuffer /\ CopyBound(r) = m_rawBuffer.len
    BY <1>23 DEF DecodeFrameRead, Holds, IInv, CallInv, CallOK, ModeBuffer, CopyBound
  <2>3. Copy(r, ModeBuffer, CopyBound(r))
    BY <1>23, <2>2 DEF DecodeFrameRead
  <2>4. CallOK(r)' /\ \A q \in Readers \ {r} : call'[q] = call[q]
    BY <2>1, <2>3, CopyCallOK, CopyEffect DEF IInv
  <2>5. QED
    BY <2>1, <2>4, OtherCallsOK
<1>24. ASSUME NEW r \in Readers, NEW ok \in BOOLEAN, DecodeFrameReturn(r, ok) PROVE CallInv'
  BY <1>24, ReturnCallInv DEF ApiStep, DecodeFrameReturn
<1>25. QED
  BY <1>1, <1>2, <1>3, <1>4, <1>5, <1>6, <1>7, <1>8, <1>9, <1>10, <1>11, <1>12,
     <1>13, <1>14, <1>15, <1>16, <1>17, <1>18, <1>19, <1>20, <1>21, <1>22, <1>23,
     <1>24 DEF Next, CaptureThread, ApiStep

LEMMA NextFlagInv == IInv /\ TypeOK' /\ [Next]_vars => (NewFrameFlagExact /\ TakenInv)'
<1> SUFFICES ASSUME IInv, TypeOK', [Next]_vars PROVE (NewFrameFlagExact /\ TakenInv)'
  OBVIOUS
<1> USE DEF buffers, callers
<1>1. ASSUME NEW raw \in BOOLEAN, Open(raw) PROVE (NewFrameFlagExact /\ TakenInv)'
  BY <1>1 DEF Open, IInv, NewFrameFlagExact, TakenInv
<1>2. CASE Close
  BY <1>2 DEF Close, IInv, NewFrameFlagExact, TakenInv
<1>3. CASE Teardown
  BY <1>3 DEF Teardown, IInv, NewFrameFlagExact, TakenInv
<1>4. CASE Gone \/ UNCHANGED vars
  BY <1>4 DEF Gone, vars, IInv, NewFrameFlagExact, TakenInv
<1>5. ASSUME NEW len \in FrameLens, Submit(len) PROVE (NewFrameFlagExact /\ TakenInv)'
  BY <1>5 DEF Submit, IInv, NewFrameFlagExact, TakenInv
<1>6. CASE SubmitBufferLock
  BY <1>6 DEF SubmitBufferLock, IInv, NewFrameFlagExact, TakenInv
<1>7. CASE SubmitBufferDrop
  BY <1>7 DEF SubmitBufferDrop, IInv, NewFrameFlagExact, TakenInv
<1>8. CASE SubmitBufferCopy
  BY <1>8 DEF SubmitBufferCopy, IInv, NewFrameFlagExact, TakenInv
<1>9. CASE SubmitBufferDone
  BY <1>9 DEF SubmitBufferDone, IInv, NewFrameFlagExact, TakenInv, TypeOK
<1>10. CASE SubmitRawLock
  BY <1>10 DEF SubmitRawLock, IInv, NewFrameFlagExact, TakenInv
<1>11. CASE SubmitRawCopy
  BY <1>11 DEF SubmitRawCopy, IInv, NewFrameFlagExact, TakenInv
<1>12. CASE SubmitRawDone
  BY <1>12 DEF SubmitRawDone, IInv, NewFrameFlagExact, TakenInv, TypeOK
<1>13. ASSUME NEW r \in Readers, ApiCall(r) PROVE (NewFrameFlagExact /\ TakenInv)'
  BY <1>13, ApiCallBegins, BeginEffect DEF IInv, NewFrameFlagExact, TakenInv
<1>14. ASSUME NEW r \in Readers, Acquire(r) PROVE (NewFrameFlagExact /\ TakenInv)'
  BY <1>14, AcquireEffect DEF Acquire, IInv, NewFrameFlagExact, TakenInv
<1>15. ASSUME NEW r \in Readers, HasNewFrameReturn(r) PROVE (NewFrameFlagExact /\ TakenInv)'
  BY <1>15, ReturnEffect DEF HasNewFrameReturn, Return, IInv, NewFrameFlagExact,
     TakenInv
<1>16. ASSUME NEW r \in Readers, GetFrameSizeReturn(r) PROVE (NewFrameFlagExact /\ TakenInv)'
  BY <1>16, ReturnEffect DEF GetFrameSizeReturn, Return, IInv, NewFrameFlagExact,
     TakenInv
<1>17. ASSUME NEW r \in Readers, CaptureFrameReturn(r) PROVE (NewFrameFlagExact /\ TakenInv)'
  BY <1>17, ReturnEffect DEF CaptureFrameReturn, Return, NewFrameFlagExact,
     TakenInv, TypeOK
<1>18. ASSUME NEW r \in Readers, CaptureFrameRawTooSmall(r) PROVE (NewFrameFlagExact /\ TakenInv)'
  BY <1>18, ReturnEffect DEF CaptureFrameRawTooSmall, Return, IInv,
     NewFrameFlagExact, TakenInv
<1>19. ASSUME NEW r \in Readers, CaptureFrameRawReturn(r) PROVE (NewFrameFlagExact /\ TakenInv)'
  BY <1>19, ReturnEffect DEF CaptureFrameRawReturn, Return, NewFrameFlagExact,
     TakenInv, TypeOK
<1>20. ASSUME NEW r \in Readers, DecodeFrameNone(r) PROVE (NewFrameFlagExact /\ TakenInv)'
  BY <1>20, ReturnEffect DEF DecodeFrameNone, Return, IInv, NewFrameFlagExact,
     TakenInv
<1>21. ASSUME NEW r \in Readers, CaptureFrameCopy(r) PROVE (NewFrameFlagExact /\ TakenInv)'
  BY <1>21, CopyEffect DEF CaptureFrameCopy, Copy, IInv, NewFrameFlagExact, TakenInv
<1>22. ASSUME NEW r \in Readers, CaptureFrameRawCopy(r) PROVE (NewFrameFlagExact /\ TakenInv)'
  BY <1>22, CopyEffect DEF CaptureFrameRawCopy, Copy, IInv, NewFrameFlagExact,
     TakenInv
<1>23. ASSUME NEW r \in Readers, DecodeFrameRead(r) PROVE (NewFrameFlagExact /\ TakenInv)'
  BY <1>23, CopyEffect DEF DecodeFrameRead, Copy, IInv, NewFrameFlagExact, TakenInv
<1>24. ASSUME NEW r \in Readers, NEW ok \in BOOLEAN, DecodeFrameReturn(r, ok) PROVE (NewFrameFlagExact /\ TakenInv)'
  BY <1>24, ReturnEffect DEF DecodeFrameReturn, Return, IInv, NewFrameFlagExact,
     TakenInv
<1>25. QED
  BY <1>1, <1>2, <1>3, <1>4, <1>5, <1>6, <1>7, <1>8, <1>9, <1>10, <1>11, <1>12,
     <1>13, <1>14, <1>15, <1>16, <1>17, <1>18, <1>19, <1>20, <1>21, <1>22, <1>23,
     <1>24 DEF Next, CaptureThread, ApiStep

(* The buffer only becomes newer, place by place. *)
(* A newer chunk behind chunks of the same frame keeps the layers in order. *)
Layers(f, n) == \A i \in 1..MaxLen : f[i] <= n /\ \A j \in i..MaxLen : f[j] <= f[i]

BeginsWith(f, k, n) == \A i \in 1..k : f[i] = n

LEMMA LayerOnTop ==
  ASSUME NEW f \in [1..MaxLen -> Nat], NEW p \in 1..MaxLen, NEW n \in Nat,
         Layers(f, n), BeginsWith(f, p - 1, n)
  PROVE  Layers([f EXCEPT ![p] = n], n)
<1> DEFINE g == [f EXCEPT ![p] = n]
<1>1. \A i \in 1..MaxLen : f[i] \in Nat /\ g[i] = IF i = p THEN n ELSE f[i]
  OBVIOUS
<1> HIDE DEF g
<1>2. \A i \in 1..MaxLen : g[i] \in Nat /\ g[i] <= n
  BY <1>1 DEF Layers
<1>3. ASSUME NEW i \in 1..MaxLen, NEW j \in i..MaxLen PROVE g[j] <= g[i]
  <2>1. j \in 1..MaxLen
    OBVIOUS
  <2>2. CASE i <= p
    <3>1. g[i] = n
      BY <1>1, <2>2 DEF BeginsWith
    <3>2. QED
      BY <1>2, <2>1, <3>1
  <2>3. CASE i > p
    <3>1. g[j] = f[j] /\ g[i] = f[i]
      BY <1>1, <2>1, <2>3
    <3>2. QED
      BY <3>1 DEF Layers
  <2>4. QED
    BY <2>2, <2>3
<1>4. QED
  BY <1>2, <1>3 DEF Layers, g

LEMMA NextLayersInv == IInv /\ TypeOK' /\ [Next]_vars => LayersInv'
<1> SUFFICES ASSUME IInv, TypeOK', [Next]_vars PROVE LayersInv'
  OBVIOUS
<1> USE DEF buffers, callers
<1>0. m_frames \in Nat /\ Newest \in Nat /\ m_frames <= Newest
  BY DEF IInv, TypeOK, Newest, Copying
<1>1. ASSUME m_frameBuffer'.mem = m_frameBuffer.mem, m_rawBuffer'.mem = m_rawBuffer.mem,
             Newest <= Newest', Newest' \in Nat
      PROVE  LayersInv'
  <2>1. m_frameBuffer \in Buffer /\ m_rawBuffer \in Buffer
    BY DEF IInv, TypeOK
  <2>2. QED
    BY <1>0, <1>1, <2>1 DEF IInv, LayersInv, Buffer
<1>2. ASSUME NEW raw \in BOOLEAN, Open(raw) PROVE LayersInv'
  <2>1. m_frameBuffer'.mem = m_frameBuffer.mem /\ m_rawBuffer'.mem = m_rawBuffer.mem
    BY <1>2 DEF Open, IInv, TypeOK, Buffer
  <2>2. QED
    BY <1>0, <1>1, <1>2, <2>1 DEF Open, Newest, Copying
<1>3. CASE Teardown
  <2>1. m_frameBuffer'.mem = m_frameBuffer.mem /\ m_rawBuffer' = m_rawBuffer
    BY <1>3 DEF Teardown, IInv, TypeOK, Buffer
  <2>2. QED
    BY <1>0, <1>1, <1>3, <2>1 DEF Teardown, Newest, Copying
<1>4. CASE Close \/ Gone \/ UNCHANGED vars \/ \E len \in FrameLens : Submit(len)
  BY <1>0, <1>1, <1>4 DEF Close, Gone, vars, Submit, Newest, Copying
<1>5. CASE SubmitBufferLock
  <2>1. submission'.pc \in {"copy", "drop"} /\ submission.pc = "lock"
    BY <1>5 DEF SubmitBufferLock, IInv, TypeOK, Submission
  <2>2. QED
    BY <1>0, <1>1, <1>5, <2>1 DEF SubmitBufferLock, Newest, Copying
<1>6. CASE SubmitBufferDrop
  BY <1>0, <1>1, <1>6 DEF SubmitBufferDrop, Newest, Copying, IdleSubmission
<1>7. CASE SubmitRawLock
  <2>1. submission'.pc = "copy" /\ submission.pc = "lock" /\ m_rawBuffer'.mem = m_rawBuffer.mem
    BY <1>7 DEF SubmitRawLock, IInv, TypeOK, Submission, Buffer
  <2>2. QED
    BY <1>0, <1>1, <1>7, <2>1 DEF SubmitRawLock, Newest, Copying
<1>8. CASE SubmitBufferDone \/ SubmitRawDone
  <2>1. /\ m_frameBuffer'.mem = m_frameBuffer.mem /\ m_rawBuffer'.mem = m_rawBuffer.mem
    BY <1>8 DEF SubmitBufferDone, SubmitRawDone, IInv, TypeOK, Buffer
  <2>2. QED
    BY <1>0, <1>1, <1>8, <2>1 DEF SubmitBufferDone, SubmitRawDone, Newest, Copying,
                                  IdleSubmission
<1>10. ASSUME submission.pc = "copy", submission.pos <= submission.len
       PROVE  /\ submission.pos \in 1..MaxLen /\ Newest = m_frames + 1
              /\ \A i \in 1..submission.pos - 1 : ModeBuffer.mem[i] = Newest
  BY <1>10 DEF IInv, TypeOK, Submission, ContentInv, Newest, Copying
<1>11. CASE SubmitBufferCopy
  <2>1. /\ submission.pc = "copy" /\ submission.pos <= submission.len /\ ~m_rawMode
        /\ m_frameBuffer' = [m_frameBuffer EXCEPT !.mem[submission.pos] = Newest]
        /\ m_rawBuffer' = m_rawBuffer /\ m_frames' = m_frames
    BY <1>10, <1>11 DEF SubmitBufferCopy
  <2>2. Newest' = Newest
    BY <1>11, <2>1 DEF SubmitBufferCopy, Newest, Copying, IInv, TypeOK, Submission
  <2>3. ModeBuffer = m_frameBuffer /\ m_frameBuffer \in Buffer
    BY <2>1 DEF ModeBuffer, IInv, TypeOK
  <2>4. \A i \in 1..MaxLen :
           m_frameBuffer'.mem[i] <= Newest
           /\ \A j \in i..MaxLen : m_frameBuffer'.mem[j] <= m_frameBuffer'.mem[i]
    <3>1. submission.pos \in 1..MaxLen /\ BeginsWith(m_frameBuffer.mem, submission.pos - 1, Newest)
      BY <1>10, <2>1, <2>3 DEF BeginsWith
    <3>2. Layers(m_frameBuffer.mem, Newest)
      BY DEF IInv, LayersInv, Layers
    <3>3. /\ m_frameBuffer.mem \in [1..MaxLen -> Nat]
          /\ m_frameBuffer'.mem = [m_frameBuffer.mem EXCEPT ![submission.pos] = Newest]
      BY <2>1, <2>3 DEF Buffer
    <3>4. Layers(m_frameBuffer'.mem, Newest)
      <4>1. Layers([m_frameBuffer.mem EXCEPT ![submission.pos] = Newest], Newest)
        BY <1>0, <3>1, <3>2, <3>3, LayerOnTop, Zenon
      <4>2. QED
        BY <3>3, <4>1
    <3>5. QED
      BY <3>4 DEF Layers
  <2>5. QED
    BY <2>1, <2>2, <2>4 DEF IInv, LayersInv
<1>12. CASE SubmitRawCopy
  <2>1. /\ submission.pc = "copy" /\ submission.pos <= submission.len /\ m_rawMode
        /\ m_rawBuffer' = [m_rawBuffer EXCEPT !.mem[submission.pos] = Newest]
        /\ m_frameBuffer' = m_frameBuffer /\ m_frames' = m_frames
    BY <1>10, <1>12 DEF SubmitRawCopy
  <2>2. Newest' = Newest
    BY <1>12, <2>1 DEF SubmitRawCopy, Newest, Copying, IInv, TypeOK, Submission
  <2>3. ModeBuffer = m_rawBuffer /\ m_rawBuffer \in Buffer
    BY <2>1 DEF ModeBuffer, IInv, TypeOK
  <2>4. \A i \in 1..MaxLen :
           m_rawBuffer'.mem[i] <= Newest
           /\ \A j \in i..MaxLen : m_rawBuffer'.mem[j] <= m_rawBuffer'.mem[i]
    <3>1. submission.pos \in 1..MaxLen /\ BeginsWith(m_rawBuffer.mem, submission.pos - 1, Newest)
      BY <1>10, <2>1, <2>3 DEF BeginsWith
    <3>2. Layers(m_rawBuffer.mem, Newest)
      BY DEF IInv, LayersInv, Layers
    <3>3. /\ m_rawBuffer.mem \in [1..MaxLen -> Nat]
          /\ m_rawBuffer'.mem = [m_rawBuffer.mem EXCEPT ![submission.pos] = Newest]
      BY <2>1, <2>3 DEF Buffer
    <3>4. Layers(m_rawBuffer'.mem, Newest)
      <4>1. Layers([m_rawBuffer.mem EXCEPT ![submission.pos] = Newest], Newest)
        BY <1>0, <3>1, <3>2, <3>3, LayerOnTop, Zenon
      <4>2. QED
        BY <3>3, <4>1
    <3>5. QED
      BY <3>4 DEF Layers
  <2>5. QED
    BY <2>1, <2>2, <2>4 DEF IInv, LayersInv
<1>13. ASSUME NEW r \in Readers, ApiCall(r) \/ ApiStep(r) PROVE LayersInv'
  BY <1>0, <1>1, <1>13, CallersKeepFrames DEF Newest, Copying
<1>14. QED
  BY <1>2, <1>3, <1>4, <1>5, <1>6, <1>7, <1>8, <1>11, <1>12, <1>13
     DEF Next, CaptureThread

(* The steps between a call's start and its end hand nothing over. *)
LEMMA InternalSteps ==
  ASSUME NEW r \in Readers,
         ApiCall(r) \/ Acquire(r) \/ HasNewFrameReturn(r) \/ GetFrameSizeReturn(r)
         \/ CaptureFrameRawTooSmall(r) \/ DecodeFrameNone(r) \/ CaptureFrameCopy(r)
         \/ CaptureFrameRawCopy(r) \/ DecodeFrameRead(r) \/ DecodeFrameReturn(r, FALSE)
  PROVE  UNCHANGED <<phase, m_rawMode, buffers, submission, got, taken>>
  BY DEF ApiCall, HasNewFrame, GetFrameSize, CaptureFrame, CaptureFrameRaw,
         DecodeFrame, Begin, Acquire, HasNewFrameReturn, GetFrameSizeReturn,
         CaptureFrameCopy, CaptureFrameRawTooSmall, CaptureFrameRawCopy,
         DecodeFrameNone, DecodeFrameRead, DecodeFrameReturn, Copy, Return,
         buffers

(* Only a call that returns a frame changes what a caller was handed. *)
LEMMA OnlyDeliveriesChangeGot ==
  ASSUME [Next]_vars, got' # got
  PROVE  \E r \in Readers :
           \/ CaptureFrameReturn(r) \/ CaptureFrameRawReturn(r) \/ DecodeFrameReturn(r, TRUE)
<1> USE DEF buffers, callers
<1>1. ~(Close \/ Teardown \/ Gone \/ UNCHANGED vars \/ CaptureThread)
  BY DEF Close, Teardown, Gone, vars, CaptureThread, SubmitBufferLock, SubmitBufferDrop,
         SubmitBufferCopy, SubmitBufferDone, SubmitRawLock, SubmitRawCopy, SubmitRawDone
<1>2. ~(\E raw \in BOOLEAN : Open(raw)) /\ ~(\E len \in FrameLens : Submit(len))
  BY DEF Open, Submit
<1>3. QED
  BY <1>1, <1>2, InternalSteps DEF Next, ApiStep

(* What was handed over stays older than what the buffer becomes, if the    *)
(* buffer changes behind a new first chunk only.                            *)
LEMMA GotStays ==
  ASSUME IInv, TypeOK', UNCHANGED <<got, m_rawMode>>,
         phase' = "created" => phase = "created",
         m_frames <= m_frames',
         \A i \in 1..MaxLen : ModeBuffer.mem[i] <= ModeBuffer'.mem[i],
         \/ ModeBuffer'.mem = ModeBuffer.mem
         \/ ModeBuffer'.mem[1] > m_frames
  PROVE  GotInv'
<1>1. /\ got \in [Readers -> Seq(Nat)]
      /\ ModeBuffer \in Buffer /\ ModeBuffer' \in Buffer
      /\ m_frames \in Nat /\ m_frames' \in Nat
  BY DEF IInv, TypeOK, ModeBuffer
<1>2. ASSUME NEW r \in Readers PROVE GotOK(r)'
  <2>1. Len(got[r]) <= MaxLen /\ got[r] \in Seq(Nat) /\ GotOK(r)
    BY <1>1 DEF IInv, GotInv, GotOK
  <2>2. ASSUME NEW i \in 1..Len(got[r])
        PROVE  got[r][i] <= ModeBuffer'.mem[i] /\ got[r][i] <= m_frames'
    <3>1. /\ i \in 1..MaxLen /\ got[r][i] \in Nat
          /\ got[r][i] <= ModeBuffer.mem[i] /\ got[r][i] <= m_frames
      BY <2>1 DEF GotOK
    <3>2. ModeBuffer.mem[i] \in Nat /\ ModeBuffer'.mem[i] \in Nat
      BY <1>1, <3>1 DEF Buffer
    <3>3. QED
      BY <1>1, <3>1, <3>2
  <2>3. Len(got[r]) > 0 => got[r][1] \in Nat /\ got[r][1] <= m_frames
    BY <2>1 DEF GotOK
  <2>4. ASSUME Len(got[r]) > 0, got[r][1] = ModeBuffer'.mem[1]
        PROVE  \A i \in 1..Len(got[r]) : got[r][i] = ModeBuffer'.mem[i]
    <3>1. ModeBuffer'.mem = ModeBuffer.mem
      BY <1>1, <2>3, <2>4
    <3>2. QED
      BY <2>1, <2>4, <3>1 DEF GotOK
  <2>5. QED
    BY <2>1, <2>2, <2>4 DEF GotOK
<1>3. DeliveriesInLayers'
  BY DEF IInv, GotInv, DeliveriesInLayers
<1>4. QED
  BY <1>2, <1>3 DEF IInv, GotInv

(* The chunks a call hands over are the beginning of the buffer; a raw      *)
(* frame is handed over as a whole.                                         *)
LEMMA DeliverChunks ==
  ASSUME IInv, NEW r \in Readers, call[r].pc = "locked", Deliver(r)
  PROVE  /\ call[r].pos - 1 \in 0..MaxLen
         /\ got' = [got EXCEPT ![r] = Chunks(ModeBuffer, call[r].pos - 1)]
<1>1. CallOK(r) /\ CopyBound(r) \in 0..MaxLen /\ call[r].pos \in Nat \ {0}
  BY CopyInside DEF IInv, CallInv
<1>2. /\ call[r].pos <= CopyBound(r) + 1
      /\ call[r].seen = Chunks(ModeBuffer, call[r].pos - 1)
  BY <1>1 DEF CallOK
<1>3. QED
  BY <1>1, <1>2 DEF Deliver

LEMMA DeliverGotInv ==
  ASSUME IInv, TypeOK', NEW r \in Readers, call[r].pc = "locked", Deliver(r),
         UNCHANGED <<phase, m_rawMode, m_frames, m_frameBuffer, m_rawBuffer>>,
         m_rawMode => call[r].pos - 1 <= m_rawBuffer.len
  PROVE  GotInv'
<1> DEFINE n == call[r].pos - 1
           d == Chunks(ModeBuffer, n)
<1>1. n \in 0..MaxLen /\ got' = [got EXCEPT ![r] = d]
  BY DeliverChunks
<1>2. got \in [Readers -> Seq(Nat)] /\ ModeBuffer \in Buffer /\ ModeBuffer' = ModeBuffer
  BY DEF IInv, TypeOK, ModeBuffer
<1>3. /\ Len(d) = n /\ DOMAIN d = 1..n
      /\ \A i \in 1..n : d[i] = ModeBuffer.mem[i] /\ d[i] \in Nat
  BY <1>1, <1>2 DEF Chunks, Buffer
<1>4. /\ call[r].pc # "idle" /\ phase \in {"open", "closing"}
      /\ submission.pc # "copy"
  BY MutexHeld DEF IInv, CallInv, CallOK
<1>5. \A i, j \in 1..n : i < j => d[j] <= d[i]
  <2>1. \A i \in 1..MaxLen : \A j \in i..MaxLen : ModeBuffer.mem[j] <= ModeBuffer.mem[i]
    BY DEF IInv, LayersInv, ModeBuffer
  <2>2. QED
    BY <1>1, <1>3, <2>1
<1>6. m_rawMode => \A i, j \in 1..n : d[i] = d[j]
  <2> SUFFICES ASSUME m_rawMode PROVE \A i, j \in 1..n : d[i] = d[j]
    OBVIOUS
  <2>1. \A i \in 1..m_rawBuffer.len : ModeBuffer.mem[i] = m_frames
    BY <1>4 DEF IInv, ContentInv, ModeBuffer
  <2>2. m_rawBuffer.len \in Nat
    BY DEF IInv, TypeOK, Buffer
  <2>3. \A i \in 1..n : d[i] = m_frames
    BY <1>1, <1>3, <2>1, <2>2
  <2>4. QED
    BY <2>3
<1>12. \A i \in 1..n : d[i] <= m_frames
  <2>1. \A i \in 1..MaxLen : ModeBuffer.mem[i] <= m_frames
    BY <1>4 DEF IInv, LayersInv, ModeBuffer, Newest, Copying
  <2>2. QED
    BY <1>1, <1>3, <2>1
<1> HIDE DEF d, n
<1>7. got'[r] = d /\ \A q \in Readers \ {r} : got'[q] = got[q]
  BY <1>1, <1>2
<1>8. ASSUME NEW q \in Readers PROVE GotOK(q)'
  <2>1. CASE q = r
    BY <1>1, <1>2, <1>3, <1>7, <1>12, <2>1 DEF GotOK
  <2>2. CASE q # r
    <3>1. GotOK(q) /\ got'[q] = got[q] /\ ModeBuffer' = ModeBuffer /\ m_frames' = m_frames
      BY <1>2, <1>7, <2>2 DEF IInv, GotInv
    <3>2. QED
      BY Zenon, <3>1 DEF GotOK
  <2>3. QED
    BY <2>1, <2>2
<1>9. ASSUME NEW q \in Readers, NEW i \in DOMAIN got'[q], NEW j \in DOMAIN got'[q], i < j
      PROVE  got'[q][j] <= got'[q][i] /\ (got'[q][j] < got'[q][i] => ~m_rawMode)
  <2>1. CASE q = r
    <3>1. i \in 1..n /\ j \in 1..n
      BY <1>3, <1>7, <1>9, <2>1
    <3>2. d[i] \in Nat /\ d[j] \in Nat
      BY <1>3, <3>1
    <3>3. QED
      BY <1>5, <1>6, <1>7, <1>9, <2>1, <3>1, <3>2
  <2>2. CASE q # r
    BY <1>7, <1>9, <2>2 DEF IInv, GotInv, DeliveriesInLayers
  <2>3. QED
    BY <2>1, <2>2
<1>10. DeliveriesInLayers'
  BY <1>9 DEF DeliveriesInLayers
<1>11. QED
  BY <1>2, <1>4, <1>8, <1>10 DEF GotInv

LEMMA NextGotInv == IInv /\ TypeOK' /\ [Next]_vars => GotInv'
<1> SUFFICES ASSUME IInv, TypeOK', [Next]_vars PROVE GotInv'
  OBVIOUS
<1> USE DEF buffers, callers
<1>0. /\ m_frameBuffer \in Buffer /\ m_rawBuffer \in Buffer /\ ModeBuffer \in Buffer
      /\ \A i \in 1..MaxLen : ModeBuffer.mem[i] \in Nat
      /\ m_frames \in Nat
  BY DEF IInv, TypeOK, ModeBuffer, Buffer
<1>1. ASSUME NEW raw \in BOOLEAN, Open(raw) PROVE GotInv'
  <2>1. phase = "created" /\ got' = got /\ phase' = "open"
    BY <1>1 DEF Open
  <2>2. \A r \in Readers : got'[r] = <<>>
    BY <2>1 DEF IInv, GotInv
  <2>3. QED
    BY <2>1, <2>2 DEF GotInv, GotOK, DeliveriesInLayers
<1>2. ASSUME UNCHANGED <<got, m_rawMode>>, phase' = "created" => phase = "created",
             m_frames <= m_frames',
             m_frameBuffer'.mem = m_frameBuffer.mem, m_rawBuffer'.mem = m_rawBuffer.mem
      PROVE  GotInv'
  <2>1. ModeBuffer'.mem = ModeBuffer.mem
    BY <1>2 DEF ModeBuffer
  <2>2. QED
    BY <1>0, <1>2, <2>1, GotStays
<1>3. CASE Close \/ Gone \/ UNCHANGED vars \/ \E len \in FrameLens : Submit(len)
  BY <1>0, <1>2, <1>3 DEF Close, Gone, vars, Submit
<1>4. CASE Teardown
  BY <1>0, <1>2, <1>4 DEF Teardown, Buffer
<1>5. CASE SubmitBufferLock \/ SubmitBufferDrop
  BY <1>0, <1>2, <1>5 DEF SubmitBufferLock, SubmitBufferDrop
<1>6. CASE SubmitBufferDone
  BY <1>0, <1>2, <1>6 DEF SubmitBufferDone, Buffer
<1>7. CASE SubmitRawLock
  BY <1>0, <1>2, <1>7 DEF SubmitRawLock, Buffer
<1>8. CASE SubmitRawDone
  BY <1>0, <1>2, <1>8 DEF SubmitRawDone, Buffer
<1>9. ASSUME NEW b \in Buffer, NEW c, NEW p, c = [b EXCEPT !.mem[p] = m_frames + 1],
             p = 1 \/ b.mem[1] = m_frames + 1,
             \A i \in 1..MaxLen : b.mem[i] <= m_frames + 1
      PROVE  /\ \A i \in 1..MaxLen : b.mem[i] <= c.mem[i]
             /\ c.mem[1] > m_frames
  <2>1. m_frames \in Nat /\ 1 \in 1..MaxLen
    BY DEF IInv, TypeOK
  <2>2. \A i \in 1..MaxLen : b.mem[i] \in Nat /\ c.mem[i] = IF i = p THEN m_frames + 1 ELSE b.mem[i]
    BY <1>9 DEF Buffer
  <2>3. \A i \in 1..MaxLen : b.mem[i] <= c.mem[i]
    BY <1>9, <2>1, <2>2
  <2>4. c.mem[1] = m_frames + 1
    BY <1>9, <2>1, <2>2
  <2>5. QED
    BY <2>1, <2>3, <2>4
<1>16. submission.pc = "copy" => submission.pos = 1 \/ ModeBuffer.mem[1] = m_frames + 1
  <2>1. submission.pos \in 1..MaxLen + 1
    BY DEF IInv, TypeOK, Submission
  <2>2. QED
    BY <2>1 DEF IInv, ContentInv
<1>10. submission.pc = "copy" => \A b \in {m_frameBuffer, m_rawBuffer} :
          \A i \in 1..MaxLen : b.mem[i] <= m_frames + 1
  BY DEF IInv, LayersInv, Newest, Copying
<1>11. CASE SubmitBufferCopy
  <2>1. /\ submission.pc = "copy" /\ ~m_rawMode /\ UNCHANGED <<got, m_rawMode, phase, m_frames>>
        /\ m_frameBuffer' = [m_frameBuffer EXCEPT !.mem[submission.pos] = m_frames + 1]
    BY <1>11 DEF SubmitBufferCopy
  <2>2. ModeBuffer = m_frameBuffer /\ ModeBuffer' = m_frameBuffer'
    BY <2>1 DEF ModeBuffer
  <2>3. /\ \A i \in 1..MaxLen : ModeBuffer.mem[i] <= ModeBuffer'.mem[i]
        /\ ModeBuffer'.mem[1] > m_frames
    BY <1>0, <1>9, <1>10, <1>16, <2>1, <2>2
  <2>4. QED
    BY <1>0, <2>1, <2>3, GotStays
<1>12. CASE SubmitRawCopy
  <2>1. /\ submission.pc = "copy" /\ m_rawMode /\ UNCHANGED <<got, m_rawMode, phase, m_frames>>
        /\ m_rawBuffer' = [m_rawBuffer EXCEPT !.mem[submission.pos] = m_frames + 1]
    BY <1>12 DEF SubmitRawCopy
  <2>2. ModeBuffer = m_rawBuffer /\ ModeBuffer' = m_rawBuffer'
    BY <2>1 DEF ModeBuffer
  <2>3. /\ \A i \in 1..MaxLen : ModeBuffer.mem[i] <= ModeBuffer'.mem[i]
        /\ ModeBuffer'.mem[1] > m_frames
    BY <1>0, <1>9, <1>10, <1>16, <2>1, <2>2
  <2>4. QED
    BY <1>0, <2>1, <2>3, GotStays
<1>13. ASSUME NEW r \in Readers,
              \/ ApiCall(r) \/ Acquire(r) \/ HasNewFrameReturn(r) \/ GetFrameSizeReturn(r)
              \/ CaptureFrameRawTooSmall(r) \/ DecodeFrameNone(r) \/ CaptureFrameCopy(r)
              \/ CaptureFrameRawCopy(r) \/ DecodeFrameRead(r) \/ DecodeFrameReturn(r, FALSE)
       PROVE  GotInv'
  <2>1. UNCHANGED <<phase, m_rawMode, m_frames, m_frameBuffer, m_rawBuffer, got>>
    BY <1>13, InternalSteps
  <2>2. QED
    BY <1>0, <1>2, <2>1
<1>14. ASSUME NEW r \in Readers,
              \/ CaptureFrameReturn(r) \/ CaptureFrameRawReturn(r) \/ DecodeFrameReturn(r, TRUE)
       PROVE  GotInv'
  <2>1. /\ call[r].pc = "locked" /\ Deliver(r)
        /\ UNCHANGED <<phase, m_rawMode, m_frames, m_frameBuffer, m_rawBuffer>>
    BY <1>14 DEF CaptureFrameReturn, CaptureFrameRawReturn, DecodeFrameReturn, Holds, Return
  <2>2. call[r].pos <= CopyBound(r) + 1 /\ (m_rawMode => call[r].op # "captureFrame")
    BY <2>1 DEF IInv, CallInv, CallOK
  <2>3. m_rawMode => call[r].pos - 1 <= m_rawBuffer.len
    <3>1. call[r].pos \in Nat /\ m_rawBuffer.len \in Nat
      BY DEF IInv, TypeOK, Call, Buffer
    <3>2. QED
      BY <2>2, <3>1 DEF CopyBound
  <2>4. QED
    BY <2>1, <2>3, DeliverGotInv
<1>15. QED
  BY <1>1, <1>3, <1>4, <1>5, <1>6, <1>7, <1>8, <1>11, <1>12, <1>13, <1>14
     DEF Next, CaptureThread, ApiStep

LEMMA InitIInv == Init => IInv
<1> SUFFICES ASSUME Init PROVE IInv
  OBVIOUS
<1>1. TypeOK
  BY InitTypeOK
<1>2. MutexInv /\ ContentInv /\ CallInv
  BY DEF Init, MutexInv, ContentInv, CallInv, CallOK, ModeBuffer, OtherBuffer,
         NewBuffer, IdleSubmission, IdleCall
<1>3. CopiesStayInside /\ NewFrameFlagExact /\ TakenInv
  BY DEF Init, CopiesStayInside, NewFrameFlagExact, TakenInv, NewBuffer,
         IdleSubmission
<1>4. LayersInv
  BY DEF Init, LayersInv, NewBuffer, Newest, Copying, IdleSubmission
<1>5. GotInv
  BY DEF Init, GotInv, GotOK, DeliveriesInLayers
<1>6. QED
  BY <1>1, <1>2, <1>3, <1>4, <1>5 DEF IInv

LEMMA NextIInv == IInv /\ [Next]_vars => IInv'
<1> SUFFICES ASSUME IInv, [Next]_vars PROVE IInv'
  OBVIOUS
<1>1. TypeOK'
  BY NextTypeOK DEF IInv
<1>2. QED
  BY <1>1, NextMutexInv, NextContentInv, NextLayersInv, NextCopiesStayInside,
     NextCallInv, NextFlagInv, NextGotInv DEF IInv

LEMMA InvariantHolds == Spec => []IInv
  BY InitIInv, NextIInv, PTL DEF Spec

(* However many callers copy while the capture thread stores the next       *)
(* frame: a raw frame is handed out unmixed, and an RGB picture shows older *)
(* chunks only behind newer ones.                                           *)
THEOREM DeliveriesLayered == Spec => []DeliveriesInLayers
<1>1. IInv => DeliveriesInLayers
  BY DEF IInv, GotInv
<1>2. QED
  BY <1>1, InvariantHolds, PTL

(* On a device whose RGB frames fill the frame buffer, the buffer holds one *)
(* frame, whole, and so does what was handed over.                          *)
FullFrames == \A len \in FrameLens : len >= FrameBufferLen

WholeInv ==
  /\ m_frameBuffer.len \in {0, FrameBufferLen}
  /\ submission.pc = "copy" /\ ~m_rawMode => submission.len = FrameBufferLen
  /\ OneFramePerDelivery

(* An RGB delivery shows one frame when the buffer does. *)
LEMMA WholeDelivery ==
  ASSUME IInv, WholeInv, NEW r \in Readers, CaptureFrameReturn(r)
  PROVE  OneFramePerDelivery'
<1>1. call[r].pc = "locked" /\ call[r].op = "captureFrame" /\ Deliver(r)
  BY DEF CaptureFrameReturn, Holds
<1> DEFINE n == call[r].pos - 1
<1>2. /\ n \in 0..MaxLen /\ got' = [got EXCEPT ![r] = Chunks(ModeBuffer, n)]
      /\ got \in [Readers -> Seq(Nat)]
  BY <1>1, DeliverChunks DEF IInv, TypeOK
<1>3. /\ ModeBuffer = m_frameBuffer /\ m_frameBuffer \in Buffer
      /\ call[r].pos <= CaptureFrameLen(r) + 1 /\ call[r].pos \in Nat /\ call[r].size \in Nat
      /\ phase \in {"open", "closing"} /\ call[r].pos \in Nat
  BY <1>1 DEF IInv, CallInv, CallOK, CopyBound, ModeBuffer, TypeOK, Call
<1>4. m_frameBuffer.size = FrameBufferLen /\ submission.pc # "copy"
  BY <1>1, <1>3, MutexHeld DEF IInv, ContentInv
<1>5. n <= FrameBufferLen
  BY <1>3, <1>4 DEF CaptureFrameLen, MinOf
<1>6. \A i \in 1..n : m_frameBuffer.mem[i] = m_frames
  <2>1. CASE m_frameBuffer.len = FrameBufferLen
    <3>1. \A i \in 1..FrameBufferLen : m_frameBuffer.mem[i] = m_frames
      BY <1>3, <1>4, <2>1 DEF IInv, ContentInv
    <3>2. QED
      BY <1>2, <1>5, <3>1
  <2>2. CASE m_frameBuffer.len = 0
    <3>1. m_frames = 0 /\ Newest = 0
      BY <1>3, <1>4, <2>2 DEF IInv, ContentInv, Newest, Copying
    <3> HIDE DEF n
    <3>2. \A i \in 1..MaxLen : m_frameBuffer.mem[i] <= 0
      BY <3>1 DEF IInv, LayersInv
    <3>3. \A i \in 1..MaxLen : m_frameBuffer.mem[i] \in Nat
      BY <1>3 DEF Buffer
    <3>4. MaxLen \in Nat
      BY StreamAssumption DEF StreamAssumption
    <3>5. QED
      BY <1>2, <3>1, <3>2, <3>3, <3>4
  <2>3. QED
    BY <2>1, <2>2 DEF WholeInv
<1> HIDE DEF n
<1>7. got'[r] = Chunks(ModeBuffer, n) /\ \A q \in Readers \ {r} : got'[q] = got[q]
  BY <1>2
<1>8. DOMAIN got'[r] = 1..n /\ \A i \in 1..n : got'[r][i] = m_frames
  BY <1>3, <1>6, <1>7 DEF Chunks
<1>9. ASSUME NEW q \in Readers, NEW i \in DOMAIN got'[q], NEW j \in DOMAIN got'[q]
      PROVE  got'[q][i] = got'[q][j]
  <2>1. CASE q = r
    BY <1>8, <1>9, <2>1
  <2>2. CASE q # r
    BY <1>7, <1>9, <2>2 DEF WholeInv, OneFramePerDelivery
  <2>3. QED
    BY <2>1, <2>2
<1>10. QED
  BY <1>9 DEF OneFramePerDelivery

LEMMA NextWholeInv ==
  ASSUME FullFrames
  PROVE  IInv /\ IInv' /\ WholeInv /\ [Next]_vars => WholeInv'
<1> SUFFICES ASSUME IInv, IInv', WholeInv, [Next]_vars PROVE WholeInv'
  OBVIOUS
<1> USE DEF buffers, callers
<1>0. /\ m_frameBuffer \in Buffer /\ m_rawBuffer \in Buffer /\ submission \in Submission
  BY DEF IInv, TypeOK
<1>1. got' = got => OneFramePerDelivery'
  BY DEF WholeInv, OneFramePerDelivery
<1>2. ASSUME UNCHANGED <<m_frameBuffer, m_rawMode, got>>,
             submission'.pc = "copy" => submission.pc = "copy" /\ submission'.len = submission.len
      PROVE  WholeInv'
  BY <1>1, <1>2 DEF WholeInv
<1>3. CASE \/ Close \/ Gone \/ UNCHANGED vars \/ \E len \in FrameLens : Submit(len)
           \/ SubmitBufferDrop \/ SubmitRawDone
  BY <1>0, <1>2, <1>3 DEF Close, Gone, vars, Submit, SubmitBufferDrop, SubmitRawDone,
                          IdleSubmission
<1>4. ASSUME NEW raw \in BOOLEAN, Open(raw) PROVE WholeInv'
  <2>1. m_frameBuffer'.len = m_frameBuffer.len /\ submission'.pc # "copy" /\ got' = got
    BY <1>0, <1>4 DEF Open, IInv, ContentInv, Buffer
  <2>2. QED
    BY <1>1, <2>1 DEF WholeInv
<1>5. CASE Teardown
  <2>1. m_frameBuffer'.len = m_frameBuffer.len /\ submission'.pc # "copy" /\ got' = got
    BY <1>0, <1>5 DEF Teardown, Buffer
  <2>2. QED
    BY <1>1, <2>1 DEF WholeInv
<1>6. CASE SubmitBufferLock
  <2>1. /\ UNCHANGED <<m_frameBuffer, m_rawMode, got>> /\ submission'.len = submission.len
        /\ submission'.pc = "copy" => m_frameBuffer.size >= submission.len
        /\ submission.pc # "idle"
    BY <1>0, <1>6 DEF SubmitBufferLock, Submission
  <2>2. m_frameBuffer.size = FrameBufferLen /\ submission.len \in FrameLens
    BY <2>1 DEF IInv, ContentInv
  <2>3. submission'.pc = "copy" => submission.len = FrameBufferLen
    BY <1>0, <2>1, <2>2 DEF FullFrames, Submission
  <2>4. QED
    BY <1>1, <2>1, <2>3 DEF WholeInv
<1>7. CASE SubmitBufferCopy
  <2>1. /\ m_frameBuffer'.len = m_frameBuffer.len /\ submission.pc = "copy"
        /\ submission'.len = submission.len /\ UNCHANGED <<m_rawMode, got>>
    BY <1>0, <1>7 DEF SubmitBufferCopy, Buffer, Submission
  <2>2. QED
    BY <1>1, <2>1 DEF WholeInv
<1>8. CASE SubmitBufferDone
  <2>1. /\ m_frameBuffer'.len = submission.len /\ submission.pc = "copy" /\ ~m_rawMode
        /\ submission'.pc = "idle" /\ got' = got
    BY <1>0, <1>8 DEF SubmitBufferDone, Buffer, IdleSubmission
  <2>2. QED
    BY <1>1, <2>1 DEF WholeInv
<1>9. CASE SubmitRawLock \/ SubmitRawCopy
  <2>1. UNCHANGED <<m_frameBuffer, m_rawMode, got>> /\ m_rawMode
    BY <1>9 DEF SubmitRawLock, SubmitRawCopy
  <2>2. QED
    BY <1>1, <2>1 DEF WholeInv
<1>10. ASSUME NEW r \in Readers, ApiCall(r) \/ ApiStep(r) PROVE WholeInv'
  <2>1. UNCHANGED <<m_frameBuffer, m_rawMode, submission>>
    BY <1>10, CallersKeepFrames
  <2>2. CASE got' = got
    BY <1>1, <2>1, <2>2 DEF WholeInv
  <2>3. CASE m_rawMode
    <3>1. m_rawMode' = TRUE
      BY <2>1, <2>3 DEF IInv, TypeOK
    <3>2. DeliveriesInLayers' /\ got' \in [Readers -> Seq(Nat)]
      BY DEF IInv, GotInv, TypeOK
    <3>3. ASSUME NEW q \in Readers, NEW i \in DOMAIN got'[q], NEW j \in DOMAIN got'[q]
          PROVE  got'[q][i] = got'[q][j]
      <4>1. /\ i \in Nat /\ j \in Nat /\ got'[q][i] \in Nat /\ got'[q][j] \in Nat
        BY <3>2, <3>3
      <4>2. /\ i < j => got'[q][j] <= got'[q][i] /\ ~(got'[q][j] < got'[q][i])
            /\ j < i => got'[q][i] <= got'[q][j] /\ ~(got'[q][i] < got'[q][j])
        BY <3>1, <3>2, <3>3 DEF DeliveriesInLayers
      <4>3. i < j \/ j < i \/ i = j
        BY <4>1
      <4>4. QED
        BY <4>1, <4>2, <4>3
    <3>4. OneFramePerDelivery'
      BY <3>3 DEF OneFramePerDelivery
    <3>5. QED
      BY <2>1, <3>4 DEF WholeInv
  <2>4. CASE got' # got /\ ~m_rawMode
    <3>1. PICK q \in Readers :
            \/ CaptureFrameReturn(q) \/ CaptureFrameRawReturn(q) \/ DecodeFrameReturn(q, TRUE)
      BY <2>4, OnlyDeliveriesChangeGot
    <3>2. CaptureFrameReturn(q)
      BY <2>4, <3>1 DEF CaptureFrameRawReturn, DecodeFrameReturn, Holds, IInv, CallInv, CallOK
    <3>3. OneFramePerDelivery'
      BY <3>2, WholeDelivery
    <3>4. QED
      BY <2>1, <3>3 DEF WholeInv
  <2>5. QED
    BY <2>2, <2>3, <2>4
<1>11. QED
  BY <1>3, <1>4, <1>5, <1>6, <1>7, <1>8, <1>9, <1>10 DEF Next, CaptureThread

(* A device whose frames are never shorter than the RGB picture: whatever   *)
(* the callers do, every delivery is one frame.                             *)
THEOREM FullFramesUnmixed ==
  ASSUME FullFrames
  PROVE  Spec => []OneFramePerDelivery
<1>1. Init => WholeInv
  BY DEF Init, WholeInv, OneFramePerDelivery, NewBuffer, IdleSubmission
<1>2. WholeInv => OneFramePerDelivery
  BY DEF WholeInv
<1>3. QED
  BY <1>1, <1>2, NextWholeInv, InvariantHolds, PTL DEF Spec

(* No copy runs past the vector it reads or writes. *)
THEOREM CopiesInside == Spec => []CopiesStayInside
<1>1. IInv => CopiesStayInside
  BY DEF IInv
<1>2. QED
  BY <1>1, InvariantHolds, PTL

(* hasNewFrame's flag says exactly whether the newest frame is uncaptured.  *)
THEOREM FlagExact == Spec => []NewFrameFlagExact
<1>1. IInv => NewFrameFlagExact
  BY DEF IInv
<1>2. QED
  BY <1>1, InvariantHolds, PTL
-----------------------------------------------------------------------------
(* Refinement. *)

(* The picture depends on the frames only. *)
LEMMA PictureKept ==
  ASSUME UNCHANGED <<m_rawMode, m_frames, m_frameBuffer, m_rawBuffer, submission>>
  PROVE  UNCHANGED <<Copying, Newest, Picture>>
  BY DEF Copying, Newest, Picture, PictureLen

(* Between two submissions it is the beginning of the mode's buffer. *)
LEMMA PictureStill ==
  ASSUME IInv, ~Copying
  PROVE  /\ Newest = m_frames
         /\ PictureLen = IF m_rawMode THEN m_rawBuffer.len ELSE FrameBufferLen
         /\ PictureLen \in 0..MaxLen /\ Len(Picture) = PictureLen
         /\ Picture = Chunks(ModeBuffer, PictureLen)
<1>1. /\ PictureLen = IF m_rawMode THEN m_rawBuffer.len ELSE FrameBufferLen
      /\ PictureLen \in 0..MaxLen
  BY DEF PictureLen, IInv, TypeOK, Buffer
<1>2. Picture = Chunks(ModeBuffer, PictureLen)
  BY DEF Picture, Chunks, ModeBuffer
<1>3. Len(Chunks(ModeBuffer, PictureLen)) = PictureLen
  BY <1>1 DEF Chunks
<1>4. QED
  BY <1>1, <1>2, <1>3 DEF Newest

(* A call that returns a frame hands over the picture, a raw one whole. *)
LEMMA MailboxHandOver ==
  ASSUME IInv, NEW r \in Readers, call[r].pc = "locked", Deliver(r),
         call[r].pos - 1 <= PictureLen, m_rawMode => call[r].pos - 1 = PictureLen
  PROVE  Mailbox!HandOver(r)
<1> DEFINE n == call[r].pos - 1
<1>1. ~Copying
  BY MutexHeld DEF IInv, Copying
<1>2. /\ Len(Picture) = PictureLen /\ PictureLen \in 0..MaxLen
      /\ Picture = Chunks(ModeBuffer, PictureLen)
  BY <1>1, PictureStill
<1>3. n \in 0..MaxLen /\ got' = [got EXCEPT ![r] = Chunks(ModeBuffer, n)]
  BY DeliverChunks
<1>4. n \in 0..Len(Picture) /\ (m_rawMode => n = Len(Picture))
  BY <1>2, <1>3
<1> HIDE DEF n
<1>5. Chunks(ModeBuffer, n) = [i \in 1..n |-> Picture[i]]
  <2>1. \A i \in 1..n : Picture[i] = ModeBuffer.mem[i]
    BY <1>2, <1>4 DEF Chunks
  <2>2. QED
    BY <2>1 DEF Chunks
<1>6. QED
  BY <1>3, <1>4, <1>5 DEF Mailbox!HandOver

LEMMA MailboxTake ==
  ASSUME IInv, NEW r \in Readers, CaptureFrameReturn(r) \/ CaptureFrameRawReturn(r)
  PROVE  Mailbox!Take(r)
<1>1. /\ call[r].pc = "locked" /\ Deliver(r)
      /\ taken' = m_frames /\ m_newFrame' = FALSE
      /\ UNCHANGED <<m_rawMode, m_frames, m_frameBuffer, m_rawBuffer, submission>>
  BY DEF CaptureFrameReturn, CaptureFrameRawReturn, Holds, Return, Deliver
<1>2. ~Copying
  BY <1>1, MutexHeld DEF IInv, Copying
<1>3. UNCHANGED <<Copying, Newest, Picture>> /\ Newest = m_frames
  BY <1>1, <1>2, PictureKept, PictureStill
<1>4. /\ CallOK(r) /\ call[r].pos \in Nat \ {0} /\ call[r].size \in Nat
      /\ m_rawBuffer.len \in Nat /\ m_frameBuffer.size = FrameBufferLen
  <2>1. call[r] \in Call /\ m_rawBuffer \in Buffer /\ CallOK(r)
    BY DEF IInv, TypeOK, CallInv
  <2>2. phase \in {"open", "closing"}
    BY <1>1, <2>1 DEF CallOK
  <2>3. QED
    BY <2>1, <2>2 DEF IInv, ContentInv, Call, Buffer
<1>5. call[r].pos - 1 <= PictureLen /\ (m_rawMode => call[r].pos - 1 = PictureLen)
  <2>1. CASE CaptureFrameReturn(r)
    <3>1. ~m_rawMode /\ call[r].pos <= CaptureFrameLen(r) + 1
      BY <1>1, <1>4, <2>1 DEF CaptureFrameReturn, Holds, CallOK, CopyBound
    <3>2. QED
      BY <1>4, <3>1 DEF CaptureFrameLen, MinOf, PictureLen
  <2>2. CASE CaptureFrameRawReturn(r)
    <3>1. /\ m_rawMode /\ call[r].pos <= m_rawBuffer.len + 1
          /\ call[r].pos > m_rawBuffer.len
      BY <1>1, <1>4, <2>2 DEF CaptureFrameRawReturn, Holds, CallOK, CopyBound
    <3>2. QED
      BY <1>2, <1>4, <3>1 DEF PictureLen
  <2>3. QED
    BY <2>1, <2>2
<1>6. Mailbox!HandOver(r)
  BY <1>1, <1>5, MailboxHandOver
<1>7. (m_newFrame \/ Copying)' = FALSE
  BY <1>1, <1>2, <1>3
<1>8. QED
  BY <1>1, <1>3, <1>6, <1>7 DEF Mailbox!Take

LEMMA MailboxPeek ==
  ASSUME IInv, NEW r \in Readers, DecodeFrameReturn(r, TRUE)
  PROVE  Mailbox!Peek(r)
<1>1. /\ call[r].pc = "locked" /\ call[r].op = "decodeFrame" /\ Deliver(r)
      /\ m_rawBuffer.len > 0 /\ call[r].pos > m_rawBuffer.len
      /\ UNCHANGED <<taken, m_newFrame, m_rawMode, m_frames, m_frameBuffer, m_rawBuffer,
                     submission>>
  BY DEF DecodeFrameReturn, Holds, Return
<1>2. ~Copying
  BY <1>1, MutexHeld DEF IInv, Copying
<1>3. UNCHANGED <<Copying, Newest, Picture>> /\ Newest = m_frames
  BY <1>1, <1>2, PictureKept, PictureStill
<1>4. /\ m_rawMode /\ call[r].pos <= m_rawBuffer.len + 1
      /\ call[r].pos \in Nat \ {0} /\ m_rawBuffer.len \in Nat
  <2>1. CallOK(r)
    BY DEF IInv, CallInv
  <2>2. m_rawMode /\ call[r].pos <= m_rawBuffer.len + 1
    BY <1>1, <2>1 DEF CallOK, CopyBound
  <2>3. call[r].pos \in Nat \ {0}
    BY DEF IInv, TypeOK, Call
  <2>4. m_rawBuffer.len \in Nat
    BY DEF IInv, TypeOK, Buffer
  <2>5. QED
    BY <2>2, <2>3, <2>4
<1>5. m_frames > 0
  BY <1>1, <1>4 DEF IInv, TypeOK, ContentInv, ModeBuffer
<1>6. Mailbox!HandOver(r)
  BY <1>1, <1>2, <1>4, MailboxHandOver DEF PictureLen
<1>7. QED
  BY <1>1, <1>3, <1>4, <1>5, <1>6 DEF Mailbox!Peek

(* The capture thread publishes its frame when it begins to copy it; the    *)
(* copy itself, and its end, are invisible from outside.                    *)
LEMMA MailboxPublish ==
  ASSUME IInv, submission.pc = "lock", submission'.pc = "copy", submission'.len = submission.len,
         UNCHANGED <<m_rawMode, m_frames, m_newFrame, taken, got>>,
         m_frameBuffer'.mem = m_frameBuffer.mem, m_rawBuffer'.mem = m_rawBuffer.mem,
         m_rawMode \/ submission.len <= FrameBufferLen
  PROVE  Mailbox!Next
<1> DEFINE len == submission.len
<1>1. /\ ~Copying /\ Copying' /\ len \in FrameLens /\ len \in Nat
      /\ m_frames < MaxFrames
  BY DEF Copying, IInv, ContentInv, TypeOK, Submission
<1>2. /\ Newest = m_frames /\ Picture = Chunks(ModeBuffer, PictureLen)
      /\ PictureLen = IF m_rawMode THEN m_rawBuffer.len ELSE FrameBufferLen
  BY <1>1, PictureStill
<1>3. Newest' = Newest + 1
  BY <1>1, <1>2 DEF Newest
<1>4. PictureLen' = IF m_rawMode THEN len ELSE FrameBufferLen
  BY <1>1 DEF PictureLen
<1> DEFINE new == [i \in 1..(IF m_rawMode THEN len ELSE FrameBufferLen) |->
                     IF i <= len THEN Newest + 1 ELSE Picture[i]]
<1>5. Picture' = new
  <2>1. Picture' = [i \in 1..PictureLen' |->
                      IF i <= len THEN Newest' ELSE ModeBuffer.mem[i]]
    BY <1>1 DEF Picture, ModeBuffer
  <2>2. ASSUME NEW i \in 1..PictureLen', ~(i <= len) PROVE ModeBuffer.mem[i] = Picture[i]
    <3>1. ~m_rawMode /\ i \in 1..PictureLen
      BY <1>1, <1>2, <1>4, <2>2
    <3>2. QED
      BY <1>2, <3>1 DEF Chunks
  <2>3. QED
    BY <1>3, <1>4, <2>1, <2>2
<1> HIDE DEF new
<1>6. Mailbox!Publish(len)
  BY <1>1, <1>2, <1>3, <1>5 DEF Mailbox!Publish, new
<1>7. QED
  BY <1>1, <1>6 DEF Mailbox!Next

LEMMA PictureDuringCopy ==
  ASSUME IInv, Copying, Copying', submission'.len = submission.len,
         UNCHANGED <<m_rawMode, m_frames>>,
         \A i \in 1..MaxLen : i > submission.len =>
            /\ m_frameBuffer'.mem[i] = m_frameBuffer.mem[i]
            /\ m_rawBuffer'.mem[i] = m_rawBuffer.mem[i]
  PROVE  UNCHANGED <<Newest, Picture>>
<1>1. submission.len \in Nat /\ Newest' = Newest /\ PictureLen' = PictureLen
  BY DEF IInv, TypeOK, Submission, Newest, PictureLen
<1>2. PictureLen \in 0..MaxLen
  BY DEF IInv, TypeOK, Submission, PictureLen
<1>3. ASSUME NEW i \in 1..PictureLen, ~(i <= submission.len)
      PROVE  ModeBuffer'.mem[i] = ModeBuffer.mem[i]
  BY <1>1, <1>2, <1>3 DEF ModeBuffer
<1>4. QED
  BY <1>1, <1>3 DEF Picture, ModeBuffer

LEMMA PictureCopied ==
  ASSUME IInv, Copying, ~Copying', m_frames' = m_frames + 1, m_rawMode' = m_rawMode,
         submission.pos > submission.len,
         m_frameBuffer'.mem = m_frameBuffer.mem, m_rawBuffer'.mem = m_rawBuffer.mem,
         m_rawMode => m_rawBuffer'.len = submission.len
  PROVE  UNCHANGED <<Newest, Picture>>
<1>1. Newest' = Newest /\ Newest = m_frames + 1 /\ PictureLen' = PictureLen
  BY DEF Newest, PictureLen
<1>2. ASSUME NEW i \in 1..PictureLen, i <= submission.len
      PROVE  ModeBuffer.mem[i] = Newest
  <2>1. i \in 1..submission.pos - 1
    BY <1>2 DEF IInv, TypeOK, Submission, PictureLen
  <2>2. QED
    BY <1>1, <2>1 DEF IInv, ContentInv, Copying
<1>3. ModeBuffer'.mem = ModeBuffer.mem
  BY DEF ModeBuffer
<1>4. QED
  BY <1>1, <1>2, <1>3 DEF Picture, ModeBuffer

LEMMA MailboxNext == IInv /\ [Next]_vars => [Mailbox!Next]_(Mailbox!vars)
<1> SUFFICES ASSUME IInv, [Next]_vars PROVE [Mailbox!Next]_(Mailbox!vars)
  OBVIOUS
<1> USE DEF buffers, callers
<1>0. /\ m_frameBuffer \in Buffer /\ m_rawBuffer \in Buffer
      /\ submission \in Submission
  BY DEF IInv, TypeOK
<1>1. ASSUME UNCHANGED <<m_rawMode, m_frames, m_newFrame, taken, got, Copying, Newest, Picture>>
      PROVE  UNCHANGED Mailbox!vars
  BY <1>1 DEF Mailbox!vars
<1>2. CASE Close \/ Gone \/ UNCHANGED vars
  <2>1. UNCHANGED <<m_rawMode, m_frames, m_newFrame, m_frameBuffer, m_rawBuffer,
                    submission, taken, got>>
    BY <1>2 DEF Close, Gone, vars
  <2>2. QED
    BY <1>1, <2>1, PictureKept
<1>3. ASSUME ~Copying, ~Copying', UNCHANGED <<m_rawMode, m_frames, m_newFrame, taken, got>>,
             m_frameBuffer'.mem = m_frameBuffer.mem, m_rawBuffer'.mem = m_rawBuffer.mem,
             m_rawBuffer'.len = m_rawBuffer.len
      PROVE  UNCHANGED Mailbox!vars
  <2>1. UNCHANGED <<Newest, PictureLen>>
    BY <1>3 DEF Newest, PictureLen
  <2>2. UNCHANGED Picture
    BY <1>3, <2>1 DEF Picture
  <2>3. QED
    BY <1>3, <2>1, <2>2 DEF Mailbox!vars
<1>4. ASSUME NEW raw \in BOOLEAN, Open(raw)
      PROVE  [Mailbox!Next]_(Mailbox!vars)
  <2>1. /\ ~Copying /\ ~Copying' /\ m_frames = 0
        /\ m_rawBuffer.len = 0 /\ m_frameBuffer.len = 0 /\ m_rawMode' = raw
        /\ UNCHANGED <<m_frames, m_newFrame, taken, got>>
        /\ m_frameBuffer'.mem = m_frameBuffer.mem /\ m_rawBuffer'.mem = m_rawBuffer.mem
        /\ m_rawBuffer'.len = m_rawBuffer.len
    BY <1>0, <1>4 DEF Open, IInv, ContentInv, Copying, ModeBuffer, OtherBuffer, Buffer
  <2>2. CASE raw
    <3>1. Newest = 0 /\ Newest' = 0 /\ PictureLen' = 0
      BY <2>1, <2>2 DEF Newest, PictureLen
    <3>2. Picture' = <<>>
      BY <3>1 DEF Picture
    <3>3. Mailbox!OpenRaw
      BY <2>1, <2>2, <3>1, <3>2 DEF Mailbox!OpenRaw
    <3>4. QED
      BY <3>3 DEF Mailbox!Next
  <2>3. CASE ~raw
    <3>1. m_rawMode = FALSE
      BY <1>4 DEF Open, IInv, ContentInv
    <3>2. QED
      BY <1>3, <2>1, <2>3, <3>1
  <2>4. QED
    BY <2>2, <2>3
<1>5. CASE Teardown
  <2>1. /\ submission.pc = "idle" /\ m_frameBuffer'.mem = m_frameBuffer.mem
        /\ UNCHANGED <<m_rawMode, m_frames, m_newFrame, submission, m_rawBuffer, taken, got>>
    BY <1>0, <1>5 DEF Teardown, Buffer
  <2>2. QED
    BY <1>3, <2>1 DEF Copying
<1>6. ASSUME NEW len \in FrameLens, Submit(len) PROVE UNCHANGED Mailbox!vars
  BY <1>3, <1>6 DEF Submit, Copying
<1>7. CASE SubmitBufferLock
  <2>1. /\ submission.pc = "lock" /\ submission'.len = submission.len /\ ~m_rawMode
        /\ UNCHANGED <<m_rawMode, m_frames, m_newFrame, taken, got, m_frameBuffer, m_rawBuffer>>
        /\ submission'.pc = IF m_frameBuffer.size >= submission.len THEN "copy" ELSE "drop"
    BY <1>0, <1>7 DEF SubmitBufferLock, Submission
  <2>2. m_frameBuffer.size = FrameBufferLen /\ submission.len \in Nat
    BY <1>0, <2>1 DEF IInv, ContentInv, Submission
  <2>3. CASE m_frameBuffer.size >= submission.len
    BY <2>1, <2>2, <2>3, MailboxPublish
  <2>4. CASE ~(m_frameBuffer.size >= submission.len)
    BY <1>3, <2>1, <2>4 DEF Copying
  <2>5. QED
    BY <2>3, <2>4
<1>8. CASE SubmitRawLock
  <2>1. /\ submission.pc = "lock" /\ submission'.len = submission.len /\ m_rawMode
        /\ UNCHANGED <<m_rawMode, m_frames, m_newFrame, taken, got, m_frameBuffer>>
        /\ submission'.pc = "copy" /\ m_rawBuffer'.mem = m_rawBuffer.mem
    BY <1>0, <1>8 DEF SubmitRawLock, Submission, Buffer
  <2>2. QED
    BY <2>1, MailboxPublish
<1>9. CASE SubmitBufferDrop
  BY <1>3, <1>9 DEF SubmitBufferDrop, Copying, IdleSubmission
<1>11. CASE SubmitBufferCopy
  <2>1. /\ Copying /\ Copying' /\ submission'.len = submission.len
        /\ submission.pos <= submission.len
        /\ UNCHANGED <<m_rawMode, m_frames, m_newFrame, taken, got, m_rawBuffer>>
        /\ m_frameBuffer' = [m_frameBuffer EXCEPT !.mem[submission.pos] = m_frames + 1]
    BY <1>0, <1>11 DEF SubmitBufferCopy, Copying, Submission
  <2>2. UNCHANGED <<Newest, Picture>>
    <3>1. \A i \in 1..MaxLen : i > submission.len => m_frameBuffer'.mem[i] = m_frameBuffer.mem[i]
      <4>1. /\ submission.pos \in Nat /\ submission.len \in Nat
            /\ m_frameBuffer.mem \in [1..MaxLen -> Nat]
            /\ m_frameBuffer'.mem = [m_frameBuffer.mem EXCEPT ![submission.pos] = m_frames + 1]
        BY <1>0, <2>1 DEF Buffer, Submission
      <4>2. QED
        BY <2>1, <4>1
    <3>2. QED
      BY <2>1, <3>1, PictureDuringCopy
  <2>3. QED
    BY <1>1, <2>1, <2>2
<1>12. CASE SubmitRawCopy
  <2>1. /\ Copying /\ Copying' /\ submission'.len = submission.len
        /\ submission.pos <= submission.len
        /\ UNCHANGED <<m_rawMode, m_frames, m_newFrame, taken, got, m_frameBuffer>>
        /\ m_rawBuffer' = [m_rawBuffer EXCEPT !.mem[submission.pos] = m_frames + 1]
    BY <1>0, <1>12 DEF SubmitRawCopy, Copying, Submission
  <2>2. UNCHANGED <<Newest, Picture>>
    <3>1. \A i \in 1..MaxLen : i > submission.len => m_rawBuffer'.mem[i] = m_rawBuffer.mem[i]
      <4>1. /\ submission.pos \in Nat /\ submission.len \in Nat
            /\ m_rawBuffer.mem \in [1..MaxLen -> Nat]
            /\ m_rawBuffer'.mem = [m_rawBuffer.mem EXCEPT ![submission.pos] = m_frames + 1]
        BY <1>0, <2>1 DEF Buffer, Submission
      <4>2. QED
        BY <2>1, <4>1
    <3>2. QED
      BY <2>1, <3>1, PictureDuringCopy
  <2>3. QED
    BY <1>1, <2>1, <2>2
<1>13. CASE SubmitBufferDone \/ SubmitRawDone
  <2>1. /\ Copying /\ ~Copying' /\ m_frames' = m_frames + 1 /\ m_newFrame'
        /\ submission.pos > submission.len
        /\ UNCHANGED <<m_rawMode, taken, got>>
        /\ m_frameBuffer'.mem = m_frameBuffer.mem /\ m_rawBuffer'.mem = m_rawBuffer.mem
        /\ m_rawMode => m_rawBuffer'.len = submission.len
    BY <1>0, <1>13 DEF SubmitBufferDone, SubmitRawDone, Copying, IdleSubmission, Buffer
  <2>2. UNCHANGED <<Newest, Picture>>
    BY <2>1, PictureCopied
  <2>3. QED
    BY <2>1, <2>2 DEF Mailbox!vars
<1>14. ASSUME NEW r \in Readers, CaptureFrameReturn(r) \/ CaptureFrameRawReturn(r)
       PROVE  Mailbox!Next
  BY <1>14, MailboxTake DEF Mailbox!Next
<1>15. ASSUME NEW r \in Readers, DecodeFrameReturn(r, TRUE)
       PROVE  Mailbox!Next
  BY <1>15, MailboxPeek DEF Mailbox!Next
<1>16. ASSUME NEW r \in Readers,
              \/ ApiCall(r) \/ Acquire(r) \/ HasNewFrameReturn(r) \/ GetFrameSizeReturn(r)
              \/ CaptureFrameRawTooSmall(r) \/ DecodeFrameNone(r) \/ CaptureFrameCopy(r)
              \/ CaptureFrameRawCopy(r) \/ DecodeFrameRead(r) \/ DecodeFrameReturn(r, FALSE)
       PROVE  UNCHANGED Mailbox!vars
  <2>1. UNCHANGED <<m_rawMode, m_frames, m_newFrame, m_frameBuffer, m_rawBuffer,
                    submission, taken, got>>
    BY <1>16, InternalSteps
  <2>2. QED
    BY <1>1, <2>1, PictureKept
<1>17. QED
  BY <1>2, <1>4, <1>5, <1>6, <1>7, <1>8, <1>9, <1>11, <1>12, <1>13, <1>14, <1>15, <1>16
     DEF Next, CaptureThread, ApiStep

(* The chunk-by-chunk stream with its mutex implements the mailbox: as seen *)
(* by the callers of the C API, storing, capturing and decoding a frame are *)
(* single steps.                                                            *)
THEOREM StreamImplementsMailbox == Spec => ImplementsMailbox
<1>1. Init => Mailbox!Init
  BY DEF Init, Mailbox!Init, Newest, Picture, PictureLen, Copying, NewBuffer, IdleSubmission
<1>2. QED
  BY <1>1, MailboxNext, InvariantHolds, PTL DEF Spec, ImplementsMailbox,
     Mailbox!Spec

(* Whatever a later call is given is, place by place, no older than what    *)
(* the same caller was given before, and the same if it begins with the     *)
(* same frame.                                                              *)
THEOREM DeliveriesInOrder == Spec => DeliveriesMoveForward
<1>1. ASSUME IInv, IInv', [Next]_vars
      PROVE  [\A r \in Readers : \A i \in DOMAIN got[r] \cap DOMAIN got'[r] :
                /\ got[r][i] <= got'[r][i]
                /\ got[r][1] = got'[r][1] => got[r][i] = got'[r][i]]_vars
  <2>1. ASSUME NEW r \in Readers, NEW i \in DOMAIN got[r] \cap DOMAIN got'[r]
        PROVE  /\ got[r][i] <= got'[r][i]
               /\ got[r][1] = got'[r][1] => got[r][i] = got'[r][i]
    <3>0. got \in [Readers -> Seq(Nat)]
      BY <1>1 DEF IInv, TypeOK
    <3>1. got[r] \in Seq(Nat)
      BY <3>0
    <3>2. i \in 1..Len(got[r]) /\ got[r][i] \in Nat
      BY <2>1, <3>1
    <3>3. GotOK(r)
      BY <1>1 DEF IInv, GotInv
    <3>4. CASE got'[r] = got[r]
      BY <3>2, <3>4
    <3>5. CASE got'[r] # got[r]
      <4>1. PICK q \in Readers :
              \/ CaptureFrameReturn(q) \/ CaptureFrameRawReturn(q) \/ DecodeFrameReturn(q, TRUE)
        BY <1>1, <3>5, OnlyDeliveriesChangeGot
      <4>2. call[q].pc = "locked" /\ Deliver(q)
        BY <4>1 DEF CaptureFrameReturn, CaptureFrameRawReturn, DecodeFrameReturn, Holds
      <4>3. /\ call[q].pos - 1 \in 0..MaxLen
            /\ got' = [got EXCEPT ![q] = Chunks(ModeBuffer, call[q].pos - 1)]
        BY <1>1, <4>2, DeliverChunks
      <4>4. q = r /\ got'[r] = Chunks(ModeBuffer, call[q].pos - 1)
        BY <3>0, <3>5, <4>3
      <4>5. \A j \in DOMAIN got'[r] : got'[r][j] = ModeBuffer.mem[j]
        BY <4>3, <4>4 DEF Chunks
      <4>6. 1 \in DOMAIN got'[r] /\ 1 \in 1..Len(got[r])
        BY <2>1, <3>2, <4>3, <4>4 DEF Chunks
      <4>7. QED
        BY <2>1, <3>2, <3>3, <4>5, <4>6 DEF GotOK
    <3>6. QED
      BY <3>4, <3>5
  <2>2. QED
    BY <2>1
<1>2. QED
  BY <1>1, InvariantHolds, PTL DEF Spec, DeliveriesMoveForward
-----------------------------------------------------------------------------
(* The raw capture loop.  Its two captures pass buffers of sizes no caller  *)
(* of CallerLens passes, so its steps are not all steps of Next.            *)

USE ClientAssumption

(* Where the loop is tells which call of the client is under way. *)
LoopPlaces ==
  /\ at \in {"start", "poll", "polled", "first", "second", "use", "stopped"}
  /\ at = "start" => phase = "created"
  /\ at \in {"poll", "polled", "first", "second", "use"} => phase = "open" /\ m_rawMode
  /\ at \in {"start", "poll", "use", "stopped"} => Idle
  /\ at = "polled" /\ ~Idle => call[Client].op = "hasNewFrame"
  /\ at \in {"first", "second"} /\ ~Idle => call[Client].op = "captureFrameRaw"

(* What the loop used, and what it holds, was captured. *)
LoopUsed ==
  /\ estimatedSize \in Nat /\ used \in Nat /\ used <= taken
  /\ \A i \in 1..Len(got[Client]) : got[Client][i] <= taken

(* The client holds a frame it has not used. *)
Delivered ==
  /\ got[Client] # <<>>
  /\ used < Head(got[Client])

(* From the poll that succeeds to the capture that does, there is a frame   *)
(* nobody has captured; after it, the client holds a frame it has not used. *)
LoopFresh ==
  /\ at = "polled" /\ Idle /\ ret[Client].ok => m_newFrame
  /\ at \in {"first", "second"} /\ ~Idle => m_newFrame
  /\ at = "first" /\ Idle => IF ret[Client].ok THEN Delivered ELSE m_newFrame
  /\ at \in {"second", "use"} /\ Idle /\ ret[Client].ok => Delivered

LoopInv == IInv /\ LoopPlaces /\ LoopUsed /\ LoopFresh

(* A call of any size keeps the stream's invariant: the bounds of           *)
(* CallerLens are not needed for it.                                        *)
LEMMA BeginIInv ==
  ASSUME IInv, NEW r \in Readers, NEW op \in Ops, NEW size \in Nat, NEW a \in BOOLEAN,
         Begin(r, op, size, a),
         a /\ op = "captureFrame" => ~m_rawMode /\ size > 0,
         a /\ op \in {"captureFrameRaw", "decodeFrame"} => m_rawMode
  PROVE  IInv'
<1>1. TypeOK' /\ TypeOK
  BY BeginTypeOK DEF IInv
<1>2. /\ UNCHANGED <<phase, m_rawMode, buffers, m_bufferMutex, submission, got, taken>>
      /\ phase \in {"open", "closing"} /\ call[r].pc = "idle"
      /\ \A q \in Readers \ {r} : call'[q] = call[q]
      /\ \/ call'[r] = call[r]
         \/ a /\ call'[r] = [pc |-> "lock", op |-> op, size |-> size, pos |-> 1, seen |-> <<>>]
  BY <1>1, BeginEffect
<1>3. MutexInv'
  BY <1>2 DEF IInv, MutexInv
<1>4. ContentInv'
  BY <1>2 DEF IInv, ContentInv, ModeBuffer, OtherBuffer, buffers
<1>5. ASSUME NEW q \in Readers PROVE CallOK(q)'
  <2>1. CASE call'[q] = call[q]
    BY <1>2, <2>1 DEF IInv, CallInv, CallOK, CopyBound, CaptureFrameLen, Chunks,
                      ModeBuffer, buffers
  <2>2. CASE call'[q] # call[q]
    BY <1>2, <2>2 DEF CallOK
  <2>3. QED
    BY <2>1, <2>2
<1>6. CopiesStayInside' /\ NewFrameFlagExact' /\ TakenInv'
  BY <1>2 DEF IInv, CopiesStayInside, NewFrameFlagExact, TakenInv, buffers
<1>7. LayersInv'
  BY <1>2 DEF IInv, LayersInv, Newest, Copying, buffers
<1>8. GotInv'
  BY <1>2 DEF IInv, GotInv, GotOK, DeliveriesInLayers, ModeBuffer, buffers
<1>9. QED
  BY <1>1, <1>3, <1>4, <1>5, <1>6, <1>7, <1>8 DEF IInv, CallInv

LEMMA RawCallIInv ==
  ASSUME IInv, NEW n \in Nat, CaptureFrameRaw(Client, n)
  PROVE  IInv'
<1>1. CASE m_isOpen /\ m_rawMode
  <2>1. Begin(Client, "captureFrameRaw", n, TRUE)
    BY <1>1 DEF CaptureFrameRaw
  <2>2. QED
    BY <1>1, <2>1, BeginIInv DEF Ops
<1>2. CASE ~(m_isOpen /\ m_rawMode)
  <2>1. Begin(Client, "captureFrameRaw", n, FALSE)
    BY <1>2 DEF CaptureFrameRaw
  <2>2. QED
    BY <2>1, BeginIInv DEF Ops
<1>3. QED
  BY <1>1, <1>2

(* Each step of the loop keeps the stream's invariant. *)
LEMMA LoopIInv == IInv /\ LoopUsed /\ [LoopNext]_loopVars => IInv'
<1> SUFFICES ASSUME IInv, LoopUsed, [LoopNext]_loopVars PROVE IInv'
  OBVIOUS
<1>1. CASE OpenRaw
  BY <1>1, NextIInv DEF OpenRaw, Next
<1>2. CASE Poll
  BY <1>2, NextIInv DEF Poll, Next, ApiCall
<1>3. CASE NothingNew \/ Captured \/ Use \/ UNCHANGED loopVars
  BY <1>3, NextIInv DEF NothingNew, Captured, Use, loopVars
<1>4. CASE CaptureFirst
  BY <1>4, RawCallIInv DEF CaptureFirst, LoopUsed
<1>5. CASE GrowAndRetry
  <2>1. 2 * ret[Client].bytes \in Nat
    BY DEF IInv, TypeOK
  <2>2. QED
    BY <1>5, <2>1, RawCallIInv DEF GrowAndRetry
<1>6. CASE Stop
  BY <1>6, NextIInv DEF Stop, Next
<1>7. CASE Library
  BY <1>7, NextIInv DEF Library, Next
<1>8. QED
  BY <1>1, <1>2, <1>3, <1>4, <1>5, <1>6, <1>7 DEF LoopNext

(* The step of the library leaves the client's call where it is, and its    *)
(* results alone. *)
Quiet ==
  /\ Idle' <=> Idle
  /\ call'[Client].op = call[Client].op /\ call'[Client].size = call[Client].size
  /\ m_newFrame => m_newFrame'
  /\ UNCHANGED <<ret, got, taken>>

(* What the library does while the loop waits for it: one of the returns    *)
(* the loop's calls have, or nothing the client sees but a newer frame.     *)
LEMMA LibraryEffect ==
  ASSUME TypeOK, LoopPlaces, Library
  PROVE  /\ UNCHANGED <<m_rawMode, loop>>
         /\ phase' = phase \/ phase = "closing"
         /\ \/ Quiet
            \/ at = "polled" /\ HasNewFrameReturn(Client)
            \/ at \in {"first", "second"} /\ CaptureFrameRawTooSmall(Client)
            \/ at \in {"first", "second"} /\ CaptureFrameRawReturn(Client)
<1> USE DEF buffers, callers
<1>0. UNCHANGED loop
  BY DEF Library
<1>1. ASSUME NEW len \in FrameLens, Submit(len)
      PROVE  Quiet /\ UNCHANGED <<m_rawMode, phase>>
  BY <1>1 DEF Submit, Quiet, Idle
<1>2. CASE SubmitBufferLock \/ SubmitBufferDrop \/ SubmitBufferCopy \/ SubmitRawLock
           \/ SubmitRawCopy
  <2>1. Quiet /\ UNCHANGED <<m_rawMode, phase>>
    BY <1>2 DEF SubmitBufferLock, SubmitBufferDrop, SubmitBufferCopy, SubmitRawLock,
                SubmitRawCopy, Quiet, Idle
  <2>2. QED
    BY <1>0, <2>1
<1>3. CASE SubmitBufferDone \/ SubmitRawDone
  BY <1>0, <1>3 DEF SubmitBufferDone, SubmitRawDone, Quiet, Idle
<1>4. CASE Teardown \/ Gone
  BY <1>0, <1>4 DEF Teardown, Gone, vars, Quiet, Idle
<1>5. CASE Acquire(Client)
  <2>1. Quiet
    BY <1>5, AcquireEffect DEF Acquire, Quiet, Idle
  <2>2. QED
    BY <1>0, <1>5, <2>1 DEF Acquire
<1>6. ASSUME NEW buf, NEW bound, call[Client].pc = "locked", Copy(Client, buf, bound)
      PROVE  Quiet /\ UNCHANGED <<m_rawMode, phase>>
  BY <1>6, CopyEffect DEF Copy, Quiet, Idle
<1>7. CASE CaptureFrameCopy(Client) \/ CaptureFrameRawCopy(Client) \/ DecodeFrameRead(Client)
  BY <1>0, <1>6, <1>7 DEF CaptureFrameCopy, CaptureFrameRawCopy, DecodeFrameRead, Holds
<1>8. CASE HasNewFrameReturn(Client)
  BY <1>0, <1>8 DEF HasNewFrameReturn, Holds, Return, LoopPlaces, Idle
<1>9. CASE CaptureFrameRawTooSmall(Client) \/ CaptureFrameRawReturn(Client)
  BY <1>0, <1>9 DEF CaptureFrameRawTooSmall, CaptureFrameRawReturn, Holds, Return,
                    LoopPlaces, Idle
<1>10. CASE GetFrameSizeReturn(Client) \/ CaptureFrameReturn(Client)
            \/ DecodeFrameNone(Client) \/ \E ok \in BOOLEAN : DecodeFrameReturn(Client, ok)
  BY <1>10 DEF GetFrameSizeReturn, CaptureFrameReturn, DecodeFrameNone,
               DecodeFrameReturn, Holds, LoopPlaces, Idle
<1>11. QED
  BY <1>0, <1>1, <1>2, <1>3, <1>4, <1>5, <1>7, <1>8, <1>9, <1>10
     DEF Library, CaptureThread, ApiStep

(* The capture that succeeds brings the newest frame, which nobody had. *)
LEMMA RawReturnDelivers ==
  ASSUME LoopInv, at \in {"first", "second"}, CaptureFrameRawReturn(Client), UNCHANGED loop
  PROVE  /\ Delivered' /\ taken' \in Nat /\ taken <= taken'
         /\ \A i \in 1..Len(got'[Client]) : got'[Client][i] <= taken'
<1>1. m_newFrame /\ taken < m_frames /\ m_frames \in Nat /\ taken \in Nat
  <2>1. m_newFrame
    BY DEF CaptureFrameRawReturn, Holds, LoopInv, LoopFresh, Idle
  <2>2. QED
    BY <2>1 DEF LoopInv, IInv, NewFrameFlagExact, TypeOK
<1>2. /\ IInv /\ call[Client].pc = "locked" /\ call[Client].op = "captureFrameRaw"
      /\ Deliver(Client) /\ taken' = m_frames
      /\ call[Client].pos > m_rawBuffer.len
  BY DEF LoopInv, CaptureFrameRawReturn, Holds
<1> DEFINE n == call[Client].pos - 1
<1>3. /\ n \in 0..MaxLen /\ got' = [got EXCEPT ![Client] = Chunks(ModeBuffer, n)]
      /\ got \in [Readers -> Seq(Nat)]
  BY <1>2, DeliverChunks DEF IInv, TypeOK
<1>4. /\ ModeBuffer = m_rawBuffer /\ m_rawBuffer.len \in Nat
      /\ call[Client].pos <= m_rawBuffer.len + 1 /\ call[Client].pos \in Nat
  <2>1. CallOK(Client)
    BY <1>2, ClientAssumption DEF IInv, CallInv, ClientAssumption
  <2>2. m_rawMode /\ call[Client].pos <= m_rawBuffer.len + 1
    BY <1>2, <2>1 DEF CallOK, CopyBound
  <2>3. call[Client].pos \in Nat
    BY <1>2, ClientAssumption DEF IInv, TypeOK, Call, ClientAssumption
  <2>4. m_rawBuffer.len \in Nat
    BY <1>2 DEF IInv, TypeOK, Buffer
  <2>5. QED
    BY <2>2, <2>3, <2>4 DEF ModeBuffer
<1>5. submission.pc # "copy"
  BY <1>2, MutexHeld DEF IInv
<1>6. n = m_rawBuffer.len /\ n > 0
  <2>1. m_rawBuffer.len # 0
    BY <1>1, <1>2, <1>4 DEF IInv, ContentInv
  <2>2. QED
    BY <1>2, <1>4, <2>1
<1>7. \A i \in 1..n : ModeBuffer.mem[i] = m_frames
  BY <1>2, <1>4, <1>5, <1>6 DEF IInv, ContentInv
<1> HIDE DEF n
<1>8. got'[Client] = Chunks(ModeBuffer, n)
  BY <1>3
<1>9. /\ Len(Chunks(ModeBuffer, n)) = n /\ Chunks(ModeBuffer, n) \in Seq(Nat)
      /\ \A i \in 1..n : Chunks(ModeBuffer, n)[i] = m_frames
  <2>1. Chunks(ModeBuffer, n) = [i \in 1..n |-> m_frames]
    BY <1>7 DEF Chunks
  <2>2. n \in Nat
    BY <1>3
  <2>3. QED
    BY <1>1, <2>1, <2>2
<1>10. Chunks(ModeBuffer, n) # <<>> /\ Head(Chunks(ModeBuffer, n)) = m_frames
  BY <1>3, <1>6, <1>9
<1>11. used' = used /\ used \in Nat /\ used <= taken
  BY DEF loop, LoopInv, LoopUsed
<1>12. QED
  BY <1>1, <1>2, <1>8, <1>9, <1>10, <1>11 DEF Delivered

LEMMA InitLoopInv == LoopInit => LoopInv
  BY InitIInv DEF LoopInit, Init, LoopInv, LoopPlaces, LoopUsed, LoopFresh, Idle,
                  IdleCall, IInv, TypeOK

LEMMA NextLoopPlaces == LoopInv /\ IInv' /\ [LoopNext]_loopVars => LoopPlaces'
<1> SUFFICES ASSUME LoopInv, IInv', [LoopNext]_loopVars PROVE LoopPlaces'
  OBVIOUS
<1> USE DEF LoopInv, LoopPlaces, Idle
<1>0. TypeOK
  BY DEF IInv
<1>1. CASE OpenRaw
  BY <1>1 DEF OpenRaw, Open, callers
<1>2. CASE Poll
  <2>1. call'[Client].op = "hasNewFrame"
    BY <1>0, <1>2 DEF Poll, HasNewFrame, Begin, TypeOK
  <2>2. QED
    BY <1>2, <2>1 DEF Poll, HasNewFrame, Begin
<1>3. CASE NothingNew \/ Captured \/ UNCHANGED loopVars
  BY <1>3 DEF NothingNew, Captured, loopVars, loop, vars, callers
<1>4. CASE Use
  BY <1>4 DEF Use, vars, callers
<1>5. ASSUME NEW n, CaptureFrameRaw(Client, n), at \in {"polled", "first"}, Idle
      PROVE  /\ UNCHANGED <<phase, m_rawMode>>
             /\ call'[Client].pc # "idle" /\ call'[Client].op = "captureFrameRaw"
  BY <1>0, <1>5 DEF CaptureFrameRaw, Begin, m_isOpen, TypeOK
<1>6. CASE CaptureFirst
  BY <1>5, <1>6 DEF CaptureFirst
<1>7. CASE GrowAndRetry
  BY <1>5, <1>7 DEF GrowAndRetry
<1>8. CASE Stop
  BY <1>8 DEF Stop, Close, callers
<1>9. CASE Library
  <2>1. /\ UNCHANGED <<m_rawMode, loop>>
        /\ phase' = phase \/ phase = "closing"
    BY <1>0, <1>9, LibraryEffect
  <2>2. CASE Quiet
    BY <2>1, <2>2 DEF Quiet, loop
  <2>3. ASSUME call'[Client] = IdleCall, UNCHANGED phase,
               at \in {"polled", "first", "second"}
        PROVE  LoopPlaces'
    BY <2>1, <2>3 DEF loop, IdleCall
  <2>4. QED
    BY <1>0, <1>9, <2>2, <2>3, LibraryEffect, ReturnEffect
       DEF HasNewFrameReturn, CaptureFrameRawTooSmall, CaptureFrameRawReturn, Return
<1>10. QED
  BY <1>1, <1>2, <1>3, <1>4, <1>6, <1>7, <1>8, <1>9 DEF LoopNext

LEMMA NextLoopUsed == LoopInv /\ IInv' /\ [LoopNext]_loopVars => LoopUsed'
<1> SUFFICES ASSUME LoopInv, IInv', [LoopNext]_loopVars PROVE LoopUsed'
  OBVIOUS
<1> USE DEF LoopInv, LoopUsed
<1>0. TypeOK
  BY DEF IInv
<1>1. CASE OpenRaw \/ NothingNew \/ Captured \/ Stop \/ UNCHANGED loopVars
  BY <1>1 DEF OpenRaw, Open, NothingNew, Captured, Stop, Close, loopVars, loop, vars, callers
<1>2. CASE Poll \/ CaptureFirst
  BY <1>2 DEF Poll, HasNewFrame, CaptureFirst, CaptureFrameRaw, Begin
<1>3. CASE GrowAndRetry
  BY <1>0, <1>3 DEF GrowAndRetry, CaptureFrameRaw, Begin, TypeOK
<1>4. CASE Use
  <2>1. CASE got[Client] = <<>>
    BY <1>0, <1>4, <2>1 DEF Use, vars, callers, TypeOK
  <2>2. CASE got[Client] # <<>>
    <3>1. used' = Head(got[Client]) /\ got[Client] \in Seq(Nat)
      BY <1>0, <1>4, <2>2 DEF Use, TypeOK
    <3>2. 1 \in 1..Len(got[Client]) /\ used' = got[Client][1] /\ used' \in Nat
      BY <2>2, <3>1
    <3>3. used' <= taken
      BY <3>2
    <3>4. QED
      BY <1>0, <1>4, <3>2, <3>3 DEF Use, vars, callers, TypeOK
  <2>3. QED
    BY <2>1, <2>2
<1>5. CASE Library
  <2>1. UNCHANGED loop
    BY <1>5 DEF Library
  <2>2. CASE UNCHANGED <<got, taken>>
    BY <2>1, <2>2 DEF loop
  <2>3. CASE at \in {"first", "second"} /\ CaptureFrameRawReturn(Client)
    BY <1>0, <2>1, <2>3, RawReturnDelivers DEF loop, TypeOK
  <2>4. QED
    BY <1>0, <1>5, <2>2, <2>3, LibraryEffect
       DEF Quiet, HasNewFrameReturn, CaptureFrameRawTooSmall
<1>6. QED
  BY <1>1, <1>2, <1>3, <1>4, <1>5 DEF LoopNext

LEMMA NextLoopFresh == LoopInv /\ IInv' /\ [LoopNext]_loopVars => LoopFresh'
<1> SUFFICES ASSUME LoopInv, IInv', [LoopNext]_loopVars PROVE LoopFresh'
  OBVIOUS
<1> USE DEF LoopInv, LoopFresh
<1>0. TypeOK
  BY DEF IInv
<1>1. CASE OpenRaw \/ Stop
  BY <1>1 DEF OpenRaw, Stop
<1>2. CASE Poll
  <2>1. call'[Client].pc # "idle"
    BY <1>0, <1>2 DEF Poll, HasNewFrame, Begin, TypeOK
  <2>2. QED
    BY <1>2, <2>1 DEF Poll, Idle
<1>3. CASE NothingNew
  BY <1>3 DEF NothingNew
<1>4. CASE Captured
  <2>1. UNCHANGED <<m_newFrame, call, ret, got, used>>
    BY <1>4 DEF Captured, vars, buffers, callers
  <2>2. at \in {"first", "second"} /\ Idle /\ at' = "use"
    BY <1>4 DEF Captured
  <2>3. (Delivered' <=> Delivered) /\ (Idle' <=> Idle)
    BY <2>1 DEF Delivered, Idle
  <2>4. ret[Client].ok => Delivered
    BY <2>2
  <2>5. QED
    BY <2>1, <2>2, <2>3, <2>4
<1>11. CASE UNCHANGED loopVars
  <2>1. UNCHANGED <<at, m_newFrame, call, ret, got, used>>
    BY <1>11 DEF loopVars, loop, vars, buffers, callers
  <2>2. (Delivered' <=> Delivered) /\ (Idle' <=> Idle)
    BY <2>1 DEF Delivered, Idle
  <2>3. QED
    BY <2>1, <2>2
<1>5. CASE Use
  BY <1>5 DEF Use
<1>6. ASSUME NEW n, CaptureFrameRaw(Client, n), at \in {"polled", "first"}, Idle
      PROVE  call'[Client].pc # "idle" /\ UNCHANGED m_newFrame
  BY <1>0, <1>6 DEF CaptureFrameRaw, Begin, m_isOpen, TypeOK, buffers, LoopPlaces
<1>7. CASE CaptureFirst
  BY <1>6, <1>7 DEF CaptureFirst, Idle
<1>8. CASE GrowAndRetry
  <2>1. /\ at = "first" /\ Idle /\ ~ret[Client].ok /\ at' = "second"
        /\ CaptureFrameRaw(Client, 2 * ret[Client].bytes)
    BY <1>8 DEF GrowAndRetry
  <2>2. m_newFrame /\ call'[Client].pc # "idle" /\ UNCHANGED m_newFrame
    BY <1>6, <2>1
  <2>3. QED
    BY <2>1, <2>2 DEF Idle
<1>9. CASE Library
  <2>1. UNCHANGED <<at, used>>
    BY <1>9 DEF Library, loop
  <2>2. CASE Quiet
    BY <2>1, <2>2 DEF Quiet, Delivered
  <2>3. CASE at = "polled" /\ HasNewFrameReturn(Client)
    <3>1. ret'[Client].ok = m_newFrame /\ m_newFrame' = m_newFrame
      BY <1>0, <2>3 DEF HasNewFrameReturn, Return, TypeOK
    <3>2. QED
      BY <2>1, <2>3, <3>1
  <2>4. CASE at \in {"first", "second"} /\ CaptureFrameRawTooSmall(Client)
    <3>1. ~ret'[Client].ok /\ m_newFrame' = m_newFrame
      BY <1>0, <2>4 DEF CaptureFrameRawTooSmall, Return, TypeOK
    <3>2. m_newFrame
      BY <2>4 DEF CaptureFrameRawTooSmall, Holds, Idle
    <3>3. QED
      BY <2>1, <2>4, <3>1, <3>2
  <2>5. CASE at \in {"first", "second"} /\ CaptureFrameRawReturn(Client)
    <3>1. ret'[Client].ok /\ call'[Client] = IdleCall
      BY <1>0, <2>5, ReturnEffect DEF CaptureFrameRawReturn, Return, TypeOK
    <3>2. Delivered'
      BY <1>9, <2>5, RawReturnDelivers DEF Library
    <3>3. QED
      BY <2>1, <2>5, <3>1, <3>2 DEF Idle, IdleCall
  <2>6. QED
    BY <1>0, <1>9, <2>2, <2>3, <2>4, <2>5, LibraryEffect
<1>10. QED
  BY <1>1, <1>2, <1>3, <1>4, <1>5, <1>7, <1>8, <1>9, <1>11 DEF LoopNext

LEMMA NextLoopInv == LoopInv /\ [LoopNext]_loopVars => LoopInv'
<1> SUFFICES ASSUME LoopInv, [LoopNext]_loopVars PROVE LoopInv'
  OBVIOUS
<1>1. IInv'
  BY LoopIInv DEF LoopInv
<1>2. QED
  BY <1>1, NextLoopPlaces, NextLoopUsed, NextLoopFresh DEF LoopInv

(* hasNewFrame and the capture after it agree, whatever the frame sizes:    *)
(* when the capture the loop relies on succeeded, its buffer holds a frame  *)
(* newer than every frame used before.                                      *)
CapturedIsNew ==
  at = "use" /\ ret[Client].ok => got[Client] # <<>> /\ Head(got[Client]) > used

THEOREM CapturesAreNew == LoopSpec => []CapturedIsNew
<1>1. LoopInv => CapturedIsNew
  <2> SUFFICES ASSUME LoopInv, at = "use", ret[Client].ok
               PROVE  got[Client] # <<>> /\ Head(got[Client]) > used
    BY DEF CapturedIsNew
  <2>1. Delivered
    BY DEF LoopInv, LoopPlaces, LoopFresh
  <2>2. got[Client] \in Seq(Nat) /\ used \in Nat
    BY DEF LoopInv, LoopUsed, IInv, TypeOK
  <2>3. Head(got[Client]) \in Nat
    BY <2>1, <2>2 DEF Delivered
  <2>4. QED
    BY <2>1, <2>2, <2>3 DEF Delivered
<1>2. QED
  BY <1>1, InitLoopInv, NextLoopInv, PTL DEF LoopSpec
-----------------------------------------------------------------------------
(* The retry of the loop succeeds when frames stay within a factor of two:  *)
(* the buffer is twice as large as the frame that did not fit, and the      *)
(* frame stored since is no larger than that.                               *)

WithinFactorTwo == \A a, b \in FrameLens : a <= 2 * b

(* The frames under way and stored are of the sizes the device delivers. *)
StoredSizes ==
  /\ submission.pc # "idle" => submission.len \in FrameLens
  /\ m_rawBuffer.len \in FrameLens \cup {0}

(* The second capture has a buffer of twice such a size, and succeeds. *)
RetryFits ==
  /\ at = "first" /\ Idle /\ ~ret[Client].ok => ret[Client].bytes \in FrameLens
  /\ at = "second" => \E len \in FrameLens : estimatedSize = 2 * len
  /\ at = "second" /\ ~Idle => call[Client].size = estimatedSize
  /\ at \in {"second", "use"} /\ Idle => ret[Client].ok

LEMMA NextStoredSizes ==
  ASSUME LoopInv, StoredSizes, LoopNext
  PROVE  StoredSizes'
<1> USE DEF StoredSizes, buffers, callers
<1>0. TypeOK
  BY DEF LoopInv, IInv
<1>1. CASE OpenRaw
  BY <1>0, <1>1 DEF OpenRaw, Open, TypeOK, Buffer
<1>2. CASE Poll \/ CaptureFirst \/ GrowAndRetry
  BY <1>2 DEF Poll, HasNewFrame, CaptureFirst, GrowAndRetry, CaptureFrameRaw, Begin
<1>3. CASE NothingNew \/ Captured \/ Use \/ Stop
  BY <1>3 DEF NothingNew, Captured, Use, Stop, Close, vars
<1>4. ASSUME NEW len \in FrameLens, Submit(len) PROVE StoredSizes'
  BY <1>4 DEF Submit
<1>5. CASE SubmitBufferLock \/ SubmitBufferCopy
  BY <1>0, <1>5 DEF SubmitBufferLock, SubmitBufferCopy, TypeOK, Submission
<1>6. CASE SubmitBufferDrop \/ SubmitBufferDone
  BY <1>6 DEF SubmitBufferDrop, SubmitBufferDone, IdleSubmission
<1>7. CASE SubmitRawLock \/ SubmitRawCopy
  BY <1>0, <1>7 DEF SubmitRawLock, SubmitRawCopy, TypeOK, Submission, Buffer
<1>8. CASE SubmitRawDone
  <2>1. submission'.pc = "idle" /\ m_rawBuffer'.len = submission.len
    BY <1>0, <1>8 DEF SubmitRawDone, IdleSubmission, TypeOK, Buffer
  <2>2. submission.pc # "idle"
    BY <1>8 DEF SubmitRawDone
  <2>3. QED
    BY <2>1, <2>2
<1>9. CASE Teardown \/ Gone
  BY <1>9 DEF Teardown, Gone, vars
<1>10. CASE ApiStep(Client)
  BY <1>10, CallersKeepFrames
<1>11. QED
  BY <1>1, <1>2, <1>3, <1>4, <1>5, <1>6, <1>7, <1>8, <1>9, <1>10
     DEF LoopNext, Library, CaptureThread

LEMMA NextRetryFits ==
  ASSUME LoopInv, StoredSizes, RetryFits, WithinFactorTwo, LoopNext
  PROVE  RetryFits'
<1> USE DEF RetryFits
<1>0. TypeOK
  BY DEF LoopInv, IInv
<1>1. CASE OpenRaw \/ Poll \/ NothingNew \/ Use \/ Stop
  BY <1>1 DEF OpenRaw, Poll, NothingNew, Use, Stop
<1>2. CASE Captured
  BY <1>2 DEF Captured, Idle, vars, callers
<1>3. ASSUME NEW n, CaptureFrameRaw(Client, n), at \in {"polled", "first"}, Idle
      PROVE  call'[Client].pc # "idle" /\ call'[Client].size = n
  BY <1>0, <1>3 DEF CaptureFrameRaw, Begin, m_isOpen, TypeOK, LoopInv, LoopPlaces
<1>4. CASE CaptureFirst
  BY <1>3, <1>4 DEF CaptureFirst, Idle
<1>5. CASE GrowAndRetry
  BY <1>3, <1>5 DEF GrowAndRetry, Idle
<1>6. CASE Library
  <2>1. UNCHANGED <<at, estimatedSize>>
    BY <1>6 DEF Library, loop
  <2>2. CASE Quiet
    BY <2>1, <2>2 DEF Quiet
  <2>3. CASE at = "polled" /\ HasNewFrameReturn(Client)
    BY <2>1, <2>3
  <2>4. CASE at \in {"first", "second"} /\ CaptureFrameRawTooSmall(Client)
    <3>1. /\ call[Client].pc = "locked" /\ call[Client].size < m_rawBuffer.len
          /\ call[Client].size \in Nat /\ ret'[Client].bytes = m_rawBuffer.len
      BY <1>0, <2>4 DEF CaptureFrameRawTooSmall, Holds, Return, TypeOK, Call
    <3>2. m_rawBuffer.len \in FrameLens
      BY <3>1 DEF StoredSizes
    <3>3. at # "second"
      <4> SUFFICES ASSUME at = "second" PROVE FALSE
        OBVIOUS
      <4>1. PICK asked \in FrameLens : estimatedSize = 2 * asked
        OBVIOUS
      <4>2. call[Client].size = 2 * asked
        BY <3>1, <4>1 DEF Idle
      <4>3. m_rawBuffer.len <= 2 * asked
        BY <3>2 DEF WithinFactorTwo
      <4>4. FrameLens \subseteq Nat
        OBVIOUS
      <4>5. asked \in Nat /\ m_rawBuffer.len \in Nat
        BY <3>2, <4>4
      <4>6. \A s, b, a \in Nat : s = 2 * a /\ b <= 2 * a => ~(s < b)
        OBVIOUS
      <4>7. QED
        BY <3>1, <4>2, <4>3, <4>5, <4>6
    <3>4. QED
      BY <2>1, <2>4, <3>1, <3>2, <3>3
  <2>5. CASE at \in {"first", "second"} /\ CaptureFrameRawReturn(Client)
    <3>1. ret'[Client].ok /\ call'[Client] = IdleCall
      BY <1>0, <2>5, ReturnEffect DEF CaptureFrameRawReturn, Return, TypeOK
    <3>2. QED
      BY <2>1, <2>5, <3>1 DEF Idle, IdleCall
  <2>6. QED
    BY <1>0, <1>6, <2>2, <2>3, <2>4, <2>5, LibraryEffect DEF LoopInv
<1>7. QED
  BY <1>1, <1>2, <1>4, <1>5, <1>6 DEF LoopNext

LEMMA RetryHolds ==
  ASSUME WithinFactorTwo
  PROVE  LoopSpec => [](LoopInv /\ StoredSizes /\ RetryFits)
<1>1. LoopInit => StoredSizes /\ RetryFits
  BY DEF LoopInit, Init, StoredSizes, RetryFits, IdleSubmission, NewBuffer
<1>2. StoredSizes /\ RetryFits /\ UNCHANGED loopVars => StoredSizes' /\ RetryFits'
  BY DEF StoredSizes, RetryFits, Idle, loopVars, loop, vars, buffers, callers
<1>3. LoopInv /\ StoredSizes /\ RetryFits /\ [LoopNext]_loopVars
        => (LoopInv /\ StoredSizes /\ RetryFits)'
  BY <1>2, NextLoopInv, NextStoredSizes, NextRetryFits
<1>4. QED
  BY <1>1, <1>3, InitLoopInv, PTL DEF LoopSpec

(* README.md's "jpegBuf now contains a complete JPEG", for every device     *)
(* whose frames stay within a factor of two of each other: the capture the  *)
(* loop relies on succeeded.                                                *)
THEOREM UsedJpegs ==
  ASSUME WithinFactorTwo
  PROVE  LoopSpec => []UsedJpegIsComplete
<1>1. LoopInv /\ RetryFits => UsedJpegIsComplete
  BY DEF LoopInv, LoopPlaces, RetryFits, UsedJpegIsComplete
<1>2. QED
  BY <1>1, RetryHolds, PTL

(* Under the same condition no frame is used twice.                         *)
THEOREM PassesUseNewFrames ==
  ASSUME WithinFactorTwo
  PROVE  LoopSpec => []EachPassUsesANewFrame
<1>1. UsedJpegIsComplete /\ CapturedIsNew => EachPassUsesANewFrame
  BY DEF UsedJpegIsComplete, CapturedIsNew, EachPassUsesANewFrame
<1>2. QED
  BY <1>1, UsedJpegs, CapturesAreNew, PTL
=============================================================================
