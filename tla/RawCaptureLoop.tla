--------------------------- MODULE RawCaptureLoop ---------------------------
(***************************************************************************)
(* The client loop README.md shows for raw MJPEG capture, run against the  *)
(* stream of common/stream.cpp: poll, capture, on failure grow the buffer  *)
(* to twice the size the library asked for, capture again, use the JPEG.   *)
(* The second capture's result is not looked at, and the capture thread    *)
(* may store another frame between the two.                                *)
(***************************************************************************)
EXTENDS Stream

CONSTANT Client             \* the thread that runs the loop

ASSUME ClientAssumption == Client \in Readers

VARIABLES at,               \* where the loop is
          estimatedSize,    \* size of jpegBuf
          used              \* history: the last frame the loop used

loop == <<at, estimatedSize, used>>
loopVars == <<vars, loop>>

Idle == call[Client].pc = "idle"

LoopInit == Init /\ at = "start" /\ estimatedSize = RawEstimate /\ used = 0

OpenRaw == at = "start" /\ Open(TRUE) /\ at' = "poll" /\ UNCHANGED <<estimatedSize, used>>

Poll == at = "poll" /\ HasNewFrame(Client) /\ at' = "polled" /\ UNCHANGED <<estimatedSize, used>>

NothingNew ==
  /\ at = "polled" /\ Idle /\ ~ret[Client].ok
  /\ at' = "poll"
  /\ UNCHANGED <<vars, estimatedSize, used>>

CaptureFirst ==
  /\ at = "polled" /\ Idle /\ ret[Client].ok
  /\ CaptureFrameRaw(Client, estimatedSize)
  /\ at' = "first"
  /\ UNCHANGED <<estimatedSize, used>>
(* Mutant: the buffer grows to just the size reported. *)
GrowExactly ==
  /\ at = "first" /\ Idle /\ ~ret[Client].ok
  /\ estimatedSize' = ret[Client].bytes
  /\ CaptureFrameRaw(Client, ret[Client].bytes)
  /\ at' = "second"
  /\ UNCHANGED used

(* realloc to twice the reported size, then capture again *)
GrowAndRetry ==
  /\ at = "first" /\ Idle /\ ~ret[Client].ok
  /\ estimatedSize' = 2 * ret[Client].bytes
  /\ CaptureFrameRaw(Client, 2 * ret[Client].bytes)
  /\ at' = "second"
  /\ UNCHANGED used

Captured ==
  /\ \/ at = "first" /\ Idle /\ ret[Client].ok
     \/ at = "second" /\ Idle
  /\ at' = "use"
  /\ UNCHANGED <<vars, estimatedSize, used>>

Use ==
  /\ at = "use"
  /\ at' = "poll"
  /\ used' = IF got[Client] = <<>> THEN 0 ELSE Head(got[Client])
  /\ UNCHANGED <<vars, estimatedSize>>

Stop == at = "poll" /\ Close /\ at' = "stopped" /\ UNCHANGED <<estimatedSize, used>>

Library ==
  /\ \/ \E len \in FrameLens : Submit(len)
     \/ CaptureThread
     \/ ApiStep(Client)
     \/ Teardown \/ Gone
  /\ UNCHANGED loop

LoopNext ==
  \/ OpenRaw \/ Poll \/ NothingNew \/ CaptureFirst \/ GrowAndRetry \/ Captured
  \/ Use \/ Stop \/ Library

LoopSpec == LoopInit /\ [][LoopNext]_loopVars
-----------------------------------------------------------------------------
(* README.md: after the two calls "jpegBuf now contains a complete JPEG",   *)
(* i.e. the capture the loop relies on succeeded.                           *)
UsedJpegIsComplete == at = "use" => ret[Client].ok

(* hasNewFrame and the capture that follows agree: every frame the loop     *)
(* uses is newer than all it used before, none is used twice.               *)
EachPassUsesANewFrame ==
  at = "use" => got[Client] # <<>> /\ Head(got[Client]) > used
=============================================================================
