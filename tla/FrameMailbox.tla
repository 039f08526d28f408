---------------------------- MODULE FrameMailbox ----------------------------
(***************************************************************************)
(* What a capture stream promises the callers of the C API: a mailbox that *)
(* holds the newest frame only.  The capture thread publishes frames, the  *)
(* n-th one it publishes is frame n; a caller takes the newest frame       *)
(* (Cap_captureFrame, Cap_captureFrameRaw) or looks at it without taking   *)
(* it (Cap_decodeFrame).  Everything happens in one step: no caller sees a *)
(* frame half written.  Module Stream implements this with a mutex.        *)
(*                                                                         *)
(* The picture in the mailbox is a sequence of chunks, each the number of  *)
(* the frame it is part of.  A raw frame replaces the picture; an RGB      *)
(* frame is painted over it, and one shorter than the picture leaves the   *)
(* rest of what was there.                                                 *)
(***************************************************************************)
EXTENDS Naturals, Sequences

CONSTANTS Readers,       \* the threads that call the API on this stream
          FrameBufferLen,\* chunks in an RGB picture
          FrameLens,     \* chunks in the frames the device delivers
          MaxFrames      \* bound on the frames published (model checking only)

VARIABLES newest,     \* number of the newest frame, 0 before the first
          fresh,      \* what Cap_hasNewFrame answers
          taken,      \* the newest frame any caller has taken
          raw,        \* the stream was opened for raw capture
          picture,    \* the chunks a caller is given
          got         \* got[r]: the chunks of the last buffer handed to r

vars == <<newest, fresh, taken, raw, picture, got>>

Init ==
  /\ newest = 0
  /\ fresh = FALSE
  /\ taken = 0
  /\ raw = FALSE
  /\ picture = [i \in 1..FrameBufferLen |-> 0]
  /\ got = [r \in Readers |-> <<>>]

(* The stream is opened for raw capture: there is no picture yet. *)
OpenRaw ==
  /\ newest = 0
  /\ raw' = TRUE
  /\ picture' = <<>>
  /\ UNCHANGED <<newest, fresh, taken, got>>

(* The capture thread puts a newer frame of len chunks into the mailbox. *)
Publish(len) ==
  /\ newest < MaxFrames
  /\ raw \/ len <= FrameBufferLen
  /\ newest' = newest + 1
  /\ fresh' = TRUE
  /\ picture' = [i \in 1..(IF raw THEN len ELSE FrameBufferLen) |->
                   IF i <= len THEN newest + 1 ELSE picture[i]]
  /\ UNCHANGED <<taken, raw, got>>

(* A caller is handed the picture, an RGB one as far as its buffer goes. *)
HandOver(r) ==
  \E n \in 0..Len(picture) :
    /\ raw => n = Len(picture)
    /\ got' = [got EXCEPT ![r] = [i \in 1..n |-> picture[i]]]

(* A caller copies the newest frame and marks it as seen. *)
Take(r) ==
  /\ HandOver(r)
  /\ taken' = newest
  /\ fresh' = FALSE
  /\ UNCHANGED <<newest, raw, picture>>

(* A caller decodes the newest frame and leaves it marked as new. *)
Peek(r) ==
  /\ raw /\ newest > 0
  /\ HandOver(r)
  /\ UNCHANGED <<newest, fresh, taken, raw, picture>>

Next ==
  \/ OpenRaw
  \/ \E len \in FrameLens : Publish(len)
  \/ \E r \in Readers : Take(r) \/ Peek(r)

Spec == Init /\ [][Next]_vars
=============================================================================
