---------------------------- MODULE CaptureSource ----------------------------
(***************************************************************************)
(* What every platform's PlatformStream promises the Context that creates, *)
(* opens and deletes it (common/stream.h declares the operations): open()  *)
(* claims the camera and succeeds or fails, frames are stored only while   *)
(* the camera is held, and when close() has returned the camera is free    *)
(* and no frame is ever stored again, so the object may be deleted.        *)
(* V4L2Stream, DShowStream and AVFStream each implement this.              *)
(***************************************************************************)

VARIABLES phase,   \* "opening", "open", "closing" or "closed"
          device,  \* "free" or "held" by this stream
          fresh    \* m_newFrame: a stored frame waits for a client

vars == <<phase, device, fresh>>

Init ==
  /\ phase = "opening"
  /\ device = "free"
  /\ fresh = FALSE

(* open() obtains the camera. *)
Claim ==
  /\ phase = "opening"
  /\ device' = "held"
  /\ UNCHANGED <<phase, fresh>>

(* open() returns true. *)
Opened ==
  /\ phase = "opening" /\ device = "held"
  /\ phase' = "open"
  /\ UNCHANGED <<device, fresh>>

(* A frame arrives; the camera may deliver before open() has returned and   *)
(* until close() has stopped it.                                            *)
Store ==
  /\ phase # "closed" /\ device = "held"
  /\ fresh' = TRUE
  /\ UNCHANGED <<phase, device>>

(* A client takes the frame. *)
Take ==
  /\ phase = "open"
  /\ fresh' = FALSE
  /\ UNCHANGED <<phase, device>>

(* close() begins, called for an open stream or one that failed to open. *)
BeginClose ==
  /\ phase \in {"opening", "open"}
  /\ phase' = "closing"
  /\ UNCHANGED <<device, fresh>>

(* close() returns. *)
Closed ==
  /\ phase = "closing"
  /\ phase' = "closed"
  /\ device' = "free"
  /\ UNCHANGED fresh

Next == Claim \/ Opened \/ Store \/ Take \/ BeginClose \/ Closed

Spec == Init /\ [][Next]_vars
=============================================================================
