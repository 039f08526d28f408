---------------------------- MODULE DeviceCheck ----------------------------
(***************************************************************************)
(* libmain.cpp: Cap_isDeviceAvailable, Cap_probeDevice, Cap_verifyDevice,  *)
(* with Context::probeDevice (common/context.cpp).  The fast check looks   *)
(* whether the camera can be opened; the invasive one opens a stream,      *)
(* polls for a frame every 50 ms until it has waited for timeoutMs, and    *)
(* closes the stream.  Meanwhile other processes take and free the camera, *)
(* it is unplugged, and its frames come when they come.                    *)
(*                                                                         *)
(* Time is counted in units of the poll interval's size and the counter    *)
(* `waited' wraps as a uint32_t does, both at a small scale.  One call is  *)
(* made; the device list does not change during it (openpnp-capture.h      *)
(* excludes a concurrent Cap_refreshDevices).  What open() does inside is  *)
(* the platform streams' modules' matter; what it may leave behind when it *)
(* fails, a camera held by an object nobody can reach, is OpenFails'.      *)
(***************************************************************************)
EXTENDS Integers

CONSTANTS
  PollInterval,
  DefaultTimeout,
  Timeouts,      \* the values of timeoutMs clients pass
  WrapAt,        \* 2^32
  MaxLate,       \* bound on how much longer than asked a sleep takes
  MaxElapsed     \* the clock stops here: bound on the time told apart

ASSUME DeviceCheckAssumption ==
  /\ PollInterval \in Nat \ {0}
  /\ WrapAt \in Nat \ {0}
  /\ DefaultTimeout \in 1..WrapAt - 1
  /\ Timeouts \subseteq 0..WrapAt - 1
  /\ MaxLate \in Nat
  /\ MaxElapsed \in Nat

Calls == {"isDeviceAvailable", "probeDevice", "verifyDevice"}

VARIABLES
  call,        \* the function the client called
  known,       \* is the index below getDeviceCount()?
  timeoutMs,
  step,        \* "fast", "open", "poll", "sleep", "close", "over"
  waited,      \* uint32_t
  slept,       \* how long the present sleep has lasted
  m_newFrame,
  gotFrame,
  capResult,   \* "none", "OK", "ERR", "DEVICENOTFOUND"
  attached,    \* external: is the camera plugged in?
  user,        \* external: who holds it: "nobody", "library", "other"
  opened,      \* history: openStream has returned an ID
  elapsed,     \* history: time since the stream was opened
  firstFrame   \* history: when the first frame came, -1 before

client == <<call, known, timeoutMs>>
checkVars == <<client, step, waited, slept, m_newFrame, gotFrame, capResult,
          attached, user, opened, elapsed, firstFrame>>

CheckInit ==
  /\ call \in Calls
  /\ known \in BOOLEAN
  /\ timeoutMs \in Timeouts
  /\ step = IF call = "probeDevice" THEN "open" ELSE "fast"
  /\ waited = 0 /\ slept = 0
  /\ m_newFrame = FALSE /\ gotFrame = FALSE
  /\ capResult = "none"
  /\ attached \in BOOLEAN
  /\ user \in {"nobody", "other"}
  /\ opened = FALSE
  /\ elapsed = 0
  /\ firstFrame = -1

Answer(r) == step' = "over" /\ capResult' = r

outside == <<attached, user, opened, elapsed, firstFrame>>
stream == <<waited, slept, m_newFrame, gotFrame>>
-----------------------------------------------------------------------------
(* The client thread. *)

(* The index is looked at before either check. *)
UnknownIndex ==
  /\ step \in {"fast", "open"} /\ ~known
  /\ Answer("DEVICENOTFOUND")
  /\ UNCHANGED <<client, stream, outside>>

(* isDeviceAvailable: a camera that is gone cannot be opened; one that      *)
(* another process holds may or may not, by driver.  verifyDevice goes on   *)
(* only if it can.                                                          *)
NotAvailable ==
  /\ step = "fast" /\ known
  /\ ~attached \/ user = "other"
  /\ Answer("ERR")
  /\ UNCHANGED <<client, stream, outside>>

Available ==
  /\ step = "fast" /\ known
  /\ attached
  /\ IF call = "verifyDevice" THEN step' = "open" /\ UNCHANGED capResult
                              ELSE Answer("OK")
  /\ UNCHANGED <<client, stream, outside>>

(* openStream may fail for an unknown format, too.  It does not delete the  *)
(* object whose open() failed, which keeps what open() had got of the       *)
(* camera by then: nothing, or the camera itself.                           *)
OpenFails ==
  /\ step = "open" /\ known
  /\ Answer("ERR")
  /\ user' \in {user} \cup (IF attached /\ user = "nobody" THEN {"library"} ELSE {})
  /\ UNCHANGED <<client, stream, attached, opened, elapsed, firstFrame>>

OpenStream ==
  /\ step = "open" /\ known
  /\ attached /\ user = "nobody"
  /\ step' = "poll"
  /\ user' = "library"
  /\ opened' = TRUE
  /\ timeoutMs' = IF timeoutMs = 0 THEN DefaultTimeout ELSE timeoutMs
  /\ UNCHANGED <<call, known, stream, capResult, attached, elapsed, firstFrame>>

(* while (waited < timeoutMs) *)
GoOn ==
  /\ step = "poll" /\ waited < timeoutMs
  /\ step' = "sleep"
  /\ slept' = 0
  /\ UNCHANGED <<client, waited, m_newFrame, gotFrame, capResult, outside>>

GiveUp ==
  /\ step = "poll" /\ waited >= timeoutMs
  /\ step' = "close"
  /\ UNCHANGED <<client, stream, capResult, outside>>
(* Mutants: the wait is counted only if a frame came; only a frame that was *)
(* there before the sleep counts.                                           *)
WakeUncounted ==
  /\ step = "sleep" /\ slept >= PollInterval
  /\ waited' = IF m_newFrame THEN (waited + PollInterval) % WrapAt ELSE waited
  /\ gotFrame' = m_newFrame
  /\ step' = IF m_newFrame THEN "close" ELSE "poll"
  /\ UNCHANGED <<client, slept, m_newFrame, capResult, outside>>

WakeBlind ==
  /\ step = "sleep" /\ slept >= PollInterval
  /\ waited' = (waited + PollInterval) % WrapAt
  /\ gotFrame' = (m_newFrame /\ firstFrame <= elapsed - slept)
  /\ step' = IF gotFrame' THEN "close" ELSE "poll"
  /\ UNCHANGED <<client, slept, m_newFrame, capResult, outside>>

(* sleep_for returns after the poll interval at the earliest. *)
Wake ==
  /\ step = "sleep" /\ slept >= PollInterval
  /\ waited' = (waited + PollInterval) % WrapAt
  /\ gotFrame' = m_newFrame
  /\ step' = IF m_newFrame THEN "close" ELSE "poll"
  /\ UNCHANGED <<client, slept, m_newFrame, capResult, outside>>
(* Mutant: the stream of a camera that stayed silent is left open. *)
CloseIfFrame ==
  /\ step = "close"
  /\ user' = IF gotFrame THEN "nobody" ELSE user
  /\ m_newFrame' = FALSE
  /\ Answer(IF gotFrame THEN "OK" ELSE "ERR")
  /\ UNCHANGED <<client, waited, slept, gotFrame, attached, opened, elapsed,
                 firstFrame>>

Close ==
  /\ step = "close"
  /\ user' = "nobody"
  /\ m_newFrame' = FALSE
  /\ Answer(IF gotFrame THEN "OK" ELSE "ERR")
  /\ UNCHANGED <<client, waited, slept, gotFrame, attached, opened, elapsed,
                 firstFrame>>
-----------------------------------------------------------------------------
(* The world outside. *)

Tick ==
  /\ step = "sleep" /\ slept < PollInterval + MaxLate
  /\ slept' = slept + 1
  /\ elapsed' = IF elapsed < MaxElapsed THEN elapsed + 1 ELSE elapsed
  /\ UNCHANGED <<client, step, waited, m_newFrame, gotFrame, capResult, attached,
                 user, opened, firstFrame>>

(* External: the thread of the stream that was opened stores a frame and    *)
(* sets the flag.  Nothing looks at a stream whose open() failed.           *)
Frame ==
  /\ step \in {"poll", "sleep", "close"} /\ attached
  /\ ~m_newFrame
  /\ m_newFrame' = TRUE
  /\ firstFrame' = IF firstFrame = -1 THEN elapsed ELSE firstFrame
  /\ UNCHANGED <<client, step, waited, slept, gotFrame, capResult, attached, user,
                 opened, elapsed>>

Hotplug ==
  /\ attached' = ~attached
  /\ UNCHANGED <<client, step, stream, capResult, user, opened, elapsed, firstFrame>>

OtherProcess ==
  /\ user' = CASE user = "nobody" -> "other"
               [] user = "other"  -> "nobody"
               [] OTHER           -> user
  /\ user' # user
  /\ UNCHANGED <<client, step, stream, capResult, attached, opened, elapsed,
                 firstFrame>>

Over == step = "over" /\ UNCHANGED checkVars

Client ==
  \/ UnknownIndex \/ NotAvailable \/ Available \/ OpenFails \/ OpenStream
  \/ GoOn \/ GiveUp \/ Wake \/ Close

CheckNext == Client \/ Tick \/ Frame \/ Hotplug \/ OtherProcess \/ Over

CheckSpec == CheckInit /\ [][CheckNext]_checkVars

(* The client's thread runs and time passes. *)
FairCheckSpec == CheckSpec /\ WF_checkVars(Client) /\ WF_checkVars(Tick)
-----------------------------------------------------------------------------
IsOver == step = "over"
Invasive == call # "isDeviceAvailable"

(* CAPRESULT_OK of an invasive check means that the camera was opened and   *)
(* that a frame arrived before the stream was closed: a frame's flag of an  *)
(* earlier stream or a camera that only opens does not do.                  *)
OkMeansFrame == IsOver /\ Invasive /\ capResult = "OK" => firstFrame # -1

(* A camera that openStream gave an ID for is free for others once the call *)
(* has returned, whether it sent a frame, stayed silent, or was pulled out  *)
(* while the call waited.                                                   *)
CameraIsFreed == IsOver /\ opened => user # "library"

(* openpnp-capture.h, Cap_probeDevice: "open the device, wait for a frame,  *)
(* close it", and the device is held "for up to timeoutMs": no longer.  It  *)
(* does not hold: nobody can close a stream whose open() failed.            *)
ProbeKeepsNothing == IsOver => user # "library"

(* A frame that arrives within timeoutMs makes the answer OK: also one that *)
(* arrives during the last of the sleeps, however late that sleep ends.     *)
FrameInTimeIsSeen ==
  IsOver /\ firstFrame # -1 /\ firstFrame < timeoutMs => capResult = "OK"

(* What the answer of an invasive check tells the caller: an OK, that a     *)
(* frame came from the stream the check itself has opened; anything else,   *)
(* that none did within the timeout (waitForFirstFrame).                    *)
AnswerTellsOfFrame == OkMeansFrame /\ FrameInTimeIsSeen

(* Every call returns, even if no frame ever comes. *)
CallReturns == <>IsOver

(* openpnp-capture.h, Cap_probeDevice: "holds the device exclusively for up *)
(* to timeoutMs".  The wait is rounded up to a whole number of polls.       *)
HeldUpToTimeout == user = "library" /\ step # "open" => elapsed <= timeoutMs

(* availability_test.cpp: an index out of range is answered CAPRESULT_ERR.  *)
OutOfRangeIsErr == IsOver /\ ~known => capResult = "ERR"
=============================================================================
