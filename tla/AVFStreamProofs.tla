-------------------------- MODULE AVFStreamProofs --------------------------
(***************************************************************************)
(* Proofs about module AVFStream.  Where open() or close() is determines   *)
(* what has been set up (SetUpInv); a delegate call begins only while the  *)
(* session runs, and close() waits for it, so it finds what open() set up. *)
(***************************************************************************)
EXTENDS AVFStream, TLAPS

SetUpInv ==
  /\ m_nativeSession =
       IF api \in {"session", "closed"} THEN "none"
       ELSE IF api \in {"unlock", "opened", "open"} THEN "running" ELSE "made"
  /\ api \in {"delegate", "start"} /\ granted => locked
  /\ api \in {"delegate", "start", "unlock", "opened", "open"} =>
       m_sized /\ (granted => activeFormat = "requested")
  /\ api \in {"start", "unlock", "opened", "open"} => m_captureDelegate
  /\ api \in {"format", "delegate", "start", "unlock", "opened", "open"} => input
  /\ m_isOpen => api \in {"open", "closing"} /\ input
  /\ delegate = "called" => /\ m_sized /\ m_captureDelegate
                            /\ api \in {"unlock", "opened", "open", "closing"}
                            /\ captured < MaxFrames
  /\ m_frames <= captured

(* TypeOK, variable by variable *)
FlagTypes ==
  /\ m_rawMode \in BOOLEAN /\ m_isOpen \in BOOLEAN /\ m_device \in BOOLEAN
  /\ m_sized \in BOOLEAN /\ m_captureDelegate \in BOOLEAN
  /\ m_newFrame \in BOOLEAN /\ listed \in BOOLEAN /\ input \in BOOLEAN
  /\ locked \in BOOLEAN /\ granted \in BOOLEAN /\ plugged \in BOOLEAN

DataTypes ==
  /\ api \in {"session", "input", "format", "delegate", "start", "unlock",
              "opened", "open", "failed", "closing", "closed"}
  /\ m_nativeSession \in {"none", "made", "running"}
  /\ m_frames \in 0..MaxFrames /\ captured \in 0..MaxFrames
  /\ delegate \in {"idle", "called"}
  /\ activeFormat \in {"default", "requested"}

IInv == FlagTypes /\ DataTypes /\ SetUpInv

LEMMA TypesAreTypeOK == FlagTypes /\ DataTypes => TypeOK
BY Zenon DEF FlagTypes, DataTypes, TypeOK

LEMMA InitInv == Init => IInv
<1> SUFFICES ASSUME Init PROVE IInv
  OBVIOUS
<1> USE DEF Init
<1>1. FlagTypes
  BY Zenon DEF FlagTypes
<1>2. DataTypes
  BY AVFAssumption DEF DataTypes
<1>3. SetUpInv
  BY DEF SetUpInv
<1>4. QED
  BY <1>1, <1>2, <1>3 DEF IInv

LEMMA FlagsStep == ASSUME FlagTypes, [Next]_vars PROVE FlagTypes'
<1> USE DEF FlagTypes, members, frames, object
<1>1. CASE UNCHANGED vars
  BY Zenon, <1>1 DEF vars
<1>2. CASE MakeSession
  BY Zenon, <1>2 DEF MakeSession
<1>3. CASE AddInput
  BY Zenon, <1>3 DEF AddInput
<1>4. CASE SetFormat
  BY Zenon, <1>4 DEF SetFormat
<1>5. CASE SetDelegate
  BY Zenon, <1>5 DEF SetDelegate
<1>6. CASE OpenFails
  BY Zenon, <1>6 DEF OpenFails
<1>7. CASE StartRunning
  BY Zenon, <1>7 DEF StartRunning
<1>8. CASE Unlock
  BY Zenon, <1>8 DEF Unlock
<1>9. CASE Opened
  BY Zenon, <1>9 DEF Opened
<1>10. CASE CloseBegin
  BY Zenon, <1>10 DEF CloseBegin
<1>11. CASE CloseEnd
  BY Zenon, <1>11 DEF CloseEnd
<1>12. CASE SampleArrives
  BY Zenon, <1>12 DEF SampleArrives
<1>13. CASE CaptureFrame
  BY Zenon, <1>13 DEF CaptureFrame
<1>14. ASSUME NEW ok \in BOOLEAN, Callback(ok)
      PROVE  FlagTypes'
  BY Zenon, <1>14 DEF Callback
<1>15. CASE RefreshDevices
  BY Zenon, <1>15 DEF RefreshDevices
<1>16. CASE Unplug
  BY Zenon, <1>16 DEF Unplug
<1>17. CASE Gone
  BY Zenon, <1>17 DEF Gone, vars
<1>18. QED
  BY <1>1, <1>2, <1>3, <1>4, <1>5, <1>6, <1>7, <1>8, <1>9, <1>10, <1>11,
     <1>12, <1>13, <1>14, <1>15, <1>16, <1>17 DEF Next

LEMMA DataStep == ASSUME IInv, [Next]_vars PROVE DataTypes'
<1> USE AVFAssumption DEF IInv, DataTypes, members, frames, object
<1>1. CASE UNCHANGED vars
  BY <1>1 DEF vars
<1>2. CASE MakeSession \/ AddInput \/ SetFormat
  BY <1>2 DEF MakeSession, AddInput, SetFormat
<1>3. CASE SetDelegate \/ OpenFails \/ StartRunning
  BY <1>3 DEF SetDelegate, OpenFails, StartRunning
<1>4. CASE Unlock \/ Opened
  BY <1>4 DEF Unlock, Opened
<1>5. CASE CloseBegin \/ CloseEnd
  BY <1>5 DEF CloseBegin, CloseEnd
<1>6. CASE SampleArrives \/ CaptureFrame
  BY <1>6 DEF SampleArrives, CaptureFrame
<1>7. ASSUME NEW ok \in BOOLEAN, Callback(ok)
      PROVE  DataTypes'
  BY <1>7 DEF Callback, SetUpInv
<1>8. CASE RefreshDevices \/ Unplug \/ Gone
  BY <1>8 DEF RefreshDevices, Unplug, Gone, vars
<1>9. QED
  BY <1>1, <1>2, <1>3, <1>4, <1>5, <1>6, <1>7, <1>8 DEF Next

LEMMA SetUpStep == ASSUME IInv, [Next]_vars PROVE SetUpInv'
<1> USE AVFAssumption DEF IInv, FlagTypes, DataTypes, SetUpInv, members, frames, object
<1>1. CASE UNCHANGED vars
  BY <1>1 DEF vars
<1>2. CASE MakeSession \/ AddInput \/ SetFormat
  BY <1>2 DEF MakeSession, AddInput, SetFormat
<1>3. CASE SetDelegate \/ OpenFails \/ StartRunning
  BY <1>3 DEF SetDelegate, OpenFails, StartRunning
<1>4. CASE Unlock \/ Opened
  BY <1>4 DEF Unlock, Opened
<1>5. CASE CloseBegin \/ CloseEnd
  BY <1>5 DEF CloseBegin, CloseEnd
<1>6. CASE SampleArrives \/ CaptureFrame
  BY <1>6 DEF SampleArrives, CaptureFrame
<1>7. ASSUME NEW ok \in BOOLEAN, Callback(ok)
      PROVE  SetUpInv'
  BY <1>7 DEF Callback
<1>8. CASE RefreshDevices \/ Unplug \/ Gone
  BY <1>8 DEF RefreshDevices, Unplug, Gone, vars
<1>9. QED
  BY <1>1, <1>2, <1>3, <1>4, <1>5, <1>6, <1>7, <1>8 DEF Next

LEMMA InvariantHolds == Spec => []IInv
<1>1. IInv /\ [Next]_vars => IInv'
  BY FlagsStep, DataStep, SetUpStep DEF IInv
<1>2. QED
  BY <1>1, InitInv, PTL DEF Spec

(* Every variable of the macOS stream keeps its type. *)
THEOREM TypeCorrect == Spec => []TypeOK
BY InvariantHolds, TypesAreTypeOK, PTL DEF IInv

(* No delegate call runs on a stream that has been closed, or before its    *)
(* buffers have been made.                                                  *)
THEOREM DelegateSafe == Spec => []DelegateHasItsStream
<1>1. IInv => DelegateHasItsStream
  BY DEF IInv, SetUpInv, DelegateHasItsStream
<1>2. QED
  BY <1>1, InvariantHolds, PTL

(* The session retains the device of an open stream, so refreshing the      *)
(* device list does not delete it.                                          *)
THEOREM DeviceSafe == Spec => []DeviceOutlivesStream
<1>1. IInv => DeviceOutlivesStream
  BY DEF IInv, SetUpInv, DeviceOutlivesStream
<1>2. QED
  BY <1>1, InvariantHolds, PTL

(* A lock that was granted is kept until the session has been started, so   *)
(* the session runs the requested format.                                   *)
THEOREM FormatKept == Spec => []LockedFormatIsKept
<1>1. IInv => LockedFormatIsKept
  BY DEF IInv, SetUpInv, LockedFormatIsKept
<1>2. QED
  BY <1>1, InvariantHolds, PTL

(* A step of the stream is a step of CaptureSource or leaves it alone. *)
LEMMA SourceNext == ASSUME IInv, [Next]_vars PROVE [Source!Next]_(Source!vars)
<1> USE DEF IInv, FlagTypes, DataTypes, SetUpInv, phase, members, frames,
            object, Source!vars, Source!Next
<1>1. CASE UNCHANGED vars
  BY <1>1 DEF vars
<1>2. CASE MakeSession
  BY <1>2 DEF MakeSession, Source!Claim
<1>3. CASE AddInput \/ SetFormat \/ SetDelegate \/ OpenFails
  BY <1>3 DEF AddInput, SetFormat, SetDelegate, OpenFails
<1>4. CASE StartRunning \/ Unlock
  BY <1>4 DEF StartRunning, Unlock
<1>5. CASE Opened
  BY <1>5 DEF Opened, Source!Opened
<1>6. CASE CloseBegin
  BY <1>6 DEF CloseBegin, Source!BeginClose
<1>7. CASE CloseEnd
  BY <1>7 DEF CloseEnd, Source!Closed
<1>8. ASSUME NEW ok \in BOOLEAN, Callback(ok)
      PROVE  [Source!Next]_(Source!vars)
  BY <1>8 DEF Callback, Source!Store
<1>9. CASE CaptureFrame
  BY <1>9 DEF CaptureFrame, Source!Take
<1>10. CASE SampleArrives \/ RefreshDevices \/ Unplug \/ Gone
  BY <1>10 DEF SampleArrives, RefreshDevices, Unplug, Gone, vars
<1>11. QED
  BY <1>1, <1>2, <1>3, <1>4, <1>5, <1>6, <1>7, <1>8, <1>9, <1>10 DEF Next

(* The macOS stream implements CaptureSource. *)
THEOREM AVFImplementsSource == Spec => ImplementsSource
<1>1. Init => Source!Init
  BY DEF Init, Source!Init, phase
<1>2. QED
  BY <1>1, SourceNext, InvariantHolds, PTL DEF Spec, ImplementsSource, Source!Spec
=============================================================================
