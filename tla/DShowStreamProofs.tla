------------------------- MODULE DShowStreamProofs -------------------------
(***************************************************************************)
(* Proofs about module DShowStream, for any sizes.  Where open() or        *)
(* close() is determines what is held (BuiltInv); a callback runs only     *)
(* between Run and the return of Stop, so what it uses is there (SampleInv)*)
(* and close() ends it before the camera is given back.  What is stored or *)
(* being copied is laid out for the size in force (LayoutInv).             *)
(***************************************************************************)
EXTENDS DShowStream, TLAPS

Places == Stages \cup {"readback", "run", "reapply", "check", "matched",
  "mismatch", "open", "failed", "refusing", "refused", "closing", "closed"}

FlagTypes ==
  /\ damaged \in BOOLEAN /\ m_rawMode \in BOOLEAN /\ m_isOpen \in BOOLEAN
  /\ m_newFrame \in BOOLEAN /\ running \in BOOLEAN /\ plugged \in BOOLEAN

DataTypes ==
  /\ api \in Places
  /\ held \subseteq UNION {Acquires[stage] : stage \in Stages}
  /\ wild \subseteq {"m_capture", "m_videoProcAmp"}
  /\ m_callbackHandler \in {"null", "alive", "dangling"}
  /\ m_size \in Sizes \cup {0} /\ m_frameBuffer \in Sizes \cup {0}
  /\ bytes \in Sizes \cup {0} /\ layout \in Sizes \cup {0}
  /\ connected \in Sizes \cup {0}
  /\ stored \subseteq Sizes \cup {0} /\ got \subseteq Sizes \cup {0}
  /\ sample \in {"none", "arrived", "copying"}

(* The places where the whole graph has been built, and where it may run. *)
Running == {"reapply", "check", "matched", "mismatch", "open"}
Built == Running \cup {"readback", "run", "refusing"}

BuiltInv ==
  /\ api \in {"graph", "builder", "control", "source"} => "m_sourceFilter" \notin held
  /\ api \in {"format", "controls", "grabber", "callback", "renderer", "render"}
       \cup Built => "m_sourceFilter" \in held
  /\ api \in {"callback", "renderer", "render"} \cup Built => "m_sampleGrabber" \in held
  /\ api \in {"renderer", "render"} \cup Built => m_callbackHandler = "alive"
  /\ api = "refused" => m_callbackHandler = "dangling"
  /\ m_callbackHandler = "dangling" => held = {} /\ api \in {"refused", "closing", "closed"}
  /\ running => api \in Running

SampleInv ==
  /\ sample # "none" => /\ api \in Running \cup {"refusing", "closing"}
                        /\ {"m_sourceFilter", "m_sampleGrabber"} \subseteq held
                        /\ m_callbackHandler = "alive"
                        /\ bytes > 0
  /\ sample = "copying" => m_frameBuffer > 0

IInv == FlagTypes /\ DataTypes /\ BuiltInv /\ SampleInv

LEMMA TypesAreTypeOK == FlagTypes /\ DataTypes => TypeOK
BY Zenon DEF FlagTypes, DataTypes, TypeOK, Places

LEMMA InitInv == Init => IInv
<1> SUFFICES ASSUME Init PROVE IInv
  OBVIOUS
<1> USE DEF Init
<1>1. FlagTypes
  BY Zenon DEF FlagTypes
<1>2. DataTypes
  BY DEF DataTypes, Places, Stages, Acquires
<1>3. BuiltInv /\ SampleInv
  BY DEF BuiltInv, SampleInv, Built, Running
<1>4. QED
  BY <1>1, <1>2, <1>3 DEF IInv

LEMMA FlagsStep == ASSUME FlagTypes, [Next]_vars PROVE FlagTypes'
<1> USE DEF FlagTypes, pointers, members, frames, callback, graph
<1>1. CASE UNCHANGED vars
  BY Zenon, <1>1 DEF vars
<1>2. ASSUME NEW stage \in Stages, NEW acquired, Build(stage, acquired) \/ BuildFails(stage)
      PROVE  FlagTypes'
  BY Zenon, <1>2 DEF Build, BuildFails
<1>3. CASE ReadBack \/ Run \/ Reapply
  BY Zenon, <1>3 DEF ReadBack, Run, Reapply
<1>4. CASE FinalCheck \/ Opened \/ SetFrameRate
  BY Zenon, <1>4 DEF FinalCheck, Opened, SetFrameRate
<1>5. CASE CloseBegin \/ SampleArrives
  BY Zenon, <1>5 DEF CloseBegin, SampleArrives
<1>6. CASE CloseEnd
  BY <1>6 DEF CloseEnd
<1>7. CASE SampleCB
  BY Zenon, <1>7 DEF SampleCB, SubmitRawBuffer, SubmitBuffer, SubmitBufferEnds
<1>8. CASE CaptureFrame \/ Unplug \/ Gone
  BY Zenon, <1>8 DEF CaptureFrame, Unplug, Gone, vars
<1>9. QED
  BY <1>1, <1>2, <1>3, <1>4, <1>5, <1>6, <1>7, <1>8 DEF Next

LEMMA StagesAre ==
  Stages = {"graph", "builder", "control", "source", "format", "controls",
            "grabber", "callback", "renderer", "render"}
BY DEF Stages, Acquires

LEMMA AfterIsPlace == \A stage \in Stages : After[stage] \in Places
BY StagesAre DEF After, Places

LEMMA DataStep == ASSUME IInv, [Next]_vars PROVE DataTypes'
<1> USE DShowAssumption DEF IInv, DataTypes, pointers, members, frames, callback, graph
<1>1. CASE UNCHANGED vars
  BY <1>1 DEF vars
<1>2. ASSUME NEW stage \in Stages, NEW acquired \in SUBSET Acquires[stage],
             Build(stage, acquired)
      PROVE  DataTypes'
  <2>1. acquired \subseteq UNION {Acquires[s] : s \in Stages}
    BY Zenon
  <2>2. api' \in Places
    BY <1>2, AfterIsPlace DEF Build
  <2>3. connected' \in Sizes \cup {0} /\ m_callbackHandler' \in {"null", "alive", "dangling"}
    BY <1>2 DEF Build
  <2>4. QED
    BY <1>2, <2>1, <2>2, <2>3 DEF Build
<1>3. ASSUME NEW stage \in Stages, BuildFails(stage)
      PROVE  DataTypes'
  BY <1>3 DEF BuildFails, Places
<1>4. CASE ReadBack \/ Run \/ Reapply
  BY <1>4 DEF ReadBack, Run, Reapply, Places
<1>5. CASE FinalCheck \/ Opened \/ SetFrameRate
  BY <1>5 DEF FinalCheck, Opened, SetFrameRate, Places
<1>6. CASE CloseBegin
  BY <1>6 DEF CloseBegin, Closing, Places
<1>7. CASE CloseEnd
  BY <1>7 DEF CloseEnd, Places
<1>8. CASE SampleArrives \/ SampleCB
  BY <1>8 DEF SampleArrives, SampleCB, SubmitRawBuffer, SubmitBuffer, SubmitBufferEnds
<1>9. CASE CaptureFrame \/ Unplug \/ Gone
  BY <1>9 DEF CaptureFrame, Unplug, Gone, vars
<1>10. QED
  BY <1>1, <1>2, <1>3, <1>4, <1>5, <1>6, <1>7, <1>8, <1>9 DEF Next

LEMMA BuiltStep == ASSUME IInv, [Next]_vars PROVE BuiltInv'
<1> USE DEF IInv, BuiltInv, Built, Running, pointers, members, frames, callback, graph
<1>1. CASE UNCHANGED vars
  BY <1>1 DEF vars
<1>2. ASSUME NEW stage \in Stages, NEW acquired \in SUBSET Acquires[stage],
             Build(stage, acquired)
      PROVE  BuiltInv'
  BY <1>2, StagesAre DEF Build, Acquires, After, Optional
<1>3. ASSUME NEW stage \in Stages, BuildFails(stage)
      PROVE  BuiltInv'
  BY <1>3, StagesAre DEF BuildFails
<1>4. CASE ReadBack \/ Run \/ Reapply
  BY <1>4 DEF ReadBack, Run, Reapply
<1>5. CASE FinalCheck \/ Opened \/ SetFrameRate
  BY <1>5 DEF FinalCheck, Opened, SetFrameRate
<1>6. CASE CloseBegin
  BY <1>6 DEF CloseBegin, Closing
<1>7. CASE CloseEnd
  BY <1>7 DEF CloseEnd, DataTypes
<1>8. CASE SampleArrives \/ SampleCB
  BY <1>8 DEF SampleArrives, SampleCB, SubmitRawBuffer, SubmitBuffer, SubmitBufferEnds
<1>9. CASE CaptureFrame \/ Unplug \/ Gone
  BY <1>9 DEF CaptureFrame, Unplug, Gone, vars
<1>10. QED
  BY <1>1, <1>2, <1>3, <1>4, <1>5, <1>6, <1>7, <1>8, <1>9 DEF Next

LEMMA SampleStep == ASSUME IInv, [Next]_vars PROVE SampleInv'
<1> USE DShowAssumption
    DEF IInv, SampleInv, Built, Running, pointers, members, frames, callback, graph
<1>1. CASE UNCHANGED vars
  BY <1>1 DEF vars
<1>2. ASSUME NEW stage \in Stages, NEW acquired,
             Build(stage, acquired) \/ BuildFails(stage)
      PROVE  SampleInv'
  BY <1>2, StagesAre DEF Build, BuildFails
<1>3. CASE ReadBack \/ Run \/ Reapply
  BY <1>3 DEF ReadBack, Run, Reapply
<1>4. CASE FinalCheck \/ Opened \/ SetFrameRate
  BY <1>4 DEF FinalCheck, Opened, SetFrameRate
<1>5. CASE CloseBegin
  BY <1>5 DEF CloseBegin, Closing
<1>6. CASE CloseEnd
  BY <1>6 DEF CloseEnd, BuiltInv
<1>7. CASE SampleArrives
  BY <1>7 DEF SampleArrives, BuiltInv, DataTypes
<1>8. CASE SampleCB
  BY <1>8 DEF SampleCB, SubmitRawBuffer, SubmitBuffer, SubmitBufferEnds, DataTypes
<1>9. CASE CaptureFrame \/ Unplug \/ Gone
  BY <1>9 DEF CaptureFrame, Unplug, Gone, vars
<1>10. QED
  BY <1>1, <1>2, <1>3, <1>4, <1>5, <1>6, <1>7, <1>8, <1>9 DEF Next

LEMMA InvariantHolds == Spec => []IInv
<1>1. IInv /\ [Next]_vars => IInv'
  BY FlagsStep, DataStep, BuiltStep, SampleStep DEF IInv
<1>2. QED
  BY <1>1, InitInv, PTL DEF Spec

(* Every variable of the Windows stream keeps its type. *)
THEOREM TypeCorrect == Spec => []TypeOK
BY InvariantHolds, TypesAreTypeOK, PTL DEF IInv

(* A callback never runs after its handler was deleted, nor copies to a     *)
(* buffer that has been given up.                                           *)
THEOREM CallbackSafe == Spec => []CallbackHasItsObjects
<1>1. IInv => CallbackHasItsObjects
  BY DEF IInv, SampleInv, CallbackHasItsObjects
<1>2. QED
  BY <1>1, InvariantHolds, PTL
-----------------------------------------------------------------------------
(* A step of the stream is a step of CaptureSource or leaves it alone. *)
LEMMA SourceNext == ASSUME IInv, [Next]_vars PROVE [Source!Next]_(Source!vars)
<1> USE DEF IInv, BuiltInv, Built, Running, phase, pointers, members, frames,
            callback, graph, Source!vars, Source!Next
<1>1. CASE UNCHANGED vars
  BY <1>1 DEF vars
<1>2. ASSUME NEW stage \in Stages, NEW acquired \in SUBSET Acquires[stage],
             Build(stage, acquired)
      PROVE  [Source!Next]_(Source!vars)
  BY <1>2, StagesAre DEF Build, Acquires, After, Optional, Source!Claim
<1>3. ASSUME NEW stage \in Stages, BuildFails(stage)
      PROVE  [Source!Next]_(Source!vars)
  BY <1>3, StagesAre DEF BuildFails
<1>4. CASE ReadBack \/ Run \/ Reapply
  BY <1>4 DEF ReadBack, Run, Reapply
<1>5. CASE FinalCheck \/ SetFrameRate
  BY <1>5 DEF FinalCheck, SetFrameRate
<1>6. CASE Opened
  BY <1>6 DEF Opened, Source!Opened
<1>7. CASE CloseBegin
  BY <1>7 DEF CloseBegin, Closing, Source!BeginClose
<1>8. CASE CloseEnd
  BY <1>8 DEF CloseEnd, Source!Closed
<1>9. CASE SubmitRawBuffer \/ SubmitBufferEnds
  BY <1>9 DEF SubmitRawBuffer, SubmitBufferEnds, SampleInv, Source!Store
<1>10. CASE SampleArrives \/ SubmitBuffer
  BY <1>10 DEF SampleArrives, SubmitBuffer
<1>11. CASE CaptureFrame
  BY <1>11 DEF CaptureFrame, Source!Take
<1>12. CASE Unplug \/ Gone
  BY <1>12 DEF Unplug, Gone, vars
<1>13. QED
  BY <1>1, <1>2, <1>3, <1>4, <1>5, <1>6, <1>7, <1>8, <1>9, <1>10, <1>11, <1>12
     DEF Next, SampleCB

(* The Windows stream implements CaptureSource. *)
THEOREM DShowImplementsSource == Spec => ImplementsSource
<1>1. Init => Source!Init
  BY DEF Init, Source!Init, phase
<1>2. QED
  BY <1>1, SourceNext, InvariantHolds, PTL DEF Spec, ImplementsSource, Source!Spec
-----------------------------------------------------------------------------
(* Until FinalCheck, m_width and m_height are those open() has read back,    *)
(* and what was stored or is being copied is laid out for them.  After it,  *)
(* they are the requested ones; what is laid out for others is older.       *)
LayoutInv ==
  /\ api \in Stages \cup {"readback", "run", "reapply", "check", "matched"} => got = {}
  /\ api \in Stages \cup {"readback", "run"} => stored = {}
  /\ api \in {"reapply", "check"} =>
       /\ stored \subseteq {m_size}
       /\ sample = "copying" => layout = m_size
  /\ api \in {"matched", "open"} =>
       /\ m_size = Requested
       /\ stored = {Requested} /\ sample = "copying" => layout = Requested
       /\ got = {Requested} => stored = {Requested}

LEMMA LayoutStep ==
  ASSUME IInv, LayoutInv, [Next]_vars
  PROVE  LayoutInv' /\ (got = {Requested} => got' = {Requested})
<1> DEFINE Goal == LayoutInv' /\ (got = {Requested} => got' = {Requested})
<1> USE DShowAssumption
    DEF IInv, LayoutInv, pointers, members, frames, callback, graph
<1>1. CASE UNCHANGED vars
  BY <1>1 DEF vars
<1>2. ASSUME NEW stage \in Stages, NEW acquired, Build(stage, acquired)
      PROVE  Goal
  BY <1>2, StagesAre DEF Build, After
<1>3. ASSUME NEW stage \in Stages, BuildFails(stage)
      PROVE  Goal
  BY <1>3, StagesAre DEF BuildFails
<1>4. CASE ReadBack
  BY <1>4, StagesAre DEF ReadBack
<1>5. CASE Run
  BY <1>5, StagesAre DEF Run, SampleInv, Running
<1>6. CASE Reapply
  BY <1>6, StagesAre DEF Reapply
<1>7. CASE FinalCheck
  BY <1>7, StagesAre DEF FinalCheck
<1>8. CASE Opened \/ SetFrameRate
  BY <1>8, StagesAre DEF Opened, SetFrameRate
<1>9. CASE CloseBegin
  BY <1>9, StagesAre DEF CloseBegin, Closing
<1>10. CASE CloseEnd
  BY <1>10, StagesAre DEF CloseEnd
<1>11. CASE SampleArrives \/ SubmitRawBuffer
  BY <1>11 DEF SampleArrives, SubmitRawBuffer
<1>12. CASE SubmitBuffer
  BY <1>12, StagesAre DEF SubmitBuffer, SampleInv, Running
<1>13. CASE SubmitBufferEnds
  BY <1>13, StagesAre DEF SubmitBufferEnds, SampleInv, Running
<1>14. CASE CaptureFrame
  BY <1>14, StagesAre DEF CaptureFrame
<1>15. CASE Unplug
  BY <1>15 DEF Unplug
<1>16. CASE Gone
  BY <1>1, <1>16 DEF Gone
<1>17. QED
  BY <1>1, <1>2, <1>3, <1>4, <1>5, <1>6, <1>7, <1>8, <1>9, <1>10, <1>11, <1>12,
     <1>13, <1>14, <1>15, <1>16 DEF Next, SampleCB

(* Whatever the camera renegotiates, once a client of an open stream has    *)
(* got a frame of the requested layout, it gets no other.                   *)
THEOREM LayoutIsFinal == Spec => LayoutSettles
<1>1. Init => LayoutInv
  BY DEF Init, LayoutInv
<1>2. IInv /\ LayoutInv /\ [Next]_vars => LayoutInv'
  BY LayoutStep
<1>3. IInv /\ LayoutInv /\ [Next]_vars => [got = {Requested} => got' = {Requested}]_vars
  BY LayoutStep
<1>4. QED
  BY <1>1, <1>2, <1>3, InvariantHolds, PTL DEF Spec, LayoutSettles
=============================================================================
