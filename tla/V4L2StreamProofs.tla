-------------------------- MODULE V4L2StreamProofs --------------------------
(***************************************************************************)
(* Proofs about module V4L2Stream, for any number of buffers and formats.  *)
(* Where open() and close() are bounds where the capture thread can be     *)
(* (LifeInv); where the thread is says what it has mapped and queued       *)
(* (HelperInv); and a buffer is with the driver once, in one of its two    *)
(* queues, or with the thread (QueuesInv).                                 *)
(***************************************************************************)
EXTENDS V4L2Stream, FiniteSetTheorems, SequenceTheorems, TLAPS

FlagTypes ==
  /\ m_isOpen \in BOOLEAN /\ m_quitThread \in BOOLEAN /\ m_helperThread \in BOOLEAN
  /\ sized \in BOOLEAN /\ m_frameBuffer \in BOOLEAN /\ m_rawMode \in BOOLEAN
  /\ m_newFrame \in BOOLEAN /\ m_buffers \in BOOLEAN /\ plugged \in BOOLEAN
  /\ streaming \in BOOLEAN

DataTypes ==
  /\ api \in {"new", "fd", "format", "parm", "open", "joining", "closed"}
  /\ m_deviceHandle \in {"unset", "open", "closed"}
  /\ m_fmt \in Formats \cup {"none"}
  /\ m_frames \in 0..CounterMod - 1
  /\ thread \in {"none", "request", "map", "queue", "streamon", "loop",
                 "select", "dequeue", "submit", "requeue", "exit", "unmap",
                 "done"}
  /\ mapped \in SUBSET Buffers
  /\ held \in 0..NBuffers
  /\ incoming \in Seq(Buffers)
  /\ outgoing \in Seq(Buffers)

LifeInv ==
  /\ api \in {"new", "fd", "format", "parm"} => thread = "none" /\ ~m_helperThread
  /\ api = "open" => m_helperThread
  /\ api = "joining" => m_helperThread \/ thread = "none"
  /\ api = "closed" => thread \in {"none", "done"}
  /\ api \in {"fd", "format", "parm", "open"} => m_deviceHandle = "open"
  /\ api \in {"parm", "open"} => m_frameBuffer
  /\ ThreadHasItsResources

InLoop == {"loop", "select", "dequeue", "submit", "requeue"}

HelperInv ==
  /\ thread \in {"map", "queue", "streamon"} \cup InLoop => m_buffers
  /\ ~m_buffers => mapped = {} /\ incoming = <<>> /\ outgoing = <<>> /\ ~streaming
  /\ thread \in {"none", "done", "request"} => ~m_buffers
  /\ thread \in {"queue", "streamon"} \cup InLoop => mapped = Buffers
  /\ thread = "map" => incoming = <<>>
  /\ thread \in {"map", "queue", "streamon"} => outgoing = <<>>
  /\ thread = "queue" => \A i \in DOMAIN incoming : incoming[i] = i
  /\ thread = "unmap" => incoming = <<>> /\ outgoing = <<>> /\ ~streaming
  /\ streaming => thread \in InLoop \cup {"exit"}
  /\ thread \in {"submit", "requeue"} => held # 0
  /\ held # 0 => thread \in {"submit", "requeue", "exit", "unmap"}

Distinct(s) == \A i, j \in DOMAIN s : s[i] = s[j] => i = j

QueuesInv ==
  /\ Distinct(incoming)
  /\ Distinct(outgoing)
  /\ Elements(incoming) \cap Elements(outgoing) = {}
  /\ held \notin Elements(incoming) \cup Elements(outgoing)

IInv == FlagTypes /\ DataTypes /\ LifeInv /\ HelperInv /\ QueuesInv

LEMMA TypesAreTypeOK == FlagTypes /\ DataTypes => TypeOK
BY Zenon DEF FlagTypes, DataTypes, TypeOK

LEMMA InitInv == Init => IInv
<1> SUFFICES ASSUME Init PROVE IInv
  OBVIOUS
<1> USE DEF Init
<1>1. FlagTypes
  BY Zenon DEF FlagTypes
<1>2. DataTypes
  BY V4L2Assumption DEF DataTypes, Buffers
<1>3. LifeInv
  BY DEF LifeInv, ThreadHasItsResources
<1>4. HelperInv
  BY DEF HelperInv, InLoop
<1>5. QueuesInv
  BY DEF QueuesInv, Distinct, Elements
<1>6. QED
  BY <1>1, <1>2, <1>3, <1>4, <1>5 DEF IInv
-----------------------------------------------------------------------------
(* The thread maps buffer after buffer: the next is one of them. *)
LEMMA NextBuffer ==
  ASSUME NEW S \in SUBSET Buffers, S # Buffers
  PROVE  Cardinality(S) + 1 \in Buffers
<1>1. IsFiniteSet(Buffers) /\ Cardinality(Buffers) = NBuffers
  BY V4L2Assumption, FS_Interval DEF Buffers
<1>2. IsFiniteSet(S) /\ Cardinality(S) \in Nat
  BY <1>1, FS_Subset, FS_CardinalityType
<1>3. Cardinality(S) < NBuffers
  BY <1>1, <1>2, FS_Subset, FS_CardinalityType
<1>4. QED
  BY <1>2, <1>3, V4L2Assumption DEF Buffers

LEMMA NextFrame == m_frames \in 0..CounterMod - 1 => (m_frames + 1) % CounterMod \in 0..CounterMod - 1
BY V4L2Assumption

LEMMA FlagsStep == ASSUME FlagTypes, [Next]_vars PROVE FlagTypes'
<1> USE DEF FlagTypes, members, frames, helper, driver, CloseBegin, ThreadGoes
<1>1. CASE UNCHANGED vars
  BY Zenon, <1>1 DEF vars
<1>2. CASE OpenDevice
  BY Zenon, <1>2 DEF OpenDevice
<1>3. ASSUME NEW format, Negotiate(format)
      PROVE  FlagTypes'
  BY Zenon, <1>3 DEF Negotiate
<1>4. CASE SetFramePeriod
  BY Zenon, <1>4 DEF SetFramePeriod
<1>5. CASE StartThread
  BY Zenon, <1>5 DEF StartThread
<1>6. CASE OpenFails
  BY Zenon, <1>6 DEF OpenFails
<1>7. CASE Close
  BY Zenon, <1>7 DEF Close
<1>8. CASE CloseEnd
  BY Zenon, <1>8 DEF CloseEnd
<1>9. CASE CaptureFrame
  BY Zenon, <1>9 DEF CaptureFrame
<1>10. CASE SetupFails
  BY Zenon, <1>10 DEF SetupFails
<1>11. CASE RequestBuffers
  BY Zenon, <1>11 DEF RequestBuffers
<1>12. CASE MapBuffer
  BY Zenon, <1>12 DEF MapBuffer
<1>13. CASE AllMapped
  BY Zenon, <1>13 DEF AllMapped
<1>14. CASE QueueBuffer
  BY Zenon, <1>14 DEF QueueBuffer
<1>15. CASE AllQueued
  BY Zenon, <1>15 DEF AllQueued
<1>16. CASE StreamOn
  BY Zenon, <1>16 DEF StreamOn
<1>17. CASE TestQuit
  BY Zenon, <1>17 DEF TestQuit
<1>18. CASE SelectInterrupted
  BY Zenon, <1>18 DEF SelectInterrupted
<1>19. CASE SelectGivesUp
  BY Zenon, <1>19 DEF SelectGivesUp
<1>20. CASE SelectReady
  BY Zenon, <1>20 DEF SelectReady
<1>21. CASE Dequeue
  BY Zenon, <1>21 DEF Dequeue
<1>22. CASE DequeueAgain
  BY Zenon, <1>22 DEF DequeueAgain
<1>23. CASE DequeueFails
  BY Zenon, <1>23 DEF DequeueFails
<1>24. ASSUME NEW stored \in BOOLEAN, ThreadSubmitBuffer(stored)
      PROVE  FlagTypes'
  BY Zenon, <1>24 DEF ThreadSubmitBuffer
<1>25. CASE Requeue
  BY Zenon, <1>25 DEF Requeue
<1>26. CASE RequeueFails
  BY Zenon, <1>26 DEF RequeueFails
<1>27. CASE StreamOff
  BY Zenon, <1>27 DEF StreamOff
<1>28. CASE Unmap
  BY Zenon, <1>28 DEF Unmap
<1>29. CASE Fill
  BY Zenon, <1>29 DEF Fill
<1>30. CASE Unplug
  BY Zenon, <1>30 DEF Unplug
<1>31. CASE Gone
  BY Zenon, <1>31 DEF Gone, vars
<1>32. QED
  BY <1>1, <1>2, <1>3, <1>4, <1>5, <1>6, <1>7, <1>8, <1>9, <1>10, <1>11,
     <1>12, <1>13, <1>14, <1>15, <1>16, <1>17, <1>18, <1>19, <1>20, <1>21,
     <1>22, <1>23, <1>24, <1>25, <1>26, <1>27, <1>28, <1>29, <1>30, <1>31 DEF Next, CaptureThread

LEMMA DataStep == ASSUME IInv, [Next]_vars PROVE DataTypes'
<1> USE V4L2Assumption
    DEF IInv, DataTypes, members, frames, helper, driver, CloseBegin, ThreadGoes
<1>1. CASE UNCHANGED vars
  BY <1>1 DEF vars
<1>2. CASE OpenDevice \/ SetFramePeriod \/ StartThread
  BY <1>2 DEF OpenDevice, SetFramePeriod, StartThread
<1>3. ASSUME NEW format \in Formats, Negotiate(format)
      PROVE  DataTypes'
  BY <1>3 DEF Negotiate
<1>4. CASE OpenFails \/ Close \/ CloseEnd \/ CaptureFrame
  BY <1>4 DEF OpenFails, Close, CloseEnd, CaptureFrame
<1>5. CASE SetupFails \/ RequestBuffers \/ AllMapped \/ AllQueued \/ StreamOn
  BY <1>5 DEF SetupFails, RequestBuffers, AllMapped, AllQueued, StreamOn
<1>6. CASE MapBuffer
  BY <1>6, NextBuffer DEF MapBuffer
<1>7. CASE QueueBuffer
  <2>1. Len(incoming) + 1 \in Buffers
    BY <1>7 DEF QueueBuffer, Buffers
  <2>2. incoming' \in Seq(Buffers)
    BY <1>7, <2>1 DEF QueueBuffer
  <2>3. QED
    BY <1>7, <2>2 DEF QueueBuffer
<1>8. CASE TestQuit \/ SelectInterrupted \/ SelectGivesUp \/ SelectReady
             \/ DequeueAgain \/ DequeueFails
  BY <1>8 DEF TestQuit, SelectInterrupted, SelectGivesUp, SelectReady,
              DequeueAgain, DequeueFails
<1>9. CASE Dequeue
  <2>1. Head(outgoing) \in Buffers /\ Tail(outgoing) \in Seq(Buffers)
    BY <1>9 DEF Dequeue
  <2>2. QED
    BY <1>9, <2>1 DEF Dequeue, Buffers
<1>10. ASSUME NEW stored \in BOOLEAN, ThreadSubmitBuffer(stored)
       PROVE  DataTypes'
  BY <1>10, NextFrame DEF ThreadSubmitBuffer
<1>11. CASE Requeue
  <2>1. held \in Buffers
    BY <1>11 DEF Requeue, HelperInv, Buffers
  <2>2. incoming' \in Seq(Buffers)
    BY <1>11, <2>1 DEF Requeue
  <2>3. QED
    BY <1>11, <2>2 DEF Requeue
<1>12. CASE RequeueFails \/ StreamOff \/ Unmap
  <2>1. CASE RequeueFails
    BY <2>1 DEF RequeueFails
  <2>2. CASE StreamOff
    <3>1. \/ incoming' = <<>> /\ outgoing' = <<>>
          \/ incoming' = incoming /\ outgoing' = outgoing
      BY <2>2 DEF StreamOff
    <3>2. incoming' \in Seq(Buffers) /\ outgoing' \in Seq(Buffers)
      <4>1. incoming \in Seq(Buffers) /\ outgoing \in Seq(Buffers)
        OBVIOUS
      <4>2. <<>> \in Seq(Buffers)
        BY EmptySeq
      <4>3. QED
        BY <3>1, <4>1, <4>2
    <3>3. QED
      BY <2>2, <3>2 DEF StreamOff
  <2>3. CASE Unmap
    BY <2>3 DEF Unmap
  <2>4. QED
    BY <1>12, <2>1, <2>2, <2>3
<1>13. CASE Fill
  <2>1. Head(incoming) \in Buffers /\ Tail(incoming) \in Seq(Buffers)
    BY <1>13 DEF Fill
  <2>2. outgoing' \in Seq(Buffers)
    BY <1>13, <2>1 DEF Fill
  <2>3. QED
    BY <1>13, <2>1, <2>2 DEF Fill
<1>14. CASE Unplug \/ Gone
  BY <1>14 DEF Unplug, Gone, vars
<1>15. QED
  BY <1>1, <1>2, <1>3, <1>4, <1>5, <1>6, <1>7, <1>8, <1>9, <1>10, <1>11, <1>12,
     <1>13, <1>14 DEF Next, CaptureThread

LEMMA LifeStep == ASSUME IInv, [Next]_vars PROVE LifeInv'
<1> USE DEF IInv, DataTypes, LifeInv, ThreadHasItsResources, members, frames, helper,
            driver, CloseBegin, ThreadGoes
<1>1. CASE UNCHANGED vars
  BY <1>1 DEF vars
<1>2. CASE OpenDevice \/ SetFramePeriod \/ StartThread
  BY <1>2 DEF OpenDevice, SetFramePeriod, StartThread
<1>3. ASSUME NEW format, Negotiate(format)
      PROVE  LifeInv'
  BY <1>3 DEF Negotiate
<1>4. CASE OpenFails \/ Close \/ CaptureFrame
  BY <1>4 DEF OpenFails, Close, CaptureFrame
<1>5. CASE CloseEnd
  BY <1>5 DEF CloseEnd
<1>6. ASSUME UNCHANGED <<api, members>>, thread \notin {"none", "done"}, thread' # "none"
      PROVE  LifeInv'
  BY <1>6
<1>7. CASE SetupFails \/ RequestBuffers \/ MapBuffer \/ AllMapped \/ QueueBuffer
             \/ AllQueued \/ StreamOn
  BY <1>6, <1>7 DEF SetupFails, RequestBuffers, MapBuffer, AllMapped, QueueBuffer,
                    AllQueued, StreamOn
<1>8. CASE TestQuit \/ SelectInterrupted \/ SelectGivesUp \/ SelectReady
             \/ Dequeue \/ DequeueAgain \/ DequeueFails
  BY <1>6, <1>8 DEF TestQuit, SelectInterrupted, SelectGivesUp, SelectReady,
                    Dequeue, DequeueAgain, DequeueFails
<1>9. ASSUME NEW stored \in BOOLEAN, ThreadSubmitBuffer(stored)
      PROVE  LifeInv'
  BY <1>6, <1>9 DEF ThreadSubmitBuffer
<1>10. CASE Requeue \/ RequeueFails \/ StreamOff \/ Unmap
  BY <1>6, <1>10 DEF Requeue, RequeueFails, StreamOff, Unmap
<1>11. CASE Fill \/ Unplug \/ Gone
  BY <1>11 DEF Fill, Unplug, Gone, vars
<1>12. QED
  BY <1>1, <1>2, <1>3, <1>4, <1>5, <1>7, <1>8, <1>9, <1>10, <1>11
     DEF Next, CaptureThread

LEMMA HelperStep == ASSUME IInv, [Next]_vars PROVE HelperInv'
<1> USE DEF IInv, DataTypes, HelperInv, InLoop, members, frames, helper, driver,
            CloseBegin, ThreadGoes
<1>1. CASE UNCHANGED vars
  BY <1>1 DEF vars
<1>2. CASE OpenDevice \/ SetFramePeriod
  BY <1>2 DEF OpenDevice, SetFramePeriod
<1>3. CASE StartThread
  BY <1>3 DEF StartThread, LifeInv
<1>4. ASSUME NEW format, Negotiate(format)
      PROVE  HelperInv'
  BY <1>4 DEF Negotiate
<1>5. CASE OpenFails \/ Close \/ CloseEnd \/ CaptureFrame
  BY <1>5 DEF OpenFails, Close, CloseEnd, CaptureFrame
<1>6. CASE SetupFails
  BY <1>6 DEF SetupFails
<1>7. CASE RequestBuffers \/ MapBuffer \/ AllMapped
  BY <1>7 DEF RequestBuffers, MapBuffer, AllMapped
<1>8. CASE QueueBuffer
  <2>1. incoming \in Seq(Buffers)
    OBVIOUS
  <2>2. \A i \in DOMAIN Append(incoming, Len(incoming) + 1) :
          Append(incoming, Len(incoming) + 1)[i] = i
    BY <1>8, <2>1 DEF QueueBuffer
  <2>3. QED
    BY <1>8, <2>2 DEF QueueBuffer
<1>9. CASE AllQueued \/ StreamOn
  BY <1>9 DEF AllQueued, StreamOn
<1>10. CASE TestQuit \/ SelectInterrupted \/ SelectGivesUp \/ SelectReady
             \/ DequeueAgain \/ DequeueFails
  BY <1>10 DEF TestQuit, SelectInterrupted, SelectGivesUp, SelectReady,
               DequeueAgain, DequeueFails
<1>11. CASE Dequeue
  <2>1. Head(outgoing) \in Buffers
    BY <1>11 DEF Dequeue
  <2>2. Head(outgoing) # 0
    BY <2>1, V4L2Assumption DEF Buffers
  <2>3. QED
    BY <1>11, <2>2 DEF Dequeue
<1>12. ASSUME NEW stored \in BOOLEAN, ThreadSubmitBuffer(stored)
       PROVE  HelperInv'
  BY <1>12 DEF ThreadSubmitBuffer
<1>13. CASE Requeue \/ RequeueFails
  BY <1>13 DEF Requeue, RequeueFails
<1>14. CASE StreamOff \/ Unmap
  BY <1>14 DEF StreamOff, Unmap
<1>15. CASE Fill \/ Unplug \/ Gone
  BY <1>15 DEF Fill, Unplug, Gone, vars
<1>16. QED
  BY <1>1, <1>2, <1>3, <1>4, <1>5, <1>6, <1>7, <1>8, <1>9, <1>10, <1>11, <1>12,
     <1>13, <1>14, <1>15 DEF Next, CaptureThread
-----------------------------------------------------------------------------
(* The driver's queues *)

LEMMA ElementsType ==
  ASSUME NEW S, NEW s \in Seq(S)
  PROVE  Elements(s) \subseteq S
BY DEF Elements

LEMMA AppendElement ==
  ASSUME NEW S, NEW s \in Seq(S), NEW e \in S, Distinct(s), e \notin Elements(s)
  PROVE  Distinct(Append(s, e)) /\ Elements(Append(s, e)) = Elements(s) \cup {e}
<1>1. /\ DOMAIN Append(s, e) = 1..Len(s) + 1 /\ DOMAIN s = 1..Len(s)
      /\ Len(s) \in Nat
      /\ \A i \in 1..Len(s) : Append(s, e)[i] = s[i]
      /\ Append(s, e)[Len(s) + 1] = e
  OBVIOUS
<1>2. Distinct(Append(s, e))
  BY <1>1 DEF Distinct, Elements
<1>3. Elements(Append(s, e)) \subseteq Elements(s) \cup {e}
  BY <1>1 DEF Elements
<1>4. Elements(s) \cup {e} \subseteq Elements(Append(s, e))
  BY <1>1 DEF Elements
<1>5. QED
  BY <1>2, <1>3, <1>4

LEMMA TailElements ==
  ASSUME NEW S, NEW s \in Seq(S), s # <<>>, Distinct(s)
  PROVE  /\ Distinct(Tail(s))
         /\ Head(s) \in Elements(s) /\ Head(s) \in S
         /\ Elements(Tail(s)) = Elements(s) \ {Head(s)}
<1>1. /\ DOMAIN s = 1..Len(s) /\ Len(s) \in Nat \ {0}
      /\ DOMAIN Tail(s) = 1..Len(s) - 1
      /\ \A i \in 1..Len(s) - 1 : Tail(s)[i] = s[i + 1]
      /\ Head(s) = s[1]
  OBVIOUS
<1>2. Distinct(Tail(s))
  BY <1>1 DEF Distinct
<1>3. Head(s) \in Elements(s) /\ Head(s) \in S
  BY <1>1 DEF Elements
<1>4. Elements(Tail(s)) \subseteq Elements(s) \ {Head(s)}
  <2>1. SUFFICES ASSUME NEW i \in 1..Len(s) - 1
                 PROVE  Tail(s)[i] \in Elements(s) \ {Head(s)}
    BY <1>1 DEF Elements
  <2>2. Tail(s)[i] = s[i + 1] /\ i + 1 \in DOMAIN s /\ 1 \in DOMAIN s /\ i + 1 # 1
    BY <1>1
  <2>3. QED
    BY <1>1, <2>2 DEF Distinct, Elements
<1>5. Elements(s) \ {Head(s)} \subseteq Elements(Tail(s))
  <2>1. SUFFICES ASSUME NEW i \in 1..Len(s), s[i] # s[1]
                 PROVE  s[i] \in Elements(Tail(s))
    BY <1>1 DEF Elements
  <2>2. i - 1 \in 1..Len(s) - 1 /\ Tail(s)[i - 1] = s[i]
    BY <1>1, <2>1
  <2>3. QED
    BY <1>1, <2>2 DEF Elements
<1>6. QED
  BY <1>2, <1>3, <1>4, <1>5

LEMMA DistinctCount ==
  ASSUME NEW S, NEW s \in Seq(S), Distinct(s)
  PROVE  IsFiniteSet(Elements(s)) /\ Cardinality(Elements(s)) = Len(s)
<1>1. DOMAIN s = 1..Len(s) /\ Len(s) \in Nat
  OBVIOUS
<1>2. s \in [1..Len(s) -> Elements(s)]
  BY <1>1 DEF Elements
<1>3. s \in Injection(1..Len(s), Elements(s))
  BY <1>1, <1>2 DEF Distinct, Injection, IsInjective
<1>4. s \in Surjection(1..Len(s), Elements(s))
  BY <1>1, <1>2 DEF Elements, Surjection
<1>5. ExistsBijection(1..Len(s), Elements(s))
  BY <1>3, <1>4 DEF ExistsBijection, Bijection
<1>6. IsFiniteSet(1..Len(s))
  BY <1>1, FS_Interval
<1>7. QED
  BY <1>1, <1>5, <1>6, FS_Bijection, FS_CountingElements

LEMMA QueuesStep == ASSUME IInv, [Next]_vars PROVE QueuesInv'
<1> USE DEF members, frames, helper, driver, CloseBegin, ThreadGoes
<1>1. ASSUME UNCHANGED <<held, incoming, outgoing>>
      PROVE  QueuesInv'
  BY <1>1 DEF IInv, QueuesInv
<1>2. CASE \/ OpenDevice \/ SetFramePeriod \/ StartThread \/ OpenFails
           \/ (\E format \in Formats : Negotiate(format))
           \/ Close \/ CloseEnd \/ CaptureFrame
  BY <1>1, <1>2 DEF OpenDevice, SetFramePeriod, StartThread, OpenFails, Negotiate,
                    Close, CloseEnd, CaptureFrame
<1>3. CASE \/ SetupFails \/ RequestBuffers \/ MapBuffer \/ AllMapped \/ AllQueued
           \/ StreamOn \/ TestQuit \/ SelectInterrupted \/ SelectGivesUp
           \/ SelectReady \/ DequeueAgain \/ DequeueFails \/ RequeueFails
           \/ (\E stored \in BOOLEAN : ThreadSubmitBuffer(stored))
  BY <1>1, <1>3 DEF SetupFails, RequestBuffers, MapBuffer, AllMapped, AllQueued,
     StreamOn, TestQuit, SelectInterrupted, SelectGivesUp, SelectReady, DequeueAgain,
     DequeueFails, RequeueFails, ThreadSubmitBuffer
<1>4. CASE QueueBuffer
  <2>0. /\ incoming \in Seq(Buffers) /\ Len(incoming) < NBuffers
        /\ \A i \in DOMAIN incoming : incoming[i] = i
        /\ outgoing = <<>> /\ held = 0
    BY <1>4 DEF QueueBuffer, IInv, DataTypes, HelperInv
  <2>1. Len(incoming) + 1 \in Buffers
    BY <2>0, V4L2Assumption DEF Buffers
  <2>2. Len(incoming) + 1 \notin Elements(incoming)
    BY <2>0 DEF Elements
  <2>3. /\ Distinct(incoming')
        /\ Elements(incoming') = Elements(incoming) \cup {Len(incoming) + 1}
    BY <1>4, <2>0, <2>1, <2>2, AppendElement DEF QueueBuffer, IInv, QueuesInv
  <2>4. Elements(outgoing) = {} /\ Len(incoming) + 1 # 0
    BY <2>0, <2>1, V4L2Assumption DEF Elements, Buffers
  <2>5. QED
    BY <1>4, <2>0, <2>3, <2>4 DEF QueueBuffer, IInv, QueuesInv
<1>5. CASE Dequeue
  <2>1. /\ Distinct(Tail(outgoing)) /\ Head(outgoing) \in Elements(outgoing)
        /\ Elements(Tail(outgoing)) = Elements(outgoing) \ {Head(outgoing)}
    BY <1>5, TailElements DEF Dequeue, IInv, DataTypes, QueuesInv
  <2>2. QED
    BY <1>5, <2>1 DEF Dequeue, IInv, QueuesInv
<1>6. CASE Requeue
  <2>1. held \in Buffers /\ incoming \in Seq(Buffers) /\ outgoing \in Seq(Buffers)
    BY <1>6 DEF Requeue, IInv, DataTypes, HelperInv, Buffers
  <2>2. Distinct(incoming') /\ Elements(incoming') = Elements(incoming) \cup {held}
    BY <1>6, <2>1, AppendElement DEF Requeue, IInv, QueuesInv
  <2>3. 0 \notin Elements(incoming') \cup Elements(outgoing)
    BY <2>1, <2>2, ElementsType, V4L2Assumption DEF Buffers
  <2>4. QED
    BY <1>6, <2>2, <2>3 DEF Requeue, IInv, QueuesInv
<1>7. CASE StreamOff
  <2>1. UNCHANGED held /\ (UNCHANGED <<incoming, outgoing>> \/ (incoming' = <<>> /\ outgoing' = <<>>))
    BY <1>7 DEF StreamOff
  <2>2. QED
    BY <1>1, <2>1 DEF QueuesInv, Distinct, Elements
<1>8. CASE Unmap
  <2>1. incoming' = <<>> /\ outgoing' = <<>>
    BY <1>8 DEF Unmap, IInv, HelperInv
  <2>2. QED
    BY <2>1 DEF QueuesInv, Distinct, Elements
<1>9. CASE Fill
  <2>1. /\ Distinct(Tail(incoming))
        /\ Head(incoming) \in Elements(incoming) /\ Head(incoming) \in Buffers
        /\ Elements(Tail(incoming)) = Elements(incoming) \ {Head(incoming)}
    BY <1>9, TailElements DEF Fill, IInv, DataTypes, QueuesInv
  <2>2. /\ Distinct(outgoing')
        /\ Elements(outgoing') = Elements(outgoing) \cup {Head(incoming)}
    BY <1>9, <2>1, AppendElement DEF Fill, IInv, DataTypes, QueuesInv
  <2>3. QED
    BY <1>9, <2>1, <2>2 DEF Fill, IInv, QueuesInv
<1>10. CASE Unplug \/ Gone \/ UNCHANGED vars
  BY <1>1, <1>10 DEF Unplug, Gone, vars
<1>11. QED
  BY <1>2, <1>3, <1>4, <1>5, <1>6, <1>7, <1>8, <1>9, <1>10 DEF Next, CaptureThread

LEMMA InvariantHolds == Spec => []IInv
<1>1. IInv /\ [Next]_vars => IInv'
  BY FlagsStep, DataStep, LifeStep, HelperStep, QueuesStep DEF IInv
<1>2. QED
  BY <1>1, InitInv, PTL DEF Spec
-----------------------------------------------------------------------------
(* Every variable of the Linux stream keeps its type. *)
THEOREM TypeCorrect == Spec => []TypeOK
BY InvariantHolds, TypesAreTypeOK, PTL DEF IInv

(* A buffer the thread reads a frame from is not being filled, and no       *)
(* buffer is queued twice.                                                  *)
THEOREM BufferOwner == Spec => []BufferHasOneOwner
<1>1. ASSUME IInv PROVE BufferHasOneOwner
  <2>1. ASSUME thread \in {"submit", "requeue"}
        PROVE  held \in mapped /\ held \notin Elements(incoming) \cup Elements(outgoing)
    <3>1. mapped = Buffers /\ held # 0
      BY <1>1, <2>1 DEF IInv, HelperInv, InLoop
    <3>2. held \in Buffers
      BY <1>1, <3>1, V4L2Assumption DEF IInv, DataTypes, Buffers
    <3>3. held \notin Elements(incoming) \cup Elements(outgoing)
      BY <1>1 DEF IInv, QueuesInv
    <3>4. QED
      BY <3>1, <3>2, <3>3
  <2>2. /\ IsFiniteSet(Elements(incoming)) /\ Cardinality(Elements(incoming)) = Len(incoming)
        /\ IsFiniteSet(Elements(outgoing)) /\ Cardinality(Elements(outgoing)) = Len(outgoing)
    BY <1>1, DistinctCount DEF IInv, DataTypes, QueuesInv
  <2>3. Cardinality(Elements(incoming) \cup Elements(outgoing)) =
          Len(incoming) + Len(outgoing) - Cardinality(Elements(incoming) \cap Elements(outgoing))
    BY <2>2, FS_Union
  <2>4. Cardinality(Elements(incoming) \cap Elements(outgoing)) = 0
    BY <1>1, FS_EmptySet DEF IInv, QueuesInv
  <2>5. Len(incoming) \in Nat /\ Len(outgoing) \in Nat
    BY <1>1 DEF IInv, DataTypes
  <2>6. QED
    BY <2>1, <2>3, <2>4, <2>5 DEF BufferHasOneOwner
<1>2. QED
  BY <1>1, InvariantHolds, PTL

(* The descriptor and the frame buffer outlive the capture thread. *)
THEOREM ThreadResources == Spec => []ThreadHasItsResources
<1>1. IInv => ThreadHasItsResources
  BY DEF IInv, LifeInv
<1>2. QED
  BY <1>1, InvariantHolds, PTL

(* A capture thread that has ended left the camera stopped. *)
THEOREM DeadThreadIsClean == Spec => []DeadThreadHoldsNothing
<1>1. IInv => DeadThreadHoldsNothing
  BY DEF IInv, HelperInv, DeadThreadHoldsNothing
<1>2. QED
  BY <1>1, InvariantHolds, PTL
-----------------------------------------------------------------------------
(* A step of the stream is a step of CaptureSource or leaves it alone. *)
LEMMA SourceNext == ASSUME IInv, [Next]_vars PROVE [Source!Next]_(Source!vars)
<1> USE DEF IInv, DataTypes, LifeInv, phase, members, frames, helper, driver,
            CloseBegin, ThreadGoes, Source!vars, Source!Next
<1>1. ASSUME UNCHANGED <<api, m_deviceHandle, m_newFrame>>
      PROVE  UNCHANGED Source!vars
  BY <1>1
<1>2. CASE OpenDevice
  BY <1>2 DEF OpenDevice, Source!Claim
<1>3. CASE SetFramePeriod \/ \E format \in Formats : Negotiate(format)
  BY <1>3 DEF SetFramePeriod, Negotiate
<1>4. CASE StartThread
  BY <1>4 DEF StartThread, Source!Opened
<1>5. CASE OpenFails \/ Close
  BY <1>5 DEF OpenFails, Close, Source!BeginClose
<1>6. CASE CloseEnd
  BY <1>6 DEF CloseEnd, Source!Closed
<1>7. CASE CaptureFrame
  BY <1>7 DEF CaptureFrame, Source!Take
<1>8. ASSUME NEW stored \in BOOLEAN, ThreadSubmitBuffer(stored)
      PROVE  [Source!Next]_(Source!vars)
  <2>1. CASE stored
    BY <1>8, <2>1 DEF ThreadSubmitBuffer, ThreadHasItsResources, Source!Store
  <2>2. CASE ~stored
    BY <1>8, <2>2 DEF ThreadSubmitBuffer
  <2>3. QED
    BY <2>1, <2>2
<1>9. CASE \/ SetupFails \/ RequestBuffers \/ MapBuffer \/ AllMapped \/ QueueBuffer
           \/ AllQueued \/ StreamOn \/ TestQuit \/ SelectInterrupted \/ SelectGivesUp
           \/ SelectReady \/ Dequeue \/ DequeueAgain \/ DequeueFails
           \/ Requeue \/ RequeueFails \/ StreamOff \/ Unmap
  BY <1>1, <1>9 DEF SetupFails, RequestBuffers, MapBuffer, AllMapped, QueueBuffer,
     AllQueued, StreamOn, TestQuit, SelectInterrupted, SelectGivesUp, SelectReady,
     Dequeue, DequeueAgain, DequeueFails, Requeue, RequeueFails, StreamOff, Unmap
<1>10. CASE Fill \/ Unplug \/ Gone \/ UNCHANGED vars
  BY <1>1, <1>10 DEF Fill, Unplug, Gone, vars
<1>11. QED
  BY <1>2, <1>3, <1>4, <1>5, <1>6, <1>7, <1>8, <1>9, <1>10 DEF Next, CaptureThread

(* The Linux stream implements CaptureSource. *)
THEOREM V4L2ImplementsSource == Spec => ImplementsSource
<1>1. Init => Source!Init
  BY DEF Init, Source!Init, phase
<1>2. QED
  BY <1>1, SourceNext, InvariantHolds, PTL DEF Spec, ImplementsSource, Source!Spec
=============================================================================
