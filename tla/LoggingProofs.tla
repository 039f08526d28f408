--------------------------- MODULE LoggingProofs ---------------------------
(***************************************************************************)
(* Proofs about module Logging, for any number of threads, callbacks and   *)
(* levels.  A thread runs a callback only while it holds the sink's mutex, *)
(* and the callback changes only when nobody holds it (SinkInv).  A        *)
(* message got past the level while that level was among those in force    *)
(* since the call began (LevelInv).                                        *)
(***************************************************************************)
EXTENDS Logging, TLAPS

(* The places of a thread that is in the sink. *)
InSink == {"callback", "callsBack", "unlockSink"}

Messages == Severities \cup OnFrame

Types ==
  /\ pc \in [Threads -> {"idle", "lockBuffer", "log", "lockSink", "callsBack",
                         "callback", "unlockSink", "flush", "return", "install"}]
  /\ m_func \in Callbacks \cup {nullptr}
  /\ target \in [Threads -> Callbacks \cup {nullptr}]
  /\ message \in [Threads -> Messages \cup {"none"}]
  /\ level \in Levels \cup {7}
  /\ threshold \in Int
  /\ levels \in [Threads -> SUBSET (Levels \cup {7})]
  /\ given \in [Threads -> Int]

SinkInv ==
  \A t \in Threads : pc[t] \in InSink =>
    /\ sink = t
    /\ pc[t] # "unlockSink" => target[t] = m_func

(* One of the levels in force since t's call began lets its message pass. *)
Passed(t) == \E l \in levels[t] : SpdLevel[message[t]] >= Threshold(l)

LevelInv ==
  /\ threshold = Threshold(level)
  /\ \A t \in Threads :
       /\ pc[t] \in {"lockBuffer", "log", "lockSink"} \cup InSink =>
            message[t] \in Messages
       /\ pc[t] \in {"lockBuffer", "log"} => level \in levels[t]
       /\ pc[t] \in {"lockSink", "callback", "callsBack"} => Passed(t)
       /\ given[t] # -1 => pc[t] \in {"callback", "callsBack"}

IInv == Types /\ SinkInv /\ LevelInv

LEMMA SeverityType == \A s \in Messages : SpdLevel[s] \in 0..5
BY LoggingAssumption DEF Messages, SpdLevel

LEMMA ThresholdType == \A l \in Levels \cup {7} : Threshold(l) \in 0..5
BY LoggingAssumption DEF Threshold, SpdLevel

LEMMA InitInv == Init => IInv
BY DEF Init, IInv, Types, SinkInv, LevelInv, InSink, Threshold, SpdLevel

LEMMA TypesStep == ASSUME IInv, [Next]_vars PROVE Types'
<1> USE LoggingAssumption DEF IInv, Types, Goto, BeginLog, Messages
<1>1. CASE UNCHANGED vars
  BY <1>1 DEF vars
<1>2. ASSUME NEW t \in Threads, CallPlain(t) \/ CallOnFrame(t)
      PROVE  Types'
  BY <1>2 DEF CallPlain, CallOnFrame
<1>3. ASSUME NEW t \in Threads, LockBuffer(t) \/ CallsBack(t) \/ Log(t) \/ Flush(t)
      PROVE  Types'
  BY <1>3 DEF LockBuffer, CallsBack, Log, Flush
<1>4. ASSUME NEW t \in Threads, LockSink(t)
      PROVE  Types'
  <2>1. SpdLevel[message[t]] \in Int
    BY <1>4, SeverityType DEF LockSink, LevelInv
  <2>2. QED
    BY <1>4, <2>1 DEF LockSink
<1>5. ASSUME NEW t \in Threads, Return(t) \/ CallbackReturns(t) \/ UnlockSink(t)
      PROVE  Types'
  BY <1>5 DEF Return, CallbackReturns, UnlockSink
<1>6. ASSUME NEW t \in Threads, NEW f \in Callbacks \cup {nullptr},
             CallInstall(t, f) \/ Install(t)
      PROVE  Types'
  BY <1>6 DEF CallInstall, Install
<1>7. ASSUME NEW t \in Threads, NEW l \in Levels, SetLogLevel(t, l)
      PROVE  Types'
  BY <1>7, ThresholdType DEF SetLogLevel
<1>8. QED
  BY <1>1, <1>2, <1>3, <1>4, <1>5, <1>6, <1>7 DEF Next, Locks, Runs, Calls

(* The callback changes, and a thread enters the sink, only when no other   *)
(* thread is in it.                                                         *)
LEMMA SinkStep == ASSUME IInv, [Next]_vars PROVE SinkInv'
<1> USE LoggingAssumption DEF IInv, Types, SinkInv, InSink, Goto
<1>1. CASE UNCHANGED vars
  BY <1>1 DEF vars
<1>2. ASSUME NEW t \in Threads, CallPlain(t) \/ CallOnFrame(t)
      PROVE  SinkInv'
  BY <1>2 DEF CallPlain, CallOnFrame
<1>3. ASSUME NEW t \in Threads, LockBuffer(t) \/ CallsBack(t) \/ Log(t) \/ Flush(t)
      PROVE  SinkInv'
  BY <1>3 DEF LockBuffer, CallsBack, Log, Flush
<1>4. ASSUME NEW t \in Threads, LockSink(t)
      PROVE  SinkInv'
  BY <1>4 DEF LockSink
<1>5. ASSUME NEW t \in Threads, Return(t) \/ CallbackReturns(t) \/ UnlockSink(t)
      PROVE  SinkInv'
  BY <1>5 DEF Return, CallbackReturns, UnlockSink
<1>6. ASSUME NEW t \in Threads, NEW f \in Callbacks \cup {nullptr},
             CallInstall(t, f) \/ Install(t)
      PROVE  SinkInv'
  BY <1>6 DEF CallInstall, Install
<1>7. ASSUME NEW t \in Threads, NEW l \in Levels, SetLogLevel(t, l)
      PROVE  SinkInv'
  BY <1>7 DEF SetLogLevel
<1>8. QED
  BY <1>1, <1>2, <1>3, <1>4, <1>5, <1>6, <1>7 DEF Next, Locks, Runs, Calls

(* The level a message is compared with is in force then. *)
LEMMA LevelStep == ASSUME IInv, [Next]_vars PROVE LevelInv'
<1> USE LoggingAssumption DEF IInv, Types, LevelInv, InSink, Goto, BeginLog, Passed
<1>1. CASE UNCHANGED vars
  BY <1>1 DEF vars
<1>2. ASSUME NEW t \in Threads, CallPlain(t) \/ CallOnFrame(t)
      PROVE  LevelInv'
  BY <1>2 DEF CallPlain, CallOnFrame, Messages
<1>3. ASSUME NEW t \in Threads, LockBuffer(t) \/ CallsBack(t) \/ Log(t) \/ Flush(t)
      PROVE  LevelInv'
  BY <1>3 DEF LockBuffer, CallsBack, Log, Flush
<1>4. ASSUME NEW t \in Threads, LockSink(t)
      PROVE  LevelInv'
  BY <1>4 DEF LockSink
<1>5. ASSUME NEW t \in Threads, Return(t) \/ CallbackReturns(t) \/ UnlockSink(t)
      PROVE  LevelInv'
  BY <1>5 DEF Return, CallbackReturns, UnlockSink
<1>6. ASSUME NEW t \in Threads, NEW f \in Callbacks \cup {nullptr},
             CallInstall(t, f) \/ Install(t)
      PROVE  LevelInv'
  BY <1>6 DEF CallInstall, Install
<1>7. ASSUME NEW t \in Threads, NEW l \in Levels, SetLogLevel(t, l)
      PROVE  LevelInv'
  BY <1>7 DEF SetLogLevel
<1>8. QED
  BY <1>1, <1>2, <1>3, <1>4, <1>5, <1>6, <1>7 DEF Next, Locks, Runs, Calls

(* The conjuncts of the inductive invariant hold in every behaviour. *)
THEOREM InvariantHolds == Spec => []IInv
<1>1. IInv /\ [Next]_vars => IInv'
  BY TypesStep, SinkStep, LevelStep DEF IInv
<1>2. QED
  BY <1>1, InitInv, PTL DEF Spec

(* A callback that has been replaced is not running and will not run. *)
THEOREM ReplacedIsSilent == Spec => []ReplacedCallbackIsSilent
<1>1. IInv => ReplacedCallbackIsSilent
  BY DEF IInv, SinkInv, InSink, ReplacedCallbackIsSilent
<1>2. QED
  BY <1>1, InvariantHolds, PTL

(* What a level lets through is within it, for the levels of the API that   *)
(* spdlog has a counterpart of: LOG_EMERG, LOG_ALERT and LOG_NOTICE are     *)
(* rounded to the next one.                                                 *)
LEMMA ThresholdIsLevel ==
  ASSUME NEW l \in Nat \ {0, 1, 5}, NEW s \in Messages, SpdLevel[s] >= Threshold(l)
  PROVE  ApiLevel[s] <= l
BY LoggingAssumption DEF Messages, SpdLevel, ApiLevel, Threshold

(* Unless a client sets one of these three, its callback sees only messages *)
(* within a level in force since the call that logs them began.             *)
THEOREM CallbackWithinLevel ==
  ASSUME Levels \cap {0, 1, 5} = {}
  PROVE  Spec => []OnlyWithinLevel
<1>1. ASSUME IInv, NEW t \in Threads, given[t] # -1
      PROVE  \E l \in levels[t] : ApiLevel[message[t]] <= l
  <2>1. message[t] \in Messages /\ levels[t] \subseteq Levels \cup {7}
    BY <1>1 DEF IInv, Types, LevelInv, InSink
  <2>2. PICK l \in levels[t] : SpdLevel[message[t]] >= Threshold(l)
    BY <1>1 DEF IInv, LevelInv, Passed
  <2>3. l \in Nat \ {0, 1, 5}
    <3>1. l \in Levels \/ l = 7
      BY <2>1, <2>2
    <3>2. CASE l \in Levels
      <4>1. l \in Nat
        BY <3>2, LoggingAssumption
      <4>2. l \notin {0, 1, 5}
        BY <3>2
      <4>3. QED
        BY <4>1, <4>2
    <3>3. CASE l = 7
      BY <3>3
    <3>4. QED
      BY <3>1, <3>2, <3>3
  <2>4. ApiLevel[message[t]] <= l
    BY <2>1, <2>2, <2>3, ThresholdIsLevel
  <2>5. QED
    BY <2>4
<1>2. IInv => OnlyWithinLevel
  BY <1>1 DEF OnlyWithinLevel
<1>3. QED
  BY <1>2, InvariantHolds, PTL
=============================================================================
