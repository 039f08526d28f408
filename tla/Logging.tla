------------------------------ MODULE Logging ------------------------------
(***************************************************************************)
(* common/logging.cpp and the mutexes around it.  A message that passes    *)
(* the level is handed to the client's callback while the sink's mutex is  *)
(* held; installing another callback takes the same mutex.  Some messages  *)
(* are logged by a thread that holds a stream's m_bufferMutex already: the *)
(* thread that stores a frame (submitBuffer, submitRawBuffer) and the      *)
(* client thread that fetches one (captureFrameRaw, decodeFrame).          *)
(*                                                                         *)
(* The callback may itself call the library.  spdlog is external: that     *)
(* logger::log compares the level, that base_sink::log locks its mutex     *)
(* around sink_it_, and that an error (flush_on) is followed by a flush,   *)
(* which locks the same mutex once more.  The stderr sink has a mutex of   *)
(* its own, held by nobody who waits for another, and is left out.  A call *)
(* logs one message here.                                                  *)
(***************************************************************************)
EXTENDS Integers

CONSTANTS
  Threads,
  Nobody,
  Callbacks,   \* the functions clients install
  nullptr,
  Behaviour,   \* what a callback calls: "nothing", "hasNewFrame"
  Levels,      \* the levels clients set
  Severities,  \* the severities of the messages logged
  OnFrame      \* of those logged under m_bufferMutex

ASSUME LoggingAssumption ==
  /\ Nobody \notin Threads
  /\ nullptr \notin Callbacks
  /\ Behaviour \in {"nothing", "hasNewFrame"}
  /\ Levels \subseteq Nat
  /\ Severities \cup OnFrame
       \subseteq {"TRACE", "DEBUG", "INFO", "WARN", "ERROR", "CRIT"}

(* openpnp-capture.h: the levels of the API. *)
ApiLevel ==
  [TRACE |-> 8, DEBUG |-> 7, INFO |-> 6, WARN |-> 4, ERROR |-> 3, CRIT |-> 2]

(* External: those of spdlog. *)
SpdLevel ==
  [TRACE |-> 0, DEBUG |-> 1, INFO |-> 2, WARN |-> 3, ERROR |-> 4, CRIT |-> 5]
(* Mutant: warnings are let through at LOG_ERR. *)
ThresholdLoose(level) ==
  CASE level \in {0, 1, 2} -> SpdLevel.CRIT
    [] level \in {3, 4}    -> SpdLevel.WARN
    [] level \in {5, 6}    -> SpdLevel.INFO
    [] level = 7           -> SpdLevel.DEBUG
    [] level \notin 0..7   -> SpdLevel.TRACE

(* openpnp::setLogLevel *)
Threshold(level) ==
  CASE level \in {0, 1, 2} -> SpdLevel.CRIT
    [] level = 3           -> SpdLevel.ERROR
    [] level = 4           -> SpdLevel.WARN
    [] level \in {5, 6}    -> SpdLevel.INFO
    [] level = 7           -> SpdLevel.DEBUG
    [] level \notin 0..7   -> SpdLevel.TRACE

VARIABLES
  threshold,      \* the logger's level
  m_func,         \* the callback
  sink,           \* who holds the sink's mutex
  m_bufferMutex,  \* who holds that of the one stream
  pc,             \* where each thread is
  message,        \* the severity of the message it logs
  target,         \* the callback it installs, or the one that it runs
  given,          \* the level the callback is told, -1 outside of one
  level,          \* history: the last level set
  levels          \* history: the levels in force since the thread's call began

vars == <<threshold, m_func, sink, m_bufferMutex, pc, message, target, given,
          level, levels>>

(* getLogger: debug at first. *)
Init ==
  /\ threshold = SpdLevel.DEBUG /\ level = 7
  /\ m_func = nullptr
  /\ sink = Nobody /\ m_bufferMutex = Nobody
  /\ pc = [t \in Threads |-> "idle"]
  /\ message = [t \in Threads |-> "none"]
  /\ target = [t \in Threads |-> nullptr]
  /\ given = [t \in Threads |-> -1]
  /\ levels = [t \in Threads |-> {}]

Goto(t, place) == pc' = [pc EXCEPT ![t] = place]
-----------------------------------------------------------------------------
(* Calls that log: from outside the stream's mutex, or while holding it. *)

BeginLog(t, severity) ==
  /\ message' = [message EXCEPT ![t] = severity]
  /\ levels' = [levels EXCEPT ![t] = {level}]

CallPlain(t) ==
  /\ pc[t] = "idle"
  /\ \E severity \in Severities : BeginLog(t, severity)
  /\ Goto(t, "log")
  /\ UNCHANGED <<threshold, m_func, sink, m_bufferMutex, target, given, level>>

CallOnFrame(t) ==
  /\ pc[t] = "idle"
  /\ \E severity \in OnFrame : BeginLog(t, severity)
  /\ Goto(t, "lockBuffer")
  /\ UNCHANGED <<threshold, m_func, sink, m_bufferMutex, target, given, level>>

LockBuffer(t) ==
  /\ pc[t] = "lockBuffer" /\ m_bufferMutex = Nobody
  /\ m_bufferMutex' = t
  /\ Goto(t, "log")
  /\ UNCHANGED <<threshold, m_func, sink, message, target, given, level, levels>>

(* logger::should_log *)
Log(t) ==
  /\ pc[t] = "log"
  /\ Goto(t, IF SpdLevel[message[t]] >= threshold THEN "lockSink" ELSE "return")
  /\ UNCHANGED <<threshold, m_func, sink, m_bufferMutex, message, target, given,
                 level, levels>>

(* callback_sink::sink_it_ *)
LockSink(t) ==
  /\ pc[t] = "lockSink" /\ sink = Nobody
  /\ sink' = t
  /\ target' = [target EXCEPT ![t] = m_func]
  /\ IF m_func = nullptr
       THEN Goto(t, "unlockSink") /\ UNCHANGED given
       ELSE /\ Goto(t, IF Behaviour = "nothing" THEN "callback" ELSE "callsBack")
            /\ given' = [given EXCEPT ![t] = SpdLevel[message[t]]]
  /\ UNCHANGED <<threshold, m_func, m_bufferMutex, message, level, levels>>

(* The callback asks for a frame: m_bufferMutex is locked and unlocked.  It *)
(* is not recursive.                                                        *)
CallsBack(t) ==
  /\ pc[t] = "callsBack" /\ m_bufferMutex = Nobody
  /\ Goto(t, "callback")
  /\ UNCHANGED <<threshold, m_func, sink, m_bufferMutex, message, target, given,
                 level, levels>>

CallbackReturns(t) ==
  /\ pc[t] = "callback"
  /\ given' = [given EXCEPT ![t] = -1]
  /\ Goto(t, "unlockSink")
  /\ UNCHANGED <<threshold, m_func, sink, m_bufferMutex, message, target, level,
                 levels>>

UnlockSink(t) ==
  /\ pc[t] = "unlockSink"
  /\ sink' = Nobody
  /\ target' = [target EXCEPT ![t] = nullptr]
  /\ Goto(t, IF SpdLevel[message[t]] >= SpdLevel.ERROR THEN "flush" ELSE "return")
  /\ UNCHANGED <<threshold, m_func, m_bufferMutex, message, given, level, levels>>

(* flush_on(spdlog::level::err): the sink's mutex is locked and unlocked.   *)
Flush(t) ==
  /\ pc[t] = "flush" /\ sink = Nobody
  /\ Goto(t, "return")
  /\ UNCHANGED <<threshold, m_func, sink, m_bufferMutex, message, target, given,
                 level, levels>>

(* Mutant: a call that gave up with a warning returns without unlocking.    *)
ReturnLocked(t) ==
  /\ pc[t] = "return"
  /\ m_bufferMutex' = IF m_bufferMutex = t /\ message[t] # "WARN"
                        THEN Nobody ELSE m_bufferMutex
  /\ message' = [message EXCEPT ![t] = "none"]
  /\ levels' = [levels EXCEPT ![t] = {}]
  /\ Goto(t, "idle")
  /\ UNCHANGED <<threshold, m_func, sink, target, given, level>>

Return(t) ==
  /\ pc[t] = "return"
  /\ m_bufferMutex' = IF m_bufferMutex = t THEN Nobody ELSE m_bufferMutex
  /\ message' = [message EXCEPT ![t] = "none"]
  /\ levels' = [levels EXCEPT ![t] = {}]
  /\ Goto(t, "idle")
  /\ UNCHANGED <<threshold, m_func, sink, target, given, level>>
-----------------------------------------------------------------------------
(* Cap_installCustomLogFunction, Cap_setLogLevel *)

CallInstall(t, f) ==
  /\ pc[t] = "idle"
  /\ target' = [target EXCEPT ![t] = f]
  /\ Goto(t, "install")
  /\ UNCHANGED <<threshold, m_func, sink, m_bufferMutex, message, given, level,
                 levels>>
(* Mutant: the callback is set without the mutex. *)
InstallUnlocked(t) ==
  /\ pc[t] = "install"
  /\ m_func' = target[t]
  /\ target' = [target EXCEPT ![t] = nullptr]
  /\ Goto(t, "idle")
  /\ UNCHANGED <<threshold, sink, m_bufferMutex, message, given, level, levels>>

Install(t) ==
  /\ pc[t] = "install" /\ sink = Nobody
  /\ m_func' = target[t]
  /\ target' = [target EXCEPT ![t] = nullptr]
  /\ Goto(t, "idle")
  /\ UNCHANGED <<threshold, sink, m_bufferMutex, message, given, level, levels>>

SetLogLevel(t, l) ==
  /\ pc[t] = "idle"
  /\ threshold' = Threshold(l)
  /\ level' = l
  /\ levels' = [u \in Threads |-> IF pc[u] \in {"lockBuffer", "log"}
                                    THEN levels[u] \cup {l} ELSE levels[u]]
  /\ UNCHANGED <<m_func, sink, m_bufferMutex, pc, message, target, given>>

Locks(t) == LockBuffer(t) \/ LockSink(t) \/ CallsBack(t) \/ Flush(t) \/ Install(t)
Runs(t) == Log(t) \/ CallbackReturns(t) \/ UnlockSink(t) \/ Return(t)
Calls(t) ==
  \/ CallPlain(t) \/ CallOnFrame(t)
  \/ \E f \in Callbacks \cup {nullptr} : CallInstall(t, f)
  \/ \E l \in Levels : SetLogLevel(t, l)

Next == \E t \in Threads : Locks(t) \/ Runs(t) \/ Calls(t)

Spec == Init /\ [][Next]_vars

(* A thread runs on, and one that waits for a mutex that is free again and  *)
(* again gets it.  No thread has to call anything.                          *)
FairSpec == Spec /\ \A t \in Threads : WF_vars(Runs(t)) /\ SF_vars(Locks(t))
-----------------------------------------------------------------------------
(* Once Cap_installCustomLogFunction has returned, the callback it replaced *)
(* neither runs nor will run: the client may unload it.  (While a call is   *)
(* in the old callback, installing another waits.)                          *)
ReplacedCallbackIsSilent ==
  \A t \in Threads : pc[t] \in {"callback", "callsBack"} => target[t] = m_func

(* The callback sees a message only if its severity is within one of the    *)
(* levels in force since the call that logs it began.  It is claimed for    *)
(* the levels spdlog has a counterpart of: setLogLevel rounds LOG_EMERG and *)
(* LOG_ALERT to critical and LOG_NOTICE to info, which let more through.    *)
OnlyWithinLevel ==
  \A t \in Threads : given[t] # -1 =>
    \E l \in levels[t] : ApiLevel[message[t]] <= l

(* A callback holds the sink's mutex and asks for a frame; m_bufferMutex is *)
(* held by its own thread, which logs inside the stream, or by one that     *)
(* logs there and waits for the sink.  Neither moves again.                 *)
Cycle ==
  \E t, u \in Threads :
    /\ pc[t] = "callsBack" /\ m_bufferMutex = u
    /\ u = t \/ pc[u] \in {"lockSink", "flush"}

(* The only thing that keeps a call that logs, fetches or stores a frame or *)
(* installs a callback from returning is that cycle, which takes a callback *)
(* that calls the library: two mutexes, two orders of taking them, and no   *)
(* other way to block for ever, whoever holds which.                        *)
OnlyTheCycleBlocks ==
  \A t \in Threads : pc[t] # "idle" ~> (pc[t] = "idle" \/ Cycle)

(* openpnp-capture.h, Cap_installCustomLogFunction, asks nothing of the     *)
(* callback, so every call would have to return.  One with the callback     *)
(* above does not.                                                          *)
CallsReturn == \A t \in Threads : pc[t] # "idle" ~> pc[t] = "idle"

(* openpnp-capture.h tabulates LOG_EMERG 0 to LOG_VERBOSE 8 and declares    *)
(* the callback as func(uint32_t level, ...).  The level it is told is that *)
(* of the message.                                                          *)
CallbackIsToldApiLevel ==
  \A t \in Threads : given[t] # -1 => given[t] = ApiLevel[message[t]]
=============================================================================
