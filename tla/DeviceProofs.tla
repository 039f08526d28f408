---------------------------- MODULE DeviceProofs ----------------------------
(***************************************************************************)
(* Proofs about the calls that concern the devices of a Context.           *)
(*                                                                         *)
(* SharedContext, for any number of threads, devices and refreshes.  One   *)
(* thread at a time is between taking and releasing m_contextMutex         *)
(* (MutexInv), so the list is the set of the devices that exist except     *)
(* while a refresh deletes them (ListInv).  A call under the mutex, and a  *)
(* call without it that the client keeps apart from refreshes, uses only   *)
(* devices that exist (PointerInv), whatever calls the client does not     *)
(* keep apart.                                                             *)
(*                                                                         *)
(* DeviceCheck, for any poll interval, timeout, width of the counter and   *)
(* lateness of the sleeps.  A camera that was opened is held only inside   *)
(* the poll loop (HeldInv); a frame is known by its flag until the stream  *)
(* is closed (FlagInv); and the time that has passed is never less than    *)
(* the time the loop believes it has waited (TimeInv), so the loop does    *)
(* not give up early, even if the counter wraps.                           *)
(***************************************************************************)
EXTENDS SharedContext, DeviceCheck, TLAPS

Types ==
  /\ m_devices \in Seq(Nat \X Nat)
  /\ pc \in [Threads -> {"idle", "lock", "delete", "enumerate", "count", "check",
                         "use", "fetch"}]
  /\ running \in [Threads -> ReaderCalls
                    \cup {"none", "refreshDevices", "isDeviceAvailable"}]
  /\ index \in [Threads -> Nat]
  /\ refreshes \in Nat
  /\ pointer = [t \in Threads |-> pointer[t]]

MutexInv == \A t \in Threads :
  /\ pc[t] = "idle" => running[t] = "none"
  /\ pc[t] = "lock" => running[t] \in {"refreshDevices", "isDeviceAvailable"}
  /\ pc[t] \in {"delete", "enumerate"} => mutex = t /\ running[t] = "refreshDevices"
  /\ pc[t] = "count" => running[t] = "isDeviceAvailable"
  /\ pc[t] = "check" => mutex = t /\ running[t] = "isDeviceAvailable"
  /\ pc[t] = "fetch" => running[t] \in ReaderCalls
  /\ pc[t] = "use" => \/ mutex = t /\ running[t] = "isDeviceAvailable"
                      \/ running[t] \in ReaderCalls

Deleting == \E t \in Threads : pc[t] = "delete"

ListInv ==
  /\ live \subseteq ToSet(m_devices)
  /\ ~Deleting => live = ToSet(m_devices)

PointerInv ==
  /\ \A t, u \in Threads : running[t] \in KeptApart => running[u] # "refreshDevices"
  /\ GuardedUseExists

LEMMA ToSetAppend ==
  ASSUME NEW S, NEW s \in Seq(S), NEW e \in S
  PROVE  ToSet(Append(s, e)) = ToSet(s) \cup {e}
<1>1. Len(Append(s, e)) = Len(s) + 1 /\ Len(s) \in Nat
  OBVIOUS
<1>2. \A i \in 1..Len(s) : Append(s, e)[i] = s[i]
  OBVIOUS
<1>3. Append(s, e)[Len(s) + 1] = e
  OBVIOUS
<1>4. DOMAIN Append(s, e) = 1..Len(s) + 1 /\ DOMAIN s = 1..Len(s)
  BY <1>1
<1>5. ToSet(Append(s, e)) \subseteq ToSet(s) \cup {e}
  BY <1>1, <1>2, <1>3, <1>4 DEF ToSet
<1>6. ToSet(s) \cup {e} \subseteq ToSet(Append(s, e))
  BY <1>1, <1>2, <1>3, <1>4 DEF ToSet
<1>7. QED
  BY <1>5, <1>6

LEMMA ElementInToSet ==
  ASSUME NEW S, NEW s \in Seq(S), NEW i \in Nat, i < Len(s)
  PROVE  s[i + 1] \in ToSet(s)
<1>1. i + 1 \in DOMAIN s
  OBVIOUS
<1>2. QED
  BY <1>1 DEF ToSet

LEMMA InitInv == Init => Types /\ MutexInv /\ ListInv /\ PointerInv
<1> SUFFICES ASSUME Init PROVE Types /\ MutexInv /\ ListInv /\ PointerInv
  OBVIOUS
<1>1. PICK size \in 0..MaxDevices : m_devices = [i \in 1..size |-> <<0, i>>]
  BY DEF Init, List
<1>2. m_devices \in Seq(Nat \X Nat)
  BY <1>1, SharedContextAssumption
<1>3. Types
  BY <1>2 DEF Init, Types
<1>4. QED
  BY <1>3, SharedContextAssumption DEF Init, MutexInv, ListInv, PointerInv, GuardedUseExists, Deleting

LEMMA TypesStep == ASSUME Types, [Next]_vars PROVE Types'
<1> USE SharedContextAssumption DEF Types, thread, Call, Return, Goto
<1>1. CASE UNCHANGED vars
  BY <1>1 DEF vars
<1>2. ASSUME NEW t \in Threads, CallRefresh(t) \/ Lock(t) \/ DeleteDevice(t)
      PROVE  Types'
  <2>1. CASE CallRefresh(t)
    BY <2>1 DEF CallRefresh
  <2>2. CASE Lock(t)
    BY <2>2 DEF Lock
  <2>3. CASE DeleteDevice(t)
    BY <2>3 DEF DeleteDevice
  <2>4. QED
    BY <1>2, <2>1, <2>2, <2>3
<1>3. ASSUME NEW t \in Threads, Clear(t) \/ AddDevice(t) \/ RefreshReturns(t)
      PROVE  Types'
  <2>1. CASE Clear(t)
    BY <2>1 DEF Clear
  <2>2. CASE AddDevice(t)
    <3>1. <<refreshes, Len(m_devices) + 1>> \in Nat \X Nat
      OBVIOUS
    <3>2. m_devices' \in Seq(Nat \X Nat)
      BY <2>2, <3>1 DEF AddDevice
    <3>3. QED
      BY <2>2, <3>2 DEF AddDevice
  <2>3. CASE RefreshReturns(t)
    BY <2>3 DEF RefreshReturns
  <2>4. QED
    BY <1>3, <2>1, <2>2, <2>3
<1>4. ASSUME NEW t \in Threads, NEW i \in 0..MaxDevices, CallIsDeviceAvailable(t, i)
      PROVE  Types'
  BY <1>4 DEF CallIsDeviceAvailable
<1>5. ASSUME NEW t \in Threads, NEW i \in 0..MaxDevices, NEW name \in ReaderCalls,
             CallReader(t, name, i)
      PROVE  Types'
  BY <1>5 DEF CallReader
<1>6. ASSUME NEW t \in Threads, Count(t) \/ Check(t) \/ Use(t) \/ Fetch(t)
      PROVE  Types'
  BY <1>6 DEF Count, Check, Use, Fetch
<1>7. QED
  BY <1>1, <1>2, <1>3, <1>4, <1>5, <1>6 DEF Next

LEMMA MutexStep == ASSUME Types, MutexInv, [Next]_vars PROVE MutexInv'
<1> USE SharedContextAssumption DEF Types, MutexInv, thread, Call, Return, Goto
<1>1. CASE UNCHANGED vars
  BY <1>1 DEF vars
<1>2. ASSUME NEW t \in Threads, CallRefresh(t) \/ Lock(t) \/ DeleteDevice(t)
      PROVE  MutexInv'
  BY <1>2 DEF CallRefresh, Lock, DeleteDevice
<1>3. ASSUME NEW t \in Threads, Clear(t) \/ AddDevice(t) \/ RefreshReturns(t)
      PROVE  MutexInv'
  BY <1>3 DEF Clear, AddDevice, RefreshReturns
<1>4. ASSUME NEW t \in Threads, NEW i \in 0..MaxDevices, CallIsDeviceAvailable(t, i)
      PROVE  MutexInv'
  BY <1>4 DEF CallIsDeviceAvailable
<1>5. ASSUME NEW t \in Threads, NEW i \in 0..MaxDevices, NEW name \in ReaderCalls,
             CallReader(t, name, i)
      PROVE  MutexInv'
  BY <1>5 DEF CallReader
<1>6. ASSUME NEW t \in Threads, Count(t) \/ Check(t) \/ Fetch(t)
      PROVE  MutexInv'
  BY <1>6 DEF Count, Check, Fetch
<1>7. ASSUME NEW t \in Threads, Use(t)
      PROVE  MutexInv'
  BY <1>7 DEF Use
<1>8. QED
  BY <1>1, <1>2, <1>3, <1>4, <1>5, <1>6, <1>7 DEF Next

(* While a thread holds the mutex for its own call, nobody deletes. *)
LEMMA HolderAlone ==
  ASSUME MutexInv, NEW t \in Threads,
         pc[t] = "enumerate" \/ pc[t] = "check"
  PROVE  ~Deleting
BY DEF MutexInv, Deleting

LEMMA ListStep == ASSUME Types, MutexInv, ListInv, [Next]_vars PROVE ListInv'
<1> USE SharedContextAssumption DEF ListInv, thread
<1>1. CASE UNCHANGED vars
  BY <1>1 DEF vars, Deleting
<1>2. ASSUME NEW t \in Threads, Lock(t)
      PROVE  ListInv'
  BY <1>2 DEF Lock, Goto, Deleting, Types
<1>3. ASSUME NEW t \in Threads, DeleteDevice(t)
      PROVE  ListInv'
  BY <1>3 DEF DeleteDevice, Deleting
<1>4. ASSUME NEW t \in Threads, Clear(t)
      PROVE  ListInv'
  <2>1. live = {}
    BY <1>4 DEF Clear
  <2>2. ToSet(m_devices') = {}
    BY <1>4 DEF Clear, ToSet
  <2>3. QED
    BY <1>4, <2>1, <2>2 DEF Clear
<1>5. ASSUME NEW t \in Threads, AddDevice(t)
      PROVE  ListInv'
  <2>1. live = ToSet(m_devices)
    BY <1>5, HolderAlone DEF AddDevice
  <2> DEFINE device == <<refreshes, Len(m_devices) + 1>>
  <2>2. m_devices' = Append(m_devices, device) /\ live' = live \cup {device}
    BY <1>5 DEF AddDevice
  <2>3. device \in Nat \X Nat /\ m_devices \in Seq(Nat \X Nat)
    BY DEF Types
  <2> HIDE DEF device
  <2>4. ToSet(Append(m_devices, device)) = ToSet(m_devices) \cup {device}
    BY <2>3, ToSetAppend
  <2>5. QED
    BY <2>1, <2>2, <2>4
<1>6. ASSUME NEW t \in Threads, UNCHANGED <<m_devices, live>>, Types, Types',
             pc[t] # "delete", \A u \in Threads \ {t} : pc'[u] = pc[u]
      PROVE  ListInv'
  BY <1>6 DEF Deleting
<1>7. ASSUME NEW t \in Threads, CallRefresh(t) \/ RefreshReturns(t)
      PROVE  ListInv'
  BY <1>7, <1>6, TypesStep DEF CallRefresh, RefreshReturns, Call, Return, Types
<1>8. ASSUME NEW t \in Threads, NEW i \in 0..MaxDevices,
             \/ CallIsDeviceAvailable(t, i)
             \/ \E name \in ReaderCalls : CallReader(t, name, i)
      PROVE  ListInv'
  BY <1>8, <1>6, TypesStep DEF CallIsDeviceAvailable, CallReader, Call, Types
<1>9. ASSUME NEW t \in Threads, Count(t) \/ Check(t) \/ Use(t) \/ Fetch(t)
      PROVE  ListInv'
  BY <1>9, <1>6, TypesStep DEF Count, Check, Use, Fetch, Return, Goto, Types
<1>10. QED
  BY <1>1, <1>2, <1>3, <1>4, <1>5, <1>7, <1>8, <1>9 DEF Next

(* The inductive invariant holds in every behaviour. *)
THEOREM InvariantHolds == Spec => [](Types /\ MutexInv /\ ListInv)
<1>1. Types /\ MutexInv /\ ListInv /\ [Next]_vars => (Types /\ MutexInv /\ ListInv)'
  BY TypesStep, MutexStep, ListStep
<1>2. QED
  BY <1>1, InitInv, PTL DEF Spec

(* Between refreshes the list is the set of the devices that exist. *)
THEOREM CompleteList == Spec => []ListIsComplete
<1>1. ListInv => ListIsComplete
  BY DEF ListInv, ListIsComplete, Changing, Deleting
<1>2. QED
  BY <1>1, InvariantHolds, PTL

(* No pointer is dangling that a call uses under the mutex or that a call   *)
(* kept apart from refreshes uses.                                          *)
LEMMA PointerStep ==
  ASSUME Types, MutexInv, ListInv, PointerInv, [Next]_vars
  PROVE  PointerInv'
<1> USE SharedContextAssumption DEF PointerInv, GuardedUseExists, Exposed, thread
<1>1. CASE UNCHANGED vars
  BY <1>1 DEF vars
<1>2. ASSUME NEW t \in Threads, UNCHANGED <<pointer, live>>, pc'[t] # "use",
             running'[t] \in {running[t], "none"},
             \A u \in Threads \ {t} : pc'[u] = pc[u] /\ running'[u] = running[u]
      PROVE  PointerInv'
  <2>1. ASSUME NEW u \in Threads, running'[u] \in KeptApart \/ running'[u] = "refreshDevices"
        PROVE  running'[u] = running[u]
    BY <1>2, <2>1
  <2>2. ASSUME NEW u \in Threads, pc'[u] = "use", running'[u] \notin Exposed
        PROVE  pointer'[u] \in live'
    BY <1>2, <2>2
  <2>3. QED
    BY <2>1, <2>2
<1>3. ASSUME NEW t \in Threads, Lock(t) \/ Clear(t) \/ RefreshReturns(t) \/ Count(t) \/ Use(t)
      PROVE  PointerInv'
  <2>1. UNCHANGED <<pointer, live>>
    BY <1>3 DEF Lock, Clear, RefreshReturns, Count, Use
  <2>2. pc'[t] # "use" /\ running'[t] \in {running[t], "none"}
    BY <1>3 DEF Lock, Clear, RefreshReturns, Count, Use, Return, Goto, Types
  <2>3. \A u \in Threads \ {t} : pc'[u] = pc[u] /\ running'[u] = running[u]
    BY <1>3 DEF Lock, Clear, RefreshReturns, Count, Use, Return, Goto, Types
  <2>4. QED
    BY <1>2, <2>1, <2>2, <2>3
<1>4. ASSUME NEW t \in Threads, CallRefresh(t)
      PROVE  PointerInv'
  BY <1>4 DEF CallRefresh, Call, Types
<1>5. ASSUME NEW t \in Threads, DeleteDevice(t)
      PROVE  PointerInv'
  <2>1. UNCHANGED thread /\ pc[t] = "delete"
    BY <1>5 DEF DeleteDevice
  <2>2. ASSUME NEW u \in Threads, pc[u] = "use" PROVE running[u] \in Exposed
    BY <2>1, <2>2 DEF MutexInv
  <2>3. QED
    BY <2>1, <2>2
<1>6. ASSUME NEW t \in Threads, AddDevice(t)
      PROVE  PointerInv'
  BY <1>6 DEF AddDevice
<1>7. ASSUME NEW t \in Threads, NEW i \in 0..MaxDevices,
             \/ CallIsDeviceAvailable(t, i)
             \/ \E name \in ReaderCalls : CallReader(t, name, i)
      PROVE  PointerInv'
  <2>1. CASE CallIsDeviceAvailable(t, i)
    BY <2>1 DEF CallIsDeviceAvailable, Call, Types
  <2>2. ASSUME NEW name \in ReaderCalls, CallReader(t, name, i)
        PROVE  PointerInv'
    BY <2>2 DEF CallReader, Call, Refreshing, Types
  <2>3. QED
    BY <1>7, <2>1, <2>2
<1>8. ASSUME NEW t \in Threads, live = ToSet(m_devices), UNCHANGED live,
             index[t] < Len(m_devices),
             pointer' = [pointer EXCEPT ![t] = m_devices[index[t] + 1]],
             Goto(t, "use")
      PROVE  PointerInv'
  <2>1. m_devices[index[t] + 1] \in live
    BY <1>8, ElementInToSet DEF Types
  <2>2. QED
    BY <1>8, <2>1 DEF Goto, Types
<1>9. ASSUME NEW t \in Threads, Check(t)
      PROVE  PointerInv'
  <2>1. CASE index[t] >= Len(m_devices)
    BY <1>2, <1>9, <2>1 DEF Check, Return, Types
  <2>2. CASE ~(index[t] >= Len(m_devices))
    <3>1. live = ToSet(m_devices)
      BY <1>9, HolderAlone DEF Check, ListInv
    <3>2. index[t] < Len(m_devices)
      BY <2>2 DEF Types
    <3>3. QED
      BY <1>8, <1>9, <2>2, <3>1, <3>2 DEF Check
  <2>3. QED
    BY <2>1, <2>2
<1>10. ASSUME NEW t \in Threads, Fetch(t)
      PROVE  PointerInv'
  <2>1. CASE UNCHANGED pointer /\ Return(t, "ERR")
    BY <1>2, <1>10, <2>1 DEF Fetch, Return, Types
  <2>2. CASE /\ index[t] < Len(m_devices)
             /\ pointer' = [pointer EXCEPT ![t] = m_devices[index[t] + 1]]
             /\ Goto(t, "use")
    <3>1. CASE running[t] \in KeptApart
      <4>1. live = ToSet(m_devices)
        BY <1>10, <3>1 DEF Fetch, ListInv, MutexInv, Deleting
      <4>2. QED
        BY <1>8, <1>10, <2>2, <4>1 DEF Fetch
    <3>2. CASE running[t] \notin KeptApart
      <4>1. running[t] \in Exposed
        BY <1>10, <3>2 DEF Fetch, MutexInv
      <4>2. UNCHANGED <<live, running>>
        BY <1>10, <2>2 DEF Fetch, Goto
      <4>3. ASSUME NEW u \in Threads, u # t
            PROVE  pointer'[u] = pointer[u] /\ pc'[u] = pc[u]
        BY <2>2, <4>3 DEF Goto, Types
      <4>4. QED
        BY <4>1, <4>2, <4>3
    <3>3. QED
      BY <3>1, <3>2
  <2>3. index[t] < Len(m_devices) \/ index[t] >= Len(m_devices)
    BY DEF Types
  <2>4. QED
    BY <1>10, <2>1, <2>2, <2>3 DEF Fetch
<1>11. QED
  BY <1>1, <1>3, <1>4, <1>5, <1>6, <1>7, <1>9, <1>10 DEF Next

THEOREM UsedDevicesExist == Spec => []GuardedUseExists
<1>1. PointerInv /\ Types /\ MutexInv /\ ListInv /\ [Next]_vars => PointerInv'
  BY PointerStep
<1>2. PointerInv => GuardedUseExists
  BY DEF PointerInv
<1>3. QED
  BY <1>1, <1>2, InitInv, InvariantHolds, PTL DEF Spec
-----------------------------------------------------------------------------
(* The checks of one camera. *)

CheckTypes ==
  /\ call \in Calls
  /\ timeoutMs \in 0..WrapAt - 1
  /\ step \in {"fast", "open", "poll", "sleep", "close", "over"}
  /\ waited \in 0..WrapAt - 1
  /\ slept \in Nat
  /\ elapsed \in Nat
  /\ firstFrame \in Nat \cup {-1}

HeldInv ==
  /\ step \in {"fast", "open"} => ~opened
  /\ opened /\ user = "library" => step \in {"poll", "sleep", "close"}

FlagInv ==
  /\ step \in {"fast", "open"} => ~m_newFrame /\ firstFrame = -1
  /\ step # "over" => (m_newFrame <=> firstFrame # -1)
  /\ step # "close" /\ gotFrame => step = "over"
  /\ gotFrame => firstFrame # -1
  /\ step = "fast" => call # "probeDevice"
  /\ step = "open" => call # "isDeviceAvailable"
  /\ step = "over" /\ capResult = "OK" /\ call # "isDeviceAvailable" => gotFrame

(* The clock stops at MaxElapsed; no timeout is longer than that. *)
ClockRuns == MaxElapsed >= WrapAt

InTime == firstFrame = -1 \/ firstFrame >= timeoutMs

TimeInv ==
  /\ step \in {"fast", "open"} => waited = 0
  /\ step = "poll" => elapsed >= waited /\ (firstFrame = -1 \/ firstFrame >= waited)
  /\ step = "sleep" => elapsed >= waited + slept \/ elapsed >= WrapAt
  /\ step = "close" => gotFrame \/ (elapsed >= timeoutMs /\ InTime)
  /\ step = "over" => capResult = "OK" \/ InTime

LEMMA Remainder ==
  ASSUME NEW x \in Nat, NEW w \in Nat \ {0}
  PROVE  x % w \in 0..w - 1 /\ x % w <= x
OBVIOUS

LEMMA InitCheck == CheckInit => CheckTypes /\ HeldInv /\ FlagInv /\ TimeInv
BY DeviceCheckAssumption
   DEF CheckInit, CheckTypes, HeldInv, FlagInv, TimeInv, InTime, Calls

LEMMA CheckTypesStep == ASSUME CheckTypes, [CheckNext]_checkVars PROVE CheckTypes'
<1> USE DeviceCheckAssumption DEF CheckTypes, client, stream, outside, Answer
<1>1. CASE UNCHANGED checkVars
  BY <1>1 DEF checkVars
<1>2. CASE UnknownIndex \/ NotAvailable \/ Available
  BY <1>2 DEF UnknownIndex, NotAvailable, Available
<1>3. CASE OpenFails \/ OpenStream
  BY <1>3 DEF OpenFails, OpenStream
<1>4. CASE GoOn \/ GiveUp
  BY <1>4 DEF GoOn, GiveUp
<1>5. CASE Wake
  <2>1. (waited + PollInterval) % WrapAt \in 0..WrapAt - 1
    BY Remainder
  <2>2. QED
    BY <1>5, <2>1 DEF Wake
<1>6. CASE Close
  BY <1>6 DEF Close
<1>7. CASE Tick \/ Frame
  BY <1>7 DEF Tick, Frame
<1>8. CASE Hotplug \/ OtherProcess \/ Over
  BY <1>8 DEF Hotplug, OtherProcess, Over, checkVars
<1>9. QED
  BY <1>1, <1>2, <1>3, <1>4, <1>5, <1>6, <1>7, <1>8 DEF CheckNext, Client

LEMMA HeldStep == ASSUME CheckTypes, HeldInv, [CheckNext]_checkVars PROVE HeldInv'
<1> USE DEF HeldInv, client, stream, outside, Answer
<1>1. CASE UNCHANGED checkVars
  BY <1>1 DEF checkVars
<1>2. CASE UnknownIndex \/ NotAvailable \/ Available
  BY <1>2 DEF UnknownIndex, NotAvailable, Available
<1>3. CASE OpenFails \/ OpenStream
  BY <1>3 DEF OpenFails, OpenStream
<1>4. CASE GoOn \/ GiveUp
  BY <1>4 DEF GoOn, GiveUp
<1>5. CASE Wake \/ Close
  BY <1>5 DEF Wake, Close
<1>6. CASE Tick \/ Frame
  BY <1>6 DEF Tick, Frame
<1>7. CASE Hotplug \/ Over
  BY <1>7 DEF Hotplug, Over, checkVars
<1>8. CASE OtherProcess
  BY <1>8 DEF OtherProcess
<1>9. QED
  BY <1>1, <1>2, <1>3, <1>4, <1>5, <1>6, <1>7, <1>8 DEF CheckNext, Client

LEMMA FlagStep == ASSUME CheckTypes, FlagInv, [CheckNext]_checkVars PROVE FlagInv'
<1> USE DEF CheckTypes, FlagInv, Calls, client, stream, outside, Answer
<1>1. CASE UNCHANGED checkVars
  BY <1>1 DEF checkVars
<1>2. CASE UnknownIndex \/ NotAvailable \/ Available
  BY <1>2 DEF UnknownIndex, NotAvailable, Available
<1>3. CASE OpenFails
  BY <1>3 DEF OpenFails
<1>4. CASE OpenStream \/ GoOn \/ GiveUp
  BY <1>4 DEF OpenStream, GoOn, GiveUp
<1>5. CASE Wake
  BY <1>5 DEF Wake
<1>6. CASE Close
  BY <1>6 DEF Close
<1>7. CASE Tick
  BY <1>7 DEF Tick
<1>8. CASE Frame
  BY <1>8 DEF Frame
<1>9. CASE Hotplug \/ OtherProcess \/ Over
  BY <1>9 DEF Hotplug, OtherProcess, Over, checkVars
<1>10. QED
  BY <1>1, <1>2, <1>3, <1>4, <1>5, <1>6, <1>7, <1>8, <1>9 DEF CheckNext, Client

LEMMA SafetyHolds == CheckSpec => [](CheckTypes /\ HeldInv /\ FlagInv)
<1>1. CheckTypes /\ HeldInv /\ FlagInv /\ [CheckNext]_checkVars => (CheckTypes /\ HeldInv /\ FlagInv)'
  BY CheckTypesStep, HeldStep, FlagStep
<1>2. QED
  BY <1>1, InitCheck, PTL DEF CheckSpec

(* Whatever the camera does, it is free when a call that opened it has      *)
(* returned.                                                                *)
THEOREM CameraFreed == CheckSpec => []CameraIsFreed
<1>1. HeldInv => CameraIsFreed
  BY DEF HeldInv, CameraIsFreed, IsOver
<1>2. QED
  BY <1>1, SafetyHolds, PTL

(* OK is answered only after a frame. *)
THEOREM OkNeedsFrame == CheckSpec => []OkMeansFrame
<1>1. FlagInv => OkMeansFrame
  BY DEF FlagInv, OkMeansFrame, IsOver, Invasive
<1>2. QED
  BY <1>1, SafetyHolds, PTL
-----------------------------------------------------------------------------
(* The loop never believes to have waited longer than it has. *)
LEMMA TimeStep ==
  ASSUME ClockRuns, CheckTypes, FlagInv, TimeInv, [CheckNext]_checkVars
  PROVE  TimeInv'
<1> USE DeviceCheckAssumption
    DEF CheckTypes, TimeInv, InTime, client, stream, outside, Answer
<1>1. CASE UNCHANGED checkVars
  BY <1>1 DEF checkVars
<1>2. CASE UnknownIndex \/ NotAvailable \/ Available
  BY <1>2 DEF UnknownIndex, NotAvailable, Available, FlagInv
<1>3. CASE OpenFails \/ OpenStream
  BY <1>3 DEF OpenFails, OpenStream, FlagInv
<1>4. CASE GoOn
  BY <1>4 DEF GoOn
<1>5. CASE GiveUp
  BY <1>5 DEF GiveUp
<1>6. CASE Wake
  <2>1. waited' <= waited + PollInterval /\ waited' < WrapAt
    <3>1. waited + PollInterval \in Nat
      OBVIOUS
    <3>2. waited' = (waited + PollInterval) % WrapAt
      BY <1>6 DEF Wake
    <3>3. /\ (waited + PollInterval) % WrapAt \in 0..WrapAt - 1
          /\ (waited + PollInterval) % WrapAt <= waited + PollInterval
      BY <3>1, Remainder
    <3>4. QED
      BY <3>2, <3>3
  <2>2. elapsed >= waited'
    <3>1. waited' \in Nat /\ slept >= PollInterval
      BY <1>6, CheckTypesStep DEF Wake
    <3>2. elapsed >= waited + slept \/ elapsed >= WrapAt
      BY <1>6 DEF Wake
    <3>3. QED
      BY <2>1, <3>1, <3>2
  <2>3. CASE m_newFrame
    BY <1>6, <2>3 DEF Wake
  <2>4. CASE ~m_newFrame
    BY <1>6, <2>2, <2>4 DEF Wake, FlagInv
  <2>5. QED
    BY <2>3, <2>4
<1>7. CASE Close
  BY <1>7 DEF Close
<1>8. CASE Tick
  BY <1>8 DEF Tick, ClockRuns
<1>9. CASE Frame
  BY <1>9 DEF Frame
<1>10. CASE Hotplug \/ OtherProcess \/ Over
  BY <1>10 DEF Hotplug, OtherProcess, Over, checkVars
<1>11. QED
  BY <1>1, <1>2, <1>3, <1>4, <1>5, <1>6, <1>7, <1>8, <1>9, <1>10 DEF CheckNext, Client

(* OK is answered only after a frame, and a frame within the timeout is     *)
(* never missed, however late the sleeps end.                               *)
THEOREM FrameSeen ==
  ASSUME ClockRuns
  PROVE  CheckSpec => []AnswerTellsOfFrame
<1>1. CheckTypes /\ FlagInv /\ TimeInv /\ [CheckNext]_checkVars => TimeInv'
  BY TimeStep
<1>2. CheckTypes /\ TimeInv => FrameInTimeIsSeen
  BY DeviceCheckAssumption DEF CheckTypes, TimeInv, InTime, FrameInTimeIsSeen, IsOver
<1>3. OkMeansFrame /\ FrameInTimeIsSeen => AnswerTellsOfFrame
  BY DEF AnswerTellsOfFrame
<1>4. QED
  BY <1>1, <1>2, <1>3, OkNeedsFrame, InitCheck, SafetyHolds, PTL DEF CheckSpec
=============================================================================
