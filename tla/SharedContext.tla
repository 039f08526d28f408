--------------------------- MODULE SharedContext ---------------------------
(***************************************************************************)
(* The device list of a Context shared by threads: refreshDevices deletes  *)
(* and rebuilds it under m_contextMutex, isDeviceAvailable takes the same  *)
(* mutex, and every other call reads the list without.  README.md, Thread  *)
(* Safety, names the calls that must not run during a refresh; the client  *)
(* here keeps to a set of such calls that is a parameter.                  *)
(*                                                                         *)
(* A step ends where another thread's step makes a difference: at the      *)
(* mutex, after each device that is deleted or added, and between fetching *)
(* a device pointer and using it.  A read of the vector's size while it is *)
(* cleared or filled is a data race: any size may be seen.                 *)
(***************************************************************************)
EXTENDS Integers, Sequences, FiniteSets, SequencesExt

CONSTANTS
  Threads,
  NoThread,
  ReaderCalls,   \* calls that use a device and take no mutex
  KeptApart,     \* those the client does not make during a refresh
  MaxDevices,    \* bound on the cameras attached
  MaxRefreshes   \* bound on the refreshes of one behaviour

ASSUME SharedContextAssumption ==
  /\ NoThread \notin Threads
  /\ ReaderCalls \cap {"refreshDevices", "isDeviceAvailable", "none"} = {}
  /\ KeptApart \subseteq ReaderCalls
  /\ MaxDevices \in Nat
  /\ MaxRefreshes \in Nat

VARIABLES
  m_devices,   \* the list of pointers; a deviceInfo is <<list, index>>
  live,        \* the deviceInfo objects not deleted
  mutex,       \* m_contextMutex: who holds it
  refreshes,   \* how many lists there have been
  pc,          \* where each thread is
  running,     \* the call it makes
  index,       \* the device index it passes, from 0
  pointer,     \* the device it has fetched
  complete,    \* history: the sizes of all complete lists during its call
  result       \* what its last call returned

thread == <<pc, running, index, pointer, complete, result>>
vars == <<m_devices, live, mutex, refreshes, thread>>

List(n, size) == [i \in 1..size |-> <<n, i>>]

Init ==
  /\ \E size \in 0..MaxDevices : m_devices = List(0, size)
  /\ live = ToSet(m_devices)
  /\ mutex = NoThread
  /\ refreshes = 0
  /\ pc = [t \in Threads |-> "idle"]
  /\ running = [t \in Threads |-> "none"]
  /\ index = [t \in Threads |-> 0]
  /\ pointer = [t \in Threads |-> <<>>]
  /\ complete = [t \in Threads |-> {}]
  /\ result = [t \in Threads |-> "none"]

Refreshing == \E t \in Threads : running[t] = "refreshDevices"
Changing == \E t \in Threads : pc[t] \in {"delete", "enumerate"}

(* A size read without the mutex *)
SizesSeen == IF Changing THEN 0..MaxDevices ELSE {Len(m_devices)}

Call(t, name, i, first) ==
  /\ pc[t] = "idle"
  /\ pc' = [pc EXCEPT ![t] = first]
  /\ running' = [running EXCEPT ![t] = name]
  /\ index' = [index EXCEPT ![t] = i]
  /\ complete' = [complete EXCEPT ![t] = IF Changing THEN {} ELSE {Len(m_devices)}]
  /\ result' = [result EXCEPT ![t] = "none"]
  /\ UNCHANGED <<m_devices, live, mutex, refreshes, pointer>>

Return(t, value) ==
  /\ pc' = [pc EXCEPT ![t] = "idle"]
  /\ running' = [running EXCEPT ![t] = "none"]
  /\ result' = [result EXCEPT ![t] = value]

Goto(t, place) ==
  /\ pc' = [pc EXCEPT ![t] = place]
  /\ UNCHANGED <<running, result>>
-----------------------------------------------------------------------------
(* refreshDevices *)

CallRefresh(t) ==
  /\ refreshes < MaxRefreshes
  /\ \A u \in Threads : running[u] \notin KeptApart
  /\ Call(t, "refreshDevices", 0, "lock")

Lock(t) ==
  /\ pc[t] = "lock" /\ mutex = NoThread
  /\ mutex' = t
  /\ Goto(t, IF running[t] = "refreshDevices" THEN "delete" ELSE "check")
  /\ UNCHANGED <<m_devices, live, refreshes, index, pointer, complete>>

(* for (auto* d : m_devices) delete d; *)
DeleteDevice(t) ==
  /\ pc[t] = "delete"
  /\ \E i \in DOMAIN m_devices :
       /\ m_devices[i] \in live
       /\ \A j \in 1..i - 1 : m_devices[j] \notin live
       /\ live' = live \ {m_devices[i]}
  /\ UNCHANGED <<m_devices, mutex, refreshes, thread>>

(* Mutant: the list is cleared before all its devices are deleted. *)
ClearTooEarly(t) ==
  /\ pc[t] = "delete"
  /\ m_devices' = <<>>
  /\ refreshes' = refreshes + 1
  /\ Goto(t, "enumerate")
  /\ UNCHANGED <<live, mutex, index, pointer, complete>>

Clear(t) ==
  /\ pc[t] = "delete"
  /\ ToSet(m_devices) \cap live = {}
  /\ m_devices' = <<>>
  /\ refreshes' = refreshes + 1
  /\ Goto(t, "enumerate")
  /\ UNCHANGED <<live, mutex, index, pointer, complete>>

AddDevice(t) ==
  /\ pc[t] = "enumerate"
  /\ Len(m_devices) < MaxDevices
  /\ LET device == <<refreshes, Len(m_devices) + 1>>
     IN  /\ m_devices' = Append(m_devices, device)
         /\ live' = live \cup {device}
  /\ UNCHANGED <<mutex, refreshes, thread>>

RefreshReturns(t) ==
  /\ pc[t] = "enumerate"
  /\ mutex' = NoThread
  /\ Return(t, "OK")
  /\ complete' = [u \in Threads |-> complete[u] \cup {Len(m_devices)}]
  /\ UNCHANGED <<m_devices, live, refreshes, index, pointer>>
-----------------------------------------------------------------------------
(* Cap_isDeviceAvailable *)

CallIsDeviceAvailable(t, i) == Call(t, "isDeviceAvailable", i, "count")

(* libmain.cpp looks at the count without the mutex. *)
Count(t) ==
  /\ pc[t] = "count"
  /\ \E size \in SizesSeen :
       IF index[t] >= size THEN Return(t, "DEVICENOTFOUND") ELSE Goto(t, "lock")
  /\ UNCHANGED <<m_devices, live, mutex, refreshes, index, pointer, complete>>
(* Mutant: the index is not looked at again.                                *)
CheckNotAgain(t) ==
  /\ pc[t] = "check"
  /\ pointer' = [pointer EXCEPT ![t] = <<refreshes, index[t] + 1>>]
  /\ Goto(t, "use")
  /\ UNCHANGED <<m_devices, live, mutex, refreshes, index, complete>>

(* PlatformContext::isDeviceAvailable looks at the index again under it. *)
Check(t) ==
  /\ pc[t] = "check"
  /\ IF index[t] >= Len(m_devices)
       THEN Return(t, "ERR") /\ mutex' = NoThread /\ UNCHANGED pointer
       ELSE /\ pointer' = [pointer EXCEPT ![t] = m_devices[index[t] + 1]]
            /\ Goto(t, "use")
            /\ UNCHANGED mutex
  /\ UNCHANGED <<m_devices, live, refreshes, index, complete>>

(* The device is looked at, and the mutex is released if it was taken. *)
Use(t) ==
  /\ pc[t] = "use"
  /\ \E value \in {"OK", "ERR"} : Return(t, value)
  /\ mutex' = IF mutex = t THEN NoThread ELSE mutex
  /\ UNCHANGED <<m_devices, live, refreshes, index, pointer, complete>>
-----------------------------------------------------------------------------
(* getDeviceName, getFormatInfo, openStream and the like *)

CallReader(t, name, i) ==
  /\ name \in KeptApart => ~Refreshing
  /\ Call(t, name, i, "fetch")

Fetch(t) ==
  /\ pc[t] = "fetch"
  /\ \E size \in SizesSeen :
       IF index[t] >= size \/ index[t] >= Len(m_devices)
         THEN Return(t, "ERR") /\ UNCHANGED pointer
         ELSE /\ pointer' = [pointer EXCEPT ![t] = m_devices[index[t] + 1]]
              /\ Goto(t, "use")
  /\ UNCHANGED <<m_devices, live, mutex, refreshes, index, complete>>

Next == \E t \in Threads :
  \/ CallRefresh(t) \/ Lock(t) \/ DeleteDevice(t) \/ Clear(t) \/ AddDevice(t)
  \/ RefreshReturns(t)
  \/ \E i \in 0..MaxDevices :
       \/ CallIsDeviceAvailable(t, i)
       \/ \E name \in ReaderCalls : CallReader(t, name, i)
  \/ Count(t) \/ Check(t) \/ Use(t) \/ Fetch(t)

Spec == Init /\ [][Next]_vars
-----------------------------------------------------------------------------
(* The calls that read the list without the mutex while a refresh may       *)
(* delete it, because the client does not keep them apart.                  *)
Exposed == ReaderCalls \ KeptApart

(* A device that isDeviceAvailable looks at under the mutex, or a call that *)
(* the client keeps apart from refreshes, is not deleted under it, whatever *)
(* the other threads call, calls that are exposed included.  What a call    *)
(* that did use a deleted device does to the others is not modelled.        *)
GuardedUseExists ==
  \A t \in Threads : pc[t] = "use" /\ running[t] \notin Exposed => pointer[t] \in live

(* context.h: m_contextMutex "protects m_devices during refreshDevices": it *)
(* would have to for every call.  It does not for those that take no mutex. *)
UsedDeviceExists == \A t \in Threads : pc[t] = "use" => pointer[t] \in live

(* Between refreshes the list holds exactly the devices that exist: none is *)
(* lost and none is left behind deleted.                                    *)
ListIsComplete == ~Changing => ToSet(m_devices) = live

(* openpnp-capture.h, Cap_isDeviceAvailable: CAPRESULT_DEVICENOTFOUND "if   *)
(* the index is out of range" - of some list there was during the call.     *)
NotFoundMeansOutOfRange ==
  \A t \in Threads : result[t] = "DEVICENOTFOUND" /\ complete[t] # {} =>
    \E size \in complete[t] : index[t] >= size
=============================================================================
