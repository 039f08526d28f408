--------------------------- MODULE PlatformProofs ---------------------------
(***************************************************************************)
(* Proofs about the parts of the platform layer, as module MCPlatforms     *)
(* explores them, for any number of cameras and capabilities, any limits   *)
(* and any size of a frame.  The parts do not touch each other's state, so *)
(* each has an invariant of its own, which holds while that part moves.    *)
(***************************************************************************)
EXTENDS MCPlatforms, FiniteSetTheorems, TLAPS

(* The search for a format.  Each media type that was obtained has been     *)
(* deleted, except the one that is selected at present (DeletedInv); that   *)
(* one is the closest so far, and there is none only if there was no        *)
(* candidate (ClosestInv).                                                  *)

SelectionTypes ==
  /\ \E n \in Nat : caps \in [1..n -> Selection!Caps]
  /\ want.fps \in Nat
  /\ iFormat \in Nat \ {0}
  /\ obtained \subseteq DOMAIN caps /\ \A i \in obtained : i < iFormat
  /\ selectedConfig \in obtained \cup {0}
  /\ deleted \in [DOMAIN caps -> Nat]
  /\ selection \in {"searching", "done"}
  /\ caller \in {"open", "reapply", "setFrameRate"}
  /\ caller = "setFrameRate" => want.fps # 0

DeletedInv ==
  /\ selection = "searching" /\ selectedConfig # 0 => want.fps # 0
  /\ selection = "searching" =>
       \A i \in DOMAIN caps :
         deleted[i] = IF i \in obtained /\ i # selectedConfig THEN 1 ELSE 0
  /\ Selection!EachDeletedOnce

LEMMA BreakpointsAreRates == Selection!Breakpoints \subseteq Nat
BY DEF Selection!Breakpoints

LEMMA SelectionConstants ==
  /\ Rates \subseteq Nat
  /\ Callers \subseteq {"open", "reapply", "setFrameRate"}
<1>1. Rates \subseteq 0..Selection!Second
  BY PlatformsAssumption DEF Selection!SelectionAssumption
<1>2. Selection!Second \in Nat
  BY SMT DEF Selection!Second
<1>3. QED
  BY <1>1, <1>2, PlatformsAssumption DEF Selection!SelectionAssumption

LEMMA SelectionInit ==
  ASSUME Selection!Init
  PROVE  SelectionTypes /\ DeletedInv
<1>1. PICK n \in 1..MaxCaps : caps \in [1..n -> Selection!Caps]
  BY DEF Selection!Init
<1>2. n \in Nat /\ DOMAIN caps = 1..n
  BY <1>1
<1>3. want.fps \in Nat /\ (caller = "setFrameRate" => want.fps # 0)
  <2>1. PICK i \in DOMAIN caps :
          \/ /\ caller # "setFrameRate"
             /\ want \in Selection!Advertised(caps[i])
          \/ /\ caller = "setFrameRate"
             /\ want \in [fourcc : {Selection!AdvertisedAs(caps[i].kind)},
                         fps : Rates \ {0}]
    BY DEF Selection!Init
  <2>2. caps[i].rate \in Rates /\ Rates \subseteq Nat
    BY <1>1, <2>1, SelectionConstants DEF Selection!Caps
  <2>3. CASE caller # "setFrameRate"
    <3>1. want.fps \in {caps[i].rate} \cup Selection!Breakpoints
      BY <2>1, <2>3 DEF Selection!Advertised
    <3>2. QED
      BY <2>2, <2>3, <3>1, BreakpointsAreRates
  <2>4. CASE caller = "setFrameRate"
    BY <2>1, <2>2, <2>4
  <2>5. QED
    BY <2>3, <2>4
<1>4. caller \in {"open", "reapply", "setFrameRate"}
  BY SelectionConstants DEF Selection!Init
<1>5. SelectionTypes
  <2>1. \E m \in Nat : caps \in [1..m -> Selection!Caps]
    BY <1>1, <1>2
  <2>2. /\ iFormat = 1 /\ obtained = {} /\ selectedConfig = 0
        /\ deleted = [i \in DOMAIN caps |-> 0] /\ selection = "searching"
    BY DEF Selection!Init
  <2>3. QED
    BY <1>3, <1>4, <2>1, <2>2 DEF SelectionTypes
<1>6. DeletedInv
  BY <1>2 DEF Selection!Init, DeletedInv, Selection!EachDeletedOnce, Selection!Done
<1>7. QED
  BY <1>5, <1>6

(* The instances count as this module does. *)
LEMMA SameCardinality ==
  \A S : /\ Selection!Cardinality(S) = Cardinality(S)
         /\ List!Cardinality(S) = Cardinality(S)
         /\ List!IsFiniteSet(S) = IsFiniteSet(S)
BY DEF Selection!Cardinality, List!Cardinality, Cardinality,
       List!IsFiniteSet, IsFiniteSet

(* The next capability's index is in the list, and has not been used.       *)
LEMMA NextCapability ==
  ASSUME SelectionTypes, Selection!Turn
  PROVE  iFormat \in DOMAIN caps /\ iFormat \notin obtained
<1>1. PICK n \in Nat : caps \in [1..n -> Selection!Caps]
  BY DEF SelectionTypes
<1>2. Cardinality(1..n) = n
  BY <1>1, FS_Interval
<1>3. Selection!Indices = DOMAIN caps
  BY <1>1, <1>2, SameCardinality DEF Selection!Indices
<1>4. QED
  BY <1>3 DEF Selection!Turn, SelectionTypes

(* What a deletion adds up to. *)
LEMMA DeleteEffect ==
  ASSUME SelectionTypes, NEW types, Selection!Delete(types)
  PROVE  /\ deleted' \in [DOMAIN caps -> Nat]
         /\ \A i \in DOMAIN caps :
              deleted'[i] = IF i \in types THEN deleted[i] + 1 ELSE deleted[i]
BY DEF SelectionTypes, Selection!Delete

LEMMA SelectionTypesStep ==
  ASSUME SelectionTypes, Selection!Next
  PROVE  SelectionTypes'
<1> USE DEF Selection!Keep
<1>1. ASSUME Selection!Turn, obtained' \in {obtained, obtained \cup {iFormat}},
             selectedConfig' \in obtained' \cup {0},
             deleted' \in [DOMAIN caps -> Nat],
             selection' \in {"searching", "done"}
      PROVE  SelectionTypes'
  <2>1. UNCHANGED <<caller, caps, want>> /\ iFormat' = iFormat + 1
    BY <1>1 DEF Selection!Turn
  <2>2. iFormat \in DOMAIN caps
    BY <1>1, NextCapability
  <2>3. iFormat' \in Nat \ {0} /\ \A i \in obtained' : i < iFormat'
    <3>1. iFormat \in Nat /\ \A i \in obtained : i < iFormat /\ i \in Nat
      BY DEF SelectionTypes
    <3>2. QED
      BY <1>1, <2>1, <3>1
  <2>4. QED
    BY <1>1, <2>1, <2>2, <2>3 DEF SelectionTypes
<1>2. CASE Selection!GetStreamCapsFails
  BY <1>1, <1>2 DEF Selection!GetStreamCapsFails, SelectionTypes
<1>3. CASE Selection!NoMatch \/ Selection!Untimed \/ Selection!NotCloser
  <2>1. /\ Selection!GetStreamCaps /\ Selection!Delete({iFormat})
        /\ UNCHANGED <<selectedConfig, selection>>
    BY <1>3 DEF Selection!NoMatch, Selection!Untimed, Selection!NotCloser
  <2>2. Selection!Turn /\ obtained' = obtained \cup {iFormat}
    BY <2>1 DEF Selection!GetStreamCaps
  <2>3. deleted' \in [DOMAIN caps -> Nat]
    BY <2>1, DeleteEffect
  <2>4. QED
    BY <1>1, <2>1, <2>2, <2>3 DEF SelectionTypes
<1>4. CASE Selection!TakeFirst \/ Selection!ReapplyFirst
  <2>1. /\ Selection!GetStreamCaps /\ Selection!Delete({iFormat})
        /\ selectedConfig' \in {selectedConfig, iFormat} /\ selection' = "done"
    BY <1>4 DEF Selection!TakeFirst, Selection!ReapplyFirst
  <2>2. Selection!Turn /\ obtained' = obtained \cup {iFormat}
    BY <2>1 DEF Selection!GetStreamCaps
  <2>3. deleted' \in [DOMAIN caps -> Nat]
    BY <2>1, DeleteEffect
  <2>4. QED
    BY <1>1, <2>1, <2>2, <2>3 DEF SelectionTypes
<1>5. CASE Selection!Closer
  BY <1>1, <1>5, DeleteEffect
     DEF Selection!Closer, Selection!GetStreamCaps, SelectionTypes
<1>6. CASE Selection!Apply
  BY <1>6, DeleteEffect DEF Selection!Apply, SelectionTypes
<1>7. CASE Selection!Over
  BY <1>7 DEF Selection!Over, Selection!vars, SelectionTypes
<1>8. QED
  BY <1>2, <1>3, <1>4, <1>5, <1>6, <1>7 DEF Selection!Next

(* Every turn of the loop deletes what it does not keep, and what it keeps  *)
(* is deleted when it is replaced or has been set.                          *)
LEMMA DeletedStep ==
  ASSUME SelectionTypes, DeletedInv, Selection!Next
  PROVE  DeletedInv'
<1> USE DEF Selection!Keep, Selection!EachDeletedOnce, Selection!Done
<1>1. CASE Selection!GetStreamCapsFails
  BY <1>1 DEF Selection!GetStreamCapsFails, Selection!Turn, DeletedInv
<1>2. ASSUME Selection!GetStreamCaps
      PROVE  /\ UNCHANGED caps /\ selection = "searching"
             /\ obtained' = obtained \cup {iFormat}
             /\ iFormat \in DOMAIN caps /\ iFormat \notin obtained
             /\ iFormat # selectedConfig
             /\ \A i \in DOMAIN caps : deleted[i] =
                  IF i \in obtained /\ i # selectedConfig THEN 1 ELSE 0
  BY <1>2, NextCapability
     DEF Selection!GetStreamCaps, Selection!Turn, SelectionTypes, DeletedInv
<1>3. CASE Selection!NoMatch \/ Selection!Untimed \/ Selection!NotCloser
  <2>1. /\ Selection!GetStreamCaps /\ Selection!Delete({iFormat})
        /\ UNCHANGED <<want, selectedConfig, selection>>
    BY <1>3 DEF Selection!NoMatch, Selection!Untimed, Selection!NotCloser,
                Selection!GetStreamCaps, Selection!Turn
  <2>2. QED
    BY <1>2, <2>1, DeleteEffect DEF DeletedInv
<1>4. CASE Selection!TakeFirst \/ Selection!ReapplyFirst
  <2>1. /\ Selection!GetStreamCaps /\ Selection!Delete({iFormat})
        /\ selection' = "done"
    BY <1>4 DEF Selection!TakeFirst, Selection!ReapplyFirst
  <2>2. selectedConfig = 0
    BY <1>4 DEF Selection!TakeFirst, Selection!ReapplyFirst, Selection!GetStreamCaps,
                Selection!Turn, DeletedInv
  <2>3. \A i \in DOMAIN caps : deleted[i] = IF i \in obtained THEN 1 ELSE 0
    BY <1>2, <2>1, <2>2 DEF SelectionTypes
  <2>4. \A i \in DOMAIN caps : deleted'[i] = IF i \in obtained' THEN 1 ELSE 0
    BY <1>2, <2>1, <2>3, DeleteEffect
  <2>5. QED
    BY <1>2, <2>1, <2>4 DEF DeletedInv
<1>5. CASE Selection!Closer
  <2>1. /\ Selection!GetStreamCaps /\ Selection!Delete({selectedConfig} \ {0})
        /\ selectedConfig' = iFormat /\ UNCHANGED selection
    BY <1>5 DEF Selection!Closer
  <2>2. \A i \in DOMAIN caps : i # 0
    BY DEF SelectionTypes
  <2>3. want.fps # 0 /\ UNCHANGED want
    BY <1>5 DEF Selection!Closer, Selection!GetStreamCaps, Selection!Turn
  <2>4. \A i \in DOMAIN caps : deleted'[i] = IF i \in obtained THEN 1 ELSE 0
    <3>1. \A i \in DOMAIN caps :
            deleted'[i] = IF i \in {selectedConfig} \ {0} THEN deleted[i] + 1
                                                        ELSE deleted[i]
      BY <2>1, DeleteEffect
    <3>2. selectedConfig \in obtained \cup {0}
      BY DEF SelectionTypes
    <3>3. QED
      BY <1>2, <2>1, <2>2, <3>1, <3>2
  <2>5. \A i \in DOMAIN caps :
          deleted'[i] = IF i \in obtained' /\ i # selectedConfig' THEN 1 ELSE 0
    BY <1>2, <2>1, <2>4
  <2>6. selection' = "searching"
    BY <1>2, <2>1
  <2>7. QED
    BY <1>2, <2>1, <2>3, <2>5, <2>6 DEF DeletedInv
<1>6. CASE Selection!Apply
  <2>1. /\ selection = "searching" /\ Selection!Delete({selectedConfig} \ {0})
        /\ selection' = "done" /\ UNCHANGED <<caps, obtained>>
    BY <1>6 DEF Selection!Apply
  <2>2. \A i \in DOMAIN caps : i # 0
    BY DEF SelectionTypes
  <2>3. \A i \in DOMAIN caps : deleted'[i] = IF i \in obtained THEN 1 ELSE 0
    <3>1. \A i \in DOMAIN caps :
            deleted'[i] = IF i \in {selectedConfig} \ {0} THEN deleted[i] + 1
                                                        ELSE deleted[i]
      BY <2>1, DeleteEffect
    <3>2. selectedConfig \in obtained \cup {0}
      BY DEF SelectionTypes
    <3>3. \A i \in DOMAIN caps : deleted[i] =
            IF i \in obtained /\ i # selectedConfig THEN 1 ELSE 0
      BY <2>1 DEF DeletedInv
    <3>4. QED
      BY <2>2, <3>1, <3>2, <3>3
  <2>4. QED
    BY <2>1, <2>3 DEF DeletedInv
<1>7. CASE Selection!Over
  BY <1>7 DEF Selection!Over, Selection!vars, DeletedInv
<1>8. QED
  BY <1>1, <1>3, <1>4, <1>5, <1>6, <1>7 DEF Selection!Next

LEMMA SelectionIInv ==
  ASSUME part = "selection" => SelectionTypes /\ DeletedInv, [Next]_vars
  PROVE  (part = "selection" => SelectionTypes /\ DeletedInv)'
<1>1. CASE part = "selection" /\ Selection!Next /\ part' = part
  BY <1>1, SelectionTypesStep, DeletedStep
<1>2. CASE UNCHANGED <<part, selectionVars>>
  BY <1>2 DEF selectionVars, SelectionTypes, DeletedInv, Selection!EachDeletedOnce,
              Selection!Done
<1>3. QED
  BY <1>1, <1>2 DEF Next, vars

(* Whatever the camera's capabilities are, in whatever order, and whichever *)
(* of the three loops runs: the loop leaves no media type behind, and       *)
(* deletes none twice (DeleteMediaType in open and setFrameRate).           *)
THEOREM DeletesEach == Spec => []EachDeletedOnce
<1> DEFINE Inv == part = "selection" => SelectionTypes /\ DeletedInv
<1>1. Init => Inv
  BY SelectionInit DEF Init
<1>2. Inv /\ [Next]_vars => Inv'
  BY SelectionIInv
<1>3. Inv => EachDeletedOnce
  BY DEF DeletedInv, EachDeletedOnce
<1>4. QED
  BY <1>1, <1>2, <1>3, PTL DEF Spec

(* The search begins with a distance of INT_MAX.  No rate is that far away: *)
(* it is a number of frames per second, from an interval of 100 ns or more. *)
LEMMA InitialDistanceIsFar ==
  /\ Selection!INT_MAX \in Nat
  /\ \A rate \in Rates \cup Selection!Breakpoints : rate < Selection!INT_MAX
<1>1. Rates \subseteq 0..Selection!Second
  BY PlatformsAssumption DEF Selection!SelectionAssumption
<1>2. \A rate \in 0..Selection!Second : rate < Selection!INT_MAX
  <2>1. Selection!Second \in Nat /\ Selection!INT_MAX \in Nat
    BY SMT DEF Selection!Second, Selection!INT_MAX
  <2>2. Selection!Second < Selection!INT_MAX
    BY SMT DEF Selection!Second, Selection!INT_MAX
  <2>3. QED
    BY <2>1, <2>2
<1>3. /\ Selection!INT_MAX \in Nat
      /\ \A rate \in Selection!Breakpoints : rate < Selection!INT_MAX
  BY SMT DEF Selection!INT_MAX, Selection!Breakpoints
<1>4. QED
  BY <1>1, <1>2, <1>3

ClosestInv ==
  /\ want.fps < Selection!INT_MAX
  /\ selection = "searching" /\ selectedConfig = 0 =>
       Selection!Candidates = {} /\ bestFpsDistance = Selection!INT_MAX
  /\ selection = "searching" /\ selectedConfig # 0 =>
       /\ want.fps # 0
       /\ selectedConfig \in Selection!Candidates
       /\ bestFpsDistance = Selection!Distance(caps[selectedConfig].rate)
       /\ \A i \in Selection!Candidates :
            bestFpsDistance <= Selection!Distance(caps[i].rate)
  /\ Selection!ClosestIsApplied

LEMMA ClosestInit ==
  ASSUME Selection!Init
  PROVE  ClosestInv
<1>1. want.fps < Selection!INT_MAX
  <2>1. PICK n \in 1..MaxCaps : caps \in [1..n -> Selection!Caps]
    BY DEF Selection!Init
  <2>2. PICK i \in DOMAIN caps :
          \/ /\ caller # "setFrameRate"
             /\ want \in Selection!Advertised(caps[i])
          \/ /\ caller = "setFrameRate"
             /\ want \in [fourcc : {Selection!AdvertisedAs(caps[i].kind)},
                         fps : Rates \ {0}]
    BY DEF Selection!Init
  <2>3. caps[i].rate \in Rates
    BY <2>1, <2>2 DEF Selection!Caps
  <2>4. CASE caller # "setFrameRate"
    <3>1. want.fps \in {caps[i].rate} \cup Selection!Breakpoints
      BY <2>2, <2>4 DEF Selection!Advertised
    <3>2. QED
      BY <2>3, <3>1, InitialDistanceIsFar
  <2>5. CASE caller = "setFrameRate"
    BY <2>2, <2>5, InitialDistanceIsFar
  <2>6. QED
    BY <2>4, <2>5
<1>2. Selection!Candidates = {}
  BY DEF Selection!Init, Selection!Candidates
<1>3. QED
  BY <1>1, <1>2 DEF Selection!Init, ClosestInv, Selection!ClosestIsApplied,
                    Selection!Done

(* A distance to a rate of the camera is a number below the initial one.    *)
LEMMA Distances ==
  ASSUME SelectionTypes, ClosestInv
  PROVE  \A i \in DOMAIN caps :
           /\ Selection!Distance(caps[i].rate) \in Nat
           /\ Selection!Distance(caps[i].rate) < Selection!INT_MAX
<1>1. PICK n \in Nat : caps \in [1..n -> Selection!Caps]
  BY DEF SelectionTypes
<1>2. ASSUME NEW i \in DOMAIN caps
      PROVE  caps[i].rate \in Nat /\ caps[i].rate < Selection!INT_MAX
  BY <1>1, SelectionConstants, InitialDistanceIsFar DEF Selection!Caps
<1>3. want.fps \in Nat /\ want.fps < Selection!INT_MAX
  BY DEF SelectionTypes, ClosestInv
<1>4. QED
  BY <1>2, <1>3, InitialDistanceIsFar DEF Selection!Distance, Selection!Abs

(* What a turn adds to the candidates. *)
LEMMA CandidatesGrow ==
  ASSUME Selection!GetStreamCaps
  PROVE  Selection!Candidates' =
           Selection!Candidates \cup
             (IF Selection!Matches /\ (want.fps = 0 \/ Selection!Cap.rate # 0)
                THEN {iFormat} ELSE {})
BY DEF Selection!GetStreamCaps, Selection!Turn, Selection!Candidates,
       Selection!Matches, Selection!Cap

LEMMA ClosestStep ==
  ASSUME SelectionTypes, DeletedInv, ClosestInv, Selection!Next
  PROVE  ClosestInv'
<1> USE DEF Selection!Keep, Selection!Done
<1>1. CASE Selection!GetStreamCapsFails
  BY <1>1 DEF Selection!GetStreamCapsFails, Selection!Turn, ClosestInv,
              Selection!Candidates, Selection!Distance, Selection!ClosestIsApplied
<1>2. ASSUME Selection!GetStreamCaps
      PROVE  /\ UNCHANGED <<caps, want>> /\ selection = "searching"
             /\ \A rate : Selection!Distance(rate)' = Selection!Distance(rate)
             /\ iFormat \in DOMAIN caps /\ iFormat # 0 /\ iFormat # selectedConfig
  BY <1>2, NextCapability
     DEF Selection!GetStreamCaps, Selection!Turn, Selection!Distance, SelectionTypes
<1>3. CASE Selection!NoMatch \/ Selection!Untimed
  <2>1. /\ Selection!GetStreamCaps
        /\ UNCHANGED <<selectedConfig, bestFpsDistance, selection>>
    BY <1>3 DEF Selection!NoMatch, Selection!Untimed
  <2>2. Selection!Candidates' = Selection!Candidates
    BY <1>3, <2>1, CandidatesGrow DEF Selection!NoMatch, Selection!Untimed
  <2>3. QED
    BY <1>2, <2>1, <2>2 DEF ClosestInv, Selection!ClosestIsApplied
<1>4. CASE Selection!NotCloser
  <2>1. /\ Selection!GetStreamCaps
        /\ UNCHANGED <<selectedConfig, bestFpsDistance, selection>>
        /\ Selection!Matches /\ want.fps # 0 /\ Selection!Cap.rate # 0
        /\ Selection!Distance(caps[iFormat].rate) >= bestFpsDistance
    BY <1>4 DEF Selection!NotCloser, Selection!Cap
  <2>2. Selection!Candidates' = Selection!Candidates \cup {iFormat}
    BY <2>1, CandidatesGrow
  <2>3. selectedConfig # 0
    <3>1. /\ Selection!Distance(caps[iFormat].rate) \in Nat
          /\ Selection!Distance(caps[iFormat].rate) < Selection!INT_MAX
      BY <1>2, <2>1, Distances
    <3>2. bestFpsDistance # Selection!INT_MAX
      BY <2>1, <3>1, InitialDistanceIsFar
    <3>3. QED
      BY <1>2, <2>1, <3>2 DEF ClosestInv
  <2>4. QED
    BY <1>2, <2>1, <2>2, <2>3, Distances DEF ClosestInv, Selection!ClosestIsApplied
<1>5. CASE Selection!Closer
  <2>1. /\ Selection!GetStreamCaps
        /\ UNCHANGED selection
        /\ Selection!Matches /\ want.fps # 0 /\ Selection!Cap.rate # 0
        /\ Selection!Distance(caps[iFormat].rate) < bestFpsDistance
        /\ selectedConfig' = iFormat
        /\ bestFpsDistance' = Selection!Distance(caps[iFormat].rate)
    BY <1>5 DEF Selection!Closer, Selection!Cap
  <2>2. Selection!Candidates' = Selection!Candidates \cup {iFormat}
    BY <2>1, CandidatesGrow
  <2>3. \A i \in Selection!Candidates :
          bestFpsDistance <= Selection!Distance(caps[i].rate)
    <3>1. selectedConfig # 0 \/ Selection!Candidates = {}
      BY <1>2, <2>1 DEF ClosestInv
    <3>2. QED
      BY <1>2, <2>1, <3>1 DEF ClosestInv
  <2>4. Selection!Candidates \subseteq DOMAIN caps
    BY DEF Selection!Candidates, SelectionTypes
  <2>5. bestFpsDistance \in Nat
    <3>1. CASE selectedConfig = 0
      BY <1>2, <2>1, <3>1, InitialDistanceIsFar DEF ClosestInv
    <3>2. CASE selectedConfig # 0
      <4>1. selectedConfig \in DOMAIN caps
        BY <3>2 DEF SelectionTypes
      <4>2. bestFpsDistance = Selection!Distance(caps[selectedConfig].rate)
        BY <1>2, <2>1, <3>2 DEF ClosestInv
      <4>3. QED
        BY <4>1, <4>2, Distances
    <3>3. QED
      BY <3>1, <3>2
  <2>6. \A i \in Selection!Candidates' :
          bestFpsDistance' <= Selection!Distance(caps[i].rate)
    BY <1>2, <2>1, <2>2, <2>3, <2>4, <2>5, Distances
  <2>7. QED
    BY <1>2, <2>1, <2>2, <2>6 DEF ClosestInv, Selection!ClosestIsApplied
<1>6. CASE Selection!TakeFirst \/ Selection!ReapplyFirst
  <2>1. /\ Selection!GetStreamCaps /\ Selection!Matches /\ want.fps = 0
        /\ applied' = iFormat /\ selection' = "done"
    BY <1>6 DEF Selection!TakeFirst, Selection!ReapplyFirst
  <2>2. iFormat \in Selection!Candidates'
    BY <2>1, CandidatesGrow
  <2>3. QED
    BY <1>2, <2>1, <2>2 DEF ClosestInv, Selection!ClosestIsApplied
<1>7. CASE Selection!Apply
  <2>1. /\ selection = "searching" /\ selection' = "done" /\ applied' = selectedConfig
        /\ UNCHANGED <<caps, want, obtained, selectedConfig, bestFpsDistance>>
    BY <1>7 DEF Selection!Apply
  <2>2. /\ Selection!Candidates' = Selection!Candidates
        /\ \A rate : Selection!Distance(rate)' = Selection!Distance(rate)
    BY <2>1 DEF Selection!Candidates, Selection!Distance
  <2>3. QED
    BY <2>1, <2>2 DEF ClosestInv, Selection!ClosestIsApplied
<1>8. CASE Selection!Over
  BY <1>8 DEF Selection!Over, Selection!vars, ClosestInv, Selection!Candidates,
              Selection!Distance, Selection!ClosestIsApplied
<1>9. QED
  BY <1>1, <1>3, <1>4, <1>5, <1>6, <1>7, <1>8 DEF Selection!Next

(* The loop sets a capability of the wanted kind if it has obtained one     *)
(* with a rate, and then one that no other is closer than; the one walk     *)
(* with a running minimum finds what a search of the whole list would       *)
(* (bestFpsDistance in open and setFrameRate).                              *)
THEOREM AppliesTheClosest == Spec => []ClosestIsApplied
<1> DEFINE Inv == part = "selection" => SelectionTypes /\ DeletedInv /\ ClosestInv
<1>1. Init => Inv
  BY SelectionInit, ClosestInit DEF Init
<1>2. ASSUME Inv, [Next]_vars
      PROVE  Inv'
  <2>1. (part = "selection" => SelectionTypes /\ DeletedInv)'
    BY <1>2, SelectionIInv
  <2>2. CASE part = "selection" /\ Selection!Next /\ part' = part
    BY <1>2, <2>1, <2>2, ClosestStep
  <2>3. CASE UNCHANGED <<part, selectionVars>>
    BY <1>2, <2>1, <2>3
       DEF selectionVars, ClosestInv, Selection!Candidates, Selection!Distance,
           Selection!ClosestIsApplied, Selection!Done
  <2>4. QED
    BY <1>2, <2>2, <2>3 DEF Next, vars
<1>3. Inv => ClosestIsApplied
  BY DEF ClosestInv, ClosestIsApplied
<1>4. QED
  BY <1>1, <1>2, <1>3, PTL DEF Spec

-----------------------------------------------------------------------------
(* The property calls.  The camera's value stays within its limits and its  *)
(* mode among those there are, whoever sets them (CameraInv), so that what  *)
(* is read on any platform gives back the value, the limits or the mode.    *)

CameraInv ==
  /\ platform \in {"Linux", "Windows", "macOS"}
  /\ limits \in Int \X Int
  /\ value \in limits[1]..limits[2]
  /\ limits[1] <= limits[2]
  /\ mode \in Controls!Modes
  /\ step = "set" => read[1] \in limits[1]..limits[2] /\ read[2] \in Controls!Modes

ControlsInv ==
  /\ CameraInv
  /\ Controls!SignedControlsAreRead

(* A number that fits two bytes with a sign comes back from them.           *)
LEMMA SignedComeBack ==
  ASSUME NEW n \in Int, -SignBit <= n, n < SignBit
  PROVE  Controls!SignExtend(n) = n
<1>1. SignBit \in Nat /\ SignBit > 0
  BY PlatformsAssumption DEF Controls!CameraControlsAssumption
<1>2. CASE n >= 0
  <2>1. n % (2 * SignBit) = n
    BY <1>1, <1>2
  <2>2. QED
    BY <1>1, <1>2, <2>1 DEF Controls!SignExtend
<1>3. CASE n < 0
  <2>1. n % (2 * SignBit) = n + 2 * SignBit
    BY <1>1, <1>3
  <2>2. QED
    BY <1>1, <1>3, <2>1 DEF Controls!SignExtend
<1>4. QED
  BY <1>2, <1>3

LEMMA SignedFromCamera ==
  ASSUME NEW n \in Int, -SignBit <= n, n < SignBit
  PROVE  Controls!FromCamera(n) = n
BY SignedComeBack DEF Controls!FromCamera

(* The platforms tell the manual mode from the others.                      *)
LEMMA ModesAreTold ==
  ASSUME platform \in {"Linux", "Windows", "macOS"}, mode \in Controls!Modes
  PROVE  Controls!DecodeAuto(mode) = Controls!IsAutomatic(mode)
<1>1. CASE platform = "Windows"
  <2>1. mode \in {1, 2}
    BY <1>1 DEF Controls!Modes
  <2>2. Controls!DecodeAuto(mode) = (mode = 1) /\ Controls!IsAutomatic(mode) = (mode # 2)
    BY <1>1 DEF Controls!DecodeAuto, Controls!IsAutomatic, Controls!Manual
  <2>3. QED
    BY <2>1, <2>2
<1>2. CASE platform # "Windows" /\ propID = 1
  <2>1. Controls!IsAutomatic(mode) = (mode # 1)
    BY <1>2 DEF Controls!IsAutomatic, Controls!Manual
  <2>2. CASE platform = "Linux"
    BY <1>2, <2>1, <2>2 DEF Controls!DecodeAuto
  <2>3. CASE platform = "macOS"
    BY <1>2, <2>1, <2>3 DEF Controls!DecodeAuto
  <2>4. QED
    BY <1>2, <2>2, <2>3
<1>3. CASE platform # "Windows" /\ propID # 1
  <2>1. mode \in {0, 1}
    BY <1>3 DEF Controls!Modes
  <2>2. Controls!IsAutomatic(mode) = (mode # 0)
    BY <1>3 DEF Controls!IsAutomatic, Controls!Manual
  <2>3. Controls!DecodeAuto(mode) = (mode # 0) \/ Controls!DecodeAuto(mode) = (mode = 1)
    BY <1>3 DEF Controls!DecodeAuto
  <2>4. QED
    BY <2>1, <2>2, <2>3
<1>4. QED
  BY <1>1, <1>2, <1>3

LEMMA EncodedAreModes ==
  ASSUME platform \in {"Linux", "Windows", "macOS"}, NEW enabled \in BOOLEAN
  PROVE  Controls!EncodeAuto(enabled) \in Controls!Modes
BY DEF Controls!Modes, Controls!EncodeAuto

LEMMA CameraStep ==
  ASSUME CameraInv, call \in Controls!Calls, Controls!Next
  PROVE  CameraInv'
<1> USE DEF CameraInv, Controls!fixed, Controls!camera, Controls!Return
<1>1. UNCHANGED <<platform, propID, limits>> => Controls!Modes' = Controls!Modes
  BY DEF Controls!Modes
<1>2. CASE Controls!NoStream \/ Controls!NoControl \/ Controls!CameraDeclines
  BY <1>1, <1>2 DEF Controls!NoStream, Controls!NoControl, Controls!CameraDeclines
<1>3. CASE \/ Controls!GetProperty \/ Controls!GetPropertyLimits
           \/ Controls!GetAutoProperty
  BY <1>1, <1>3 DEF Controls!GetProperty, Controls!GetPropertyLimits,
                    Controls!GetAutoProperty
<1>4. CASE Controls!SetProperty \/ Controls!DSSet
  BY <1>1, <1>4 DEF Controls!SetProperty, Controls!DSSet, Controls!ToCamera
<1>5. CASE \/ Controls!SetAutoProperty \/ Controls!DSSetAuto
           \/ Controls!DSSetAutoRelative
  <2>1. call.arg \in BOOLEAN
    BY <1>5 DEF Controls!Calls, Controls!SetAutoProperty, Controls!DSSetAuto,
                Controls!DSSetAutoRelative, Controls!Accepted, Controls!Unchecked
  <2>2. Controls!EncodeAuto(call.arg) \in Controls!Modes
    BY <2>1, EncodedAreModes
  <2>3. QED
    BY <1>1, <1>5, <2>2 DEF Controls!SetAutoProperty, Controls!DSSetAuto,
                            Controls!DSSetAutoRelative, Controls!ToCamera
<1>6. CASE Controls!DSGet
  BY <1>1, <1>6 DEF Controls!DSGet
<1>7. CASE Controls!Adjust
  BY <1>1, <1>7 DEF Controls!Adjust
<1>8. CASE Controls!OtherProgram
  BY <1>1, <1>8 DEF Controls!OtherProgram
<1>9. CASE Controls!Over
  BY <1>1, <1>9 DEF Controls!Over, Controls!vars
<1>10. QED
  BY <1>2, <1>3, <1>4, <1>5, <1>6, <1>7, <1>8, <1>9 DEF Controls!Next

LEMMA ControlsStep ==
  ASSUME ControlsInv, call \in Controls!Calls, Controls!Next
  PROVE  ControlsInv'
<1>1. CameraInv'
  BY CameraStep DEF ControlsInv
<1>2. SUFFICES Controls!SignedControlsAreRead'
  BY <1>1 DEF ControlsInv
<1>3. SUFFICES ASSUME -SignBit <= limits'[1], limits'[2] < SignBit
               PROVE  Controls!ReadsWhatCameraHas'
  BY DEF Controls!SignedControlsAreRead
<1> USE DEF Controls!ReadsWhatCameraHas, Controls!IsOk, Controls!Accepted
<1>4. CASE \/ Controls!NoStream \/ Controls!NoControl \/ Controls!CameraDeclines
           \/ Controls!SetProperty \/ Controls!SetAutoProperty \/ Controls!DSGet
  BY <1>4 DEF Controls!NoStream, Controls!NoControl, Controls!CameraDeclines,
              Controls!SetProperty, Controls!SetAutoProperty, Controls!DSGet,
              Controls!Return, Controls!Refused, Controls!fixed
<1>5. CASE Controls!DSSet \/ Controls!DSSetAuto \/ Controls!DSSetAutoRelative
  BY <1>5 DEF Controls!DSSet, Controls!DSSetAuto, Controls!DSSetAutoRelative,
              Controls!Unchecked, Controls!Return, Controls!fixed
<1>6. CASE Controls!GetProperty \/ Controls!GetPropertyLimits
  <2>1. UNCHANGED <<limits, value, platform, propID, call>>
    BY <1>6 DEF Controls!GetProperty, Controls!GetPropertyLimits, Controls!fixed,
                Controls!camera
  <2>2. /\ Controls!FromCamera(value) = value
        /\ Controls!FromCamera(limits[1]) = limits[1]
        /\ Controls!FromCamera(limits[2]) = limits[2]
    <3>1. SignBit \in Nat
      BY PlatformsAssumption DEF Controls!CameraControlsAssumption
    <3>2. value \in Int /\ limits[1] \in Int /\ limits[2] \in Int
      BY DEF ControlsInv, CameraInv
    <3>3. \A n \in {value, limits[1], limits[2]} : -SignBit <= n /\ n < SignBit
      BY <1>3, <2>1, <3>1, <3>2 DEF ControlsInv, CameraInv
    <3>4. QED
      BY <3>2, <3>3, SignedFromCamera
  <2>3. <<limits[1], limits[2]>> = limits
    BY DEF ControlsInv, CameraInv
  <2>4. QED
    BY <1>6, <2>1, <2>2, <2>3 DEF Controls!GetProperty, Controls!GetPropertyLimits
<1>7. CASE Controls!GetAutoProperty
  <2>1. UNCHANGED <<mode, platform, propID, call>>
    BY <1>7 DEF Controls!GetAutoProperty, Controls!fixed, Controls!camera
  <2>2. Controls!IsAutomatic(mode)' = Controls!IsAutomatic(mode)
    BY <2>1 DEF Controls!IsAutomatic, Controls!Manual
  <2>3. Controls!DecodeAuto(mode) = Controls!IsAutomatic(mode)
    BY ModesAreTold DEF ControlsInv, CameraInv
  <2>4. QED
    BY <1>7, <2>1, <2>2, <2>3 DEF Controls!GetAutoProperty
<1>8. CASE Controls!Adjust \/ Controls!OtherProgram
  BY <1>8 DEF Controls!Adjust, Controls!OtherProgram
<1>9. CASE Controls!Over
  BY <1>3, <1>9 DEF Controls!Over, Controls!vars, Controls!fixed, Controls!camera,
         ControlsInv, Controls!SignedControlsAreRead, Controls!IsAutomatic,
         Controls!Manual
<1>10. QED
  BY <1>4, <1>5, <1>6, <1>7, <1>8, <1>9 DEF Controls!Next

LEMMA ControlsInit ==
  ASSUME Controls!Init
  PROVE  ControlsInv /\ call \in Controls!Calls
<1>1. platform \in {"Linux", "Windows", "macOS"} /\ limits \in Int \X Int
        /\ limits[1] <= limits[2]
  BY PlatformsAssumption DEF Controls!Init, Controls!CameraControlsAssumption
<1>2. Controls!Manual \in Controls!Modes
  BY <1>1 DEF Controls!Manual, Controls!Modes
<1>3. mode \in Controls!Modes
  BY <1>2 DEF Controls!Init
<1>4. QED
  BY <1>1, <1>3 DEF Controls!Init, ControlsInv, CameraInv,
     Controls!SignedControlsAreRead, Controls!ReadsWhatCameraHas, Controls!IsOk

(* A property that is read has the value, the limits and the mode that the  *)
(* camera has, on all platforms, for any limits that fit two bytes with a   *)
(* sign and whatever the camera and other programs change meanwhile (the    *)
(* casts and tables of getProperty, getPropertyLimits, getAutoProperty).    *)
THEOREM SignedAreRead == Spec => []SignedControlsAreRead
<1> DEFINE Inv == part = "controls" => ControlsInv /\ call \in Controls!Calls
<1>1. Init => Inv
  BY ControlsInit DEF Init
<1>2. Inv /\ [Next]_vars => Inv'
  <2>1. CASE part = "controls" /\ Controls!Next /\ part' = part /\ Inv
    <3>1. ControlsInv'
      BY <2>1, ControlsStep
    <3>2. call' = call
      BY <2>1 DEF Controls!Next, Controls!NoStream, Controls!NoControl,
         Controls!CameraDeclines, Controls!GetProperty, Controls!GetPropertyLimits,
         Controls!GetAutoProperty, Controls!SetProperty, Controls!SetAutoProperty,
         Controls!DSGet, Controls!DSSet, Controls!DSSetAuto,
         Controls!DSSetAutoRelative, Controls!Adjust, Controls!OtherProgram,
         Controls!Over, Controls!vars
    <3>3. Controls!Calls' = Controls!Calls
      BY DEF Controls!Calls, Controls!Nothing
    <3>4. QED
      BY <2>1, <3>1, <3>2, <3>3
  <2>2. CASE part # "controls" /\ part' = part
    BY <2>2
  <2>3. CASE UNCHANGED vars
    BY <2>3 DEF vars, controlVars, ControlsInv, CameraInv, Controls!Modes,
       Controls!SignedControlsAreRead, Controls!ReadsWhatCameraHas, Controls!IsOk,
       Controls!IsAutomatic, Controls!Manual, Controls!Calls, Controls!Nothing
  <2>4. QED
    BY <2>1, <2>2, <2>3 DEF Next
<1>3. Inv => SignedControlsAreRead
  BY DEF ControlsInv, SignedControlsAreRead
<1>4. QED
  BY <1>1, <1>2, <1>3, PTL DEF Spec

-----------------------------------------------------------------------------
(* The list of cameras.  A node leads to the camera listed with it until    *)
(* that camera is pulled out; a position, as long as no camera comes or     *)
(* goes; a path or an object, always (ListInv).                             *)

SlotsInv ==
  /\ platform \in {"Linux", "Windows", "macOS"}
  /\ slot \in [Slots -> Cameras \cup {None}]
  /\ \A m, n \in Slots : m # n /\ slot[m] # None => slot[m] # slot[n]

Leads(device, changes) ==
  /\ device.camera \in Cameras
  /\ \/ /\ device.name[1] = "node"
        /\ device.name[2] \in Slots
        /\ device.camera \notin changes => slot[device.name[2]] = device.camera
     \/ /\ device.name[1] = "index"
        /\ changes = {} =>
             /\ device.camera \in List!Present
             /\ device.name[2] = Cardinality(List!Before(device.camera))
     \/ device.name[1] \in {"path", "object"} /\ device.name[2] = device.camera

ListInv ==
  /\ SlotsInv
  /\ \A device \in m_devices : Leads(device, changed)

LEMMA SlotOfPresent ==
  ASSUME NEW c \in List!Present
  PROVE  List!SlotOf(c) \in Slots /\ slot[List!SlotOf(c)] = c
<1>1. \E n \in Slots : slot[n] = c
  BY DEF List!Present
<1>2. QED
  BY <1>1 DEF List!SlotOf

LEMMA PresentAreCameras ==
  ASSUME SlotsInv
  PROVE  List!Present \subseteq Cameras
BY DEF SlotsInv, List!Present

(* What is listed leads to its camera for the time being.                   *)
LEMMA EnumeratedLead ==
  ASSUME SlotsInv, NEW device \in List!Enumerated
  PROVE  Leads(device, List!Present \ List!Listed)
<1>1. PICK c \in List!Listed : device = [camera |-> c, name |-> List!Name(c)]
  BY DEF List!Enumerated
<1>2. c \in List!Present /\ device.camera = c /\ device.name = List!Name(c)
  BY <1>1 DEF List!Listed
<1>3. c \in Cameras
  BY <1>2, PresentAreCameras
<1>4. CASE platform = "Linux"
  <2>1. device.name = <<"node", List!SlotOf(c)>>
    BY <1>2, <1>4 DEF List!Name
  <2>2. QED
    BY <1>2, <1>3, <2>1, SlotOfPresent DEF Leads
<1>5. CASE platform = "macOS"
  BY <1>2, <1>3, <1>5 DEF List!Name, Leads
<1>6. CASE platform = "Windows" /\ c \notin Pathless
  BY <1>2, <1>3, <1>6 DEF List!Name, Leads
<1>7. CASE platform = "Windows" /\ c \in Pathless
  <2>1. device.name = <<"index", List!Cardinality(List!Before(c) \cap List!Listed)>>
    BY <1>2, <1>7 DEF List!Name
  <2>2. ASSUME List!Present \ List!Listed = {}
        PROVE  List!Before(c) \cap List!Listed = List!Before(c)
    BY <2>2 DEF List!Before
  <2>3. QED
    BY <1>2, <1>3, <2>1, <2>2, SameCardinality DEF Leads
<1>8. QED
  BY <1>4, <1>5, <1>6, <1>7 DEF SlotsInv

(* A camera that comes takes a slot that is empty, and one that goes leaves *)
(* its own: the other cameras' nodes stay as they are.                      *)
LEMMA ChangeKeepsLeads ==
  ASSUME SlotsInv, NEW c \in Cameras, List!Plug(c) \/ List!Unplug(c),
         NEW device, Leads(device, changed)
  PROVE  Leads(device, changed)'
<1>1. changed' = changed \cup {c}
  BY DEF List!Plug, List!Unplug
<1>2. CASE device.name[1] = "node"
  <2>1. SUFFICES ASSUME device.camera \notin changed, device.camera # c
                 PROVE  slot'[device.name[2]] = device.camera
    BY <1>1, <1>2 DEF Leads
  <2>2. /\ device.name[2] \in Slots /\ device.camera \in Cameras
        /\ slot[device.name[2]] = device.camera
    BY <1>2, <2>1 DEF Leads
  <2>3. CASE List!Plug(c)
    <3>1. PICK n \in Slots : slot[n] = None /\ slot' = [slot EXCEPT ![n] = c]
      BY <2>3 DEF List!Plug, List!Free
    <3>2. device.camera # None
      BY <2>2, PlatformsAssumption DEF List!DeviceListAssumption
    <3>3. QED
      BY <2>2, <3>1, <3>2 DEF SlotsInv
  <2>4. CASE List!Unplug(c)
    <3>1. slot[List!SlotOf(c)] = c /\ slot' = [slot EXCEPT ![List!SlotOf(c)] = None]
      BY <2>4, SlotOfPresent DEF List!Unplug
    <3>2. QED
      BY <2>1, <2>2, <3>1 DEF SlotsInv
  <2>5. QED
    BY <2>3, <2>4
<1>3. CASE device.name[1] # "node"
  BY <1>1, <1>3 DEF Leads
<1>4. QED
  BY <1>2, <1>3

LEMMA SlotsStep ==
  ASSUME SlotsInv, List!Next
  PROVE  SlotsInv'
<1>1. platform' = platform
  BY DEF List!Next, List!RefreshDevices, List!OpenStream, List!CloseStream,
         List!Plug, List!Unplug, List!Toggle
<1>2. CASE UNCHANGED slot
  BY <1>1, <1>2 DEF SlotsInv
<1>3. ASSUME NEW c \in Cameras, List!Plug(c)
      PROVE  SlotsInv'
  <2>1. PICK n \in List!Free : slot' = [slot EXCEPT ![n] = c]
    BY <1>3 DEF List!Plug
  <2>2. \A m \in Slots : slot[m] # c
    <3>1. c # None
      BY PlatformsAssumption DEF List!DeviceListAssumption
    <3>2. QED
      BY <1>3, <3>1 DEF List!Plug, List!Present
  <2>3. QED
    BY <1>1, <2>1, <2>2 DEF SlotsInv
<1>4. ASSUME NEW c \in Cameras, List!Unplug(c)
      PROVE  SlotsInv'
  BY <1>1, <1>4 DEF SlotsInv, List!Unplug
<1>5. QED
  BY <1>2, <1>3, <1>4 DEF List!Next, List!RefreshDevices, List!OpenStream,
                          List!CloseStream, List!Toggle

LEMMA ListStep ==
  ASSUME ListInv, List!Next
  PROVE  ListInv'
<1>1. SlotsInv /\ SlotsInv'
  BY SlotsStep DEF ListInv
<1>2. CASE List!RefreshDevices
  <2>1. /\ m_devices' = List!Enumerated /\ changed' = List!Present \ List!Listed
        /\ UNCHANGED <<platform, slot, failing>>
    BY <1>2 DEF List!RefreshDevices
  <2>2. List!Present' = List!Present /\ List!Listed' = List!Listed
    BY <2>1 DEF List!Present, List!Listed
  <2>3. List!Enumerated' = List!Enumerated
    BY <2>1, <2>2 DEF List!Enumerated, List!Name, List!Before, List!SlotOf
  <2>4. \A device \in List!Enumerated : Leads(device, changed')
    BY <1>1, <2>1, EnumeratedLead
  <2>5. \A c : List!Before(c)' = List!Before(c)
    BY <2>1, <2>2 DEF List!Before, List!SlotOf
  <2>6. \A device \in m_devices' : Leads(device, changed)'
    BY <2>1, <2>2, <2>4, <2>5 DEF Leads
  <2>7. QED
    BY <1>1, <2>6 DEF ListInv
<1>3. ASSUME NEW c \in Cameras, List!Plug(c) \/ List!Unplug(c)
      PROVE  ListInv'
  <2>1. m_devices' = m_devices
    BY <1>3 DEF List!Plug, List!Unplug
  <2>2. QED
    BY <1>1, <1>3, <2>1, ChangeKeepsLeads DEF ListInv
<1>4. CASE UNCHANGED <<slot, m_devices, changed>>
  <2>1. List!Present' = List!Present /\ \A c : List!Before(c)' = List!Before(c)
    BY <1>4 DEF List!Present, List!Before, List!SlotOf
  <2>2. QED
    BY <1>1, <1>4, <2>1 DEF ListInv, Leads
<1>5. QED
  BY <1>2, <1>3, <1>4 DEF List!Next, List!OpenStream, List!CloseStream, List!Toggle

(* No two cameras are in the same position.                                 *)
LEMMA EarlierIsLess ==
  ASSUME SlotsInv, NEW c \in List!Present, NEW d \in List!Present,
         List!SlotOf(c) < List!SlotOf(d)
  PROVE  Cardinality(List!Before(c)) # Cardinality(List!Before(d))
<1>1. \A e \in List!Present : List!SlotOf(e) \in Nat
  BY SlotOfPresent, PlatformsAssumption DEF List!DeviceListAssumption
<1>2. /\ List!Before(c) \subseteq List!Before(d)
      /\ c \in List!Before(d) /\ c \notin List!Before(c)
  BY <1>1 DEF List!Before
<1>3. IsFiniteSet(List!Before(d))
  <2>1. IsFiniteSet(Cameras)
    BY PlatformsAssumption, SameCardinality DEF List!DeviceListAssumption
  <2>2. List!Before(d) \subseteq Cameras
    BY PresentAreCameras DEF List!Before
  <2>3. QED
    BY <2>1, <2>2, FS_Subset
<1>4. QED
  BY <1>2, <1>3, FS_Subset

LEMMA PositionsDiffer ==
  ASSUME SlotsInv, NEW c \in List!Present, NEW d \in List!Present,
         Cardinality(List!Before(c)) = Cardinality(List!Before(d))
  PROVE  c = d
<1>1. List!SlotOf(c) \in Nat /\ List!SlotOf(d) \in Nat
  BY SlotOfPresent, PlatformsAssumption DEF List!DeviceListAssumption
<1>2. List!SlotOf(c) = List!SlotOf(d)
  BY <1>1, EarlierIsLess
<1>3. QED
  BY <1>2, SlotOfPresent

(* What a name finds, as long as nothing has happened to it.                *)
LEMMA LeadsToItsCamera ==
  ASSUME SlotsInv, NEW device, Leads(device, changed),
         List!Find(device.name) \notin {device.camera, None}
  PROVE  \/ device.name[1] = "node" /\ device.camera \in changed
         \/ device.name[1] = "index" /\ changed # {}
<1>1. CASE device.name[1] = "node"
  BY <1>1 DEF Leads, List!Find
<1>2. CASE device.name[1] \in {"path", "object"}
  BY <1>2 DEF Leads, List!Find
<1>3. CASE device.name[1] = "index"
  <2>1. SUFFICES ASSUME changed = {}
                 PROVE  FALSE
    BY <1>3
  <2>2. PICK found : found = List!Find(device.name)
    OBVIOUS
  <2>3. found \in List!Present /\ device.name[2] = Cardinality(List!Before(found))
    BY <1>3, <2>2, SameCardinality DEF List!Find
  <2>4. /\ device.camera \in List!Present
        /\ device.name[2] = Cardinality(List!Before(device.camera))
    BY <1>3, <2>1 DEF Leads
  <2>5. QED
    BY <2>2, <2>3, <2>4, PositionsDiffer
<1>4. QED
  BY <1>1, <1>2, <1>3 DEF Leads

(* Between two refreshes an index leads to another camera than the one      *)
(* listed under it only after the node's camera was pulled out (Linux), or  *)
(* where some camera came, went or was left out (Windows, without a path),  *)
(* for any number of cameras, slots and cameras without a path, and         *)
(* whatever other programs do (enumerateDevices, FindCaptureDevice).        *)
THEOREM WrongCamerasHaveCauses == Spec => []WrongCameraHasACause
<1> DEFINE Inv == part = "list" => ListInv
<1>1. Init => Inv
  <2>1. SUFFICES ASSUME List!Init
                 PROVE  ListInv
    BY DEF Init
  <2>2. SlotsInv
    BY <2>1, PlatformsAssumption DEF List!Init, SlotsInv, List!DeviceListAssumption
  <2>3. QED
    BY <2>1, <2>2, EnumeratedLead DEF List!Init, ListInv
<1>2. Inv /\ [Next]_vars => Inv'
  <2>1. CASE part = "list" /\ List!Next /\ part' = part
    BY <2>1, ListStep
  <2>2. CASE part # "list" /\ part' = part
    BY <2>2
  <2>3. CASE UNCHANGED <<part, platform, listVars>>
    <3>1. List!Present' = List!Present /\ \A c : List!Before(c)' = List!Before(c)
      BY <2>3 DEF listVars, List!Present, List!Before, List!SlotOf
    <3>2. QED
      BY <2>3, <3>1 DEF listVars, ListInv, SlotsInv, Leads
  <2>4. QED
    BY <2>1, <2>2, <2>3 DEF Next, vars
<1>3. Inv => WrongCameraHasACause
  BY LeadsToItsCamera DEF ListInv, WrongCameraHasACause, List!WrongCameraHasACause
<1>4. QED
  BY <1>1, <1>2, <1>3, PTL DEF Spec

-----------------------------------------------------------------------------
(* The conversion of a frame.  The pixels written so far are those before   *)
(* the next one, and each is what it has to be (ConversionInv): a step adds *)
(* the next pixel, or two, and changes no other.  What is left is division: *)
(* the place of a sample gives back the row and column it was computed      *)
(* from.                                                                    *)

LEMMA Products ==
  ASSUME NEW a \in Int, NEW b \in Int, NEW d \in Nat, a <= b
  PROVE  a * d <= b * d /\ a * d \in Int /\ b * d \in Int
OBVIOUS

(* Quotient and remainder are determined. *)
LEMMA Quotients ==
  ASSUME NEW d \in Nat \ {0}, NEW q \in Int, NEW r \in 0..d - 1, NEW n \in Int,
         n = q * d + r
  PROVE  n \div d = q /\ n % d = r
<1> DEFINE q2 == n \div d
           r2 == n % d
<1>1. q2 \in Int /\ r2 \in 0..d - 1 /\ n = d * q2 + r2
  OBVIOUS
<1> HIDE DEF q2, r2
<1>2. q2 * d = d * q2
  BY <1>1
<1>3. ~(q2 < q)
  <2>1. SUFFICES ASSUME q2 + 1 <= q PROVE FALSE
    BY <1>1
  <2>2. (q2 + 1) * d <= q * d
    BY <1>1, <2>1, Products
  <2>3. (q2 + 1) * d = q2 * d + d
    BY <1>1
  <2>4. QED
    BY <1>1, <1>2, <2>2, <2>3
<1>4. ~(q < q2)
  <2>1. SUFFICES ASSUME q + 1 <= q2 PROVE FALSE
    BY <1>1
  <2>2. (q + 1) * d <= q2 * d
    BY <1>1, <2>1, Products
  <2>3. (q + 1) * d = q * d + d
    OBVIOUS
  <2>4. QED
    BY <1>1, <1>2, <2>2, <2>3
<1>5. q2 = q
  BY <1>1, <1>3, <1>4
<1>6. r2 = r
  BY <1>1, <1>2, <1>5
<1>7. QED
  BY <1>5, <1>6 DEF q2, r2

LEMMA Euclid ==
  ASSUME NEW d \in Nat \ {0}, NEW n \in Nat
  PROVE  \E q \in Nat, r \in 0..d - 1 : n = q * d + r
<1>1. PICK q \in Int, r \in 0..d - 1 : q = n \div d /\ r = n % d /\ n = q * d + r
  OBVIOUS
<1>2. ~(q <= -1)
  <2>1. SUFFICES ASSUME q <= -1 PROVE FALSE
    OBVIOUS
  <2>2. q * d <= (-1) * d
    BY <2>1, Products
  <2>3. (-1) * d = -d
    OBVIOUS
  <2>4. QED
    BY <1>1, <2>2, <2>3
<1>3. q \in Nat
  BY <1>2
<1>4. QED
  BY <1>1, <1>3

(* The colours: no intermediate result overflows the int16_t it is kept in, *)
(* and the coefficients in sixteenths are near the perfect ones.            *)
LEMMA Int16Fits ==
  ASSUME NEW n \in Int, -32768 <= n, n <= 32767
  PROVE  Conversion!Int16(n) = n
<1>1. 2^15 = 32768 /\ 2^16 = 65536
  BY SMT
<1>2. (n + 32768) % 65536 = n + 32768
  BY SMT
<1>3. QED
  BY SMT, <1>1, <1>2 DEF Conversion!Int16

(* A channel is near a colour in thousandths, cut to a byte's range, if the *)
(* sixteenths it is computed from are near wherever they are not cut.       *)
LEMMA ChannelNear ==
  ASSUME NEW n \in Int, -32768 <= n, n <= 32767, NEW p \in Int,
         1000 * n <= 16 * p + 128000 \/ p >= 247000 \/ n < 144,
         16 * p <= 1000 * n + 113000 \/ n >= 4080 \/ p <= 8000
  PROVE  Conversion!Near(1000 * Conversion!Channel(n),
                         IF p > 255000 THEN 255000 ELSE IF p < 0 THEN 0 ELSE p)
<1>1. PICK q \in Int : q = n \div 16
  BY SMT
<1>2. 16 * q <= n /\ n < 16 * q + 16
  BY SMT, <1>1
<1>3. -32768 <= q /\ q <= 32767
  BY SMT, <1>2
<1>4. Conversion!Int16(q) = q
  BY <1>3, Int16Fits
<1>5. Conversion!Channel(n) = IF q > 255 THEN 255 ELSE IF q < 0 THEN 0 ELSE q
  BY SMT, <1>1, <1>4 DEF Conversion!Channel, Conversion!Clamp
<1>6. PICK c \in Int : /\ c = Conversion!Channel(n)
                       /\ c = IF q > 255 THEN 255 ELSE IF q < 0 THEN 0 ELSE q
  BY SMT, <1>5
<1>7. QED
  BY SMT, <1>2, <1>6 DEF Conversion!Near

LEMMA NearColours ==
  ASSUME y \in 0..255, u \in 0..255, v \in 0..255
  PROVE  \A k \in 1..3 :
           Conversion!Near(1000 * Conversion!PlanarColour[k], Conversion!Perfect[k])
<1>1. PICK a \in Int, b \in Int, c \in Int :
         /\ a = y - 16 /\ b = u - 128 /\ c = v - 128
         /\ -16 <= a /\ a <= 239 /\ -128 <= b /\ b <= 127 /\ -128 <= c /\ c <= 127
  BY SMT
<1>2. Conversion!Luma = 19 * a
  BY SMT, <1>1, Int16Fits DEF Conversion!Luma
<1>3. Conversion!Near(1000 * Conversion!PlanarColour[1], Conversion!Perfect[1])
  <2>1. PICK n \in Int, p \in Int : n = 19 * a + 26 * c /\ p = 1164 * a + 1596 * c
    BY SMT, <1>1
  <2>2. -32768 <= n /\ n <= 32767
    BY SMT, <1>1, <2>1
  <2>3. 1000 * n <= 16 * p + 128000 \/ p >= 247000 \/ n < 144
    BY SMT, <1>1, <2>1
  <2>4. 16 * p <= 1000 * n + 113000 \/ n >= 4080 \/ p <= 8000
    BY SMT, <1>1, <2>1
  <2>5. Conversion!PlanarColour[1] = Conversion!Channel(n)
    BY SMT, <1>1, <1>2, <2>1 DEF Conversion!PlanarColour
  <2>6. Conversion!Perfect[1] = IF p > 255000 THEN 255000 ELSE IF p < 0 THEN 0 ELSE p
    BY SMT, <1>1, <2>1 DEF Conversion!Perfect
  <2>7. QED
    BY SMT, <2>2, <2>3, <2>4, <2>5, <2>6, ChannelNear
<1>4. Conversion!Near(1000 * Conversion!PlanarColour[2], Conversion!Perfect[2])
  <2>1. PICK n \in Int, p \in Int : /\ n = 19 * a - 13 * c - 6 * b
                                    /\ p = 1164 * a - 813 * c - 391 * b
    BY SMT, <1>1
  <2>2. -32768 <= n /\ n <= 32767
    BY SMT, <1>1, <2>1
  <2>3. 1000 * n <= 16 * p + 128000 \/ p >= 247000 \/ n < 144
    BY SMT, <1>1, <2>1
  <2>4. 16 * p <= 1000 * n + 113000 \/ n >= 4080 \/ p <= 8000
    BY SMT, <1>1, <2>1
  <2>5. Conversion!PlanarColour[2] = Conversion!Channel(n)
    BY SMT, <1>1, <1>2, <2>1 DEF Conversion!PlanarColour
  <2>6. Conversion!Perfect[2] = IF p > 255000 THEN 255000 ELSE IF p < 0 THEN 0 ELSE p
    BY SMT, <1>1, <2>1 DEF Conversion!Perfect
  <2>7. QED
    BY SMT, <2>2, <2>3, <2>4, <2>5, <2>6, ChannelNear
<1>5. Conversion!Near(1000 * Conversion!PlanarColour[3], Conversion!Perfect[3])
  <2>1. PICK n \in Int, p \in Int : n = 19 * a + 32 * b /\ p = 1164 * a + 2018 * b
    BY SMT, <1>1
  <2>2. -32768 <= n /\ n <= 32767
    BY SMT, <1>1, <2>1
  <2>3. 1000 * n <= 16 * p + 128000 \/ p >= 247000 \/ n < 144
    BY SMT, <1>1, <2>1
  <2>4. 16 * p <= 1000 * n + 113000 \/ n >= 4080 \/ p <= 8000
    BY SMT, <1>1, <2>1
  <2>5. Conversion!PlanarColour[3] = Conversion!Channel(n)
    BY SMT, <1>1, <1>2, <2>1 DEF Conversion!PlanarColour
  <2>6. Conversion!Perfect[3] = IF p > 255000 THEN 255000 ELSE IF p < 0 THEN 0 ELSE p
    BY SMT, <1>1, <2>1 DEF Conversion!Perfect
  <2>7. QED
    BY SMT, <2>2, <2>3, <2>4, <2>5, <2>6, ChannelNear
<1>6. QED
  BY SMT, <1>3, <1>4, <1>5

FrameTypes ==
  /\ format \in {"YUYV", "NV12", "YU12"}
  /\ \E w \in Nat \ {0} : width = 2 * w
  /\ \E h \in Nat \ {0} : height = 2 * h
  /\ y \in 0..255 /\ u \in 0..255 /\ v \in 0..255

(* What ConvertsEveryPixel asks of one pixel. *)
RightPixel(pixel, p) ==
  /\ \A k \in 1..3 : /\ pixel.from[k] < Conversion!FrameBytes
                     /\ Conversion!Sample(pixel.from[k]) = Conversion!Due(p)[k]
  /\ format # "YUYV" =>
       \A k \in 1..3 : Conversion!Near(1000 * pixel.colour[k], Conversion!Perfect[k])

(* How many pixels have been written. *)
Written ==
  IF format = "YUYV" THEN (2 * width * height - bytes) \div 2 ELSE row * width + col

ConversionInv ==
  /\ FrameTypes
  /\ IF format = "YUYV"
       THEN bytes \in Nat /\ \E k \in Nat : 2 * width * height - bytes = 4 * k
       ELSE /\ row \in 0..height /\ col \in 0..width - 1
            /\ row = height => col = 0
  /\ DOMAIN rgb = 0..Written - 1
  /\ \A p \in DOMAIN rgb : RightPixel(rgb[p], p)

(* The picture with its next pixel. *)
LEMMA WithPixel ==
  ASSUME NEW picture, NEW n \in Nat, DOMAIN picture = 0..n - 1, NEW pixel,
         \A p \in DOMAIN picture : RightPixel(picture[p], p),
         RightPixel(pixel, n)
  PROVE  /\ DOMAIN Conversion!With(picture, n, pixel) = 0..n
         /\ \A p \in DOMAIN Conversion!With(picture, n, pixel) :
              RightPixel(Conversion!With(picture, n, pixel)[p], p)
<1>1. (0..n - 1) \cup {n} = 0..n
  OBVIOUS
<1>2. QED
  BY <1>1 DEF Conversion!With

(* A pixel of a planar frame, by its row and column. *)
LEMMA PlanarPixel ==
  ASSUME FrameTypes, NEW r \in 0..height - 1, NEW c \in 0..width - 1
  PROVE  LET size == width * height
             nv   == size + (r \div 2) * width + (c \div 2) * 2
             yu   == (r \div 2) * (width \div 2) + c \div 2
             p    == r * width + c
             Made(from) == [from |-> from, colour |-> Conversion!PlanarColour]
         IN  /\ format = "NV12" => RightPixel(Made(<<p, nv, nv + 1>>), p)
             /\ format = "YU12" =>
                  RightPixel(Made(<<p, size + yu, size + size \div 4 + yu>>), p)
<1>1. PICK w \in Nat \ {0} : width = 2 * w
  BY DEF FrameTypes
<1>2. PICK h \in Nat \ {0} : height = 2 * h
  BY DEF FrameTypes
<1>3. PICK s \in Nat : s = r \div 2 /\ s < h
  BY <1>2
<1>4. PICK d \in Nat : d = c \div 2 /\ d < w
  BY <1>1
<1>5. PICK size \in Nat : size = width * height
  BY <1>1, <1>2
<1>6. PICK area \in Nat : area = w * h
  OBVIOUS
<1>7. PICK before \in Nat : before = s * w
  OBVIOUS
<1>8. PICK p \in Nat : p = r * width + c
  BY <1>1
<1>9. /\ size = 4 * area /\ size \div 4 = area /\ size \div 2 = 2 * area
      /\ width \div 2 = w /\ width \in Nat \ {0} /\ s * width = 2 * before
  BY <1>1, <1>2, <1>5, <1>6, <1>7
<1>10. before + w <= area
  <2>1. (s + 1) * w <= h * w
    BY <1>3, Products
  <2>2. (s + 1) * w = before + w /\ h * w = area
    BY <1>6, <1>7
  <2>3. QED
    BY <2>1, <2>2
<1>11. p < size
  <2>1. (r + 1) * width <= height * width
    BY <1>1, <1>2, Products
  <2>2. (r + 1) * width = r * width + width /\ height * width = size
    BY <1>1, <1>2, <1>5
  <2>3. r * width \in Nat
    BY <1>1
  <2>4. QED
    BY <1>1, <1>5, <1>8, <2>1, <2>2, <2>3
<1>12. p \div width = r /\ p % width = c
  <2>1. r \in Int /\ c \in 0..width - 1 /\ p \in Int /\ p = r * width + c
    BY <1>8
  <2>2. QED
    BY <1>9, <2>1, Quotients
<1>13. format # "YUYV" => Conversion!FrameBytes = size + 2 * area
  BY <1>5, <1>9 DEF Conversion!FrameBytes
<1>14. format # "YUYV" =>
         Conversion!Sample(p) = <<"Y", r, c>> /\ p < Conversion!FrameBytes
  <2>1. ASSUME format # "YUYV" PROVE Conversion!Sample(p) = <<"Y", r, c>>
    BY <1>5, <1>11, <1>12, <2>1 DEF Conversion!Sample, FrameTypes
  <2>2. ASSUME format # "YUYV" PROVE p < Conversion!FrameBytes
    BY <1>11, <1>13, <2>2
  <2>3. QED
    BY <2>1, <2>2
<1>15. format # "YUYV" =>
         Conversion!Due(p) = <<<<"Y", r, c>>, <<"U", s, d>>, <<"V", s, d>>>>
  BY <1>3, <1>4, <1>12 DEF Conversion!Due
<1>16. \A k \in 1..3 :
         Conversion!Near(1000 * Conversion!PlanarColour[k], Conversion!Perfect[k])
  BY NearColours DEF FrameTypes
<1>17. ASSUME NEW from, format # "YUYV", from[1] = p,
              from[2] < Conversion!FrameBytes, from[3] < Conversion!FrameBytes,
              Conversion!Sample(from[2]) = <<"U", s, d>>,
              Conversion!Sample(from[3]) = <<"V", s, d>>
       PROVE  RightPixel([from |-> from, colour |-> Conversion!PlanarColour], p)
  <2>1. \A k \in 1..3 : /\ from[k] < Conversion!FrameBytes
                        /\ Conversion!Sample(from[k]) = Conversion!Due(p)[k]
    BY <1>14, <1>15, <1>17
  <2>2. QED
    BY <1>16, <2>1 DEF RightPixel
<1>18. CASE format = "NV12"
  <2>1. PICK i \in Nat : i = size + s * width + d * 2
    BY <1>9
  <2>2. /\ (i - size) \div width = s /\ (i - size) % width = 2 * d
        /\ (i + 1 - size) \div width = s /\ (i + 1 - size) % width = 2 * d + 1
    <3>1. PICK x \in 0..width - 1 : x = 2 * d
      BY <1>1, <1>4
    <3>2. PICK x1 \in 0..width - 1 : x1 = 2 * d + 1
      BY <1>1, <1>4
    <3>3. PICK n \in Int : n = i - size
      OBVIOUS
    <3>4. PICK n1 \in Int : n1 = i + 1 - size
      OBVIOUS
    <3>5. n = s * width + x /\ n1 = s * width + x1 /\ width \in Nat \ {0}
      BY <1>9, <2>1, <3>1, <3>2, <3>3, <3>4
    <3>6. n \div width = s /\ n % width = x
      BY <3>5, Quotients
    <3>7. n1 \div width = s /\ n1 % width = x1
      BY <3>5, Quotients
    <3>8. (i - size) \div width = s /\ (i - size) % width = 2 * d
      BY <3>1, <3>3, <3>6
    <3>9. (i + 1 - size) \div width = s /\ (i + 1 - size) % width = 2 * d + 1
      BY <3>2, <3>4, <3>7
    <3>10. QED
      BY <3>8, <3>9
  <2>3. (i - size) % 2 = 0 /\ (i + 1 - size) % 2 = 1 /\ i >= size
    BY <1>9, <2>1
  <2>4. (2 * d) \div 2 = d /\ (2 * d + 1) \div 2 = d
    OBVIOUS
  <2>5. i < Conversion!FrameBytes /\ i + 1 < Conversion!FrameBytes
    BY <1>1, <1>4, <1>9, <1>10, <1>13, <1>18, <2>1
  <2>6. Conversion!Sample(i) = <<"U", s, d>>
    BY <1>5, <1>18, <2>2, <2>3, <2>4 DEF Conversion!Sample
  <2>7. Conversion!Sample(i + 1) = <<"V", s, d>>
    BY <1>5, <1>18, <2>2, <2>3, <2>4 DEF Conversion!Sample
  <2>8. RightPixel([from |-> <<p, i, i + 1>>, colour |-> Conversion!PlanarColour], p)
    BY <1>17, <1>18, <2>5, <2>6, <2>7
  <2>9. QED
    BY <1>3, <1>4, <1>5, <1>8, <1>18, <2>1, <2>8
<1>19. CASE format = "YU12"
  <2>1. PICK j \in Nat : j = s * w + d
    BY <1>7
  <2>2. j \div w = s /\ j % w = d
    <3>1. d \in 0..w - 1
      BY <1>4
    <3>2. QED
      BY <2>1, <3>1, Quotients
  <2>3. PICK i \in Nat : i = size + j
    OBVIOUS
  <2>4. PICK k \in Nat : k = size + area + j
    OBVIOUS
  <2>5. j < area
    BY <1>4, <1>7, <1>10, <2>1
  <2>6. i < Conversion!FrameBytes /\ k < Conversion!FrameBytes
    BY <1>13, <1>19, <2>3, <2>4, <2>5
  <2>7. Conversion!Sample(i) = Conversion!Chroma(i, size, "U")
    BY <1>5, <1>9, <1>19, <2>3, <2>5 DEF Conversion!Sample
  <2>8. Conversion!Sample(k) = Conversion!Chroma(k, size + area, "V")
    BY <1>5, <1>9, <1>19, <2>4, <2>5 DEF Conversion!Sample
  <2>9. i - size = j /\ k - (size + area) = j
    BY <2>3, <2>4
  <2>10. Conversion!Sample(i) = <<"U", s, d>> /\ Conversion!Sample(k) = <<"V", s, d>>
    BY <1>9, <2>2, <2>7, <2>8, <2>9 DEF Conversion!Chroma
  <2>11. RightPixel([from |-> <<p, i, k>>, colour |-> Conversion!PlanarColour], p)
    BY <1>17, <1>19, <2>6, <2>10
  <2>12. QED
    BY <1>3, <1>4, <1>5, <1>8, <1>9, <1>19, <2>1, <2>3, <2>4, <2>11
<1>20. CASE format = "YUYV"
  BY <1>20
<1>21. QED
  BY <1>18, <1>19, <1>20 DEF FrameTypes

(* The two pixels that four bytes of a YUYV frame make. *)
LEMMA YuyvPixels ==
  ASSUME FrameTypes, format = "YUYV", NEW k \in Nat,
         4 * k + 3 < Conversion!FrameBytes, Conversion!FrameBytes \in Nat
  PROVE  LET Made(luma) == [from |-> <<luma, 4 * k + 1, 4 * k + 3>>,
                            colour |-> Conversion!YuyvColour]
         IN  RightPixel(Made(4 * k), 2 * k) /\ RightPixel(Made(4 * k + 2), 2 * k + 1)
<1>1. PICK w \in Nat \ {0} : width = 2 * w
  BY DEF FrameTypes
<1>2. PICK W \in Nat \ {0} : W = 2 * width /\ W = 4 * w
  BY <1>1
<1>3. PICK r \in Nat, e \in 0..w - 1 : k = r * w + e
  BY Euclid
<1>4. e \in Nat /\ e < w
  BY <1>3
<1>5. PICK i \in Nat : i = 4 * k
  OBVIOUS
<1>6. PICK z \in Nat : z = r * W /\ i = z + 4 * e
  <2>1. PICK x \in Nat : x = r * w
    OBVIOUS
  <2>2. r * W = 4 * x
    BY <1>2, <2>1
  <2>3. QED
    BY <1>3, <1>5, <2>1, <2>2
<1>7. \A m \in 0..3 : (i + m) \div W = r /\ (i + m) % W = 4 * e + m
  <2>1. ASSUME NEW m \in 0..3
        PROVE  (i + m) \div W = r /\ (i + m) % W = 4 * e + m
    <3>1. PICK n \in Nat : n = 4 * e + m
      OBVIOUS
    <3>2. n \in 0..W - 1
      BY <1>2, <3>1
    <3>3. i + m \in Int /\ i + m = r * W + n
      BY <1>6, <3>1
    <3>4. (i + m) \div W = r /\ (i + m) % W = n
      BY <3>2, <3>3, Quotients
    <3>5. QED
      BY <3>1, <3>4
  <2>2. QED
    BY <2>1
<1>8. /\ i % 2 = 0 /\ (i + 2) % 2 = 0 /\ (i + 1) % 2 = 1 /\ (i + 3) % 2 = 1
      /\ (i + 1) % 4 = 1 /\ (i + 3) % 4 = 3
  BY <1>5
<1>9. /\ (4 * e) \div 2 = 2 * e /\ (4 * e + 2) \div 2 = 2 * e + 1
      /\ (4 * e + 1) \div 4 = e /\ (4 * e + 3) \div 4 = e
  OBVIOUS
<1>10. Conversion!Sample(i) = <<"Y", r, 2 * e>>
  <2>1. i \div W = r /\ i % W = 4 * e
    BY <1>7
  <2>2. QED
    BY <1>2, <1>8, <1>9, <2>1 DEF Conversion!Sample
<1>11. Conversion!Sample(i + 1) = <<"U", r, e>>
  <2>1. (i + 1) \div W = r /\ (i + 1) % W = 4 * e + 1
    BY <1>7
  <2>2. QED
    BY <1>2, <1>8, <1>9, <2>1 DEF Conversion!Sample
<1>12. Conversion!Sample(i + 2) = <<"Y", r, 2 * e + 1>>
  <2>1. PICK n \in Nat, c \in Nat : n = i + 2 /\ c = 4 * e + 2
    OBVIOUS
  <2>2. n \div W = r /\ n % W = c
    BY <1>7, <2>1
  <2>3. n % 2 = 0 /\ c \div 2 = 2 * e + 1
    BY <1>8, <1>9, <2>1
  <2>4. Conversion!Sample(n) = <<"Y", r, 2 * e + 1>>
    BY <1>2, <2>2, <2>3 DEF Conversion!Sample
  <2>5. QED
    BY <2>1, <2>4
<1>13. Conversion!Sample(i + 3) = <<"V", r, e>>
  <2>1. (i + 3) \div W = r /\ (i + 3) % W = 4 * e + 3
    BY <1>7
  <2>2. QED
    BY <1>2, <1>8, <1>9, <2>1 DEF Conversion!Sample
<1>14. ASSUME NEW b \in 0..1
       PROVE  Conversion!Due(2 * k + b) =
                <<<<"Y", r, 2 * e + b>>, <<"U", r, e>>, <<"V", r, e>>>>
  <2>1. PICK p \in Nat, c \in Nat : p = 2 * k + b /\ c = 2 * e + b
    OBVIOUS
  <2>2. /\ width \in Nat \ {0} /\ c \in 0..width - 1
        /\ p = r * width + c /\ c \div 2 = e
    BY <1>1, <1>3, <1>4, <2>1
  <2>3. p \div width = r /\ p % width = c
    BY <2>2, Quotients
  <2>4. Conversion!Due(p) = <<<<"Y", r, c>>, <<"U", r, e>>, <<"V", r, e>>>>
    BY <2>2, <2>3 DEF Conversion!Due
  <2>5. QED
    BY <2>1, <2>4
<1>15. /\ i < Conversion!FrameBytes /\ i + 1 < Conversion!FrameBytes
       /\ i + 2 < Conversion!FrameBytes /\ i + 3 < Conversion!FrameBytes
  BY <1>5
<1>16. RightPixel([from |-> <<i, i + 1, i + 3>>, colour |-> Conversion!YuyvColour], 2 * k)
  <2>1. Conversion!Due(2 * k) = <<<<"Y", r, 2 * e>>, <<"U", r, e>>, <<"V", r, e>>>>
    BY <1>14
  <2>2. QED
    BY <1>10, <1>11, <1>13, <1>15, <2>1 DEF RightPixel
<1>17. RightPixel([from |-> <<i + 2, i + 1, i + 3>>, colour |-> Conversion!YuyvColour],
                  2 * k + 1)
  <2>1. Conversion!Due(2 * k + 1) =
          <<<<"Y", r, 2 * e + 1>>, <<"U", r, e>>, <<"V", r, e>>>>
    BY <1>14
  <2>2. QED
    BY <1>11, <1>12, <1>13, <1>15, <2>1 DEF RightPixel
<1>18. QED
  BY <1>5, <1>16, <1>17

LEMMA ConversionInit ==
  ASSUME Conversion!Init
  PROVE  ConversionInv
<1>1. FrameTypes
  <2>1. width \in Widths /\ height \in Heights
    BY DEF Conversion!Init
  <2>2. ASSUME NEW n \in Widths \cup Heights
        PROVE  \E m \in Nat \ {0} : n = 2 * m
    <3>1. n \in Nat \ {0} /\ n % 2 = 0
      BY PlatformsAssumption DEF Conversion!ConvertersAssumption
    <3>2. PICK q \in Nat : n = q * 2
      BY <3>1, Euclid
    <3>3. q # 0 /\ n = 2 * q
      BY <3>1, <3>2
    <3>4. QED
      BY <3>2, <3>3
  <2>3. y \in 0..255 /\ u \in 0..255 /\ v \in 0..255
    BY PlatformsAssumption DEF Conversion!Init, Conversion!ConvertersAssumption
  <2>4. format \in {"YUYV", "NV12", "YU12"}
    BY DEF Conversion!Init
  <2>5. QED
    BY <2>1, <2>2, <2>3, <2>4 DEF FrameTypes
<1>2. PICK size \in Nat : size = 2 * width * height
  BY <1>1 DEF FrameTypes
<1>3. row = 0 /\ col = 0 /\ bytes = size /\ DOMAIN rgb = {}
  BY <1>2 DEF Conversion!Init
<1>4. width \in Nat \ {0} /\ height \in Nat \ {0}
  BY <1>1 DEF FrameTypes
<1>5. Written = 0
  BY <1>2, <1>3, <1>4 DEF Written
<1>6. QED
  BY <1>1, <1>2, <1>3, <1>4, <1>5 DEF ConversionInv

(* How far the planar loops are. *)
LEMMA PlanarProgress ==
  ASSUME FrameTypes, NEW r \in 0..height - 1, NEW c \in 0..width - 1
  PROVE  /\ r * width + c \in Nat
         /\ (r + 1) * width = r * width + width
         /\ r * width + c < width * height
<1>1. width \in Nat \ {0} /\ height \in Nat \ {0}
  BY DEF FrameTypes
<1>2. (r + 1) * width <= height * width
  BY <1>1, Products
<1>3. (r + 1) * width = r * width + width /\ height * width = width * height
  BY <1>1
<1>4. r * width \in Nat
  BY <1>1
<1>5. QED
  BY <1>1, <1>2, <1>3, <1>4

(* Before the loop has come to the end, its row and column are in the frame. *)
LEMMA NextPixel ==
  ASSUME ConversionInv, format # "YUYV", row < height
  PROVE  /\ FrameTypes /\ row \in 0..height - 1 /\ col \in 0..width - 1
         /\ width \in Nat \ {0} /\ height \in Nat \ {0}
<1>1. FrameTypes /\ row \in 0..height /\ col \in 0..width - 1
  BY DEF ConversionInv
<1>2. width \in Nat \ {0} /\ height \in Nat \ {0}
  BY <1>1 DEF FrameTypes
<1>3. QED
  BY <1>1, <1>2

(* What a pixel has to be depends on the frame only. *)
LEMMA RightStays ==
  ASSUME UNCHANGED <<format, width, height, y, u, v>>,
         NEW p, NEW pixel, pixel = rgb'[p], RightPixel(pixel, p)
  PROVE  RightPixel(rgb[p], p)'
<1>1. Conversion!FrameBytes' = Conversion!FrameBytes
  BY DEF Conversion!FrameBytes
<1>2. \A i, start, name :
        Conversion!Chroma(i, start, name)' = Conversion!Chroma(i, start, name)
  BY DEF Conversion!Chroma
<1>3. \A i : Conversion!Sample(i)' = Conversion!Sample(i)
  BY <1>2 DEF Conversion!Sample
<1>4. Conversion!Due(p)' = Conversion!Due(p)
  BY DEF Conversion!Due
<1>5. Conversion!Perfect' = Conversion!Perfect
  BY SMT DEF Conversion!Perfect
<1>6. QED
  BY <1>1, <1>3, <1>4, <1>5 DEF RightPixel, Conversion!Near

LEMMA PixelStep ==
  ASSUME ConversionInv, format # "YUYV", NEW from, Conversion!Pixel(from),
         RightPixel([from |-> from, colour |-> Conversion!PlanarColour],
                    row * width + col)
  PROVE  ConversionInv'
<1>1. /\ FrameTypes /\ row \in 0..height - 1 /\ col \in 0..width - 1
      /\ width \in Nat \ {0} /\ height \in Nat \ {0}
      /\ UNCHANGED <<format, width, height, y, u, v, bytes>>
  BY NextPixel DEF Conversion!Pixel, Conversion!frame
<1>2. PICK p \in Nat : p = row * width + col
  BY <1>1, PlanarProgress
<1>3. DOMAIN rgb = 0..p - 1
  BY <1>2 DEF ConversionInv, Written
<1>4. rgb' = Conversion!With(rgb, p, [from |-> from, colour |-> Conversion!PlanarColour])
  BY <1>2 DEF Conversion!Pixel
<1>5. DOMAIN rgb' = 0..p /\ \A q \in DOMAIN rgb' : RightPixel(rgb'[q], q)
  BY <1>2, <1>3, <1>4, WithPixel DEF ConversionInv
<1>6. \A q \in DOMAIN rgb' : RightPixel(rgb[q], q)'
  BY <1>1, <1>5, RightStays
<1>7. FrameTypes'
  BY <1>1 DEF FrameTypes
<1>8. /\ row' \in 0..height /\ col' \in 0..width - 1 /\ (row' = height => col' = 0)
      /\ row' * width + col' = p + 1
  <2>1. CASE col + 1 < width
    <3>1. row' = row /\ col' = col + 1
      BY <2>1 DEF Conversion!Pixel
    <3>2. row * width \in Int
      BY <1>1
    <3>3. QED
      BY <1>1, <1>2, <2>1, <3>1, <3>2
  <2>2. CASE ~(col + 1 < width)
    <3>1. row' = row + 1 /\ col' = 0
      BY <2>2 DEF Conversion!Pixel
    <3>2. width \in Nat \ {0} /\ col + 1 = width
      BY <1>1, <2>2
    <3>3. row * width \in Int /\ (row + 1) * width = row * width + width
      BY <1>1, <3>2, PlanarProgress
    <3>4. row' * width + col' = p + 1
      BY <1>1, <1>2, <3>1, <3>2, <3>3
    <3>5. QED
      BY <1>1, <3>1, <3>2, <3>4
  <2>3. QED
    BY <2>1, <2>2
<1>9. Written' = p + 1
  BY <1>1, <1>8 DEF Written
<1>10. QED
  BY <1>1, <1>2, <1>5, <1>6, <1>7, <1>8, <1>9 DEF ConversionInv

LEMMA YuyvStep ==
  ASSUME ConversionInv, Conversion!YUYV2RGB
  PROVE  ConversionInv'
<1>1. /\ FrameTypes /\ format = "YUYV" /\ bytes \in Nat /\ bytes > 3
      /\ UNCHANGED <<format, width, height, y, u, v>> /\ bytes' = bytes - 4
  BY DEF ConversionInv, Conversion!YUYV2RGB, Conversion!frame
<1>2. PICK size \in Nat : size = 2 * width * height
  BY <1>1 DEF FrameTypes
<1>3. Conversion!FrameBytes = size
  BY <1>1, <1>2 DEF Conversion!FrameBytes
<1>4. PICK k \in Nat : size - bytes = 4 * k
  BY <1>1, <1>2 DEF ConversionInv
<1>5. 4 * k + 3 < size /\ (4 * k) \div 2 = 2 * k
  BY <1>1, <1>4
<1>6. PICK n \in Nat : n = 2 * k
  OBVIOUS
<1> DEFINE Made(luma) == [from |-> <<luma, 4 * k + 1, 4 * k + 3>>,
                          colour |-> Conversion!YuyvColour]
<1>7. RightPixel(Made(4 * k), n) /\ RightPixel(Made(4 * k + 2), n + 1)
  BY <1>1, <1>3, <1>5, <1>6, YuyvPixels
<1>8. rgb' = Conversion!With(Conversion!With(rgb, n, Made(4 * k)),
                             n + 1, Made(4 * k + 2))
  BY <1>2, <1>4, <1>5, <1>6 DEF Conversion!YUYV2RGB
<1> HIDE DEF Made
<1>9. DOMAIN rgb = 0..n - 1 /\ \A p \in DOMAIN rgb : RightPixel(rgb[p], p)
  BY <1>1, <1>2, <1>4, <1>5, <1>6 DEF ConversionInv, Written
<1>10. PICK half : half = Conversion!With(rgb, n, Made(4 * k))
  OBVIOUS
<1>11. DOMAIN half = 0..n /\ \A p \in DOMAIN half : RightPixel(half[p], p)
  BY <1>7, <1>9, <1>10, WithPixel
<1>12. DOMAIN rgb' = 0..n + 1 /\ \A p \in DOMAIN rgb' : RightPixel(rgb'[p], p)
  <2>1. n + 1 \in Nat /\ (n + 1) - 1 = n
    OBVIOUS
  <2>2. DOMAIN half = 0..(n + 1) - 1
    BY <1>11, <2>1
  <2>3. rgb' = Conversion!With(half, n + 1, Made(4 * k + 2))
    BY <1>8, <1>10
  <2>4. QED
    BY <1>7, <1>11, <2>1, <2>2, <2>3, WithPixel
<1>13. \A p \in DOMAIN rgb' : RightPixel(rgb[p], p)'
  BY <1>1, <1>12, RightStays
<1>14. size - bytes' = 4 * (k + 1) /\ bytes' \in Nat /\ (4 * (k + 1)) \div 2 = n + 2
  BY <1>1, <1>4, <1>6
<1>15. Written' = n + 2
  BY <1>1, <1>2, <1>14 DEF Written
<1>16. FrameTypes'
  BY <1>1 DEF FrameTypes
<1>17. bytes' \in Nat /\ \E m \in Nat : 2 * width' * height' - bytes' = 4 * m
  <2>1. 2 * width' * height' = size
    BY <1>1, <1>2
  <2>2. PICK m \in Nat : m = k + 1
    OBVIOUS
  <2>3. 2 * width' * height' - bytes' = 4 * m
    BY <1>14, <2>1, <2>2
  <2>4. QED
    BY <1>14, <2>3
<1>18. DOMAIN rgb' = 0..Written' - 1
  BY <1>12, <1>15
<1>19. QED
  BY <1>1, <1>13, <1>16, <1>17, <1>18 DEF ConversionInv

LEMMA ConversionStep ==
  ASSUME ConversionInv, Conversion!Next
  PROVE  ConversionInv'
<1>1. CASE Conversion!YUYV2RGB
  BY <1>1, YuyvStep
<1>2. CASE Conversion!NV122RGB
  <2> DEFINE uv == width * height + (row \div 2) * width + (col \div 2) * 2
             from == <<row * width + col, uv, uv + 1>>
  <2>1. format = "NV12" /\ Conversion!Pixel(from)
    BY <1>2 DEF Conversion!NV122RGB
  <2>2. FrameTypes /\ row \in 0..height - 1 /\ col \in 0..width - 1
    BY <2>1, NextPixel DEF Conversion!Pixel
  <2>3. RightPixel([from |-> from, colour |-> Conversion!PlanarColour],
                   row * width + col)
    BY <2>1, <2>2, PlanarPixel
  <2> HIDE DEF from
  <2>4. QED
    BY <2>1, <2>3, PixelStep
<1>3. CASE Conversion!YU122RGB
  <2> DEFINE uv == (row \div 2) * (width \div 2) + col \div 2
             size == width * height
             from == <<row * width + col, size + uv, size + size \div 4 + uv>>
  <2>1. format = "YU12" /\ Conversion!Pixel(from)
    BY <1>3 DEF Conversion!YU122RGB
  <2>2. FrameTypes /\ row \in 0..height - 1 /\ col \in 0..width - 1
    BY <2>1, NextPixel DEF Conversion!Pixel
  <2>3. RightPixel([from |-> from, colour |-> Conversion!PlanarColour],
                   row * width + col)
    BY <2>1, <2>2, PlanarPixel
  <2> HIDE DEF from
  <2>4. QED
    BY <2>1, <2>3, PixelStep
<1>4. CASE Conversion!Over
  <2>1. UNCHANGED <<format, width, height, y, u, v, bytes, row, col, rgb>>
    BY <1>4 DEF Conversion!Over, Conversion!vars, Conversion!frame
  <2>2. FrameTypes /\ \A p \in DOMAIN rgb' : RightPixel(rgb'[p], p)
    BY <2>1 DEF ConversionInv
  <2>3. \A p \in DOMAIN rgb' : RightPixel(rgb[p], p)'
    BY <2>1, <2>2, RightStays
  <2>4. FrameTypes'
    BY <2>1, <2>2 DEF FrameTypes
  <2>5. QED
    BY <2>1, <2>3, <2>4 DEF ConversionInv, Written
<1>5. QED
  BY <1>1, <1>2, <1>3, <1>4 DEF Conversion!Next

(* Nothing is written beyond the picture, and a conversion that is over has *)
(* written all of it.                                                       *)
LEMMA WrittenFits ==
  ASSUME ConversionInv
  PROVE  /\ \A p \in DOMAIN rgb : p \in 0..width * height - 1
         /\ Conversion!Converted => DOMAIN rgb = 0..width * height - 1
<1>1. FrameTypes /\ width \in Nat \ {0} /\ height \in Nat \ {0}
  <2>1. FrameTypes
    BY DEF ConversionInv
  <2>2. QED
    BY <2>1 DEF FrameTypes
<1>2. PICK size \in Nat : size = width * height
  BY <1>1
<1>3. CASE format = "YUYV"
  <2>1. PICK k \in Nat : 2 * width * height - bytes = 4 * k
    BY <1>3 DEF ConversionInv
  <2>2. 2 * width * height = 2 * size
    BY <1>1, <1>2
  <2>3. bytes \in Nat /\ bytes = 2 * size - 4 * k
    BY <1>3, <2>1, <2>2 DEF ConversionInv
  <2>4. DOMAIN rgb = 0..2 * k - 1
    BY <1>3, <2>1 DEF ConversionInv, Written
  <2>5. PICK even \in Nat : size = 2 * even
    <3>1. PICK w \in Nat : width = 2 * w
      BY <1>1 DEF FrameTypes
    <3>2. size = 2 * (w * height) /\ w * height \in Nat
      BY <1>1, <1>2, <3>1
    <3>3. QED
      BY <3>2
  <2>6. 2 * k <= size /\ (bytes <= 3 => 2 * k = size)
    BY <2>3, <2>5
  <2>7. QED
    BY <1>2, <1>3, <2>4, <2>6 DEF Conversion!Converted
<1>4. CASE format # "YUYV"
  <2>1. row \in 0..height /\ col \in 0..width - 1 /\ (row = height => col = 0)
    BY <1>4 DEF ConversionInv
  <2>2. row < height => row * width + col < size
    BY <1>1, <1>2, <2>1, PlanarProgress
  <2>3. row = height => row * width + col = size
    BY <1>1, <1>2, <2>1
  <2>4. PICK n \in Int : n = row * width + col
    BY <1>1, <2>1
  <2>5. n <= size
    BY <1>1, <2>1, <2>2, <2>3, <2>4
  <2>6. DOMAIN rgb = 0..n - 1
    BY <1>4, <2>4 DEF ConversionInv, Written
  <2>7. QED
    BY <1>2, <1>4, <2>3, <2>4, <2>5, <2>6 DEF Conversion!Converted
<1>5. QED
  BY <1>3, <1>4

(* Whatever the size of the frame, as long as it is even, and whatever its  *)
(* colour: each pixel is made of its own luma and the chroma of its block,  *)
(* nothing is read or written beyond the frame and the buffer, no pixel is  *)
(* left out, and the planar formats' colours are the perfect ones up to     *)
(* 8 of 255 (YUYV2RGB, NV122RGB, YU122RGB).                                 *)
THEOREM ConvertsEach == Spec => []ConvertsEveryPixel
<1> DEFINE Inv == part = "conversion" => ConversionInv
<1>1. Init => Inv
  BY ConversionInit DEF Init
<1>2. Inv /\ [Next]_vars => Inv'
  <2>1. CASE part = "conversion" /\ Conversion!Next /\ part' = part
    BY <2>1, ConversionStep
  <2>2. CASE UNCHANGED <<part, conversionVars>>
    <3>1. UNCHANGED <<part, format, width, height, y, u, v, bytes, row, col, rgb>>
      BY <2>2 DEF conversionVars
    <3>2. SUFFICES ASSUME ConversionInv
                   PROVE  ConversionInv'
      BY <3>1
    <3>3. FrameTypes /\ \A p \in DOMAIN rgb' : RightPixel(rgb'[p], p)
      BY <3>1, <3>2 DEF ConversionInv
    <3>4. \A p \in DOMAIN rgb' : RightPixel(rgb[p], p)'
      BY <3>1, <3>3, RightStays
    <3>5. FrameTypes'
      BY <3>1, <3>3 DEF FrameTypes
    <3>6. QED
      BY <3>1, <3>2, <3>4, <3>5 DEF ConversionInv, Written
  <2>3. QED
    BY <2>1, <2>2 DEF Next, vars
<1>3. Inv => ConvertsEveryPixel
  <2>1. SUFFICES ASSUME ConversionInv
                 PROVE  Conversion!ConvertsEveryPixel
    BY DEF ConvertsEveryPixel
  <2>2. \A p \in DOMAIN rgb : RightPixel(rgb[p], p)
    BY <2>1 DEF ConversionInv
  <2>3. QED
    BY <2>1, <2>2, WrittenFits DEF RightPixel, Conversion!ConvertsEveryPixel
<1>4. QED
  BY <1>1, <1>2, <1>3, PTL DEF Spec
=============================================================================
