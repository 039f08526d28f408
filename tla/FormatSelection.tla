-------------------------- MODULE FormatSelection --------------------------
(***************************************************************************)
(* win/platformcontext.cpp and win/platformstream.cpp: from a camera's     *)
(* stream capabilities to the list of formats the library advertises, and  *)
(* back.  enumerateFrameInfo turns each capability into one or more        *)
(* formats; open() is given one of them and walks over the capabilities to *)
(* find the one to set; it does the same again when the graph runs, and so *)
(* does setFrameRate.  Each capability comes as a media type on the heap   *)
(* that the loop has to delete, whatever it does with it.                  *)
(***************************************************************************)
EXTENDS Integers, FiniteSets

CONSTANTS
  Kinds,       \* what capabilities differ in: compression, width and height
  Rates,       \* their default frame rates, 0 for none
  Ranges,      \* <<lowest, highest>> rate, <<0, 0>> for none
  MaxCaps,     \* bound on the number of capabilities
  Callers,     \* which of the loops: "open", "reapply", "setFrameRate"
  CapsMayFail  \* may GetStreamCaps fail for some capability?

(* A rate is this number divided by an interval, in units of 100 ns. *)
Second == 10000000

(* What a configuration has to satisfy. *)
SelectionAssumption ==
  /\ Rates \subseteq 0..Second
  /\ \A range \in Ranges : range[1] <= range[2]
  /\ Callers \subseteq {"open", "reapply", "setFrameRate"}

(* The camera's default rate is one of those it supports. *)
Caps == {cap \in [kind : Kinds, rate : Rates, range : Ranges] :
           \/ cap.rate = 0
           \/ cap.range = <<0, 0>>
           \/ cap.range[1] <= cap.rate /\ cap.rate <= cap.range[2]}

(* biCompression as enumerateFrameInfo advertises it and as the loops       *)
(* compare it.  They write the code of BI_RGB in opposite byte orders, and  *)
(* only the former replaces BI_BITFIELDS.                                   *)
AdvertisedAs(kind) ==
  CASE kind = "BI_RGB"       -> "RGB "
    [] kind = "BI_BITFIELDS" -> "    "
    [] OTHER                 -> kind

ComparedAs(kind) == IF kind = "BI_RGB" THEN " BGR" ELSE kind

Breakpoints == {5, 10, 15, 20, 25, 30, 50, 60, 90, 100, 120, 180, 240}
(* The formats a capability is advertised as: its default rate, and the     *)
(* breakpoints between its lowest and its highest rate.                     *)
Advertised(cap) ==
  {[fourcc |-> AdvertisedAs(cap.kind), fps |-> rate] : rate \in
     {cap.rate} \cup
     {rate \in Breakpoints : cap.range[1] < cap.range[2] /\
                             cap.range[1] <= rate /\ rate <= cap.range[2]}}

VARIABLES
  caller,          \* the loop that runs
  caps,            \* the capabilities of the camera
  want,            \* the format asked for: FOURCC and fps
  iFormat,         \* the next capability
  selectedConfig,  \* the one selected so far, 0 for none
  bestFpsDistance,
  obtained,        \* history: the media types GetStreamCaps returned
  deleted,         \* how often each has been deleted
  applied,         \* the one passed to SetFormat, 0 for none
  result           \* "searching", "done"

vars == <<caller, caps, want, iFormat, selectedConfig, bestFpsDistance,
          obtained, deleted, applied, result>>

INT_MAX == 2147483647

Indices == 1..Cardinality(DOMAIN caps)

(* A client picks one of the formats; setFrameRate keeps the kind and       *)
(* refuses an fps of 0.                                                     *)
Init ==
  /\ caller \in Callers
  /\ caps \in UNION {[1..n -> Caps] : n \in 1..MaxCaps}
  /\ \E i \in DOMAIN caps :
       \/ /\ caller # "setFrameRate"
          /\ want \in Advertised(caps[i])
       \/ /\ caller = "setFrameRate"
          /\ want \in [fourcc : {AdvertisedAs(caps[i].kind)}, fps : Rates \ {0}]
  /\ iFormat = 1
  /\ selectedConfig = 0
  /\ bestFpsDistance = INT_MAX
  /\ obtained = {}
  /\ deleted = [i \in DOMAIN caps |-> 0]
  /\ applied = 0
  /\ result = "searching"
-----------------------------------------------------------------------------
(* One turn of a loop. *)

Delete(types) ==
  deleted' = [i \in DOMAIN caps |-> deleted[i] + IF i \in types THEN 1 ELSE 0]

Cap == caps[iFormat]

Matches == ComparedAs(Cap.kind) = want.fourcc

Abs(n) == IF n < 0 THEN -n ELSE n

Distance(rate) == Abs(rate - want.fps)

Turn ==
  /\ result = "searching" /\ iFormat \in Indices
  /\ iFormat' = iFormat + 1
  /\ UNCHANGED <<caller, caps, want>>

Keep == UNCHANGED <<selectedConfig, bestFpsDistance, applied, result>>

GetStreamCapsFails ==
  /\ CapsMayFail
  /\ Turn
  /\ Keep
  /\ UNCHANGED <<obtained, deleted>>

GetStreamCaps == Turn /\ obtained' = obtained \cup {iFormat}

NoMatch ==
  /\ GetStreamCaps
  /\ ~Matches
  /\ Delete({iFormat})
  /\ Keep

(* open() without a preferred rate takes the first match. *)
TakeFirst ==
  /\ caller = "open"
  /\ GetStreamCaps
  /\ Matches /\ want.fps = 0
  /\ selectedConfig' = iFormat
  /\ applied' = iFormat
  /\ Delete({iFormat})
  /\ result' = "done"
  /\ UNCHANGED bestFpsDistance

(* When applied again, it is set and deleted inside the loop. *)
ReapplyFirst ==
  /\ caller = "reapply"
  /\ GetStreamCaps
  /\ Matches /\ want.fps = 0
  /\ applied' = iFormat
  /\ Delete({iFormat})
  /\ result' = "done"
  /\ UNCHANGED <<selectedConfig, bestFpsDistance>>

Untimed ==
  /\ GetStreamCaps
  /\ Matches /\ want.fps # 0 /\ Cap.rate = 0
  /\ Delete({iFormat})
  /\ Keep
(* Mutant: the candidate that is replaced is not deleted. *)
CloserLeaks ==
  /\ GetStreamCaps
  /\ Matches /\ want.fps # 0 /\ Cap.rate # 0
  /\ Distance(Cap.rate) < bestFpsDistance
  /\ selectedConfig' = iFormat
  /\ bestFpsDistance' = Distance(Cap.rate)
  /\ UNCHANGED <<deleted, applied, result>>
(* Mutant: the best distance is not updated. *)
CloserForgets ==
  /\ GetStreamCaps
  /\ Matches /\ want.fps # 0 /\ Cap.rate # 0
  /\ Distance(Cap.rate) < bestFpsDistance
  /\ Delete({selectedConfig} \ {0})
  /\ selectedConfig' = iFormat
  /\ UNCHANGED <<bestFpsDistance, applied, result>>

Closer ==
  /\ GetStreamCaps
  /\ Matches /\ want.fps # 0 /\ Cap.rate # 0
  /\ Distance(Cap.rate) < bestFpsDistance
  /\ Delete({selectedConfig} \ {0})
  /\ selectedConfig' = iFormat
  /\ bestFpsDistance' = Distance(Cap.rate)
  /\ UNCHANGED <<applied, result>>

NotCloser ==
  /\ GetStreamCaps
  /\ Matches /\ want.fps # 0 /\ Cap.rate # 0
  /\ Distance(Cap.rate) >= bestFpsDistance
  /\ Delete({iFormat})
  /\ Keep

(* After the loop: the selected media type gets the wanted rate, is set and *)
(* deleted; with none, open() and setFrameRate fail and the second          *)
(* application is left out.                                                 *)
Apply ==
  /\ result = "searching" /\ iFormat \notin Indices
  /\ result' = "done"
  /\ applied' = selectedConfig
  /\ Delete({selectedConfig} \ {0})
  /\ UNCHANGED <<caller, caps, want, iFormat, selectedConfig, bestFpsDistance,
                 obtained>>

Over == result = "done" /\ UNCHANGED vars

Next ==
  \/ GetStreamCapsFails \/ NoMatch \/ TakeFirst \/ ReapplyFirst \/ Untimed
  \/ Closer \/ NotCloser \/ Apply \/ Over

Spec == Init /\ [][Next]_vars
-----------------------------------------------------------------------------
Done == result = "done"

(* On every path through the loops each media type that was obtained is     *)
(* deleted, and none is deleted twice.                                      *)
EachDeletedOnce ==
  Done => \A i \in DOMAIN caps : deleted[i] = IF i \in obtained THEN 1 ELSE 0

(* The reference the loop is measured by: among the capabilities of the     *)
(* wanted kind that have a rate, none is closer to the wanted rate.         *)
Candidates == {i \in obtained : /\ ComparedAs(caps[i].kind) = want.fourcc
                                /\ want.fps = 0 \/ caps[i].rate # 0}

ClosestIsApplied ==
  Done =>
    IF Candidates = {}
      THEN applied = 0
      ELSE /\ applied \in Candidates
           /\ want.fps # 0 => \A i \in Candidates :
                Distance(caps[applied].rate) <= Distance(caps[i].rate)

-----------------------------------------------------------------------------
(* Claims of the header that hold with exceptions.                          *)

(* openpnp-capture.h, Cap_openStream: -1 only "if the device does not exist *)
(* or the stream format ID is incorrect".  A format that was advertised is  *)
(* found again.                                                             *)
AdvertisedIsFound == Done => applied # 0

(* openpnp-capture.h, CapFormatInfo: fps is "one of potentially several     *)
(* supported rates for this resolution".  The capability that is set for a  *)
(* format supports the rate it is set to.                                   *)
AppliedSupportsRate ==
  Done /\ applied # 0 /\ want.fps # 0 =>
    \/ caps[applied].rate = want.fps
    \/ caps[applied].range[1] <= want.fps /\ want.fps <= caps[applied].range[2]
=============================================================================
