------------------------- MODULE PacketLostTracker -------------------------
(***************************************************************************)
(* The tracker by which a receiving node counts lost packets: a ring       *)
(* buffer over a sliding window of packet ids.  A packet that arrives      *)
(* beyond the window pushes it forward, and every id that leaves the       *)
(* window without having arrived is lost.  The thread of the runnable      *)
(* records packets; the thread of the NodeReporter reads the loss rate of  *)
(* the time since its last report.                                         *)
(*                                                                         *)
(* All methods are synchronized.  updatePacketLost is one action per       *)
(* iteration of its loop; while `arriving' holds a packet the monitor is   *)
(* taken.  A rate is a pair of dividend and divisor.                       *)
(***************************************************************************)
EXTENDS Integers, FiniteSets

CONSTANTS
    WindowSize,
    MaxPacketId,  \* bound on the ids of the packets
    MaxResets     \* bound on the calls of reset; the nodes never call it

\* The constructor refuses a window of no ids.
WindowAssumption ==
    /\ WindowSize \in Nat \ {0}
    /\ MaxPacketId \in Nat
    /\ MaxResets \in Nat

NOT_RCVED == -1
None == -1
PacketId == 0 .. MaxPacketId
Slot == 0 .. WindowSize - 1

VARIABLES
    buff,                 \* [Slot -> id of a packet, or NOT_RCVED]
    minNonRcvedPacketId,  \* the first id of the window
    maxRcvedPacketId,
    packetLostCounter,
    rcvedPackedIdInPrevPeriod,
    lostPakcetNumInPrevPeriod,
    arriving,             \* the packet updatePacketLost is working on, or None
    inTime,               \* history: the packets taken into the buffer so far
    resets

trackerVars ==
    <<buff, minNonRcvedPacketId, maxRcvedPacketId, packetLostCounter,
      rcvedPackedIdInPrevPeriod, lostPakcetNumInPrevPeriod, arriving,
      inTime, resets>>

TrackerTypeOK ==
    /\ buff \in [Slot -> PacketId \cup {NOT_RCVED}]
    /\ minNonRcvedPacketId \in Nat
    /\ maxRcvedPacketId \in PacketId
    /\ packetLostCounter \in Nat
    /\ rcvedPackedIdInPrevPeriod \in Nat
    /\ lostPakcetNumInPrevPeriod \in Nat
    /\ arriving \in PacketId \cup {None}
    /\ inTime \subseteq PacketId
    /\ resets \in 0 .. MaxResets

TrackerInit ==
    /\ buff = [i \in Slot |-> NOT_RCVED]
    /\ minNonRcvedPacketId = 0
    /\ maxRcvedPacketId = 0
    /\ packetLostCounter = 0
    /\ rcvedPackedIdInPrevPeriod = 0
    /\ lostPakcetNumInPrevPeriod = 0
    /\ arriving = None
    /\ inTime = {}
    /\ resets = 0
-----------------------------------------------------------------------------
\* updatePacketLost is entered; a packet older than the window is ignored.
UpdatePacketLost(id) ==
    /\ arriving = None
    /\ arriving' = IF minNonRcvedPacketId > id THEN None ELSE id
    /\ UNCHANGED <<buff, minNonRcvedPacketId, maxRcvedPacketId, packetLostCounter,
                   rcvedPackedIdInPrevPeriod, lostPakcetNumInPrevPeriod, inTime,
                   resets>>

\* One iteration of the loop: the first id leaves the window.
Slide ==
    LET slot == minNonRcvedPacketId % WindowSize
    IN
    /\ arriving # None
    /\ minNonRcvedPacketId + WindowSize <= arriving
    /\ IF buff[slot] = NOT_RCVED
       THEN packetLostCounter' = packetLostCounter + 1 /\ UNCHANGED buff
       ELSE buff' = [buff EXCEPT ![slot] = NOT_RCVED] /\ UNCHANGED packetLostCounter
    /\ minNonRcvedPacketId' = minNonRcvedPacketId + 1
    /\ UNCHANGED <<maxRcvedPacketId, rcvedPackedIdInPrevPeriod,
                   lostPakcetNumInPrevPeriod, arriving, inTime, resets>>

\* The packet is in the window and enters the buffer.
Store ==
    /\ arriving # None
    /\ arriving < minNonRcvedPacketId + WindowSize
    /\ buff' = [buff EXCEPT ![arriving % WindowSize] = arriving]
    /\ maxRcvedPacketId' =
          IF arriving > maxRcvedPacketId THEN arriving ELSE maxRcvedPacketId
    /\ inTime' = inTime \cup {arriving}
    /\ arriving' = None
    /\ UNCHANGED <<minNonRcvedPacketId, packetLostCounter,
                   rcvedPackedIdInPrevPeriod, lostPakcetNumInPrevPeriod, resets>>

\* The rate getInstantPacketLossRate returns next.
InstantRate ==
    [lost   |-> packetLostCounter - lostPakcetNumInPrevPeriod,
     passed |-> minNonRcvedPacketId - rcvedPackedIdInPrevPeriod]

\* getInstantPacketLossRate: a period without progress reports 0 and goes on.
GetInstantPacketLossRate ==
    /\ arriving = None
    /\ InstantRate.passed # 0
    /\ lostPakcetNumInPrevPeriod' = packetLostCounter
    /\ rcvedPackedIdInPrevPeriod' = minNonRcvedPacketId
    /\ UNCHANGED <<buff, minNonRcvedPacketId, maxRcvedPacketId, packetLostCounter,
                   arriving, inTime, resets>>

\* reset leaves the start of the current period alone.
Reset ==
    /\ arriving = None
    /\ resets < MaxResets
    /\ resets' = resets + 1
    /\ buff' = [i \in Slot |-> NOT_RCVED]
    /\ minNonRcvedPacketId' = 0
    /\ maxRcvedPacketId' = 0
    /\ packetLostCounter' = 0
    /\ inTime' = {}
    /\ UNCHANGED <<rcvedPackedIdInPrevPeriod, lostPakcetNumInPrevPeriod, arriving>>

TrackerNext ==
    \/ \E id \in PacketId : UpdatePacketLost(id)
    \/ Slide
    \/ Store
    \/ GetInstantPacketLossRate
    \/ Reset

TrackerSpec == TrackerInit /\ [][TrackerNext]_trackerVars
-----------------------------------------------------------------------------
Window == minNonRcvedPacketId .. minNonRcvedPacketId + WindowSize - 1
Passed == 0 .. minNonRcvedPacketId - 1

(* Between two packets every id up to the highest one that has arrived counts
   as lost unless a packet with it was taken in: so PacketLostTrackerTest, line
   87 ("3, 8, 10, 11, 12, 13 out of 0-14 lost") and lines 91 to 104. *)
MissingIsLost ==
    arriving = None /\ inTime # {} =>
        packetLostCounter = Cardinality((0 .. maxRcvedPacketId) \ inTime)

(* What updatePacketLost does count: the ids that have left the window without a
   packet, for any order, repetition and gap of the arrivals (a stale slot would
   hide a loss). *)
LostIsExact == packetLostCounter = Cardinality(Passed \ inTime)

(* The ring buffer shows exactly which packets of the window have arrived,
   although every slot is used again for each WindowSize-th id. *)
BufferShowsWindow ==
    \A i \in Window :
        buff[i % WindowSize] = IF i \in inTime THEN i ELSE NOT_RCVED

(* getHighestPacketId is the highest id that was taken in, and the window
   reaches as far. *)
HighestIsInWindow ==
    /\ \A i \in inTime : i <= maxRcvedPacketId
    /\ inTime # {} => maxRcvedPacketId \in inTime
    /\ maxRcvedPacketId < minNonRcvedPacketId + WindowSize

(* The instant loss rate is a fraction between 0 and 1, and a period that is
   skipped because no id has left the window loses no loss from the reports.
   It holds as long as nobody calls reset, which keeps the old period. *)
InstantRateIsFraction ==
    resets = 0 =>
        /\ 0 <= InstantRate.lost
        /\ InstantRate.lost <= InstantRate.passed
=============================================================================
