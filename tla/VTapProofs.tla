------------------------------ MODULE VTapProofs ------------------------------
(* vTap: the cleanup of pcap files, which takes no lock, removes no fresh packet,
   what Write reports as written is in a file, and the counters of Status account for every packet. *)
EXTENDS VTap, FiniteSetTheorems, TLAPS

\* A file is no older than its name says and was not changed in the future; the file
\* written to began at startTime.
FileTimes ==
  /\ now \in Nat /\ current \in Int /\ startTime \in Int
  /\ \A f \in DOMAIN files : f \in Int /\ files[f].mod \in Int /\ f <= files[f].mod /\ files[f].mod <= now
  /\ current # None => current = startTime

\* Between the look at a file and its removal nothing is written to it.
CleanerKnows ==
  /\ cleaner = [at |-> cleaner.at, list |-> cleaner.list, cutoff |-> cleaner.cutoff, old |-> cleaner.old]
  /\ cleaner.cutoff \in Int /\ (cleaner.at \in {"scan", "remove"} => cleaner.cutoff <= now - Expires)
  /\ cleaner.at = "remove" => cleaner.old \in DOMAIN files /\ files[cleaner.old].mod < cleaner.cutoff

NoneEarly ==
  /\ whist = [counted |-> whist.counted, stored |-> whist.stored, skipped |-> whist.skipped,
              refused |-> whist.refused, early |-> whist.early]
  /\ FreshPacketsSurvive

PcapInv == FileTimes /\ CleanerKnows /\ NoneEarly

\* A new file is named by the time, and a file found old is not.
LEMMA RotateStep ==
  ASSUME PcapInv, NEW p, RotateTo(now, p), UNCHANGED <<now, cleaner>> PROVE PcapInv'
<1> USE PcapAssumption
<1>1. /\ files' = Created(now) /\ current' = now /\ startTime' = now /\ now' = now
      /\ cleaner' = cleaner
  BY DEF RotateTo
<1>2. /\ DOMAIN files' = DOMAIN files \cup {now} /\ files'[now].mod = now
      /\ \A f \in DOMAIN files : f # now => files'[f] = files[f]
  BY <1>1 DEF Created
<1>3. FileTimes' BY <1>1, <1>2 DEF PcapInv, FileTimes
<1>4. CleanerKnows'
  <2>1. cleaner.at = "remove" => cleaner.old # now BY DEF PcapInv, FileTimes, CleanerKnows
  <2> QED BY <1>1, <1>2, <2>1 DEF PcapInv, CleanerKnows
<1>5. NoneEarly' BY DEF RotateTo, PcapInv, NoneEarly, FreshPacketsSurvive
<1> QED BY <1>3, <1>4, <1>5 DEF PcapInv

\* A file found old is past its span: a packet is not appended to it.
LEMMA AppendStep ==
  ASSUME PcapInv, NEW p, current # None, ~Due(now), AppendPacket(p), UNCHANGED <<now, cleaner>>
  PROVE  PcapInv'
<1> USE PcapAssumption
<1>1. /\ current' = current /\ startTime' = startTime /\ now' = now /\ cleaner' = cleaner
  BY DEF AppendPacket
<1>2. cleaner.at = "remove" => cleaner.old # current
  BY DEF Due, PcapInv, FileTimes, CleanerKnows
<1> DEFINE Appended ==
      /\ DOMAIN files' = DOMAIN files
      /\ \A f \in DOMAIN files : f # current => files'[f] = files[f]
      /\ \A f \in DOMAIN files : f = current => files'[f] = files[f] \/ files'[f].mod = now
<1>3. Appended
  <2>1. CASE files' = files BY <2>1
  <2>2. ASSUME NEW S, current \in DOMAIN files,
               files' = [files EXCEPT ![current] = [mod |-> now, pkts |-> S]]
        PROVE  Appended
    BY <2>2
  <2> QED BY <2>1, <2>2 DEF AppendPacket
<1>4. FileTimes' BY <1>1, <1>3 DEF PcapInv, FileTimes
<1>5. CleanerKnows' BY <1>1, <1>2, <1>3 DEF PcapInv, CleanerKnows
<1>6. NoneEarly' BY DEF AppendPacket, PcapInv, NoneEarly, FreshPacketsSurvive
<1> QED BY <1>4, <1>5, <1>6 DEF PcapInv

\* Write, with or without a rotation, puts the packet into a file no cleanup is after.
LEMMA WriteStep == ASSUME PcapInv, NEW p, Write(p) PROVE PcapInv'
<1>1. UNCHANGED <<now, cleaner>> BY DEF Write
<1>2. CASE RotateTo(now, p) BY <1>1, <1>2, RotateStep
<1>3. CASE RotateFails
  BY <1>1, <1>3 DEF RotateFails, StartAfterFailure, PcapInv, FileTimes, CleanerKnows, NoneEarly, FreshPacketsSurvive
<1>4. CASE current # None /\ ~Due(now) /\ AppendPacket(p) BY <1>1, <1>4, AppendStep
<1> QED BY <1>2, <1>3, <1>4 DEF Write

\* A file is removed only when it has been left alone since it was found old.
LEMMA CleanupStep == ASSUME PcapInv, Cleanup PROVE PcapInv'
<1> USE PcapAssumption
<1>1. CASE CleanupTick \/ CleanupBegin \/ ReadDirFails \/ CleanupEnd
  BY <1>1 DEF CleanupTick, CleanupBegin, ReadDirFails, CleanupEnd, AfterCleanup, PcapInv, FileTimes, CleanerKnows, NoneEarly, FreshPacketsSurvive
<1>2. ASSUME NEW f \in DOMAIN files, CleanupStat(f) \/ InfoFails(f) \/ RemoveFails(f) PROVE PcapInv'
  BY <1>2 DEF CleanupStat, InfoFails, RemoveFails, Expired, PcapInv, FileTimes, CleanerKnows, NoneEarly, FreshPacketsSurvive
<1>3. ASSUME NEW f \in DOMAIN files, CleanupRemove(f) PROVE PcapInv'
  <2>1. /\ cleaner.at = "remove" /\ f = cleaner.old /\ UNCHANGED <<now, current, startTime>>
        /\ files' = Restrict(files, DOMAIN files \ {f})
        /\ cleaner' = [at |-> "scan", list |-> cleaner.list \ {f}, cutoff |-> cleaner.cutoff, old |-> None]
    BY <1>3 DEF CleanupRemove, PcapInv, CleanerKnows
  <2>2. files[f].mod < now - Expires BY <2>1 DEF PcapInv, FileTimes, CleanerKnows
  <2>3. whist' = whist BY <1>3, <2>2 DEF CleanupRemove, PcapInv, FileTimes
  <2>4. /\ DOMAIN files' \subseteq DOMAIN files
        /\ \A g \in DOMAIN files' : files'[g] = files[g]
    BY <2>1 DEF Restrict
  <2> QED BY <2>1, <2>3, <2>4 DEF PcapInv, FileTimes, CleanerKnows, NoneEarly, FreshPacketsSurvive
<1> QED BY <1>1, <1>2, <1>3 DEF Cleanup

\* An empty directory and an idle cleanupLoop.
LEMMA PcapInitially == Init => PcapInv
BY PcapAssumption DEF Init, PcapInit, PcapInv, FileTimes, CleanerKnows, NoneEarly, FreshPacketsSurvive, None

\* However the goroutines of vTap interleave, every step keeps what Write and cleanup
\* know of the files.
LEMMA PcapInductive == ASSUME PcapInv, [Next]_vars PROVE PcapInv'
<1>1. CASE UNCHANGED pcapVars
  BY <1>1 DEF pcapVars, PcapInv, FileTimes, CleanerKnows, NoneEarly, FreshPacketsSurvive
<1>2. CASE HandlePacket BY <1>2, WriteStep DEF HandlePacket
<1>3. CASE Cleanup BY <1>3, CleanupStep
<1>4. CASE CleanupStops \/ WriterClose \/ Advance
  BY <1>4, PcapAssumption
  DEF CleanupStops, WriterClose, Advance, PcapInv, FileTimes, CleanerKnows, NoneEarly, FreshPacketsSurvive
<1> QED
  BY <1>1, <1>2, <1>3, <1>4
  DEF Next, RecvSelect, RecvError, RecvSend, RecvPacket, ProcTake, ProcStops, Stop, StopBegin,
      StopConn, StopWriter, vars

\* cleanup never removes a packet younger than Expires, for any number of packets, any
\* span up to the age of expiry, and however the goroutines of vTap interleave.
THEOREM FreshSurvive == Spec => []FreshPacketsSurvive
<1>1. Init => PcapInv BY PcapInitially
<1>2. PcapInv /\ [Next]_vars => PcapInv' BY PcapInductive
<1>3. PcapInv => FreshPacketsSurvive BY DEF PcapInv, NoneEarly
<1> QED BY <1>1, <1>2, <1>3, PTL DEF Spec

-------------------------------------------------------------------------------
(* What Write returns nil for *)

\* Within the span of w.current, until Close, its handle is open and its file is there:
\* a failed rotation closes the handle only past the span, and a file that cleanup
\* removes is older than that.
OpenInSpan ==
  /\ whist.counted \subseteq whist.stored \cup whist.skipped \cup whist.refused
  /\ current # None /\ ~Due(now) => current \in DOMAIN files /\ (wstop \/ handle)

CountInv == PcapInv /\ OpenInSpan

\* Write appends only to a file that is there, or counts the packet as skipped.
LEMMA WriteCounts == ASSUME CountInv, NEW p, Write(p) PROVE OpenInSpan'
<1> USE PcapAssumption DEF CountInv
<1>1. UNCHANGED <<now, cleaner, wstop>> BY DEF Write
<1>2. whist = [counted |-> whist.counted, stored |-> whist.stored, skipped |-> whist.skipped,
               refused |-> whist.refused, early |-> whist.early]
  BY DEF PcapInv, NoneEarly
<1>3. CASE RotateTo(now, p)
  <2>1. /\ whist'.counted = whist.counted \cup {p} /\ whist'.stored = whist.stored
        /\ whist'.skipped = whist.skipped \cup {p} /\ whist'.refused = whist.refused
    BY <1>2, <1>3 DEF RotateTo
  <2>2. now \in DOMAIN files' /\ current' = now /\ handle' = TRUE BY <1>3 DEF RotateTo, Created
  <2> QED BY <1>1, <2>1, <2>2 DEF OpenInSpan
<1>4. CASE (current = None \/ Due(now)) /\ RotateFails
  BY <1>1, <1>4 DEF RotateFails, StartAfterFailure, OpenInSpan, Due
<1>5. CASE current # None /\ ~Due(now) /\ AppendPacket(p)
  <2>1. current \in DOMAIN files /\ (wstop \/ handle) BY <1>5 DEF OpenInSpan
  <2>2. UNCHANGED <<current, startTime, handle>> /\ DOMAIN files' = DOMAIN files
    BY <1>5 DEF AppendPacket
  <2>3. PICK n \in IF handle THEN 0..2 ELSE {0} :
          whist' = [whist EXCEPT !.counted = @ \cup {p},
                      !.stored = IF n = 2 /\ current \in DOMAIN files THEN @ \cup {p} ELSE @,
                      !.skipped = IF wstop THEN @ \cup {p} ELSE @,
                      !.refused = IF handle /\ n < 2 THEN @ \cup {p} ELSE @]
    BY <1>5 DEF AppendPacket
  <2>4. /\ whist'.counted = whist.counted \cup {p}
        /\ whist'.stored = IF n = 2 THEN whist.stored \cup {p} ELSE whist.stored
        /\ whist'.skipped = IF wstop THEN whist.skipped \cup {p} ELSE whist.skipped
        /\ whist'.refused = IF handle /\ n < 2 THEN whist.refused \cup {p} ELSE whist.refused
    BY <1>2, <2>1, <2>3
  <2>5. wstop \/ n = 2 \/ (handle /\ n < 2) BY <2>1, <2>3
  <2>6. whist'.counted \subseteq whist'.stored \cup whist'.skipped \cup whist'.refused
    BY <2>4, <2>5 DEF OpenInSpan
  <2> QED BY <1>1, <2>1, <2>2, <2>6 DEF OpenInSpan, Due
<1> QED BY <1>3, <1>4, <1>5 DEF Write

\* The file cleanup removes is w.current only when a Write would rotate.
LEMMA CleanupCounts == ASSUME CountInv, Cleanup PROVE OpenInSpan'
<1> USE PcapAssumption DEF CountInv
<1>1. CASE CleanupTick \/ CleanupBegin \/ ReadDirFails \/ CleanupEnd
  BY <1>1 DEF CleanupTick, CleanupBegin, ReadDirFails, CleanupEnd, OpenInSpan, Due
<1>2. ASSUME NEW f \in DOMAIN files, CleanupStat(f) \/ InfoFails(f) \/ RemoveFails(f)
      PROVE  OpenInSpan'
  BY <1>2 DEF CleanupStat, InfoFails, RemoveFails, OpenInSpan, Due
<1>3. ASSUME NEW f \in DOMAIN files, CleanupRemove(f) PROVE OpenInSpan'
  <2>1. /\ cleaner.at = "remove" /\ f = cleaner.old
        /\ UNCHANGED <<now, current, startTime, handle, wstop>>
        /\ DOMAIN files' = DOMAIN files \ {f}
    BY <1>3 DEF CleanupRemove, Restrict
  <2>2. files[f].mod < now - Expires /\ f <= files[f].mod BY <2>1 DEF PcapInv, FileTimes, CleanerKnows
  <2>3. whist' = whist BY <1>3, <2>2 DEF CleanupRemove, PcapInv, FileTimes
  <2>4. current # None /\ f = current => Due(now) BY <2>2 DEF Due, PcapInv, FileTimes
  <2> QED BY <2>1, <2>3, <2>4 DEF OpenInSpan, Due
<1> QED BY <1>1, <1>2, <1>3 DEF Cleanup

\* Every packet Write returns nil for is in a file, is the packet of a rotation, came
\* after Close or was refused by the file system, whatever rotations fail and whichever
\* files cleanup removes meanwhile.
THEOREM CountedStored == Spec => []CountedIsStored
<1>1. Init => CountInv
  <2> SUFFICES ASSUME Init PROVE CountInv OBVIOUS
  <2>1. current = None /\ whist.counted = {} BY DEF Init, PcapInit
  <2> QED BY <2>1, PcapInitially DEF CountInv, OpenInSpan
<1>2. CountInv /\ [Next]_vars => CountInv'
  <2> SUFFICES ASSUME CountInv, [Next]_vars PROVE CountInv' OBVIOUS
  <2> USE DEF CountInv
  <2>1. PcapInv' BY PcapInductive
  <2>2. CASE UNCHANGED pcapVars BY <2>1, <2>2 DEF pcapVars, OpenInSpan, Due
  <2>3. CASE HandlePacket BY <2>1, <2>3, WriteCounts DEF HandlePacket
  <2>4. CASE Cleanup BY <2>1, <2>4, CleanupCounts
  <2>5. CASE CleanupStops \/ WriterClose BY <2>1, <2>5 DEF CleanupStops, WriterClose, OpenInSpan, Due
  <2>6. CASE Advance BY <2>1, <2>6, PcapAssumption DEF Advance, OpenInSpan, Due, PcapInv, FileTimes
  <2> QED
    BY <2>1, <2>2, <2>3, <2>4, <2>5, <2>6
    DEF Next, RecvSelect, RecvError, RecvSend, RecvPacket, ProcTake, ProcStops, Stop, StopBegin,
        StopConn, StopWriter, vars
<1>3. CountInv => CountedIsStored BY DEF CountInv, OpenInSpan, CountedIsStored
<1> QED BY <1>1, <1>2, <1>3, PTL DEF Spec

-------------------------------------------------------------------------------
(* The counters of Status *)

Shapes ==
  /\ stats = [received |-> stats.received, dropped |-> stats.dropped, written |-> stats.written]
  /\ stats.received \in Nat /\ stats.dropped \in Nat
  /\ net = [arrived |-> net.arrived, dropped |-> net.dropped, handled |-> net.handled]
  /\ IsFiniteSet(net.handled)
  /\ packets \in Seq(Packets)
  /\ recv = [at |-> recv.at, hand |-> recv.hand] /\ proc = [at |-> proc.at, hand |-> proc.hand]

\* A loop has a packet in its hands exactly between receiving it and passing it on.
Hands ==
  /\ IF recv.at = "send" THEN \E p \in Packets : recv.hand = {p} ELSE recv.hand = {}
  /\ IF proc.at = "handle" THEN \E p \in Packets : proc.hand = {p} ELSE proc.hand = {}

\* No packet is handled twice: it is in one place on its way.
OnTheWay ==
  /\ \A i, j \in DOMAIN packets : packets[i] = packets[j] => i = j
  /\ recv.hand \cap (Queued \cup proc.hand \cup net.handled) = {}
  /\ proc.hand \cap (Queued \cup net.handled) = {}
  /\ Queued \cap net.handled = {}

TapInv == Shapes /\ Hands /\ OnTheWay /\ CountsAddUp

\* What CountsAddUp adds are natural numbers.
LEMMA CountsAreNats ==
  ASSUME Shapes, Hands
  PROVE  /\ Cardinality(net.handled) \in Nat /\ Len(packets) \in Nat
         /\ Cardinality(recv.hand) \in Nat /\ Cardinality(proc.hand) \in Nat
<1>1. IsFiniteSet(net.handled) /\ Len(packets) \in Nat BY DEF Shapes
<1>2. IsFiniteSet({}) /\ \A p : IsFiniteSet({p}) BY FS_EmptySet, FS_Singleton, Zenon
<1>4. IsFiniteSet(recv.hand)
  <2>1. CASE recv.at = "send" BY <1>2, <2>1 DEF Hands
  <2>2. CASE recv.at # "send" BY <1>2, <2>2 DEF Hands
  <2> QED BY <2>1, <2>2
<1>5. IsFiniteSet(proc.hand)
  <2>1. CASE proc.at = "handle" BY <1>2, <2>1 DEF Hands
  <2>2. CASE proc.at # "handle" BY <1>2, <2>2 DEF Hands
  <2> QED BY <2>1, <2>2
<1>3. \A S : IsFiniteSet(S) => Cardinality(S) \in Nat BY FS_CardinalityType, Zenon
<1> QED BY <1>1, <1>3, <1>4, <1>5

\* A packet that arrives is in no other place.
LEMMA RecvPacketStep == ASSUME TapInv, NEW p \in Packets, RecvPacket(p) PROVE TapInv'
<1> USE FS_EmptySet, FS_Singleton DEF TapInv
<1>1. /\ recv.at = "read" /\ p \notin net.arrived
      /\ recv' = [at |-> "send", hand |-> {p}]
      /\ stats' = [received |-> stats.received + 1, dropped |-> stats.dropped, written |-> stats.written]
      /\ net' = [arrived |-> net.arrived \cup {p}, dropped |-> net.dropped, handled |-> net.handled]
      /\ packets' = packets /\ proc' = proc
  BY DEF RecvPacket, Shapes
<1>2. recv.hand = {} /\ Queued' = Queued BY <1>1 DEF Hands, Queued
<1>3. Shapes' BY <1>1 DEF Shapes
<1>4. Hands' BY <1>1 DEF Hands
<1>5. OnTheWay' BY <1>1, <1>2 DEF OnTheWay, CountsAddUp
<1>6. CountsAddUp'
  <2>1. Cardinality({p}) = 1 /\ Cardinality(recv.hand) = 0 BY <1>2
  <2>2. Cardinality(net.handled) \in Nat /\ Cardinality(proc.hand) \in Nat /\ Len(packets) \in Nat
    BY CountsAreNats
  <2> QED BY <1>1, <1>2, <2>1, <2>2 DEF CountsAddUp, Shapes
<1> QED BY <1>3, <1>4, <1>5, <1>6

\* The packet in receiveLoop's hands is queued, or dropped and counted.
LEMMA RecvSendStep == ASSUME TapInv, RecvSend PROVE TapInv'
<1> USE FS_EmptySet, FS_Singleton DEF TapInv
<1>1. PICK p \in Packets : recv.hand = {p} BY DEF RecvSend, Hands
<1>2. recv' = [at |-> "select", hand |-> {}] /\ proc' = proc BY DEF RecvSend
<1>3. Cardinality(recv.hand) = 1 /\ Cardinality({}) = 0 BY <1>1
<1>4. Cardinality(net.handled) \in Nat /\ Cardinality(proc.hand) \in Nat /\ Len(packets) \in Nat
  BY CountsAreNats
<1>5. Hands' BY <1>2 DEF Hands
<1>6. CASE Room
  <2>1. packets' = Append(packets, p) /\ net' = net /\ stats' = stats
    BY <1>1, <1>6 DEF RecvSend
  <2>2. /\ packets' \in Seq(Packets) /\ Len(packets') = Len(packets) + 1
        /\ \A i \in DOMAIN packets : packets'[i] = packets[i]
        /\ packets'[Len(packets) + 1] = p
        /\ DOMAIN packets' = DOMAIN packets \cup {Len(packets) + 1}
    BY <2>1 DEF Shapes
  <2>3. Queued' = Queued \cup {p} BY <2>2 DEF Queued
  <2>4. Shapes' BY <1>2, <2>1, <2>2 DEF Shapes
  <2>5. OnTheWay'
    <3>1. \A i \in DOMAIN packets : packets[i] # p BY <1>1 DEF OnTheWay, Queued
    <3>2. \A i, j \in DOMAIN packets' : packets'[i] = packets'[j] => i = j
      BY <2>2, <3>1 DEF OnTheWay
    <3> QED BY <1>1, <1>2, <2>1, <2>3, <3>2 DEF OnTheWay
  <2>6. CountsAddUp'
    <3>1. (net.arrived = net.dropped \cup net.handled \cup Queued \cup recv.hand \cup proc.hand)'
      BY <1>1, <1>2, <2>1, <2>3 DEF CountsAddUp
    <3>2. stats.received = stats.dropped + Cardinality(net.handled) + (Len(packets) + 1)
                            + 0 + Cardinality(proc.hand)
      BY <1>3, <1>4 DEF CountsAddUp, Shapes
    <3> QED BY <1>2, <1>3, <2>1, <2>2, <3>1, <3>2 DEF CountsAddUp
  <2> QED BY <1>5, <2>4, <2>5, <2>6
<1>7. CASE ~Room
  <2>1. /\ packets' = packets
        /\ net' = [arrived |-> net.arrived, dropped |-> net.dropped \cup {p}, handled |-> net.handled]
        /\ stats' = [received |-> stats.received, dropped |-> stats.dropped + 1, written |-> stats.written]
    <3>1. /\ packets' = packets /\ stats' = Dropped
          /\ \E q \in recv.hand : net' = [net EXCEPT !.dropped = @ \cup {q}]
      BY <1>7 DEF RecvSend
    <3>2. net' = [net EXCEPT !.dropped = @ \cup {p}] BY <1>1, <3>1
    <3> QED BY <3>1, <3>2 DEF Dropped, Shapes
  <2>2. Queued' = Queued BY <2>1 DEF Queued
  <2>3. Shapes' BY <1>2, <2>1 DEF Shapes
  <2>4. OnTheWay' BY <1>2, <2>1, <2>2 DEF OnTheWay
  <2>5. CountsAddUp'
    <3>1. (net.arrived = net.dropped \cup net.handled \cup Queued \cup recv.hand \cup proc.hand)'
      BY <1>1, <1>2, <2>1, <2>2 DEF CountsAddUp
    <3>2. stats.received = (stats.dropped + 1) + Cardinality(net.handled) + Len(packets)
                            + 0 + Cardinality(proc.hand)
      BY <1>3, <1>4 DEF CountsAddUp, Shapes
    <3> QED BY <1>2, <1>3, <2>1, <3>1, <3>2 DEF CountsAddUp
  <2> QED BY <1>5, <2>3, <2>4, <2>5
<1> QED BY <1>6, <1>7

\* The head of the channel moves to processLoop's hands.
LEMMA ProcTakeStep == ASSUME TapInv, ProcTake PROVE TapInv'
<1> USE FS_EmptySet, FS_Singleton DEF TapInv
<1>1. /\ proc' = [at |-> "handle", hand |-> {Head(packets)}] /\ packets' = Tail(packets)
      /\ UNCHANGED <<recv, stats, net>> /\ packets # <<>> /\ proc.hand = {}
  BY DEF ProcTake, Hands
<1>2. /\ Head(packets) \in Packets /\ packets' \in Seq(Packets) /\ Len(packets') = Len(packets) - 1
      /\ Head(packets) = packets[1] /\ 1 \in DOMAIN packets
      /\ \A i \in DOMAIN packets' : i + 1 \in DOMAIN packets /\ packets'[i] = packets[i + 1]
      /\ \A i \in DOMAIN packets : i = 1 \/ i - 1 \in DOMAIN packets'
  BY <1>1 DEF Shapes
<1>3. Queued = Queued' \cup {Head(packets)} /\ Head(packets) \notin Queued'
  <2>1. \A i \in DOMAIN packets : i # 1 => packets[i] \in Queued'
    <3> SUFFICES ASSUME NEW i \in DOMAIN packets, i # 1 PROVE packets[i] \in Queued' OBVIOUS
    <3>1. i - 1 \in DOMAIN packets' /\ i \in Nat BY <1>2 DEF Shapes
    <3>2. packets'[i - 1] = packets[i] BY <1>2, <3>1
    <3> QED BY <3>1, <3>2 DEF Queued
  <2>2. \A q \in Queued' : q \in Queued /\ q # Head(packets)
    <3> TAKE q \in Queued'
    <3>0. PICK i \in DOMAIN packets' : q = packets'[i] BY Zenon DEF Queued
    <3>1. i + 1 # 1 /\ i \in Nat BY <1>2 DEF Shapes
    <3>2. i + 1 \in DOMAIN packets /\ packets'[i] = packets[i + 1] BY <1>2
    <3>3. packets[i + 1] \in Queued BY <3>2, Zenon DEF Queued
    <3>4. packets[i + 1] # packets[1] BY <1>2, <3>1, <3>2, Zenon DEF OnTheWay
    <3> QED BY <1>2, <3>0, <3>2, <3>3, <3>4, Zenon
  <2>3. Queued \subseteq Queued' \cup {Head(packets)} BY <1>2, <2>1 DEF Queued
  <2>4. Head(packets) \in Queued BY <1>2 DEF Queued
  <2>5. Queued = Queued' \cup {Head(packets)} BY <2>2, <2>3, <2>4
  <2> QED BY <2>2, <2>5
<1>4. Shapes' BY <1>1, <1>2 DEF Shapes
<1>5. Hands' BY <1>1, <1>2 DEF Hands
<1>6. OnTheWay'
  <2>1. \A i, j \in DOMAIN packets' : packets'[i] = packets'[j] => i = j
    <3> SUFFICES ASSUME NEW i \in DOMAIN packets', NEW j \in DOMAIN packets', packets'[i] = packets'[j]
                 PROVE  i = j
      OBVIOUS
    <3>1. i \in Nat /\ j \in Nat BY <1>2 DEF Shapes
    <3>2. /\ i + 1 \in DOMAIN packets /\ packets'[i] = packets[i + 1]
          /\ j + 1 \in DOMAIN packets /\ packets'[j] = packets[j + 1]
      BY <1>2
    <3>3. i + 1 = j + 1 BY <3>2, Zenon DEF OnTheWay
    <3> QED BY <3>1, <3>3
  <2> QED BY <1>1, <1>3, <2>1 DEF OnTheWay
<1>7. CountsAddUp'
  <2>1. Cardinality({Head(packets)}) = 1 /\ Cardinality(proc.hand) = 0 BY <1>1
  <2>2. Cardinality(net.handled) \in Nat /\ Cardinality(recv.hand) \in Nat /\ Len(packets) \in Nat
    BY CountsAreNats
  <2> QED BY <1>1, <1>2, <1>3, <2>1, <2>2 DEF CountsAddUp, Shapes
<1> QED BY <1>4, <1>5, <1>6, <1>7

\* The packet in processLoop's hands has been handled.
LEMMA HandleStep == ASSUME TapInv, HandlePacket PROVE TapInv'
<1> USE FS_EmptySet, FS_Singleton DEF TapInv
<1>1. PICK p \in Packets : proc.hand = {p} BY DEF HandlePacket, Hands
<1>2. /\ net' = [arrived |-> net.arrived, dropped |-> net.dropped, handled |-> net.handled \cup {p}]
      /\ proc' = [at |-> "select", hand |-> {}] /\ UNCHANGED <<packets, recv>>
      /\ stats' = [stats EXCEPT !.written = Written(p)]
  BY <1>1 DEF HandlePacket, Shapes
<1>3. /\ stats'.received = stats.received /\ stats'.dropped = stats.dropped
      /\ stats' = [received |-> stats'.received, dropped |-> stats'.dropped, written |-> stats'.written]
  BY <1>2 DEF Shapes
<1>4. /\ IsFiniteSet(net'.handled)
      /\ Cardinality(net'.handled) = Cardinality(net.handled) + 1
  BY <1>1, <1>2, FS_AddElement DEF Shapes, OnTheWay
<1>5. Queued' = Queued BY <1>2 DEF Queued
<1>6. Shapes' BY <1>2, <1>3, <1>4 DEF Shapes
<1>7. Hands' BY <1>2 DEF Hands
<1>8. OnTheWay' BY <1>1, <1>2, <1>5 DEF OnTheWay
<1>9. CountsAddUp'
  <2>1. Cardinality({}) = 0 /\ Cardinality(proc.hand) = 1 BY <1>1
  <2>2. Cardinality(net.handled) \in Nat /\ Cardinality(recv.hand) \in Nat /\ Len(packets) \in Nat
    BY CountsAreNats
  <2> QED BY <1>1, <1>2, <1>3, <1>4, <1>5, <2>1, <2>2 DEF CountsAddUp, Shapes
<1> QED BY <1>6, <1>7, <1>8, <1>9

\* Every packet counted as received is dropped and counted so, queued, in a loop's hands
\* or handled, for any number of packets and any size of the channel.
THEOREM StatusAddsUp == Spec => []CountsAddUp
<1>1. Init => TapInv
  <2> SUFFICES ASSUME Init PROVE TapInv OBVIOUS
  <2>1. Queued = {} BY DEF Init, Queued
  <2>2. Cardinality({}) = 0 /\ IsFiniteSet({}) BY FS_EmptySet
  <2>3. Shapes BY <2>2 DEF Init, Shapes
  <2>4. Hands BY DEF Init, Hands
  <2>5. OnTheWay BY <2>1 DEF Init, OnTheWay
  <2>6. CountsAddUp BY <2>1, <2>2 DEF Init, CountsAddUp
  <2> QED BY <2>3, <2>4, <2>5, <2>6 DEF TapInv
<1>2. TapInv /\ [Next]_vars => TapInv'
  <2> SUFFICES ASSUME TapInv, [Next]_vars PROVE TapInv' OBVIOUS
  <2>1. CASE UNCHANGED <<packets, recv, proc, stats, net>>
    BY <2>1 DEF TapInv, Shapes, Hands, OnTheWay, CountsAddUp, Queued
  <2>2. ASSUME NEW at, at # "send", recv.at # "send", recv' = [recv EXCEPT !.at = at],
               UNCHANGED <<packets, proc, stats, net>>
        PROVE  TapInv'
    <3>1. recv' = [at |-> at, hand |-> recv.hand] BY <2>2 DEF TapInv, Shapes
    <3>2. Queued' = Queued BY <2>2 DEF Queued
    <3> QED BY <2>2, <3>1, <3>2 DEF TapInv, Shapes, Hands, OnTheWay, CountsAddUp
  <2>3. CASE RecvSelect BY <2>2, <2>3 DEF RecvSelect
  <2>4. CASE RecvError BY <2>2, <2>4 DEF RecvError
  <2>5. CASE ProcStops
    <3>1. /\ proc' = [at |-> "done", hand |-> proc.hand] /\ proc.at = "select"
          /\ UNCHANGED <<packets, recv, stats, net>>
      BY <2>5 DEF ProcStops, TapInv, Shapes
    <3>2. Queued' = Queued BY <3>1 DEF Queued
    <3> QED BY <3>1, <3>2 DEF TapInv, Shapes, Hands, OnTheWay, CountsAddUp
  <2>6. CASE Stop \/ ((Cleanup \/ CleanupStops \/ Advance) /\ UNCHANGED tapVars) \/ UNCHANGED vars
    BY <2>1, <2>6 DEF Stop, StopBegin, StopConn, StopWriter, tapVars, vars
  <2> QED BY <2>3, <2>4, <2>5, <2>6, RecvPacketStep, RecvSendStep, ProcTakeStep, HandleStep DEF Next
<1>3. TapInv => CountsAddUp BY DEF TapInv
<1> QED BY <1>1, <1>2, <1>3, PTL DEF Spec
===============================================================================
