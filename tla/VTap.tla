--------------------------------- MODULE VTap ---------------------------------
(***************************************************************************)
(* The vTap collector in receiver mode (internal/collector/vtap.go), with  *)
(* its PcapWriter: receiveLoop takes packets from the UDP socket and sends *)
(* them to a bounded channel without ever blocking on it, processLoop      *)
(* writes them to the pcap file, and Stop closes everything without        *)
(* waiting for either.  In capture mode nothing is put into the channel.   *)
(***************************************************************************)
EXTENDS PcapWriter, Sequences

CONSTANT ChanSize  \* 100000 in NewVTapCollector

ASSUME VTapAssumption == ChanSize \in Nat \ {0}

VARIABLES vstop,    \* v.stopCh is closed
          conn,     \* v.conn is open
          stopper,  \* how far Stop is: "no", "conn", "writer", "done"
          packets,  \* v.packets
          recv,     \* [at, hand] of receiveLoop
          proc,     \* [at, hand] of processLoop
          stats,    \* v.stats: received, dropped, written
          net       \* [arrived, dropped, handled]: the packets ReadFrom returned,
                    \* those thrown away, and those handlePacket is done with

tapVars == <<vstop, conn, stopper, packets, recv, proc, stats, net>>
vars == <<pcapVars, tapVars>>

\* The state Start leaves, with the writer enabled and the socket open.
Init ==
  /\ PcapInit
  /\ vstop = FALSE /\ conn = TRUE /\ stopper = "no" /\ packets = <<>>
  /\ recv = [at |-> "select", hand |-> {}] /\ proc = [at |-> "select", hand |-> {}]
  /\ stats = [received |-> 0, dropped |-> 0, written |-> 0]
  /\ net = [arrived |-> {}, dropped |-> {}, handled |-> {}]

-------------------------------------------------------------------------------
(* receiveLoop *)

RecvSelect ==
  /\ recv.at = "select"
  /\ recv' = [recv EXCEPT !.at = IF vstop THEN "done" ELSE "read"]
  /\ UNCHANGED <<pcapVars, vstop, conn, stopper, packets, proc, stats, net>>

\* Packets are numbered in the order in which they arrive.
RecvPacket(p) ==
  /\ recv.at = "read" /\ conn /\ p \notin net.arrived
  /\ \A q \in Packets : q < p => q \in net.arrived
  /\ recv' = [at |-> "send", hand |-> {p}]
  /\ stats' = [stats EXCEPT !.received = @ + 1]
  /\ net' = [net EXCEPT !.arrived = @ \cup {p}]
  /\ UNCHANGED <<pcapVars, vstop, conn, stopper, packets, proc>>

\* ReadFrom fails, as it does for ever once the socket is closed.
RecvError ==
  /\ recv.at = "read"
  /\ recv' = [recv EXCEPT !.at = "select"]
  /\ UNCHANGED <<pcapVars, vstop, conn, stopper, packets, proc, stats, net>>

DropUncounted == stats  \* mutant: the default case counts nothing

Dropped == [stats EXCEPT !.dropped = @ + 1]

Room == Len(packets) < ChanSize

\* The select with a default case: the packet is queued or dropped at once.
RecvSend ==
  /\ recv.at = "send"
  /\ \E p \in recv.hand :
       /\ packets' = IF Room THEN Append(packets, p) ELSE packets
       /\ net' = IF Room THEN net ELSE [net EXCEPT !.dropped = @ \cup {p}]
  /\ stats' = IF Room THEN stats ELSE Dropped
  /\ recv' = [at |-> "select", hand |-> {}]
  /\ UNCHANGED <<pcapVars, vstop, conn, stopper, proc>>

ReceiveLoop == RecvSelect \/ RecvSend \/ (~conn /\ RecvError)

-------------------------------------------------------------------------------
(* processLoop; its ticker only flushes the forwarder of capture mode *)

ProcTake ==
  /\ proc.at = "select" /\ packets # <<>>
  /\ proc' = [at |-> "handle", hand |-> {Head(packets)}]
  /\ packets' = Tail(packets)
  /\ UNCHANGED <<pcapVars, vstop, conn, stopper, recv, stats, net>>

Written(p) == stats.written + (IF p \in whist'.counted THEN 1 ELSE 0)

\* handlePacket; forwarding to an interface and parsing keep no state.
HandlePacket ==
  /\ proc.at = "handle"
  /\ \E p \in proc.hand :
       /\ Write(p)
       /\ stats' = [stats EXCEPT !.written = Written(p)]
       /\ net' = [net EXCEPT !.handled = @ \cup {p}]
  /\ proc' = [at |-> "select", hand |-> {}]
  /\ UNCHANGED <<vstop, conn, stopper, packets, recv>>

\* With packets in the channel too, select takes either case.
ProcStops ==
  /\ proc.at = "select" /\ vstop
  /\ proc' = [proc EXCEPT !.at = "done"]
  /\ UNCHANGED <<pcapVars, vstop, conn, stopper, packets, recv, stats, net>>

-------------------------------------------------------------------------------
(* Stop *)

StopBegin ==
  /\ stopper = "no" /\ vstop' = TRUE /\ stopper' = "conn"
  /\ UNCHANGED <<pcapVars, conn, packets, recv, proc, stats, net>>

SocketKept == conn  \* mutant: Stop does not close the socket

SocketClosed == FALSE

StopConn ==
  /\ stopper = "conn" /\ conn' = SocketClosed /\ stopper' = "writer"
  /\ UNCHANGED <<pcapVars, vstop, packets, recv, proc, stats, net>>

StopWriter ==
  /\ stopper = "writer" /\ WriterClose /\ stopper' = "done"
  /\ UNCHANGED <<vstop, conn, packets, recv, proc, stats, net>>

Stop == StopBegin \/ StopConn \/ StopWriter

Next ==
  \/ RecvSelect \/ RecvError \/ RecvSend \/ \E p \in Packets : RecvPacket(p)
  \/ ProcTake \/ HandlePacket \/ ProcStops \/ Stop
  \/ (Cleanup \/ CleanupStops \/ Advance) /\ UNCHANGED tapVars

Spec == Init /\ [][Next]_vars

\* The goroutines keep running, Stop once begun goes on, and a select that sees
\* stopCh closed again and again takes that case in the end; the ticker of
\* cleanupLoop keeps ticking.  A socket that is open may leave ReadFrom blocked.
LiveSpec ==
  /\ Spec /\ WF_vars(ReceiveLoop) /\ WF_vars(StopConn \/ StopWriter)
  /\ WF_vars(ProcTake \/ HandlePacket) /\ SF_vars(ProcStops)
  /\ WF_vars(Cleanup /\ UNCHANGED tapVars)

-------------------------------------------------------------------------------
(* Properties *)

Queued == {packets[i] : i \in DOMAIN packets}

\* The counters of Status add up: every packet counted as received has been
\* dropped, and counted so, or is queued, in a loop's hands, or handled.
CountsAddUp ==
  /\ net.arrived = net.dropped \cup net.handled \cup Queued \cup recv.hand \cup proc.hand
  /\ stats.received = stats.dropped + Cardinality(net.handled) + Len(packets)
                       + Cardinality(recv.hand) + Cardinality(proc.hand)

\* Stop ends both loops, a ReadFrom that is blocked included.
LoopsEnd == vstop ~> (recv.at = "done" /\ proc.at = "done")
===============================================================================
