------------------------------ MODULE PcapWriter ------------------------------
(***************************************************************************)
(* The pcap files of vTap, PcapWriter in internal/collector/vtap.go.  Write *)
(* runs under the mutex mu, cleanup does not.  Time is in seconds, the      *)
(* resolution of the file names: a file is named by the time of its        *)
(* creation.  A Write takes no time.  Packet and file headers are left out. *)
(***************************************************************************)
EXTENDS Integers, FiniteSets, Functions

CONSTANTS Packets,  \* numbers
          Units,    \* w.units, the span of a file
          Expires,  \* w.expires, the age at which a file is removed
          MaxTime   \* bound on the clock

\* The documented values ("1m, 5m, 1h" and "24h, 72h") have Units below Expires.
ASSUME PcapAssumption ==
  /\ Packets \subseteq Nat /\ Units \in Nat \ {0} /\ Expires \in Nat /\ MaxTime \in Nat
  /\ Units <= Expires

None == -1

VARIABLES now,      \* the clock
          files,    \* the files in dir: time of creation -> [mod, pkts]
          current,  \* w.current, by its name, or None
          startTime, \* w.startTime
          handle,   \* whether the file w.current is open
          cleaner,  \* [at, list, cutoff, old] of cleanupLoop: where it is, the
                    \* entries to look at, the age limit of this cleanup, and
                    \* the file found old
          wstop,    \* w.stopCh is closed
          whist     \* [counted, stored, skipped, refused, early]: the packets whose
                    \* Write returned nil, those that reached a file, those whose
                    \* Write rotated or came after Close, those the file system
                    \* refused, and those removed too early

pcapVars == <<now, files, current, startTime, handle, cleaner, wstop, whist>>

PcapInit ==
  /\ now = 0 /\ files = <<>> /\ current = None /\ startTime = 0 /\ handle = FALSE
  /\ cleaner = [at |-> "wait", list |-> {}, cutoff |-> 0, old |-> None]
  /\ wstop = FALSE
  /\ whist = [counted |-> {}, stored |-> {}, skipped |-> {}, refused |-> {}, early |-> {}]

-------------------------------------------------------------------------------
(* Write and rotate *)

Due(t) == t - startTime >= Units

\* os.Create with the time as the name truncates a file of that name.
Created(t) == [f \in DOMAIN files \cup {t} |->
                 IF f = t THEN [mod |-> t, pkts |-> {}] ELSE files[f]]

\* The packet that finds no file, or a file past its span, is not written, and
\* Write returns nil for it.
RotateTo(t, p) ==
  /\ files' = Created(t) /\ current' = t /\ startTime' = t /\ handle' = TRUE
  /\ whist' = [whist EXCEPT !.counted = @ \cup {p}, !.skipped = @ \cup {p}]

StartOfFailed == now  \* mutant: rotate sets startTime before os.Create

StartAfterFailure == startTime

\* os.Create fails: the old file is closed already and stays w.current.
RotateFails ==
  /\ handle' = FALSE /\ startTime' = StartAfterFailure
  /\ UNCHANGED <<files, current, whist>>

\* The writes of the record's header and of its data, n of which succeed: on a closed
\* file none does, on an open one the file system may refuse either.  Write ignores
\* their errors and returns nil.  A file that has been removed keeps nothing.
AppendPacket(p) ==
  \E n \in IF handle THEN 0..2 ELSE {0} :
    /\ files' = IF n > 0 /\ current \in DOMAIN files
                THEN [files EXCEPT ![current] =
                        [mod |-> now, pkts |-> IF n = 2 THEN @.pkts \cup {p} ELSE @.pkts]]
                ELSE files
    /\ whist' = [whist EXCEPT !.counted = @ \cup {p},
                   !.stored = IF n = 2 /\ current \in DOMAIN files THEN @ \cup {p} ELSE @,
                   !.skipped = IF wstop THEN @ \cup {p} ELSE @,
                   !.refused = IF handle /\ n < 2 THEN @ \cup {p} ELSE @]
    /\ UNCHANGED <<current, startTime, handle>>

Write(p) ==
  /\ \/ (current = None \/ Due(now)) /\ (RotateTo(now, p) \/ RotateFails)
     \/ current # None /\ ~Due(now) /\ AppendPacket(p)
  /\ UNCHANGED <<now, cleaner, wstop>>

-------------------------------------------------------------------------------
(* cleanupLoop, Close and the clock *)

\* The ticker starts a cleanup.
CleanupTick ==
  /\ cleaner.at = "wait"
  /\ cleaner' = [cleaner EXCEPT !.at = "list"]
  /\ UNCHANGED <<now, files, current, startTime, handle, wstop, whist>>

\* os.ReadDir, and the age limit.
CleanupBegin ==
  /\ cleaner.at = "list"
  /\ cleaner' = [at |-> "scan", list |-> DOMAIN files, cutoff |-> now - Expires,
                 old |-> None]
  /\ UNCHANGED <<now, files, current, startTime, handle, wstop, whist>>

ReadDirFails ==
  /\ cleaner.at = "list"
  /\ cleaner' = [cleaner EXCEPT !.at = "wait"]
  /\ UNCHANGED <<now, files, current, startTime, handle, wstop, whist>>

ExpiredAtAge(f) == files[f].mod <= cleaner.cutoff  \* mutant: <= for Before

Expired(f) == files[f].mod < cleaner.cutoff

\* One entry of the directory: it is kept, or found old and removed next.
CleanupStat(f) ==
  /\ cleaner.at = "scan" /\ f \in cleaner.list
  /\ cleaner' = IF Expired(f) THEN [cleaner EXCEPT !.at = "remove", !.old = f]
                ELSE [cleaner EXCEPT !.list = @ \ {f}]
  /\ UNCHANGED <<now, files, current, startTime, handle, wstop, whist>>

\* entry.Info fails: the entry is passed over.
InfoFails(f) ==
  /\ cleaner.at = "scan" /\ f \in cleaner.list
  /\ cleaner' = [cleaner EXCEPT !.list = @ \ {f}]
  /\ UNCHANGED <<now, files, current, startTime, handle, wstop, whist>>

\* Nothing keeps a Write from appending to the file between the two.
CleanupRemove(f) ==
  /\ cleaner.at = "remove" /\ f = cleaner.old
  /\ files' = Restrict(files, DOMAIN files \ {f})
  /\ cleaner' = [cleaner EXCEPT !.at = "scan", !.list = @ \ {f}, !.old = None]
  /\ whist' = IF files[f].mod >= now - Expires
              THEN [whist EXCEPT !.early = @ \cup files[f].pkts] ELSE whist
  /\ UNCHANGED <<now, current, startTime, handle, wstop>>

\* os.Remove fails, which is ignored.
RemoveFails(f) ==
  /\ cleaner.at = "remove" /\ f = cleaner.old
  /\ cleaner' = [cleaner EXCEPT !.at = "scan", !.list = @ \ {f}, !.old = None]
  /\ UNCHANGED <<now, files, current, startTime, handle, wstop, whist>>

CleanupOnce == "done"  \* mutant: the loop ends with its first cleanup

AfterCleanup == "wait"

CleanupEnd ==
  /\ cleaner.at = "scan" /\ cleaner.list = {}
  /\ cleaner' = [cleaner EXCEPT !.at = AfterCleanup]
  /\ UNCHANGED <<now, files, current, startTime, handle, wstop, whist>>

CleanupStops ==
  /\ cleaner.at = "wait" /\ wstop
  /\ cleaner' = [cleaner EXCEPT !.at = "done"]
  /\ UNCHANGED <<now, files, current, startTime, handle, wstop, whist>>

Cleanup ==
  \/ CleanupTick \/ CleanupBegin \/ ReadDirFails \/ CleanupEnd
  \/ \E f \in DOMAIN files :
       CleanupStat(f) \/ InfoFails(f) \/ CleanupRemove(f) \/ RemoveFails(f)

\* w.current keeps the closed file.
WriterClose ==
  /\ ~wstop /\ wstop' = TRUE /\ handle' = FALSE
  /\ UNCHANGED <<now, files, current, startTime, cleaner, whist>>

Advance ==
  /\ now < MaxTime /\ now' = now + 1
  /\ UNCHANGED <<files, current, startTime, handle, cleaner, wstop, whist>>

-------------------------------------------------------------------------------
(* Properties *)

\* cleanup, which checks a file's age and removes it without the mutex, never
\* removes a packet younger than Expires: a file old enough to be removed is
\* past its span, so no Write can append to it in between.
FreshPacketsSurvive == whist.early = {}

\* Every packet Write returns nil for is in a file, whatever failed rotations came
\* before, but for the packet of a rotation, those handed in after Close and those
\* the file system refused while the file was open, whose error Write ignores.
CountedIsStored ==
  whist.counted \subseteq whist.stored \cup whist.skipped \cup whist.refused

\* A step in which the file system keeps cleanup from a file it would have removed.
CleanupHindered ==
  \/ ReadDirFails
  \/ \E f \in DOMAIN files : (Expired(f) /\ InfoFails(f)) \/ RemoveFails(f)

\* cleanupLoop removes every file that is past its age, until it is stopped, provided
\* the file system does not fail cleanups for ever: what one cleanup leaves because
\* ReadDir, Info or Remove failed, a later one removes.
ExpiredAreRemoved ==
  <>[][~CleanupHindered]_pcapVars =>
    \A f \in 0..MaxTime :
      (IF f \in DOMAIN files THEN files[f].mod < now - Expires ELSE FALSE)
        ~> (f \notin DOMAIN files \/ wstop)
===============================================================================
