------------------------------ MODULE EventLog ------------------------------
(***************************************************************************)
(* The observer's log (dpilog.go): watchers hand events to one writer over *)
(* a bounded channel, never blocking; the writer rations lines per minute, *)
(* appends them to a file and rotates the file by renaming generations.    *)
(* Every rename is a step of its own, so that the process may be killed,   *)
(* and the report may read, between any two of them.                       *)
(*                                                                         *)
(* An event is its number in the order of emission.  A line is             *)
(* [kind |-> "event", n |-> that number] or                                *)
(* [kind |-> "limited", n |-> how many events were suppressed]; every line *)
(* has the same length, one unit of MaxSize.  A file remembers where in    *)
(* all that was ever written its first line stands.                        *)
(***************************************************************************)
EXTENDS Integers, Sequences, FiniteSets

CONSTANTS LogRoom,      \* capacity of the channel (1024)
          MaxSize,      \* a file longer than this is rotated (MaxSizeMB)
          Keep,         \* rotated generations kept
          MaxPerMin,    \* lines per minute
          MaxEvents,    \* bound: events emitted
          MaxMinutes,   \* bound: minutes that pass
          MaxKills,     \* bound: times the process is killed
          MaxDiskFaults \* bound: opens and writes that fail

\* Settings that are not positive are replaced by defaults.
ASSUME LogAssumption ==
  LogRoom \in Nat /\ MaxSize \in Nat \ {0} /\ Keep \in Nat \ {0} /\ MaxPerMin \in Nat \ {0}

VARIABLES queue,     \* d.events: accepted, not yet taken by the writer
          offered,   \* events handed to emit so far
          dropped,   \* d.dropped
          files,     \* generation |-> [from, lines]; 0 is the file being written
          writer,    \* the writer's locals and where it stands in its loop
          minute,    \* the wall clock, in minutes
          kills, diskFaults,
          history,   \* every line ever written, in order
          mentioned, \* events those lines speak of
          lost       \* accepted events that neither reached a file nor were rationed

logVars == <<queue, offered, dropped, files, writer, minute, kills, diskFaults,
             history, mentioned, lost>>

\* What a text of one line, or none, tells of.
Says(text) == IF text = <<>> THEN 0 ELSE IF text[1].kind = "limited" THEN text[1].n ELSE 1

\* os.Remove and os.Rename: a file that is not there is left alone.
RemoveFile(fs, g) == [h \in DOMAIN fs \ {g} |-> fs[h]]
RenameFile(fs, g, h) ==
  IF g \notin DOMAIN fs THEN fs
  ELSE [k \in (DOMAIN fs \ {g}) \union {h} |-> IF k = h THEN fs[g] ELSE fs[k]]

\* open(): appends to the file, creating it, and takes its size as found.
Opened(fs) ==
  IF 0 \in DOMAIN fs THEN fs
  ELSE [g \in DOMAIN fs \union {0} |->
          IF g = 0 THEN [from |-> Len(history), lines |-> <<>>] ELSE fs[g]]
Written(fs, text) == [fs EXCEPT ![0].lines = @ \o text]
FreshWriter(m) == [at |-> "open", gen |-> 0, open |-> FALSE, size |-> 0,
                   minute |-> m, inMin |-> 0, limited |-> FALSE]

LogInit ==
  /\ queue = <<>> /\ offered = 0 /\ dropped = 0
  /\ files = [g \in {} |-> [from |-> 0, lines |-> <<>>]]
  /\ writer = FreshWriter(0)
  /\ minute = 0 /\ kills = 0 /\ diskFaults = 0
  /\ history = <<>> /\ mentioned = 0 /\ lost = 0

-----------------------------------------------------------------------------

\* emit: a non-blocking send.
Emit ==
  /\ offered < MaxEvents
  /\ offered' = offered + 1
  /\ IF Len(queue) < LogRoom
     THEN queue' = Append(queue, offered') /\ UNCHANGED dropped
     ELSE dropped' = dropped + 1 /\ UNCHANGED queue
  /\ UNCHANGED <<files, writer, minute, kills, diskFaults, history, mentioned, lost>>

\* open(), at start-up and after a rotation.
OpenFile ==
  /\ writer.at = "open"
  /\ \/ /\ files' = Opened(files)
        /\ writer' = [writer EXCEPT !.at = "idle", !.open = TRUE,
                                    !.size = Len(files'[0].lines)]
        /\ UNCHANGED diskFaults
     \/ /\ diskFaults < MaxDiskFaults
        /\ diskFaults' = diskFaults + 1
        /\ writer' = [writer EXCEPT !.at = "idle", !.open = FALSE]
        /\ UNCHANGED files
  /\ UNCHANGED <<queue, offered, dropped, minute, kills, history, mentioned, lost>>

\* What the writer has rationed away in the minute it is in, and the line that says
\* so: due when the minute has changed, if the file is open.
Suppressed(w) == IF w.limited THEN w.inMin - MaxPerMin ELSE 0
Announcement(w) ==
  IF w.minute # minute /\ w.limited /\ w.open
  THEN <<[kind |-> "limited", n |-> Suppressed(w)]>> ELSE <<>>
\* Mutant: the new minute starts with what the old one suppressed still on the books.
MutantInMinute(w) ==
  IF w.minute = minute THEN w ELSE [w EXCEPT !.minute = minute, !.inMin = 0]
InMinute(w) ==
  IF w.minute = minute THEN w
  ELSE [w EXCEPT !.minute = minute, !.inMin = 0, !.limited = FALSE]

\* One turn of the writer's loop: the minute's bookkeeping with the announcement
\* `said`, then the event is rationed, or written (the file being opened first if
\* it is not), or lost to a failing disk.
Turn(said) ==
  LET w == [InMinute(writer) EXCEPT !.inMin = @ + 1, !.size = @ + Len(said)]
      fs0 == IF said = <<>> THEN files ELSE Written(files, said)
      line == <<[kind |-> "event", n |-> Head(queue)]>>
      unsaid == IF writer.minute # minute /\ said = <<>> THEN Suppressed(writer) ELSE 0
  IN \/ /\ w.inMin > MaxPerMin
        /\ writer' = [w EXCEPT !.limited = TRUE]
        /\ files' = fs0 /\ history' = history \o said /\ mentioned' = mentioned + Says(said)
        /\ lost' = lost + unsaid
        /\ UNCHANGED diskFaults
     \/ /\ w.inMin <= MaxPerMin
        /\ LET fs == Opened(fs0)
               size == (IF w.open THEN w.size ELSE Len(fs[0].lines)) + 1
           IN /\ files' = Written(fs, line)
              /\ writer' = [w EXCEPT !.open = size <= MaxSize, !.size = size,
                                     !.at = IF size > MaxSize THEN "remove" ELSE "idle"]
        /\ history' = history \o said \o line /\ mentioned' = mentioned + Says(said) + Says(line)
        /\ lost' = lost + unsaid
        /\ UNCHANGED diskFaults
     \/ /\ w.inMin <= MaxPerMin /\ diskFaults < MaxDiskFaults
        /\ diskFaults' = diskFaults + 1
        /\ writer' = [w EXCEPT !.open = FALSE]
        /\ files' \in {fs0, Opened(fs0)}
        /\ history' = history \o said /\ mentioned' = mentioned + Says(said)
        /\ lost' = lost + unsaid + 1

\* The write of the announcement may fail; its error is not looked at.
WriteNext ==
  /\ writer.at = "idle" /\ queue # <<>>
  /\ queue' = Tail(queue)
  /\ \E said \in {Announcement(writer), <<>>} : Turn(said)
  /\ UNCHANGED <<offered, dropped, minute, kills>>

\* Mutant: the file is renamed at once, the older generations are not moved up.
MutantRotateRemove ==
  /\ writer.at = "remove"
  /\ files' = RemoveFile(files, Keep)
  /\ writer' = [writer EXCEPT !.at = "rename", !.gen = 0]
  /\ UNCHANGED <<queue, offered, dropped, minute, kills, diskFaults, history, mentioned, lost>>

\* rotate(): the oldest goes, the others move up one by one, then the file itself.
RotateRemove ==
  /\ writer.at = "remove"
  /\ files' = RemoveFile(files, Keep)
  /\ writer' = [writer EXCEPT !.at = "rename", !.gen = Keep - 1]
  /\ UNCHANGED <<queue, offered, dropped, minute, kills, diskFaults, history, mentioned, lost>>

RotateRename ==
  /\ writer.at = "rename"
  /\ files' = RenameFile(files, writer.gen, writer.gen + 1)
  /\ writer' = IF writer.gen > 0 THEN [writer EXCEPT !.gen = @ - 1]
               ELSE [writer EXCEPT !.at = "open"]
  /\ UNCHANGED <<queue, offered, dropped, minute, kills, diskFaults, history, mentioned, lost>>

\* The wall clock, and the process being killed: what is in memory is gone, and
\* the next process starts its writer on the files as they stand.
Minute ==
  /\ minute < MaxMinutes
  /\ minute' = minute + 1
  /\ UNCHANGED <<queue, offered, dropped, files, writer, kills, diskFaults,
                 history, mentioned, lost>>

Kill ==
  /\ kills < MaxKills
  /\ kills' = kills + 1
  /\ lost' = lost + Len(queue) + dropped + Suppressed(writer)
  /\ queue' = <<>> /\ dropped' = 0
  /\ writer' = FreshWriter(minute)
  /\ UNCHANGED <<offered, files, minute, diskFaults, history, mentioned>>

LogNext ==
  Emit \/ OpenFile \/ WriteNext \/ RotateRemove \/ RotateRename \/ Minute \/ Kill

-----------------------------------------------------------------------------

\* Type correctness.
LogTypeOK ==
  /\ queue \in Seq(1..MaxEvents) /\ Len(queue) <= LogRoom
  /\ offered \in 0..MaxEvents /\ dropped \in 0..MaxEvents /\ lost \in 0..MaxEvents
  /\ DOMAIN files \subseteq 0..Keep
  /\ writer.at \in {"open", "idle", "remove", "rename"} /\ writer.gen \in 0..Keep
  /\ writer.minute \in 0..minute

\* The files, oldest generation first, are the end of what was written, in order,
\* with nothing missing between: whenever the process is killed inside a rotation
\* and whatever opens and writes fail, a rename never lands on a generation that is
\* still wanted.  They hold Keep files' worth of it, less one file for every kill, and
\* stay small: no file passes the limit by more than the announcement and the line
\* that took it there, and a line for every kill that cut its rotation short.
End(g) == files[g].from + Len(files[g].lines)
Contiguous ==
  \A g \in DOMAIN files :
    /\ \A i \in DOMAIN files[g].lines : files[g].lines[i] = history[files[g].from + i]
    /\ End(g) = Len(history) \/ \E h \in DOMAIN files : h < g /\ files[h].from = End(g)
    /\ \A h \in DOMAIN files : h < g => End(g) <= files[h].from
Enough ==
  /\ Len(history) > 0 => DOMAIN files # {}
  /\ \A g \in DOMAIN files :
       (\A h \in DOMAIN files : h <= g) =>
         \/ files[g].from = 0
         \/ Len(history) - files[g].from >= (Keep - kills) * (MaxSize + 1)
Small == \A g \in DOMAIN files : Len(files[g].lines) <= MaxSize + 2 + kills
HistoryKept == Contiguous /\ Enough /\ Small

\* Every event handed to emit is waiting, was counted as dropped, is a line of the
\* log, is counted by an announcement made or still owed, or went down with a
\* failing disk or the process: an event rationed away never goes unmentioned.
EveryEventAccounted ==
  offered = dropped + Len(queue) + mentioned + Suppressed(writer) + lost
=============================================================================
