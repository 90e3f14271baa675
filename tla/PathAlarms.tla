----------------------------- MODULE PathAlarms -----------------------------
(***************************************************************************)
(* The other findings of pathWatch (dpilog.go): a blackhole, its recovery, *)
(* and a collapse of the receive rate against the link's own history.  The *)
(* timer goroutine sleeps for a tick or longer, reads the tunnel's         *)
(* counters, and looks at the time of the last packet again as it judges;  *)
(* the tunnel sends and receives at any moment between.                    *)
(*                                                                         *)
(* Two clocks are in play.  Arrivals are stamped in wall-clock seconds,    *)
(* and a silence since the last one is measured on the wall clock, which   *)
(* an administrator or NTP may set forth and back; silence since start-up  *)
(* is measured on the monotonic clock, of which startAt carries a reading. *)
(***************************************************************************)
EXTENDS Integers, Sequences, FiniteSets, FiniteSetsExt

CONSTANTS Silence,      \* silence longer than this is a blackhole (SilenceSec)
          RatesKept,    \* turns of the receive rate remembered (30)
          RatesNeeded,  \* turns before they are judged (12)
          RatesRecent,  \* of which the last ones are "recent" (3)
          BusyRate,     \* a peak above this makes a link busy (250 kB/s)
          Bursts,       \* what may arrive between two turns
          MaxNow,       \* bound: the monotonic clock, and where the other may be set
          MaxSettings,  \* bound: settings of the wall clock
          MaxArrivals,  \* bound: arrivals
          MaxTurns      \* bound: turns of the timer

ASSUME AlarmAssumption ==
  /\ Silence \in Nat /\ RatesRecent \in Nat \ {0}
  /\ RatesNeeded \in Nat /\ RatesNeeded > RatesRecent
  /\ RatesKept \in Nat /\ RatesKept >= RatesNeeded
  /\ BusyRate \in Nat /\ Bursts \subseteq Nat /\ MaxNow \in Nat

VARIABLES now,         \* the monotonic clock; the process started at 1
          wall,        \* the wall clock
          settings,
          lastRxUnix,  \* t.lastRxUnix; 0 = never
          rxBytes, txBytes,
          alarm,       \* the goroutine's locals, and where it stands
          turns,
          blackholed,
          rates,       \* rateHistory
          arrivals,    \* history: how often something was heard,
          raised,      \* how often when the blackhole was raised, and the wall clock then,
          spoke,       \* what the last turn reported,
          busySince    \* and whether the link was busy since the last collapse

alarmClocks == <<now, wall, settings>>
traffic == <<lastRxUnix, rxBytes, txBytes, arrivals>>
findings == <<blackholed, rates, raised, busySince>>
alarmVars == <<alarmClocks, traffic, alarm, turns, findings, spoke>>

StartAt == 1
\* seen: the arrivals the reading includes.
AlarmAsleep == [at |-> "sleep", lastRx |-> 0, seen |-> 0, rx |-> 0, tx |-> 0,
                lastRxB |-> 0, lastTxB |-> 0]

AlarmInit ==
  /\ now = StartAt /\ wall = StartAt /\ settings = 0
  /\ lastRxUnix = 0 /\ rxBytes = 0 /\ txBytes = 0 /\ arrivals = 0
  /\ alarm = AlarmAsleep /\ turns = 0
  /\ blackholed = FALSE /\ rates = <<>>
  /\ raised = [heard |-> 0, wall |-> 0] /\ spoke = {} /\ busySince = TRUE

-----------------------------------------------------------------------------

Pass ==
  /\ now < MaxNow /\ now' = now + 1 /\ wall' = wall + 1
  /\ UNCHANGED <<settings, traffic, alarm, turns, findings, spoke>>

\* The wall clock is set, forth or back.
SetClock ==
  /\ settings < MaxSettings /\ settings' = settings + 1
  /\ wall' \in StartAt..MaxNow
  /\ UNCHANGED <<now, traffic, alarm, turns, findings, spoke>>

\* An authenticated packet, or several; the clock is stamped as they are opened.
Hear(n) ==
  /\ arrivals < MaxArrivals /\ arrivals' = arrivals + 1
  /\ rxBytes' = rxBytes + n /\ lastRxUnix' = wall
  /\ UNCHANGED <<alarmClocks, txBytes, alarm, turns, findings, spoke>>
Speak ==
  /\ txBytes = alarm.lastTxB /\ txBytes' = txBytes + 1
  /\ UNCHANGED <<alarmClocks, lastRxUnix, rxBytes, arrivals, alarm, turns, findings, spoke>>

\* A turn: the counters are read first.
ReadCounters ==
  /\ alarm.at = "sleep" /\ turns < MaxTurns
  /\ turns' = turns + 1
  /\ alarm' = [alarm EXCEPT !.at = "judge", !.rx = rxBytes, !.tx = txBytes,
                            !.lastRx = lastRxUnix, !.seen = arrivals]
  /\ spoke' = {}
  /\ UNCHANGED <<alarmClocks, traffic, findings>>

\* silenceRef: start-up counts where nothing was ever heard, on its own clock.
Silent ==
  IF alarm.lastRx > 0 THEN wall - alarm.lastRx > Silence ELSE now - StartAt > Silence
Sending == alarm.tx > alarm.lastTxB

\* The rates, with this turn's, and the sum of the recent ones.
RatesNow ==
  LET all == Append(rates, alarm.rx - alarm.lastRxB)
  IN IF Len(all) > RatesKept THEN Tail(all) ELSE all
Recent == FoldFunctionOnSet(LAMBDA r, acc : acc + r, 0, RatesNow,
                            Len(RatesNow) - RatesRecent + 1..Len(RatesNow))
\* recent / RatesRecent < peak * 0.15: the peak of the older rates meets the two
\* conditions if any of them does.
Collapsed ==
  /\ Len(RatesNow) >= RatesNeeded /\ Sending
  /\ \E i \in 1..Len(RatesNow) - RatesRecent :
       RatesNow[i] > BusyRate /\ 20 * Recent < 3 * RatesRecent * RatesNow[i]

\* Mutant: a pause of our own sending ends the blackhole.
MutantRecovered ==
  /\ alarm.at = "judge"
  /\ blackholed' = (Silent /\ Sending)
  /\ rates' = IF Collapsed THEN <<>> ELSE RatesNow
  /\ spoke' = (IF ~blackholed /\ blackholed' THEN {"blackhole"} ELSE {})
              \union (IF blackholed /\ ~blackholed' THEN {"recovered"} ELSE {})
              \union (IF Collapsed THEN {"throttle"} ELSE {})
  /\ raised' = IF "blackhole" \in spoke' THEN [heard |-> alarm.seen, wall |-> wall] ELSE raised
  /\ busySince' = (~Collapsed /\ (busySince \/ alarm.rx - alarm.lastRxB > BusyRate))
  /\ alarm' = [AlarmAsleep EXCEPT !.lastRxB = alarm.rx, !.lastTxB = alarm.tx,
                                  !.seen = alarm.seen]
  /\ UNCHANGED <<alarmClocks, traffic, turns>>

\* The turn's findings, all of them of the one reading.
JudgePath ==
  /\ alarm.at = "judge"
  /\ blackholed' = IF Silent /\ Sending THEN TRUE ELSE IF ~Silent THEN FALSE ELSE blackholed
  /\ rates' = IF Collapsed THEN <<>> ELSE RatesNow
  /\ spoke' = (IF ~blackholed /\ blackholed' THEN {"blackhole"} ELSE {})
              \union (IF blackholed /\ ~blackholed' THEN {"recovered"} ELSE {})
              \union (IF Collapsed THEN {"throttle"} ELSE {})
  /\ raised' = IF "blackhole" \in spoke' THEN [heard |-> alarm.seen, wall |-> wall] ELSE raised
  /\ busySince' = (~Collapsed /\ (busySince \/ alarm.rx - alarm.lastRxB > BusyRate))
  /\ alarm' = [AlarmAsleep EXCEPT !.lastRxB = alarm.rx, !.lastTxB = alarm.tx,
                                  !.seen = alarm.seen]
  /\ UNCHANGED <<alarmClocks, traffic, turns>>

AlarmNext ==
  \/ Pass \/ SetClock \/ Speak \/ ReadCounters \/ JudgePath
  \/ \E n \in Bursts : Hear(n)

AlarmSpec == AlarmInit /\ [][AlarmNext]_alarmVars

-----------------------------------------------------------------------------

\* Type correctness.
AlarmTypeOK ==
  /\ now \in StartAt..MaxNow /\ wall \in StartAt..2 * MaxNow /\ lastRxUnix \in 0..2 * MaxNow
  /\ alarm.seen <= arrivals /\ settings <= MaxSettings
  /\ rxBytes >= alarm.lastRxB /\ txBytes >= alarm.lastTxB
  /\ Len(rates) <= RatesKept /\ alarm.at \in {"sleep", "judge"} /\ turns \in 0..MaxTurns

(* A finding is earned.  A recovery is reported only for a blackhole that  *)
(* stands, and only if a packet was heard that the judgement behind the    *)
(* blackhole had not seen, or the wall clock shows an earlier time than it *)
(* did then; so the two alternate, and neither silence nor a pause of our  *)
(* own sending is ever taken for a recovery, whatever the delay between    *)
(* reading and judging.  And one collapse is reported once: between two    *)
(* throttle findings the link was busy again (pathWatch).                  *)
FindingsEarned ==
  [][alarm.at = "judge" /\ alarm'.at = "sleep" =>
       /\ "recovered" \in spoke' => blackholed /\ (alarm.seen > raised.heard \/ wall < raised.wall)
       /\ "blackhole" \in spoke' => ~blackholed
       /\ "throttle" \in spoke' => busySince]_alarmVars

(* A recovery is heard: "traffic from the peer resumed" is reported only   *)
(* if something came since the blackhole was raised (pathWatch's message). *)
RecoveryHeard == "recovered" \in spoke => alarm.seen > raised.heard
=============================================================================
