--------------------------- MODULE ObserverProofs ---------------------------
(***************************************************************************)
(* The observer's findings and its log (dpilog.go), for every value of the *)
(* constants: the kernel drops are told (KernelCounters), an episode of    *)
(* collapses or of silence is reported only for what was seen              *)
(* (PathAlarms), the hop count's baseline moves only on a run of packets   *)
(* (HopCount), a loss burst reports no more than what was missing          *)
(* (PathWatch), the log's files are the last stretch of what was written   *)
(* and no event goes missing unmentioned (EventLog), and strangers are     *)
(* counted right (Strangers). For the loss, every number that was counted  *)
(* is at or below the maximum, or in the hands of a receiver that has not  *)
(* placed it, or was passed by a rebase, so a reading of the count and a   *)
(* later one of the maximum are never further apart than the receivers'    *)
(* hands are full. For the log, each file ends where a younger one begins, *)
(* but for the hole that a rotation moves down the generations.            *)
(***************************************************************************)
EXTENDS PathWatch, PathAlarms, KernelCounters, HopCount, EventLog, Strangers, TLAPS,
        FiniteSetTheorems, SequenceTheorems
-----------------------------------------------------------------------------
(* The kernel's counters.                                                  *)

KernelSpec == KernelInit /\ [][KernelNext]_kernelVars

(* A counter moves by at least as much as its reading does, if the reading *)
(* goes up: it may have wrapped in between.                                *)
LEMMA ReadingsMove ==
  ASSUME NEW m \in Nat, NEW n \in Nat, m <= n
  PROVE  (n % Width) - (m % Width) <= n - m
<1>w. Width \in Nat /\ Width > 0
  BY KernelAssumption
<1>1. /\ m = Width * (m \div Width) + (m % Width) /\ m % Width \in 0..Width - 1
      /\ n = Width * (n \div Width) + (n % Width) /\ n % Width \in 0..Width - 1
      /\ m \div Width \in Int /\ n \div Width \in Int
  BY <1>w, Z3
<1>2. m \div Width <= n \div Width
  BY <1>w, <1>1, Z3
<1>3. Width * (m \div Width) <= Width * (n \div Width)
  BY <1>w, <1>1, <1>2, Z3
<1>q. QED
  BY <1>1, <1>3, <1>w

\* What the account of a counter rests on: the reading remembered is that of the
\* moment `seen` stands for, and one forgotten is marked.
KernelTyped ==
  /\ carrier \in {"icmp", "other"}
  /\ kernel \in [Counters -> Nat] /\ seen \in [Counters -> Nat] /\ told \in [Counters -> Nat]
  /\ base \in [Counters -> Nat \union {Nil}] /\ missed \in [Counters -> BOOLEAN]
  /\ kw \in [at : {"start", "block", "drops"}, block : Nat \union {Nil}, drops : Nat \union {Nil}]
Remembered ==
  \A c \in Counters :
    /\ base[c] = Nil => kw[c] = Nil /\ told[c] = 0
    /\ base[c] # Nil => base[c] <= seen[c] /\ seen[c] <= kernel[c]
    /\ kw[c] # Nil => kw[c] = seen[c] % Width
    /\ base[c] # Nil /\ kw[c] = Nil => carrier = "other" /\ missed[c]
KernelInv == KernelTyped /\ Remembered /\ KernelDropsTold

(* A reading that is reported, or one that failed, keeps the account.      *)
LEMMA AccountStep ==
  ASSUME KernelInv, NEW c \in Counters, NEW v \in {Nil, Reading(c)}, NEW keep,
         keep = v \/ (v = Nil /\ keep = kw[c]),
         carrier = "icmp" /\ v = Nil => keep = kw[c],
         Account(c, v, keep)
  PROVE  KernelInv'
<1>w. Width \in Nat /\ Width > 0
  BY KernelAssumption
<1>1. /\ v \in Nat \union {Nil} /\ keep \in Nat \union {Nil} /\ kw[c] \in Nat \union {Nil}
      /\ kernel[c] \in Nat /\ seen[c] \in Nat /\ told[c] \in Nat /\ base[c] \in Nat \union {Nil}
      /\ missed[c] \in BOOLEAN
  BY <1>w DEF KernelInv, KernelTyped, Reading, Counters, Nil
<1>2. /\ carrier' = carrier /\ kernel' = kernel
      /\ \A d \in Counters \ {c} : /\ kw'[d] = kw[d] /\ told'[d] = told[d] /\ base'[d] = base[d]
                                   /\ seen'[d] = seen[d] /\ missed'[d] = missed[d]
      /\ kw'[c] = keep /\ told'[c] = told[c] + Delta(kw[c], v)
      /\ base'[c] = (IF base[c] = Nil /\ v # Nil THEN kernel[c] ELSE base[c])
      /\ seen'[c] = (IF v # Nil THEN kernel[c] ELSE seen[c])
      /\ missed'[c] = (missed[c] \/ (kw[c] # Nil /\ v # Nil /\ kernel[c] - seen[c] # v - kw[c])
                                 \/ (carrier = "other" /\ base[c] # Nil /\ keep = Nil))
  BY DEF KernelInv, KernelTyped, Account, Counters
<1>t. told'[c] = told[c] + Delta(kw[c], v) /\ (missed[c] => missed'[c])
  BY <1>2
<1>3. Delta(kw[c], v) \in Nat
  BY <1>1 DEF Delta, Nil
<1>4. KernelTyped'
  <2>1. kw' \in [at : {"start", "block", "drops"}, block : Nat \union {Nil},
                 drops : Nat \union {Nil}]
    BY <1>1 DEF Account, Counters, KernelInv, KernelTyped
  <2>2. told' \in [Counters -> Nat]
    <3>1. told[c] + Delta(kw[c], v) \in Nat
      BY <1>1, <1>3
    <3>q. QED
      BY <3>1 DEF Account, KernelInv, KernelTyped
  <2>3. base' \in [Counters -> Nat \union {Nil}] /\ seen' \in [Counters -> Nat]
    BY <1>1 DEF Account, KernelInv, KernelTyped
  <2>4. missed' \in [Counters -> BOOLEAN]
    BY <1>1 DEF Account, KernelInv, KernelTyped
  <2>q. QED
    BY <2>1, <2>2, <2>3, <2>4 DEF Account, KernelInv, KernelTyped
<1>5. CASE v = Nil
  <2>1. Delta(kw[c], v) = 0
    BY <1>5 DEF Delta
  <2>2. told'[c] = told[c] /\ base'[c] = base[c] /\ seen'[c] = seen[c]
    BY <2>1, <1>1, <1>2, <1>5
  <2>3. keep = kw[c] \/ (keep = Nil /\ carrier = "other" /\ (base[c] # Nil => missed'[c]))
    BY <1>1, <1>2, <1>5 DEF KernelInv, KernelTyped
  <2>4. missed[c] => missed'[c]
    BY <1>2
  <2>q. QED
    BY <1>2, <1>4, <2>2, <2>3, <2>4 DEF KernelInv, Remembered, KernelDropsTold
<1>6. CASE v # Nil
  <2>1. v = kernel[c] % Width /\ keep = v
    BY <1>6 DEF Reading
  <2>2. base'[c] # Nil /\ base'[c] <= kernel[c] /\ seen'[c] = kernel[c] /\ kw'[c] = kernel[c] % Width
    BY <1>1, <1>2, <1>6, <2>1 DEF KernelInv, Remembered, Nil
  <2>3. kw'[c] # Nil
    BY <1>2, <1>6, <2>1
  <2>4. /\ told'[c] <= seen'[c] - base'[c]
        /\ ~missed'[c] => told'[c] = seen'[c] - base'[c]
    <3>1. CASE base[c] = Nil
      <4>1. Delta(kw[c], v) = 0 /\ told[c] = 0 /\ base'[c] = kernel[c]
        BY <3>1, <1>2, <1>6 DEF KernelInv, Remembered, Delta
      <4>2. told'[c] = 0 /\ seen'[c] = kernel[c] /\ kernel[c] \in Nat
        BY <4>1, <1>1, <1>t, <2>2
      <4>q. QED
        BY <4>1, <4>2
    <3>2. CASE base[c] # Nil /\ kw[c] = Nil
      <4>1. Delta(kw[c], v) = 0 /\ missed[c] /\ base'[c] = base[c]
        BY <3>2, <1>2 DEF KernelInv, Remembered, Delta
      <4>2. told[c] <= seen[c] - base[c] /\ seen[c] <= kernel[c]
        BY <3>2 DEF KernelInv, Remembered, KernelDropsTold
      <4>3. told'[c] = told[c] /\ seen'[c] = kernel[c] /\ missed'[c]
        BY <4>1, <1>1, <1>t, <2>2
      <4>4. told[c] \in Nat /\ seen[c] \in Nat /\ kernel[c] \in Nat /\ base[c] \in Nat
        BY <3>2, <1>1
      <4>q. QED
        BY <4>1, <4>2, <4>3, <4>4
    <3>3. CASE base[c] # Nil /\ kw[c] # Nil
      <4>1. /\ kw[c] = seen[c] % Width /\ base'[c] = base[c] /\ base[c] \in Nat
            /\ told[c] <= seen[c] - base[c] /\ seen[c] <= kernel[c]
            /\ ~missed[c] => told[c] = seen[c] - base[c]
        BY <3>3, <1>1, <1>2 DEF KernelInv, Remembered, KernelDropsTold
      <4>2. v - kw[c] <= kernel[c] - seen[c]
        BY <4>1, <2>1, <1>1, ReadingsMove
      <4>3. v \in Nat /\ kw[c] \in Nat
        BY <1>1, <1>6, <3>3
      <4>4. Delta(kw[c], v) = IF v < kw[c] THEN 0 ELSE v - kw[c]
        BY <3>3, <1>6 DEF Delta
      <4>5. ~missed'[c] => ~missed[c] /\ kernel[c] - seen[c] = v - kw[c]
        BY <1>2, <3>3, <1>6
      <4>q. QED
        BY <4>1, <4>2, <4>3, <4>4, <4>5, <1>1, <1>2, <2>2
    <3>q. QED
      BY <3>1, <3>2, <3>3
  <2>q. QED
    <3>1. Remembered'
      BY <1>1, <1>2, <2>2, <2>3 DEF KernelInv, Remembered
    <3>2. KernelDropsTold'
      BY <1>1, <1>2, <2>4 DEF KernelInv, KernelDropsTold
    <3>q. QED
      BY <1>4, <3>1, <3>2 DEF KernelInv
<1>q. QED
  BY <1>5, <1>6

(* The reports never say more than the counter moved by, and, on the ICMP  *)
(* carrier or if no read failed, say all of it unless it wrapped           *)
(* (kernelWatch, icmpWatch).                                               *)
THEOREM DropsTold == KernelSpec => []KernelDropsTold
<1>1. KernelInit => KernelInv
  BY DEF KernelInit, KernelInv, KernelTyped, Remembered, KernelDropsTold, Counters, Nil
<1>2. KernelInv /\ [KernelNext]_kernelVars => KernelInv'
  <2> SUFFICES ASSUME KernelInv, [KernelNext]_kernelVars PROVE KernelInv'
    OBVIOUS
  <2>1. ASSUME NEW c \in Counters, Drop(c) PROVE KernelInv'
    <3>1. /\ kernel' \in [Counters -> Nat] /\ kernel[c] \in Nat
          /\ \A d \in Counters : kernel[d] \in Nat /\ kernel'[d] \in Nat /\ kernel[d] <= kernel'[d]
      BY <2>1 DEF Drop, KernelInv, KernelTyped
    <3>2. UNCHANGED <<carrier, inode, kw, failed, told, base, seen, missed>>
      BY <2>1 DEF Drop
    <3>3. \A d \in Counters : base[d] # Nil => base[d] <= seen[d] /\ seen[d] <= kernel'[d]
      BY <3>1 DEF KernelInv, KernelTyped, Remembered
    <3>q. QED
      BY <3>1, <3>2, <3>3 DEF KernelInv, KernelTyped, Remembered, KernelDropsTold
  <2>2. CASE PublishInode
    BY <2>2 DEF PublishInode, KernelInv, KernelTyped, Remembered, KernelDropsTold
  <2>3. CASE KernelWatch
    <3>1. PICK v \in Readings("block") : Account("block", v, v)
      BY <2>3 DEF KernelWatch
    <3>2. v \in {Nil, Reading("block")} /\ "block" \in Counters /\ carrier # "icmp"
      BY <2>3 DEF Readings, Counters, KernelWatch
    <3>q. QED
      BY <3>1, <3>2, AccountStep
  <2>4. CASE IcmpWatch
    <3>1. PICK c \in Counters :
            \E v \in Readings(c) : Account(c, v, IF v = Nil THEN kw[c] ELSE v)
      BY <2>4 DEF IcmpWatch, Counters
    <3>2. PICK v \in Readings(c) : Account(c, v, IF v = Nil THEN kw[c] ELSE v)
      BY <3>1
    <3>3. v \in {Nil, Reading(c)}
      BY DEF Readings
    <3>q. QED
      BY <3>2, <3>3, AccountStep
  <2>5. CASE UNCHANGED kernelVars
    BY <2>5 DEF kernelVars, KernelInv, KernelTyped, Remembered, KernelDropsTold
  <2>q. QED
    BY <2>1, <2>2, <2>3, <2>4, <2>5 DEF KernelNext
<1>3. KernelInv => KernelDropsTold
  BY DEF KernelInv
<1>4. QED
  BY <1>1, <1>2, <1>3, PTL DEF KernelSpec

-----------------------------------------------------------------------------
(* Blackhole, recovery, collapse.                                          *)

\* A standing blackhole was judged by this silence: on the wall clock as it was then, or
\* since start-up.
StoodSilent(heard) ==
  IF heard > 0 THEN raised.wall - heard > Silence ELSE now - StartAt > Silence

\* What was heard when the blackhole was raised is part of what the last turn saw, and
\* that of what arrived; while nothing arrives the silence it was raised for is the one
\* the next turn measures; and a busy interval in the history is one since the last
\* collapse.
Turns == [at : {"sleep", "judge"}, lastRx : Nat, seen : Nat, rx : Nat, tx : Nat,
          lastRxB : Nat, lastTxB : Nat]
AlarmTyped ==
  /\ now \in Nat /\ wall \in Nat /\ lastRxUnix \in Nat /\ arrivals \in Nat
  /\ rxBytes \in Nat /\ txBytes \in Nat /\ raised \in [heard : Nat, wall : Nat]
  /\ blackholed \in BOOLEAN /\ busySince \in BOOLEAN /\ rates \in Seq(Int)
  /\ alarm \in Turns
Heard ==
  /\ raised.heard <= alarm.seen /\ alarm.seen <= arrivals
  /\ blackholed /\ arrivals = raised.heard => StoodSilent(lastRxUnix)
  /\ alarm.at = "judge" /\ alarm.seen = arrivals => alarm.lastRx = lastRxUnix
  /\ alarm.at = "judge" /\ blackholed /\ alarm.seen = raised.heard => StoodSilent(alarm.lastRx)
BusyKept == \A i \in DOMAIN rates : rates[i] > BusyRate => busySince
AlarmInv == AlarmTyped /\ Heard /\ BusyKept

(* The history a turn judges: the older ones of its rates were there       *)
(* before the turn.                                                        *)
LEMMA HistoryJudged ==
  ASSUME AlarmTyped
  PROVE  /\ RatesNow \in Seq(Int)
         /\ \A i \in DOMAIN RatesNow : \/ RatesNow[i] = alarm.rx - alarm.lastRxB
                                       \/ \E j \in DOMAIN rates : RatesNow[i] = rates[j]
         /\ \A i \in 1..Len(RatesNow) - RatesRecent : \E j \in DOMAIN rates : RatesNow[i] = rates[j]
<1> DEFINE x == alarm.rx - alarm.lastRxB
           all == Append(rates, x)
<1>1. x \in Int /\ rates \in Seq(Int) /\ Len(rates) \in Nat
  BY DEF AlarmTyped, Turns
<1>2. /\ all \in Seq(Int) /\ Len(all) = Len(rates) + 1 /\ DOMAIN rates = 1..Len(rates)
      /\ \A i \in 1..Len(rates) : all[i] = rates[i]
      /\ all[Len(rates) + 1] = x
  BY <1>1
<1>3. RatesRecent \in Nat /\ RatesRecent >= 1
  BY AlarmAssumption
<1> HIDE DEF x
<1>4. CASE RatesNow = all
  BY <1>1, <1>2, <1>3, <1>4 DEF x
<1>5. CASE RatesNow = Tail(all)
  <2>1. /\ RatesNow \in Seq(Int) /\ Len(RatesNow) = Len(rates)
        /\ \A i \in 1..Len(rates) : RatesNow[i] = all[i + 1]
    <3> HIDE DEF all
    <3>1. /\ Tail(all) \in Seq(Int) /\ Len(Tail(all)) = Len(all) - 1
          /\ \A i \in 1..Len(all) - 1 : Tail(all)[i] = all[i + 1]
      <4>1. all \in Seq(Int) /\ all # <<>>
        BY <1>1, <1>2
      <4>q. QED
        BY <4>1
    <3>2. Len(all) - 1 = Len(rates)
      BY <1>1, <1>2
    <3>q. QED
      BY <3>1, <3>2, <1>5
  <2>2. /\ \A i \in 1..Len(rates) : i + 1 \in 1..Len(rates) \/ i = Len(rates)
        /\ \A i \in 1..Len(rates) - RatesRecent : i + 1 \in 1..Len(rates) /\ i \in 1..Len(rates)
    BY <1>1, <1>3
  <2>3. DOMAIN RatesNow = 1..Len(rates)
    BY <2>1
  <2>4. ASSUME NEW i \in 1..Len(rates)
        PROVE  RatesNow[i] = x \/ \E j \in DOMAIN rates : RatesNow[i] = rates[j]
    <3>1. CASE i + 1 \in 1..Len(rates)
      <4>1. RatesNow[i] = rates[i + 1]
        BY <3>1, <2>1, <1>2
      <4>2. QED
        BY <3>1, <4>1, <1>2
    <3>2. CASE i = Len(rates)
      BY <3>2, <2>1, <1>2
    <3>3. QED
      BY <3>1, <3>2, <2>2
  <2>5. ASSUME NEW i \in 1..Len(rates) - RatesRecent
        PROVE  \E j \in DOMAIN rates : RatesNow[i] = rates[j]
    BY <2>1, <2>2, <1>2
  <2>q. QED
    BY <2>1, <2>3, <2>4, <2>5 DEF x
<1>q. QED
  BY <1>4, <1>5 DEF RatesNow, x

(* A turn's findings, and what it leaves behind.                           *)
LEMMA JudgeStep ==
  ASSUME AlarmInv, JudgePath
  PROVE  /\ AlarmInv'
         /\ "recovered" \in spoke' =>
              blackholed /\ (alarm.seen > raised.heard \/ wall < raised.wall)
         /\ "blackhole" \in spoke' => ~blackholed
         /\ "throttle" \in spoke' => busySince
<1>1. /\ alarm.at = "judge" /\ UNCHANGED <<alarmClocks, traffic>>
      /\ blackholed' = IF Silent /\ Sending THEN TRUE ELSE IF ~Silent THEN FALSE ELSE blackholed
      /\ rates' = IF Collapsed THEN <<>> ELSE RatesNow
      /\ "blackhole" \in spoke' <=> ~blackholed /\ blackholed'
      /\ "recovered" \in spoke' <=> blackholed /\ ~blackholed'
      /\ "throttle" \in spoke' <=> Collapsed
      /\ raised' = IF "blackhole" \in spoke' THEN [heard |-> alarm.seen, wall |-> wall] ELSE raised
      /\ busySince' = (~Collapsed /\ (busySince \/ alarm.rx - alarm.lastRxB > BusyRate))
      /\ alarm' = [AlarmAsleep EXCEPT !.lastRxB = alarm.rx, !.lastTxB = alarm.tx,
                                      !.seen = alarm.seen]
  BY DEF JudgePath
<1>u. now' = now /\ wall' = wall /\ lastRxUnix' = lastRxUnix /\ arrivals' = arrivals
      /\ rxBytes' = rxBytes /\ txBytes' = txBytes
  BY <1>1 DEF alarmClocks, traffic
<1>t. /\ now \in Nat /\ wall \in Nat /\ lastRxUnix \in Nat /\ arrivals \in Nat
      /\ raised.heard \in Nat /\ raised.wall \in Nat
      /\ alarm.lastRx \in Nat /\ alarm.seen \in Nat
      /\ blackholed \in BOOLEAN /\ busySince \in BOOLEAN /\ Silence \in Nat /\ BusyRate \in Nat
      /\ alarm.rx \in Nat /\ alarm.lastRxB \in Nat /\ alarm.tx \in Nat
  BY AlarmAssumption DEF AlarmInv, AlarmTyped, Turns
<1>h. /\ raised.heard <= alarm.seen /\ alarm.seen <= arrivals
      /\ blackholed /\ arrivals = raised.heard => StoodSilent(lastRxUnix)
      /\ alarm.seen = arrivals => alarm.lastRx = lastRxUnix
      /\ blackholed /\ alarm.seen = raised.heard => StoodSilent(alarm.lastRx)
  BY <1>1 DEF AlarmInv, Heard
<1>2. "recovered" \in spoke' => blackholed /\ (alarm.seen > raised.heard \/ wall < raised.wall)
  <2> SUFFICES ASSUME "recovered" \in spoke', ~(alarm.seen > raised.heard)
               PROVE  wall < raised.wall
    BY <1>1
  <2>1. blackholed /\ ~Silent
    BY <1>1, <1>t
  <2>2. StoodSilent(alarm.lastRx)
    BY <2>1, <1>h, <1>t
  <2>q. QED
    BY <2>1, <2>2, <1>t DEF StoodSilent, Silent, StartAt
<1>3. Collapsed => busySince
  <2> SUFFICES ASSUME Collapsed PROVE busySince
    OBVIOUS
  <2>1. PICK i \in 1..Len(RatesNow) - RatesRecent : RatesNow[i] > BusyRate
    BY DEF Collapsed
  <2>2. PICK j \in DOMAIN rates : RatesNow[i] = rates[j]
    BY HistoryJudged DEF AlarmInv
  <2>q. QED
    BY <2>1, <2>2 DEF AlarmInv, BusyKept
<1>a. /\ alarm' \in Turns
      /\ alarm'.at = "sleep" /\ alarm'.seen = alarm.seen
  BY <1>1, <1>t DEF AlarmAsleep, Turns
<1>4. AlarmTyped'
  <2>1. rates' \in Seq(Int)
    BY <1>1, HistoryJudged DEF AlarmInv
  <2>2. raised' \in [heard : Nat, wall : Nat]
    BY <1>1, <1>t DEF AlarmInv, AlarmTyped
  <2>3. blackholed' \in BOOLEAN /\ busySince' \in BOOLEAN
    BY <1>1, <1>t
  <2>q. QED
    BY <2>1, <2>2, <2>3, <1>a, <1>u DEF AlarmInv, AlarmTyped, Turns
<1>5. Heard'
  <2>1. CASE "blackhole" \in spoke'
    <3>1. Silent /\ raised'.heard = alarm.seen /\ raised'.wall = wall
      BY <2>1, <1>1, <1>t
    <3>2. arrivals = alarm.seen => StoodSilent(lastRxUnix)'
      <4> SUFFICES ASSUME arrivals = alarm.seen PROVE StoodSilent(lastRxUnix)'
        OBVIOUS
      <4>1. alarm.lastRx = lastRxUnix
        BY <1>h
      <4>q. QED
        BY <4>1, <3>1, <1>u, <1>t DEF StoodSilent, Silent, StartAt
    <3>q. QED
      BY <3>1, <3>2, <1>a, <1>u, <1>h, <1>t DEF Heard
  <2>2. CASE "blackhole" \notin spoke'
    <3>1. raised' = raised /\ (blackholed' => blackholed)
      BY <2>2, <1>1, <1>t
    <3>2. StoodSilent(lastRxUnix)' <=> StoodSilent(lastRxUnix)
      BY <3>1, <1>u DEF StoodSilent, StartAt
    <3>q. QED
      BY <3>1, <3>2, <1>a, <1>u, <1>h DEF Heard
  <2>q. QED
    BY <2>1, <2>2
<1>6. BusyKept'
  <2>1. CASE Collapsed
    BY <2>1, <1>1 DEF BusyKept
  <2>2. CASE ~Collapsed
    <3> SUFFICES ASSUME NEW i \in DOMAIN RatesNow, RatesNow[i] > BusyRate PROVE busySince'
      BY <2>2, <1>1 DEF BusyKept
    <3>1. CASE RatesNow[i] = alarm.rx - alarm.lastRxB
      BY <3>1, <2>2, <1>1
    <3>2. ASSUME NEW j \in DOMAIN rates, RatesNow[i] = rates[j] PROVE busySince'
      BY <3>2, <2>2, <1>1 DEF AlarmInv, BusyKept
    <3>q. QED
      BY <3>1, <3>2, HistoryJudged DEF AlarmInv
  <2>q. QED
    BY <2>1, <2>2
<1>q. QED
  BY <1>1, <1>2, <1>3, <1>4, <1>5, <1>6, <1>t DEF AlarmInv

(* The other steps of the tunnel, the clocks and the timer.                *)
LEMMA AlarmOtherStep ==
  ASSUME AlarmInv, \/ Pass \/ SetClock \/ Speak \/ ReadCounters \/ UNCHANGED alarmVars
                   \/ \E n \in Bursts : Hear(n)
  PROVE  AlarmInv' /\ ~(alarm.at = "judge" /\ alarm'.at = "sleep")
<1>t. /\ now \in Nat /\ wall \in Nat /\ arrivals \in Nat /\ rxBytes \in Nat /\ lastRxUnix \in Nat
      /\ raised.heard \in Nat /\ raised.wall \in Nat /\ Bursts \subseteq Nat /\ Silence \in Nat
      /\ MaxNow \in Nat /\ alarm.seen \in Nat
  BY AlarmAssumption DEF AlarmInv, AlarmTyped, Turns
<1>1. CASE Pass
  <2>1. now' = now + 1 /\ wall' = wall + 1 /\ UNCHANGED <<traffic, alarm, findings>>
    BY <1>1 DEF Pass
  <2>2. /\ StoodSilent(lastRxUnix) => StoodSilent(lastRxUnix)'
        /\ StoodSilent(alarm.lastRx) => StoodSilent(alarm.lastRx)'
    BY <2>1, <1>t DEF StoodSilent, StartAt, traffic, findings
  <2>3. Heard'
    BY <2>1, <2>2 DEF AlarmInv, Heard, traffic, findings
  <2>q. QED
    BY <2>1, <2>3, <1>t DEF AlarmInv, AlarmTyped, BusyKept, traffic, findings
<1>2. CASE SetClock
  <2>1. now' = now /\ wall' \in StartAt..MaxNow /\ UNCHANGED <<traffic, alarm, findings>>
    BY <1>2 DEF SetClock
  <2>2. Heard'
    BY <2>1 DEF AlarmInv, Heard, StoodSilent, traffic, findings, StartAt
  <2>q. QED
    BY <2>1, <2>2, <1>t DEF AlarmInv, AlarmTyped, BusyKept, traffic, findings, StartAt
<1>3. CASE Speak
  <2>1. /\ txBytes' = txBytes + 1
        /\ UNCHANGED <<now, wall, lastRxUnix, rxBytes, arrivals, alarm, findings>>
    BY <1>3 DEF Speak, alarmClocks
  <2>q. QED
    BY <2>1 DEF AlarmInv, AlarmTyped, Heard, BusyKept, StoodSilent, findings, StartAt
<1>4. CASE ReadCounters
  <2>1. /\ alarm.at = "sleep"
        /\ alarm' = [alarm EXCEPT !.at = "judge", !.rx = rxBytes, !.tx = txBytes,
                                  !.lastRx = lastRxUnix, !.seen = arrivals]
        /\ UNCHANGED <<now, wall, lastRxUnix, rxBytes, txBytes, arrivals, findings>>
    BY <1>4 DEF ReadCounters, alarmClocks, traffic
  <2>2. /\ alarm' \in Turns
        /\ alarm'.at = "judge" /\ alarm'.lastRx = lastRxUnix /\ alarm'.seen = arrivals
    BY <2>1 DEF AlarmInv, AlarmTyped, Turns
  <2>3. AlarmTyped'
    BY <2>1, <2>2 DEF AlarmInv, AlarmTyped, Turns, findings
  <2>4. raised.heard <= arrivals
    BY <1>t DEF AlarmInv, Heard
  <2>5. StoodSilent(lastRxUnix)' <=> StoodSilent(lastRxUnix)
    BY <2>1 DEF StoodSilent, StartAt, findings
  <2>6. StoodSilent(alarm.lastRx)' <=> StoodSilent(lastRxUnix)
    BY <2>1, <2>2 DEF StoodSilent, StartAt, findings
  <2>7. Heard'
    BY <2>1, <2>2, <2>4, <2>5, <2>6, <1>t DEF AlarmInv, Heard, findings
  <2>q. QED
    BY <2>1, <2>3, <2>7 DEF AlarmInv, BusyKept, findings
<1>5. ASSUME NEW n \in Bursts, Hear(n)
      PROVE  AlarmInv' /\ ~(alarm.at = "judge" /\ alarm'.at = "sleep")
  <2>1. /\ arrivals' = arrivals + 1 /\ rxBytes' = rxBytes + n /\ lastRxUnix' = wall
        /\ UNCHANGED <<now, wall, txBytes, alarm, findings>>
    BY <1>5 DEF Hear, alarmClocks
  <2>2. rxBytes' \in Nat /\ arrivals' \in Nat
    BY <2>1, <1>t
  <2>3. StoodSilent(alarm.lastRx)' <=> StoodSilent(alarm.lastRx)
    BY <2>1 DEF StoodSilent, StartAt, findings
  <2>4. raised.heard <= alarm.seen /\ alarm.seen <= arrivals
    BY DEF AlarmInv, Heard
  <2>5. arrivals' # raised'.heard /\ alarm'.seen # arrivals' /\ alarm'.seen <= arrivals'
    BY <2>1, <2>4, <1>t DEF findings
  <2>6. Heard'
    BY <2>1, <2>3, <2>4, <2>5 DEF AlarmInv, Heard, findings
  <2>q. QED
    BY <2>1, <2>2, <2>6, <1>t DEF AlarmInv, AlarmTyped, BusyKept, findings
<1>6. CASE UNCHANGED alarmVars
  BY <1>6 DEF alarmVars, alarmClocks, traffic, findings, AlarmInv, AlarmTyped, Heard,
              BusyKept, StoodSilent, StartAt
<1>q. QED
  BY <1>1, <1>2, <1>3, <1>4, <1>5, <1>6

(* A recovery is reported for a blackhole that stands, of a packet heard   *)
(* since or of a wall clock that shows an earlier time than when it was    *)
(* raised; the two alternate, and a collapse is reported once (pathWatch), *)
(* for any threshold, length of history and traffic and any setting of the *)
(* clock.                                                                  *)
THEOREM FindingsAreEarned == AlarmSpec => FindingsEarned
<1>1. AlarmInit => AlarmInv
  <2> SUFFICES ASSUME AlarmInit PROVE AlarmInv
    OBVIOUS
  <2>1. AlarmTyped
    <3>1. rates \in Seq(Int)
      BY DEF AlarmInit
    <3>2. alarm \in Turns
      BY DEF AlarmInit, AlarmAsleep, Turns
    <3>q. QED
      BY <3>1, <3>2 DEF AlarmInit, AlarmTyped, StartAt
  <2>2. Heard
    BY DEF AlarmInit, Heard, AlarmAsleep
  <2>3. BusyKept
    BY DEF AlarmInit, BusyKept
  <2>q. QED
    BY <2>1, <2>2, <2>3 DEF AlarmInv
<1>2. AlarmInv /\ [AlarmNext]_alarmVars => AlarmInv'
  BY JudgeStep, AlarmOtherStep DEF AlarmNext
<1>3. AlarmInv /\ [AlarmNext]_alarmVars =>
        [alarm.at = "judge" /\ alarm'.at = "sleep" =>
           /\ "recovered" \in spoke' =>
                blackholed /\ (alarm.seen > raised.heard \/ wall < raised.wall)
           /\ "blackhole" \in spoke' => ~blackholed
           /\ "throttle" \in spoke' => busySince]_alarmVars
  BY JudgeStep, AlarmOtherStep DEF AlarmNext
<1>4. QED
  BY <1>1, <1>2, <1>3, PTL DEF AlarmSpec, FindingsEarned

-----------------------------------------------------------------------------
(* The hop count.                                                          *)

HopCountSpec == HopCountInit /\ [][HopCountNext]_hopCountVars

Verdicts == [ttl : TTLs \union {0}, agrees : BOOLEAN]
Places == {"idle", "known", "forget", "forgetSeen", "forgetRun", "seen", "adopt", "agree", "alt",
           "setAlt", "zero", "count", "move", "moved"}
\* The i-th verdict from the end, and the place of each goroutine.
Latest(i) == judged[Len(judged) + 1 - i]

CheckTyped ==
  /\ ttlAltRun \in Nat /\ judged \in Seq(Verdicts) /\ Len(judged) <= RelearnAfter
  /\ peerTTL \in TTLs \union {0} /\ ttlAlt \in TTLs \union {0}
  /\ crew \subseteq Workers
  /\ check \in [Workers -> [at : Places, ttl : TTLs \union {0}, known : TTLs \union {0},
                            backing : Seq(Verdicts)]]
\* The run counts packets that disagreed with the baseline, and what a goroutine takes
\* with it to the move is a full run.
RunDisagrees ==
  /\ \A i \in 1..RelearnAfter : i <= ttlAltRun => i <= Len(judged) /\ ~Latest(i).agrees
  /\ \A w \in Workers : check[w].at = "move" =>
       /\ Len(check[w].backing) = RelearnAfter
       /\ \A i \in 1..RelearnAfter : ~check[w].backing[i].agrees
\* With one goroutine the run is one of the candidate's, but for the moment in which the
\* candidate is new and the run has yet to be zeroed.
RunAgrees ==
  \A v \in crew : crew = {v} =>
    /\ check[v].at # "zero" =>
         \A i \in 1..RelearnAfter : i <= ttlAltRun => Latest(i).ttl = ttlAlt
    /\ check[v].at \in {"zero", "count"} => ttlAlt = check[v].ttl
    /\ check[v].at = "move" =>
         \A i \in 1..RelearnAfter : check[v].backing[i].ttl = check[v].ttl
HopCountInv == CheckTyped /\ RunDisagrees /\ RunAgrees

(* A verdict is added at the end, and moves the others up by one.          *)
LEMMA JudgeAdds ==
  ASSUME CheckTyped, NEW w \in Workers, NEW a \in BOOLEAN, Judge(w, a)
  PROVE  /\ judged' \in Seq(Verdicts) /\ Len(judged') <= RelearnAfter /\ 1 <= Len(judged')
         /\ Latest(1)' = [ttl |-> check[w].ttl, agrees |-> a]
         /\ \A i \in 1..RelearnAfter : i - 1 \in 1..Len(judged) =>
              i <= Len(judged') /\ Latest(i)' = Latest(i - 1)
<1> DEFINE new == [ttl |-> check[w].ttl, agrees |-> a]
           all == Append(judged, new)
           L == Len(judged)
<1>1. new \in Verdicts /\ judged \in Seq(Verdicts) /\ L \in Nat /\ L <= RelearnAfter
      /\ RelearnAfter \in Nat /\ RelearnAfter > 0
  BY HopCountAssumption DEF CheckTyped, Verdicts
<1>2. judged' = IF Len(all) > RelearnAfter THEN Tail(all) ELSE all
  BY DEF Judge
<1> HIDE DEF new
<1>3. /\ all \in Seq(Verdicts) /\ Len(all) = L + 1 /\ all[L + 1] = new
      /\ \A i \in 1..L : all[i] = judged[i]
  BY <1>1
<1>4. CASE Len(all) <= RelearnAfter
  <2>1. judged' = all /\ Len(judged') = L + 1
    BY <1>2, <1>3, <1>4, <1>1
  <2>2. ASSUME NEW i \in 1..RelearnAfter, i - 1 \in 1..L
        PROVE  i <= Len(judged') /\ judged'[Len(judged') + 1 - i] = judged[L + 1 - (i - 1)]
    <3>1. L + 2 - i \in 1..L /\ i <= L + 1 /\ L + 1 + 1 - i = L + 2 - i /\ L + 1 - (i - 1) = L + 2 - i
      BY <2>2, <1>1
    <3>q. QED
      BY <3>1, <2>1, <1>3
  <2>q. QED
    BY <2>1, <2>2, <1>1, <1>3, <1>4 DEF Latest, new
<1>5. CASE Len(all) > RelearnAfter
  <2>1. judged' = Tail(all) /\ L = RelearnAfter
    BY <1>2, <1>3, <1>5, <1>1
  <2>2. /\ judged' \in Seq(Verdicts) /\ Len(judged') = L
        /\ \A i \in 1..L : judged'[i] = all[i + 1]
    BY <2>1, <1>1, <1>3
  <2>3. ASSUME NEW i \in 1..RelearnAfter, i - 1 \in 1..L
        PROVE  i <= Len(judged') /\ judged'[Len(judged') + 1 - i] = judged[L + 1 - (i - 1)]
    <3>1. L + 1 - i \in 1..L /\ L + 2 - i \in 1..L /\ i <= L /\ (L + 1 - i) + 1 = L + 2 - i
          /\ L + 1 - (i - 1) = L + 2 - i
      BY <2>1, <2>3, <1>1
    <3>q. QED
      BY <3>1, <2>2, <1>3
  <2>4. judged'[Len(judged') + 1 - 1] = new
    <3>1. L \in 1..L /\ L + 1 - 1 = L
      BY <2>1, <1>1
    <3>q. QED
      BY <3>1, <2>2, <1>3
  <2>q. QED
    BY <2>1, <2>2, <2>3, <2>4, <1>1 DEF Latest, new
<1>q. QED
  BY <1>4, <1>5, <1>1, <1>3

(* Where the verdicts stay as they are, the run may only be the same or    *)
(* zeroed.                                                                 *)
LEMMA VerdictsStay ==
  ASSUME CheckTyped, UNCHANGED judged
  PROVE  \A i : Latest(i)' = Latest(i)
BY DEF Latest

(* A step of goroutine w that gives no verdict and no other candidate, and *)
(* at most zeroes the run.                                                 *)
LEMMA QuietStep ==
  ASSUME HopCountInv, NEW w \in crew, UNCHANGED <<judged, ttlAlt, crew>>,
         ttlAltRun' = ttlAltRun \/ ttlAltRun' = 0, CheckTyped',
         \A v \in Workers \ {w} : check'[v] = check[v],
         check'[w].at \notin {"move", "zero"},
         check[w].at = "zero" => ttlAltRun' = 0,
         crew = {w} /\ check'[w].at = "count" => ttlAlt = check'[w].ttl
  PROVE  HopCountInv'
<1>1. \A i : Latest(i)' = Latest(i)
  BY VerdictsStay DEF HopCountInv
<1>2. \A i \in 1..RelearnAfter : i <= ttlAltRun' => i <= ttlAltRun
  BY HopCountAssumption DEF HopCountInv, CheckTyped
<1>3. RunDisagrees'
  BY <1>1, <1>2 DEF HopCountInv, RunDisagrees
<1>4. RunAgrees'
  <2> SUFFICES ASSUME NEW v \in crew, crew = {v}
               PROVE  /\ check'[v].at # "zero" =>
                           \A i \in 1..RelearnAfter : i <= ttlAltRun' => Latest(i)'.ttl = ttlAlt
                      /\ check'[v].at \in {"zero", "count"} => ttlAlt = check'[v].ttl
                      /\ check'[v].at = "move" =>
                           \A i \in 1..RelearnAfter : check'[v].backing[i].ttl = check'[v].ttl
    BY DEF RunAgrees
  <2>1. v = w
    OBVIOUS
  <2>2. CASE check[w].at = "zero"
    <3>1. \A i \in 1..RelearnAfter : ~(i <= ttlAltRun')
      BY <2>2, HopCountAssumption
    <3>q. QED
      BY <3>1, <2>1
  <2>3. CASE check[w].at # "zero"
    BY <2>1, <2>3, <1>1, <1>2 DEF HopCountInv, RunAgrees
  <2>q. QED
    BY <2>2, <2>3
<1>q. QED
  BY <1>3, <1>4 DEF HopCountInv

\* What the property says of a step, of each goroutine that leaves the move.
Backed(w) ==
  At(w, "move") /\ ~(At(w, "move"))' /\ peerTTL' # peerTTL =>
    /\ Len(check[w].backing) = RelearnAfter
    /\ \A i \in 1..RelearnAfter :
         /\ ~check[w].backing[i].agrees
         /\ Cardinality(crew) = 1 => check[w].backing[i].ttl = peerTTL'

(* A packet measured: agreeing, or disagreeing once more.                  *)
LEMMA AgreeStep ==
  ASSUME HopCountInv, NEW w \in crew, Agree(w), UNCHANGED <<checks, roams, crew>>
  PROVE  HopCountInv' /\ \A v \in Workers : Backed(v)
<1>1. w \in Workers /\ CheckTyped
  BY DEF HopCountInv, CheckTyped
<1>2. /\ check[w].at = "agree" /\ ttlAltRun' = 0 /\ Judge(w, TRUE)
      /\ check' = [check EXCEPT ![w] = NoCheck]
      /\ UNCHANGED <<peerTTL, ttlAlt, crew>>
  BY DEF Agree, At, Done
<1>3. CheckTyped'
  <2>1. NoCheck \in [at : Places, ttl : TTLs \union {0}, known : TTLs \union {0},
                     backing : Seq(Verdicts)]
    BY DEF NoCheck, Places
  <2>q. QED
    BY <1>1, <1>2, <2>1, JudgeAdds DEF CheckTyped
<1>4. /\ check'[w].at = "idle" /\ \A v \in Workers \ {w} : check'[v] = check[v]
      /\ \A i \in 1..RelearnAfter : ~(i <= ttlAltRun')
  BY <1>1, <1>2, HopCountAssumption DEF CheckTyped, NoCheck
<1>5. RunDisagrees' /\ RunAgrees'
  <2>1. RunDisagrees'
    BY <1>4, <1>1 DEF HopCountInv, RunDisagrees
  <2>2. RunAgrees'
    BY <1>2, <1>4 DEF RunAgrees
  <2>q. QED
    BY <2>1, <2>2
<1>q. QED
  BY <1>2, <1>3, <1>5 DEF HopCountInv, Backed

LEMMA CountStep ==
  ASSUME HopCountInv, NEW w \in crew, Count(w), UNCHANGED <<checks, roams, crew>>
  PROVE  HopCountInv' /\ \A v \in Workers : Backed(v)
<1>1. w \in Workers /\ CheckTyped /\ check[w].ttl \in TTLs \union {0} /\ ttlAltRun \in Nat
      /\ RelearnAfter \in Nat /\ RelearnAfter > 0
  BY HopCountAssumption DEF HopCountInv, CheckTyped
<1>2. /\ check[w].at = "count" /\ ttlAltRun' = ttlAltRun + 1 /\ Judge(w, FALSE)
      /\ UNCHANGED <<peerTTL, ttlAlt, crew>>
      /\ IF ttlAltRun' >= RelearnAfter
         THEN check' = [check EXCEPT ![w].at = "move", ![w].backing = judged']
         ELSE check' = [check EXCEPT ![w] = NoCheck]
  BY DEF Count, At, Done
<1>3. /\ judged' \in Seq(Verdicts) /\ Len(judged') <= RelearnAfter /\ 1 <= Len(judged')
      /\ Latest(1)'.ttl = check[w].ttl /\ ~Latest(1)'.agrees
      /\ \A i \in 1..RelearnAfter : i - 1 \in 1..Len(judged) =>
           i <= Len(judged') /\ Latest(i)' = Latest(i - 1)
  <2>1. FALSE \in BOOLEAN
    OBVIOUS
  <2>2. /\ judged' \in Seq(Verdicts) /\ Len(judged') <= RelearnAfter /\ 1 <= Len(judged')
        /\ Latest(1)' = [ttl |-> check[w].ttl, agrees |-> FALSE]
        /\ \A i \in 1..RelearnAfter : i - 1 \in 1..Len(judged) =>
             i <= Len(judged') /\ Latest(i)' = Latest(i - 1)
    BY <1>1, <1>2, <2>1, JudgeAdds
  <2>q. QED
    BY <2>2
<1>4. CheckTyped'
  <2>1. NoCheck \in [at : Places, ttl : TTLs \union {0}, known : TTLs \union {0},
                     backing : Seq(Verdicts)]
    BY DEF NoCheck, Places
  <2>2. check' \in [Workers -> [at : Places, ttl : TTLs \union {0}, known : TTLs \union {0},
                                backing : Seq(Verdicts)]]
    <3>1. CASE ttlAltRun' >= RelearnAfter
      <4> DEFINE full == [check[w] EXCEPT !.at = "move", !.backing = judged']
      <4>1. full \in [at : Places, ttl : TTLs \union {0}, known : TTLs \union {0},
                      backing : Seq(Verdicts)]
        BY <1>1, <1>3 DEF CheckTyped, Places
      <4>2. check' = [check EXCEPT ![w] = full]
        BY <3>1, <1>1, <1>2 DEF CheckTyped
      <4>q. QED
        BY <4>1, <4>2, <1>1 DEF CheckTyped
    <3>2. CASE ~(ttlAltRun' >= RelearnAfter)
      BY <3>2, <1>1, <1>2, <2>1 DEF CheckTyped
    <3>q. QED
      BY <3>1, <3>2
  <2>q. QED
    BY <1>1, <1>2, <1>3, <2>2 DEF CheckTyped
<1>5. \A v \in Workers \ {w} : check'[v] = check[v]
  BY <1>1, <1>2 DEF CheckTyped
<1>6. \/ check'[w].at = "idle"
      \/ /\ ttlAltRun' >= RelearnAfter /\ check'[w].at = "move"
         /\ check'[w].backing = judged' /\ check'[w].ttl = check[w].ttl
  BY <1>1, <1>2 DEF CheckTyped, NoCheck
<1>7. ASSUME NEW i \in 1..RelearnAfter, i <= ttlAltRun'
      PROVE  /\ i <= Len(judged') /\ ~Latest(i)'.agrees
             /\ crew = {w} => Latest(i)'.ttl = ttlAlt
  <2>1. ttlAlt = check[w].ttl \/ crew # {w}
    BY <1>2 DEF HopCountInv, RunAgrees
  <2>2. CASE i = 1
    BY <2>1, <2>2, <1>3
  <2>3. CASE i # 1
    <3>1. i - 1 \in 1..RelearnAfter /\ i - 1 <= ttlAltRun
      BY <1>1, <1>2, <1>7, <2>3
    <3>2. i - 1 <= Len(judged) /\ ~Latest(i - 1).agrees
      BY <3>1 DEF HopCountInv, RunDisagrees
    <3>3. i - 1 \in 1..Len(judged)
      BY <3>1, <3>2, <1>1 DEF CheckTyped
    <3>4. crew = {w} => Latest(i - 1).ttl = ttlAlt
      BY <3>1, <1>2 DEF HopCountInv, RunAgrees
    <3>q. QED
      BY <3>2, <3>3, <3>4, <1>3
  <2>q. QED
    BY <2>2, <2>3
\* A full run fills the history.
<1>8. ASSUME ttlAltRun' >= RelearnAfter
      PROVE  /\ Len(judged') = RelearnAfter
             /\ \A i \in 1..RelearnAfter :
                  ~judged'[i].agrees /\ (crew = {w} => judged'[i].ttl = ttlAlt)
  <2>1. \A i \in 1..RelearnAfter : i <= ttlAltRun'
    BY <1>1, <1>2, <1>8
  <2>2. Len(judged') \in Nat /\ RelearnAfter \in 1..RelearnAfter
    BY <1>1, <1>3
  <2>3. Len(judged') = RelearnAfter
    BY <2>1, <2>2, <1>1, <1>3, <1>7
  <2>4. ASSUME NEW i \in 1..RelearnAfter
        PROVE  ~judged'[i].agrees /\ (crew = {w} => judged'[i].ttl = ttlAlt)
    <3>1. RelearnAfter + 1 - i \in 1..RelearnAfter
          /\ RelearnAfter + 1 - (RelearnAfter + 1 - i) = i
      BY <1>1
    <3>2. Latest(RelearnAfter + 1 - i)' = judged'[i]
      BY <3>1, <2>3 DEF Latest
    <3>q. QED
      BY <3>1, <3>2, <2>1, <1>7
  <2>q. QED
    BY <2>3, <2>4
<1>9. RunDisagrees'
  <2>1. \A i \in 1..RelearnAfter : i <= ttlAltRun' => i <= Len(judged') /\ ~Latest(i)'.agrees
    BY <1>7
  <2>2. ASSUME NEW v \in Workers, check'[v].at = "move"
        PROVE  /\ Len(check'[v].backing) = RelearnAfter
               /\ \A i \in 1..RelearnAfter : ~check'[v].backing[i].agrees
    <3>1. CASE v = w
      BY <3>1, <2>2, <1>6, <1>8
    <3>2. CASE v # w
      BY <3>2, <2>2, <1>5 DEF HopCountInv, RunDisagrees
    <3>q. QED
      BY <3>1, <3>2
  <2>q. QED
    BY <2>1, <2>2 DEF RunDisagrees
<1>10. RunAgrees'
  <2> SUFFICES ASSUME NEW v \in crew, crew = {v}
               PROVE  /\ check'[v].at # "zero" =>
                           \A i \in 1..RelearnAfter : i <= ttlAltRun' => Latest(i)'.ttl = ttlAlt
                      /\ check'[v].at \in {"zero", "count"} => ttlAlt = check'[v].ttl
                      /\ check'[v].at = "move" =>
                           \A i \in 1..RelearnAfter : check'[v].backing[i].ttl = check'[v].ttl
    BY <1>2 DEF RunAgrees
  <2>1. v = w /\ crew = {w}
    OBVIOUS
  <2>2. ttlAlt = check[w].ttl
    BY <2>1, <1>2 DEF HopCountInv, RunAgrees
  <2>q. QED
    BY <2>1, <2>2, <1>6, <1>7, <1>8
<1>q. QED
  BY <1>2, <1>4, <1>9, <1>10 DEF HopCountInv, Backed

(* The candidate is replaced.                                              *)
LEMMA SetAltStep ==
  ASSUME HopCountInv, NEW w \in crew, SetAlt(w), UNCHANGED <<judged, checks, roams, crew>>
  PROVE  HopCountInv' /\ \A v \in Workers : Backed(v)
<1>1. w \in Workers /\ CheckTyped /\ check[w].ttl \in TTLs \union {0}
  BY DEF HopCountInv, CheckTyped
<1>2. /\ check[w].at = "setAlt" /\ ttlAlt' = check[w].ttl
      /\ check' = [check EXCEPT ![w].at = "zero"] /\ UNCHANGED <<peerTTL, ttlAltRun, judged, crew>>
  BY DEF SetAlt, At, Goto
<1>3. /\ CheckTyped' /\ check'[w].at = "zero" /\ check'[w].ttl = check[w].ttl
      /\ \A v \in Workers \ {w} : check'[v] = check[v]
  BY <1>1, <1>2 DEF CheckTyped, Places
<1>4. \A i : Latest(i)' = Latest(i)
  BY <1>2, VerdictsStay, <1>1
<1>5. RunDisagrees'
  BY <1>2, <1>3, <1>4 DEF HopCountInv, RunDisagrees
<1>6. RunAgrees'
  BY <1>2, <1>3 DEF RunAgrees
<1>q. QED
  BY <1>2, <1>3, <1>5, <1>6 DEF HopCountInv, Backed

(* The baseline moves on what the goroutine took with it.                  *)
LEMMA MoveStep ==
  ASSUME HopCountInv, NEW w \in crew, Move(w), UNCHANGED <<judged, checks, roams, crew>>
  PROVE  HopCountInv' /\ \A v \in Workers : Backed(v)
<1>1. /\ w \in Workers /\ CheckTyped /\ check[w].ttl \in TTLs \union {0}
      /\ check[w].at = "move" /\ UNCHANGED <<ttlAlt, ttlAltRun>>
      /\ \/ peerTTL' = check[w].ttl /\ check' = [check EXCEPT ![w].at = "moved"]
         \/ peerTTL' = peerTTL /\ check' = [check EXCEPT ![w] = NoCheck]
  BY DEF HopCountInv, CheckTyped, Move, At, Goto, Done
<1>2. NoCheck \in [at : Places, ttl : TTLs \union {0}, known : TTLs \union {0},
                   backing : Seq(Verdicts)] /\ NoCheck.at = "idle"
  BY DEF NoCheck, Places
<1>3. /\ CheckTyped' /\ check'[w].at \in {"moved", "idle"}
      /\ \A v \in Workers \ {w} : check'[v] = check[v]
  <2>1. CASE check' = [check EXCEPT ![w].at = "moved"] /\ peerTTL' = check[w].ttl
    <3> DEFINE Goroutines == [at : Places, ttl : TTLs \union {0}, known : TTLs \union {0},
                              backing : Seq(Verdicts)]
    <3>1. check' \in [Workers -> Goroutines]
      <4>1. check \in [Workers -> Goroutines] /\ check[w] \in Goroutines
        BY <1>1 DEF CheckTyped
      <4>2. "moved" \in Places
        BY DEF Places
      <4>3. [check[w] EXCEPT !.at = "moved"] \in Goroutines
        BY <4>1, <4>2
      <4> HIDE DEF Goroutines
      <4>4. QED
        BY <2>1, <4>1, <4>3
    <3>2. QED
      BY <3>1, <1>1, <2>1 DEF CheckTyped
  <2>2. CASE check' = [check EXCEPT ![w] = NoCheck] /\ peerTTL' = peerTTL
    BY <1>1, <1>2, <2>2 DEF CheckTyped
  <2>q. QED
    BY <1>1, <2>1, <2>2
<1>4. HopCountInv'
  BY <1>1, <1>3, QuietStep
<1>5. ASSUME NEW v \in Workers PROVE Backed(v)
  <2>1. CASE v # w
    BY <2>1, <1>3 DEF Backed, At
  <2>2. ASSUME v = w, peerTTL' # peerTTL
        PROVE  /\ Len(check[w].backing) = RelearnAfter
               /\ \A i \in 1..RelearnAfter :
                    /\ ~check[w].backing[i].agrees
                    /\ Cardinality(crew) = 1 => check[w].backing[i].ttl = peerTTL'
    <3>1. peerTTL' = check[w].ttl
      BY <1>1, <2>2
    <3>2. ASSUME Cardinality(crew) = 1 PROVE crew = {w}
      <4>1. IsFiniteSet(crew)
        BY FS_Subset, HopCountAssumption DEF HopCountInv, CheckTyped
      <4>2. PICK u : crew = {u}
        BY <3>2, <4>1, FS_Singleton
      <4>q. QED
        BY <4>2
    <3>3. crew = {w} => \A i \in 1..RelearnAfter : check[w].backing[i].ttl = check[w].ttl
      BY <1>1 DEF HopCountInv, RunAgrees
    <3>q. QED
      BY <3>1, <3>2, <3>3, <1>1 DEF HopCountInv, RunDisagrees
  <2>q. QED
    BY <2>1, <2>2 DEF Backed
<1>q. QED
  BY <1>4, <1>5

(* All other steps of a goroutine: none of them leaves the move.           *)
LEMMA OtherCheckStep ==
  ASSUME HopCountInv, NEW w \in crew, UNCHANGED <<judged, crew>>,
         \/ \E t \in TTLs : Authenticate(w, t)
         \/ Forget(w) /\ UNCHANGED ttlAlt
         \/ LoadKnown(w) \/ Learn(w) \/ LoadAlt(w) \/ ZeroRun(w) \/ ReportMove(w)
  PROVE  HopCountInv' /\ \A v \in Workers : Backed(v)
<1> DEFINE R == [at : Places, ttl : TTLs \union {0}, known : TTLs \union {0},
                 backing : Seq(Verdicts)]
<1>1. /\ w \in Workers /\ CheckTyped /\ check \in [Workers -> R] /\ ttlAltRun \in Nat
      /\ check[w] \in R /\ peerTTL \in TTLs \union {0} /\ ttlAlt \in TTLs \union {0}
  BY DEF HopCountInv, CheckTyped
<1>2. NoCheck \in R /\ NoCheck.at = "idle"
  BY DEF NoCheck, Places
\* What they have in common.
<1>3. ASSUME NEW r \in R, check' = [check EXCEPT ![w] = r], UNCHANGED ttlAlt,
             ttlAltRun' = ttlAltRun \/ ttlAltRun' = 0, peerTTL' \in TTLs \union {0},
             check[w].at # "move", r.at \notin {"move", "zero"},
             check[w].at = "zero" => ttlAltRun' = 0,
             crew = {w} /\ r.at = "count" => ttlAlt = r.ttl
      PROVE  HopCountInv' /\ \A v \in Workers : Backed(v)
  <2>1. /\ check' \in [Workers -> R] /\ check'[w] = r
        /\ \A v \in Workers \ {w} : check'[v] = check[v]
    BY <1>1, <1>3
  <2>2. CheckTyped'
    BY <1>1, <1>3, <2>1 DEF CheckTyped
  <2>3. HopCountInv'
    BY <2>1, <2>2, <1>3, QuietStep
  <2>4. \A v \in Workers : Backed(v)
    BY <2>1, <1>3 DEF Backed, At
  <2>q. QED
    BY <2>3, <2>4
<1> HIDE DEF R
<1>4. ASSUME NEW t \in TTLs, Authenticate(w, t)
      PROVE  HopCountInv' /\ \A v \in Workers : Backed(v)
  <2>1. PICK p \in {"known", "forget"} : check' = [check EXCEPT ![w].at = p, ![w].ttl = t]
    BY <1>4 DEF Authenticate
  <2> DEFINE r == [check[w] EXCEPT !.at = p, !.ttl = t]
  <2>2. r \in R /\ r.at = p /\ check' = [check EXCEPT ![w] = r]
    BY <2>1, <1>1 DEF R, Places
  <2>q. QED
    BY <2>2, <1>1, <1>3, <1>4 DEF Authenticate, At
<1>5. ASSUME NEW p \in Places, check' = [check EXCEPT ![w].at = p]
      PROVE  LET r == [check[w] EXCEPT !.at = p]
             IN r \in R /\ r.at = p /\ r.ttl = check[w].ttl /\ check' = [check EXCEPT ![w] = r]
  BY <1>1, <1>5 DEF R
<1>6. CASE Forget(w) /\ UNCHANGED ttlAlt
  <2>1. PICK p \in {"forgetSeen", "forgetRun", "known"} : check' = [check EXCEPT ![w].at = p]
    BY <1>6 DEF Forget, Goto
  <2>2. p \in Places /\ p \notin {"move", "zero", "count"}
    BY DEF Places
  <2>3. check[w].at \in {"forget", "forgetSeen", "forgetRun"}
    BY <1>6 DEF Forget, At
  <2>4. ttlAltRun' = ttlAltRun \/ ttlAltRun' = 0
    BY <1>6 DEF Forget
  <2>5. peerTTL' \in TTLs \union {0}
    BY <1>6, <1>1 DEF Forget
  <2>q. QED
    BY <2>1, <2>2, <2>3, <2>4, <2>5, <1>3, <1>5, <1>6
<1>7. CASE LoadKnown(w)
  <2>1. PICK p \in {"seen", "agree", "alt"} :
          check' = [check EXCEPT ![w].known = peerTTL, ![w].at = p]
    BY <1>7 DEF LoadKnown
  <2> DEFINE r == [check[w] EXCEPT !.known = peerTTL, !.at = p]
  <2>2. r \in R /\ r.at = p /\ check' = [check EXCEPT ![w] = r]
    BY <2>1, <1>1 DEF R, Places
  <2>q. QED
    BY <2>2, <1>1, <1>3, <1>7 DEF LoadKnown, At
<1>8. CASE Learn(w)
  <2>1. \/ check' = [check EXCEPT ![w].at = "adopt"]
        \/ check' = [check EXCEPT ![w] = NoCheck]
    BY <1>8 DEF Learn, Goto, Done
  <2>2. check[w].at \in {"seen", "adopt"} /\ UNCHANGED <<ttlAlt, ttlAltRun>>
    BY <1>8 DEF Learn, At
  <2>3. peerTTL' \in TTLs \union {0}
    BY <1>8, <1>1 DEF Learn, R
  <2>4. "adopt" \in Places
    BY DEF Places
  <2>5. CASE check' = [check EXCEPT ![w].at = "adopt"]
    BY <2>2, <2>3, <2>4, <2>5, <1>3, <1>5
  <2>6. CASE check' = [check EXCEPT ![w] = NoCheck]
    BY <2>2, <2>3, <2>6, <1>2, <1>3
  <2>q. QED
    BY <2>1, <2>5, <2>6
<1>9. CASE LoadAlt(w)
  <2>1. PICK p \in {"count", "setAlt"} : /\ check' = [check EXCEPT ![w].at = p]
                                         /\ p = "count" => ttlAlt = check[w].ttl
    BY <1>9 DEF LoadAlt, Goto
  <2>2. p \in Places /\ p \notin {"move", "zero"}
    BY DEF Places
  <2>3. check[w].at = "alt" /\ UNCHANGED <<peerTTL, ttlAlt, ttlAltRun>>
    BY <1>9 DEF LoadAlt, At
  <2>q. QED
    BY <2>1, <2>2, <2>3, <1>1, <1>3, <1>5
<1>10. CASE ZeroRun(w)
  <2>1. /\ check[w].at = "zero" /\ ttlAltRun' = 0 /\ check' = [check EXCEPT ![w].at = "count"]
        /\ UNCHANGED <<peerTTL, ttlAlt>>
    BY <1>10 DEF ZeroRun, At, Goto
  <2>2. "count" \in Places
    BY DEF Places
  <2>q. QED
    BY <2>1, <2>2, <1>1, <1>3, <1>5 DEF HopCountInv, RunAgrees
<1>11. CASE ReportMove(w)
  <2>1. /\ check[w].at = "moved" /\ ttlAltRun' = 0 /\ check' = [check EXCEPT ![w] = NoCheck]
        /\ UNCHANGED <<peerTTL, ttlAlt>>
    BY <1>11 DEF ReportMove, At, Done
  <2>q. QED
    BY <2>1, <1>1, <1>2, <1>3
<1>q. QED
  BY <1>4, <1>6, <1>7, <1>8, <1>9, <1>10, <1>11

(* The baseline moves only on a full run of packets that disagreed with    *)
(* it, and with a single receive goroutine all of them carried the hop     *)
(* count it moves to (checkPeerTTL), for any number of goroutines, any run *)
(* length and any packets.                                                 *)
THEOREM BaselineMovesOnRuns == HopCountSpec => BaselineMovesOnARun
<1>1. HopCountInit => HopCountInv
  <2> SUFFICES ASSUME HopCountInit PROVE HopCountInv
    OBVIOUS
  <2>1. judged \in Seq(Verdicts) /\ Len(judged) = 0
    BY DEF HopCountInit
  <2>2. NoCheck \in [at : Places, ttl : TTLs \union {0}, known : TTLs \union {0},
                     backing : Seq(Verdicts)] /\ NoCheck.at = "idle"
    BY DEF NoCheck, Places
  <2>3. CheckTyped
    BY <2>1, <2>2, HopCountAssumption DEF HopCountInit, CheckTyped
  <2>4. ttlAltRun = 0 /\ \A w \in Workers : check[w].at = "idle"
    BY <2>2 DEF HopCountInit
  <2>5. \A i \in 1..RelearnAfter : ~(i <= ttlAltRun)
    BY <2>4, HopCountAssumption
  <2>q. QED
    BY <2>3, <2>4, <2>5 DEF HopCountInv, RunDisagrees, RunAgrees, CheckTyped
<1>2. ASSUME HopCountInv, [HopCountNext]_hopCountVars
      PROVE  HopCountInv' /\ (HopCountNext => \A v \in Workers : Backed(v))
  <2>1. CASE UNCHANGED hopCountVars
    BY <2>1, <1>2 DEF hopCountVars, HopCountInv, CheckTyped, RunDisagrees, RunAgrees, Latest,
                      Backed
  <2>2. ASSUME NEW w \in crew,
               \/ \E t \in TTLs : Authenticate(w, t)
               \/ Forget(w) /\ UNCHANGED <<ttlAlt, checks, roams, crew, judged>>
               \/ CheckPeerTTL(w)
        PROVE  HopCountInv' /\ \A v \in Workers : Backed(v)
    <3>1. \/ /\ UNCHANGED <<judged, crew>>
             /\ \/ \E t \in TTLs : Authenticate(w, t)
                \/ Forget(w) /\ UNCHANGED ttlAlt
                \/ LoadKnown(w) \/ Learn(w) \/ LoadAlt(w) \/ ZeroRun(w) \/ ReportMove(w)
          \/ UNCHANGED <<checks, roams, crew>> /\ (Agree(w) \/ Count(w))
          \/ UNCHANGED <<judged, checks, roams, crew>> /\ (SetAlt(w) \/ Move(w))
      BY <2>2 DEF CheckPeerTTL, Authenticate
    <3>q. QED
      BY <3>1, <1>2, AgreeStep, CountStep, SetAltStep, MoveStep, OtherCheckStep
  <2>q. QED
    BY <2>1, <2>2, <1>2 DEF HopCountNext
<1>3. HopCountInv /\ [HopCountNext]_hopCountVars => HopCountInv'
  BY <1>2
<1>4. HopCountInv /\ [HopCountNext]_hopCountVars =>
        [\A w \in Workers : At(w, "move") /\ ~(At(w, "move"))' /\ peerTTL' # peerTTL =>
           /\ Len(check[w].backing) = RelearnAfter
           /\ \A i \in 1..RelearnAfter :
                /\ ~check[w].backing[i].agrees
                /\ Cardinality(crew) = 1 => check[w].backing[i].ttl = peerTTL']_hopCountVars
  BY <1>2 DEF Backed
<1>5. QED
  BY <1>1, <1>3, <1>4, PTL DEF HopCountSpec, BaselineMovesOnARun

-----------------------------------------------------------------------------
(* The loss figure.                                                        *)

PathSpec == PathInit /\ [][PathNext]_pathVars

InHands == {r \in Receivers : rx[r].at # "idle"}
Unplaced == {r \in Receivers : rx[r].at \in {"load", "cas", "rebaseMax"}}
RxPlaces == {"idle", "load", "cas", "first", "rebaseMax", "rebaseFirst", "rebaseCount", "rebaseEpoch"}

PathTyped ==
  /\ seqMax \in Nat /\ seqCount \in Nat /\ seqEpoch \in Nat /\ sent \in Nat
  /\ net \subseteq 0..sent /\ counted \subseteq 0..sent /\ net \intersect counted = {}
  /\ passed \subseteq Nat
  /\ rx \in [Receivers -> [at : RxPlaces, seq : Nat, cur : Nat]]
  /\ \A r \in Receivers : rx[r].at = "cas" => rx[r].cur < rx[r].seq
  /\ watch \in [at : {"sleep", "count", "max"}, cnt : Nat, mx : Nat, lastCount : Nat, lastMax : Nat,
                lastEpoch : Nat, atCount : SUBSET counted, inHand : Nat,
                lastAtCount : SUBSET counted, lastInHand : Nat, disturbed : BOOLEAN]

\* What was counted is at or below the maximum, unless a receiver still has to place it or
\* a rebase took the maximum back.
Settled ==
  \A s \in counted : s <= seqMax \/ s \in passed \/ \E r \in Unplaced : rx[r].seq = s

\* Of what was counted at a reading of the count, what is above the maximum read after it
\* was in the receivers' hands.
Above(set, max) == {s \in set : s > max} \ passed
ReadAhead ==
  /\ Cardinality(Above(watch.lastAtCount, watch.lastMax)) <= watch.lastInHand
  /\ watch.at = "count" => Cardinality(Above(watch.atCount, seqMax)) <= watch.inHand
  /\ watch.at = "max" => Cardinality(Above(watch.atCount, watch.mx)) <= watch.inHand

\* While nobody rebases, the count moves with what is counted.
InStep(count, set) == seqCount - Cardinality(counted) = count - Cardinality(set)
Counting ==
  /\ watch.lastEpoch <= seqEpoch
  /\ ~watch.disturbed => InStep(watch.lastCount, watch.lastAtCount)
  /\ watch.at # "sleep" =>
       /\ InStep(watch.cnt, watch.atCount) \/ Rebasing \/ watch.lastEpoch < seqEpoch
       /\ watch.lastAtCount \subseteq watch.atCount
       /\ ~watch.disturbed =>
            watch.cnt - Cardinality(watch.atCount) = watch.lastCount - Cardinality(watch.lastAtCount)
PathInv == PathTyped /\ Settled /\ ReadAhead /\ Counting /\ LossNotInvented

(* What the typing says of the sets of numbers and of the timer's locals.  *)
LEMMA PathFacts ==
  ASSUME PathTyped
  PROVE  /\ \A S \in SUBSET counted : IsFiniteSet(S) /\ Cardinality(S) \in Nat
         /\ watch.atCount \in SUBSET counted /\ watch.lastAtCount \in SUBSET counted
         /\ watch.cnt \in Nat /\ watch.mx \in Nat /\ watch.lastCount \in Nat
         /\ watch.lastMax \in Nat /\ watch.lastEpoch \in Nat /\ watch.inHand \in Nat
         /\ watch.lastInHand \in Nat /\ watch.disturbed \in BOOLEAN
         /\ watch.at \in {"sleep", "count", "max"}
<1>1. IsFiniteSet(0..sent)
  BY FS_Interval DEF PathTyped
<1>2. \A S \in SUBSET counted : IsFiniteSet(S) /\ Cardinality(S) \in Nat
  <2> SUFFICES ASSUME NEW S \in SUBSET counted PROVE IsFiniteSet(S) /\ Cardinality(S) \in Nat
    OBVIOUS
  <2>1. S \in SUBSET (0..sent)
    BY DEF PathTyped
  <2>q. QED
    BY <2>1, <1>1, FS_Subset, FS_CardinalityType
<1>q. QED
  BY <1>2 DEF PathTyped

(* What is above the maximum when the count is read is in hand, or was     *)
(* passed by a rebase.                                                     *)
LEMMA AheadInHand ==
  ASSUME PathTyped, Settled
  PROVE  Placing \in Nat /\ Cardinality(Above(counted, seqMax)) <= Placing
<1> DEFINE T == Above(counted, seqMax)
           S == {r \in Unplaced : rx[r].seq \in T}
           f == [r \in S |-> rx[r].seq]
<1>1. IsFiniteSet(InHands) /\ Placing = Cardinality(InHands) /\ S \in SUBSET InHands
  <2>1. InHands \in SUBSET Receivers /\ S \in SUBSET InHands
    BY DEF InHands, Unplaced
  <2>q. QED
    BY <2>1, FS_Subset, PathAssumption DEF Placing, InHands
<1>2. IsFiniteSet(S) /\ Cardinality(S) <= Placing /\ Placing \in Nat
  BY <1>1, FS_Subset, FS_CardinalityType
<1>3. f \in Surjection(S, T)
  <2>1. f \in [S -> T]
    OBVIOUS
  <2>2. ASSUME NEW t \in T PROVE \E r \in S : f[r] = t
    <3>1. t \in counted /\ ~(t <= seqMax) /\ t \notin passed
      BY <2>2 DEF Above, PathTyped
    <3>2. PICK r \in Unplaced : rx[r].seq = t
      BY <3>1 DEF Settled
    <3>q. QED
      BY <3>2
  <2>q. QED
    BY <2>1, <2>2 DEF Surjection
<1>4. IsFiniteSet(T) /\ Cardinality(T) <= Cardinality(S)
  BY <1>2, <1>3, FS_Surjection
<1>q. QED
  BY <1>2, <1>4, FS_CardinalityType

(* The numbers ahead of a maximum get fewer as it rises, and as rebases    *)
(* pass some.                                                              *)
LEMMA ReadAheadKept ==
  ASSUME PathTyped, ReadAhead, passed \subseteq passed',
         watch' = watch \/ watch' = [watch EXCEPT !.disturbed = TRUE],
         \A s \in counted : s > seqMax' => s > seqMax \/ s \in passed'
  PROVE  ReadAhead'
<1>1. /\ watch'.at = watch.at /\ watch'.lastAtCount = watch.lastAtCount
      /\ watch'.lastMax = watch.lastMax /\ watch'.lastInHand = watch.lastInHand
      /\ watch'.atCount = watch.atCount /\ watch'.mx = watch.mx /\ watch'.inHand = watch.inHand
  BY DEF PathTyped
<1>2. ASSUME NEW S \in SUBSET counted, NEW T \in SUBSET S
      PROVE  Cardinality(T) <= Cardinality(S) /\ Cardinality(T) \in Nat /\ Cardinality(S) \in Nat
  BY PathFacts, FS_Subset
<1>3. Above(watch.lastAtCount, watch.lastMax)' \in SUBSET Above(watch.lastAtCount, watch.lastMax)
  BY <1>1 DEF Above
<1>4. Above(watch.atCount, watch.mx)' \in SUBSET Above(watch.atCount, watch.mx)
  BY <1>1 DEF Above
<1>5. Above(watch.atCount, seqMax)' \in SUBSET Above(watch.atCount, seqMax)
  BY <1>1, PathFacts DEF Above
<1>6. /\ Above(watch.lastAtCount, watch.lastMax) \in SUBSET counted
      /\ Above(watch.atCount, watch.mx) \in SUBSET counted
      /\ Above(watch.atCount, seqMax) \in SUBSET counted
  BY PathFacts DEF Above
<1>q. QED
  BY <1>1, <1>2, <1>3, <1>4, <1>5, <1>6, PathFacts DEF ReadAhead

(* The arithmetic of a burst.  C0 was counted when the last count was      *)
(* read, C is now; P was passed by rebases.                                *)
LEMMA MissingBound ==
  ASSUME NEW C, IsFiniteSet(C), NEW C0 \in SUBSET C, NEW P, NEW lo \in Nat, NEW hi \in Nat,
         lo < hi, C \subseteq Nat, NEW h \in Nat,
         Cardinality({s \in C0 : s > lo} \ P) <= h
  PROVE  (hi - lo) - (Cardinality(C) - Cardinality(C0))
           <= Cardinality((lo + 1 .. hi) \ C) + h + Cardinality((lo + 1 .. hi) \intersect P)
<1> DEFINE A == lo + 1 .. hi
           ahead == {s \in C0 : s > lo} \ P
<1>1. IsFiniteSet(A) /\ Cardinality(A) = hi - lo
  BY FS_Interval
<1>2. IsFiniteSet(C0) /\ IsFiniteSet(ahead)
  <2>1. ahead \in SUBSET C
    OBVIOUS
  <2>q. QED
    BY <2>1, FS_Subset
<1>3. /\ IsFiniteSet(C \ C0) /\ Cardinality(C \ C0) = Cardinality(C) - Cardinality(C0)
  <2>1. C \cap C0 = C0
    OBVIOUS
  <2>q. QED
    BY <2>1, FS_Difference
<1>4. /\ IsFiniteSet(A \ C) /\ Cardinality(A \ C) = (hi - lo) - Cardinality(A \cap C)
      /\ IsFiniteSet(A \cap P) /\ IsFiniteSet(A \cap C0) /\ IsFiniteSet(A \cap C)
  BY <1>1, FS_Difference, FS_Intersection
<1>5. Cardinality(A \cap C0) <= h + Cardinality(A \cap P)
  <2> HIDE DEF ahead
  <2>1. A \cap C0 \in SUBSET (ahead \cup (A \cap P))
    BY DEF ahead
  <2>2. /\ IsFiniteSet(ahead \cup (A \cap P)) /\ Cardinality(ahead \cap (A \cap P)) \in Nat
        /\ Cardinality(ahead \cup (A \cap P))
             = Cardinality(ahead) + Cardinality(A \cap P) - Cardinality(ahead \cap (A \cap P))
    BY <1>2, <1>4, FS_Union, FS_Intersection, FS_CardinalityType
  <2>3. Cardinality(A \cap C0) <= Cardinality(ahead \cup (A \cap P))
    BY <2>1, <2>2, FS_Subset
  <2>4. /\ Cardinality(ahead) <= h /\ Cardinality(ahead) \in Nat /\ Cardinality(A \cap P) \in Nat
        /\ Cardinality(A \cap C0) \in Nat
    BY <1>2, <1>4, FS_CardinalityType DEF ahead
  <2>q. QED
    BY <2>2, <2>3, <2>4
<1>6. Cardinality(A \cap C) <= Cardinality(A \cap C0) + Cardinality(C \ C0)
  <2>1. A \cap C \in SUBSET ((A \cap C0) \cup (C \ C0))
    OBVIOUS
  <2>2. /\ IsFiniteSet((A \cap C0) \cup (C \ C0))
        /\ Cardinality((A \cap C0) \cap (C \ C0)) \in Nat
        /\ Cardinality((A \cap C0) \cup (C \ C0))
             = Cardinality(A \cap C0) + Cardinality(C \ C0)
                 - Cardinality((A \cap C0) \cap (C \ C0))
    BY <1>3, <1>4, FS_Union, FS_Intersection, FS_CardinalityType
  <2>3. Cardinality(A \cap C) <= Cardinality((A \cap C0) \cup (C \ C0))
    BY <2>1, <2>2, FS_Subset
  <2>4. /\ Cardinality(A \cap C0) \in Nat /\ Cardinality(C \ C0) \in Nat
        /\ Cardinality(A \cap C) \in Nat
    BY <1>3, <1>4, FS_CardinalityType
  <2>q. QED
    BY <2>2, <2>3, <2>4
<1>7. /\ Cardinality(A \cap C) \in Nat /\ Cardinality(A \cap C0) \in Nat /\ Cardinality(A \cap P) \in Nat
      /\ Cardinality(C) \in Nat /\ Cardinality(C0) \in Nat
  BY <1>2, <1>4, FS_CardinalityType
<1> HIDE DEF A, ahead
<1>8. (hi - lo) - (Cardinality(C) - Cardinality(C0)) <= Cardinality(A \ C) + h + Cardinality(A \cap P)
  BY <1>3, <1>4, <1>5, <1>6, <1>7
<1>q. QED
  BY <1>8 DEF A

(* The peer sends, or restarts.                                            *)
LEMMA PeerStep ==
  ASSUME PathInv, PeerSend \/ PeerRestart
  PROVE  PathInv'
<1>1. /\ sent \in Nat /\ sent' \in Nat /\ sent <= sent'
      /\ net' = net \/ (net' = net \union {sent'} /\ sent' = sent + 1)
      /\ UNCHANGED <<atomics, rx, watch, counted, passed, burst>>
  BY PathAssumption DEF PathInv, PathTyped, PeerSend, PeerRestart
<1>2. net' \subseteq 0..sent' /\ counted \subseteq 0..sent' /\ net' \intersect counted = {}
  <2>1. \A s \in net \union counted : s \in 0..sent
    BY DEF PathInv, PathTyped
  <2>2. \A s \in 0..sent : s \in 0..sent'
    BY <1>1
  <2>3. sent' \in 0..sent'
    BY <1>1
  <2>4. sent' = sent + 1 => sent' \notin 0..sent
    BY <1>1
  <2>q. QED
    BY <2>1, <2>2, <2>3, <2>4, <1>1 DEF PathInv, PathTyped
<1>3. UNCHANGED <<seqMax, seqCount, seqEpoch, rx, watch, counted, passed, burst>>
  BY <1>1 DEF atomics
<1>4. PathTyped'
  BY <1>1, <1>2, <1>3 DEF PathInv, PathTyped
<1>5. Settled' /\ ReadAhead' /\ Counting' /\ LossNotInvented'
  BY <1>3 DEF PathInv, Settled, ReadAhead, Counting, LossNotInvented, Unplaced, Above, InStep,
              Rebasing
<1>q. QED
  BY <1>4, <1>5 DEF PathInv

(* A packet is counted.                                                    *)
LEMMA CountPacketStep ==
  ASSUME PathInv, NEW r \in Receivers, NEW s \in net, CountPacket(r, s)
  PROVE  PathInv'
<1> DEFINE new == [at |-> "load", seq |-> s, cur |-> 0]
<1>1. /\ rx[r].at = "idle" /\ net' = net \ {s} /\ seqCount' = seqCount + 1
      /\ counted' = counted \union {s} /\ rx' = [rx EXCEPT ![r] = new]
      /\ UNCHANGED <<seqMax, seqEpoch, sent, watch, passed, burst>>
  BY DEF CountPacket, RxAt
<1>2. s \in 0..sent /\ s \notin counted /\ s \in Nat
  BY DEF PathInv, PathTyped
<1>3. new \in [at : RxPlaces, seq : Nat, cur : Nat]
  BY <1>2 DEF RxPlaces
<1>4. /\ rx' \in [Receivers -> [at : RxPlaces, seq : Nat, cur : Nat]] /\ rx'[r] = new
      /\ \A q \in Receivers \ {r} : rx'[q] = rx[q]
  BY <1>1, <1>3 DEF PathInv, PathTyped
<1>5. PathTyped'
  <2>1. \A q \in Receivers : rx'[q].at = "cas" => rx'[q].cur < rx'[q].seq
    BY <1>4 DEF PathInv, PathTyped
  <2>2. counted' \subseteq 0..sent' /\ net' \subseteq 0..sent' /\ net' \intersect counted' = {}
    BY <1>1, <1>2 DEF PathInv, PathTyped
  <2>3. watch' \in [at : {"sleep", "count", "max"}, cnt : Nat, mx : Nat, lastCount : Nat,
                    lastMax : Nat, lastEpoch : Nat, atCount : SUBSET counted', inHand : Nat,
                    lastAtCount : SUBSET counted', lastInHand : Nat, disturbed : BOOLEAN]
    BY <1>1 DEF PathInv, PathTyped
  <2>q. QED
    BY <2>1, <2>2, <2>3, <1>1, <1>4 DEF PathInv, PathTyped
<1>6. Settled'
  <2>1. Unplaced' = Unplaced \union {r} /\ r \notin Unplaced
    BY <1>1, <1>4 DEF Unplaced
  <2>q. QED
    BY <2>1, <1>1, <1>4 DEF PathInv, Settled, Unplaced
<1>7. ReadAhead'
  BY <1>1 DEF PathInv, ReadAhead, Above
<1>8. Counting'
  <2>1. Rebasing' <=> Rebasing
    BY <1>1, <1>4 DEF Rebasing
  <2>2. Cardinality(counted') = Cardinality(counted) + 1 /\ Cardinality(counted) \in Nat
    BY <1>1, <1>2, PathFacts, FS_AddElement DEF PathInv
  <2>3. seqCount' - Cardinality(counted') = seqCount - Cardinality(counted)
    BY <2>2, <1>1 DEF PathInv, PathTyped
  <2>q. QED
    BY <2>1, <2>3, <1>1 DEF PathInv, Counting, InStep
<1>q. QED
  BY <1>1, <1>5, <1>6, <1>7, <1>8 DEF PathInv, LossNotInvented

(* What the receivers' other steps have in common.                         *)
LEMMA ReceiverStep ==
  ASSUME PathInv, NEW r \in Receivers, NEW new \in [at : RxPlaces, seq : Nat, cur : Nat],
         rx' = [rx EXCEPT ![r] = new], UNCHANGED <<net, sent, counted, burst>>,
         new.at = "cas" => new.cur < new.seq,
         seqMax' \in Nat, seqCount' \in Nat, seqEpoch' \in Nat,
         passed \subseteq passed', passed' \subseteq Nat,
         watch' = watch \/ watch' = [watch EXCEPT !.disturbed = TRUE],
         \A s \in counted : s <= seqMax => s <= seqMax' \/ s \in passed',
         r \in Unplaced => (new.at \in {"load", "cas", "rebaseMax"} /\ new.seq = rx[r].seq)
                           \/ rx[r].seq <= seqMax'
  PROVE  PathTyped' /\ Settled' /\ ReadAhead' /\ LossNotInvented'
<1>1. /\ rx' \in [Receivers -> [at : RxPlaces, seq : Nat, cur : Nat]] /\ rx'[r] = new
      /\ \A q \in Receivers \ {r} : rx'[q] = rx[q]
  BY DEF PathInv, PathTyped
<1>2. PathTyped'
  <2>1. \A q \in Receivers : rx'[q].at = "cas" => rx'[q].cur < rx'[q].seq
    BY <1>1 DEF PathInv, PathTyped
  <2>2. watch' \in [at : {"sleep", "count", "max"}, cnt : Nat, mx : Nat, lastCount : Nat,
                    lastMax : Nat, lastEpoch : Nat, atCount : SUBSET counted', inHand : Nat,
                    lastAtCount : SUBSET counted', lastInHand : Nat, disturbed : BOOLEAN]
    BY DEF PathInv, PathTyped
  <2>q. QED
    BY <1>1, <2>1, <2>2 DEF PathInv, PathTyped
<1>3. Settled'
  <2> SUFFICES ASSUME NEW s \in counted
               PROVE  s <= seqMax' \/ s \in passed' \/ \E q \in Unplaced' : rx'[q].seq = s
    BY DEF Settled
  <2>1. CASE s <= seqMax \/ s \in passed
    BY <2>1
  <2>2. ASSUME NEW q \in Unplaced, rx[q].seq = s
        PROVE  s <= seqMax' \/ \E p \in Unplaced' : rx'[p].seq = s
    <3>1. CASE q = r
      BY <3>1, <2>2, <1>1 DEF Unplaced
    <3>2. CASE q # r
      BY <3>2, <2>2, <1>1 DEF Unplaced
    <3>q. QED
      BY <3>1, <3>2
  <2>q. QED
    BY <2>1, <2>2 DEF PathInv, Settled
<1>4. ReadAhead'
  <2>1. \A s \in counted : s \in Nat
    BY DEF PathInv, PathTyped
  <2>2. \A s \in counted : s > seqMax' => s > seqMax \/ s \in passed'
    BY <2>1 DEF PathInv, PathTyped
  <2>q. QED
    BY <2>2, ReadAheadKept DEF PathInv
<1>q. QED
  BY <1>2, <1>3, <1>4 DEF PathInv, LossNotInvented

LEMMA PlaceStep ==
  ASSUME PathInv, NEW r \in Receivers, LoadSeqMax(r) \/ CasSeqMax(r)
  PROVE  PathInv'
<1> DEFINE R == [at : RxPlaces, seq : Nat, cur : Nat]
<1>1. /\ rx \in [Receivers -> R] /\ rx[r] \in R /\ seqMax \in Nat /\ rx[r].seq \in Nat
      /\ rx[r].cur \in Nat /\ \A s \in counted : s \in Nat
  BY DEF PathInv, PathTyped
<1>2. UNCHANGED <<seqCount, seqEpoch, net, sent, watch, counted, passed, burst>>
  BY DEF LoadSeqMax, CasSeqMax, peer
<1>3. NoPacket \in R /\ NoPacket.at = "idle"
  BY DEF NoPacket, RxPlaces
<1>4. ASSUME NEW new \in R, rx' = [rx EXCEPT ![r] = new],
             new.at = "cas" => new.cur < new.seq,
             seqMax' \in Nat, seqMax <= seqMax',
             r \in Unplaced => (new.at \in {"load", "cas", "rebaseMax"} /\ new.seq = rx[r].seq)
                               \/ rx[r].seq <= seqMax',
             rx[r].at \in {"load", "cas", "first"},
             new.at \in {"idle", "load", "cas", "first", "rebaseMax"}
      PROVE  PathInv'
  <2>1. \A s \in counted : s <= seqMax => s <= seqMax'
    BY <1>1, <1>4
  <2>2. seqCount' \in Nat /\ seqEpoch' \in Nat /\ passed \subseteq passed' /\ passed' \subseteq Nat
    BY <1>2 DEF PathInv, PathTyped
  <2>3. PathTyped' /\ Settled' /\ ReadAhead' /\ LossNotInvented'
    BY <2>1, <2>2, <1>2, <1>4, ReceiverStep
  <2>4. Rebasing' <=> Rebasing
    BY <1>1, <1>4 DEF Rebasing
  <2>5. Counting'
    BY <2>4, <1>2 DEF PathInv, Counting, InStep
  <2>q. QED
    BY <2>3, <2>5 DEF PathInv
<1> HIDE DEF R
<1>5. CASE LoadSeqMax(r)
  <2>1. CASE rx[r].seq <= seqMax /\ rx' = [rx EXCEPT ![r] = NoPacket]
    <3>1. seqMax' = seqMax /\ rx[r].at = "load"
      BY <1>5 DEF LoadSeqMax, RxAt
    <3>2. seqMax' \in Nat /\ seqMax <= seqMax' /\ rx[r].seq <= seqMax'
      BY <3>1, <2>1, <1>1
    <3>q. QED
      BY <3>1, <3>2, <2>1, <1>3, <1>4
  <2>2. ASSUME NEW p \in {"rebaseMax", "cas"}, rx[r].seq > seqMax,
               rx' = [rx EXCEPT ![r].cur = seqMax, ![r].at = p]
        PROVE  PathInv'
    <3> DEFINE new == [rx[r] EXCEPT !.cur = seqMax, !.at = p]
    <3>1. /\ new \in R /\ new.at = p /\ new.cur = seqMax /\ new.seq = rx[r].seq
          /\ rx' = [rx EXCEPT ![r] = new]
      BY <2>2, <1>1 DEF R, RxPlaces
    <3>2. new.cur < new.seq
      BY <3>1, <2>2, <1>1
    <3>3. seqMax' = seqMax /\ rx[r].at = "load"
      BY <1>5 DEF LoadSeqMax, RxAt
    <3>4. seqMax' \in Nat /\ seqMax <= seqMax'
      BY <3>3, <1>1
    <3> HIDE DEF new
    <3>q. QED
      BY <3>1, <3>2, <3>3, <3>4, <1>4
  <2>3. \/ rx[r].seq <= seqMax /\ rx' = [rx EXCEPT ![r] = NoPacket]
        \/ \E p \in {"rebaseMax", "cas"} :
             rx[r].seq > seqMax /\ rx' = [rx EXCEPT ![r].cur = seqMax, ![r].at = p]
    BY <1>5 DEF LoadSeqMax
  <2>q. QED
    BY <2>1, <2>2, <2>3
<1>6. CASE CasSeqMax(r)
  <2>1. CASE rx[r].at = "cas" /\ seqMax = rx[r].cur /\ seqMax' = rx[r].seq
             /\ rx' = [rx EXCEPT ![r] = IF seqMax = 0 THEN [@ EXCEPT !.at = "first"] ELSE NoPacket]
    <3> DEFINE new == IF seqMax = 0 THEN [rx[r] EXCEPT !.at = "first"] ELSE NoPacket
    <3>1. new \in R /\ new.at \in {"first", "idle"} /\ rx' = [rx EXCEPT ![r] = new]
      BY <2>1, <1>1, <1>3 DEF R, RxPlaces
    <3>2. seqMax <= seqMax' /\ seqMax' \in Nat /\ rx[r].seq <= seqMax'
      BY <2>1, <1>1 DEF PathInv, PathTyped
    <3> HIDE DEF new
    <3>q. QED
      BY <3>1, <3>2, <2>1, <1>4
  <2>2. CASE rx[r].at = "cas" /\ rx' = [rx EXCEPT ![r].at = "load"] /\ seqMax' = seqMax
    <3> DEFINE new == [rx[r] EXCEPT !.at = "load"]
    <3>1. new \in R /\ new.at = "load" /\ new.seq = rx[r].seq /\ rx' = [rx EXCEPT ![r] = new]
      BY <2>2, <1>1 DEF R, RxPlaces
    <3>2. seqMax' \in Nat /\ seqMax <= seqMax'
      BY <2>2, <1>1
    <3> HIDE DEF new
    <3>q. QED
      BY <3>1, <3>2, <2>2, <1>4
  <2>3. CASE rx[r].at = "first" /\ rx' = [rx EXCEPT ![r] = NoPacket] /\ seqMax' = seqMax
    <3>1. r \notin Unplaced
      BY <2>3 DEF Unplaced
    <3>2. seqMax' \in Nat /\ seqMax <= seqMax'
      BY <2>3, <1>1
    <3>q. QED
      BY <3>1, <3>2, <2>3, <1>3, <1>4
  <2>q. QED
    BY <2>1, <2>2, <2>3, <1>6 DEF CasSeqMax, RxAt
<1>q. QED
  BY <1>5, <1>6

(* A step of a rebase: a store of the maximum passes what it falls below,  *)
(* and the interval is disturbed by all of them.                           *)
LEMMA RebaseKept ==
  ASSUME PathInv, NEW r \in Receivers, Rebase(r)
  PROVE  PathInv'
<1> DEFINE R == [at : RxPlaces, seq : Nat, cur : Nat]
<1>1. /\ rx \in [Receivers -> R] /\ rx[r] \in R /\ seqMax \in Nat /\ rx[r].seq \in Nat
      /\ seqCount \in Nat /\ seqEpoch \in Nat /\ passed \subseteq Nat
      /\ \A s \in counted : s \in Nat
  BY DEF PathInv, PathTyped
<1>2. /\ UNCHANGED <<net, sent, counted, burst>>
      /\ watch' = [watch EXCEPT !.disturbed = TRUE]
      /\ passed' = passed \union {s \in counted : seqMax' < s /\ s <= seqMax}
  BY DEF Rebase, peer
<1>3. NoPacket \in R /\ NoPacket.at = "idle"
  BY DEF NoPacket, RxPlaces
\* What they have in common.
<1>4. ASSUME NEW new \in R, rx' = [rx EXCEPT ![r] = new], new.at # "cas",
             seqMax' \in Nat, seqCount' \in Nat, seqEpoch' \in Nat, seqEpoch <= seqEpoch',
             r \in Unplaced => rx[r].seq <= seqMax',
             \/ new.at \in {"rebaseFirst", "rebaseCount", "rebaseEpoch"}
             \/ seqEpoch < seqEpoch'
      PROVE  PathInv'
  <2>1. passed \subseteq passed' /\ passed' \subseteq Nat
    BY <1>1, <1>2
  <2>2. \A s \in counted : s <= seqMax => s <= seqMax' \/ s \in passed'
    BY <1>1, <1>2, <1>4
  <2>3. PathTyped' /\ Settled' /\ ReadAhead' /\ LossNotInvented'
    BY <2>1, <2>2, <1>2, <1>4, ReceiverStep
  <2>4. watch.lastEpoch \in Nat /\ watch.lastEpoch <= seqEpoch
    BY PathFacts DEF PathInv, Counting
  <2>5. Rebasing' \/ watch.lastEpoch < seqEpoch'
    <3>1. CASE new.at \in {"rebaseFirst", "rebaseCount", "rebaseEpoch"}
      <4>1. rx'[r] = new
        BY <1>1, <1>4
      <4>q. QED
        BY <3>1, <4>1 DEF Rebasing
    <3>2. CASE seqEpoch < seqEpoch'
      BY <3>2, <2>4, <1>1, <1>4
    <3>q. QED
      BY <3>1, <3>2, <1>4
  <2>6. /\ watch'.disturbed = TRUE /\ watch'.at = watch.at /\ watch'.lastEpoch = watch.lastEpoch
        /\ watch'.atCount = watch.atCount /\ watch'.lastAtCount = watch.lastAtCount
    BY <1>2 DEF PathInv, PathTyped
  <2>7. watch'.lastEpoch <= seqEpoch'
    BY <2>4, <2>6, <1>1, <1>4
  <2>8. Counting'
    BY <2>5, <2>6, <2>7 DEF PathInv, Counting
  <2>q. QED
    BY <2>3, <2>8 DEF PathInv
<1> HIDE DEF R
<1>5. ASSUME NEW next \in {"rebaseFirst", "rebaseCount", "rebaseEpoch"},
             rx' = [rx EXCEPT ![r].at = next]
      PROVE  LET new == [rx[r] EXCEPT !.at = next]
             IN new \in R /\ rx' = [rx EXCEPT ![r] = new] /\ new.at = next
  BY <1>1, <1>5 DEF R, RxPlaces
<1>6. CASE RebaseStep(r, "rebaseMax", "rebaseFirst") /\ seqMax' = rx[r].seq
           /\ UNCHANGED <<seqCount, seqEpoch>>
  <2>1. rx' = [rx EXCEPT ![r].at = "rebaseFirst"]
    BY <1>6 DEF RebaseStep
  <2>2. seqMax' \in Nat /\ seqCount' \in Nat /\ seqEpoch' \in Nat /\ seqEpoch <= seqEpoch'
        /\ rx[r].seq <= seqMax'
    BY <1>6, <1>1
  <2>q. QED
    BY <2>1, <2>2, <1>4, <1>5
<1>7. ASSUME rx[r].at \in {"rebaseFirst", "rebaseCount", "rebaseEpoch"} PROVE r \notin Unplaced
  BY <1>7 DEF Unplaced
<1>8. CASE RebaseStep(r, "rebaseFirst", "rebaseCount") /\ UNCHANGED <<seqMax, seqCount, seqEpoch>>
  <2>1. rx' = [rx EXCEPT ![r].at = "rebaseCount"] /\ rx[r].at = "rebaseFirst"
    BY <1>8 DEF RebaseStep, RxAt
  <2>2. seqMax' \in Nat /\ seqCount' \in Nat /\ seqEpoch' \in Nat /\ seqEpoch <= seqEpoch'
    BY <1>8, <1>1
  <2>q. QED
    BY <2>1, <2>2, <1>4, <1>5, <1>7
<1>9. CASE RebaseStep(r, "rebaseCount", "rebaseEpoch") /\ seqCount' = 1
           /\ UNCHANGED <<seqMax, seqEpoch>>
  <2>1. rx' = [rx EXCEPT ![r].at = "rebaseEpoch"] /\ rx[r].at = "rebaseCount"
    BY <1>9 DEF RebaseStep, RxAt
  <2>2. seqMax' \in Nat /\ seqCount' \in Nat /\ seqEpoch' \in Nat /\ seqEpoch <= seqEpoch'
    BY <1>9, <1>1
  <2>q. QED
    BY <2>1, <2>2, <1>4, <1>5, <1>7
<1>10. CASE RebaseStep(r, "rebaseEpoch", "idle") /\ seqEpoch' = seqEpoch + 1
            /\ UNCHANGED <<seqMax, seqCount>>
  <2>1. rx' = [rx EXCEPT ![r] = NoPacket] /\ rx[r].at = "rebaseEpoch"
    BY <1>10 DEF RebaseStep, RxAt
  <2>2. seqMax' \in Nat /\ seqCount' \in Nat /\ seqEpoch' \in Nat /\ seqEpoch < seqEpoch'
        /\ seqEpoch <= seqEpoch'
    BY <1>10, <1>1
  <2>q. QED
    BY <2>1, <2>2, <1>3, <1>4, <1>7
<1>q. QED
  BY <1>6, <1>8, <1>9, <1>10 DEF Rebase

(* The timer reads the count.                                              *)
LEMMA TickLoadCountStep ==
  ASSUME PathInv, TickLoadCount
  PROVE  PathInv'
<1>1. /\ watch.at = "sleep"
      /\ watch' = [watch EXCEPT !.at = "count", !.cnt = seqCount, !.atCount = counted,
                                !.inHand = Placing]
      /\ UNCHANGED <<seqMax, seqCount, seqEpoch, net, sent, rx, counted, passed, burst>>
  BY DEF TickLoadCount, atomics, peer
<1>2. Placing \in Nat /\ Cardinality(Above(counted, seqMax)) <= Placing
  BY AheadInHand DEF PathInv
<1>3. /\ watch'.at = "count" /\ watch'.cnt = seqCount /\ watch'.atCount = counted
      /\ watch'.inHand = Placing /\ watch'.lastAtCount = watch.lastAtCount
      /\ watch'.lastMax = watch.lastMax /\ watch'.lastInHand = watch.lastInHand
      /\ watch'.lastCount = watch.lastCount /\ watch'.lastEpoch = watch.lastEpoch
      /\ watch'.disturbed = watch.disturbed
  BY <1>1 DEF PathInv, PathTyped
<1>4. PathTyped'
  <2>1. watch' \in [at : {"sleep", "count", "max"}, cnt : Nat, mx : Nat, lastCount : Nat,
                    lastMax : Nat, lastEpoch : Nat, atCount : SUBSET counted', inHand : Nat,
                    lastAtCount : SUBSET counted', lastInHand : Nat, disturbed : BOOLEAN]
    BY <1>1, <1>2 DEF PathInv, PathTyped
  <2>q. QED
    BY <2>1, <1>1 DEF PathInv, PathTyped
<1>5. Settled'
  BY <1>1 DEF PathInv, Settled, Unplaced
<1>6. ReadAhead'
  BY <1>1, <1>2, <1>3 DEF PathInv, ReadAhead, Above
<1>7. Counting'
  <2>1. ASSUME ~watch.disturbed
        PROVE  seqCount - Cardinality(counted) = watch.lastCount - Cardinality(watch.lastAtCount)
    BY <2>1 DEF PathInv, Counting, InStep
  <2>2. watch.lastAtCount \subseteq counted
    BY PathFacts DEF PathInv
  <2>q. QED
    BY <2>1, <2>2, <1>1, <1>3 DEF PathInv, Counting, InStep
<1>q. QED
  BY <1>1, <1>4, <1>5, <1>6, <1>7 DEF PathInv, LossNotInvented

(* The timer reads the maximum.                                            *)
LEMMA TickLoadMaxStep ==
  ASSUME PathInv, TickLoadMax
  PROVE  PathInv'
<1>1. /\ watch.at = "count" /\ watch' = [watch EXCEPT !.at = "max", !.mx = seqMax]
      /\ UNCHANGED <<seqMax, seqCount, seqEpoch, net, sent, rx, counted, passed, burst>>
  BY DEF TickLoadMax, atomics, peer
<1>2. /\ watch'.at = "max" /\ watch'.mx = seqMax /\ watch'.cnt = watch.cnt
      /\ watch'.atCount = watch.atCount /\ watch'.inHand = watch.inHand
      /\ watch'.lastAtCount = watch.lastAtCount /\ watch'.lastMax = watch.lastMax
      /\ watch'.lastInHand = watch.lastInHand /\ watch'.lastCount = watch.lastCount
      /\ watch'.lastEpoch = watch.lastEpoch /\ watch'.disturbed = watch.disturbed
  BY <1>1 DEF PathInv, PathTyped
<1>3. PathTyped' /\ Settled'
  BY <1>1 DEF PathInv, PathTyped, Settled, Unplaced
<1>4. ReadAhead'
  BY <1>1, <1>2 DEF PathInv, ReadAhead, Above
<1>5. Counting'
  <2>1. Rebasing' <=> Rebasing
    BY <1>1 DEF Rebasing
  <2>q. QED
    BY <2>1, <1>1, <1>2 DEF PathInv, Counting, InStep
<1>q. QED
  BY <1>1, <1>3, <1>4, <1>5 DEF PathInv, LossNotInvented

(* The timer judges the interval.                                          *)
LEMMA TickJudgeStep ==
  ASSUME PathInv, TickJudge
  PROVE  PathInv'
<1> DEFINE quiet == seqEpoch = watch.lastEpoch /\ ~Rebasing
<1>1. /\ watch.at = "max"
      /\ watch' = [watch EXCEPT !.at = "sleep", !.lastCount = watch.cnt, !.lastMax = watch.mx,
                            !.lastEpoch = seqEpoch, !.lastAtCount = watch.atCount,
                            !.atCount = {}, !.cnt = 0, !.mx = 0,
                            !.lastInHand = watch.inHand, !.inHand = 0,
                            !.disturbed = seqEpoch # watch.lastEpoch \/ Rebasing]
      /\ UNCHANGED <<seqMax, seqCount, seqEpoch, net, sent, rx, counted, passed>>
  BY DEF TickJudge, atomics, peer
<1>2. /\ watch'.at = "sleep" /\ watch'.lastCount = watch.cnt /\ watch'.lastMax = watch.mx
      /\ watch'.lastEpoch = seqEpoch /\ watch'.lastAtCount = watch.atCount
      /\ watch'.lastInHand = watch.inHand
      /\ watch'.disturbed = (seqEpoch # watch.lastEpoch \/ Rebasing)
  BY <1>1 DEF PathInv, PathTyped
<1>3. PathTyped'
  <2>1. {} \in SUBSET counted /\ 0 \in Nat
        /\ (seqEpoch # watch.lastEpoch \/ Rebasing) \in BOOLEAN
    BY DEF Rebasing
  <2>2. /\ watch.cnt \in Nat /\ watch.mx \in Nat /\ seqEpoch \in Nat /\ watch.inHand \in Nat
        /\ watch.atCount \in SUBSET counted
    BY PathFacts DEF PathInv, PathTyped
  <2>3. watch' \in [at : {"sleep", "count", "max"}, cnt : Nat, mx : Nat, lastCount : Nat,
                    lastMax : Nat, lastEpoch : Nat, atCount : SUBSET counted, inHand : Nat,
                    lastAtCount : SUBSET counted, lastInHand : Nat, disturbed : BOOLEAN]
    BY <2>1, <2>2, <1>1 DEF PathInv, PathTyped
  <2>q. QED
    BY <2>3, <1>1 DEF PathInv, PathTyped
<1>4. Settled'
  BY <1>1 DEF PathInv, Settled, Unplaced
<1>5. ReadAhead'
  BY <1>1, <1>2 DEF PathInv, ReadAhead, Above
<1>6. Counting'
  <2>1. ASSUME ~(seqEpoch # watch.lastEpoch \/ Rebasing)
        PROVE  InStep(watch.cnt, watch.atCount)
    <3>1. ~(watch.lastEpoch < seqEpoch)
      BY <2>1, PathFacts DEF PathInv, PathTyped
    <3>q. QED
      BY <3>1, <2>1, <1>1 DEF PathInv, Counting
  <2>2. seqEpoch <= seqEpoch
    BY DEF PathInv, PathTyped
  <2>q. QED
    BY <2>1, <2>2, <1>1, <1>2 DEF Counting, InStep
<1>7. LossNotInvented'
  <2>1. CASE burst' = NoBurst
    BY <2>1 DEF LossNotInvented, NoBurst
  <2>2. ASSUME ~watch.disturbed, Expected > LossFloor
        PROVE  Missing <= Cardinality(Interval \ watch.atCount) + watch.lastInHand
                            + Cardinality(Interval \intersect passed)
    <3> DEFINE C == watch.atCount
               C0 == watch.lastAtCount
    <3>1. /\ C \in SUBSET counted /\ C0 \in SUBSET C /\ IsFiniteSet(C)
          /\ watch.cnt - Cardinality(C) = watch.lastCount - Cardinality(C0)
          /\ Cardinality(C) \in Nat /\ Cardinality(C0) \in Nat
      BY <2>2, <1>1, PathFacts DEF PathInv, Counting
    <3>2. watch.lastMax \in Nat /\ watch.mx \in Nat /\ watch.lastInHand \in Nat
          /\ watch.cnt \in Nat /\ watch.lastCount \in Nat
      BY PathFacts DEF PathInv
    <3>3. watch.lastMax < watch.mx
      BY <3>2, <2>2, PathAssumption DEF Expected
    <3>4. C \subseteq Nat
      <4>1. counted \in SUBSET (0..sent) /\ \A n \in 0..sent : n \in Nat
        BY DEF PathInv, PathTyped
      <4>q. QED
        BY <3>1, <4>1
    <3>5. Cardinality({s \in C0 : s > watch.lastMax} \ passed) <= watch.lastInHand
      BY DEF PathInv, ReadAhead, Above
    <3>6. (watch.mx - watch.lastMax) - (Cardinality(C) - Cardinality(C0))
            <= Cardinality((watch.lastMax + 1 .. watch.mx) \ C) + watch.lastInHand
               + Cardinality((watch.lastMax + 1 .. watch.mx) \intersect passed)
      <4> HIDE DEF C, C0
      <4>q. QED
        BY <3>1, <3>2, <3>3, <3>4, <3>5, MissingBound
    <3>7. Missing = (watch.mx - watch.lastMax) - (Cardinality(C) - Cardinality(C0))
      BY <3>1, <3>2 DEF Missing, Expected, Got
    <3>q. QED
      BY <3>6, <3>7 DEF Interval
  <2>3. CASE burst' # NoBurst
    <3>1. /\ Expected > LossFloor
          /\ burst' = [missing |-> Missing, disturbed |-> watch.disturbed,
                       inHand |-> watch.lastInHand,
                       absent |-> Cardinality(Interval \ watch.atCount),
                       passed |-> Cardinality(Interval \intersect passed)]
      BY <2>3 DEF TickJudge
    <3>2. /\ burst'.missing = Missing /\ burst'.disturbed = watch.disturbed
          /\ burst'.inHand = watch.lastInHand
          /\ burst'.absent = Cardinality(Interval \ watch.atCount)
          /\ burst'.passed = Cardinality(Interval \intersect passed)
      BY <3>1
    <3>3. CASE watch.disturbed
      BY <3>2, <3>3 DEF LossNotInvented
    <3>4. CASE ~watch.disturbed
      <4>1. Missing <= Cardinality(Interval \ watch.atCount) + watch.lastInHand
                         + Cardinality(Interval \intersect passed)
        BY <3>1, <3>4, <2>2
      <4>2. watch.lastInHand \in Nat /\ Cardinality(Interval \ watch.atCount) \in Nat
            /\ Cardinality(Interval \intersect passed) \in Nat
        <5>1. watch.lastMax + 1 \in Int /\ watch.mx \in Int
          BY PathFacts DEF PathInv
        <5>2. IsFiniteSet(Interval)
          BY <5>1, FS_Interval DEF Interval
        <5>q. QED
          BY <5>2, PathFacts, FS_Difference, FS_Intersection, FS_CardinalityType DEF PathInv
      <4>q. QED
        BY <3>2, <4>1, <4>2 DEF LossNotInvented
    <3>q. QED
      BY <3>3, <3>4
  <2>q. QED
    BY <2>1, <2>3
<1>q. QED
  BY <1>3, <1>4, <1>5, <1>6, <1>7 DEF PathInv

(* A loss burst of an interval no rebase fell into reports no more missing *)
(* than was missing (observePeerPacket, pathWatch), for any number of      *)
(* receive goroutines, any packets, losses and reorderings.                *)
THEOREM LossIsReal == PathSpec => []LossNotInvented
<1>1. PathInit => PathInv
  <2> SUFFICES ASSUME PathInit PROVE PathInv
    OBVIOUS
  <2>1. NoPacket \in [at : RxPlaces, seq : Nat, cur : Nat] /\ NoPacket.at = "idle"
    BY DEF NoPacket, RxPlaces
  <2>2. /\ seqMax = 0 /\ seqCount = 0 /\ seqEpoch = 0 /\ sent = 0 /\ net = {} /\ counted = {}
        /\ passed = {} /\ watch = Asleep /\ burst = NoBurst
        /\ rx = [r \in Receivers |-> NoPacket]
    BY DEF PathInit
  <2>3. FALSE \in BOOLEAN
    OBVIOUS
  <2>4. /\ Asleep \in [at : {"sleep", "count", "max"}, cnt : Nat, mx : Nat, lastCount : Nat,
                       lastMax : Nat, lastEpoch : Nat, atCount : SUBSET {}, inHand : Nat,
                       lastAtCount : SUBSET {}, lastInHand : Nat, disturbed : BOOLEAN]
        /\ Asleep.at = "sleep" /\ Asleep.lastEpoch = 0 /\ Asleep.lastCount = 0
        /\ Asleep.lastAtCount = {} /\ Asleep.lastInHand = 0 /\ Asleep.lastMax = 0
    BY <2>3 DEF Asleep
  <2>5. PathTyped
    BY <2>1, <2>2, <2>4 DEF PathTyped
  <2>6. Settled
    BY <2>2 DEF Settled
  <2>7. ReadAhead
    <3>1. Above({}, 0) = {} /\ Cardinality({}) = 0
      BY FS_EmptySet DEF Above
    <3>q. QED
      BY <3>1, <2>2, <2>4 DEF ReadAhead
  <2>8. Counting
    BY <2>2, <2>4 DEF Counting, InStep
  <2>9. LossNotInvented
    BY <2>2 DEF LossNotInvented, NoBurst
  <2>q. QED
    BY <2>5, <2>6, <2>7, <2>8, <2>9 DEF PathInv
<1>2. PathInv /\ [PathNext]_pathVars => PathInv'
  <2> SUFFICES ASSUME PathInv, [PathNext]_pathVars PROVE PathInv'
    OBVIOUS
  <2>1. CASE UNCHANGED pathVars
    BY <2>1 DEF pathVars, PathInv, PathTyped, Settled, ReadAhead, Counting, LossNotInvented,
                Unplaced, Above, InStep, Rebasing
  <2>2. CASE PathNext
    BY <2>2, PeerStep, CountPacketStep, PlaceStep, RebaseKept, TickLoadCountStep,
       TickLoadMaxStep, TickJudgeStep DEF PathNext
  <2>q. QED
    BY <2>1, <2>2
<1>3. PathInv => LossNotInvented
  BY DEF PathInv
<1>q. QED
  BY <1>1, <1>2, <1>3, PTL DEF PathSpec
-----------------------------------------------------------------------------
(* The log (EventLog).                                                     *)

LogSpec == LogInit /\ [][LogNext]_logVars

\* So many files' worth of lines.
Room(n) == n * (MaxSize + 1)
Line == [kind : {"event", "limited"}, n : Int]
LogFile == [from : Nat, lines : Seq(Line)]

\* Where a generation ends in the history, and where the generations end.
Ends(fs, g) == fs[g].from + Len(fs[g].lines)
Floor(fs, hist) == IF 0 \in DOMAIN fs THEN fs[0].from ELSE Len(hist)

\* Between a generation's end and the file being written lie the generations in
\* between, but for the ones a kill cost; `top` is how far down a rotation under way
\* has moved them, and leaves a hole above.
Segments(fs, hist) ==
  /\ hist \in Seq(Line) /\ DOMAIN fs \subseteq 0..Keep
  /\ \A g \in DOMAIN fs :
       /\ fs[g] \in LogFile /\ Ends(fs, g) <= Len(hist)
       /\ \A i \in DOMAIN fs[g].lines : fs[g].lines[i] = hist[fs[g].from + i]
       /\ Ends(fs, g) = Len(hist) \/ \E h \in DOMAIN fs : h < g /\ fs[h].from = Ends(fs, g)
       /\ \A h \in DOMAIN fs : h < g => Ends(fs, g) <= fs[h].from
Packed(fs, hist, k, top) ==
  \A g \in DOMAIN fs \ {0} :
    Floor(fs, hist) - Ends(fs, g) >= Room(g - 1 - k - (IF g > top THEN 1 ELSE 0))
Oldest(fs, hist, k) ==
  /\ Len(hist) > 0 => DOMAIN fs # {}
  /\ \A g \in DOMAIN fs :
       (\A h \in DOMAIN fs : h <= g) =>
         fs[g].from = 0 \/ Len(hist) - fs[g].from >= Room(Keep - k)
Kept(fs, hist, k, top) ==
  Segments(fs, hist) /\ Packed(fs, hist, k, top) /\ Oldest(fs, hist, k)

\* How far the file has grown, by where the writer stands.
Top == IF writer.at = "rename" THEN writer.gen ELSE Keep
Grown(most) == 0 \in DOMAIN files => Len(files[0].lines) <= most
Writers == [at : {"open", "idle", "remove", "rename"}, gen : 0..Keep, open : BOOLEAN,
            size : Nat, minute : Nat, inMin : Nat, limited : BOOLEAN]
Writing ==
  /\ writer \in Writers
  /\ writer.at = "rename" => writer.gen < Keep /\ writer.gen + 1 \notin DOMAIN files
  /\ writer.at \in {"remove", "rename"} =>
       0 \in DOMAIN files /\ Len(files[0].lines) >= MaxSize + 1
  /\ writer.at = "open" /\ 0 \in DOMAIN files =>
       Grown(MaxSize + 1 + kills) /\ ~writer.limited /\ writer.inMin = 0
  /\ writer.at = "idle" /\ ~writer.open => Grown(MaxSize + 1 + kills)
  /\ writer.at = "idle" /\ writer.open =>
       /\ 0 \in DOMAIN files /\ writer.size = Len(files[0].lines)
       /\ \/ Grown(MaxSize)
          \/ Grown(MaxSize + 1 + kills) /\ ~writer.limited /\ writer.inMin = 0
LogInv == Kept(files, history, kills, Top) /\ Writing /\ Small /\ kills \in Nat

\* What feeds the writer.
Fed == queue \in Seq(Nat) /\ offered \in Nat /\ minute \in Nat

(* A text is added to a sequence.                                          *)
LEMMA Appended ==
  ASSUME NEW S, NEW s \in Seq(S), NEW t \in Seq(S)
  PROVE  /\ s \o t \in Seq(S) /\ Len(s \o t) = Len(s) + Len(t)
         /\ Len(s) \in Nat /\ Len(t) \in Nat
         /\ \A i \in 1..Len(s) : (s \o t)[i] = s[i]
         /\ \A i \in 1..Len(t) : (s \o t)[Len(s) + i] = t[i]
         /\ t = <<>> => s \o t = s
OBVIOUS

(* One file more is one file's room more.                                  *)
LEMMA RoomSteps ==
  ASSUME LogAssumption
  PROVE  /\ \A n \in Int : Room(n) \in Int /\ Room(n + 1) = Room(n) + MaxSize + 1
         /\ \A n \in Int : Room(n - 1) = Room(n) - (MaxSize + 1)
         /\ Room(0) = 0
<1>1. MaxSize \in Nat /\ MaxSize > 0
  BY DEF LogAssumption
<1>2. ASSUME NEW n \in Int
      PROVE  /\ Room(n) \in Int /\ Room(n + 1) = Room(n) + MaxSize + 1
             /\ Room(n - 1) = Room(n) - (MaxSize + 1)
  <2>1. n * (MaxSize + 1) \in Int
        /\ (n + 1) * (MaxSize + 1) = n * (MaxSize + 1) + (MaxSize + 1)
        /\ (n - 1) * (MaxSize + 1) = n * (MaxSize + 1) - (MaxSize + 1)
    BY <1>1, Z3
  <2>2. QED
    BY <2>1, <1>1 DEF Room
<1>3. Room(0) = 0
  BY <1>1 DEF Room
<1>4. QED
  BY <1>2, <1>3

(* Fewer files take less room.                                             *)
LEMMA RoomGrows ==
  ASSUME LogAssumption, NEW m \in Int, NEW n \in Int, m <= n
  PROVE  Room(m) <= Room(n)
<1>1. MaxSize \in Nat /\ MaxSize > 0
  BY DEF LogAssumption
<1>2. m * (MaxSize + 1) <= n * (MaxSize + 1)
  BY <1>1, Z3
<1>3. QED
  BY <1>2 DEF Room

\* What the steps below start from.
LogContext(fs, hist) ==
  /\ Keep \in Nat \ {0} /\ MaxSize \in Nat \ {0}
  /\ hist \in Seq(Line) /\ Len(hist) \in Nat
  /\ DOMAIN fs \subseteq 0..Keep
  /\ \A g \in DOMAIN fs :
       /\ fs[g].from \in Nat /\ fs[g].lines \in Seq(Line) /\ Len(fs[g].lines) \in Nat
       /\ Ends(fs, g) = fs[g].from + Len(fs[g].lines) /\ Ends(fs, g) \in Nat
       /\ fs[g].from <= Ends(fs, g) /\ Ends(fs, g) <= Len(hist)
       /\ DOMAIN fs[g].lines = 1..Len(fs[g].lines)
(* The files and the history are such.                                     *)
LEMMA LogFacts ==
  ASSUME LogAssumption, NEW fs, NEW hist, Segments(fs, hist)
  PROVE  LogContext(fs, hist)
<1>1. \A g \in DOMAIN fs : fs[g] \in LogFile
  BY DEF Segments
<1>2. \A g \in DOMAIN fs : fs[g].from \in Nat /\ fs[g].lines \in Seq(Line)
  BY <1>1 DEF LogFile
<1>3. \A g \in DOMAIN fs : Len(fs[g].lines) \in Nat /\ DOMAIN fs[g].lines = 1..Len(fs[g].lines)
  BY <1>2
<1>4. \A g \in DOMAIN fs : Ends(fs, g) = fs[g].from + Len(fs[g].lines)
  BY DEF Ends
<1>5. hist \in Seq(Line) /\ Len(hist) \in Nat /\ DOMAIN fs \subseteq 0..Keep
      /\ \A g \in DOMAIN fs : Ends(fs, g) <= Len(hist)
  BY DEF Segments
<1>6. QED
  BY <1>2, <1>3, <1>4, <1>5 DEF LogContext, LogAssumption

\* What writing a text does to the files.
Extended(new, fs, text) ==
  /\ 0 \in DOMAIN new /\ Len(new[0].lines) = Len(fs[0].lines) + Len(text)
  /\ \A g \in DOMAIN new \ {0} : g \in DOMAIN fs /\ new[g].lines = fs[g].lines

(* A text is written to the file and to the history.                       *)
LEMMA WriteKept ==
  ASSUME LogAssumption, NEW fs, NEW hist, NEW k \in Nat, Kept(fs, hist, k, Keep), 0 \in DOMAIN fs,
         NEW text \in Seq(Line)
  PROVE  /\ Kept(Written(fs, text), hist \o text, k, Keep)
         /\ Extended(Written(fs, text), fs, text)
<1> DEFINE new == Written(fs, text)
           long == hist \o text
<1>c. LogContext(fs, hist)
  BY LogFacts DEF Kept
<1>1. /\ long \in Seq(Line) /\ Len(long) = Len(hist) + Len(text) /\ Len(text) \in Nat
      /\ \A i \in 1..Len(hist) : long[i] = hist[i]
      /\ \A i \in 1..Len(text) : long[Len(hist) + i] = text[i]
  BY <1>c, Appended DEF LogContext
<1> DEFINE own == fs[0].lines
           grown == own \o text
<1>2. /\ grown \in Seq(Line) /\ Len(grown) = Len(own) + Len(text)
      /\ \A i \in 1..Len(own) : grown[i] = own[i]
      /\ \A i \in 1..Len(text) : grown[Len(own) + i] = text[i]
  BY <1>c, Appended DEF LogContext
<1>3. Ends(fs, 0) = Len(hist)
  <2>1. ~\E h \in DOMAIN fs : h < 0
    BY <1>c DEF LogContext
  <2>2. QED
    BY <2>1 DEF Kept, Segments
<1>4. /\ DOMAIN new = DOMAIN fs
      /\ new[0].from = fs[0].from /\ new[0].lines = grown /\ new[0] \in LogFile
      /\ \A g \in DOMAIN fs \ {0} : new[g] = fs[g]
  <2>1. fs[0] \in LogFile /\ new = [fs EXCEPT ![0].lines = grown]
    BY DEF Kept, Segments, Written
  <2>2. [fs[0] EXCEPT !.lines = grown] \in LogFile
        /\ [fs[0] EXCEPT !.lines = grown].from = fs[0].from
        /\ [fs[0] EXCEPT !.lines = grown].lines = grown
    BY <2>1, <1>2 DEF LogFile
  <2>3. DOMAIN new = DOMAIN fs /\ new[0] = [fs[0] EXCEPT !.lines = grown]
        /\ \A g \in DOMAIN fs \ {0} : new[g] = fs[g]
    BY <2>1
  <2>4. QED
    BY <2>2, <2>3
<1> HIDE DEF new, long, grown
<1>5. Ends(new, 0) = Len(long) /\ \A g \in DOMAIN fs \ {0} : Ends(new, g) = Ends(fs, g)
  <2>1. fs[0].from \in Nat /\ Len(own) \in Nat /\ fs[0].from + Len(own) = Len(hist)
    BY <1>3, <1>c DEF LogContext, Ends
  <2>2. Ends(new, 0) = fs[0].from + (Len(own) + Len(text))
    BY <1>2, <1>4 DEF Ends
  <2>3. \A g \in DOMAIN fs \ {0} : Ends(new, g) = Ends(fs, g)
    BY <1>4 DEF Ends
  <2>4. QED
    BY <2>1, <2>2, <2>3, <1>1
<1>6. \A g \in DOMAIN fs : new[g].from = fs[g].from
  BY <1>4
<1>7. Segments(new, long)
  <2>1. long \in Seq(Line) /\ DOMAIN new \subseteq 0..Keep
    BY <1>1, <1>4, <1>c DEF LogContext
  <2>2. ASSUME NEW g \in DOMAIN fs
        PROVE  new[g] \in LogFile /\ Ends(new, g) <= Len(long)
    <3>1. fs[g] \in LogFile /\ Ends(fs, g) <= Len(hist) /\ Ends(fs, g) \in Nat
      BY <1>c DEF LogContext, Kept, Segments
    <3>2. Len(hist) \in Nat /\ Len(long) \in Nat /\ Len(hist) <= Len(long)
      BY <1>1, <1>c DEF LogContext
    <3>3. CASE g = 0
      BY <3>2, <3>3, <1>4, <1>5
    <3>4. CASE g # 0
      BY <3>1, <3>2, <3>4, <1>4, <1>5
    <3>5. QED
      BY <3>3, <3>4
  <2>3. ASSUME NEW g \in DOMAIN fs, NEW i \in DOMAIN new[g].lines
        PROVE  new[g].lines[i] = long[new[g].from + i]
    <3>1. \A j \in DOMAIN fs[g].lines : /\ fs[g].lines[j] = hist[fs[g].from + j]
                                        /\ fs[g].from + j \in 1..Len(hist)
                                        /\ long[fs[g].from + j] = fs[g].lines[j]
      <4>1. \A j \in DOMAIN fs[g].lines : fs[g].lines[j] = hist[fs[g].from + j]
        BY DEF Kept, Segments
      <4>2. /\ fs[g].from \in Nat /\ Len(fs[g].lines) \in Nat /\ Len(hist) \in Nat
            /\ fs[g].from + Len(fs[g].lines) <= Len(hist)
            /\ DOMAIN fs[g].lines = 1..Len(fs[g].lines)
        BY <1>c DEF LogContext
      <4>3. \A j \in DOMAIN fs[g].lines : fs[g].from + j \in 1..Len(hist)
        BY <4>2
      <4>4. QED
        BY <4>1, <4>3, <1>1
    <3>2. CASE g # 0
      BY <3>1, <3>2, <1>4
    <3>3. CASE g = 0
      <4>1. i \in 1..Len(own) + Len(text) /\ Len(own) \in Nat /\ DOMAIN own = 1..Len(own)
        <5>1. Len(own) \in Nat /\ DOMAIN own = 1..Len(own)
          BY <1>c DEF LogContext
        <5>2. DOMAIN grown = 1..Len(grown) /\ new[g].lines = grown
          BY <1>2, <1>4, <3>3
        <5>3. QED
          BY <5>1, <5>2, <1>2
      <4>2. CASE i <= Len(own)
        BY <4>1, <4>2, <3>1, <3>3, <1>2, <1>4
      <4>3. CASE i > Len(own)
        <5>1. i - Len(own) \in 1..Len(text) /\ i = Len(own) + (i - Len(own))
          BY <4>1, <4>3, <1>1
        <5>2. grown[i] = text[i - Len(own)]
          BY <5>1, <1>2
        <5>3. fs[0].from + i = Len(hist) + (i - Len(own))
          <6>1. fs[0].from \in Nat /\ Len(hist) \in Nat /\ fs[0].from + Len(own) = Len(hist)
            BY <1>3, <1>c DEF LogContext
          <6>2. i \in Nat
            BY <4>1, <1>1
          <6>3. ASSUME NEW x \in Nat, NEW y \in Nat, NEW j \in Nat
                PROVE  x + j = (x + y) + (j - y)
            OBVIOUS
          <6>4. fs[0].from + i = (fs[0].from + Len(own)) + (i - Len(own))
            BY <6>1, <6>2, <6>3, <4>1
          <6>5. QED
            BY <6>1, <6>4
        <5>4. long[fs[0].from + i] = text[i - Len(own)]
          BY <5>1, <5>3, <1>1
        <5>5. QED
          BY <5>2, <5>4, <1>4, <3>3
      <4>4. QED
        BY <4>1, <4>2, <4>3
    <3>4. QED
      BY <3>2, <3>3
  <2>4. ASSUME NEW g \in DOMAIN fs
         PROVE  Ends(new, g) = Len(long) \/
                  \E h \in DOMAIN fs : h < g /\ new[h].from = Ends(new, g)
    <3>1. CASE g = 0
      BY <3>1, <1>5
    <3>2. CASE g # 0
      <4>1. Ends(fs, g) <= fs[0].from /\ 0 < g
        BY <3>2, <1>c DEF LogContext, Kept, Segments
      <4>2. CASE Ends(fs, g) = Len(hist)
        <5>1. fs[0].from = Ends(fs, g)
          BY <4>1, <4>2, <1>3, <1>c DEF LogContext
        <5>2. QED
          BY <5>1, <4>1, <1>5, <1>6, <3>2
      <4>3. CASE \E h \in DOMAIN fs : h < g /\ fs[h].from = Ends(fs, g)
        BY <4>3, <1>5, <1>6, <3>2
      <4>4. QED
        BY <4>2, <4>3 DEF Kept, Segments
    <3>3. QED
      BY <3>1, <3>2
  <2>5. ASSUME NEW g \in DOMAIN fs, NEW h \in DOMAIN fs, h < g
        PROVE  Ends(new, g) <= new[h].from
    <3>1. g # 0
      BY <2>5, <1>c DEF LogContext
    <3>2. QED
      BY <3>1, <2>5, <1>5, <1>6 DEF Kept, Segments
  <2>6. QED
    BY <2>1, <2>2, <2>3, <2>4, <2>5, <1>4 DEF Segments
<1>8. Packed(new, long, k, Keep)
  <2>1. Floor(new, long) = Floor(fs, hist)
    BY <1>4, <1>6 DEF Floor
  <2>2. QED
    BY <2>1, <1>4, <1>5 DEF Packed, Kept
<1>9. Oldest(new, long, k)
  <2>1. ASSUME NEW g \in DOMAIN fs, \A h \in DOMAIN fs : h <= g
        PROVE  fs[g].from = 0 \/ Len(long) - fs[g].from >= Room(Keep - k)
    <3>1. fs[g].from = 0 \/ Len(hist) - fs[g].from >= Room(Keep - k)
      BY <2>1 DEF Kept, Oldest
    <3>2. /\ fs[g].from \in Nat /\ Len(hist) \in Nat
          /\ Len(long) \in Nat /\ Len(hist) <= Len(long)
      BY <1>1, <1>c DEF LogContext
    <3>3. Keep - k \in Int
      BY <1>c DEF LogContext
    <3>4. Room(Keep - k) \in Int
      BY <3>3, RoomSteps
    <3>5. QED
      BY <3>1, <3>2, <3>4
  <2>2. QED
    BY <2>1, <1>4, <1>6 DEF Oldest
<1>10. QED
  <2>1. Extended(new, fs, text)
    BY <1>4, <1>2 DEF Extended
  <2>2. QED
    BY <1>7, <1>8, <1>9, <2>1 DEF Kept, new, long

(* The file is opened, and created if it is not there.                     *)
LEMMA OpenKept ==
  ASSUME LogAssumption, NEW fs, NEW hist, NEW k \in Nat, Kept(fs, hist, k, Keep),
         0 \in DOMAIN fs \/ hist = history
  PROVE  /\ Kept(Opened(fs), hist, k, Keep) /\ 0 \in DOMAIN Opened(fs)
         /\ \A g \in DOMAIN Opened(fs) \ {0} : g \in DOMAIN fs /\ Opened(fs)[g] = fs[g]
         /\ 0 \in DOMAIN fs => Opened(fs) = fs
         /\ 0 \notin DOMAIN fs => Len(Opened(fs)[0].lines) = 0
<1>1. CASE 0 \in DOMAIN fs
  BY <1>1 DEF Opened
<1>2. CASE 0 \notin DOMAIN fs
  <2> DEFINE new == Opened(fs)
  <2>c. LogContext(fs, hist)
    BY LogFacts DEF Kept
  <2>1. /\ DOMAIN new = DOMAIN fs \union {0} /\ new[0] = [from |-> Len(hist), lines |-> <<>>]
        /\ \A g \in DOMAIN fs : g # 0 /\ new[g] = fs[g]
    BY <1>2 DEF Opened
  <2>2. /\ new[0].from = Len(hist) /\ new[0].lines = <<>> /\ new[0] \in LogFile
        /\ DOMAIN new[0].lines = {} /\ Len(new[0].lines) = 0 /\ Len(hist) \in Nat
    BY <2>1, <2>c DEF LogFile, LogContext
  <2> HIDE DEF new
  <2>3. Ends(new, 0) = Len(hist) /\ \A g \in DOMAIN fs : Ends(new, g) = Ends(fs, g)
    BY <2>1, <2>2 DEF Ends
  <2>4. Segments(new, hist)
    <3>1. hist \in Seq(Line) /\ DOMAIN new \subseteq 0..Keep
      BY <2>1, <2>c DEF LogContext
    <3>2. ASSUME NEW g \in DOMAIN new
          PROVE  /\ new[g] \in LogFile /\ Ends(new, g) <= Len(hist)
                 /\ \A i \in DOMAIN new[g].lines : new[g].lines[i] = hist[new[g].from + i]
      <4>1. CASE g = 0
        BY <4>1, <2>2, <2>3
      <4>2. CASE g # 0
        BY <4>2, <2>1, <2>3 DEF Kept, Segments
      <4>3. QED
        BY <4>1, <4>2
    <3>3. ASSUME NEW g \in DOMAIN new
           PROVE  Ends(new, g) = Len(hist) \/
                    \E h \in DOMAIN new : h < g /\ new[h].from = Ends(new, g)
      BY <2>1, <2>3 DEF Kept, Segments
    <3>4. ASSUME NEW g \in DOMAIN new, NEW h \in DOMAIN new, h < g
          PROVE  Ends(new, g) <= new[h].from
      <4>1. g \in DOMAIN fs
        BY <3>4, <2>1, <2>c DEF LogContext
      <4>2. Ends(fs, g) <= Len(hist)
        BY <4>1, <2>c DEF LogContext
      <4>3. QED
        BY <4>1, <4>2, <3>4, <2>1, <2>2, <2>3 DEF Kept, Segments
    <3>5. QED
      BY <3>1, <3>2, <3>3, <3>4 DEF Segments
  <2>5. Packed(new, hist, k, Keep)
    <3>1. Floor(new, hist) = Len(hist) /\ Floor(fs, hist) = Len(hist)
      BY <1>2, <2>1, <2>2 DEF Floor
    <3>2. DOMAIN new \ {0} = DOMAIN fs \ {0}
      BY <2>1
    <3>3. QED
      BY <3>1, <3>2, <2>3 DEF Packed, Kept
  <2>6. Oldest(new, hist, k)
    <3>1. ASSUME NEW g \in DOMAIN new, \A h \in DOMAIN new : h <= g
          PROVE  new[g].from = 0 \/ Len(hist) - new[g].from >= Room(Keep - k)
      <4>1. CASE g \in DOMAIN fs
        BY <3>1, <4>1, <2>1 DEF Kept, Oldest
      <4>2. CASE g \notin DOMAIN fs
        <5>1. DOMAIN fs = {}
          <6>1. g = 0 /\ \A h \in DOMAIN fs : h # 0 /\ h \in 0..Keep /\ h <= 0
            BY <3>1, <4>2, <2>1, <2>c DEF LogContext
          <6>2. Keep \in Nat
            BY <2>c DEF LogContext
          <6>3. QED
            BY <6>1, <6>2
        <5>2. Len(hist) = 0 /\ g = 0
          BY <5>1, <4>2, <2>1, <2>2 DEF Kept, Oldest
        <5>3. QED
          BY <5>2, <2>2
      <4>3. QED
        BY <4>1, <4>2
    <3>2. QED
      BY <3>1, <2>1 DEF Oldest
  <2>7. QED
    BY <1>2, <2>1, <2>2, <2>4, <2>5, <2>6 DEF Kept, new
<1>3. QED
  BY <1>1, <1>2

(* The oldest generation goes, if it is there: what is left is enough.     *)
LEMMA RemoveKept ==
  ASSUME LogAssumption, NEW fs, NEW hist, NEW k \in Nat, Kept(fs, hist, k, Keep), 0 \in DOMAIN fs,
         Len(fs[0].lines) >= MaxSize + 1
  PROVE  /\ Kept(RemoveFile(fs, Keep), hist, k, Keep - 1)
         /\ DOMAIN RemoveFile(fs, Keep) = DOMAIN fs \ {Keep} /\ 0 # Keep
         /\ \A g \in DOMAIN fs \ {Keep} : RemoveFile(fs, Keep)[g] = fs[g]
<1> DEFINE new == RemoveFile(fs, Keep)
<1>c. LogContext(fs, hist)
  BY LogFacts DEF Kept
<1>1. DOMAIN new = DOMAIN fs \ {Keep} /\ \A g \in DOMAIN new : new[g] = fs[g]
  BY DEF RemoveFile
<1>2. Keep > 0 /\ Keep \in Nat /\ \A g \in DOMAIN fs : g \in Nat /\ g <= Keep
  BY <1>c DEF LogContext
<1> HIDE DEF new
<1>3. \A g \in DOMAIN new : g \in DOMAIN fs /\ Ends(new, g) = Ends(fs, g)
  BY <1>1 DEF Ends
<1>4. Segments(new, hist)
  <2>1. hist \in Seq(Line) /\ DOMAIN new \subseteq 0..Keep
    BY <1>1, <1>c DEF LogContext
  <2>2. ASSUME NEW g \in DOMAIN new
        PROVE  /\ new[g] \in LogFile /\ Ends(new, g) <= Len(hist)
               /\ \A i \in DOMAIN new[g].lines : new[g].lines[i] = hist[new[g].from + i]
    BY <1>1, <1>3 DEF Kept, Segments
  <2>3. ASSUME NEW g \in DOMAIN new
         PROVE  Ends(new, g) = Len(hist) \/
                  \E h \in DOMAIN new : h < g /\ new[h].from = Ends(new, g)
    <3>1. CASE Ends(fs, g) = Len(hist)
      BY <3>1, <1>3
    <3>2. ASSUME NEW h \in DOMAIN fs, h < g, fs[h].from = Ends(fs, g)
          PROVE  h \in DOMAIN new /\ new[h].from = Ends(new, g)
      BY <3>2, <1>1, <1>2, <1>3
    <3>3. QED
      BY <3>1, <3>2, <1>3 DEF Kept, Segments
  <2>4. ASSUME NEW g \in DOMAIN new, NEW h \in DOMAIN new, h < g
        PROVE  Ends(new, g) <= new[h].from
    BY <2>4, <1>1, <1>3 DEF Kept, Segments
  <2>5. QED
    BY <2>1, <2>2, <2>3, <2>4 DEF Segments
<1>5. Packed(new, hist, k, Keep - 1)
  <2>1. Floor(new, hist) = Floor(fs, hist)
    BY <1>1, <1>2 DEF Floor
  <2>2. \A g \in DOMAIN new : ~(g > Keep - 1) /\ ~(g > Keep)
    BY <1>1, <1>2
  <2>3. QED
    BY <2>1, <2>2, <1>3 DEF Packed, Kept
<1>6. Oldest(new, hist, k)
  <2>1. CASE Keep \notin DOMAIN fs
    <3>1. DOMAIN new = DOMAIN fs
      BY <2>1, <1>1
    <3>2. QED
      BY <3>1, <1>1 DEF Kept, Oldest
  <2>2. CASE Keep \in DOMAIN fs
    <3>1. 0 \in DOMAIN new
      BY <1>1, <1>2
    <3>2. ASSUME NEW g \in DOMAIN new, \A h \in DOMAIN new : h <= g
          PROVE  Len(hist) - new[g].from >= Room(Keep - k)
      \* The generation that is the oldest now begins where the one removed ended.
      <4>1. /\ fs[g].from \in Nat /\ Ends(fs, g) \in Nat /\ fs[g].from <= Ends(fs, g)
            /\ Ends(fs, Keep) \in Nat /\ Len(hist) \in Nat /\ Ends(fs, 0) <= Len(hist)
            /\ fs[0].from \in Nat /\ Len(fs[0].lines) \in Nat
            /\ Ends(fs, 0) = fs[0].from + Len(fs[0].lines) /\ MaxSize \in Nat
        BY <1>3, <2>2, <1>c DEF LogContext
      <4>2. Ends(fs, Keep) <= fs[0].from
        BY <2>2, <1>2 DEF Kept, Segments
      <4>3. PICK h \in DOMAIN fs : h < Keep /\ fs[h].from = Ends(fs, Keep)
        BY <4>1, <4>2, <2>2 DEF Kept, Segments
      <4>4. h <= g /\ h \in Nat /\ g \in Nat /\ fs[h].from <= Ends(fs, h) /\ Ends(fs, h) \in Nat
        BY <4>3, <3>2, <1>1, <1>2, <1>c DEF LogContext
      <4>5. fs[g].from <= Ends(fs, Keep)
        <5>1. CASE h = g
          BY <5>1, <4>1, <4>3
        <5>2. CASE h # g
          <6>1. h < g
            BY <5>2, <4>4
          <6>2. Ends(fs, g) <= fs[h].from
            BY <6>1, <1>3 DEF Kept, Segments
          <6>3. QED
            BY <6>2, <4>1, <4>3
        <5>3. QED
          BY <5>1, <5>2
      <4>6. fs[0].from - Ends(fs, Keep) >= Room(Keep - 1 - k)
        <5>1. fs[0].from - Ends(fs, Keep) >= Room(Keep - 1 - k - 0)
          BY <2>2, <1>2 DEF Kept, Packed, Floor
        <5>2. Keep - 1 - k - 0 = Keep - 1 - k
          BY <1>2
        <5>3. QED
          BY <5>1, <5>2
      <4>7. Room(Keep - k) = Room(Keep - 1 - k) + (MaxSize + 1) /\ Room(Keep - 1 - k) \in Int
        <5>1. Keep - 1 - k \in Int /\ (Keep - 1 - k) + 1 = Keep - k
          BY <1>2
        <5>2. Room((Keep - 1 - k) + 1) = Room(Keep - 1 - k) + MaxSize + 1
              /\ Room(Keep - 1 - k) \in Int
          BY <5>1, RoomSteps
        <5>3. QED
          BY <5>1, <5>2, <4>1
      <4>8. new[g] = fs[g]
        BY <1>1
      <4>9. ASSUME NEW H \in Nat, NEW f \in Nat, NEW e \in Nat, NEW z \in Nat, NEW l \in Nat,
                   NEW r \in Int, f <= e, z - e >= r, l >= MaxSize + 1, z + l <= H
            PROVE  H - f >= r + (MaxSize + 1)
        BY <4>9, <4>1
      <4>10. Len(hist) - fs[g].from >= Room(Keep - 1 - k) + (MaxSize + 1)
        <5>1. fs[0].from + Len(fs[0].lines) <= Len(hist)
          BY <4>1
        <5>2. QED
          BY <5>1, <4>1, <4>5, <4>6, <4>7, <4>9
      <4>11. QED
        BY <4>7, <4>8, <4>10
    <3>3. QED
      BY <3>1, <3>2 DEF Oldest
  <2>3. QED
    BY <2>1, <2>2
<1>7. QED
  BY <1>1, <1>2, <1>4, <1>5, <1>6 DEF Kept, new

\* What a rename does to the files.
Moved(new, fs, a, b) ==
  /\ a \notin DOMAIN new
  /\ \A g \in DOMAIN new :
          \/ g # b /\ g \in DOMAIN fs /\ new[g] = fs[g]
          \/ g = b /\ a \in DOMAIN fs /\ new[g] = fs[a]
  /\ \A g \in DOMAIN fs \ {a} : g \in DOMAIN new /\ new[g] = fs[g]

(* A generation moves up into the hole above it, and leaves one behind.    *)
LEMMA RenameKept ==
  ASSUME LogAssumption, NEW fs, NEW hist, NEW k \in Nat, NEW a \in 0..Keep - 1,
         NEW b \in Nat, b = a + 1, Kept(fs, hist, k, a), b \notin DOMAIN fs
  PROVE  /\ Segments(RenameFile(fs, a, b), hist) /\ Oldest(RenameFile(fs, a, b), hist, k)
         /\ Moved(RenameFile(fs, a, b), fs, a, b)
<1>c. LogContext(fs, hist)
  BY LogFacts DEF Kept
<1>1. CASE a \notin DOMAIN fs
  <2>1. RenameFile(fs, a, b) = fs
    BY <1>1 DEF RenameFile
  <2>2. Moved(fs, fs, a, b)
    <3>1. \A g \in DOMAIN fs : g # b
      OBVIOUS
    <3>2. QED
      BY <1>1, <3>1 DEF Moved
  <2>3. QED
    BY <2>1, <2>2 DEF Kept
<1>2. CASE a \in DOMAIN fs
  <2> DEFINE new == RenameFile(fs, a, b)
             Was(g) == IF g = b THEN a ELSE g
  <2>1. /\ DOMAIN new = (DOMAIN fs \ {a}) \union {b}
        /\ \A g \in DOMAIN new : new[g] = IF g = b THEN fs[a] ELSE fs[g]
    BY <1>2 DEF RenameFile
  <2>2. /\ a \in Nat /\ Keep \in Nat /\ b <= Keep /\ b = a + 1
        /\ \A g \in DOMAIN fs : g \in Nat /\ g <= Keep
    BY <1>c DEF LogContext
  <2>3. /\ a \notin DOMAIN new
        /\ \A g \in DOMAIN new : new[g] = fs[Was(g)] /\ Was(g) \in DOMAIN fs /\ g \in 0..Keep
        /\ \A g \in DOMAIN fs : \E h \in DOMAIN new : Was(h) = g
    BY <2>1, <2>2, <1>2
  <2> HIDE DEF new
  <2>4. ASSUME NEW g \in DOMAIN new, NEW h \in DOMAIN new
        PROVE  g < h <=> Was(g) < Was(h)
    <3>1. g \in Nat /\ h \in Nat /\ g # a /\ h # a
      BY <2>2, <2>3
    <3>2. ASSUME NEW x \in Nat, NEW y \in Nat, x # a, y # a
          PROVE  x < y <=> (IF x = b THEN a ELSE x) < (IF y = b THEN a ELSE y)
      BY <3>2, <2>2
    <3>3. g < h <=> (IF g = b THEN a ELSE g) < (IF h = b THEN a ELSE h)
      BY <3>1, <3>2
    <3>4. QED
      BY <3>3
  <2> HIDE DEF Was
  <2>5. \A g \in DOMAIN new : Ends(new, g) = Ends(fs, Was(g))
    BY <2>3 DEF Ends
  <2>6. Segments(new, hist)
    <3>1. hist \in Seq(Line) /\ DOMAIN new \subseteq 0..Keep
      BY <2>3, <1>c DEF LogContext
    <3>2. ASSUME NEW g \in DOMAIN new
          PROVE  /\ new[g] \in LogFile /\ Ends(new, g) <= Len(hist)
                 /\ \A i \in DOMAIN new[g].lines : new[g].lines[i] = hist[new[g].from + i]
      BY <2>3, <2>5 DEF Kept, Segments
    <3>3. ASSUME NEW g \in DOMAIN new
           PROVE  Ends(new, g) = Len(hist) \/
                    \E h \in DOMAIN new : h < g /\ new[h].from = Ends(new, g)
      <4>1. CASE Ends(fs, Was(g)) = Len(hist)
        BY <4>1, <2>5
      <4>2. ASSUME NEW l \in DOMAIN fs, l < Was(g), fs[l].from = Ends(fs, Was(g))
            PROVE  \E h \in DOMAIN new : h < g /\ new[h].from = Ends(new, g)
        BY <4>2, <2>3, <2>4, <2>5
      <4>3. QED
        BY <4>1, <4>2, <2>3 DEF Kept, Segments
    <3>4. ASSUME NEW g \in DOMAIN new, NEW h \in DOMAIN new, h < g
          PROVE  Ends(new, g) <= new[h].from
      BY <3>4, <2>3, <2>4, <2>5 DEF Kept, Segments
    <3>5. QED
      BY <3>1, <3>2, <3>3, <3>4 DEF Segments
  <2>7. Oldest(new, hist, k)
    <3>1. ASSUME NEW g \in DOMAIN new, \A h \in DOMAIN new : h <= g, NEW l \in DOMAIN fs
          PROVE  l <= Was(g)
      <4>1. PICK h \in DOMAIN new : Was(h) = l
        BY <2>3
      <4>2. h <= g /\ h \in Nat /\ g \in Nat
        BY <3>1, <2>3, <2>2
      <4>3. l \in Nat /\ Was(g) \in Nat /\ ~(g < h)
        BY <4>2, <2>2, <2>3
      <4>4. QED
        BY <4>1, <4>3, <2>4
    <3>2. QED
      BY <3>1, <2>1, <2>3 DEF Kept, Oldest
  <2>8. QED
    <3>1. Moved(new, fs, a, b)
      <4>1. \A g \in DOMAIN new :
              \/ g # b /\ g \in DOMAIN fs /\ new[g] = fs[g]
              \/ g = b /\ a \in DOMAIN fs /\ new[g] = fs[a]
        <5>1. \A g \in DOMAIN new : g # b => g \in DOMAIN fs /\ new[g] = fs[g]
          BY <2>1
        <5>2. \A g \in DOMAIN new : g = b => new[g] = fs[a]
          BY <2>1
        <5>3. QED
          BY <5>1, <5>2, <1>2
      <4>2. \A g \in DOMAIN fs \ {a} : g # b /\ g \in DOMAIN new
        BY <2>1
      <4>3. \A g \in DOMAIN fs \ {a} : new[g] = fs[g]
        BY <4>2, <2>1
      <4>4. QED
        BY <4>1, <4>2, <4>3, <2>3 DEF Moved
    <3>2. QED
      BY <3>1, <2>6, <2>7 DEF new
<1>3. QED
  BY <1>1, <1>2

\* The account of the room in between goes with the move.
LEMMA RenamePacked ==
  ASSUME LogAssumption, NEW fs, NEW hist, NEW k \in Nat, NEW a \in 1..Keep - 1,
         Kept(fs, hist, k, a), a + 1 \notin DOMAIN fs, 0 \in DOMAIN fs
  PROVE  Kept(RenameFile(fs, a, a + 1), hist, k, a - 1)
<1> DEFINE new == RenameFile(fs, a, a + 1)
<1>c. LogContext(fs, hist)
  BY LogFacts DEF Kept
<1>0. a \in 0..Keep - 1 /\ a # 0 /\ a \in Nat /\ a + 1 \in Nat /\ Keep \in Nat
  BY <1>c DEF LogContext
<1>1. /\ Segments(new, hist) /\ Oldest(new, hist, k) /\ a \notin DOMAIN new
      /\ \A g \in DOMAIN new :
           \/ g # a + 1 /\ g \in DOMAIN fs /\ new[g] = fs[g]
           \/ g = a + 1 /\ a \in DOMAIN fs /\ new[g] = fs[a]
      /\ 0 \in DOMAIN new /\ new[0] = fs[0]
  <2>1. Segments(new, hist) /\ Oldest(new, hist, k) /\ Moved(new, fs, a, a + 1)
    BY <1>0, RenameKept
  <2>2. QED
    BY <2>1, <1>0 DEF Moved
<1> HIDE DEF new
<1>2. Floor(new, hist) = Floor(fs, hist)
  BY <1>1 DEF Floor
<1>3. ASSUME NEW g \in DOMAIN new \ {0}
      PROVE  Floor(new, hist) - Ends(new, g)
               >= Room(g - 1 - k - (IF g > a - 1 THEN 1 ELSE 0))
  <2>1. CASE g # a + 1 /\ g \in DOMAIN fs /\ new[g] = fs[g]
    <3>1. Ends(new, g) = Ends(fs, g)
      BY <2>1 DEF Ends
    <3>2. g \in Nat /\ g # a
      BY <2>1, <1>1, <1>c DEF LogContext
    <3>3. (g > a - 1) <=> (g > a)
      BY <3>2, <1>0
    <3>4. Floor(fs, hist) - Ends(fs, g) >= Room(g - 1 - k - (IF g > a THEN 1 ELSE 0))
      BY <2>1 DEF Kept, Packed
    <3>5. QED
      BY <3>1, <3>3, <3>4, <1>2
  <2>2. CASE g = a + 1 /\ a \in DOMAIN fs /\ new[g] = fs[a]
    <3>1. Ends(new, g) = Ends(fs, a)
      BY <2>2 DEF Ends
    <3>2. ~(a > a) /\ g > a - 1 /\ g - 1 - k - 1 = a - 1 - k - 0
      BY <2>2, <1>0
    <3>3. Floor(fs, hist) - Ends(fs, a) >= Room(a - 1 - k - (IF a > a THEN 1 ELSE 0))
      BY <2>2, <1>0 DEF Kept, Packed
    <3>4. QED
      BY <3>1, <3>2, <3>3, <1>2
  <2>3. QED
    BY <2>1, <2>2, <1>1
<1>4. QED
  BY <1>1, <1>3 DEF Kept, Packed, new

(* The file itself becomes the first generation.                           *)
LEMMA RenameLast ==
  ASSUME LogAssumption, NEW fs, NEW hist, NEW k \in Nat,
         Kept(fs, hist, k, 0), 1 \notin DOMAIN fs, 0 \in DOMAIN fs,
         Len(fs[0].lines) >= MaxSize + 1
  PROVE  Kept(RenameFile(fs, 0, 1), hist, k, Keep)
<1> DEFINE new == RenameFile(fs, 0, 1)
<1>c. LogContext(fs, hist)
  BY LogFacts DEF Kept
<1>0. 0 \in 0..Keep - 1 /\ Keep \in Nat /\ Keep > 0 /\ 1 = 0 + 1
  BY <1>c DEF LogContext
<1>1. /\ Segments(new, hist) /\ Oldest(new, hist, k) /\ 0 \notin DOMAIN new
      /\ \A g \in DOMAIN new :
           \/ g # 1 /\ g \in DOMAIN fs /\ new[g] = fs[g]
           \/ g = 1 /\ new[g] = fs[0]
  <2>1. Segments(new, hist) /\ Oldest(new, hist, k) /\ Moved(new, fs, 0, 1)
    BY <1>0, RenameKept
  <2>2. QED
    BY <2>1 DEF Moved
<1> HIDE DEF new
<1>2. Floor(new, hist) = Len(hist)
  BY <1>1 DEF Floor
<1>3. /\ fs[0].from + Len(fs[0].lines) = Len(hist)
      /\ fs[0].from \in Nat /\ Len(fs[0].lines) \in Nat /\ Ends(fs, 0) = Len(hist)
  <2>1. ~\E h \in DOMAIN fs : h < 0
    BY <1>c DEF LogContext
  <2>2. Ends(fs, 0) = Len(hist)
    BY <2>1 DEF Kept, Segments
  <2>3. QED
    BY <2>2, <1>c DEF LogContext
<1>4. ASSUME NEW g \in DOMAIN new \ {0}
      PROVE  Floor(new, hist) - Ends(new, g)
               >= Room(g - 1 - k - (IF g > Keep THEN 1 ELSE 0))
  <2>0. g \in Nat /\ g > 0 /\ ~(g > Keep)
    <3>1. g \in 0..Keep
      BY <1>1 DEF Segments
    <3>2. QED
      BY <3>1, <1>0
  <2>1. CASE g # 1 /\ g \in DOMAIN fs /\ new[g] = fs[g]
    <3>1. Ends(new, g) = Ends(fs, g) /\ Ends(fs, g) \in Nat
      BY <2>1, <1>c DEF Ends, LogContext
    <3>2. fs[0].from - Ends(fs, g) >= Room(g - 1 - k - 1)
      BY <2>0, <2>1 DEF Kept, Packed, Floor
    <3>3. Room(g - 1 - k) = Room(g - 1 - k - 1) + (MaxSize + 1)
          /\ Room(g - 1 - k - 1) \in Int /\ MaxSize \in Nat
      <4>1. g - 1 - k - 1 \in Int /\ (g - 1 - k - 1) + 1 = g - 1 - k
        BY <2>0
      <4>2. /\ Room((g - 1 - k - 1) + 1) = Room(g - 1 - k - 1) + MaxSize + 1
            /\ Room(g - 1 - k - 1) \in Int
        BY <4>1, RoomSteps
      <4>3. MaxSize \in Nat
        BY <1>c DEF LogContext
      <4>4. QED
        BY <4>1, <4>2, <4>3
    <3>4. ASSUME NEW f \in Nat, NEW l \in Nat, NEW e \in Nat, NEW r \in Int,
                 f - e >= r, l >= MaxSize + 1
          PROVE  (f + l) - e >= r + (MaxSize + 1)
      BY <3>3, <3>4
    <3>5. Len(hist) - Ends(fs, g) >= Room(g - 1 - k)
      BY <3>1, <3>2, <3>3, <3>4, <1>3
    <3>6. g - 1 - k - 0 = g - 1 - k
      BY <2>0
    <3>7. QED
      BY <3>1, <3>5, <3>6, <2>0, <1>2
  <2>2. CASE g = 1 /\ new[g] = fs[0]
    <3>1. Ends(new, g) = Len(hist)
      BY <2>2, <1>3 DEF Ends
    <3>2. g - 1 - k - 0 \in Int /\ g - 1 - k - 0 <= 0
      BY <2>2
    <3>3. Room(g - 1 - k - 0) <= 0
      BY <3>2, RoomGrows, RoomSteps
    <3>4. Len(hist) - Len(hist) = 0
      BY <1>3
    <3>5. QED
      BY <3>1, <3>3, <3>4, <2>0, <1>2
  <2>3. QED
    BY <2>1, <2>2, <1>1
<1>5. QED
  BY <1>1, <1>4 DEF Kept, Packed, new

(* A kill costs at most the hole of the rotation it cut short.             *)
LEMMA KillKept ==
  ASSUME LogAssumption, NEW fs, NEW hist, NEW k \in Nat, NEW top \in 0..Keep,
         Kept(fs, hist, k, top)
  PROVE  Kept(fs, hist, k + 1, Keep)
<1>c. LogContext(fs, hist)
  BY LogFacts DEF Kept
<1>1. ASSUME NEW g \in DOMAIN fs \ {0}
      PROVE  Floor(fs, hist) - Ends(fs, g)
               >= Room(g - 1 - (k + 1) - (IF g > Keep THEN 1 ELSE 0))
  <2>1. g \in Nat /\ ~(g > Keep)
    BY <1>c DEF LogContext
  <2> DEFINE hole == IF g > top THEN 1 ELSE 0
             m == g - 1 - k - hole
             n == g - 1 - (k + 1)
  <2>2. hole \in {0, 1}
    OBVIOUS
  <2> HIDE DEF hole
  <2>3. m \in Int /\ n \in Int /\ n <= m /\ n - 0 = n
    BY <2>1, <2>2
  <2>4. Floor(fs, hist) - Ends(fs, g) >= Room(m)
    BY DEF Kept, Packed, hole
  <2>5. Room(n) <= Room(m) /\ Room(n) \in Int /\ Room(m) \in Int
    BY <2>3, RoomGrows, RoomSteps
  <2>6. Floor(fs, hist) - Ends(fs, g) \in Int
    <3>1. Ends(fs, g) \in Nat /\ Len(hist) \in Nat
          /\ (0 \in DOMAIN fs => fs[0].from \in Nat)
      BY <1>c DEF LogContext
    <3>2. QED
      BY <3>1 DEF Floor
  <2> HIDE DEF m, n
  <2>7. Floor(fs, hist) - Ends(fs, g) >= Room(n)
    BY <2>4, <2>5, <2>6
  <2>8. QED
    BY <2>1, <2>3, <2>7 DEF n
<1>2. Oldest(fs, hist, k + 1)
  <2>1. /\ Room(Keep - (k + 1)) <= Room(Keep - k)
        /\ Room(Keep - (k + 1)) \in Int /\ Room(Keep - k) \in Int
    <3>1. Keep - (k + 1) \in Int /\ Keep - k \in Int /\ Keep - (k + 1) <= Keep - k
      BY <1>c DEF LogContext
    <3>2. QED
      BY <3>1, RoomGrows, RoomSteps
  <2>2. ASSUME NEW g \in DOMAIN fs, \A h \in DOMAIN fs : h <= g, fs[g].from # 0
        PROVE  Len(hist) - fs[g].from >= Room(Keep - (k + 1))
    <3>1. Len(hist) - fs[g].from >= Room(Keep - k)
      BY <2>2 DEF Kept, Oldest
    <3>2. Len(hist) \in Nat /\ fs[g].from \in Nat
      BY <1>c DEF LogContext
    <3>3. QED
      BY <3>1, <3>2, <2>1
  <2>3. QED
    BY <2>2 DEF Kept, Oldest
<1>3. QED
  BY <1>1, <1>2 DEF Kept, Packed

(* The writer opens the file it stands before, or fails to.                *)
LEMMA OpenFileStep ==
  ASSUME LogAssumption, LogInv, OpenFile
  PROVE  LogInv'
<1>1. /\ Top = Keep /\ Kept(files, history, kills, Keep) /\ kills \in Nat /\ Small
      /\ UNCHANGED <<history, kills>> /\ writer.at = "open" /\ writer.size \in Nat
      /\ writer \in Writers
      /\ 0 \in DOMAIN files => /\ Len(files[0].lines) <= MaxSize + 1 + kills
                               /\ ~writer.limited /\ writer.inMin = 0
  BY DEF LogInv, OpenFile, Top, Writing, Writers, Grown
<1>c. LogContext(files, history)
  BY <1>1, LogFacts DEF Kept
<1>2. CASE /\ files' = Opened(files)
           /\ writer' = [writer EXCEPT !.at = "idle", !.open = TRUE,
                                       !.size = Len(files'[0].lines)]
  <2>1. /\ Kept(files', history, kills, Keep) /\ 0 \in DOMAIN files'
        /\ \A g \in DOMAIN files' \ {0} : g \in DOMAIN files /\ files'[g] = files[g]
        /\ 0 \in DOMAIN files => files' = files
        /\ 0 \notin DOMAIN files => Len(files'[0].lines) = 0
    BY <1>1, <1>2, OpenKept
  <2>2. Len(files'[0].lines) \in Nat
    <3>1. LogContext(files', history)
      BY <2>1, LogFacts DEF Kept
    <3>2. QED
      BY <3>1, <2>1 DEF LogContext
  <2>3. /\ writer'.at = "idle" /\ writer'.open /\ writer'.size = Len(files'[0].lines)
        /\ writer'.limited = writer.limited /\ writer'.inMin = writer.inMin
        /\ writer' \in Writers
    BY <1>1, <1>2, <2>2 DEF Writers
  <2>4. MaxSize \in Nat
    BY <1>c DEF LogContext
  <2>5. Small'
    BY <1>1, <2>1, <2>4 DEF Small
  <2>6. Writing'
    BY <1>1, <2>1, <2>2, <2>3, <2>4 DEF Writing, Grown
  <2>7. QED
    BY <1>1, <2>1, <2>3, <2>5, <2>6 DEF LogInv, Top
<1>3. CASE files' = files /\ writer' = [writer EXCEPT !.at = "idle", !.open = FALSE]
  <2>1. /\ writer'.at = "idle" /\ ~writer'.open
        /\ writer' \in Writers
    BY <1>1, <1>3 DEF Writers
  <2>2. Writing' /\ Small'
    BY <1>1, <1>3, <2>1 DEF Writing, Grown, Small
  <2>3. QED
    BY <1>1, <1>3, <2>1, <2>2 DEF LogInv, Top
<1>4. QED
  BY <1>2, <1>3 DEF OpenFile

(* The two halves of a rotation's step.                                    *)
LEMMA RotateStep ==
  ASSUME LogAssumption, LogInv, RotateRemove \/ RotateRename
  PROVE  LogInv'
<1>1. /\ Kept(files, history, kills, Top) /\ kills \in Nat /\ Small
      /\ UNCHANGED <<history, kills>>
      /\ writer.at \in {"remove", "rename"} /\ 0 \in DOMAIN files
      /\ Len(files[0].lines) >= MaxSize + 1
      /\ writer \in Writers
  BY DEF LogInv, Writing, RotateRemove, RotateRename
<1>c. LogContext(files, history)
  BY <1>1, LogFacts DEF Kept
<1>2. Keep \in Nat /\ Keep > 0 /\ MaxSize \in Nat
  BY <1>c DEF LogContext
<1>3. CASE RotateRemove
  <2>1. /\ writer.at = "remove" /\ Top = Keep /\ files' = RemoveFile(files, Keep)
        /\ writer' = [writer EXCEPT !.at = "rename", !.gen = Keep - 1]
    BY <1>3 DEF RotateRemove, Top
  <2>2. /\ Kept(files', history, kills, Keep - 1) /\ DOMAIN files' = DOMAIN files \ {Keep}
        /\ \A g \in DOMAIN files' : files'[g] = files[g]
    BY <1>1, <2>1, RemoveKept
  <2>3. /\ writer'.at = "rename" /\ writer'.gen = Keep - 1
        /\ writer' \in Writers
    <3>1. Keep - 1 \in 0..Keep
      BY <1>2
    <3>2. QED
      BY <3>1, <1>1, <2>1 DEF Writers
  <2>4. /\ Small' /\ 0 \in DOMAIN files' /\ files'[0] = files[0]
        /\ (Keep - 1) + 1 \notin DOMAIN files'
    BY <1>1, <1>2, <2>2 DEF Small
  <2>5. Writing'
    BY <1>1, <1>2, <2>3, <2>4 DEF Writing
  <2>6. QED
    BY <1>1, <2>2, <2>3, <2>4, <2>5 DEF LogInv, Top
<1>4. CASE RotateRename
  <2> DEFINE a == writer.gen
  <2>1. /\ writer.at = "rename" /\ Top = a /\ files' = RenameFile(files, a, a + 1)
        /\ writer' = IF a > 0 THEN [writer EXCEPT !.gen = @ - 1]
                     ELSE [writer EXCEPT !.at = "open"]
        /\ a \in 0..Keep - 1 /\ a + 1 \notin DOMAIN files
    BY <1>1, <1>2, <1>4 DEF RotateRename, Top, LogInv, Writing, Writers
  <2>2. Moved(files', files, a, a + 1)
    BY <1>1, <1>2, <2>1, RenameKept
  <2>3. Small'
    BY <1>1, <2>2 DEF Small, Moved
  <2>4. CASE a > 0
    <3>1. a \in 1..Keep - 1 /\ a \in Nat /\ (a - 1) + 1 = a /\ a # 0 /\ a - 1 < Keep
      BY <1>2, <2>1, <2>4
    <3>2. Kept(files', history, kills, a - 1)
      BY <1>1, <2>1, <3>1, RenamePacked
    <3>3. 0 \in DOMAIN files' /\ files'[0] = files[0] /\ a \notin DOMAIN files'
      BY <1>1, <2>2, <3>1 DEF Moved
    <3>4. /\ writer'.at = "rename" /\ writer'.gen = a - 1
          /\ writer' \in Writers
      <4>1. a - 1 \in 0..Keep
        BY <1>2, <2>1, <3>1
      <4>2. writer' = [writer EXCEPT !.gen = a - 1]
        BY <2>1, <2>4
      <4>3. QED
        BY <4>1, <4>2, <1>1, <2>1 DEF Writers
    <3>5. Writing'
      BY <1>1, <3>1, <3>3, <3>4 DEF Writing
    <3>6. QED
      BY <1>1, <2>3, <3>2, <3>4, <3>5 DEF LogInv, Top
  <2>5. CASE a = 0
    <3>1. Kept(files', history, kills, Keep)
      <4>1. /\ files' = RenameFile(files, 0, 1) /\ Kept(files, history, kills, 0)
            /\ 1 \notin DOMAIN files
        BY <1>1, <2>1, <2>5
      <4>2. QED
        BY <1>1, <4>1, RenameLast
    <3>2. 0 \notin DOMAIN files'
      BY <2>2, <2>5 DEF Moved
    <3>3. /\ writer'.at = "open"
          /\ writer' \in Writers
      BY <1>1, <2>1, <2>5 DEF Writers
    <3>4. Writing'
      BY <3>2, <3>3 DEF Writing, Grown
    <3>5. QED
      BY <1>1, <2>3, <3>1, <3>3, <3>4 DEF LogInv, Top
  <2>6. QED
    BY <2>1, <2>4, <2>5
<1>5. QED
  BY <1>3, <1>4

(* The minute's bookkeeping, and what there is to announce.                *)
LEMMA MinuteFacts ==
  ASSUME LogAssumption, writer \in Writers, minute \in Nat,
         NEW said \in {Announcement(writer), <<>>}
  PROVE  LET w == [InMinute(writer) EXCEPT !.inMin = @ + 1, !.size = @ + Len(said)]
         IN /\ w \in Writers /\ w.at = writer.at /\ w.open = writer.open
            /\ w.size = writer.size + Len(said)
            /\ writer.minute # minute => w.inMin = 1 /\ ~w.limited
            /\ writer.minute = minute =>
                 said = <<>> /\ w.inMin = writer.inMin + 1 /\ w.limited = writer.limited
            /\ said \in Seq(Line) /\ Len(said) \in {0, 1}
            /\ said = <<>> => Len(said) = 0 /\ Says(said) = 0
            /\ said # <<>> => /\ writer.open /\ writer.limited /\ writer.minute # minute
                              /\ Len(said) = 1 /\ Says(said) = Suppressed(writer)
            /\ Suppressed(writer) \in Int
<1>1. /\ writer.at \in {"open", "idle", "remove", "rename"} /\ writer.gen \in 0..Keep
      /\ writer.open \in BOOLEAN /\ writer.size \in Nat /\ writer.minute \in Nat
      /\ writer.inMin \in Nat /\ writer.limited \in BOOLEAN /\ MaxPerMin \in Nat
  BY DEF Writers, LogAssumption
<1>2. Suppressed(writer) \in Int
  BY <1>1 DEF Suppressed
<1>3. /\ said \in Seq(Line) /\ Len(said) \in {0, 1}
      /\ said = <<>> => Len(said) = 0 /\ Says(said) = 0
      /\ said # <<>> => /\ writer.open /\ writer.limited /\ writer.minute # minute
                        /\ Len(said) = 1 /\ Says(said) = Suppressed(writer)
  <2> DEFINE r == [kind |-> "limited", n |-> Suppressed(writer)]
  <2>1. r \in Line /\ r.kind = "limited" /\ r.n = Suppressed(writer)
    BY <1>2 DEF Line
  <2>2. said = <<>> \/ /\ said = <<r>> /\ writer.open /\ writer.limited
                       /\ writer.minute # minute
    BY DEF Announcement
  <2> HIDE DEF r
  <2>3. /\ <<r>> \in Seq(Line) /\ Len(<<r>>) = 1 /\ <<r>> # <<>> /\ <<r>>[1] = r
        /\ <<>> \in Seq(Line) /\ Len(<<>>) = 0
    BY <2>1
  <2>4. Says(<<r>>) = r.n /\ Says(<<>>) = 0
    BY <2>1, <2>3 DEF Says
  <2>5. QED
    BY <2>1, <2>2, <2>3, <2>4
<1>4. CASE writer.minute = minute
  <2>1. InMinute(writer) = writer
    BY <1>4 DEF InMinute
  <2>2. writer.inMin + 1 \in Nat /\ writer.size + Len(said) \in Nat
    BY <1>1, <1>3
  <2> DEFINE v == [writer EXCEPT !.inMin = @ + 1, !.size = @ + Len(said)]
  <2>3. /\ v \in Writers /\ v.at = writer.at /\ v.open = writer.open
        /\ v.size = writer.size + Len(said) /\ v.inMin = writer.inMin + 1
        /\ v.limited = writer.limited
    BY <2>2 DEF Writers
  <2>4. QED
    BY <1>2, <1>3, <1>4, <2>1, <2>3
<1>5. CASE writer.minute # minute
  <2>1. InMinute(writer) = [writer EXCEPT !.minute = minute, !.inMin = 0, !.limited = FALSE]
    BY <1>5 DEF InMinute
  <2>2. 0 + 1 = 1 /\ writer.size + Len(said) \in Nat
    BY <1>1, <1>3
  <2> DEFINE u == [writer EXCEPT !.minute = minute, !.inMin = 0, !.limited = FALSE]
             v == [u EXCEPT !.inMin = @ + 1, !.size = @ + Len(said)]
  <2>3. /\ u \in Writers /\ u.at = writer.at /\ u.open = writer.open
        /\ u.size = writer.size /\ u.inMin = 0 /\ u.limited = FALSE
    BY DEF Writers
  <2> HIDE DEF u
  <2>4. /\ v \in Writers /\ v.at = writer.at /\ v.open = writer.open
        /\ v.size = writer.size + Len(said) /\ v.inMin = 1 /\ ~v.limited
    <3>1. v = [u EXCEPT !.inMin = 1, !.size = writer.size + Len(said)]
      BY <2>3
    <3>2. ASSUME NEW n \in Nat
          PROVE  LET z == [u EXCEPT !.inMin = 1, !.size = n]
                 IN /\ z \in Writers /\ z.at = u.at /\ z.open = u.open /\ z.size = n
                    /\ z.inMin = 1 /\ z.limited = u.limited
      BY <2>3 DEF Writers
    <3>3. QED
      BY <3>1, <3>2, <2>2, <2>3
  <2>5. QED
    BY <1>2, <1>3, <1>5, <2>1, <2>4 DEF u
<1>6. QED
  BY <1>4, <1>5

(* One turn of the writer's loop.                                          *)
LEMMA TurnStep ==
  ASSUME LogAssumption, LogInv, Fed, writer.at = "idle", queue # <<>>,
         NEW said \in {Announcement(writer), <<>>}, Turn(said), kills' = kills
  PROVE  LogInv'
<1>1. /\ Kept(files, history, kills, Keep) /\ kills \in Nat /\ Small /\ writer \in Writers
      /\ minute \in Nat /\ MaxSize \in Nat
      /\ ~writer.open => Grown(MaxSize + 1 + kills)
      /\ writer.open =>
           /\ 0 \in DOMAIN files /\ writer.size = Len(files[0].lines)
           /\ \/ Grown(MaxSize)
              \/ Grown(MaxSize + 1 + kills) /\ ~writer.limited /\ writer.inMin = 0
  BY DEF LogInv, Fed, Top, Writing, LogAssumption
<1>c. LogContext(files, history)
  BY <1>1, LogFacts DEF Kept
<1> DEFINE w == [InMinute(writer) EXCEPT !.inMin = @ + 1, !.size = @ + Len(said)]
           f == IF said = <<>> THEN files ELSE Written(files, said)
           line == <<[kind |-> "event", n |-> Head(queue)]>>
           past == history \o said
<1>2. /\ w \in Writers /\ w.at = "idle" /\ w.open = writer.open
      /\ w.size = writer.size + Len(said)
      /\ writer.minute # minute => w.inMin = 1
      /\ writer.minute = minute => said = <<>> /\ w.inMin = writer.inMin + 1
      /\ said \in Seq(Line) /\ Len(said) \in {0, 1}
      /\ said = <<>> => Len(said) = 0
      /\ said # <<>> => writer.open /\ writer.limited /\ writer.minute # minute /\ Len(said) = 1
  BY <1>1, MinuteFacts
<1>3. line \in Seq(Line) /\ Len(line) = 1
  <2>1. Head(queue) \in Int
    BY DEF Fed
  <2>2. [kind |-> "event", n |-> Head(queue)] \in Line
    BY <2>1 DEF Line
  <2>3. QED
    BY <2>2
<1> HIDE DEF w, line
<1>4. /\ Kept(f, past, kills, Keep) /\ (0 \in DOMAIN f \/ past = history)
      /\ \A g \in DOMAIN f \ {0} : Len(f[g].lines) <= MaxSize + 2 + kills
      /\ 0 \in DOMAIN f => Len(f[0].lines) <= MaxSize + 1 + kills /\ Len(f[0].lines) \in Nat
      /\ w.open => 0 \in DOMAIN f /\ w.size = Len(f[0].lines)
      /\ said = <<>> => f = files /\ past = history
  <2>1. CASE said = <<>>
    <3>1. past = history
      BY <2>1, <1>2, <1>c, Appended DEF LogContext
    <3>2. f = files /\ w.size = writer.size
      BY <2>1, <1>1, <1>2 DEF Writers
    <3>3. 0 \in DOMAIN files =>
            Len(files[0].lines) \in Nat /\ Len(files[0].lines) <= MaxSize + 1 + kills
      BY <1>1, <1>c DEF LogContext, Grown
    <3>4. QED
      BY <3>1, <3>2, <3>3, <1>1, <1>2 DEF Small
  <2>2. CASE said # <<>>
    <3>1. /\ 0 \in DOMAIN files /\ writer.size = Len(files[0].lines)
          /\ Len(files[0].lines) <= MaxSize /\ Len(files[0].lines) \in Nat /\ Len(said) = 1
      BY <2>2, <1>1, <1>2, <1>c DEF Grown, LogContext
    <3>2. f = Written(files, said)
      BY <2>2
    <3>3. /\ Kept(f, past, kills, Keep) /\ 0 \in DOMAIN f
          /\ \A g \in DOMAIN f \ {0} : g \in DOMAIN files /\ f[g].lines = files[g].lines
          /\ Len(f[0].lines) = Len(files[0].lines) + Len(said)
      <4>1. /\ Kept(Written(files, said), past, kills, Keep)
            /\ Extended(Written(files, said), files, said)
        BY <1>1, <1>2, <3>1, WriteKept
      <4>2. Kept(f, past, kills, Keep) /\ Extended(f, files, said)
        BY <4>1, <3>2
      <4>3. QED
        BY <4>2 DEF Extended
    <3>4. Len(f[0].lines) <= MaxSize + 1 + kills /\ Len(f[0].lines) \in Nat
      BY <1>1, <3>1, <3>3
    <3>5. \A g \in DOMAIN f \ {0} : Len(f[g].lines) <= MaxSize + 2 + kills
      BY <1>1, <3>3 DEF Small
    <3>6. QED
      BY <2>2, <3>1, <3>3, <3>4, <3>5, <1>2
  <2>3. QED
    BY <2>1, <2>2
<1> DEFINE opened == Opened(f)
<1>5. /\ Kept(opened, past, kills, Keep) /\ 0 \in DOMAIN opened
      /\ \A g \in DOMAIN opened \ {0} : Len(opened[g].lines) <= MaxSize + 2 + kills
      /\ Len(opened[0].lines) <= MaxSize + 1 + kills /\ Len(opened[0].lines) \in Nat
      /\ w.open => w.size = Len(opened[0].lines)
  <2> HIDE DEF f, past
  <2>1. /\ Kept(opened, past, kills, Keep) /\ 0 \in DOMAIN opened
        /\ \A g \in DOMAIN opened \ {0} : g \in DOMAIN f /\ opened[g] = f[g]
        /\ 0 \in DOMAIN f => opened = f
        /\ 0 \notin DOMAIN f => Len(opened[0].lines) = 0
    BY <1>1, <1>4, OpenKept
  <2>2. 0 <= MaxSize + 1 + kills
    BY <1>1
  <2>3. QED
    BY <2>1, <2>2, <1>4
<1> HIDE DEF f, past, opened
\* The event is rationed away.
<1>6. CASE /\ w.inMin > MaxPerMin /\ writer' = [w EXCEPT !.limited = TRUE]
           /\ files' = f /\ history' = past
  <2>1. said = <<>> /\ writer.inMin # 0
    <3>1. MaxPerMin \in Nat /\ MaxPerMin >= 1 /\ writer.inMin \in Nat
      BY <1>1 DEF LogAssumption, Writers
    <3>2. w.inMin # 1
      BY <3>1, <1>6
    <3>3. writer.minute = minute
      BY <3>2, <1>2
    <3>4. QED
      BY <3>2, <3>3, <1>2
  <2>2. files' = files /\ history' = history /\ writer.size \in Nat
    BY <2>1, <1>1, <1>4, <1>6 DEF Writers
  <2>3. /\ writer' \in Writers /\ writer'.at = "idle" /\ writer'.open = writer.open
        /\ writer'.size = writer.size
    <3>1. /\ [w EXCEPT !.limited = TRUE] \in Writers
          /\ \A v : [w EXCEPT !.limited = v].at = w.at /\ [w EXCEPT !.limited = v].open = w.open
                   /\ [w EXCEPT !.limited = v].size = w.size
      BY <1>2 DEF Writers
    <3>2. w.size = writer.size
      BY <1>2, <2>1, <2>2
    <3>3. QED
      BY <3>1, <3>2, <1>2, <1>6
  <2>4. Writing' /\ Small'
    BY <1>1, <2>1, <2>2, <2>3 DEF Writing, Grown, Small
  <2>5. QED
    BY <1>1, <2>2, <2>3, <2>4 DEF LogInv, Top
\* The event is written, and the file is perhaps full.
<1>7. ASSUME NEW size, size = (IF w.open THEN w.size ELSE Len(opened[0].lines)) + 1,
             files' = Written(opened, line), history' = past \o line,
             writer' = [w EXCEPT !.open = size <= MaxSize, !.size = size,
                                 !.at = IF size > MaxSize THEN "remove" ELSE "idle"]
      PROVE  LogInv'
  <2>1. size = Len(opened[0].lines) + 1 /\ size \in Nat
    BY <1>5, <1>7
  <2>2. /\ Kept(files', history', kills, Keep) /\ 0 \in DOMAIN files'
        /\ \A g \in DOMAIN files' \ {0} : g \in DOMAIN opened /\ files'[g].lines = opened[g].lines
        /\ Len(files'[0].lines) = Len(opened[0].lines) + Len(line)
    <3>1. Kept(Written(opened, line), past \o line, kills, Keep)
          /\ Extended(Written(opened, line), opened, line)
      BY <1>1, <1>3, <1>5, WriteKept
    <3>2. QED
      BY <3>1, <1>7 DEF Extended
  <2>3. Len(files'[0].lines) = size
    BY <2>1, <2>2, <1>3
  <2>4. size <= MaxSize + 2 + kills
    BY <2>1, <1>1, <1>5
  <2>5. Small'
    BY <2>2, <2>3, <2>4, <1>5 DEF Small
  <2>6. CASE size > MaxSize
    <3>1. writer' = [w EXCEPT !.open = FALSE, !.size = size, !.at = "remove"]
      <4>1. (size <= MaxSize) = FALSE
        BY <2>6, <2>1, <1>1
      <4>2. QED
        BY <4>1, <2>6, <1>7
    <3>2. writer' \in Writers /\ writer'.at = "remove" /\ ~writer'.open
      BY <3>1, <2>1, <1>2 DEF Writers
    <3>3. Len(files'[0].lines) >= MaxSize + 1
      BY <2>1, <2>3, <2>6, <1>1
    <3>4. Writing'
      BY <3>2, <3>3, <2>2 DEF Writing, Grown
    <3>5. QED
      BY <1>1, <2>2, <2>5, <3>2, <3>4 DEF LogInv, Top
  <2>7. CASE ~(size > MaxSize)
    <3>1. size <= MaxSize
      BY <2>7, <2>1, <1>1
    <3>2. writer' = [w EXCEPT !.open = TRUE, !.size = size, !.at = "idle"]
      BY <2>7, <3>1, <1>7
    <3>3. writer' \in Writers /\ writer'.at = "idle" /\ writer'.open /\ writer'.size = size
      BY <3>2, <2>1, <1>2 DEF Writers
    <3>4. Writing'
      BY <3>1, <3>3, <2>2, <2>3 DEF Writing, Grown
    <3>5. QED
      BY <1>1, <2>2, <2>5, <3>3, <3>4 DEF LogInv, Top
  <2>8. QED
    BY <2>6, <2>7
\* The disk fails, and the file may have been created before.
<1>8. CASE /\ writer' = [w EXCEPT !.open = FALSE] /\ files' \in {f, opened}
           /\ history' = past
  <2>1. /\ Kept(files', past, kills, Keep)
        /\ \A g \in DOMAIN files' \ {0} : Len(files'[g].lines) <= MaxSize + 2 + kills
        /\ 0 \in DOMAIN files' => /\ Len(files'[0].lines) <= MaxSize + 1 + kills
                                  /\ Len(files'[0].lines) \in Nat
    BY <1>4, <1>5, <1>8
  <2>2. writer' \in Writers /\ writer'.at = "idle" /\ ~writer'.open
    BY <1>2, <1>8 DEF Writers
  <2>3. Small'
    BY <2>1, <1>1 DEF Small
  <2>4. Writing'
    BY <2>1, <2>2 DEF Writing, Grown
  <2>5. QED
    BY <1>1, <1>8, <2>1, <2>2, <2>3, <2>4 DEF LogInv, Top
<1> DEFINE grown == (IF w.open THEN w.size ELSE Len(opened[0].lines)) + 1
<1>9. \/ /\ w.inMin > MaxPerMin /\ writer' = [w EXCEPT !.limited = TRUE]
         /\ files' = f /\ history' = past
      \/ /\ files' = Written(opened, line) /\ history' = past \o line
         /\ writer' = [w EXCEPT !.open = grown <= MaxSize, !.size = grown,
                                !.at = IF grown > MaxSize THEN "remove" ELSE "idle"]
      \/ /\ writer' = [w EXCEPT !.open = FALSE] /\ files' \in {f, opened}
         /\ history' = past
  BY Zenon DEF Turn, w, f, line, past, opened
<1>10. QED
  BY <1>6, <1>7, <1>8, <1>9

(* What feeds the writer stays well typed.                                 *)
LEMMA FedKept ==
  ASSUME Fed, [LogNext]_logVars
  PROVE  Fed'
<1>1. CASE Emit
  <2>1. offered' \in Nat /\ minute' = minute
    BY <1>1 DEF Emit, Fed
  <2>2. queue' = queue \/ queue' = Append(queue, offered')
    BY <1>1 DEF Emit
  <2>3. QED
    BY <2>1, <2>2 DEF Fed
<1>2. CASE WriteNext
  BY <1>2 DEF WriteNext, Fed
<1>3. CASE Minute
  BY <1>3 DEF Minute, Fed
<1>4. CASE Kill
  <2>1. queue' = <<>> /\ UNCHANGED <<offered, minute>>
    BY <1>4 DEF Kill
  <2>2. QED
    BY <2>1 DEF Fed
<1>5. CASE UNCHANGED <<queue, offered, minute>>
  BY <1>5 DEF Fed
<1>6. QED
  BY <1>1, <1>2, <1>3, <1>4, <1>5
     DEF LogNext, OpenFile, RotateRemove, RotateRename, logVars

(* The process is killed, wherever its writer stands.                      *)
LEMMA KillStep ==
  ASSUME LogAssumption, LogInv, Fed, Kill
  PROVE  LogInv'
<1>1. /\ kills' = kills + 1 /\ UNCHANGED <<files, history>> /\ kills \in Nat /\ Small
      /\ writer' = FreshWriter(minute) /\ minute \in Nat /\ MaxSize \in Nat /\ Keep \in Nat
  BY DEF LogInv, Fed, Kill, LogAssumption
<1>2. Top \in 0..Keep
  BY <1>1 DEF LogInv, Writing, Writers, Top
<1>3. Kept(files', history', kills', Keep)
  BY <1>1, <1>2, KillKept DEF LogInv
<1>c. LogContext(files, history)
  BY LogFacts DEF LogInv, Kept
<1>4. \A g \in DOMAIN files : Len(files[g].lines) \in Nat
  BY <1>c DEF LogContext
<1>5. Small'
  BY <1>1, <1>4 DEF Small
<1>6. /\ writer' \in Writers /\ writer'.at = "open" /\ ~writer'.limited /\ writer'.inMin = 0
  <2>1. 0 \in 0..Keep
    BY <1>1
  <2>2. QED
    BY <1>1, <2>1 DEF FreshWriter, Writers
<1>7. 0 \in DOMAIN files => Len(files[0].lines) <= MaxSize + 1 + kills'
  BY <1>1, <1>4 DEF Small
<1>8. Writing'
  BY <1>1, <1>6, <1>7 DEF Writing, Grown
<1>9. QED
  BY <1>1, <1>3, <1>5, <1>6, <1>8 DEF LogInv, Top

(* Every step of the log keeps the invariant.                              *)
LEMMA LogStep ==
  ASSUME LogAssumption, LogInv, Fed, [LogNext]_logVars
  PROVE  LogInv'
<1>1. CASE OpenFile
  BY <1>1, OpenFileStep
<1>2. CASE WriteNext
  <2>1. /\ writer.at = "idle" /\ queue # <<>> /\ kills' = kills
        /\ \E said \in {Announcement(writer), <<>>} : Turn(said)
    BY <1>2 DEF WriteNext
  <2>2. QED
    BY <2>1, TurnStep
<1>3. CASE RotateRemove \/ RotateRename
  BY <1>3, RotateStep
<1>4. CASE Kill
  BY <1>4, KillStep
<1>5. CASE UNCHANGED <<files, history, kills, writer>>
  BY <1>5 DEF LogInv, Kept, Segments, Packed, Oldest, Floor, Ends, Top, Writing, Grown, Small
<1>6. QED
  BY <1>1, <1>2, <1>3, <1>4, <1>5 DEF LogNext, Emit, Minute, logVars

(* A log begins empty.                                                     *)
LEMMA LogStart ==
  ASSUME LogAssumption, LogInit
  PROVE  LogInv /\ Fed
<1>1. /\ DOMAIN files = {} /\ history = <<>> /\ kills = 0 /\ writer = FreshWriter(0)
      /\ queue = <<>> /\ offered = 0 /\ minute = 0 /\ Keep \in Nat
  BY DEF LogInit, LogAssumption
<1>2. history \in Seq(Line) /\ Len(history) = 0 /\ queue \in Seq(Nat)
  BY <1>1
<1>3. writer \in Writers /\ writer.at = "open"
  <2>1. 0 \in 0..Keep
    BY <1>1
  <2>2. QED
    BY <1>1, <2>1 DEF FreshWriter, Writers
<1>4. /\ Segments(files, history) /\ Packed(files, history, kills, Top)
      /\ Oldest(files, history, kills)
  BY <1>1, <1>2 DEF Segments, Packed, Oldest
<1>5. Writing /\ Small
  BY <1>1, <1>3 DEF Writing, Grown, Small
<1>6. QED
  BY <1>1, <1>2, <1>4, <1>5 DEF LogInv, Kept, Fed

(* The files are the end of the log, with nothing missing between; what    *)
(* they hold is what Keep files hold, less one for every kill; and none of *)
(* them outgrows its limit by more than the announcement and the line that *)
(* filled it, and one line for every kill.                                 *)
THEOREM LogIsKept == LogSpec => []HistoryKept
<1>1. LogInit => LogInv /\ Fed
  BY LogStart, LogAssumption
<1>2. LogInv /\ Fed /\ [LogNext]_logVars => (LogInv /\ Fed)'
  BY LogStep, FedKept, LogAssumption
<1>3. LogInv => HistoryKept
  <2> SUFFICES ASSUME LogInv PROVE HistoryKept
    OBVIOUS
  <2>1. Segments(files, history) /\ Oldest(files, history, kills) /\ Small
    BY DEF LogInv, Kept
  <2>2. \A g : End(g) = Ends(files, g)
    BY DEF End, Ends
  <2>3. Contiguous
    BY <2>1, <2>2 DEF Segments, Contiguous
  <2>4. Enough
    BY <2>1 DEF Oldest, Room, Enough
  <2>5. QED
    BY <2>1, <2>3, <2>4 DEF HistoryKept
<1>4. QED
  BY <1>1, <1>2, <1>3, PTL DEF LogSpec

\* The books of the ration.
Booked ==
  /\ dropped \in Nat /\ lost \in Int /\ mentioned \in Int
  /\ writer.limited <=> writer.inMin > MaxPerMin
  /\ EveryEventAccounted

(* A turn of the writer moves one event from the queue to where it is      *)
(* accounted for, and closes the books of a minute that is over.           *)
LEMMA TurnBooked ==
  ASSUME LogAssumption, Fed, Booked, writer \in Writers, WriteNext
  PROVE  Booked'
<1>1. PICK said \in {Announcement(writer), <<>>} : Turn(said)
  BY DEF WriteNext
<1>2. Len(queue') = Len(queue) - 1 /\ Len(queue) \in Nat /\ UNCHANGED <<offered, dropped>>
  BY DEF WriteNext, Fed
<1> DEFINE w == [InMinute(writer) EXCEPT !.inMin = @ + 1, !.size = @ + Len(said)]
           line == <<[kind |-> "event", n |-> Head(queue)]>>
           S == Suppressed(writer)
           unsaid == IF writer.minute # minute /\ said = <<>> THEN S ELSE 0
           gone == Says(said) + unsaid
<1>3. /\ w \in Writers
      /\ writer.minute # minute => w.inMin = 1 /\ ~w.limited
      /\ writer.minute = minute =>
           said = <<>> /\ w.inMin = writer.inMin + 1 /\ w.limited = writer.limited
      /\ said = <<>> => Says(said) = 0
      /\ said # <<>> => Says(said) = S /\ writer.minute # minute
      /\ S \in Int
  BY MinuteFacts DEF Fed
<1>4. /\ Says(line) = 1 /\ MaxPerMin \in Nat /\ MaxPerMin >= 1
      /\ writer.inMin \in Nat /\ writer.limited \in BOOLEAN
  BY DEF Says, LogAssumption, Writers
<1>5. S = IF writer.limited THEN writer.inMin - MaxPerMin ELSE 0
  BY DEF Suppressed
<1>6. \/ /\ w.inMin > MaxPerMin /\ writer' = [w EXCEPT !.limited = TRUE]
         /\ mentioned' = mentioned + Says(said) /\ lost' = lost + unsaid
      \/ /\ w.inMin <= MaxPerMin
         /\ writer'.inMin = w.inMin /\ writer'.limited = w.limited
         /\ \/ mentioned' = mentioned + Says(said) + Says(line) /\ lost' = lost + unsaid
            \/ mentioned' = mentioned + Says(said) /\ lost' = lost + unsaid + 1
  <2>1. /\ \A x, y, z : LET v == [w EXCEPT !.open = x, !.size = y, !.at = z]
                        IN v.inMin = w.inMin /\ v.limited = w.limited
        /\ \A x : LET v == [w EXCEPT !.open = x]
                  IN v.inMin = w.inMin /\ v.limited = w.limited
    BY <1>3 DEF Writers
  <2> DEFINE f == IF said = <<>> THEN files ELSE Written(files, said)
             size == (IF w.open THEN w.size ELSE Len(Opened(f)[0].lines)) + 1
             placed == IF size > MaxSize THEN "remove" ELSE "idle"
  <2>2. \/ /\ w.inMin > MaxPerMin /\ writer' = [w EXCEPT !.limited = TRUE]
           /\ mentioned' = mentioned + Says(said) /\ lost' = lost + unsaid
        \/ /\ w.inMin <= MaxPerMin
           /\ writer' = [w EXCEPT !.open = size <= MaxSize, !.size = size, !.at = placed]
           /\ mentioned' = mentioned + Says(said) + Says(line) /\ lost' = lost + unsaid
        \/ /\ w.inMin <= MaxPerMin
           /\ writer' = [w EXCEPT !.open = FALSE]
           /\ mentioned' = mentioned + Says(said) /\ lost' = lost + unsaid + 1
    BY <1>1, Zenon DEF Turn
  <2> HIDE DEF w, line, unsaid, f, size, placed
  <2>3. ASSUME NEW x, NEW y, NEW z, writer' = [w EXCEPT !.open = x, !.size = y, !.at = z]
        PROVE  writer'.inMin = w.inMin /\ writer'.limited = w.limited
    BY <2>1, <2>3
  <2>4. ASSUME writer' = [w EXCEPT !.open = FALSE]
        PROVE  writer'.inMin = w.inMin /\ writer'.limited = w.limited
    BY <2>1, <2>4
  <2>5. QED
    BY <2>2, <2>3, <2>4
<1>7. /\ Says(said) \in Int /\ unsaid \in Int
      /\ writer.minute # minute => gone = S
      /\ writer.minute = minute => gone = 0
  <2> HIDE DEF S
  <2>1. CASE said = <<>>
    <3>1. Says(said) = 0 /\ unsaid = IF writer.minute # minute THEN S ELSE 0
      BY <2>1, <1>3
    <3>2. QED
      BY <3>1, <1>3
  <2>2. CASE said # <<>>
    <3>1. Says(said) = S /\ unsaid = 0 /\ writer.minute # minute
      BY <2>2, <1>3
    <3>2. QED
      BY <3>1, <1>3
  <2>3. QED
    BY <2>1, <2>2
<1>a. /\ offered = dropped + Len(queue) + mentioned + S + lost
      /\ offered \in Nat /\ dropped \in Nat /\ Len(queue) \in Nat /\ mentioned \in Int
      /\ S \in Int /\ lost \in Int /\ Says(said) \in Int /\ unsaid \in Int
  BY <1>2, <1>3, <1>7 DEF Booked, EveryEventAccounted, Fed
<1> HIDE DEF line, S, unsaid
<1>8. w.inMin \in Nat
  BY <1>3 DEF Writers
\* It was rationed away.
<1>9. CASE /\ w.inMin > MaxPerMin /\ writer' = [w EXCEPT !.limited = TRUE]
           /\ mentioned' = mentioned + Says(said) /\ lost' = lost + unsaid
  <2>1. writer'.limited /\ writer'.inMin = w.inMin
    BY <1>3, <1>9 DEF Writers
  <2> HIDE DEF w
  <2>2. writer.minute = minute /\ w.inMin = writer.inMin + 1 /\ gone = 0
    BY <1>3, <1>4, <1>7, <1>9
  <2>3. Suppressed(writer)' = (writer.inMin + 1) - MaxPerMin
    <3>1. Suppressed(writer)' = writer'.inMin - MaxPerMin
      BY <2>1 DEF Suppressed
    <3>2. writer'.inMin = writer.inMin + 1
      BY <2>1, <2>2
    <3>3. QED
      BY <3>1, <3>2
  <2>4. S = writer.inMin - MaxPerMin
    BY <2>2, <1>4, <1>5, <1>9 DEF Booked
  <2>5. QED
    <3>1. Suppressed(writer)' = S + 1 /\ writer'.inMin > MaxPerMin
      BY <2>1, <2>2, <2>3, <2>4, <1>4, <1>9
    <3>0. Says(said) + unsaid = 0 /\ mentioned' = mentioned + Says(said) /\ lost' = lost + unsaid
      BY <2>2, <1>9
    <3>2. offered' = dropped' + Len(queue') + mentioned' + Suppressed(writer)' + lost'
      <4>0. lost + unsaid = lost - Says(said)
        BY <3>0, <1>a
      <4>1. offered = dropped + (Len(queue) - 1) + (mentioned + Says(said)) + (S + 1)
                      + (lost - Says(said))
        BY <1>a
      <4>2. QED
        BY <4>0, <4>1, <3>0, <3>1, <1>2
    <3>3. mentioned' \in Int
      BY <3>0, <1>a
    <3>4. lost' \in Int
      BY <3>0, <1>a
    <3>5. dropped' \in Nat
      BY <1>2, <1>a
    <3>6. writer'.limited <=> writer'.inMin > MaxPerMin
      BY <3>1, <2>1
    <3>7. QED
      BY <3>2, <3>3, <3>4, <3>5, <3>6 DEF Booked, EveryEventAccounted
\* It was written, or lost.
<1>10. CASE /\ w.inMin <= MaxPerMin
            /\ writer'.inMin = w.inMin /\ writer'.limited = w.limited
            /\ \/ mentioned' = mentioned + Says(said) + Says(line) /\ lost' = lost + unsaid
               \/ mentioned' = mentioned + Says(said) /\ lost' = lost + unsaid + 1
  <2> HIDE DEF w
  <2>1. ~w.limited /\ gone = S
    <3>1. CASE writer.minute # minute
      BY <3>1, <1>3, <1>7
    <3>2. CASE writer.minute = minute
      <4>1. ~(writer.inMin > MaxPerMin)
        BY <3>2, <1>3, <1>4, <1>10
      <4>2. ~writer.limited
        BY <4>1 DEF Booked
      <4>3. S = 0
        BY <4>2, <1>5
      <4>4. QED
        BY <3>2, <4>2, <4>3, <1>3, <1>7
    <3>3. QED
      BY <3>1, <3>2
  <2>2. Suppressed(writer)' = 0 /\ (writer'.limited <=> writer'.inMin > MaxPerMin)
    BY <2>1, <1>4, <1>8, <1>10 DEF Suppressed
  <2>3. QED
    <3>1. offered' = dropped' + Len(queue') + mentioned' + Suppressed(writer)' + lost'
      <4>1. Says(said) + unsaid = S
        BY <2>1
      <4>3. CASE mentioned' = mentioned + Says(said) + Says(line) /\ lost' = lost + unsaid
        <5>1. offered = dropped + (Len(queue) - 1) + (mentioned + Says(said) + 1) + 0
                        + (lost + unsaid)
          BY <4>1, <1>a
        <5>2. QED
          BY <5>1, <4>3, <2>2, <1>2, <1>4
      <4>4. CASE mentioned' = mentioned + Says(said) /\ lost' = lost + unsaid + 1
        <5>0. lost + unsaid + 1 = lost + (S - Says(said)) + 1
          BY <4>1, <1>a
        <5>1. offered = dropped + (Len(queue) - 1) + (mentioned + Says(said)) + 0
                        + (lost + (S - Says(said)) + 1)
          BY <1>a
        <5>2. QED
          BY <5>0, <5>1, <4>4, <2>2, <1>2
      <4>5. QED
        BY <4>3, <4>4, <1>10
    <3>2. mentioned' \in Int
      BY <1>4, <1>10, <1>a
    <3>3. lost' \in Int
      BY <1>4, <1>10, <1>a
    <3>4. dropped' \in Nat
      BY <1>2, <1>a
    <3>5. QED
      BY <3>1, <3>2, <3>3, <3>4, <2>2 DEF Booked, EveryEventAccounted
<1>11. QED
  BY <1>6, <1>9, <1>10

(* Every event handed to emit is accounted for: an event rationed away     *)
(* never goes unmentioned, at any minute's end, failure and kill.          *)
THEOREM LogAccounted == LogSpec => []EveryEventAccounted
<1>1. LogInit => LogInv /\ Fed /\ Booked
  <2> SUFFICES ASSUME LogInit PROVE Booked
    BY LogStart, LogAssumption
  <2>1. /\ Len(queue) = 0 /\ dropped = 0 /\ lost = 0 /\ mentioned = 0 /\ offered = 0
        /\ ~writer.limited /\ writer.inMin = 0 /\ MaxPerMin \in Nat
    BY LogAssumption DEF LogInit, FreshWriter, LogAssumption
  <2>2. QED
    BY <2>1 DEF Booked, EveryEventAccounted, Suppressed
<1>2. ASSUME LogInv, Fed, Booked, [LogNext]_logVars
      PROVE  (LogInv /\ Fed /\ Booked)'
  <2>1. LogInv' /\ Fed' /\ writer \in Writers
    BY <1>2, LogStep, FedKept, LogAssumption DEF LogInv, Writing
  <2>2. /\ Len(queue) \in Nat /\ offered \in Nat /\ dropped \in Nat /\ lost \in Int
        /\ Suppressed(writer) \in Int /\ mentioned \in Int
    <3>1. MaxPerMin \in Nat /\ writer.inMin \in Nat
      BY <2>1, LogAssumption DEF LogAssumption, Writers
    <3>2. QED
      BY <1>2, <3>1 DEF Fed, Booked, Suppressed
  <2>3. CASE Emit
    <3>1. /\ offered' = offered + 1 /\ UNCHANGED <<writer, lost, mentioned>>
          /\ \/ Len(queue') = Len(queue) + 1 /\ dropped' = dropped
             \/ queue' = queue /\ dropped' = dropped + 1
      <4>1. Len(Append(queue, offered')) = Len(queue) + 1
        BY <1>2 DEF Fed
      <4>2. QED
        BY <2>3, <4>1 DEF Emit
    <3>2. QED
      <4>1. Suppressed(writer)' = Suppressed(writer)
        BY <3>1 DEF Suppressed
      <4>2. offered = dropped + Len(queue) + mentioned + Suppressed(writer) + lost
        BY <1>2 DEF Booked, EveryEventAccounted
      <4>3. EveryEventAccounted'
        <5> DEFINE q == Len(queue)
                   p == Suppressed(writer)
        <5>1. /\ offered + 1 = dropped + (q + 1) + mentioned + p + lost
              /\ offered + 1 = (dropped + 1) + q + mentioned + p + lost
          <6> HIDE DEF q, p
          <6> QED
            BY <2>2, <4>2 DEF q, p
        <5>2. QED
          BY <3>1, <4>1, <5>1 DEF EveryEventAccounted
      <4>4. QED
        BY <1>2, <2>1, <2>2, <3>1, <4>3 DEF Booked
  <2>4. CASE WriteNext
    BY <1>2, <2>1, <2>4, TurnBooked, LogAssumption
  <2>5. CASE Kill
    <3>1. /\ lost' = lost + Len(queue) + dropped + Suppressed(writer)
          /\ Len(queue') = 0 /\ dropped' = 0 /\ UNCHANGED <<offered, mentioned>>
          /\ ~writer'.limited /\ writer'.inMin = 0
      BY <2>5 DEF Kill, FreshWriter
    <3>2. Suppressed(writer)' = 0 /\ ~(writer'.inMin > MaxPerMin)
      BY <3>1, LogAssumption DEF Suppressed, LogAssumption
    <3>3. QED
      BY <1>2, <2>1, <2>2, <3>1, <3>2 DEF Booked, EveryEventAccounted
  <2>6. CASE /\ UNCHANGED <<queue, offered, dropped, mentioned, lost>>
             /\ writer'.limited = writer.limited /\ writer'.inMin = writer.inMin
    BY <1>2, <2>1, <2>6 DEF Booked, EveryEventAccounted, Suppressed
  <2>7. CASE OpenFile \/ RotateRemove \/ RotateRename
    <3>1. writer'.limited = writer.limited /\ writer'.inMin = writer.inMin
      BY <2>1, <2>7 DEF OpenFile, RotateRemove, RotateRename, Writers
    <3>2. QED
      BY <3>1, <2>6, <2>7 DEF OpenFile, RotateRemove, RotateRename
  <2>8. CASE Minute \/ UNCHANGED logVars
    BY <2>6, <2>8 DEF Minute, logVars
  <2>9. QED
    BY <1>2, <2>3, <2>4, <2>5, <2>7, <2>8 DEF LogNext
<1>3. Booked => EveryEventAccounted
  BY DEF Booked
<1>4. QED
  BY <1>1, <1>2, <1>3, PTL DEF LogSpec
-----------------------------------------------------------------------------
(* The strangers (Strangers).                                              *)

StrangersSpec == StrangersInit /\ [][StrangersNext]_strangerVars

\* The rows are as many as the table's limit allows, and a row holds counts only
\* while it is pending: what the flush forgets, it has reported.
StrangersInv ==
  /\ StrangersTypeOK /\ IsFiniteSet(DOMAIN table)
  /\ \A s \in DOMAIN table : ~table[s].pending => table[s].classes = NoCount
  /\ StrangersCounted

\* A row, and the account of one source and class.
Row == [classes : Counts, pending : BOOLEAN, quiet : BOOLEAN]
Balanced(s, c) == observed[s][c] = reported[s][c] + InFlush(s, c) + InTable(s, c)

(* Counts that are counted up, summed and started are counts.              *)
LEMMA CountFacts ==
  /\ NoCount \in Counts /\ \A c \in Classes : NoCount[c] = 0
  /\ \A f \in Counts : \A c \in Classes :
       f[c] \in Nat /\ [f EXCEPT ![c] = @ + 1] \in Counts
  /\ \A f \in Counts, g \in Counts :
       Plus(f, g) \in Counts /\ \A c \in Classes : Plus(f, g)[c] = f[c] + g[c]
BY DEF NoCount, Counts, Plus

(* What the invariant says of one source and class, in numbers.            *)
LEMMA AccountFacts ==
  ASSUME StrangersInv, NEW s \in Sources, NEW c \in Classes
  PROVE  /\ observed[s] \in Counts /\ reported[s] \in Counts
         /\ observed[s][c] \in Nat /\ reported[s][c] \in Nat
         /\ InFlush(s, c) \in Nat /\ InTable(s, c) \in Nat
         /\ Balanced(s, c)
<1>1. /\ observed[s] \in Counts /\ reported[s] \in Counts
      /\ s \in DOMAIN flushing.out => flushing.out[s] \in Counts
      /\ s \in DOMAIN table => table[s].classes \in Counts
  BY DEF StrangersInv, StrangersTypeOK
<1>2. \A f \in Counts : f[c] \in Nat
  BY CountFacts
<1>3. Balanced(s, c)
  BY DEF StrangersInv, StrangersCounted, Balanced
<1>4. QED
  BY <1>1, <1>2, <1>3 DEF InFlush, InTable

(* A stranger's datagram is counted, in its row or in the overflow.        *)
LEMMA ObserveStep ==
  ASSUME StrangersInv, NEW s \in Sources, NEW c \in Classes, ObserveStranger(s, c)
  PROVE  StrangersInv'
<1>1. CASE /\ overCap' = overCap + 1 /\ turnedAway' = turnedAway + 1
           /\ UNCHANGED <<table, observed, flushing, reported, uncounted>>
  <2>1. /\ overCap \in Nat /\ turnedAway \in Nat /\ uncounted \in Nat /\ flushing.over \in Nat
        /\ turnedAway = uncounted + overCap + flushing.over
    BY DEF StrangersInv, StrangersTypeOK, StrangersCounted
  <2>2. turnedAway' = uncounted' + overCap' + flushing'.over
    BY <1>1, <2>1
  <2>3. overCap' \in Nat /\ turnedAway' \in Nat
    BY <1>1, <2>1
  <2>4. StrangersTypeOK'
    BY <1>1, <2>3 DEF StrangersInv, StrangersTypeOK
  <2>5. StrangersCounted'
    BY <1>1, <2>2 DEF StrangersInv, StrangersCounted, InFlush, InTable
  <2>6. QED
    BY <1>1, <2>4, <2>5 DEF StrangersInv
<1> DEFINE old == IF s \in DOMAIN table THEN table[s].classes ELSE NoCount
           more == [old EXCEPT ![c] = @ + 1]
           row == [classes |-> more, pending |-> TRUE, quiet |-> FALSE]
<1>2. CASE /\ s \in DOMAIN table \/ Cardinality(DOMAIN table) < MaxSources
           /\ table' = [t \in DOMAIN table \union {s} |-> IF t = s THEN row ELSE table[t]]
           /\ observed' = [observed EXCEPT ![s][c] = @ + 1]
           /\ UNCHANGED <<overCap, turnedAway, flushing, reported, uncounted>>
  <2>1. /\ DOMAIN table \subseteq Sources /\ IsFiniteSet(DOMAIN table)
        /\ Cardinality(DOMAIN table) <= MaxSources /\ observed \in [Sources -> Counts]
        /\ \A t \in DOMAIN table :
             table[t] \in Row /\ (~table[t].pending => table[t].classes = NoCount)
    BY DEF StrangersInv, StrangersTypeOK, Row
  <2>2. old \in Counts /\ more \in Counts
    <3>1. old \in Counts
      BY <2>1, CountFacts DEF Row
    <3> HIDE DEF old
    <3>2. QED
      BY <3>1, CountFacts
  <2>3. old[c] = InTable(s, c) /\ (\A d \in Classes : d # c => old[d] = InTable(s, d))
    BY CountFacts DEF InTable
  <2>4. more[c] = old[c] + 1 /\ (\A d \in Classes : d # c => more[d] = old[d])
    <3> HIDE DEF old
    <3> QED
      BY <2>2 DEF Counts
  <2>5. row \in Row /\ row.pending /\ row.classes = more
    <3> HIDE DEF more
    <3> QED
      BY <2>2 DEF Row
  <2> HIDE DEF old, more, row
  <2>6. /\ DOMAIN table' = DOMAIN table \union {s} /\ table'[s] = row
        /\ \A t \in DOMAIN table : t # s => table'[t] = table[t]
    BY <1>2
  <2>7. IsFiniteSet(DOMAIN table') /\ Cardinality(DOMAIN table') <= MaxSources
    <3>1. CASE s \in DOMAIN table
      <4>1. DOMAIN table' = DOMAIN table
        BY <2>6, <3>1
      <4>2. QED
        BY <2>1, <4>1
    <3>2. CASE s \notin DOMAIN table
      <4>1. /\ IsFiniteSet(DOMAIN table \union {s})
            /\ Cardinality(DOMAIN table \union {s}) = Cardinality(DOMAIN table) + 1
            /\ Cardinality(DOMAIN table) \in Nat
        BY <2>1, <3>2, FS_AddElement, FS_CardinalityType
      <4>2. QED
        BY <1>2, <2>6, <3>2, <4>1, StrangersAssumption
    <3>3. QED
      BY <3>1, <3>2
  <2>8. /\ observed' \in [Sources -> Counts] /\ observed'[s][c] = observed[s][c] + 1
        /\ \A d \in Classes : d # c => observed'[s][d] = observed[s][d]
        /\ \A t \in Sources : t # s => observed'[t] = observed[t]
    BY <1>2, <2>1 DEF Counts
  <2>9. \A t \in DOMAIN table' :
          table'[t] \in Row /\ (~table'[t].pending => table'[t].classes = NoCount)
    BY <2>1, <2>5, <2>6
  <2>10. StrangersTypeOK'
    BY <1>2, <2>1, <2>6, <2>7, <2>8, <2>9 DEF StrangersInv, StrangersTypeOK, Row
  <2>11. ASSUME NEW t \in Sources, NEW d \in Classes
         PROVE  Balanced(t, d)'
    <3>1. InFlush(t, d)' = InFlush(t, d) /\ reported'[t][d] = reported[t][d]
      BY <1>2 DEF InFlush
    <3>2. CASE t = s /\ d = c
      <4>1. InTable(t, d)' = InTable(t, d) + 1
        BY <3>2, <2>3, <2>4, <2>5, <2>6 DEF InTable
      <4>2. /\ observed[s][c] = reported[s][c] + InFlush(s, c) + InTable(s, c)
            /\ observed[s][c] \in Nat /\ reported[s][c] \in Nat
            /\ InFlush(s, c) \in Nat /\ InTable(s, c) \in Nat
        BY AccountFacts DEF Balanced
      <4>3. observed[s][c] + 1 = reported[s][c] + InFlush(s, c) + (InTable(s, c) + 1)
        BY <4>2
      <4>4. observed'[t][d] = observed[s][c] + 1
        BY <3>2, <2>8
      <4>5. QED
        BY <3>1, <3>2, <4>1, <4>3, <4>4 DEF Balanced
    <3>3. CASE t # s \/ d # c
      <4>1. InTable(t, d)' = InTable(t, d)
        BY <3>3, <2>3, <2>4, <2>5, <2>6 DEF InTable
      <4>2. observed'[t][d] = observed[t][d]
        BY <3>3, <2>8
      <4>3. QED
        BY <3>1, <4>1, <4>2, AccountFacts DEF Balanced
    <3>4. QED
      BY <3>2, <3>3
  <2>12. StrangersCounted'
    BY <1>2, <2>11 DEF StrangersInv, StrangersCounted, Balanced
  <2>13. QED
    BY <2>7, <2>9, <2>10, <2>12 DEF StrangersInv
<1>3. QED
  BY <1>1, <1>2 DEF ObserveStranger

(* The flush copies the active rows out, resets them and forgets the quiet *)
(* ones, which hold nothing.                                               *)
LEMMA FlushTakeStep ==
  ASSUME StrangersInv, FlushTake
  PROVE  StrangersInv'
<1> DEFINE spent(r) == [r EXCEPT !.classes = NoCount, !.pending = FALSE]
<1>1. /\ DOMAIN table \subseteq Sources /\ IsFiniteSet(DOMAIN table)
      /\ Cardinality(DOMAIN table) <= MaxSources
      /\ \A s \in DOMAIN table :
           table[s] \in Row /\ (~table[s].pending => table[s].classes = NoCount)
      /\ overCap \in Nat /\ uncounted \in Nat
      /\ turnedAway = uncounted + overCap + flushing.over
  BY DEF StrangersInv, StrangersTypeOK, StrangersCounted, Row
<1>2. /\ flushing.over = 0 /\ DOMAIN flushing.out = {}
      /\ flushing'.over = overCap /\ overCap' = 0
      /\ DOMAIN flushing'.out = Active /\ \A s \in Active : flushing'.out[s] = table[s].classes
      /\ UNCHANGED <<observed, turnedAway, reported, uncounted>>
  BY DEF FlushTake, Idle, histories
<1>3. /\ DOMAIN table' = DOMAIN table \ Forgotten
      /\ \A s \in DOMAIN table \ Forgotten :
           table'[s] = IF s \in Active THEN spent(table[s]) ELSE table[s]
  BY DEF FlushTake
<1>4. /\ Active = {s \in DOMAIN table : table[s].pending} /\ Active \subseteq DOMAIN table
      /\ Forgotten \subseteq DOMAIN table \ Active
  BY DEF Active, Forgotten
<1>5. \A r \in Row : spent(r) \in Row /\ spent(r).classes = NoCount /\ ~spent(r).pending
  BY CountFacts DEF Row
<1> HIDE DEF spent
<1>6. \A s \in DOMAIN table' :
        table'[s] \in Row /\ table'[s].classes = NoCount /\ s \in DOMAIN table
  BY <1>1, <1>3, <1>4, <1>5
<1>7. IsFiniteSet(DOMAIN table') /\ Cardinality(DOMAIN table') <= MaxSources
  <2>1. DOMAIN table' \subseteq DOMAIN table
    BY <1>3
  <2>2. /\ IsFiniteSet(DOMAIN table') /\ Cardinality(DOMAIN table') <= Cardinality(DOMAIN table)
        /\ Cardinality(DOMAIN table') \in Nat /\ Cardinality(DOMAIN table) \in Nat
    BY <1>1, <2>1, FS_Subset, FS_CardinalityType
  <2>3. QED
    BY <1>1, <2>2, StrangersAssumption
<1>8. \A s \in DOMAIN flushing'.out : flushing'.out[s] \in Counts
  BY <1>1, <1>2, <1>4 DEF Row
<1>9. StrangersTypeOK'
  BY <1>1, <1>2, <1>3, <1>4, <1>6, <1>7, <1>8 DEF StrangersInv, StrangersTypeOK, Row
<1>10. ASSUME NEW s \in Sources, NEW c \in Classes
       PROVE  Balanced(s, c)'
  <2>1. InFlush(s, c) = 0 /\ InTable(s, c)' = 0
    BY <1>2, <1>6, CountFacts DEF InFlush, InTable
  <2>2. InFlush(s, c)' = InTable(s, c)
    <3>1. CASE s \in Active
      BY <3>1, <1>2, <1>4 DEF InFlush, InTable
    <3>2. CASE s \notin Active
      BY <3>2, <1>1, <1>2, <1>4, CountFacts DEF InFlush, InTable
    <3>3. QED
      BY <3>1, <3>2
  <2>3. QED
    BY <2>1, <2>2, <1>2, AccountFacts DEF Balanced
<1>11. StrangersCounted'
  <2>1. turnedAway' = uncounted' + overCap' + flushing'.over
    BY <1>1, <1>2
  <2>2. QED
    BY <1>10, <2>1 DEF StrangersCounted, Balanced
<1>12. QED
  BY <1>6, <1>7, <1>9, <1>11 DEF StrangersInv

(* What was copied out is emitted: the overflow, then source by source.    *)
LEMMA FlushEmitStep ==
  ASSUME StrangersInv, FlushOverflow \/ FlushRecord
  PROVE  StrangersInv'
<1>1. CASE FlushOverflow
  <2>1. /\ flushing.over \in Nat /\ overCap \in Nat /\ uncounted \in Nat
        /\ turnedAway = uncounted + overCap + flushing.over
    BY DEF StrangersInv, StrangersTypeOK, StrangersCounted
  <2>2. /\ uncounted' = uncounted + flushing.over
        /\ flushing' = [flushing EXCEPT !.over = 0]
        /\ UNCHANGED <<table, overCap, observed, turnedAway, reported>>
    BY <1>1 DEF FlushOverflow
  <2>3. flushing'.over = 0 /\ flushing'.out = flushing.out
    BY <2>2
  <2>4. turnedAway' = uncounted' + overCap' + flushing'.over /\ uncounted' \in Nat
    BY <2>1, <2>2, <2>3
  <2>5. StrangersTypeOK'
    BY <2>2, <2>3, <2>4 DEF StrangersInv, StrangersTypeOK
  <2>6. StrangersCounted'
    BY <2>2, <2>3, <2>4 DEF StrangersInv, StrangersCounted, InFlush, InTable
  <2>7. QED
    BY <2>2, <2>5, <2>6 DEF StrangersInv
<1>2. CASE FlushRecord
  <2>1. PICK s \in DOMAIN flushing.out :
          /\ reported' = [reported EXCEPT ![s] = Plus(@, flushing.out[s])]
          /\ flushing' = [flushing EXCEPT !.out = [r \in DOMAIN @ \ {s} |-> @[r]]]
    BY <1>2 DEF FlushRecord
  <2>2. UNCHANGED <<table, overCap, observed, turnedAway, uncounted>>
    BY <1>2 DEF FlushRecord
  <2>3. /\ DOMAIN flushing.out \subseteq Sources /\ reported \in [Sources -> Counts]
        /\ \A r \in DOMAIN flushing.out : flushing.out[r] \in Counts
    BY DEF StrangersInv, StrangersTypeOK
  <2>4. /\ reported' \in [Sources -> Counts]
        /\ reported'[s] = Plus(reported[s], flushing.out[s])
        /\ \A r \in Sources : r # s => reported'[r] = reported[r]
    <3>1. Plus(reported[s], flushing.out[s]) \in Counts
      BY <2>3, CountFacts
    <3>2. QED
      BY <2>1, <2>3, <3>1
  <2>5. /\ flushing'.over = flushing.over
        /\ DOMAIN flushing'.out = DOMAIN flushing.out \ {s}
        /\ \A r \in DOMAIN flushing.out \ {s} : flushing'.out[r] = flushing.out[r]
    BY <2>1
  <2>6. StrangersTypeOK'
    BY <2>2, <2>3, <2>4, <2>5 DEF StrangersInv, StrangersTypeOK
  <2>7. ASSUME NEW t \in Sources, NEW c \in Classes
        PROVE  Balanced(t, c)'
    <3>1. InTable(t, c)' = InTable(t, c) /\ observed'[t][c] = observed[t][c]
      BY <2>2 DEF InTable
    <3>2. CASE t = s
      <4>1. InFlush(t, c)' = 0 /\ InFlush(t, c) = flushing.out[s][c]
        BY <3>2, <2>5 DEF InFlush
      <4>2. reported'[t][c] = reported[t][c] + InFlush(t, c)
        BY <3>2, <4>1, <2>3, <2>4, CountFacts
      <4>3. QED
        BY <3>1, <4>1, <4>2, AccountFacts DEF Balanced
    <3>3. CASE t # s
      <4>1. InFlush(t, c)' = InFlush(t, c) /\ reported'[t] = reported[t]
        BY <3>3, <2>4, <2>5 DEF InFlush
      <4>2. QED
        BY <3>1, <4>1, AccountFacts DEF Balanced
    <3>4. QED
      BY <3>2, <3>3
  <2>8. StrangersCounted'
    BY <2>2, <2>5, <2>7 DEF StrangersInv, StrangersCounted, Balanced
  <2>9. QED
    BY <2>2, <2>6, <2>8 DEF StrangersInv
<1>3. QED
  BY <1>1, <1>2

(* Every step keeps the account.                                           *)
LEMMA StrangersStep ==
  ASSUME StrangersInv, [StrangersNext]_strangerVars
  PROVE  StrangersInv'
<1>1. CASE \E s \in Sources, c \in Classes : ObserveStranger(s, c)
  BY <1>1, ObserveStep
<1>2. ASSUME NEW s \in Sources, GoQuiet(s)
      PROVE  StrangersInv'
  <2>1. /\ s \in DOMAIN table /\ table' = [table EXCEPT ![s].quiet = TRUE]
        /\ UNCHANGED <<overCap, flushing, observed, turnedAway, reported, uncounted>>
    BY <1>2 DEF GoQuiet, histories
  <2>2. \A t \in DOMAIN table : table[t] \in Row
    BY DEF StrangersInv, StrangersTypeOK, Row
  <2>3. /\ DOMAIN table' = DOMAIN table
        /\ \A t \in DOMAIN table : /\ table'[t] \in Row /\ table'[t].classes = table[t].classes
                                   /\ table'[t].pending = table[t].pending
    BY <2>1, <2>2 DEF Row
  <2>4. StrangersTypeOK'
    BY <2>1, <2>3 DEF StrangersInv, StrangersTypeOK, Row
  <2>5. StrangersCounted'
    BY <2>1, <2>3 DEF StrangersInv, StrangersCounted, InFlush, InTable
  <2>6. QED
    BY <2>3, <2>4, <2>5 DEF StrangersInv
<1>3. CASE FlushTake
  BY <1>3, FlushTakeStep
<1>4. CASE FlushOverflow \/ FlushRecord
  BY <1>4, FlushEmitStep
<1>5. CASE UNCHANGED strangerVars
  BY <1>5 DEF strangerVars, histories, StrangersInv, StrangersTypeOK, StrangersCounted,
              InFlush, InTable
<1>6. QED
  BY <1>1, <1>2, <1>3, <1>4, <1>5 DEF StrangersNext

(* No stranger's datagram is lost from the account or reported twice: of   *)
(* every source and class, what came is what was reported, what the flush  *)
(* holds and what waits in the table (observeStranger, flushSources).      *)
THEOREM StrangersAreCounted == StrangersSpec => [](StrangersTypeOK /\ StrangersCounted)
<1>1. StrangersInit => StrangersInv
  <2> SUFFICES ASSUME StrangersInit PROVE StrangersInv
    OBVIOUS
  <2>1. /\ DOMAIN table = {} /\ DOMAIN flushing.out = {} /\ flushing.over = 0 /\ overCap = 0
        /\ observed = [s \in Sources |-> NoCount] /\ reported = [s \in Sources |-> NoCount]
        /\ turnedAway = 0 /\ uncounted = 0
    BY DEF StrangersInit, Idle
  <2>2. IsFiniteSet(DOMAIN table) /\ Cardinality(DOMAIN table) <= MaxSources
    BY <2>1, FS_EmptySet, StrangersAssumption
  <2>3. StrangersTypeOK
    BY <2>1, <2>2, CountFacts DEF StrangersTypeOK
  <2>4. StrangersCounted
    BY <2>1, CountFacts DEF StrangersCounted, InFlush, InTable
  <2>5. QED
    BY <2>1, <2>2, <2>3, <2>4 DEF StrangersInv
<1>2. StrangersInv /\ [StrangersNext]_strangerVars => StrangersInv'
  BY StrangersStep
<1>3. StrangersInv => StrangersTypeOK /\ StrangersCounted
  BY DEF StrangersInv
<1>4. QED
  BY <1>1, <1>2, <1>3, PTL DEF StrangersSpec
=============================================================================
