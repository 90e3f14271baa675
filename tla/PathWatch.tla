----------------------------- MODULE PathWatch ------------------------------
(***************************************************************************)
(* The loss figure of the observer (dpilog.go): receive goroutines count   *)
(* the peer's packets and track its highest sequence number with atomics   *)
(* (observePeerPacket), a timer goroutine compares two readings of them    *)
(* (pathWatch).  The peer numbers its packets without gaps; after a restart*)
(* it resumes far ahead, which the receivers take for a rebase: four       *)
(* stores, one after the other.                                            *)
(***************************************************************************)
EXTENDS Integers, FiniteSets

CONSTANTS Receivers,
          RebaseGap,     \* a jump beyond this is a restart (2^20)
          LossFloor,     \* an interval is judged if it spans more numbers than this (200)
          MaxSent,       \* bound: packets the peer sends
          MaxRestarts,   \* bound: restarts of the peer
          MaxTicks       \* bound: turns of the timer

ASSUME PathAssumption ==
  IsFiniteSet(Receivers) /\ RebaseGap \in Nat /\ LossFloor \in Nat

VARIABLES seqMax, seqFirst, seqCount, seqEpoch, seqReorder,    \* the atomics
          net, sent, restarts,     \* packets under way; the peer's last number
          rx,        \* receiver |-> its packet, the maximum it loaded, its place
          watch,     \* the timer goroutine's locals and place
          ticks,
          counted,   \* every number the receivers have counted
          passed,    \* those of them that a rebase once took the maximum back below
          burst      \* the loss burst the last turn raised, if any

pathVars == <<seqMax, seqFirst, seqCount, seqEpoch, seqReorder, net, sent, restarts, rx, watch,
              ticks, counted, passed, burst>>

NoPacket == [at |-> "idle", seq |-> 0, cur |-> 0]
NoBurst == [missing |-> 0, absent |-> 0, inHand |-> 0, passed |-> 0, disturbed |-> FALSE]
\* For the property: what was counted when the count was read, how many packets were then
\* in receivers' hands, and whether the interval saw a rebase.
Asleep == [at |-> "sleep", cnt |-> 0, mx |-> 0, lastCount |-> 0, lastMax |-> 0,
           lastEpoch |-> 0, atCount |-> {}, inHand |-> 0, lastAtCount |-> {}, lastInHand |-> 0,
           disturbed |-> FALSE]

PathInit ==
  /\ seqMax = 0 /\ seqFirst = 0 /\ seqCount = 0 /\ seqEpoch = 0 /\ seqReorder = 0
  /\ net = {} /\ sent = 0 /\ restarts = 0
  /\ rx = [r \in Receivers |-> NoPacket]
  /\ watch = Asleep /\ ticks = 0 /\ counted = {} /\ passed = {} /\ burst = NoBurst

RxAt(r, place) == rx[r].at = place
Rebasing == \E r \in Receivers : rx[r].at \in {"rebaseFirst", "rebaseCount", "rebaseEpoch"}
Placing == Cardinality({r \in Receivers : rx[r].at # "idle"})
atomics == <<seqMax, seqFirst, seqCount, seqEpoch, seqReorder>>
peer == <<net, sent, restarts>>

-----------------------------------------------------------------------------

\* The peer numbers on, or restarts and resumes from its clock.  What the path loses
\* stays in `net` and is never taken out.
Watching == ticks < MaxTicks \/ watch.at # "sleep"
PeerSend ==
  /\ Watching /\ sent - restarts * RebaseGap < MaxSent
  /\ sent' = sent + 1 /\ net' = net \union {sent'}
  /\ UNCHANGED <<atomics, restarts, rx, watch, ticks, counted, passed, burst>>
PeerRestart ==
  /\ Watching /\ restarts < MaxRestarts /\ sent > 0
  /\ restarts' = restarts + 1 /\ sent' = sent + RebaseGap
  /\ UNCHANGED <<atomics, net, rx, watch, ticks, counted, passed, burst>>

\* observePeerPacket: the packet is counted first, then placed.
CountPacket(r, s) ==
  /\ RxAt(r, "idle") /\ s \in net /\ Watching
  /\ net' = net \ {s}
  /\ seqCount' = seqCount + 1 /\ counted' = counted \union {s}
  /\ rx' = [rx EXCEPT ![r] = [at |-> "load", seq |-> s, cur |-> 0]]
  /\ UNCHANGED <<seqMax, seqFirst, seqEpoch, seqReorder, sent, restarts, watch, ticks,
                 passed, burst>>

\* Mutant: a packet that comes late is not counted after all.
MutantLoadSeqMax(r) ==
  /\ RxAt(r, "load")
  /\ LET s == rx[r].seq IN
     \/ /\ s <= seqMax
        /\ seqReorder' = seqReorder + 1 /\ seqCount' = seqCount - 1
        /\ rx' = [rx EXCEPT ![r] = NoPacket]
     \/ /\ s > seqMax
        /\ rx' = [rx EXCEPT ![r].cur = seqMax,
                            ![r].at = IF seqMax # 0 /\ s > seqMax + RebaseGap
                                      THEN "rebaseMax" ELSE "cas"]
        /\ UNCHANGED <<seqReorder, seqCount>>
  /\ UNCHANGED <<seqMax, seqFirst, seqEpoch, peer, watch, ticks, counted, passed, burst>>

LoadSeqMax(r) ==
  /\ RxAt(r, "load")
  /\ LET s == rx[r].seq IN
     \/ /\ s <= seqMax
        /\ seqReorder' = seqReorder + 1
        /\ rx' = [rx EXCEPT ![r] = NoPacket]
     \/ /\ s > seqMax
        /\ rx' = [rx EXCEPT ![r].cur = seqMax,
                            ![r].at = IF seqMax # 0 /\ s > seqMax + RebaseGap
                                      THEN "rebaseMax" ELSE "cas"]
        /\ UNCHANGED seqReorder
  /\ UNCHANGED <<seqMax, seqFirst, seqCount, seqEpoch, peer, watch, ticks, counted, passed, burst>>

CasSeqMax(r) ==
  /\ \/ /\ RxAt(r, "cas") /\ seqMax = rx[r].cur
        /\ seqMax' = rx[r].seq
        /\ rx' = [rx EXCEPT ![r] = IF seqMax = 0 THEN [@ EXCEPT !.at = "first"] ELSE NoPacket]
        /\ UNCHANGED seqFirst
     \/ /\ RxAt(r, "cas") /\ seqMax # rx[r].cur
        /\ rx' = [rx EXCEPT ![r].at = "load"]
        /\ UNCHANGED <<seqMax, seqFirst>>
     \/ /\ RxAt(r, "first")
        /\ seqFirst' = rx[r].seq
        /\ rx' = [rx EXCEPT ![r] = NoPacket]
        /\ UNCHANGED seqMax
  /\ UNCHANGED <<seqCount, seqEpoch, seqReorder, peer, watch, ticks, counted, passed, burst>>

\* The rebase, which stores over whatever another receiver has placed since; the
\* interval being watched is no longer one numbering's.
RebaseStep(r, place, next) ==
  RxAt(r, place) /\ rx' = [rx EXCEPT ![r] = IF next = "idle" THEN NoPacket
                                            ELSE [@ EXCEPT !.at = next]]
Rebase(r) ==
  /\ \/ /\ RebaseStep(r, "rebaseMax", "rebaseFirst") /\ seqMax' = rx[r].seq
        /\ UNCHANGED <<seqFirst, seqCount, seqEpoch>>
     \/ /\ RebaseStep(r, "rebaseFirst", "rebaseCount") /\ seqFirst' = rx[r].seq
        /\ UNCHANGED <<seqMax, seqCount, seqEpoch>>
     \/ /\ RebaseStep(r, "rebaseCount", "rebaseEpoch") /\ seqCount' = 1
        /\ UNCHANGED <<seqMax, seqFirst, seqEpoch>>
     \/ /\ RebaseStep(r, "rebaseEpoch", "idle") /\ seqEpoch' = seqEpoch + 1
        /\ UNCHANGED <<seqMax, seqFirst, seqCount>>
  /\ watch' = [watch EXCEPT !.disturbed = TRUE]
  /\ passed' = passed \union {s \in counted : seqMax' < s /\ s <= seqMax}
  /\ UNCHANGED <<seqReorder, peer, ticks, counted, burst>>

\* One turn of pathWatch: it loads the count, then the maximum, then the epoch, and
\* compares them with the last turn's.
TickLoadCount ==
  /\ watch.at = "sleep" /\ ticks < MaxTicks
  /\ ticks' = ticks + 1
  /\ watch' = [watch EXCEPT !.at = "count", !.cnt = seqCount,
                            !.atCount = counted, !.inHand = Placing]
  /\ UNCHANGED <<atomics, peer, rx, counted, passed, burst>>
TickLoadMax ==
  /\ watch.at = "count"
  /\ watch' = [watch EXCEPT !.at = "max", !.mx = seqMax]
  /\ UNCHANGED <<atomics, peer, rx, ticks, counted, passed, burst>>

\* An interval of one numbering that spans enough numbers and counted too few of them
\* raises a burst.  The difference of the counts is a uint64: one that would be
\* negative is huge, and not less than what was expected.
Expected == watch.mx - watch.lastMax
Got == watch.cnt - watch.lastCount
Missing == Expected - Got
Interval == watch.lastMax + 1 .. watch.mx
TickJudge ==
  /\ watch.at = "max"
  /\ burst' =
       IF /\ seqEpoch = watch.lastEpoch /\ watch.lastCount > 0
          /\ Expected > LossFloor
          /\ Got >= 0 /\ Got < Expected /\ 20 * Missing >= Expected
       THEN [missing |-> Missing, disturbed |-> watch.disturbed, inHand |-> watch.lastInHand,
             absent |-> Cardinality(Interval \ watch.atCount),
             passed |-> Cardinality(Interval \intersect passed)]
       ELSE NoBurst
  /\ watch' = [watch EXCEPT !.at = "sleep", !.lastCount = watch.cnt, !.lastMax = watch.mx,
                            !.lastEpoch = seqEpoch, !.lastAtCount = watch.atCount,
                            !.atCount = {}, !.cnt = 0, !.mx = 0,
                            !.lastInHand = watch.inHand, !.inHand = 0,
                            !.disturbed = seqEpoch # watch.lastEpoch \/ Rebasing]
  /\ UNCHANGED <<atomics, peer, rx, ticks, counted, passed>>

PathNext ==
  \/ PeerSend \/ PeerRestart
  \/ \E r \in Receivers :
       \/ \E s \in net : CountPacket(r, s)
       \/ LoadSeqMax(r) \/ CasSeqMax(r) \/ Rebase(r)
  \/ TickLoadCount \/ TickLoadMax \/ TickJudge

-----------------------------------------------------------------------------

\* Type correctness.
Numbers == 0..(MaxRestarts * RebaseGap + MaxSent)
PathTypeOK ==
  /\ seqMax \in Numbers /\ seqFirst \in Numbers /\ sent \in Numbers /\ net \subseteq Numbers
  /\ seqCount \in 0..MaxSent /\ seqReorder \in 0..Cardinality(counted)
  /\ seqEpoch \in 0..(MaxRestarts * Cardinality(Receivers))
  /\ \A r \in Receivers : rx[r].seq \in Numbers /\ rx[r].cur \in Numbers

\* A loss burst speaks of packets that were not there: unless the peer restarted in
\* the interval, what it reports missing is no more than the numbers of the interval
\* that had not been counted when the count was read, those that a receiver had
\* counted, and not yet placed, when the last count was read, and those below which one
\* of two receivers that rebased at once had taken the maximum back (README, "Seen while
\* modelling").  Reordering and the gap between the two loads never add up to more.
LossNotInvented ==
  ~burst.disturbed => burst.missing <= burst.absent + burst.inHand + burst.passed
=============================================================================
