------------------------------ MODULE PortHop ------------------------------
(***************************************************************************)
(* The port-hopping carrier (hop.go), from one end to the other: goroutines*)
(* that send from the port the clock says, through a cached slot; a socket *)
(* bound to every port of the set; one reader per socket, which splits     *)
(* what the kernel coalesced and hands it to the one channel that Recv     *)
(* takes from.  Epochs are counted modulo 2^32 in the cache, which the     *)
(* model's few epochs never reach.  A datagram is its number.              *)
(***************************************************************************)
EXTENDS Integers, Sequences, SequencesExt, FiniteSets

CONSTANTS Hoppers,      \* goroutines that send: TUN pump, keepalives, probe
          Configured,   \* the port list as configured, 0 and repeats included
          FirstEpoch,   \* the epoch the machine boots in; 0 if its clock was never set
          RxRoom,       \* capacity of the channel (1024)
          MaxSends,     \* bound: datagrams
          MaxEpochs,    \* bound: epochs after the first
          MaxSteps      \* bound: times the clock moves to another epoch

ASSUME HopAssumption == FirstEpoch \in Nat /\ MaxEpochs \in Nat

VARIABLES schedule,   \* epoch |-> slot: hopIndex under the shared key
          epoch,      \* the sender's clock
          slotCache, haveSlot,
          send,       \* goroutine |-> the epoch it read, its slot, its place
          sends, steps,
          peerKnown,
          sock,       \* port |-> datagrams in the receiver's socket
          rd,         \* port |-> what its reader still has to hand over
          hopRx,      \* h.rx
          taken,      \* what Recv returned, in order
          spilled,    \* dropped because the channel was full
          onWire      \* port |-> what was sent to it, in order, with the epoch read

hopVars == <<schedule, epoch, slotCache, haveSlot, send, sends, steps, peerKnown,
             sock, rd, hopRx, taken, spilled, onWire>>

\* normalizeHopPorts: no zero, no repeat, the order kept, and never none.
Normalised(list) ==
  LET kept == FoldSeq(LAMBDA p, acc : IF p = 0 \/ Contains(acc, p) THEN acc ELSE Append(acc, p),
                      <<>>, list)
  IN IF kept = <<>> THEN <<51820>> ELSE kept
HopPorts == Normalised(Configured)
Slots == DOMAIN HopPorts
Bound == {HopPorts[i] : i \in Slots}   \* newHopCarrier binds all of them, or fails
Epochs == FirstEpoch..FirstEpoch + MaxEpochs
NotSending == [at |-> "idle", epoch |-> 0, slot |-> 0]

HopInit ==
  /\ schedule \in [Epochs -> Slots]
  /\ epoch = FirstEpoch
  /\ slotCache = [epoch |-> 0, slot |-> 1] /\ haveSlot = FALSE   \* the zero word: slot 0 is the first
  /\ send = [g \in Hoppers |-> NotSending]
  /\ sends = 0 /\ steps = 0 /\ peerKnown = FALSE
  /\ sock = [p \in Bound |-> <<>>] /\ rd = [p \in Bound |-> <<>>]
  /\ hopRx = <<>> /\ taken = <<>> /\ spilled = {}
  /\ onWire = [p \in Bound |-> <<>>]

SendSide == <<slotCache, haveSlot, send, sends, onWire>>
ReceiveSide == <<sock, rd, hopRx, taken, spilled>>

-----------------------------------------------------------------------------

\* The wall clock: an interval passes, or the clock is set, also back.
MoveClock ==
  /\ steps < MaxSteps /\ steps' = steps + 1
  /\ epoch' \in Epochs \ {epoch}
  /\ UNCHANGED <<schedule, SendSide, ReceiveSide, peerKnown>>

LearnPeer ==
  /\ ~peerKnown /\ peerKnown' = TRUE
  /\ UNCHANGED <<schedule, epoch, steps, SendSide, ReceiveSide>>

\* Send: with no peer the datagram is dropped in silence.  currentSlot reads the
\* clock, the flag and the cached word; a miss derives the slot, stores the word and
\* then the flag.
ReadClock(g) ==
  /\ send[g].at = "idle" /\ peerKnown
  /\ send' = [send EXCEPT ![g] = [at |-> IF haveSlot THEN "cached" ELSE "derive",
                                  epoch |-> epoch, slot |-> 0]]
  /\ UNCHANGED <<slotCache, haveSlot>>
ReadCache(g) ==
  /\ send[g].at = "cached"
  /\ send' = [send EXCEPT ![g] = IF slotCache.epoch = @.epoch
                                 THEN [@ EXCEPT !.slot = slotCache.slot, !.at = "write"]
                                 ELSE [@ EXCEPT !.at = "derive"]]
  /\ UNCHANGED <<slotCache, haveSlot>>

\* Mutant: the word is stamped with the clock as it stands when it is stored.
MutantStoreSlot(g) ==
  /\ send[g].at = "derive"
  /\ LET idx == schedule[send[g].epoch] IN
     /\ slotCache' = [epoch |-> epoch, slot |-> idx]
     /\ send' = [send EXCEPT ![g].slot = idx, ![g].at = "flag"]
  /\ UNCHANGED haveSlot
\* The word carries the epoch the slot was derived for, whatever the clock says by now.
StoreSlot(g) ==
  /\ send[g].at = "derive"
  /\ LET idx == schedule[send[g].epoch] IN
     /\ slotCache' = [epoch |-> send[g].epoch, slot |-> idx]
     /\ send' = [send EXCEPT ![g].slot = idx, ![g].at = "flag"]
  /\ UNCHANGED haveSlot
StoreFlag(g) ==
  /\ send[g].at = "flag"
  /\ haveSlot' = TRUE
  /\ send' = [send EXCEPT ![g].at = "write"]
  /\ UNCHANGED slotCache

\* The write: from the slot's own socket to the same port of the peer, which has it
\* bound whatever its own clock says.  (What the network loses is as if never sent.)
Write(g) ==
  /\ send[g].at = "write" /\ sends < MaxSends
  /\ sends' = sends + 1
  /\ LET p == HopPorts[send[g].slot] IN
     /\ onWire' = [onWire EXCEPT ![p] = Append(@, [n |-> sends', epoch |-> send[g].epoch])]
     /\ sock' = [sock EXCEPT ![p] = Append(@, sends')]
  /\ send' = [send EXCEPT ![g] = NotSending]
  /\ UNCHANGED <<schedule, epoch, slotCache, haveSlot, steps, peerKnown,
                 rd, hopRx, taken, spilled>>

SendStep(g) ==
  \/ /\ ReadClock(g) \/ ReadCache(g) \/ StoreSlot(g) \/ StoreFlag(g)
     /\ UNCHANGED <<schedule, epoch, sends, steps, peerKnown, onWire, ReceiveSide>>
  \/ Write(g)

\* recvLoop: one read returns a run the kernel coalesced.
ReadSocket(p) ==
  /\ rd[p] = <<>> /\ sock[p] # <<>>
  /\ \E n \in 1..Len(sock[p]) :
       /\ rd' = [rd EXCEPT ![p] = SubSeq(sock[p], 1, n)]
       /\ sock' = [sock EXCEPT ![p] = SubSeq(@, n + 1, Len(@))]
  /\ UNCHANGED <<hopRx, taken, spilled>>

\* Mutant: a datagram that finds no room ends the run it came in.
MutantHandOver(p) ==
  /\ rd[p] # <<>>
  /\ IF Len(hopRx) < RxRoom
     THEN rd' = [rd EXCEPT ![p] = Tail(@)] /\ hopRx' = Append(hopRx, Head(rd[p]))
          /\ UNCHANGED spilled
     ELSE rd' = [rd EXCEPT ![p] = <<>>] /\ spilled' = spilled \union {Head(rd[p])}
          /\ UNCHANGED hopRx
  /\ UNCHANGED <<sock, taken>>
\* Each datagram of the run is offered to the channel, and dropped if there is no room.
HandOver(p) ==
  /\ rd[p] # <<>>
  /\ rd' = [rd EXCEPT ![p] = Tail(@)]
  /\ IF Len(hopRx) < RxRoom
     THEN hopRx' = Append(hopRx, Head(rd[p])) /\ UNCHANGED spilled
     ELSE spilled' = spilled \union {Head(rd[p])} /\ UNCHANGED hopRx
  /\ UNCHANGED <<sock, taken>>
Recv ==
  /\ hopRx # <<>>
  /\ taken' = Append(taken, Head(hopRx)) /\ hopRx' = Tail(hopRx)
  /\ UNCHANGED <<sock, rd, spilled>>

HopNext ==
  \/ MoveClock \/ LearnPeer
  \/ \E g \in Hoppers : SendStep(g)
  \/ /\ \E p \in Bound : ReadSocket(p) \/ HandOver(p)
     /\ UNCHANGED <<schedule, epoch, SendSide, steps, peerKnown>>
  \/ Recv /\ UNCHANGED <<schedule, epoch, SendSide, steps, peerKnown>>

-----------------------------------------------------------------------------

\* Type correctness.
HopTypeOK ==
  /\ slotCache.epoch \in Epochs \union {0} /\ slotCache.slot \in Slots
  /\ \A g \in Hoppers : send[g].slot \in Slots \union {0} /\ send[g].epoch \in Epochs \union {0}
  /\ Len(hopRx) <= RxRoom /\ sends \in 0..MaxSends /\ taken \in Seq(1..MaxSends)

\* Every datagram leaves on the port the schedule names for the clock its sender read,
\* however many goroutines miss and refill the cache at once, also across a clock set
\* back and with a clock that still stands at 0, where the empty word would look valid.
OnSchedule ==
  \A p \in Bound : \A i \in DOMAIN onWire[p] : HopPorts[schedule[onWire[p][i].epoch]] = p

\* A port's datagrams reach Recv in the order they were sent, each at most once, and
\* one that arrived is on its way to Recv or found the channel full: a slow consumer
\* costs datagrams, never the rest of their run, their order or another port's.
Mine(p) == {onWire[p][i].n : i \in DOMAIN onWire[p]}
Handed == taken \o hopRx
Waiting(p) == rd[p] \o sock[p]
InOrder(s, set) ==
  \A i, j \in DOMAIN s : i < j /\ s[i] \in set /\ s[j] \in set => s[i] < s[j]
PortsKept ==
  \A p \in Bound :
    /\ InOrder(Handed, Mine(p)) /\ InOrder(Waiting(p), Mine(p))
    /\ \A n \in ToSet(Handed) \intersect Mine(p), m \in ToSet(Waiting(p)) : n < m
    /\ Mine(p) = ToSet(Waiting(p)) \union ((ToSet(Handed) \union spilled) \intersect Mine(p))
    /\ spilled \intersect (ToSet(Handed) \union ToSet(Waiting(p))) = {}
=============================================================================
