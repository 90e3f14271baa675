--------------------------- MODULE SecureChannel ----------------------------
(***************************************************************************)
(* Sealing and opening (tunnel.go sealInto, openSeq, authentic), in one    *)
(* direction: several goroutines seal at one end, several open at the      *)
(* other, the two clocks disagree, either process may restart, and the     *)
(* network reorders, duplicates and loses.                                 *)
(*                                                                         *)
(* Nothing is negotiated.  Which key a packet is sealed under follows from *)
(* the sender's clock, which keys the receiver tries from its own clock    *)
(* and from three atomics that the openers leave each other; where the     *)
(* sequence starts after a restart follows from the clock again.           *)
(*                                                                         *)
(* A key is its epoch, and opening succeeds under that key only.  Padding, *)
(* nonces (NonceSpace) and the bitmap (ReplayWindow, which this module     *)
(* takes by its promise) are left out, and so are packets nobody sealed:   *)
(* they open under no key and leave only a count behind.                   *)
(***************************************************************************)
EXTENDS Integers, Sequences, FiniteSets

CONSTANTS
  Sealers,      \* the goroutines that seal
  Openers,      \* the goroutines that open
  Intervals,    \* rekey_interval, in ticks of the clock; 0 is a static key
  MaxSkew,      \* most the two clocks are apart, in ticks
  Transit,      \* most ticks from the reading of the key to the opening
  Rate,         \* microseconds in a tick: fewer packets are sealed in one
  Width,        \* the replay window's size (4096)
  MaxTime,      \* bound: ticks
  MaxSeals,     \* bound: packets sealed
  MaxRestarts   \* bound: restarts, of either end

ASSUME ChannelAssumption ==
  /\ Intervals \subseteq Nat
  /\ MaxSkew \in Nat /\ Transit \in Nat
  /\ Rate \in Nat \ {0} /\ Width \in Nat \ {0}
  /\ MaxTime \in Nat /\ MaxSeals \in Nat /\ MaxRestarts \in Nat

VARIABLES
  rekey,     \* Tunnel.rekey: fixed at start-up, the same at both ends
  now,       \* true time
  ahead,     \* ahead[e]: how far e's clock runs ahead of it
  sendSeq,   \* the sender's Tunnel.sendSeq
  boot,      \* which process of the sender this is
  stopped,   \* when the sender stopped, or Running
  spc,       \* where each sealer is
  epoch,     \* the epoch whose key it has taken
  born,      \* when it took it
  sealed,    \* datagrams sealed so far; they are numbered in that order
  net,       \* packets on their way; opening one does not remove it
  newest,    \* the replay window: the newest number checked, 0 if none yet
  seen,      \* and the numbers checked
  lastEpoch, haveLast, recvCache,  \* the receiver's Tunnel fields of these names
  opc,       \* where each opener is
  pkt,       \* the packet it has in hand
  cur,       \* what epochNow told it
  cands,     \* the epochs it has yet to try, in order
  asks,      \* whether it is in authentic
  got,       \* history: how often each datagram was delivered in this life of the receiver
  lost,      \* history: the senders' processes of which a packet was refused whose
             \* datagram had not been delivered
  restarts   \* restarts so far

Datagrams == 1 .. MaxSeals

Running == -1
NoCache == [epoch |-> -1, key |-> -1]
Undelivered == [d \in Datagrams |-> 0]
NoPkt   == [id |-> 0, epoch |-> 0, seq |-> 0, boot |-> 0, at |-> 0]

sealVars   == <<sendSeq, boot, stopped, spc, epoch, born, sealed>>
windowVars == <<newest, seen>>
epochVars  == <<lastEpoch, haveLast, recvCache>>
openVars   == <<opc, pkt, cur, cands, asks>>
vars == <<rekey, now, ahead, sealVars, net, windowVars, epochVars, openVars, got, lost,
          restarts>>

Clock(end) == now + ahead[end]

\* epochNow, at one end.
EpochNow(end) == IF rekey = 0 THEN 0 ELSE Clock(end) \div rekey

Init ==
  /\ rekey \in Intervals
  /\ now = 0
  /\ ahead \in [{"sender", "receiver"} -> 0 .. MaxSkew]
  /\ sendSeq = 0 /\ boot = 1 /\ stopped = Running
  /\ spc = [s \in Sealers |-> "idle"]
  /\ epoch = [s \in Sealers |-> 0]
  /\ born = [s \in Sealers |-> 0]
  /\ sealed = 0 /\ net = {}
  /\ newest = 0 /\ seen = {}
  /\ lastEpoch = 0 /\ haveLast = FALSE /\ recvCache = NoCache
  /\ opc = [o \in Openers |-> "idle"]
  /\ pkt = [o \in Openers |-> NoPkt]
  /\ cur = [o \in Openers |-> 0]
  /\ cands = [o \in Openers |-> <<>>]
  /\ asks = [o \in Openers |-> FALSE]
  /\ got = Undelivered /\ lost = {} /\ restarts = 0

-----------------------------------------------------------------------------
(* sealInto                                                                *)

\* The epoch comes first, and with it the key.
TakeKey(s) ==
  /\ spc[s] = "idle" /\ stopped = Running
  /\ sealed + Cardinality({r \in Sealers : spc[r] = "number"}) < MaxSeals
  /\ epoch' = [epoch EXCEPT ![s] = EpochNow("sender")]
  /\ born' = [born EXCEPT ![s] = now]
  /\ spc' = [spc EXCEPT ![s] = "number"]
  /\ UNCHANGED <<rekey, now, ahead, sendSeq, boot, stopped, sealed, net, windowVars, epochVars,
                 openVars, got, lost, restarts>>

\* Fewer packets than microseconds.
InRate == sendSeq + 1 < (Clock("sender") + 1) * Rate

Packet(s, n) ==
  [id |-> sealed + 1, epoch |-> epoch[s], seq |-> n, boot |-> boot,
   at |-> born[s]]

\* The number is drawn, the packet is sealed and sent.
Number(s) ==
  /\ spc[s] = "number" /\ InRate /\ sealed < MaxSeals
  /\ sealed' = sealed + 1
  /\ sendSeq' = sendSeq + 1
  /\ net' = net \cup {Packet(s, sendSeq')}
  /\ spc' = [spc EXCEPT ![s] = "idle"]
  /\ epoch' = [epoch EXCEPT ![s] = 0]
  /\ born' = [born EXCEPT ![s] = 0]
  /\ UNCHANGED <<rekey, now, ahead, boot, stopped, windowVars,
                 epochVars, openVars, got, lost, restarts>>

\* The sending process ends, whatever its goroutines were doing,
Stop ==
  /\ stopped = Running /\ restarts < MaxRestarts
  /\ restarts' = restarts + 1
  /\ stopped' = now
  /\ spc' = [s \in Sealers |-> "idle"]
  /\ epoch' = [s \in Sealers |-> 0]
  /\ born' = [s \in Sealers |-> 0]
  /\ UNCHANGED <<rekey, now, ahead, sendSeq, boot, sealed, net, windowVars,
                 epochVars, openVars, got, lost>>

\* and a later one starts its sequence from the clock (newTunnel).
Start ==
  /\ stopped # Running /\ now > stopped
  /\ stopped' = Running
  /\ boot' = boot + 1
  /\ sendSeq' = Clock("sender") * Rate
  /\ UNCHANGED <<rekey, now, ahead, spc, epoch, born, sealed, net, windowVars, epochVars,
                 openVars, got, lost, restarts>>

-----------------------------------------------------------------------------
(* openSeq and authentic                                                   *)

\* recvEpochs looks at the clock.
Begin(o, p, ask) ==
  /\ opc' = [opc EXCEPT ![o] = IF rekey = 0 THEN "try" ELSE "have"]
  /\ pkt' = [pkt EXCEPT ![o] = p]
  /\ cur' = [cur EXCEPT ![o] = EpochNow("receiver")]
  /\ cands' = [cands EXCEPT ![o] = IF rekey = 0 THEN <<0>> ELSE <<>>]
  /\ asks' = [asks EXCEPT ![o] = ask]

Finish(o) ==
  /\ opc' = [opc EXCEPT ![o] = "idle"]
  /\ pkt' = [pkt EXCEPT ![o] = NoPkt]
  /\ cur' = [cur EXCEPT ![o] = 0]
  /\ cands' = [cands EXCEPT ![o] = <<>>]
  /\ asks' = [asks EXCEPT ![o] = FALSE]

\* A packet arrives, or is the first on a new WebSocket connection.
Take(o, p, ask) ==
  /\ opc[o] = "idle" /\ p \in net
  /\ Begin(o, p, ask)
  /\ UNCHANGED <<rekey, now, ahead, sealVars, net, windowVars, epochVars, got, lost,
                 restarts>>

Missing(c, e) == \A i \in DOMAIN c : c[i] # e

\* The previous interval is left out.
MutantAround(c, first) ==
  LET add(es, e) == IF Missing(es, e) THEN Append(es, e) ELSE es
  IN  add(add(first, c), c + 1)

\* One interval more, for which the buffer of four has no room.
MutantAroundWide(c, first) ==
  LET add(es, e) == IF Missing(es, e) THEN Append(es, e) ELSE es
      withPrev   == IF c = 0 THEN add(first, c) ELSE add(add(first, c), c - 1)
  IN  add(add(withPrev, c + 1), c + 2)

\* The candidates: those it starts with, the current epoch, the one before
\* it, the one after, each once.
Around(c, first) ==
  LET add(es, e) == IF Missing(es, e) THEN Append(es, e) ELSE es
      withCur    == add(first, c)
      withPrev   == IF c = 0 THEN withCur ELSE add(withCur, c - 1)
  IN  add(withPrev, c + 1)

Candidates(o, first) ==
  /\ opc' = [opc EXCEPT ![o] = "try"]
  /\ cands' = [cands EXCEPT ![o] = Around(cur[o], first)]
  /\ cur' = [cur EXCEPT ![o] = 0]

\* haveLast is read first,
LoadHave(o) ==
  /\ opc[o] = "have"
  /\ IF haveLast
     THEN opc' = [opc EXCEPT ![o] = "last"] /\ UNCHANGED <<cur, cands>>
     ELSE Candidates(o, <<>>)
  /\ UNCHANGED <<rekey, now, ahead, sealVars, net, windowVars, epochVars, pkt, asks,
                 got, lost, restarts>>

\* then lastEpoch.
LoadLast(o) ==
  /\ opc[o] = "last"
  /\ Candidates(o, <<lastEpoch>>)
  /\ UNCHANGED <<rekey, now, ahead, sealVars, net, windowVars, epochVars, pkt, asks,
                 got, lost, restarts>>

\* recvAEAD: the cached key if it is this epoch's, else derived.
RecvKey(e) == IF recvCache.epoch = e THEN recvCache.key ELSE e

Lose(o) == lost' = IF got[pkt[o].id] > 0 THEN lost ELSE lost \cup {pkt[o].boot}

\* The window's price: what a window's worth of numbers has been drawn after may be
\* refused.
Overtaken(p) == sendSeq - p.seq >= Width
Refuse(o) == IF Overtaken(pkt[o]) THEN lost' = lost ELSE Lose(o)

\* The first epoch whose key fits is the one; when none is left, authFail.
Try(o) ==
  /\ opc[o] = "try"
  /\ IF cands[o] = <<>> THEN Lose(o) /\ Finish(o)
     ELSE /\ IF RecvKey(Head(cands[o])) = pkt[o].epoch
             THEN /\ opc' = [opc EXCEPT ![o] = "check"]
                  /\ cands' = [cands EXCEPT ![o] = <<Head(@)>>]
             ELSE cands' = [cands EXCEPT ![o] = Tail(@)] /\ UNCHANGED opc
          /\ UNCHANGED <<pkt, cur, asks, lost>>
  /\ UNCHANGED <<rekey, now, ahead, sealVars, net, windowVars, epochVars, got, restarts>>

\* What the replay window answers (AntiReplay).
Fresh(n) == n > newest \/ (newest - n < Width /\ n \notin seen)

\* authentic: fresh or not, nothing is recorded; a fresh packet is handed to
\* the receive loop,
Vouch(o) ==
  /\ opc[o] = "check" /\ asks[o]
  /\ IF Fresh(pkt[o].seq)
     THEN /\ opc' = [opc EXCEPT ![o] = "handed"]
          /\ UNCHANGED <<pkt, cur, cands, asks, lost>>
     ELSE Refuse(o) /\ Finish(o)
  /\ UNCHANGED <<rekey, now, ahead, sealVars, net, windowVars, epochVars, got, restarts>>

\* which opens it again from the start (takeFirst).
Reopen(o) ==
  /\ opc[o] = "handed"
  /\ Begin(o, pkt[o], FALSE)
  /\ UNCHANGED <<rekey, now, ahead, sealVars, net, windowVars, epochVars, got, lost,
                 restarts>>

\* The answer is fresh's, and the number is not recorded.
MutantCheck(o) ==
  /\ opc[o] = "check" /\ ~asks[o]
  /\ IF Fresh(pkt[o].seq)
     THEN /\ got' = [got EXCEPT ![pkt[o].id] = @ + 1]
          /\ newest' = pkt[o].seq
          /\ opc' = [opc EXCEPT ![o] = "remember"]
          /\ UNCHANGED <<seen, pkt, cur, cands, asks, lost>>
     ELSE Refuse(o) /\ Finish(o) /\ UNCHANGED <<windowVars, got>>
  /\ UNCHANGED <<rekey, now, ahead, sealVars, net, epochVars, restarts>>

\* openSeq: replay.check.
Check(o) ==
  /\ opc[o] = "check" /\ ~asks[o]
  /\ IF Fresh(pkt[o].seq)
     THEN /\ got' = [got EXCEPT ![pkt[o].id] = @ + 1]
          /\ newest' = IF pkt[o].seq > newest THEN pkt[o].seq ELSE newest
          /\ seen' = seen \cup {pkt[o].seq}
          /\ opc' = [opc EXCEPT ![o] = "remember"]
          /\ UNCHANGED <<pkt, cur, cands, asks, lost>>
     ELSE Refuse(o) /\ Finish(o) /\ UNCHANGED <<windowVars, got>>
  /\ UNCHANGED <<rekey, now, ahead, sealVars, net, epochVars, restarts>>

\* rememberEpoch, an atomic at a time.
RememberLast(o) ==
  /\ opc[o] = "remember"
  /\ lastEpoch' = Head(cands[o])
  /\ opc' = [opc EXCEPT ![o] = "flag"]
  /\ UNCHANGED <<rekey, now, ahead, sealVars, net, windowVars, haveLast, recvCache, pkt,
                 cur, cands, asks, got, lost, restarts>>

RememberHave(o) ==
  /\ opc[o] = "flag"
  /\ haveLast' = TRUE
  /\ opc' = [opc EXCEPT ![o] = "cache"]
  /\ UNCHANGED <<rekey, now, ahead, sealVars, net, windowVars, lastEpoch, recvCache, pkt,
                 cur, cands, asks, got, lost, restarts>>

\* The epoch is replaced, the key kept.
MutantRememberKey(o) ==
  /\ opc[o] = "cache"
  /\ recvCache' = IF recvCache.epoch = Head(cands[o]) THEN recvCache
                  ELSE [epoch |-> Head(cands[o]),
                        key |-> IF recvCache = NoCache THEN pkt[o].epoch ELSE recvCache.key]
  /\ Finish(o)
  /\ UNCHANGED <<rekey, now, ahead, sealVars, net, windowVars, lastEpoch, haveLast, got,
                 lost, restarts>>

RememberKey(o) ==
  /\ opc[o] = "cache"
  /\ recvCache' = IF recvCache.epoch = Head(cands[o]) THEN recvCache
                  ELSE [epoch |-> Head(cands[o]), key |-> pkt[o].epoch]
  /\ Finish(o)
  /\ UNCHANGED <<rekey, now, ahead, sealVars, net, windowVars, lastEpoch, haveLast, got,
                 lost, restarts>>

\* The receiving process starts again.
RestartReceiver ==
  /\ restarts < MaxRestarts
  /\ restarts' = restarts + 1
  /\ newest' = 0 /\ seen' = {}
  /\ lastEpoch' = 0 /\ haveLast' = FALSE /\ recvCache' = NoCache
  /\ opc' = [o \in Openers |-> "idle"]
  /\ pkt' = [o \in Openers |-> NoPkt]
  /\ cur' = [o \in Openers |-> 0]
  /\ cands' = [o \in Openers |-> <<>>]
  /\ asks' = [o \in Openers |-> FALSE]
  /\ got' = Undelivered
  /\ UNCHANGED <<rekey, now, ahead, sealVars, net, lost>>

-----------------------------------------------------------------------------
(* Time.  A packet that has not arrived within Transit never will, and one *)
(* in the hands of either process is dealt with in that time.              *)

InTime(at) == now < at + Transit

Tick ==
  /\ now < MaxTime
  /\ \A s \in Sealers : spc[s] = "number" => InTime(born[s])
  /\ \A o \in Openers : asks[o] => InTime(pkt[o].at)
  /\ now' = now + 1
  /\ net' = {p \in net : InTime(p.at)}
  /\ UNCHANGED <<rekey, ahead, sealVars, windowVars, epochVars, openVars, got, lost,
                 restarts>>

\* A clock is corrected; the sender's only forward ("real time only moves
\* forward", newTunnel).
Adjust(end) ==
  /\ \E d \in IF end = "sender" THEN {1} ELSE {-1, 1} :
       /\ ahead[end] + d \in 0 .. MaxSkew
       /\ ahead' = [ahead EXCEPT ![end] = @ + d]
  /\ UNCHANGED <<rekey, now, sealVars, net, windowVars, epochVars, openVars, got, lost,
                 restarts>>

-----------------------------------------------------------------------------
Seal(s) == TakeKey(s) \/ Number(s)
Open(o) ==
  \/ LoadHave(o) \/ LoadLast(o) \/ Try(o) \/ Vouch(o) \/ Reopen(o) \/ Check(o)
  \/ RememberLast(o) \/ RememberHave(o) \/ RememberKey(o)

Next ==
  \/ \E s \in Sealers : Seal(s)
  \/ \E o \in Openers : Open(o) \/ \E p \in net, ask \in BOOLEAN : Take(o, p, ask)
  \/ Stop \/ Start \/ RestartReceiver \/ Tick
  \/ \E end \in {"sender", "receiver"} : Adjust(end)

Spec == Init /\ [][Next]_vars

-----------------------------------------------------------------------------
Packets == [id : Datagrams \cup {0}, epoch : Nat, seq : Nat, boot : Nat, at : 0 .. MaxTime]

TypeOK ==
  /\ rekey \in Intervals
  /\ now \in 0 .. MaxTime
  /\ ahead \in [{"sender", "receiver"} -> 0 .. MaxSkew]
  /\ sendSeq \in Nat /\ boot \in Nat
  /\ stopped \in {Running} \cup 0 .. now
  /\ spc \in [Sealers -> {"idle", "number"}]
  /\ epoch \in [Sealers -> Nat]
  /\ born \in [Sealers -> 0 .. now]
  /\ sealed \in 0 .. MaxSeals
  /\ net \subseteq Packets
  /\ newest \in Nat /\ seen \subseteq 1 .. newest
  /\ lastEpoch \in Nat /\ haveLast \in BOOLEAN
  /\ recvCache \in [epoch : Nat, key : Nat] \cup {NoCache}
  /\ opc \in [Openers -> {"idle", "have", "last", "try", "check", "handed", "remember",
                          "flag", "cache"}]
  /\ pkt \in [Openers -> Packets]
  /\ cur \in [Openers -> Nat]
  /\ cands \in [Openers -> Seq(Nat)] /\ \A o \in Openers : Len(cands[o]) <= 4
  /\ asks \in [Openers -> BOOLEAN]
  /\ got \in [Datagrams -> Nat] /\ lost \subseteq 1 .. boot
  /\ restarts \in 0 .. MaxRestarts

(* Whatever arrives in time is heard.  A packet is refused only if it has  *)
(* been delivered already, is left over from an earlier process of the     *)
(* sender, or was followed by a whole window of others: not because the    *)
(* clocks differ, the interval rolled over between sealing and opening or  *)
(* between two of the opener's reads, the openers remembered epochs in the *)
(* wrong order, or the sequence started over.  What authentic vouched for, *)
(* openSeq "must still find fresh".                                        *)
AllHeard == boot \notin lost

(* The AEAD the openers leave each other is that of the epoch it is filed  *)
(* under (rememberEpoch, recvAEAD).                                        *)
CacheIsTrue == recvCache.key = recvCache.epoch

-----------------------------------------------------------------------------
(* In one direction the two TUN devices see a channel that loses and       *)
(* reorders but neither invents nor repeats: also when two openers hold    *)
(* the same packet, or one is vouched for on a new connection while the    *)
(* old one still delivers (openSeq, authentic).                            *)
Channel == INSTANCE DatagramChannel
  WITH sent <- 1 .. sealed

KeepsChannel == Channel!Spec
=============================================================================
