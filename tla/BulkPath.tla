------------------------------ MODULE BulkPath ------------------------------
(***************************************************************************)
(* One pump from a TUN queue to the wire, and one reader at the far end    *)
(* (main.go, offload.go, mmsg.go, icmp.go).  A blocking read is followed by*)
(* a drain of what else is queued; what was sealed is collected and sent in*)
(* one call.  What "one call" means is the carrier's:                      *)
(*   gso     UDP with segmentation offload: one buffer, cut into equal     *)
(*           pieces by the kernel, perhaps coalesced by the far kernel and *)
(*           cut again by recvInto                                         *)
(*   udp     UDP without it, one datagram a call                           *)
(*   icmp    sendmmsg: one message per slot, of which the kernel takes some*)
(*   tcp     frames, one after the other, in one write                     *)
(*   single  pumpUnbatched: one datagram a call, no drain                  *)
(* A datagram of size n is the bytes <<id, 1>> .. <<id, n>>.  The network  *)
(* between keeps order and loses nothing here (DatagramChannel has it do   *)
(* otherwise); it is the two ends that could tear datagrams apart.         *)
(***************************************************************************)
EXTENDS Integers, Sequences

CONSTANTS Lengths,      \* lengths of sealed datagrams
          MaxSegments,  \* datagrams in a batch (64; icmp.batch)
          MaxBytes,     \* bytes of a batch (61440; maxBatchBytes)
          SlotSize,     \* longest datagram an ICMP slot holds
          MaxPackets    \* bound: packets the TUN hands over

ASSUME BulkAssumption ==
  /\ Lengths \subseteq Nat \ {0} /\ MaxSegments \in Nat \ {0} /\ MaxBytes \in Nat \ {0}
  /\ SlotSize \in Nat /\ MaxPackets \in Nat

VARIABLES path,      \* the carrier, one of the five
          queued,    \* packets waiting in the TUN queue
          sealed,    \* datagrams sealed: their lengths, in order
          pump,      \* where the pump stands, and the datagram it holds
          batch,     \* buf, segSize, count; slots: the datagrams, as ICMP and TCP mark them off
          peerSet,   \* getPeer finds one
          air,       \* datagrams on the wire
          reader,    \* pend and pendSeg of the far end's udpReader
          opened,    \* datagrams the far end was handed
          unsent     \* datagrams given up: no peer, an error, not taken

bulkVars == <<path, queued, sealed, pump, batch, peerSet, air, reader, opened, unsent>>

Paths == {"gso", "udp", "icmp", "tcp", "single"}
Bytes(id, n) == [k \in 1..n |-> <<id, k>>]
Whole(id) == Bytes(id, sealed[id])
EmptyBatch == [buf |-> <<>>, slots |-> <<>>, segSize |-> 0, count |-> 0]
IdsIn(buf) == {buf[k][1] : k \in DOMAIN buf}
IdsOf(datagrams) == UNION {IdsIn(datagrams[i]) : i \in DOMAIN datagrams}
NoPend == [pend |-> <<>>, seg |-> 0]

BulkInit ==
  /\ path \in Paths
  /\ queued = 0 /\ sealed = <<>> /\ batch = EmptyBatch /\ peerSet = FALSE
  /\ pump = [at |-> "read", held |-> <<>>]
  /\ air = <<>> /\ reader = NoPend /\ opened = <<>> /\ unsent = {}

-----------------------------------------------------------------------------

Arrive ==
  /\ queued + Len(sealed) < MaxPackets /\ queued' = queued + 1
  /\ UNCHANGED <<path, sealed, pump, batch, peerSet, air, reader, opened, unsent>>
PeerFound ==
  /\ ~peerSet /\ peerSet' = TRUE
  /\ UNCHANGED <<path, queued, sealed, pump, batch, air, reader, opened, unsent>>

\* Mutant: a run takes a datagram of any length.
MutantWants(pkt) ==
  \/ batch.count = 0
  \/ path = "gso" /\ batch.count < MaxSegments /\ Len(batch.buf) + Len(pkt) <= MaxBytes
  \/ path \in {"icmp", "tcp"}

\* txBatch.wants, and what the other pumps ask in its place.
Wants(pkt) ==
  \/ batch.count = 0
  \/ /\ path = "gso" /\ Len(pkt) = batch.segSize
     /\ batch.count < MaxSegments /\ Len(batch.buf) + Len(pkt) <= MaxBytes
  \/ path \in {"icmp", "tcp"}
Fits(pkt) == path = "icmp" => Len(pkt) <= SlotSize

\* txBatch.add, pumpICMPBatched's add, frameInto.
Added(pkt) == [buf |-> batch.buf \o pkt, slots |-> Append(batch.slots, pkt),
               segSize |-> IF batch.count = 0 THEN Len(pkt) ELSE batch.segSize,
               count |-> batch.count + 1]
\* pumpUnbatched: the carriers that have nothing to batch with.
Unbatched == path = "single"
\* Sent without another look at the queue.
Full(b) ==
  \/ path \in {"gso", "udp"} /\ (b.count >= MaxSegments \/ Len(b.buf) + b.segSize > MaxBytes)
  \/ path = "icmp" /\ b.count >= MaxSegments
  \/ path = "tcp" /\ Len(b.buf) >= MaxBytes
  \/ Unbatched

\* A packet is read, or drained, and sealed: it joins the batch, or waits until the
\* batch is sent (as does an ICMP datagram too long for a slot, to go on its own).
Take ==
  /\ pump.at \in {"read", "drain"} /\ queued > 0
  /\ queued' = queued - 1
  /\ \E n \in Lengths :
       LET pkt == Bytes(Len(sealed) + 1, n) IN
       /\ sealed' = Append(sealed, n)
       /\ IF Wants(pkt) /\ Fits(pkt)
          THEN /\ batch' = Added(pkt)
               /\ pump' = [pump EXCEPT !.at = IF Full(batch') THEN "flush" ELSE "drain"]
          ELSE /\ pump' = [at |-> "flushFirst", held |-> pkt]
               /\ UNCHANGED batch
  /\ UNCHANGED <<path, peerSet, air, reader, opened, unsent>>
DrainEmpty ==
  /\ pump.at = "drain" /\ queued = 0
  /\ pump' = [pump EXCEPT !.at = "flush"]
  /\ UNCHANGED <<path, queued, sealed, batch, peerSet, air, reader, opened, unsent>>

\* The kernel's half of a segmented send: equal pieces, the last one what remains;
\* and, at the far end, its opposite.
Lesser(m, n) == IF m <= n THEN m ELSE n
Cut(buf, seg) ==
  [i \in 1..((Len(buf) + seg - 1) \div seg) |->
     SubSeq(buf, (i - 1) * seg + 1, Lesser(i * seg, Len(buf)))]
Joined(datagrams) ==
  LET seg == Len(datagrams[1])  n == Len(datagrams)
  IN [k \in 1..((n - 1) * seg + Len(datagrams[n])) |->
        datagrams[((k - 1) \div seg) + 1][((k - 1) % seg) + 1]]
\* The datagrams a batch is meant to be: an ICMP message and a TCP frame carry their
\* own length, UDP has the kernel cut by segSize.
Datagrams(b) ==
  IF path \in {"gso", "udp"} /\ b.count > 0 THEN Cut(b.buf, b.segSize) ELSE b.slots

\* sendmmsg may take only the first few messages.
FirstFew(all) == {SubSeq(all, 1, n) : n \in 0..Len(all)}
\* One call: all of it leaves, or nothing (no peer, an error), or the first few.
Sent(b) ==
  LET all == Datagrams(b) IN
  {<<>>} \union (IF ~peerSet THEN {} ELSE IF path = "icmp" THEN FirstFew(all) ELSE {all})

Flush ==
  /\ pump.at \in {"flush", "flushFirst"}
  /\ \E out \in Sent(batch) :
       /\ air' = air \o out
       /\ unsent' = unsent \union (IdsIn(batch.buf) \ IdsOf(out))
  /\ batch' = EmptyBatch
  /\ pump' = [pump EXCEPT !.at = IF pump.at = "flush" THEN "read" ELSE "rest"]
  /\ UNCHANGED <<path, queued, sealed, peerSet, reader, opened>>

\* After the flush the datagram held joins the batch, or, on ICMP, is sent alone.
Rest ==
  /\ pump.at = "rest"
  /\ IF Fits(pump.held)
     THEN /\ batch' = Added(pump.held)
          /\ pump' = [at |-> IF Full(batch') THEN "flush" ELSE "drain", held |-> <<>>]
          /\ UNCHANGED <<air, unsent>>
     ELSE /\ \/ peerSet /\ air' = Append(air, pump.held) /\ UNCHANGED unsent
             \/ unsent' = unsent \union IdsIn(pump.held) /\ UNCHANGED air
          /\ pump' = [at |-> "drain", held |-> <<>>]
          /\ UNCHANGED batch
  /\ UNCHANGED <<path, queued, sealed, peerSet, reader, opened>>

\* The far kernel may coalesce UDP datagrams of one length, the last one not longer;
\* recvInto returns the first and keeps the rest, if the segment size the kernel named
\* is less than what it returned.
Runs == {n \in 1..Len(air) :
           n > 1 => /\ path \in {"gso", "udp"}
                    /\ \A i \in 1..n : IF i < n THEN Len(air[i]) = Len(air[1])
                                       ELSE Len(air[i]) <= Len(air[1])}
RecvSocket ==
  /\ reader.pend = <<>> /\ air # <<>>
  /\ \E n \in Runs :
       LET buf == Joined(SubSeq(air, 1, n))
           seg == IF n > 1 THEN Len(air[1]) ELSE 0
       IN /\ air' = SubSeq(air, n + 1, Len(air))
          /\ IF seg > 0 /\ seg < Len(buf)
             THEN /\ opened' = Append(opened, SubSeq(buf, 1, seg))
                  /\ reader' = [pend |-> SubSeq(buf, seg + 1, Len(buf)), seg |-> seg]
             ELSE opened' = Append(opened, buf) /\ reader' = NoPend
  /\ UNCHANGED <<path, queued, sealed, pump, batch, peerSet, unsent>>
RecvPending ==
  /\ reader.pend # <<>>
  /\ LET n == Lesser(reader.seg, Len(reader.pend)) IN
     /\ opened' = Append(opened, SubSeq(reader.pend, 1, n))
     /\ reader' = [reader EXCEPT !.pend = SubSeq(@, n + 1, Len(@))]
  /\ UNCHANGED <<path, queued, sealed, pump, batch, peerSet, air, unsent>>

BulkNext ==
  Arrive \/ PeerFound \/ Take \/ DrainEmpty \/ Flush \/ Rest \/ RecvSocket \/ RecvPending

-----------------------------------------------------------------------------

\* Type correctness.
BulkTypeOK ==
  /\ sealed \in Seq(Lengths) /\ queued + Len(sealed) <= MaxPackets
  /\ batch.count \in 0..MaxPackets /\ unsent \subseteq DOMAIN sealed
  /\ pump.at \in {"read", "drain", "flush", "flushFirst", "rest"}

\* What the kernel demands of a segmented send: no more pieces and no more bytes than
\* it takes, and every piece a whole datagram of the one length.
RunsLegal ==
  path = "gso" /\ batch.count > 1 =>
    /\ batch.count <= MaxSegments /\ Len(batch.buf) <= MaxBytes
    /\ \A id \in IdsIn(batch.buf) : sealed[id] = batch.segSize

\* The far end is handed the very datagrams that were sealed, each whole and at most
\* once, in the order of sealing, whatever was batched, cut, coalesced and cut again;
\* and every datagram that is neither there nor on its way was given up in one piece.
\* A segmented send is moreover one the kernel takes.
Id(datagram) == datagram[1][1]
DatagramsIntact ==
  LET handed == {Id(opened[i]) : i \in DOMAIN opened}
      ahead == IdsIn(reader.pend) \union IdsOf(air) \union IdsIn(batch.buf)
               \union IdsIn(pump.held)
  IN /\ RunsLegal
     /\ \A i \in DOMAIN opened : opened[i] = Whole(Id(opened[i]))
     /\ \A i, j \in DOMAIN opened : i < j => Id(opened[i]) < Id(opened[j])
     /\ handed \union ahead \union unsent = DOMAIN sealed
     /\ handed \intersect unsent = {} /\ ahead \intersect unsent = {}
     /\ \A i \in handed : \A j \in ahead : i < j
=============================================================================
