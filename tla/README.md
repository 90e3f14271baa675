# A TLA+ verification of the AES-256-GCM anti-DPI tunnel

This directory models and verifies parts of `aestun`, the Go program in the
repository root: a point-to-point IP tunnel that seals every packet with
AES-256-GCM under a pre-shared key and carries it over UDP, TCP, ICMP or
WebSocket, dressed up as QUIC, DTLS or TLS. The modules are written from the Go
source; `PROJECT.json` names, for each definition, the lines it stands for.

Running things (inside this directory):

    tlc -workers 2 -config Stream.cfg StreamCarrier.tla
    tlapm NonceSpaceProofs.tla

## 1. The system

Two processes, role `a` and role `b`, share a key and run the same code. Each
reads IP packets from a TUN device, seals them (`Tunnel.sealInto`) and hands
them to a *carrier*; each receives from its carrier, opens (`Tunnel.openSeq`) and
writes to TUN. There is no handshake: keys follow from the pre-shared key and the
wall clock, freshness from a sequence number inside the sealed packet.

| Component | State it keeps | Operations | Talks to |
|---|---|---|---|
| **Sealing and opening** (`tunnel.go`, `cipher.go`, `hkdf.go`) | key caches, `lastEpoch`/`haveLast`, `sendSeq`, peer address, counters | `sealInto`, `openSeq`, `authentic`, `recvEpochs`, `rememberEpoch`, `maybeRoam` | called by all pumps and receive loops, without a common lock |
| **Anti-replay window** (`tunnel.go`) | bitmap, newest number | `check`, `fresh` | called by `openSeq` and `authentic` |
| **Nonce allocation** (`obfs.go`, `dtlsobfs.go`) | packet number, connection ID or DTLS epoch | `nextHeader`, `rotateCID`, `adoptPeerCID`, `nextRecordHeader` | called by `sealInto` on every sending goroutine |
| **UDP carrier** (`main.go`) | the socket, its predecessors in their grace period | `Send`, `recvInto`, `rotateOnce`, `udpRotateLoop` | kernel socket; moves the far end's peer address |
| **Reverse hello gate** (`reverse.go`) | one held hello, a timer | `offer`, `confirm`, `expire` | receive goroutines, the observer |
| **Stream carrier** (`main.go`, `tcprotate.go`, `wscarrier.go`) | the active connection and its `done` channel | `set`, `current`, `rotatedOut`, dial loop, accept loop, receive loop | kernel connections, a CDN in between for WebSocket |
| **WebSocket** (`ws.go`) | fragment reader, handshake slots | `next`, `admit`, control replies | stream carrier |
| **Port hopping** (`hop.go`) | one socket per port, slot cache, bounded queue | `currentSlot`, `Send`, `Recv` | clock and key only |
| **Bulk sending** (`main.go`, `pacer.go`, `offload.go`, `mmsg.go`) | token bucket, batches, the surplus of a coalesced read | the pumps, `sendBatch`, `recvInto`, `wait` | TUN queues, carriers |
| **ICMP carrier** (`icmp.go`) | echo identifiers, kernel filter, firewall rules, slot cache | `Send`, `parse`, `suppressReplies`, `stopOnSignal` | raw socket, iptables or nft |
| **DPI observer** (`dpilog.go`, `probe.go`) | event queue and log files, per-source table, sequence and hop-count atomics, path and kernel readings | `emit`, `writer`, `observe…`, `flushSources`, `pathWatch`, `kernelWatch`, `icmpWatch`, `dpiReport` | receive loops; only reports |
| **Decoys** (`desync.go`, `junk.go`, `split.go`) | tracked flows | cover packets | raw socket |
| **Encodings** (`quicinit.go`, `tls.go`, `csprng.go`) | none to speak of | build and parse cover messages | carriers |
| **Configuration, statistics** (`main.go`, `tunnel.go`) | read once / written every 2 s | | files |
| **Scripts** (`aestun.sh`, `aestun-mp.sh`, `dokodemo.sh`) | systemd units, the active carrier | install, failover | systemd, iptables |

What is hard here is what happens *between* goroutines that share almost no
locks: several receive goroutines, several TUN pumps, a keepalive loop, a
rotator, a dial loop and timers meet in a few atomics and short critical
sections, while connections break, sockets are replaced under their readers,
datagrams are lost or overtaken and either process may restart.

What makes each part correct: the window delivers each number at most once and
refuses nothing fresh within its width; a nonce repeats under a key only where the
findings below say; rotation is
never mistaken for failure and never strands a reader; a listener in reverse mode
is silent until spoken to by the key holder, yet answers a hello it has vouched
for and reports every other one; a stream carrier that lost its connection always
ends with both ends on one working connection, with no channel closed twice and
no socket forgotten; a hopping sender is where the schedule says; the pumps tear
no datagram apart and keep the configured rate; no firewall rule is lost track of by
the run that put it there; and the observer, whose word an operator acts on, neither
invents a finding nor passes over a gap in its own log.

## 2. The modules

| Module | Models | Kind |
|---|---|---|
| `AntiReplay` | what the window promises: the set of numbers delivered, and which answer `check` and `fresh` owe | abstract specification |
| `ReplayWindow` | the bitmap: `idx`, `get`, `set`, `clr`, `check`, `fresh` | detailed specification, implements `AntiReplay` |
| `ReplayWindowProofs` | invariant and refinement | proofs |
| `StreamCarrier` | connection life cycle of the TCP and WebSocket carriers, both ends and the network | concurrent, with liveness |
| `HelloGate` | `helloGate` under parallel receive goroutines and its timer | concurrent, with liveness |
| `NonceSpace` | `nextHeader` / `nextRecordHeader` step by step, with adoption, restarts and key changes | concurrent |
| `NonceSpaceProofs` | below the wrap: when a nonce may come twice, and when none does | proofs |
| `UdpRoam` | source-port rotation of the dialing UDP end, the listener that follows, the network and the clock | concurrent, timed, with liveness |
| `WsLink` | the WebSocket carrier's write lock, blocking writes and ping answers, both ends and a CDN | concurrent, with liveness |
| `WsReader` | the fragment reader, fed by the admission's loop and then the receive loop's | sequential |
| `DatagramChannel` | what the two TUN devices are promised, in one direction | abstract specification |
| `SecureChannel` | sealing and opening: key schedule, sequence, clocks, restarts, the network | concurrent, timed, implements `DatagramChannel` |
| `MCSecureChannel` | `SecureChannel` and `NonceSpace`, one moving at a time | instance |
| `SecureChannelProofs` | types, the channel's promise, the key cache, what is heard | proofs |
| `PortHop` | hopping senders and their slot cache, the sockets, readers and the channel of the far end | concurrent |
| `BulkPath` | a pump, its batches on each of the five send paths, the splitting of coalesced reads | sequential, with an unhelpful kernel |
| `Pacer` | the token bucket shared by the pumps | concurrent, timed |
| `ReplyRules` | the echo-reply rules over several runs of the process | faults, crash and restart |
| `IcmpFilter` | the assembled BPF program, run instruction by instruction, against `parse` | sequential |
| `EventLog` | the observer's queue, writer, rate limit and rotation | concurrent, faults, crash and restart |
| `LogReport` | the report reading those files beside the writer | concurrent |
| `Strangers` | per-source aggregation and its flush | concurrent |
| `HopCount` | learning and moving the peer's hop count, atomic by atomic | concurrent |
| `PathWatch` | the loss figure and what the receivers do to its counters meanwhile | concurrent |
| `PathAlarms` | blackhole, recovery and throughput collapse, on two clocks | timed |
| `KernelCounters` | `kernelWatch` and `icmpWatch` under failing reads and wrapping counters | faults |
| `StreamCarrierProofs` | no channel closed twice, no wake-up lost, no socket leaked | proofs |
| `HelloGateProofs` | each hello dealt with once, silence, nobody left behind, the hold ends | proofs |
| `UdpRoamProofs` | rotation unnoticed, quiet closing, nothing late | proofs |
| `CarrierProofs` | `Pacer`, `ReplyRules`, `IcmpFilter`, `PortHop`, `WsLink`, `BulkPath`, `WsReader` | proofs |
| `ObserverProofs` | `KernelCounters`, `PathAlarms`, `HopCount`, `PathWatch`, `EventLog`, `Strangers` | proofs |
| `MCParts` | thirteen parts that share nothing, one moving at a time | instance |

Operators named `Mutant…` are deliberately wrong variants of the definition that
follows them. They are in no specification; substituting one for the original
must break the property it is listed with, which shows the property says
something about the code.

### ReplayWindow and AntiReplay

`bits`, `last`, `init` are the fields of `replayWindow`; a set bit is an index in
`bits`. `Check(seq)` is the whole of `check`, one disjunct per exit: zero, first,
ahead (clearing the bits skipped, all of them for a jump of the window's size or
more), late, stale. `Fresh(seq)` is `fresh`, which changes nothing but the answer.
The mapping to `AntiReplay` takes the delivered set from a history variable and
the width from the size rounded up to whole words (`newReplayWindow`).

### StreamCarrier

`conn[e]`, `done[e]` are `tcpCarrier.conn` and `.done` at end `e`; a done channel
is named by the connection it was made with, `closes` counts how often each has
been closed. `set` is two steps, as in the code: `Set` under `mu`, then `Retire`,
which closes the old channel and the old socket after `mu` is released. The dial
loop (`dpc`) is `tcpDialLoop`, or `wsDialLoop` with `wsHold` for WebSocket: dial,
install, announce, hold until the connection is replaced, due for rotation or idle,
then breathe and dial again. The receive loops (`rpc`) are `Recv` inside
`runStream`: take the connection, read, fail, ask `rotatedOut`, drop. `stage[c]` is
the listening end's accept queue or WebSocket admission. The network breaks
sockets (`Break`), and over TCP tells the other end (`NoticeGone`); through a CDN it
need not.

### HelloGate

`held`, `armed`, `timer` are the gate's fields; `pc[w]` follows a receive
goroutine through `udpReceiveLoop`. `Offer`, `Confirm` and `Expire` are atomic because
the code holds the mutex; the read of `armed` (`Load`), the look at the peer
(`Same`) and the report (`Report`, `File`) are steps of their own because it does
not. The half-minute throttle of a direct reply is a free choice of answering or
not. `answered` counts the hellos taken up to be answered, those included whose answer
then fails to be built or sent, which the code only logs.

### NonceSpace

A nonce is (space, number): connection ID and packet number for QUIC, epoch and
sequence for DTLS. `Count` is the atomic addition, `Lock`…`Unlock` the wrap branch,
`Load` the read of the space that completes the nonce. Both formats have the same
steps. Random connection IDs are taken never to collide by themselves, and are numbered
as they are first seen; but `Adopt` takes whatever ID a hello names, which may be one
this end has used (`Replayed`), and `Restart` draws any of `DtlsEpochs` epochs, so that
DTLS spaces do come back. The histories `old` (the keys and spaces used when the count
last began anew, at a restart or a wrap) and `again` (the old spaces taken up again)
are what `RepeatsOnlyOnReturn` speaks of: how a nonce may come twice, and that it
comes in no other way. `NonceUnique`, that it never does, is what the comments say;
the code keeps it only in part (findings 2 and 5, and the theorems of section 4).

### UdpRoam

Sockets are numbered in the order they are bound; a number is also the source
port. The rotator's `Bind`, `Swap`, `Expire`, `Announce` are the statements of
`rotateOnce`, `Close` its goroutine that closes the old socket after the grace
period; a reader goes through `Load`, `Read`/`ReadFails`, `Resume` of `recvInto` and
`udpReceiveLoop`. A datagram is its port and its age. Time advances in ticks and
may not pass a deadline that is due.

### WsLink

`wmu[e]` is the write lock of end `e`; a task (TUN pump, receive loop, dial loop) goes
through `Begin`, `Lock` and `WriteTo` of `Send` or `sendControl`, and is stuck in
`WriteTo` while the pipe to the far end is full. `Read` is an iteration of `recvWS`: a
ping makes the receive loop itself a writer. `UserTimeout` is the socket option of
`wsTuneConn`. `Dial`, `Redial` and `Watch` are `wsDialLoop` with `wsHold`; the loop
announces itself before it watches. Connections otherwise are `StreamCarrier`'s subject,
and here `set` and the teardown are one step each.

### WsReader

`msg` and `msgOp` are the reader's fields; one action per frame read and exit of
`admit`'s and `recvWS`'s loops. A payload consists of pairs (frame, position), so a
piece lost, repeated or out of place shows. The first message waits in the reader's
own buffer, as in the code. The history `read` is the frames read, and all that the
properties consult: which message a frame belongs to (`Parts`), which bytes that
message carries (`Carried`), whether a frame keeps the reader's rules where it
stands (`WellFramed`: reserved bits and opcodes, control frames whole and of at most 125
bytes, the order of fragments, the size of a message; not RFC 6455's rule which side
masks, nor the one that a close's body is not one byte, which the code leaves alone), which
frames end a binary message or are owed an answer (`Binaries`, `Dues`). A message is
right if it lists those bytes in order (`Lists`); the n-th one handed over is that of
the frame of rank n. None of this repeats the reader's way of arriving at it.

### SecureChannel and DatagramChannel

One direction, several goroutines at each end. A sealer takes its key (`TakeKey`:
`epochNow` at the top of `sealInto`) and later draws its number (`Number`); a packet is
its datagram, its epoch, its number, and the instant its key was taken. An opener
begins with the clock (`Begin`), reads `haveLast` and `lastEpoch` one after the other
(`LoadHave`, `LoadLast`), tries the candidates in order (`Around`, `Try`), asks the
window (`Check`, or `Vouch` for `authentic`, which records nothing and hands the
packet over to be opened again) and stores the three atomics of `rememberEpoch` one
at a time. Variables an operation no longer needs are reset when it ends.

Keys are their epochs. The window is the `AntiReplay` promise that `ReplayWindow` is
proved to implement. Packets that nobody sealed are left out: they open under no
key. A restarted sender takes its sequence from the clock in microseconds (`Start`);
that this is ahead of everything it sent rests on `InRate`, fewer packets than
microseconds, and on its clock not going back, as `newTunnel` says ("real time only
moves forward"). `got` and `lost` are history variables; a refusal counts as a loss
unless a whole window of numbers was drawn after the refused one (`Overtaken`), which
is the price of a window of any finite width.

### PortHop

`slotCache` and `haveSlot` are the carrier's two atomics; a sending goroutine goes
through `ReadClock`, `ReadCache`, `StoreSlot`, `StoreFlag` and `Write`, the loads and
stores of `currentSlot` and `Send`, with the clock free to move between, also back.
`schedule` is `hopIndex`, any function of the epoch. `sock`, `rd` and `hopRx` are the
socket of a port, what its reader (`recvLoop`) has still to hand over of a coalesced
run, and the bounded channel. The configured list has a zero and a repeat in it.
The ICMP carrier rotates its identifiers with the same cache.

### BulkPath and Pacer

`path` names which of the pumps runs. `Take` is a read, or a drain, with the sealing and
what the pump then decides; `Flush` is the one call that sends a batch, of which the
kernel takes all, none or, with `sendmmsg`, the first few; `Rest` puts the datagram that
did not fit into the next batch or sends it alone. Bytes carry the datagram they belong
to, so a tear shows; a batch is its buffer, and for the paths that mark the datagrams
off, the `slots` it is made of. `RecvSocket` and `RecvPending` are `recvInto` on what
the far kernel coalesced.

`Pacer` has `wait` as two cases: the deficit is worth no sleep (`WaitNot`), or it is
slept off with the lock held (`FallAsleep`, `Wake`), for the time asked or longer.
Time is whole steps of `Rate` bytes; floating-point rounding is left out. `ideal` and
`grantedBy` are history variables: a bucket credited continuously, and what had been
let through by when.

### ReplyRules and IcmpFilter

`rules` counts the copies of each rule in the kernel, per tool. A run of the process goes through
`suppressReplies` (iptables per identifier, iptables for all, nft per identifier, nft
for all), then `stopOnSignal`; it ends by its handler or at any moment (`Died`), and
another starts, perhaps with other identifiers. Every command that changes the rules
may fail, those whose result the code does not look at included (`StaysFull`,
`TableGoes`), and so may `-C` for a rule that is there, which then goes in twice
(`Ensure`). `-D` takes one copy away. `found` are the rules as the run found them, and
`stuck` the copies whose removal failed in it; `Owes` is what its next list will take
away.

`IcmpFilter` runs `Program`, the code's instructions with their hand-counted jumps,
on a model of the kernel's interpreter, over every packet shape: short, with
options, of another type, with a foreign identifier.

### The observer: EventLog, LogReport, Strangers, HopCount, PathWatch, PathAlarms, KernelCounters

Each is one job of `dpilog.go` with the goroutines it runs on; they share nothing but
`emit`, and `EventLog` lets events come at any moment.

* `EventLog`: one `Turn` is an iteration of `writer`; the rotation is a step per
  `Remove` and `Rename`; opens and writes may fail and the process may be killed
  anywhere, the next one appending to what it finds. `history` is all that was ever
  written; a file is its lines and how much of `history` came before them (`from`).
  `mentioned` counts the suppressed events that announcements speak of, and the write of
  an announcement may fail like any other. `LogReport` adds `dpiReport`, which lists the
  files and reads them one by one.
* `Strangers`: `ObserveStranger` and `FlushTake` hold the mutex; the records are emitted
  after it. A row's classes are its counts; sizes, samples and TTLs of a record are left
  out. `observed` and `reported` are histories, per source and class, of what came and
  what the emitted records speak of; `turnedAway` counts the datagrams of sources the
  table had no room for.
* `HopCount`: every load, store, add and compare-and-swap of `checkPeerTTL` and
  `peerRoamed` is a step. `judged` remembers what the last packets said.
* `PathWatch`: `CountPacket`, `LoadSeqMax`, `CasSeqMax`, `Rebase` are
  `observePeerPacket`'s atomics in order, `Tick…` those of `pathWatch`.
* `PathAlarms`: a turn reads the counters (`ReadCounters`) and later judges them
  against the clock (`JudgePath`). There are two: `wall`, in which arrivals are stamped
  and the silence since the last one is measured, and which may be set forth and back
  (`SetClock`), and the monotonic `now` for the silence since start-up. `spoke`,
  `arrivals`, `raised` and `busySince` are for the properties.
* `KernelCounters`: one counter stands for the five of a block; a reading is the
  counter modulo `Width`, or `Nil` when the read fails.

## 3. The runs

| Run | Asks | Bounds, and why they are enough |
|---|---|---|
| `stream` | Do rotation, faults and teardown keep channels and sockets accounted for, and does the tunnel recover? | Both carriers, chosen at start-up; one rotation, one fault, seven connections. A rotation and a fault together can cost up to six connections through the teardown race of finding 1, so with seven the bound never ends a behaviour early. |
| `stream_teardown` | Finding 1 | One rotation, three connections, no fault. |
| `channel` | Is all that arrives in time heard, each datagram once, and is the cached key the right one? Where may a nonce come twice, over wraps, restarts, adoption and key changes? | Two parts, chosen in `SealingInit` as in `parts` below. `SecureChannel`: two sealers and two openers, two packets, a static key and an interval of two ticks, three ticks and a clock one tick ahead, so that two intervals end; one restart of either end; a window of three, which a restart's jump overruns. `NonceSpace`: two senders in either format, four numbers per space, five drawn: enough to wrap and come back to the number begun with, or to wrap again after a restart; two DTLS epochs, so that they go round and are drawn again; one restart, with the adoption of any ID before and after it. Under the scheduling that nobody else holds a number while one is at the wrap. |
| `gate` | Is each hello dealt with once, nobody unvouched spoken to, nobody left waiting? | Two goroutines (the races are pairwise), two addresses of the dialer and a stranger, two hellos so that one displaces the other and a timer run meets a younger hello. |
| `nonce_wrap` | Finding 2 | Two senders; nobody begins a packet while the other is at the wrap. |
| `nonce_adopt` | Finding 5 | QUIC headers, one restart, no wrap within reach. |
| `roam` | Does rotation strand a reader, raise an error, or send to a closed port, and does the listener follow? | Three sockets so that two grace periods overlap; one reader, for readers share nothing they write; reordering, and one lost datagram. |
| `ws_link` | Does a blocked write ever hold up reading or redialling for good? | Two connections, so that one can be replaced under a writer; room for one frame each way, so that both directions fill at once; one ping to either end. The type invariant, which holds the write lock's discipline, is proved for all values. |
| `parts` | Everything below, one part moving in each behaviour | See the next table. |
| `roam_late` | Finding 3 | Two sockets, one lost datagram, keepalives further apart than the grace period. |
| `report_order` | Finding 4 | Three events, files of two lines, one rotation. |
| `recovery` | Finding 6 | One setting of the clock, two arrivals. |

`parts` composes thirteen modules that share no variable. `Init` chooses which of them
moves; the others stand still. Interleaving them would multiply the states and
could show nothing: no action of one is a guard of another, so each projection of a
composed behaviour is a behaviour of the part alone (with stuttering). The theorems
about a part are therefore stated of its own specification (`WindowSpec`, `AlarmSpec` and
so on). The invariants are conjoined over all of them, and a
part that stands still satisfies its own.

| Part | Properties | Bounds, and why they are enough |
|---|---|---|
| `EventLog` | `HistoryKept`, `EveryEventAccounted` | Two generations and files of two lines, so that a rotation moves one file up and deletes another; two lines a minute over two minutes, so that rationing starts, is announced and starts again; one kill and one failing disk operation anywhere; a queue of two that overflows; proved for all values. |
| `Strangers` | `StrangersCounted` | A table for fewer sources than there are, and enough datagrams for two flushes with a forgotten row between; proved for all values. |
| `HopCount` | `BaselineMovesOnARun` | Two goroutines (the races are pairwise), runs of three packets in place of 2,000 and learning from two in place of four, three hop counts, one roam: enough for a run to fill with two foreign values; proved for all values. |
| `PathWatch` | `LossNotInvented` | Two receivers, one restart of the peer, two turns, an interval judged from a few numbers instead of 200; proved for all values. Two rebases that cross (`passed`, see "Seen while modelling") need two numbers and one turn more than these bounds have; the proof covers them. |
| `PathAlarms` | `FindingsEarned` | Four turns, two arrivals, three instants and one setting of the wall clock: enough for a blackhole and its recovery, of a packet or of the clock, for two collapses, and for one with a rate that stays down after it; history and threshold shortened, their order kept (`AlarmAssumption`); proved for all values. |
| `KernelCounters` | `KernelDropsTold` | Counters modulo a width they pass, two failing reads, the inode published at any time; proved for all values. |
| `ReplayWindow` | `WindowTypeOK`, `AtMostOnce`, `WindowExact`, `KeepsPromise` | Four numbers in two words, size asked for three so that rounding matters, eleven numbers in any order: jumps of one, within a word, across the ring's end, of the size and beyond all occur; proved for all values. |
| `WsReader` | `MessagesIntact`, `FaultsFound`, `AnswersEcho` | Four frames (opening, control frame, continuation, next message) in sizes empty, the control frames' limit and past it, sums at and past the messages' limit; proved for any frames. |
| `PortHop` | `OnSchedule`, `PortsKept` | Two senders, two ports, a clock that starts at 0 and moves twice, also back; a channel of one; proved for all values. |
| `BulkPath` | `DatagramsIntact` | Two lengths that differ, batches of three, a byte limit that cuts a batch short, a datagram too long for an ICMP slot; proved for all values. |
| `Pacer` | `LazyBucketExact`, `RateKept` | Two pumps, batches up to more than the bucket, sleeps below and above the shortest; proved for all values. |
| `ReplyRules` | `RulesAccounted` | Three starts with pools that overlap, both tools or either, four failing commands; proved for all values. |
| `IcmpFilter` | `FilterAgrees` | One, two and three identifiers, first, middle and last hit and miss; packets around every length at which a load or a check begins to succeed; proved for every list whose jumps fit a byte. |

### Fairness and timing

* `StreamCarrier`: goroutines are scheduled, timers fire, a dial eventually goes
  through, an idle connection gets a keepalive, and over TCP only, the kernel
  eventually ends a connection whose far end is gone (`SetKeepAlive` in the code).
  No fairness on faults, rotation, or on a CDN ever closing anything. `Prompt`: in
  the WebSocket dial loop half a second outlasts a teardown the receive loop has
  already begun. The code relies on this; without it the two can alternate for
  ever. The watchdog's 45 s or more outlast whatever was under way (`AtRest`).
* `HelloGate`: every goroutine runs, the clock ticks, timers fire.
* `WsLink`: goroutines run; a write goes through or the kernel gives up on it
  (`TCP_USER_TIMEOUT`); a receive loop or dial loop that waits for the write lock gets
  it in the end, as Go's mutex hands over to a waiter after a millisecond; the dial
  loop's timers fire. Nothing obliges the CDN to pass anything on, and nobody to send.
* `MCParts`: none; its parts have no liveness. A part may stop anywhere.
* `PathAlarms` assumes nothing of its clocks but that the monotonic one does not go back.
* `UdpRoam`: the rotator's own steps take no time; keepalives are sent within their
  interval; a datagram that is not lost arrives within `Transit`. `QuietClose` needs
  `Keepalive + 3 * Transit < Grace`: 35 s and three transits against 40 s with the
  defaults.
* `SecureChannel` has no liveness. Its time is a bound: a packet is opened within
  `Transit` of the moment its key was taken, or lost; and the two clocks are at most
  `MaxSkew` apart. `AllHeard` needs `MaxSkew + Transit` to be no more than the
  interval (seconds of skew and delay against the hour the installer sets); the run
  has them equal, and with one tick more of skew TLC finds a packet sealed and opened
  two intervals apart. The other properties do not depend on it.
* `NonceSpace` has no liveness. `Courtesy` states how kind the scheduler is at the
  wrap; the code gives no such guarantee, which is finding 2.

## 4. What is proved

TLAPS checks, for every value of the constants that meets the stated assumptions:

**`ReplayWindowProofs`**: type correctness, that each bit stands for its own number
and no other (`WindowExact`), at-most-once delivery, and that `ReplayWindow` implements
`AntiReplay`. The bitmap alone does not say which number a bit belongs to; the
inductive invariant `WindowInv` adds that the delivered numbers in the window are
exactly the set bits under `idx`, and the lemma that two numbers less than the size
apart have different indices carries every step.

**`NonceSpaceProofs`**, for any number of senders, connection IDs and key changes, while
the numbers drawn cannot reach the end of a space (`BelowWrap`):

* `RepeatsOnlyOnReturnBelowWrap`: over any restarts, in either format and whatever a
  hello names, a nonce comes twice under one key only where the count began anew and
  the end came back to a space it had used under that key. `RepeatsOnlyOnReturn` is not
  inductive: the proof adds that nothing used or held since the count began is ahead of
  it (`NothingAhead`), that what a sender holds is nobody else's and unused since
  (`HeldIsFresh`), and that what was used before is noted as old.
* `NonceUniqueInOneProcess`: without a restart no nonce is used twice at all, whatever
  connection ID is adopted, which is what the comment of `adoptPeerCID` means.
* `NonceUniqueAcrossRestarts`: with QUIC headers, and hellos that name only IDs this end
  has not used, none is used twice over any number of restarts. For DTLS there is no
  such theorem, for it would be false: a new process may draw the old one's epoch (see
  "Seen while modelling").

**`SecureChannelProofs`**:

* Type correctness (among it that the candidate epochs fit the buffer of four), that
  the channel implements `DatagramChannel`, and that the cached key is that of its
  epoch. Copies of a datagram carry one number whoever holds them (`OneNumber`), and
  the number of a delivered one is in the window (`WindowKnows`); `Check` then delivers
  only what was never delivered. For the cache, an opener past the decryption still
  has the epoch that fitted (`Fitted`), and a true cache makes the next fit true. None
  of this assumes anything of the clocks.
* `EverythingHeard`: `AllHeard`, under the one hypothesis that an interval, where there
  is one, is no shorter than `MaxSkew + Transit` (`LongIntervals`). The argument has
  three parts. A packet in the openers' hands is in time (`OnTime`). So the opener that
  has it is in the packet's interval or in a neighbouring one, whichever of `haveLast`
  and `lastEpoch` it reads, before or after they are stored and in whatever order, and
  the packet's epoch is among those it has still to try (`WillFit`). And numbers grow,
  over restarts too, so that one number means one datagram and nothing the window has
  seen is undelivered (`Growing`). What the window then refuses was delivered, or is
  overtaken by a window's width and stays so (`RefusedForGood`).

**`HelloGateProofs`**, for any number of goroutines, addresses, hellos and any hold:
`FiledOnce`, `SilentUntilVouched`, `NoneLeftBehind`, and `HoldEnds`, that a held hello is
never without a timer or a waiting call of `expire` that ends it, which is the safety
half of the liveness property `EveryHelloFiled`. A hello has one place at a time, the
hands of a goroutine, the slot or the report (`Placed`, `Handled`); whoever is sent to,
or is about to be, has authenticated (`Vouched`); `armed` tells whether the slot is
taken, which makes `NoneLeftBehind` inductive.

**`StreamCarrierProofs`**, for any number of connections, rotations, faults and
handshake slots, over both carriers: `DoneClosedOnce`, `NoLostWakeup`, `NoLeakedSocket`,
and `ActiveIsOpen`, that the connection in use has not been closed at its own end. The
argument is ownership. At each end a connection belongs to one at a time of whoever
opened or accepted it, the carrier, and the one caller of `set` that replaced it
(`Paired`, with `Serial`: nobody calls `set` while an earlier call of its own is
unfinished). A socket is open exactly as long as it has an owner (`Sockets`), and the
dial loop's connection is the active one, or over, or in the hands of someone about to
say so (`Watched`).

**`UdpRoamProofs`**, for any number of sockets, readers and datagrams and any timings:

* `RotationUnnoticed`: which sockets are expired is known at each point of `rotateOnce`
  from how many have been bound (`Ordered`), and a reader that is parked or has failed
  is on the current socket, an expired one, or the one about to be (`Parked`).
* `QuietClose`, if the grace period is longer than a keepalive interval and three
  transits. This hypothesis stands in the theorem and is not an assumption of the
  module, for finding 3 is a configuration that breaks it. Nothing from a port is on
  its way a transit after it was retired (`Aged`; `NothingLate` says it for itself); so the next
  keepalive moves the listener for good (`Told`); so its answers to old ports cease in
  time (`Answered`).

**`CarrierProofs`**:

* `Pacer`: `LazyIsExact`, the lazily credited bucket is always worth what a continuously
  credited one would be, and `PumpsKeepRate`, over any stretch of time the pumps are
  let through no more than it earned, one bucket and one debt. `RateKept` is not
  inductive. The proof adds an account (`Paid`), a floor for the bucket (`Floor`), that a
  sleeper sleeps long enough to cover its need (`LongEnough`), and that only one sleeps
  (`OneSleeps`), which is the lock.
* `ReplyRules`: `RulesAccounted`, of each rule there are no more copies in the kernel than
  the run found, than it tried in vain to take away and than it has yet to take away; a
  run that believes its replies suppressed has rules for all its identifiers; and a rule
  is there twice only where a command failed: for any pools, and whichever commands
  fail, the ones whose result the code ignores among them, any signals and crashes.
  Every rule a run owes is on the list it works through (`OwedIsListed`), and what it
  asked for is in or still to be put in (`Listed`).
* `IcmpFilter`: `FilterAgrees`, for every list of identifiers whose jumps fit the byte the
  kernel gives them (at most 254) and every packet: no packet the parser would take is
  withheld, and only requests with an identifier of the tunnel's pass. What the
  interpreter knows at each instruction (`KnownAt`) is a statement about a program
  whose length is the list's, so that each hand-counted jump has to land where it
  should for all lengths.
* `PortHop`: `OnSchedule`, the cached slot fits its epoch from the moment anybody may
  look (`CacheFits`), and so does what a sender took away from it (`SendersFit`), with
  any schedule and any setting of the clock; `PortsKept`, what a port received is what
  was handed on, waits, or was spilled by a full channel, in order (`OnePort`: a number
  is sent to one port).
* `WsLink`: `OneWriterAtATime`, the type invariant, whose part that matters is the lock's:
  a task that writes holds the lock of its own end, nobody else does, and it has a
  connection to write to (`HoldsLock`, `MeansToWrite`); no pipe is filled past its window.
* `BulkPath`: `DatagramsStayIntact`, whichever path the pump takes and whatever the
  kernels do. A buffer made of equal pieces and one last, shorter or equal one is cut
  into the very pieces it was made of (`CutIs`), and what a kernel coalesces is such a
  buffer again (`JoinedSplits`). So what the far end was handed, what its reader keeps
  of a coalesced read, and what is on the wire are one sequence of datagrams (`Wire`);
  `Flush` only appends to it and the reader only moves along it (`Orderly`), and every
  datagram before the batch is in it or was given up, never both (`Shared`).
* `WsReader`: `MessagesStayIntact`, `FaultsAreFound`, `AnswersAreEchoes`, for frames of any
  opcodes, sizes and fragmentation. The message under assembly lists the bytes of its
  frames since the opening one (`Underway`), and is therefore as long as those are many
  (`ListIsAsLong`), which makes the reader's verdict on the next frame that of the
  reference (`FrameJudged`). Frames already read keep their parts and their rank as
  more are read (`EarlierFrames`, `RankGrows`), so that what was handed over or answered
  stays the message, or the echo, of the frame of that rank (`Matched`, `Echoed`).

**`ObserverProofs`**:

* `KernelCounters`: `KernelDropsTold`, whatever the counters' width, and whichever reads
  fail: what is remembered of a reading is the reading modulo the width (`Remembered`).
* `PathAlarms`: `FindingsEarned`, an action property: a blackhole that stands was judged
  by a silence, and while nothing arrives the next turn measures the same one, so that
  only the wall clock can make it shorter (`Heard`, `StoodSilent`); and a busy interval
  in the history is one since the last collapse (`BusyKept`).
* `HopCount`: `BaselineMovesOnARun`, an action property: the run counts packets that
  disagreed, all of them the last judged ones (`RunDisagrees`), and with a single
  receiver one value's (`RunAgrees`), for runs of any length.
* `PathWatch`: `LossNotInvented`. Every number counted is at or below the maximum, or in
  the hands of a receiver that has not placed it, or was passed by a rebase
  (`Settled`). So of what was counted when the count was read, what lies above the
  maximum read later was in the receivers' hands (`ReadAhead`); and while nobody
  rebases, the count moves with what is counted (`Counting`). The inequality of
  `LossNotInvented` is then one about cardinalities of intervals (`MissingBound`).
* `EventLog`: `LogIsKept`, the files are the newest stretch of all that was written,
  without a gap or a repeat, none longer than it may be, and they go back as many files
  as are kept, less one for every kill; `LogAccounted`, every event offered is waiting,
  on disk, or counted somewhere. A rotation moves the files one by one and leaves a hole
  below those it has moved; `Packed` allows for it with `Top`, which tells from where
  the writer stands how far the rotation is, `Oldest` says what is gone, and `Writing`
  ties the writer's size and ration to the current file. `Booked` balances the account
  at each step.
* `Strangers`: `StrangersAreCounted`. A row that is not pending is empty
  (`StrangersInv`), so a row that is forgotten has been reported.

Constants are assumed to be what the code makes them and nothing more: each module
states its assumption by name (`WindowAssumption`, `ChannelAssumption`, `GateAssumption`
and so on). They are types of bounds and sizes, and beside that: sets of goroutines
finite where they are counted (`PathAssumption`, `HopCountAssumption`), the nil address
not an address (`GateAssumption`), 0 not a hop count, the collapse rule's history long
enough for its threshold (`AlarmAssumption`), lists of at most 254 identifiers
(`FilterAssumption`; the code takes at most eight). `KernelAssumption`, `HopAssumption`,
`LinkAssumption`, `ReaderAssumption`, `BulkAssumption`, `LogAssumption` and
`StrangersAssumption` only say that widths, epochs, limits and sizes are numbers, positive
where the code's are.

Only model-checked:

* All liveness (`Settles`, `EveryHelloFiled` and the like): fairness and `ENABLED` are out
  of the prover's reach.
* The parts' type invariant, `PartsTypeOK`: the bounds in it are the instance's. The
  proofs use types of their own (`PathTyped`, `SendTyped` and so on), which are free of
  them; the window's (`WindowTypeOK`) has none and is proved.

Every other safety property and action property that a passing run checks has a
theorem. What a fold over frames, rows or batches adds up to is out of the prover's
reach, so those properties are stated without one: as a relation between a sequence
and the set it lists, as ranks, per source and class, or with the place of a file's
first line in the history.

## 5. Findings

1. **Teardown clears the replacement** (`stream_teardown`, `main.go:1565`). The
   receive loop asks `rotatedOut` when its read fails and calls `set(nil)` later; a
   connection installed in between is the one that gets closed. On a listening end
   one rotation suffices. The carrier recovers (`Settles`), at the price of another
   dial.
2. **The wrap can be missed** (`nonce_wrap`, `obfs.go:218`, `dtlsobfs.go:86`). The
   goroutine that draws zero rotates the connection ID only if the counter still
   reads zero, so another sender's count in between makes everyone skip it.
3. **The grace period is a constant** (`roam_late`, `main.go:1143`): it is "longer
   than one keepalive interval" for the default interval only.
4. **The report is not in order** (`report_order`, `dpilog.go:1106`). Files are read
   newest first and each from its oldest line, and what is found is printed in that
   order under the heading "most recent last". After a rotation the last ones
   printed, and the 20 kept of more, are the oldest, and "Latest flow health" is an
   old line. The report also looks for four generations only, and a rotation while
   it reads can make it repeat lines or miss them.
5. **An adopted connection ID may be an old one** (`nonce_adopt`, `obfs.go:193`). The
   ID is whatever the first hello names. If the process restarts within one key epoch
   (or with a static key) and a hello of before it arrives again, the new process is
   back in a space the old one used, with a count that began anew at a random 24-bit
   value. "The packet number keeps climbing across the change" holds within one process
   (`NonceUniqueInOneProcess`), not from one to the next.
6. **A recovery may be the clock's** (`recovery`, `dpilog.go:677`). The silence since the
   last packet is a difference of wall-clock readings. Set back while a blackhole
   stands, the clock makes it short, and `path.recovered`, "traffic from the peer
   resumed", is reported though nothing came. `FindingsEarned` says what does hold.
   Set forth, the clock makes a silence long at once, and a blackhole is reported early
   in the same way.

### Seen while modelling

Smaller disagreements between code and comment, not given a run of their own:

* DTLS restart (`NonceSpace`): a new process draws its epoch from sixteen random bits
  (`dtlsobfs.go:70`) and its first number from thirty-two. It may draw the epoch of the
  process before it and begin below where that one ended, so a restart inside one rekey
  interval makes a repeat unlikely, where the comment (`dtlsobfs.go:53`) says that it
  "cannot reissue" a pair and compares it with a connection ID's 64 bits. `Restart`
  models the draw, and `RepeatsOnlyOnReturn` says what does hold.
* Hop count (`HopCount`): with several receive goroutines, an add that comes late can
  join the runs of two foreign hop counts, so that the baseline moves without "a
  sustained run of agreeing packets" (`dpilog.go:350`); `BaselineMovesOnARun` says how
  much does hold. While learning, the fourth packet's value is adopted without being
  compared with the others (`dpilog.go:333` says "require a couple of agreeing
  samples"). `peerRoamed` clears `peerTTL` before `peerTTLSeen`, so that one packet between
  the two can be adopted at once.
* Loss (`PathWatch`): a turn that falls between the four stores of a rebase, or a
  rebase between the turn's loads, still raises the false burst that the comment at
  `dpilog.go:301` sets out to prevent. `LossNotInvented` excepts such intervals. Two
  receivers that rebase at once (the plain stores at `dpilog.go:307`) can also leave the
  maximum below a number already counted; the next turns then miss that number once
  more than they should. `LossNotInvented` allows for what a rebase so passed.
* `kernelWatch` forgets its last reading when a read fails and passes over what the
  counter moved by; `icmpWatch` keeps it.
* A stranger's record counts datagrams per window but bytes and sizes since the
  source was first seen.
* `sendmmsg` (`mmsg.go:90`) says the caller "must resend the remainder"; the pump drops
  it, on purpose (`icmp.go:1134`).
* Echo-reply rules: a signal before `stopOnSignal`, or a `log.Fatalf`, leaves them
  behind; a catch-all left so survives later runs that install rules for single
  identifiers, and ordinary ping does not work then; two ICMP tunnels on one host share
  the nft table, and the second one's start deletes the first one's rules. A set that
  `applyIPTables` fails on leaves those rules in place that were there before, and, where
  a `-D` fails as well, some of its own, against "a half-applied set is never left
  behind" (`icmp.go:579`). A `-C` that fails for another reason than that the rule is
  missing makes `-A` put it in twice, of which the undo removes one.
* `hopCarrier.rx` is never closed, so `Recv` never returns `net.ErrClosed`; the caller
  of `newHopCarrier` exits rather than falling back to one socket. Ports in another
  order at the other end would not desynchronise the ends, since every port is bound.
* WebSocket: the reader takes a frame whether or not it is masked (`ws.go:243`), on both
  sides, and a close whose body is a single byte; RFC 6455 forbids a server's masked and
  a client's bare frame. `wsAppendFrame` itself masks as the RFC requires, and no
  comment says that the reader insists, so this is no finding; `FaultsFound` speaks only
  of the rules the reader has.
* Desync: near a peer no TTL is short enough and the fallback TTL reaches it, against
  "so they never arrive" (`icmp.go`, `icmpDesyncAgent`).

## 6. What is not modelled, and why

* **Disguise encodings** (`quicinit.go`, `tls.go`, `dtlsobfs.go`, `csprng.go`): byte
  layouts and their parsing, straight-line code with no state to interleave.
* **Desync decoys, junk, split** (`desync.go`, `junk.go`, `split.go`): cover packets that
  no tunnel opens, sent on a timer through a raw socket. What is left is arithmetic on
  a TTL, of which a model could only repeat the guards.
* **Configuration, start-up, statistics**: read once, or written to a file; nothing
  waits for it.
* **Scripts**: shell that drives systemd, `ip` and iptables. The failover watcher of
  `aestun-mp.sh` decides on the outputs of those commands, one loop in one process.
* Of the modelled components: the HTTP upgrade and the choice of an address to dial,
  masking, the ICMP read loops (they read, parse and hand on), ICMP checksums,
  round-trip times and the probe, the health line, and the wording of every record.

What could follow: an abstract specification each for `StreamCarrier` (one working
connection per end) and `HelloGate` (a mailbox of one), with their refinements.
