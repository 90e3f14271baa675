--------------------------- MODULE StreamCarrier ----------------------------
(***************************************************************************)
(* The stream carriers (main.go tcpCarrier, tcprotate.go, wscarrier.go):   *)
(* which connection each end is using, and how it is replaced.             *)
(*                                                                         *)
(* One end dials, the other listens.  At each end three kinds of goroutine *)
(* share one tcpCarrier: the one that installs connections (the dial loop, *)
(* or the accept loop and its admissions), the receive loop of runStream,  *)
(* and the senders.  They meet in set, current and rotatedOut, each of     *)
(* which is atomic under mu -- and in nothing else, so every other step of *)
(* theirs interleaves freely.                                              *)
(*                                                                         *)
(* What is sent is left out but for one bit per connection: whether the    *)
(* dialer has sent anything on it, which is what admits it at a WebSocket  *)
(* listener.  A failed dial leaves no trace and is no step here.           *)
(***************************************************************************)
EXTENDS Integers, FiniteSets

CONSTANTS
  Kinds,         \* carriers configured: TRUE WebSocket, through a CDN; FALSE plain TCP
  Rotates,       \* whether the dialer replaces its connection on a timer
  MaxConns,      \* bound: connections the dialer ever opens
  MaxRotations,  \* bound: times the rotation timer fires
  MaxFaults,     \* bound: connections the network breaks or spoils
  Prompt,        \* whether half a second is always enough for the receive loop of a
                 \* WebSocket dialer to finish a teardown it has begun (scheduling
                 \* the code hopes for)
  Slots          \* handshakes a WebSocket listener runs at once (256 in the code)

ASSUME StreamAssumption ==
  /\ Kinds \subseteq BOOLEAN /\ Rotates \in BOOLEAN /\ Prompt \in BOOLEAN
  /\ MaxConns \in Nat /\ MaxRotations \in Nat /\ MaxFaults \in Nat
  /\ Slots \in Nat \ {0}

None  == 0
Conns == 1 .. MaxConns
Ends  == {"dialer", "listener"}
Other(e) == IF e = "dialer" THEN "listener" ELSE "dialer"

\* The goroutines that call set: the dial loop, the two receive loops, and
\* for each connection the accept step or admission that installs it.
DialProc    == 0
ReadProc(e) == IF e = "dialer" THEN -1 ELSE -2
Procs == {DialProc, ReadProc("dialer"), ReadProc("listener")} \cup Conns

VARIABLES
  ws,         \* cfg.Transport = "ws": fixed at start-up
  conn,       \* conn[e]: tcpCarrier.conn, the active connection
  done,       \* done[e]: the connection whose done channel tcpCarrier.done is
  closes,     \* closes[e][c]: how often c's done channel has been closed
  sock,       \* sock[e][c]: the socket of c at end e
  stage,      \* stage[c]: how far the listener has got with c
  retire,     \* retire[p]: what p's call of set has yet to close
  dialed,     \* connections opened so far
  dpc, dconn, \* the dial loop: where it is, and the connection it looks after
  rpc, rconn, \* the receive loops: where they are, and what they read
  sent,       \* connections the dialer has sent something on
  rotations,  \* times the rotation timer has fired
  faults      \* faults the network has caused

carrierVars == <<conn, done, closes, sock, retire>>
dialVars    == <<dialed, dpc, dconn>>
readVars    == <<rpc, rconn>>
envVars     == <<ws, rotations, faults>>
vars == <<carrierVars, dialVars, readVars, stage, sent, envVars>>

NoRetire == [done |-> None, conn |-> None]
Idle(p)  == retire[p] = NoRetire
EndOf(p) == IF p \in {DialProc, ReadProc("dialer")} THEN "dialer" ELSE "listener"

Init ==
  /\ ws \in Kinds
  /\ conn = [e \in Ends |-> None]
  /\ done = [e \in Ends |-> None]
  /\ closes = [e \in Ends |-> [c \in Conns |-> 0]]
  /\ sock = [e \in Ends |-> [c \in Conns |-> "none"]]
  /\ stage = [c \in Conns |-> "none"]
  /\ retire = [p \in Procs |-> NoRetire]
  /\ dialed = 0 /\ dpc = "dial" /\ dconn = None
  /\ rpc = [e \in Ends |-> "top"]
  /\ rconn = [e \in Ends |-> None]
  /\ sent = {}
  /\ rotations = 0 /\ faults = 0

-----------------------------------------------------------------------------
(* tcpCarrier.set, the part under mu: the new connection and its new done  *)
(* channel replace the old pair; the old pair is the caller's to close.    *)

\* The old done channel stays in place when the carrier is cleared.
MutantSet(p, new) ==
  LET e == EndOf(p) IN
  /\ conn' = [conn EXCEPT ![e] = new]
  /\ done' = [done EXCEPT ![e] = IF new = None THEN @ ELSE new]
  /\ retire' = [retire EXCEPT ![p] = [done |-> done[e], conn |-> conn[e]]]

Set(p, new) ==
  LET e == EndOf(p) IN
  /\ conn' = [conn EXCEPT ![e] = new]
  /\ done' = [done EXCEPT ![e] = new]
  /\ retire' = [retire EXCEPT ![p] =
       [done |-> done[e], conn |-> IF conn[e] = new THEN None ELSE conn[e]]]

\* The dial loop is never told.
MutantRetireSilent(p) ==
  LET e == EndOf(p)
      c == retire[p].conn IN
  /\ ~Idle(p)
  /\ sock' = IF c = None THEN sock ELSE [sock EXCEPT ![e][c] = "closed"]
  /\ retire' = [retire EXCEPT ![p] = NoRetire]
  /\ UNCHANGED <<conn, done, closes, dialVars, readVars, stage, sent, envVars>>

\* The old connection is left open.
MutantRetireLeaky(p) ==
  LET e == EndOf(p)
      d == retire[p].done IN
  /\ ~Idle(p)
  /\ closes' = IF d = None THEN closes ELSE [closes EXCEPT ![e][d] = @ + 1]
  /\ retire' = [retire EXCEPT ![p] = NoRetire]
  /\ UNCHANGED <<conn, done, sock, dialVars, readVars, stage, sent, envVars>>

\* set, after mu: close the old done channel, then the old connection.
Retire(p) ==
  LET e == EndOf(p)
      d == retire[p].done
      c == retire[p].conn IN
  /\ ~Idle(p)
  /\ closes' = IF d = None THEN closes ELSE [closes EXCEPT ![e][d] = @ + 1]
  /\ sock' = IF c = None THEN sock ELSE [sock EXCEPT ![e][c] = "closed"]
  /\ retire' = [retire EXCEPT ![p] = NoRetire]
  /\ UNCHANGED <<conn, done, dialVars, readVars, stage, sent, envVars>>

RotatedOut(e, c) == conn[e] # None /\ conn[e] # c

-----------------------------------------------------------------------------
(* The dial loop: tcpDialLoop, or wsDialLoop with wsHold.                  *)

Admitting == {c \in Conns : stage[c] = "admitting"}

\* A dial that went through.  Over TCP the connection waits in the accept
\* queue; over WebSocket the 101 has come back, so a handshake slot is held.
Dial ==
  /\ dpc = "dial" /\ Idle(DialProc)
  /\ dialed < MaxConns
  /\ ws => Cardinality(Admitting) < Slots
  /\ LET c == dialed + 1 IN
       /\ dialed' = c
       /\ dconn' = c
       /\ sock' = [e \in Ends |-> [sock[e] EXCEPT ![c] = "open"]]
       /\ stage' = [stage EXCEPT ![c] = IF ws THEN "admitting" ELSE "queued"]
  /\ dpc' = "connected"
  /\ UNCHANGED <<conn, done, closes, retire, readVars, sent, envVars>>

\* The opening flight cannot be written, or the upgrade fails at the last
\* moment: the connection is closed without ever having been installed.
DialAborted ==
  /\ dpc = "connected"
  /\ faults < MaxFaults
  /\ faults' = faults + 1
  /\ sock' = [sock EXCEPT !["dialer"][dconn] = "closed"]
  /\ dpc' = "dial"
  /\ UNCHANGED <<conn, done, closes, retire, dialed, dconn, readVars, stage, sent,
                 rotations, ws>>

Install ==
  /\ dpc = "connected"
  /\ Set(DialProc, dconn)
  /\ dpc' = IF ws THEN "announce" ELSE "hold"
  /\ UNCHANGED <<closes, sock, dialed, dconn, readVars, stage, sent, envVars>>

\* Send reaches the active connection, if there is one and it takes data.
Writable(e) == {c \in Conns : c = conn[e] /\ sock[e][c] = "open"}

Announce ==
  /\ dpc = "announce" /\ Idle(DialProc)
  /\ sent' = sent \cup Writable("dialer")
  /\ dpc' = "hold"
  /\ UNCHANGED <<carrierVars, dialed, dconn, readVars, stage, envVars>>

\* The listener's keepalives reach the dialer on c.
Hears(c) ==
  conn["listener"] = c /\ \A e \in Ends : sock[e][c] = "open"

\* No goroutine is between two of its steps: each is asleep, waiting for a
\* timer, or blocked in a read or in an admission whose message is not coming.
AtRest ==
  /\ \A p \in Procs : Idle(p)
  /\ \A e \in Ends : rpc[e] \in {"top", "read"}
  /\ \A c \in Conns : stage[c] # "accepted" /\ ~(stage[c] = "admitting" /\ c \in sent)

HoldDone ==
  /\ dpc = "hold" /\ Idle(DialProc)
  /\ closes["dialer"][dconn] > 0
  /\ dpc' = "breath"
  /\ UNCHANGED <<carrierVars, dialed, dconn, readVars, stage, sent, envVars>>

HoldDue ==
  /\ dpc = "hold" /\ Idle(DialProc)
  /\ Rotates /\ rotations < MaxRotations
  /\ rotations' = rotations + 1
  /\ dpc' = "dial"
  /\ UNCHANGED <<carrierVars, dialed, dconn, readVars, stage, sent, faults, ws>>

\* The idle watchdog of wsHold finds the connection stale.  Its interval is
\* three of the listener's keepalives and at least 45 s, so by then whatever
\* the other goroutines had begun is over.
HoldIdle ==
  /\ dpc = "hold" /\ Idle(DialProc)
  /\ ws /\ ~Hears(dconn) /\ AtRest
  /\ dpc' = IF conn["dialer"] = dconn THEN "clear" ELSE "breath"
  /\ UNCHANGED <<carrierVars, dialed, dconn, readVars, stage, sent, envVars>>

ClearIdle ==
  /\ dpc = "clear"
  /\ Set(DialProc, None)
  /\ dpc' = "breath"
  /\ UNCHANGED <<closes, sock, dialed, dconn, readVars, stage, sent, envVars>>

\* The receive loop has nothing half done: no failed read to act on.
Quiet(e) ==
  /\ Idle(ReadProc(e))
  /\ \/ rpc[e] = "top"
     \/ rpc[e] = "read" /\ sock[e][rconn[e]] = "open"

\* The pause before the redial (half a second or a second).
Breath ==
  /\ dpc = "breath" /\ Idle(DialProc)
  /\ Prompt /\ ws => Quiet("dialer")
  /\ dpc' = "dial"
  /\ UNCHANGED <<carrierVars, dialed, dconn, readVars, stage, sent, envVars>>

Dialer ==
  Dial \/ Install \/ Announce \/ HoldDone \/ HoldDue \/ HoldIdle \/ ClearIdle
  \/ Breath

\* Keepalives, probes and TUN traffic.
SendData ==
  /\ Writable("dialer") \ sent # {}
  /\ sent' = sent \cup Writable("dialer")
  /\ UNCHANGED <<carrierVars, dialVars, readVars, stage, envVars>>

-----------------------------------------------------------------------------
(* The listening end: runTCP's accept loop, or wsAcceptLoop's admissions.  *)

\* Over TCP connections are accepted one at a time, in the order they came.
Accept(c) ==
  /\ stage[c] = "queued"
  /\ \A b \in Conns : stage[b] # "accepted" /\ Idle(b) /\ (b < c => stage[b] # "queued")
  /\ stage' = [stage EXCEPT ![c] = "accepted"]
  /\ UNCHANGED <<carrierVars, dialVars, readVars, sent, envVars>>

\* Over WebSocket each handshake has its own goroutine, and the dialer's
\* first message ends it whenever it gets there.
Admit(c) ==
  /\ stage[c] = "admitting"
  /\ c \in sent
  /\ stage' = [stage EXCEPT ![c] = "accepted"]
  /\ UNCHANGED <<carrierVars, dialVars, readVars, sent, envVars>>

\* The server flight cannot be written, or no first message comes before the
\* connection or the admission deadline is gone.
TurnAway(c) ==
  /\ \/ stage[c] = "accepted" /\ ~ws /\ sock["listener"][c] = "dead"
     \/ stage[c] = "admitting" /\ sock["listener"][c] = "dead"
     \/ stage[c] = "admitting" /\ c \notin sent /\ sock["dialer"][c] # "open"
  /\ stage' = [stage EXCEPT ![c] = "refused"]
  /\ sock' = [sock EXCEPT !["listener"][c] = "closed"]
  /\ UNCHANGED <<conn, done, closes, retire, dialVars, readVars, sent, envVars>>

InstallAccepted(c) ==
  /\ stage[c] = "accepted"
  /\ Set(c, c)
  /\ stage' = [stage EXCEPT ![c] = "installed"]
  /\ UNCHANGED <<closes, sock, dialVars, readVars, sent, envVars>>

Listener(c) == Accept(c) \/ Admit(c) \/ TurnAway(c) \/ InstallAccepted(c)

-----------------------------------------------------------------------------
(* The receive loop of runStream, with Recv, recvTLS or recvWS inside it.  *)

ReadIdle(e) == Idle(ReadProc(e))

\* conn := c.current(), once there is one.
TakeConn(e) ==
  /\ rpc[e] = "top" /\ ReadIdle(e)
  /\ conn[e] # None
  /\ rconn' = [rconn EXCEPT ![e] = conn[e]]
  /\ rpc' = [rpc EXCEPT ![e] = "read"]
  /\ UNCHANGED <<carrierVars, dialVars, stage, sent, envVars>>

\* A message arrives and is handed on; the next call starts from the top.
Receive(e) ==
  /\ rpc[e] = "read"
  /\ sock[e][rconn[e]] = "open"
  /\ IF e = "dialer" THEN stage[rconn[e]] = "installed" ELSE rconn[e] \in sent
  /\ rpc' = [rpc EXCEPT ![e] = "top"]
  /\ UNCHANGED <<carrierVars, dialVars, rconn, stage, sent, envVars>>

ReadFails(e) ==
  /\ rpc[e] = "read"
  /\ sock[e][rconn[e]] \in {"dead", "closed"}
  /\ rpc' = [rpc EXCEPT ![e] = "failed"]
  /\ UNCHANGED <<carrierVars, dialVars, rconn, stage, sent, envVars>>

\* A record length no TLS record can have: returned without asking whether
\* the connection has been rotated out.
Desync(e) ==
  /\ rpc[e] = "read" /\ ~ws
  /\ faults < MaxFaults
  /\ faults' = faults + 1
  /\ rpc' = [rpc EXCEPT ![e] = "drop"]
  /\ UNCHANGED <<carrierVars, dialVars, rconn, stage, sent, rotations, ws>>

\* A failed read is never taken for the end of the connection.
MutantAfterFailure(e) ==
  /\ rpc[e] = "failed"
  /\ rpc' = [rpc EXCEPT ![e] = "top"]
  /\ UNCHANGED <<carrierVars, dialVars, rconn, stage, sent, envVars>>

\* Was the connection replaced under the read?  Then move on, else give up.
AfterFailure(e) ==
  /\ rpc[e] = "failed"
  /\ rpc' = [rpc EXCEPT ![e] = IF RotatedOut(e, rconn[e]) THEN "top" ELSE "drop"]
  /\ UNCHANGED <<carrierVars, dialVars, rconn, stage, sent, envVars>>

\* c.set(nil): clears whatever connection is active by now.
Drop(e) ==
  /\ rpc[e] = "drop"
  /\ Set(ReadProc(e), None)
  /\ rpc' = [rpc EXCEPT ![e] = "top"]
  /\ UNCHANGED <<closes, sock, dialVars, rconn, stage, sent, envVars>>

Reader(e) ==
  TakeConn(e) \/ Receive(e) \/ ReadFails(e) \/ AfterFailure(e) \/ Drop(e)

-----------------------------------------------------------------------------
(* The network.                                                            *)

\* A socket starts failing: a reset, or the kernel giving up on the path.
Break(e, c) ==
  /\ faults < MaxFaults
  /\ faults' = faults + 1
  /\ sock[e][c] = "open"
  /\ sock' = [sock EXCEPT ![e][c] = "dead"]
  /\ UNCHANGED <<conn, done, closes, retire, dialVars, readVars, stage, sent, rotations, ws>>

\* The far end is gone and this end notices: a FIN or a reset, or TCP
\* keepalive when neither came.  Through a CDN it may never notice.
NoticeGone(e, c) ==
  /\ sock[e][c] = "open"
  /\ sock[Other(e)][c] \in {"dead", "closed"}
  /\ sock' = [sock EXCEPT ![e][c] = "dead"]
  /\ UNCHANGED <<conn, done, closes, retire, dialVars, readVars, stage, sent, envVars>>

-----------------------------------------------------------------------------
Next ==
  \/ Dialer \/ DialAborted \/ SendData
  \/ \E c \in Conns : Listener(c)
  \/ \E e \in Ends : Reader(e) \/ Desync(e)
  \/ \E p \in Procs : Retire(p)
  \/ \E e \in Ends, c \in Conns : Break(e, c) \/ NoticeGone(e, c)

\* Goroutines are scheduled, timers fire, a keepalive is sent on an idle
\* connection, a dial eventually goes through; and over TCP the kernel ends
\* a connection whose far end is gone.
Fairness ==
  /\ WF_vars(Dialer) /\ WF_vars(SendData)
  /\ \A c \in Conns : WF_vars(Listener(c))
  /\ \A e \in Ends :
       /\ WF_vars(TakeConn(e)) /\ WF_vars(ReadFails(e))
       /\ WF_vars(AfterFailure(e)) /\ WF_vars(Drop(e))
  /\ \A p \in Procs : WF_vars(Retire(p))
  /\ \A e \in Ends, c \in Conns : WF_vars(~ws /\ NoticeGone(e, c))

Spec == Init /\ [][Next]_vars /\ Fairness

-----------------------------------------------------------------------------
Retiring(e) == {p \in Procs : EndOf(p) = e /\ ~Idle(p)}

TypeOK ==
  /\ ws \in Kinds
  /\ conn \in [Ends -> Conns \cup {None}]
  /\ done \in [Ends -> Conns \cup {None}]
  /\ closes \in [Ends -> [Conns -> Nat]]
  /\ sock \in [Ends -> [Conns -> {"none", "open", "dead", "closed"}]]
  /\ stage \in [Conns -> {"none", "queued", "admitting", "accepted", "installed", "refused"}]
  /\ retire \in [Procs -> [done : Conns \cup {None}, conn : Conns \cup {None}]]
  /\ dialed \in 0 .. MaxConns
  /\ dpc \in {"dial", "connected", "announce", "hold", "clear", "breath"}
  /\ dconn \in 0 .. dialed
  /\ rpc \in [Ends -> {"top", "read", "failed", "drop"}]
  /\ rconn \in [Ends -> 0 .. dialed]
  /\ \A e \in Ends : rpc[e] # "top" => rconn[e] # None
  /\ sent \subseteq 1 .. dialed
  /\ rotations \in 0 .. MaxRotations
  /\ faults \in 0 .. MaxFaults

(* A done channel is closed at most once, whoever retires the connection   *)
(* -- the receive loop, the watchdog, or the replacement: closing a closed *)
(* channel would end the process (tcpCarrier.set).                         *)
DoneClosedOnce == \A e \in Ends, c \in Conns : closes[e][c] <= 1

(* The dial loop is never left waiting on a connection that is no longer   *)
(* the active one: its done channel has been closed, or whoever retired it *)
(* is about to close it (tcpDialLoop's and wsHold's wait).                 *)
NoLostWakeup ==
  (dpc = "hold" /\ Idle(DialProc) /\ conn["dialer"] # dconn) =>
    \/ closes["dialer"][dconn] > 0
    \/ \E p \in Retiring("dialer") : retire[p].done = dconn

(* No socket is forgotten: one that has not been closed is the active one, *)
(* is about to be closed, or is still in the hands of the dial loop or of  *)
(* the listener's accept loop and admissions (types included).             *)
NoLeakedSocket ==
  /\ TypeOK
  /\ \A e \in Ends, c \in Conns :
       sock[e][c] \in {"open", "dead"} =>
         \/ conn[e] = c
         \/ \E p \in Retiring(e) : retire[p].conn = c
         \/ e = "dialer" /\ dpc = "connected" /\ dconn = c
         \/ e = "listener" /\ stage[c] \in {"queued", "admitting", "accepted"}

(* Both ends use the same connection, it is up, and both are reading it.   *)
Joined ==
  \E c \in Conns :
    \A e \in Ends :
      conn[e] = c /\ sock[e][c] = "open" /\ rpc[e] \in {"top", "read"}
                  /\ (rpc[e] = "read" => rconn[e] = c)

(* Whatever was rotated, broken, admitted out of order or torn down by the *)
(* receive loop, once the network stops interfering both ends settle on    *)
(* one working connection (the dial loop's job, with the watchdog's help   *)
(* behind a CDN).                                                          *)
Settles == <>[]Joined

(* "A read error on a rotated-out connection is expected ... and must not  *)
(* tear the carrier down" (rotatedOut, main.go): when the receive loop     *)
(* gives up, the connection it clears is the one whose read failed.        *)
DropsOnlyWhatFailed ==
  [][\A e \in Ends : Drop(e) => conn[e] \in {None, rconn[e]}]_vars
=============================================================================
