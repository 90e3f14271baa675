------------------------------ MODULE UdpRoam -------------------------------
(***************************************************************************)
(* How the UDP carrier's dialing end moves to a fresh source port and the  *)
(* listening end follows (main.go rotateOnce, udpRotateLoop, recvInto;     *)
(* tunnel.go maybeRoam).                                                   *)
(*                                                                         *)
(* The dialer's sockets are numbered in the order they are bound, and a    *)
(* socket's number stands for its source port.  The rotator swaps the      *)
(* carrier's socket under senders and several receive goroutines that load *)
(* it without a lock.  The network delays, reorders and loses datagrams in *)
(* both directions; a datagram is its port and its age, for any that       *)
(* authenticates moves the listener to the port it came from.              *)
(*                                                                         *)
(* Time is counted in ticks, kept as ages so that behaviours may run for   *)
(* ever.  The rotator's own steps take no time.                            *)
(***************************************************************************)
EXTENDS Integers, FiniteSets

CONSTANTS
  Readers,    \* the dialer's receive goroutines
  MaxSocks,   \* bound: sockets ever bound
  Gap,        \* least time between rotations (60 s less the jitter)
  Grace,      \* udpRotateGrace: how long a retired socket stays open
  Keepalive,  \* most time between keepalives (the interval and its jitter)
  Transit,    \* most time a datagram is on its way
  MaxLosses   \* bound: datagrams from the dialer that are lost

ASSUME RoamAssumption ==
  /\ MaxSocks \in Nat \ {0}
  /\ Gap \in Nat \ {0} /\ Grace \in Nat \ {0} /\ Keepalive \in Nat \ {0}
  /\ Transit \in Nat /\ MaxLosses \in Nat

Socks == 1 .. MaxSocks

VARIABLES
  conn,      \* udpCarrier.conn
  sock,      \* each socket: unbound, open or closed
  expired,   \* sockets whose read deadline has been set in the past
  retired,   \* how long ago each socket was swapped out, up to Grace
  bound,     \* sockets bound so far
  rot,       \* where the rotator is
  old,       \* the socket it is replacing
  since,     \* time since it last woke, up to Gap
  quiet,     \* time since the last keepalive
  rpc,       \* where each receive goroutine is
  rsock,     \* the socket it loaded
  errs,      \* the read errors in a row it has counted
  up,        \* datagrams on their way to the listener
  peer,      \* the listener's Tunnel.peer
  down,      \* datagrams on their way to the dialer
  losses     \* datagrams lost so far

rotVars  == <<conn, sock, expired, bound, rot, old>>
timeVars == <<retired, since, quiet>>
readVars == <<rpc, rsock, errs>>
vars == <<rotVars, timeVars, readVars, up, peer, down, losses>>

Init ==
  /\ conn = 1 /\ bound = 1
  /\ sock = [s \in Socks |-> IF s = 1 THEN "open" ELSE "unbound"]
  /\ expired = {}
  /\ retired = [s \in Socks |-> 0]
  /\ rot = "sleep" /\ old = 1
  /\ since = 0 /\ quiet = 0
  /\ rpc = [r \in Readers |-> "top"]
  /\ rsock = [r \in Readers |-> 1]
  /\ errs = [r \in Readers |-> 0]
  /\ up = {} /\ down = {} /\ peer = 1
  /\ losses = 0

Sent(s) == up' = up \cup {[port |-> s, age |-> 0]}

-----------------------------------------------------------------------------
(* The rotator.                                                            *)

Bind ==
  /\ rot = "sleep" /\ since = Gap
  /\ bound < MaxSocks
  /\ bound' = bound + 1
  /\ sock' = [sock EXCEPT ![bound'] = "open"]
  /\ old' = conn
  /\ rot' = "swap"
  /\ UNCHANGED <<conn, expired, timeVars, readVars, up, peer, down, losses>>

\* rotateOnce installs the replacement, and only then expires the old one.
Swap ==
  /\ rot = "swap"
  /\ conn' = bound
  /\ rot' = "expire"
  /\ UNCHANGED <<sock, expired, bound, old, timeVars, readVars, up, peer, down, losses>>

\* The parked reads are left parked.
MutantExpire ==
  /\ rot = "expire"
  /\ rot' = "announce"
  /\ retired' = [retired EXCEPT ![old] = 0]
  /\ UNCHANGED <<conn, sock, expired, bound, old, since, quiet, readVars, up, peer, down,
                 losses>>

\* SetReadDeadline on the old socket; its grace period begins.
Expire ==
  /\ rot = "expire"
  /\ expired' = expired \cup {old}
  /\ retired' = [retired EXCEPT ![old] = 0]
  /\ rot' = "announce"
  /\ UNCHANGED <<conn, sock, bound, old, since, quiet, readVars, up, peer, down, losses>>

\* A keepalive straight from the new port, then sleep.
Announce ==
  /\ rot = "announce"
  /\ Sent(conn)
  /\ rot' = "sleep" /\ since' = 0
  /\ UNCHANGED <<conn, sock, expired, bound, old, retired, quiet, readVars, peer, down,
                 losses>>

Retired(s) == sock[s] = "open" /\ s # conn /\ s \in expired

\* The retired socket is closed at once.
MutantClose(s) ==
  /\ Retired(s)
  /\ sock' = [sock EXCEPT ![s] = "closed"]
  /\ UNCHANGED <<conn, expired, bound, rot, old, timeVars, readVars, up, peer, down, losses>>

\* The retired socket's own goroutine closes it after the grace period.
Close(s) ==
  /\ Retired(s) /\ retired[s] = Grace
  /\ sock' = [sock EXCEPT ![s] = "closed"]
  /\ UNCHANGED <<conn, expired, bound, rot, old, timeVars, readVars, up, peer, down, losses>>

-----------------------------------------------------------------------------
(* The dialer's senders.                                                   *)

\* TUN traffic, by a sender that may have loaded the socket before the swap.
Send(s) ==
  /\ s = conn \/ (s = old /\ sock[s] = "open" /\ retired[s] = 0)
  /\ Sent(s)
  /\ UNCHANGED <<rotVars, timeVars, readVars, peer, down, losses>>

\* The keepalive loop stays with the socket it started on.
MutantBeat ==
  /\ quiet > 0
  /\ Sent(1)
  /\ quiet' = 0
  /\ UNCHANGED <<rotVars, retired, since, readVars, peer, down, losses>>

\* keepaliveLoop
Beat ==
  /\ quiet > 0
  /\ Sent(conn)
  /\ quiet' = 0
  /\ UNCHANGED <<rotVars, retired, since, readVars, peer, down, losses>>

-----------------------------------------------------------------------------
(* The dialer's receive goroutines: recvInto.                              *)

Load(r) ==
  /\ rpc[r] = "top"
  /\ rsock' = [rsock EXCEPT ![r] = conn]
  /\ rpc' = [rpc EXCEPT ![r] = "read"]
  /\ UNCHANGED <<rotVars, timeVars, errs, up, peer, down, losses>>

Read(r, m) ==
  /\ rpc[r] = "read"
  /\ m.port = rsock[r] /\ sock[m.port] = "open" /\ m.port \notin expired
  /\ down' = down \ {m}
  /\ rpc' = [rpc EXCEPT ![r] = "top"]
  /\ errs' = [errs EXCEPT ![r] = 0]
  /\ UNCHANGED <<rotVars, timeVars, rsock, up, peer, losses>>

ReadFails(r) ==
  /\ rpc[r] = "read"
  /\ sock[rsock[r]] = "closed" \/ rsock[r] \in expired
  /\ rpc' = [rpc EXCEPT ![r] = "failed"]
  /\ UNCHANGED <<rotVars, timeVars, rsock, errs, up, peer, down, losses>>

\* errRotated if the socket has been swapped; if not, an error is counted.
Resume(r) ==
  /\ rpc[r] = "failed"
  /\ rpc' = [rpc EXCEPT ![r] = "top"]
  /\ errs' = IF conn # rsock[r] THEN errs ELSE [errs EXCEPT ![r] = @ + 1]
  /\ UNCHANGED <<rotVars, timeVars, rsock, up, peer, down, losses>>

-----------------------------------------------------------------------------
(* The listener: an authenticated datagram moves the peer address.         *)

Follow(m) ==
  /\ m \in up
  /\ up' = up \ {m}
  /\ peer' = m.port
  /\ UNCHANGED <<rotVars, timeVars, readVars, down, losses>>

ListenerSend ==
  /\ down' = down \cup {[port |-> peer, age |-> 0]}
  /\ UNCHANGED <<rotVars, timeVars, readVars, up, peer, losses>>

-----------------------------------------------------------------------------
(* The network and the clock.                                              *)

Lose(m) ==
  /\ m \in up
  /\ losses < MaxLosses
  /\ losses' = losses + 1
  /\ up' = up \ {m}
  /\ UNCHANGED <<rotVars, timeVars, readVars, peer, down>>

\* Lost, or absorbed by a retired socket nobody reads.
Vanish(m) ==
  /\ m \in down
  /\ down' = down \ {m}
  /\ UNCHANGED <<rotVars, timeVars, readVars, up, peer, losses>>

Least(a, b) == IF a < b THEN a ELSE b
Older(net)  == {[m EXCEPT !.age = @ + 1] : m \in net}

\* Time passes only as far as what is due lets it.
Tick ==
  /\ rot = "sleep"
  /\ quiet < Keepalive
  /\ \A m \in up \cup down : m.age < Transit
  /\ \A s \in Socks : Retired(s) => retired[s] < Grace
  /\ quiet' = quiet + 1
  /\ since' = Least(since + 1, Gap)
  /\ retired' = [s \in Socks |-> IF Retired(s) THEN retired[s] + 1 ELSE retired[s]]
  /\ up' = Older(up) /\ down' = Older(down)
  /\ UNCHANGED <<rotVars, readVars, peer, losses>>

-----------------------------------------------------------------------------
Rotator == Bind \/ Swap \/ Expire \/ Announce
Reader(r) == Load(r) \/ ReadFails(r) \/ Resume(r)

Next ==
  \/ Rotator \/ Beat \/ ListenerSend \/ Tick
  \/ \E s \in Socks : Close(s) \/ Send(s)
  \/ \E r \in Readers : Reader(r) \/ \E m \in down : Read(r, m)
  \/ \E m \in up : Follow(m) \/ Lose(m)
  \/ \E m \in down : Vanish(m)

\* Timers fire, goroutines run, time passes, and what is sent and not lost
\* arrives before it is too old.
Fairness ==
  /\ WF_vars(Swap \/ Expire \/ Announce)
  /\ WF_vars(Tick) /\ WF_vars(Beat)
  /\ \A s \in Socks : WF_vars(Close(s))
  /\ \A r \in Readers : WF_vars(Reader(r))
  /\ WF_vars(\E m \in up : m.age = Transit /\ Follow(m))
  /\ WF_vars(\E m \in down : m.age = Transit /\ Vanish(m))

Spec == Init /\ [][Next]_vars /\ Fairness

-----------------------------------------------------------------------------
Datagrams == [port : Socks, age : 0 .. Transit]

TypeOK ==
  /\ conn \in 1 .. bound
  /\ sock \in [Socks -> {"unbound", "open", "closed"}]
  /\ expired \subseteq 1 .. bound
  /\ retired \in [Socks -> 0 .. Grace]
  /\ bound \in Socks
  /\ rot \in {"sleep", "swap", "expire", "announce"}
  /\ old \in 1 .. bound
  /\ since \in 0 .. Gap
  /\ quiet \in 0 .. Keepalive
  /\ rpc \in [Readers -> {"top", "read", "failed"}]
  /\ rsock \in [Readers -> 1 .. bound]
  /\ errs \in [Readers -> Nat]
  /\ up \subseteq Datagrams /\ down \subseteq Datagrams
  /\ peer \in 1 .. bound
  /\ losses \in 0 .. MaxLosses

(* The receive goroutines do not notice a rotation (types included).       *)
(* "That is not a failure: the replacement is already installed"           *)
(* (recvInto): none is ever counted as a read error, whose thirty-second   *)
(* ends the process.  And once the rotator is back asleep no goroutine     *)
(* stays parked on a socket nothing is addressed to, not even one that     *)
(* loaded the socket before the swap and began its read after it           *)
(* (rotateOnce's deadline).                                                *)
RotationUnnoticed ==
  /\ TypeOK
  /\ \A r \in Readers : errs[r] = 0
  /\ rot = "sleep" =>
       \A r \in Readers : rpc[r] = "read" => rsock[r] = conn \/ rsock[r] \in expired

(* Nothing on its way to the dialer reaches a closed port: the kernel      *)
(* would answer it with ICMP port-unreachable, "a loud signal on a link    *)
(* where the whole point is not to emit any" (rotateOnce), as long as none *)
(* of the datagrams that tell the listener of the new port has been lost.  *)
QuietClose == losses = 0 => \A m \in down : sock[m.port] # "closed"

(* The same, as the comment on udpRotateGrace puts it: by the time the     *)
(* retired socket goes, "the peer has certainly roamed".                   *)
RoamedBeforeClose == sock[peer] # "closed"

(* Whatever was lost or overtaken on the way, the listener ends up at the  *)
(* dialer's current port and every receive goroutine on its socket.        *)
Follows ==
  <>[](peer = conn /\ \A r \in Readers : rpc[r] \in {"top", "read"}
                                          /\ (rpc[r] = "read" => rsock[r] = conn))
=============================================================================
