---------------------------- MODULE UdpRoamProofs ----------------------------
(***************************************************************************)
(* Source-port rotation for any number of sockets, receive goroutines and  *)
(* datagrams, and any timings.                                             *)
(*                                                                         *)
(* That rotations go unnoticed rests on the order of rotateOnce: at every  *)
(* point of it, which sockets have been expired is known from how many     *)
(* have been bound (Ordered), and a goroutine that is parked or failed is  *)
(* on the current socket, an expired one, or the one about to be (Parked). *)
(*                                                                         *)
(* That retired sockets close quietly is an argument about time.  When a   *)
(* socket has been retired for longer than a transit, nothing sent from it *)
(* or from an older one is still on its way (Aged); so the first keepalive *)
(* after that moves the listener for good (Told); so what the listener     *)
(* sends to the old ports stops, a keepalive interval and two transits     *)
(* after the socket was retired (Answered), and has arrived a transit      *)
(* later, before the grace period is over if that is longer.               *)
(***************************************************************************)
EXTENDS UdpRoam, TLAPS

\* Which sockets are retired, current and old at each point of rotateOnce.
Ordered ==
  /\ \A s \in Socks : s \in expired <=> s < IF rot \in {"swap", "expire"} THEN bound - 1 ELSE bound
  /\ conn = IF rot = "swap" THEN bound - 1 ELSE bound
  /\ old = bound - 1 \/ (bound = 1 /\ rot = "sleep")
  /\ \A s \in Socks : sock[s] = "closed" => s \in expired /\ retired[s] = Grace
  /\ \A m \in up : m.port <= bound

\* No goroutine counts an error, and none is left on a socket that is neither current
\* nor expired, but for the one the rotator is about to expire.
Parked ==
  \A r \in Readers :
    /\ errs[r] = 0
    /\ rpc[r] = "read" => rsock[r] = conn \/ rsock[r] \in expired
                                          \/ (rot = "expire" /\ rsock[r] = old)
    /\ rpc[r] = "failed" => rsock[r] \in expired

RotationInv == TypeOK /\ Ordered /\ Parked

\* What is on its way from a retired port is at least as old as its retirement.
Aged == \A s \in expired : \A m \in up : m.port <= s => m.age >= retired[s]

\* The last keepalive sent later than a transit after s was retired has moved the
\* listener past s for good, or is on its way; and there has been one by the time a
\* keepalive interval and a transit have gone by.
Told ==
  \A s \in expired :
    /\ retired[s] > quiet + Transit =>
         peer > s \/ \E m \in up : m.port > s /\ m.age = quiet
    /\ retired[s] > Keepalive + Transit =>
         peer > s \/ \E m \in up : m.port > s /\ m.age + Keepalive + Transit >= retired[s]

\* So the listener stops answering the retired ports in time.
Answered ==
  \A s \in expired : \A m \in down :
    m.port <= s => retired[s] <= m.age + Keepalive + Transit + Transit

CloseInv == RotationInv /\ Aged /\ (losses = 0 => Told /\ Answered)

-----------------------------------------------------------------------------

(* Ageing a set of datagrams ages each of them by one. *)
LEMMA OlderFacts ==
  ASSUME NEW net, net \subseteq Datagrams
  PROVE  /\ \A n \in Older(net) : \E m \in net : n = [port |-> m.port, age |-> m.age + 1]
         /\ \A m \in net : [port |-> m.port, age |-> m.age + 1] \in Older(net)
<1>1. \A m \in net : [m EXCEPT !.age = @ + 1] = [port |-> m.port, age |-> m.age + 1]
  BY DEF Datagrams
<1>2. QED
  BY <1>1 DEF Older

(* A datagram is a port and an age. *)
LEMMA DatagramFacts ==
  ASSUME TypeOK
  PROVE  /\ \A m \in up \cup down :
              m.port \in Socks /\ m.age \in Nat /\ m.age <= Transit
         /\ Socks \subseteq Nat /\ bound \in Socks /\ conn \in Socks /\ old \in Socks /\ peer \in Socks
         /\ expired \subseteq Socks
         /\ \A s \in Socks : retired[s] \in Nat /\ retired[s] <= Grace
         /\ retired = [s \in Socks |-> retired[s]] /\ sock = [s \in Socks |-> sock[s]]
         /\ quiet \in Nat /\ quiet <= Keepalive
<1> USE RoamAssumption
<1>1. ASSUME NEW m \in up \cup down
      PROVE  m.port \in Socks /\ m.age \in Nat /\ m.age <= Transit
  BY DEF TypeOK, Datagrams
<1>2. /\ Socks \subseteq Nat /\ bound \in Socks /\ conn \in Socks /\ old \in Socks /\ peer \in Socks
      /\ expired \subseteq Socks
  BY DEF TypeOK, Socks
<1>3. /\ \A s \in Socks : retired[s] \in Nat /\ retired[s] <= Grace
      /\ retired = [s \in Socks |-> retired[s]] /\ sock = [s \in Socks |-> sock[s]]
      /\ quiet \in Nat /\ quiet <= Keepalive
  BY DEF TypeOK
<1>4. QED
  BY <1>1, <1>2, <1>3

LEMMA SentFacts ==
  ASSUME TypeOK, NEW s \in Socks, Sent(s)
  PROVE  /\ up' = up \cup {[port |-> s, age |-> 0]}
         /\ [port |-> s, age |-> 0] \in Datagrams
BY RoamAssumption DEF Sent, Datagrams

-----------------------------------------------------------------------------
(* Types. *)
LEMMA TypeStep ==
  ASSUME TypeOK, Ordered, [Next]_vars
  PROVE  TypeOK'
<1> USE RoamAssumption DEF TypeOK, rotVars, timeVars, readVars
<1>s. Socks = 1 .. MaxSocks /\ bound \in Nat
  BY DEF Socks
<1>u. ASSUME NEW s \in Socks, Sent(s) PROVE up' \subseteq Datagrams
  BY <1>u, SentFacts
<1>1. CASE Bind
  <2>1. /\ bound' = bound + 1 /\ bound' \in Socks
        /\ sock' = [sock EXCEPT ![bound'] = "open"]
    BY <1>1, <1>s DEF Bind
  <2>2. sock' \in [Socks -> {"unbound", "open", "closed"}]
    BY <2>1
  <2>3. 1 .. bound \subseteq 1 .. bound'
    BY <1>s, <2>1
  <2>4. rsock' \in [Readers -> 1 .. bound']
    BY <1>1, <2>3 DEF Bind
  <2>5. QED
    BY <1>1, <2>1, <2>2, <2>3, <2>4 DEF Bind
<1>2. CASE Swap
  BY <1>2, <1>s DEF Swap
<1>3. CASE Expire
  BY <1>3, <1>s DEF Expire
<1>4. CASE Announce
  BY <1>4, <1>s, <1>u, DatagramFacts DEF Announce
<1>5. CASE Beat
  BY <1>5, <1>s, <1>u, DatagramFacts DEF Beat
<1>6. CASE ListenerSend
  <2>1. [port |-> peer, age |-> 0] \in Datagrams
    BY DatagramFacts DEF Datagrams
  <2>2. QED
    BY <1>6, <2>1 DEF ListenerSend
<1>7. CASE Tick
  <2>1. ASSUME NEW net, net \subseteq Datagrams, \A m \in net : m.age < Transit
        PROVE  Older(net) \subseteq Datagrams
    <3>1. ASSUME NEW n \in Older(net) PROVE n \in Datagrams
      <4>1. PICK m \in net : n = [port |-> m.port, age |-> m.age + 1]
        BY <2>1, OlderFacts
      <4>2. m.port \in Socks /\ m.age \in Nat /\ m.age < Transit
        BY <2>1 DEF Datagrams
      <4>3. QED
        BY <4>1, <4>2 DEF Datagrams
    <3>2. QED
      BY <3>1
  <2>2. up' \subseteq Datagrams /\ down' \subseteq Datagrams
    BY <1>7, <2>1 DEF Tick
  <2>3. retired' \in [Socks -> 0 .. Grace]
    <3>1. \A s \in Socks : (IF Retired(s) THEN retired[s] + 1 ELSE retired[s]) \in 0 .. Grace
      BY <1>7 DEF Tick
    <3>2. QED
      BY <1>7, <3>1 DEF Tick
  <2>4. since' \in 0 .. Gap /\ quiet' \in 0 .. Keepalive
    BY <1>7 DEF Tick, Least
  <2>5. QED
    BY <1>7, <2>2, <2>3, <2>4 DEF Tick
<1>8. ASSUME NEW s \in Socks, Close(s) PROVE TypeOK'
  BY <1>8 DEF Close
<1>9. ASSUME NEW s \in Socks, Send(s) PROVE TypeOK'
  BY <1>9, <1>u DEF Send
<1>10. ASSUME NEW r \in Readers, Load(r) PROVE TypeOK'
  BY <1>10 DEF Load
<1>11. ASSUME NEW r \in Readers, ReadFails(r) PROVE TypeOK'
  BY <1>11 DEF ReadFails
<1>12. ASSUME NEW r \in Readers, Resume(r) PROVE TypeOK'
  <2>1. errs' \in [Readers -> Nat]
    BY <1>12 DEF Resume
  <2>2. QED
    BY <1>12, <2>1 DEF Resume
<1>13. ASSUME NEW r \in Readers, NEW m \in down, Read(r, m) PROVE TypeOK'
  BY <1>13 DEF Read
<1>14. ASSUME NEW m \in up, Follow(m) PROVE TypeOK'
  <2>1. m.port \in 1 .. bound
    BY <1>s, DatagramFacts DEF Ordered
  <2>2. QED
    BY <1>14, <2>1 DEF Follow
<1>15. ASSUME NEW m \in up, Lose(m) PROVE TypeOK'
  BY <1>15 DEF Lose
<1>16. ASSUME NEW m \in down, Vanish(m) PROVE TypeOK'
  BY <1>16 DEF Vanish
<1>17. CASE UNCHANGED vars
  BY <1>17 DEF vars
<1>18. QED
  BY <1>1, <1>2, <1>3, <1>4, <1>5, <1>6, <1>7, <1>8, <1>9, <1>10, <1>11, <1>12, <1>13, <1>14,
     <1>15, <1>16, <1>17 DEF Next, Rotator, Reader

-----------------------------------------------------------------------------
(* The rotator's order, and where it leaves the receive goroutines. *)
LEMMA OrderedStep ==
  ASSUME TypeOK, Ordered, [Next]_vars
  PROVE  Ordered'
<1> USE DEF rotVars, timeVars, readVars
<1>t. /\ \A m \in up : m.port \in Nat /\ m.port <= bound
      /\ Socks \subseteq Nat /\ bound \in Nat /\ bound >= 1 /\ conn \in Socks /\ old \in Socks
      /\ conn <= bound /\ old <= bound /\ expired \subseteq Socks
      /\ retired = [s \in Socks |-> retired[s]] /\ sock = [s \in Socks |-> sock[s]]
      /\ rot \in {"sleep", "swap", "expire", "announce"}
  BY DatagramFacts, RoamAssumption DEF TypeOK, Ordered, Socks
<1>k. ASSUME UNCHANGED <<conn, expired, rot, old, bound>>,
             \A s \in Socks : sock'[s] = "closed" => s \in expired /\ retired'[s] = Grace,
             \A m \in up' : m.port <= bound
      PROVE  Ordered'
  BY <1>k DEF Ordered
<1>u. ASSUME NEW s \in Socks, s <= bound, Sent(s)
      PROVE  \A m \in up' : m.port <= bound
  <2>1. up' = up \cup {[port |-> s, age |-> 0]} /\ [port |-> s, age |-> 0].port = s
    BY <1>u DEF Sent
  <2>2. QED
    BY <1>u, <1>t, <2>1
<1>1. CASE Bind
  <2>1. /\ bound' = bound + 1 /\ bound' \in Socks /\ old' = conn /\ rot' = "swap" /\ rot = "sleep"
        /\ sock' = [sock EXCEPT ![bound'] = "open"]
        /\ UNCHANGED <<conn, expired, retired, up>>
    BY <1>1, RoamAssumption, <1>t DEF Bind, Socks
  <2>2. \A s \in Socks : sock'[s] = "closed" => sock[s] = "closed"
    BY <2>1, <1>t
  <2>3. conn = bound /\ \A s \in Socks : s \in expired <=> s < bound
    BY <2>1 DEF Ordered
  <2>4. /\ \A s \in Socks : sock'[s] = "closed" => s \in expired' /\ retired'[s] = Grace
        /\ \A m \in up' : m.port <= bound'
    BY <2>1, <2>2, <1>t DEF Ordered
  <2>5. QED
    BY <2>1, <2>3, <2>4, <1>t DEF Ordered
<1>2. CASE Swap
  BY <1>2, <1>t DEF Swap, Ordered
<1>3. CASE Expire
  <2>1. /\ expired' = expired \cup {old} /\ retired' = [retired EXCEPT ![old] = 0]
        /\ rot = "expire" /\ rot' = "announce" /\ UNCHANGED <<conn, sock, bound, old, up>>
    BY <1>3 DEF Expire
  <2>2. /\ old = bound - 1 /\ conn = bound
        /\ \A s \in Socks : s \in expired <=> s < bound - 1
    BY <2>1 DEF Ordered
  <2>3. \A s \in Socks : s \in expired' <=> s < bound
    BY <2>1, <2>2, <1>t
  <2>4. \A s \in Socks : sock'[s] = "closed" => s # old /\ s \in expired' /\ retired'[s] = Grace
    BY <2>1, <2>2, <1>t DEF Ordered
  <2>5. QED
    BY <2>1, <2>2, <2>3, <2>4, <1>t DEF Ordered
<1>4. CASE Announce
  <2>1. \A m \in up' : m.port <= bound
    BY <1>4, <1>t, <1>u DEF Announce
  <2>2. QED
    BY <1>4, <2>1, <1>t DEF Announce, Ordered
<1>5. CASE Beat
  <2>1. \A m \in up' : m.port <= bound
    BY <1>5, <1>t, <1>u DEF Beat
  <2>2. QED
    BY <1>5, <2>1, <1>k DEF Beat, Ordered
<1>6. CASE ListenerSend
  BY <1>6, <1>k DEF ListenerSend, Ordered
<1>7. CASE Tick
  <2>1. \A s \in Socks : sock'[s] = "closed" => s \in expired /\ retired'[s] = Grace
    BY <1>7 DEF Tick, Ordered, Retired
  <2>2. up' = Older(up) /\ up \subseteq Datagrams
    BY <1>7 DEF Tick, TypeOK
  <2>3. ASSUME NEW n \in up' PROVE n.port <= bound
    BY <2>2, <1>t, OlderFacts
  <2>4. QED
    BY <1>7, <2>1, <2>3, <1>k DEF Tick
<1>8. ASSUME NEW s \in Socks, Close(s) PROVE Ordered'
  <2>1. \A q \in Socks : sock'[q] = "closed" => q \in expired /\ retired'[q] = Grace
    BY <1>8, <1>t DEF Close, Retired, Ordered
  <2>2. QED
    BY <1>8, <2>1, <1>t, <1>k DEF Close
<1>9. ASSUME NEW s \in Socks, Send(s) PROVE Ordered'
  <2>1. \A m \in up' : m.port <= bound
    BY <1>9, <1>t, <1>u DEF Send
  <2>2. QED
    BY <1>9, <2>1, <1>k DEF Send, Ordered
<1>10. ASSUME NEW r \in Readers, Load(r) PROVE Ordered'
  BY <1>10, <1>k DEF Load, Ordered
<1>11. ASSUME NEW r \in Readers, ReadFails(r) PROVE Ordered'
  BY <1>11, <1>k DEF ReadFails, Ordered
<1>12. ASSUME NEW r \in Readers, Resume(r) PROVE Ordered'
  BY <1>12, <1>k DEF Resume, Ordered
<1>13. ASSUME NEW r \in Readers, NEW m \in down, Read(r, m) PROVE Ordered'
  BY <1>13, <1>k DEF Read, Ordered
<1>14. ASSUME NEW m \in up, Follow(m) PROVE Ordered'
  BY <1>14, <1>k DEF Follow, Ordered
<1>15. ASSUME NEW m \in up, Lose(m) PROVE Ordered'
  BY <1>15, <1>k DEF Lose, Ordered
<1>16. ASSUME NEW m \in down, Vanish(m) PROVE Ordered'
  BY <1>16, <1>k DEF Vanish, Ordered
<1>17. CASE UNCHANGED vars
  BY <1>17, <1>k DEF vars, Ordered
<1>18. QED
  BY <1>1, <1>2, <1>3, <1>4, <1>5, <1>6, <1>7, <1>8, <1>9, <1>10, <1>11, <1>12, <1>13, <1>14,
     <1>15, <1>16, <1>17 DEF Next, Rotator, Reader

LEMMA ParkedStep ==
  ASSUME TypeOK, Ordered, Parked, [Next]_vars
  PROVE  Parked'
<1> USE DEF rotVars, timeVars, readVars
<1>t. /\ rpc = [r \in Readers |-> rpc[r]] /\ rsock = [r \in Readers |-> rsock[r]]
      /\ errs = [r \in Readers |-> errs[r]] /\ \A r \in Readers : rsock[r] \in Socks
      /\ Socks \subseteq Nat /\ bound \in Nat /\ conn \in Socks
      /\ conn \notin expired
  <2>1. conn \notin expired
    BY DatagramFacts DEF Ordered
  <2>2. \A r \in Readers : rsock[r] \in Socks
    BY RoamAssumption DEF TypeOK, Socks
  <2>3. QED
    BY <2>1, <2>2, DatagramFacts DEF TypeOK
<1>k. ASSUME UNCHANGED <<conn, expired, rot, old>>, UNCHANGED <<rpc, rsock, errs>>
      PROVE  Parked'
  BY <1>k DEF Parked
<1>1. CASE Bind
  BY <1>1 DEF Bind, Parked
<1>2. CASE Swap
  <2>1. old = conn
    BY <1>2 DEF Swap, Ordered
  <2>2. QED
    BY <1>2, <2>1 DEF Swap, Parked
<1>3. CASE Expire
  BY <1>3 DEF Expire, Parked
<1>4. CASE Announce
  BY <1>4 DEF Announce, Parked
<1>5. CASE Beat
  BY <1>5, <1>k DEF Beat
<1>6. CASE ListenerSend
  BY <1>6, <1>k DEF ListenerSend
<1>7. CASE Tick
  BY <1>7, <1>k DEF Tick
<1>8. ASSUME NEW s \in Socks, Close(s) PROVE Parked'
  BY <1>8, <1>k DEF Close
<1>9. ASSUME NEW s \in Socks, Send(s) PROVE Parked'
  BY <1>9, <1>k DEF Send
<1>10. ASSUME NEW r \in Readers, Load(r) PROVE Parked'
  BY <1>10, <1>t DEF Load, Parked
<1>11. ASSUME NEW r \in Readers, ReadFails(r) PROVE Parked'
  <2>1. rsock[r] \in expired
    BY <1>11, <1>t DEF ReadFails, Ordered
  <2>2. QED
    BY <1>11, <1>t, <2>1 DEF ReadFails, Parked
<1>12. ASSUME NEW r \in Readers, Resume(r) PROVE Parked'
  <2>1. conn # rsock[r]
    BY <1>12, <1>t DEF Resume, Parked
  <2>2. QED
    BY <1>12, <1>t, <2>1 DEF Resume, Parked
<1>13. ASSUME NEW r \in Readers, NEW m \in down, Read(r, m) PROVE Parked'
  BY <1>13, <1>t DEF Read, Parked
<1>14. ASSUME NEW m \in up, Follow(m) PROVE Parked'
  BY <1>14, <1>k DEF Follow
<1>15. ASSUME NEW m \in up, Lose(m) PROVE Parked'
  BY <1>15, <1>k DEF Lose
<1>16. ASSUME NEW m \in down, Vanish(m) PROVE Parked'
  BY <1>16, <1>k DEF Vanish
<1>17. CASE UNCHANGED vars
  BY <1>17, <1>k DEF vars
<1>18. QED
  BY <1>1, <1>2, <1>3, <1>4, <1>5, <1>6, <1>7, <1>8, <1>9, <1>10, <1>11, <1>12, <1>13, <1>14,
     <1>15, <1>16, <1>17 DEF Next, Rotator, Reader

-----------------------------------------------------------------------------
(* What is on its way, and what the listener knows. *)

\* Retired sockets have lower numbers than any that is sent from.
LEMMA RetiredLower ==
  ASSUME TypeOK, Ordered
  PROVE  /\ \A s \in expired : s < conn /\ s <= old
         /\ old \in expired \/ \A s \in expired : s < old
BY DatagramFacts DEF Ordered

LEMMA AgedStep ==
  ASSUME TypeOK, Ordered, Aged, [Next]_vars
  PROVE  Aged'
<1> USE DEF rotVars, timeVars, readVars
<1>t. /\ expired \subseteq Socks /\ Socks \subseteq Nat /\ conn \in Socks /\ old \in Socks
      /\ \A s \in Socks : retired[s] \in Nat
      /\ retired = [s \in Socks |-> retired[s]]
      /\ \A m \in up : m.port \in Nat /\ m.age \in Nat
  BY DatagramFacts
<1>k. ASSUME UNCHANGED <<expired, retired>>, up' \subseteq up
      PROVE  Aged'
  BY <1>k DEF Aged
<1>u. ASSUME UNCHANGED <<expired, retired>>, NEW q \in Socks, Sent(q),
             \A s \in expired : q <= s => retired[s] = 0
      PROVE  Aged'
  <2>1. up' = up \cup {[port |-> q, age |-> 0]}
    BY <1>u DEF Sent
  <2>2. ASSUME NEW s \in expired, NEW m \in up', m.port <= s
        PROVE  m.age >= retired[s]
    BY <1>u, <1>t, <2>1, <2>2 DEF Aged
  <2>3. QED
    BY <1>u, <2>2 DEF Aged
<1>1. CASE Bind
  BY <1>1, <1>k DEF Bind
<1>2. CASE Swap
  BY <1>2, <1>k DEF Swap
<1>3. CASE Expire
  <2>1. /\ expired' = expired \cup {old} /\ retired' = [retired EXCEPT ![old] = 0] /\ up' = up
    BY <1>3 DEF Expire
  <2>2. \A s \in Socks : retired'[s] = IF s = old THEN 0 ELSE retired[s]
    BY <2>1, <1>t
  <2>3. QED
    BY <2>1, <2>2, <1>t DEF Aged
<1>4. CASE Announce
  BY <1>4, <1>t, <1>u, RetiredLower DEF Announce
<1>5. CASE Beat
  BY <1>5, <1>t, <1>u, RetiredLower DEF Beat
<1>6. CASE ListenerSend
  BY <1>6, <1>k DEF ListenerSend
<1>7. CASE Tick
  <2>1. /\ up' = Older(up) /\ up \subseteq Datagrams /\ expired' = expired
        /\ \A s \in Socks : retired'[s] <= retired[s] + 1
    BY <1>7, <1>t DEF Tick, TypeOK
  <2>2. ASSUME NEW s \in expired, NEW n \in up', n.port <= s
        PROVE  n.age >= retired'[s]
    <3>1. PICK m \in up : n = [port |-> m.port, age |-> m.age + 1]
      BY <2>1, OlderFacts
    <3>2. m.age >= retired[s] /\ n.age = m.age + 1
      BY <2>2, <3>1 DEF Aged
    <3>3. retired'[s] <= retired[s] + 1 /\ retired'[s] \in Nat
      BY <1>7, <2>1, <1>t DEF Tick
    <3>4. QED
      BY <3>2, <3>3, <1>t
  <2>3. QED
    BY <2>1, <2>2 DEF Aged
<1>8. ASSUME NEW s \in Socks, Close(s) PROVE Aged'
  BY <1>8, <1>k DEF Close
<1>9. ASSUME NEW q \in Socks, Send(q) PROVE Aged'
  <2>1. \A s \in expired : q <= s => retired[s] = 0
    BY <1>9, <1>t, RetiredLower DEF Send
  <2>2. QED
    BY <1>9, <1>u, <2>1 DEF Send
<1>10. ASSUME NEW r \in Readers, Load(r) \/ ReadFails(r) \/ Resume(r) PROVE Aged'
  BY <1>10, <1>k DEF Load, ReadFails, Resume
<1>11. ASSUME NEW r \in Readers, NEW m \in down, Read(r, m) PROVE Aged'
  BY <1>11, <1>k DEF Read
<1>12. ASSUME NEW m \in up, Follow(m) \/ Lose(m) PROVE Aged'
  BY <1>12, <1>k DEF Follow, Lose
<1>13. ASSUME NEW m \in down, Vanish(m) PROVE Aged'
  BY <1>13, <1>k DEF Vanish
<1>14. CASE UNCHANGED vars
  BY <1>14, <1>k DEF vars
<1>15. QED
  BY <1>1, <1>2, <1>3, <1>4, <1>5, <1>6, <1>7, <1>8, <1>9, <1>10, <1>11, <1>12, <1>13, <1>14
  DEF Next, Rotator, Reader

LEMMA ToldStep ==
  ASSUME TypeOK, Ordered, Aged, Told, losses' = 0, [Next]_vars
  PROVE  Told'
<1> USE DEF rotVars, timeVars, readVars
<1>t. /\ expired \subseteq Socks /\ Socks \subseteq Nat /\ conn \in Socks /\ old \in Socks
      /\ \A s \in Socks : retired[s] \in Nat
      /\ retired = [s \in Socks |-> retired[s]]
      /\ \A m \in up : m.port \in Nat /\ m.age \in Nat /\ m.age <= Transit
      /\ peer \in Nat /\ quiet \in Nat /\ quiet <= Keepalive
      /\ Transit \in Nat /\ Keepalive \in Nat
  BY DatagramFacts, RoamAssumption
<1>k. ASSUME UNCHANGED <<expired, retired, quiet, peer>>, up \subseteq up'
      PROVE  Told'
  BY <1>k DEF Told
<1>1. CASE Bind
  BY <1>1, <1>k DEF Bind
<1>2. CASE Swap
  BY <1>2, <1>k DEF Swap
<1>3. CASE Expire
  <2>1. /\ expired' = expired \cup {old} /\ retired' = [retired EXCEPT ![old] = 0]
        /\ UNCHANGED <<up, peer, quiet>>
    BY <1>3 DEF Expire
  <2>2. \A s \in Socks : retired'[s] = IF s = old THEN 0 ELSE retired[s]
    BY <2>1, <1>t
  <2>3. QED
    BY <2>1, <2>2, <1>t DEF Told
<1>4. CASE Announce
  BY <1>4, <1>k DEF Announce, Sent
<1>5. CASE Beat
  <2>1. /\ up' = up \cup {[port |-> conn, age |-> 0]} /\ quiet' = 0
        /\ UNCHANGED <<expired, retired, peer>>
    BY <1>5 DEF Beat, Sent
  <2>2. \E m \in up' : m.port = conn /\ m.age = quiet'
    <3>1. [port |-> conn, age |-> 0] \in up'
      BY <2>1
    <3>2. QED
      BY <2>1, <3>1
  <2>3. \A s \in expired : conn > s
    BY <1>t, RetiredLower
  <2>4. QED
    BY <2>1, <2>2, <2>3 DEF Told
<1>6. CASE ListenerSend
  BY <1>6, <1>k DEF ListenerSend
<1>7. CASE Tick
  <2>1. /\ up' = Older(up) /\ up \subseteq Datagrams /\ expired' = expired /\ peer' = peer
        /\ quiet' = quiet + 1 /\ quiet < Keepalive
        /\ \A s \in Socks : retired'[s] \in Nat /\ retired'[s] <= retired[s] + 1
    BY <1>7, <1>t DEF Tick, TypeOK
  <2>2. \A m \in up : \E n \in up' : n.port = m.port /\ n.age = m.age + 1
    <3>1. ASSUME NEW m \in up
          PROVE  \E n \in up' : n.port = m.port /\ n.age = m.age + 1
      <4>1. [port |-> m.port, age |-> m.age + 1] \in up'
        BY <2>1, OlderFacts
      <4>2. QED
        BY <4>1
    <3>2. QED
      BY <3>1
  <2>3. ASSUME NEW s \in expired, retired'[s] > quiet' + Transit
        PROVE  peer > s \/ \E n \in up' : n.port > s /\ n.age = quiet'
    <3>1. retired[s] > quiet + Transit
      BY <2>1, <2>3, <1>t
    <3>2. QED
      BY <2>1, <2>2, <3>1 DEF Told
  <2>4. ASSUME NEW s \in expired, retired'[s] > Keepalive + Transit
        PROVE  peer > s \/ \E n \in up' : n.port > s /\ n.age + Keepalive + Transit >= retired'[s]
    <3>1. retired[s] + 1 >= retired'[s] /\ retired[s] \in Nat /\ retired'[s] \in Nat
      BY <2>1, <1>t
    <3>2. CASE retired[s] > Keepalive + Transit
      <4>1. CASE peer > s
        BY <4>1
      <4>2. CASE ~(peer > s)
        <5>1. PICK m \in up : m.port > s /\ m.age + Keepalive + Transit >= retired[s]
          BY <3>2, <4>2 DEF Told
        <5>2. PICK n \in up' : n.port = m.port /\ n.age = m.age + 1
          BY <2>2
        <5>3. n.age + Keepalive + Transit >= retired'[s]
          BY <3>1, <5>1, <5>2, <1>t
        <5>4. QED
          BY <5>1, <5>2, <5>3
      <4>3. QED
        BY <4>1, <4>2
    <3>3. CASE ~(retired[s] > Keepalive + Transit)
      <4>1. retired[s] = Keepalive + Transit /\ retired'[s] = Keepalive + Transit + 1
        BY <2>4, <3>1, <3>3, <1>t
      <4>2. retired[s] > quiet + Transit
        BY <2>1, <4>1, <1>t
      <4>3. CASE ~(peer > s)
        <5>1. PICK m \in up : m.port > s /\ m.age = quiet
          BY <4>2, <4>3 DEF Told
        <5>2. PICK n \in up' : n.port = m.port /\ n.age = m.age + 1
          BY <2>2
        <5>3. n.age + Keepalive + Transit >= retired'[s]
          BY <4>1, <5>1, <5>2, <1>t
        <5>4. QED
          BY <5>1, <5>2, <5>3
      <4>4. QED
        BY <4>3
    <3>4. QED
      BY <3>2, <3>3
  <2>5. QED
    BY <2>1, <2>3, <2>4 DEF Told
<1>8. ASSUME NEW s \in Socks, Close(s) PROVE Told'
  BY <1>8, <1>k DEF Close
<1>9. ASSUME NEW q \in Socks, Send(q) PROVE Told'
  BY <1>9, <1>k DEF Send, Sent
<1>10. ASSUME NEW r \in Readers, Load(r) \/ ReadFails(r) \/ Resume(r) PROVE Told'
  BY <1>10, <1>k DEF Load, ReadFails, Resume
<1>11. ASSUME NEW r \in Readers, NEW m \in down, Read(r, m) PROVE Told'
  BY <1>11, <1>k DEF Read
<1>12. ASSUME NEW m \in up, Follow(m) PROVE Told'
  <2>1. up' = up \ {m} /\ peer' = m.port /\ UNCHANGED <<expired, retired, quiet>>
    BY <1>12 DEF Follow
  <2>2. ASSUME NEW s \in expired, retired[s] > Transit
        PROVE  m.port > s
    BY <1>t, <2>2 DEF Aged
  <2>3. ASSUME NEW s \in expired, retired[s] > quiet + Transit \/ retired[s] > Keepalive + Transit
        PROVE  peer' > s
    <3>1. retired[s] > Transit
      BY <1>t, <2>3
    <3>2. QED
      BY <2>1, <2>2, <3>1
  <2>4. QED
    BY <2>1, <2>3 DEF Told
<1>13. ASSUME NEW m \in up, Lose(m) PROVE Told'
  BY <1>13, RoamAssumption DEF Lose, TypeOK
<1>14. ASSUME NEW m \in down, Vanish(m) PROVE Told'
  BY <1>14, <1>k DEF Vanish
<1>15. CASE UNCHANGED vars
  BY <1>15, <1>k DEF vars
<1>16. QED
  BY <1>1, <1>2, <1>3, <1>4, <1>5, <1>6, <1>7, <1>8, <1>9, <1>10, <1>11, <1>12, <1>13, <1>14,
     <1>15 DEF Next, Rotator, Reader

LEMMA AnsweredStep ==
  ASSUME TypeOK, Ordered, Told, Answered, [Next]_vars
  PROVE  Answered'
<1> USE DEF rotVars, timeVars, readVars
<1>t. /\ expired \subseteq Socks /\ Socks \subseteq Nat /\ conn \in Socks /\ old \in Socks
      /\ \A s \in Socks : retired[s] \in Nat
      /\ retired = [s \in Socks |-> retired[s]]
      /\ \A m \in up : m.port \in Nat /\ m.age \in Nat /\ m.age <= Transit
      /\ \A m \in down : m.port \in Nat /\ m.age \in Nat
      /\ peer \in Nat /\ Transit \in Nat /\ Keepalive \in Nat
  BY DatagramFacts, RoamAssumption
<1>k. ASSUME UNCHANGED <<expired, retired>>, down' \subseteq down
      PROVE  Answered'
  BY <1>k DEF Answered
<1>1. CASE Bind
  BY <1>1, <1>k DEF Bind
<1>2. CASE Swap
  BY <1>2, <1>k DEF Swap
<1>3. CASE Expire
  <2>1. /\ expired' = expired \cup {old} /\ retired' = [retired EXCEPT ![old] = 0]
        /\ down' = down
    BY <1>3 DEF Expire
  <2>2. \A s \in Socks : retired'[s] = IF s = old THEN 0 ELSE retired[s]
    BY <2>1, <1>t
  <2>3. QED
    BY <2>1, <2>2, <1>t DEF Answered
<1>4. CASE Announce
  BY <1>4, <1>k DEF Announce
<1>5. CASE Beat
  BY <1>5, <1>k DEF Beat
<1>6. CASE ListenerSend
  <2>1. down' = down \cup {[port |-> peer, age |-> 0]} /\ UNCHANGED <<expired, retired>>
    BY <1>6 DEF ListenerSend
  <2>2. ASSUME NEW s \in expired, peer <= s
        PROVE  retired[s] <= Keepalive + Transit + Transit
    <3>1. ASSUME retired[s] > Keepalive + Transit
          PROVE  retired[s] <= Keepalive + Transit + Transit
      <4>1. s \in Nat /\ ~(peer > s)
        BY <1>t, <2>2
      <4>2. PICK m \in up : m.age + Keepalive + Transit >= retired[s]
        BY <3>1, <4>1 DEF Told
      <4>3. retired[s] \in Nat /\ m.age \in Nat /\ m.age <= Transit
        BY <1>t
      <4>4. QED
        BY <1>t, <4>2, <4>3
    <3>2. retired[s] \in Nat
      BY <1>t
    <3>3. QED
      BY <1>t, <3>1, <3>2
  <2>3. ASSUME NEW s \in expired, NEW m \in down', m.port <= s
        PROVE  retired[s] <= m.age + Keepalive + Transit + Transit
    <3>1. CASE m \in down
      BY <2>3, <3>1 DEF Answered
    <3>2. CASE m = [port |-> peer, age |-> 0]
      BY <1>t, <2>2, <2>3, <3>2
    <3>3. QED
      BY <2>1, <3>1, <3>2
  <2>4. QED
    BY <2>1, <2>3 DEF Answered
<1>7. CASE Tick
  <2>1. /\ down' = Older(down) /\ down \subseteq Datagrams /\ expired' = expired
        /\ \A s \in Socks : retired'[s] \in Nat /\ retired'[s] <= retired[s] + 1
    BY <1>7, <1>t DEF Tick, TypeOK
  <2>2. ASSUME NEW s \in expired, NEW n \in down', n.port <= s
        PROVE  retired'[s] <= n.age + Keepalive + Transit + Transit
    <3>1. PICK m \in down : n = [port |-> m.port, age |-> m.age + 1]
      BY <2>1, OlderFacts
    <3>2. retired[s] <= m.age + Keepalive + Transit + Transit /\ n.age = m.age + 1
      BY <2>2, <3>1 DEF Answered
    <3>3. QED
      BY <2>1, <3>2, <1>t
  <2>3. QED
    BY <2>1, <2>2 DEF Answered
<1>8. ASSUME NEW s \in Socks, Close(s) \/ Send(s) PROVE Answered'
  BY <1>8, <1>k DEF Close, Send
<1>9. ASSUME NEW r \in Readers, Load(r) \/ ReadFails(r) \/ Resume(r) PROVE Answered'
  BY <1>9, <1>k DEF Load, ReadFails, Resume
<1>10. ASSUME NEW r \in Readers, NEW m \in down, Read(r, m) PROVE Answered'
  BY <1>10, <1>k DEF Read
<1>11. ASSUME NEW m \in up, Follow(m) \/ Lose(m) PROVE Answered'
  BY <1>11, <1>k DEF Follow, Lose
<1>12. ASSUME NEW m \in down, Vanish(m) PROVE Answered'
  BY <1>12, <1>k DEF Vanish
<1>13. CASE UNCHANGED vars
  BY <1>13, <1>k DEF vars
<1>14. QED
  BY <1>1, <1>2, <1>3, <1>4, <1>5, <1>6, <1>7, <1>8, <1>9, <1>10, <1>11, <1>12, <1>13
  DEF Next, Rotator, Reader

-----------------------------------------------------------------------------
LEMMA RoamInit == Init => CloseInv
<1> SUFFICES ASSUME Init PROVE CloseInv
  OBVIOUS
<1> USE RoamAssumption
<1>1. TypeOK
  BY DEF Init, TypeOK, Socks
<1>2. Ordered
  BY DEF Init, Ordered, Socks
<1>3. Parked /\ Aged /\ Told /\ Answered
  BY DEF Init, Parked, Aged, Told, Answered
<1>4. QED
  BY <1>1, <1>2, <1>3 DEF CloseInv, RotationInv

(* The rotation's invariant: what rotateOnce leaves expired, current and   *)
(* closed at each of its points, what the receive goroutines are on, what  *)
(* is on its way from a retired port, and, as long as nothing is lost on   *)
(* the way to the listener, how soon the listener is told and stops        *)
(* answering there (rotateOnce, recvInto, keepaliveLoop, maybeRoam).       *)
THEOREM RoamInvariant == Spec => []CloseInv
<1>1. CloseInv /\ [Next]_vars => CloseInv'
  <2> SUFFICES ASSUME CloseInv, [Next]_vars PROVE CloseInv'
    OBVIOUS
  <2>1. TypeOK' /\ Ordered' /\ Parked' /\ Aged'
    BY TypeStep, OrderedStep, ParkedStep, AgedStep DEF CloseInv, RotationInv
  <2>2. losses' = 0 => losses = 0
    <3>1. losses \in Nat /\ (losses' = losses \/ losses' = losses + 1)
      BY RoamAssumption
      DEF CloseInv, RotationInv, TypeOK, Next, Rotator, Reader, Bind, Swap, Expire, Announce, Beat,
          ListenerSend, Tick, Close, Send, Load, ReadFails, Resume, Read, Follow, Lose, Vanish, vars
    <3>2. QED
      BY <3>1
  <2>3. losses' = 0 => Told' /\ Answered'
    BY <2>2, ToldStep, AnsweredStep DEF CloseInv, RotationInv
  <2>4. QED
    BY <2>1, <2>3 DEF CloseInv, RotationInv
<1>2. QED
  BY RoamInit, <1>1, PTL DEF Spec

(* The receive goroutines do not notice a rotation: none counts an error,  *)
(* and none is left parked on a socket that is neither the current one nor *)
(* expired once the rotator is back asleep (recvInto, rotateOnce).         *)
THEOREM RotationsGoUnnoticed == Spec => []RotationUnnoticed
<1>1. CloseInv => RotationUnnoticed
  BY DEF CloseInv, RotationInv, Parked, RotationUnnoticed
<1>2. QED
  BY RoamInvariant, <1>1, PTL

(* If the grace period is longer than a keepalive interval and three       *)
(* transits, a retired socket is closed after the last datagram for it has *)
(* arrived, unless one of those that tell the listener is lost             *)
(* (rotateOnce's grace period: 40 s, the keepalives being at most 35 s     *)
(* apart).                                                                 *)
THEOREM RetiredCloseQuietly ==
  ASSUME Grace > Keepalive + Transit + Transit + Transit
  PROVE  Spec => []QuietClose
<1>1. CloseInv => QuietClose
  <2> SUFFICES ASSUME CloseInv, losses = 0, NEW m \in down, sock[m.port] = "closed"
               PROVE  FALSE
    BY DEF QuietClose
  <2>1. m.port \in Socks /\ m.age \in Nat /\ m.age <= Transit
    BY DatagramFacts DEF CloseInv, RotationInv
  <2>2. m.port \in expired /\ retired[m.port] = Grace
    BY <2>1 DEF CloseInv, RotationInv, Ordered
  <2>3. Grace <= m.age + Keepalive + Transit + Transit
    BY <2>1, <2>2, DatagramFacts DEF CloseInv, RotationInv, Answered
  <2>4. QED
    BY <2>1, <2>3, RoamAssumption
<1>2. QED
  BY RoamInvariant, <1>1, PTL

\* A datagram from a retired port is on its way only within a transit of the retirement.
NoLateArrival ==
  \A s \in Socks : s \in expired /\ retired[s] > Transit => \A m \in up : m.port > s

(* Nothing overtaken by a rotation arrives late enough to move the         *)
(* listener back: a transit after a socket was retired, whatever is still  *)
(* on its way to the listener, lost or not, came from a later port         *)
(* (maybeRoam follows every datagram that authenticates).                  *)
THEOREM NothingLate == Spec => []NoLateArrival
<1>1. CloseInv => NoLateArrival
  <2> SUFFICES ASSUME CloseInv, NEW s \in Socks, s \in expired, retired[s] > Transit, NEW m \in up
               PROVE  m.port > s
    BY DEF NoLateArrival
  <2>1. m.port \in Socks /\ m.age \in Nat /\ m.age <= Transit /\ retired[s] \in Nat
    BY DatagramFacts DEF CloseInv, RotationInv
  <2>2. m.port <= s => m.age >= retired[s]
    BY DEF CloseInv, Aged
  <2>3. s \in Nat /\ m.port \in Nat
    BY <2>1 DEF Socks
  <2>4. QED
    BY <2>1, <2>2, <2>3, RoamAssumption
<1>2. QED
  BY RoamInvariant, <1>1, PTL

=============================================================================
