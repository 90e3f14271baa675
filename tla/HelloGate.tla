----------------------------- MODULE HelloGate ------------------------------
(***************************************************************************)
(* The reverse listener's hello gate (reverse.go) among the parallel       *)
(* receive goroutines of udpReceiveLoop (main.go).                         *)
(*                                                                         *)
(* A handshake hello from an address that has not authenticated is held,   *)
(* one at a time, until an authenticated packet from that very address     *)
(* arrives -- then it is answered -- or until the hold is over or a newer  *)
(* hello displaces it -- then it is reported to the DPI observer.  The     *)
(* gate's fields change under its mutex, but `armed` is read without it,   *)
(* and the peer address the goroutines consult is a separate atomic.       *)
(***************************************************************************)
EXTENDS Integers, FiniteSets

CONSTANTS
  Workers,    \* the receive goroutines
  Addrs,      \* source addresses a datagram may carry
  Dialers,    \* those from which the key holder sends
  Hold,       \* helloHold, in ticks of the clock
  MaxHellos,  \* bound: hellos that arrive
  MaxAuth,    \* bound: authenticated packets that arrive
  MaxTime     \* bound: ticks of the clock

NoAddr == "none"   \* the nil of an address pointer

ASSUME GateAssumption ==
  /\ Dialers \subseteq Addrs /\ NoAddr \notin Addrs
  /\ Hold \in Nat \ {0} /\ MaxHellos \in Nat /\ MaxAuth \in Nat
  /\ MaxTime \in Nat /\ Hold <= MaxTime

None   == 0
Never  == MaxTime + 1
Hellos == 1 .. MaxHellos

VARIABLES
  peer,     \* Tunnel.peer
  held,     \* helloGate.held
  armed,    \* helloGate.armed
  timer,    \* when helloGate.timer is due, or Never
  runs,     \* calls of expire the timer has started and that have not run yet
  filing,   \* hellos expire has taken out and is about to report
  adopted,  \* obfuscator.adopted: whether a connection ID has been taken over
  pc,       \* where each receive goroutine is
  src,      \* the source of the datagram it is handling
  hello,    \* the hello it is handling, if it is one
  out,      \* the hello it took out of the gate, to answer or to report
  from, at, \* each hello's source and the time it was stamped with
  now,      \* the clock
  arrived,  \* hellos that have arrived
  auths,    \* authenticated packets that have arrived
  authed,   \* history: addresses that have authenticated
  sentTo,   \* history: addresses the gate or a reply has sent to
  cidFrom,  \* history: the address whose connection ID was adopted
  answered, \* history: how often each hello was taken up to be answered
  reported  \* history: how often each hello has been reported

gateVars == <<held, armed, timer, runs, filing>>
workVars == <<pc, src, hello, out>>
envVars  == <<from, at, now, arrived, auths>>
sendVars == <<adopted, sentTo, cidFrom, answered>>
vars == <<peer, gateVars, workVars, envVars, sendVars, authed, reported>>

Init ==
  /\ peer = NoAddr
  /\ held = None /\ armed = FALSE /\ timer = Never /\ runs = 0 /\ filing = {}
  /\ pc = [w \in Workers |-> "recv"]
  /\ src = [w \in Workers |-> NoAddr]
  /\ hello = [w \in Workers |-> None]
  /\ out = [w \in Workers |-> None]
  /\ from = [h \in Hellos |-> NoAddr]
  /\ at = [h \in Hellos |-> 0]
  /\ now = 0 /\ arrived = 0 /\ auths = 0
  /\ adopted = FALSE /\ sentTo = {} /\ cidFrom = NoAddr
  /\ answered = [h \in Hellos |-> 0]
  /\ reported = [h \in Hellos |-> 0]
  /\ authed = {}

Goto(w, place) == pc' = [pc EXCEPT ![w] = place]

\* The goroutine is done with its datagram, or goes on with it.
Continue(w, go, place) ==
  IF go THEN Goto(w, place) /\ UNCHANGED <<src, hello>>
  ELSE /\ Goto(w, "recv")
       /\ src' = [src EXCEPT ![w] = NoAddr]
       /\ hello' = [hello EXCEPT ![w] = None]

Finish(w) == Continue(w, FALSE, "recv") /\ out' = [out EXCEPT ![w] = None]

-----------------------------------------------------------------------------
(* A goroutine takes a datagram and looks at where it came from.           *)

\* A hello: held if it is not from the peer, else answered on the spot.
RecvHello(w, a) ==
  /\ pc[w] = "recv"
  /\ arrived < MaxHellos /\ now + Hold <= MaxTime
  /\ arrived' = arrived + 1
  /\ from' = [from EXCEPT ![arrived'] = a]
  /\ at' = [at EXCEPT ![arrived'] = now]
  /\ src' = [src EXCEPT ![w] = a]
  /\ hello' = [hello EXCEPT ![w] = arrived']
  /\ Goto(w, IF peer = a THEN "reply" ELSE "offer")
  /\ UNCHANGED <<peer, gateVars, out, now, auths, sendVars, authed, reported>>

\* A packet openSeq accepts.
RecvAuth(w, a) ==
  /\ pc[w] = "recv"
  /\ a \in Dialers
  /\ auths < MaxAuth
  /\ auths' = auths + 1
  /\ authed' = authed \cup {a}
  /\ src' = [src EXCEPT ![w] = a]
  /\ Goto(w, "roam")
  /\ UNCHANGED <<peer, gateVars, hello, out, from, at, now, arrived, sendVars, reported>>

\* adoptPeerCID takes the first connection ID only.
Adopt(a) ==
  /\ adopted' = TRUE
  /\ cidFrom' = IF adopted THEN cidFrom ELSE a

\* The peer's own hello is answered to the peer of the moment, or not at all
\* when this goroutine has answered one less than half a minute ago.
Reply(w) ==
  /\ pc[w] = "reply"
  /\ Adopt(src[w])
  /\ \/ /\ sentTo' = sentTo \cup {peer}
        /\ answered' = [answered EXCEPT ![hello[w]] = @ + 1]
     \/ UNCHANGED <<sentTo, answered>>
  /\ Finish(w)
  /\ UNCHANGED <<peer, gateVars, envVars, authed, reported>>

-----------------------------------------------------------------------------
(* helloGate.offer                                                         *)

\* The timer is left running when a hello displaces another.
MutantOffer(w) ==
  /\ pc[w] = "offer"
  /\ held' = hello[w] /\ armed' = TRUE
  /\ timer' = IF held = None THEN now + Hold ELSE timer
  /\ out' = [out EXCEPT ![w] = held]
  /\ Goto(w, IF held = None THEN "same" ELSE "report")
  /\ UNCHANGED <<peer, runs, filing, src, hello, envVars, sendVars, authed, reported>>

Offer(w) ==
  /\ pc[w] = "offer"
  /\ now + Hold <= MaxTime
  /\ held' = hello[w] /\ armed' = TRUE
  /\ timer' = now + Hold
  /\ out' = [out EXCEPT ![w] = held]
  /\ Goto(w, IF held = None THEN "same" ELSE "report")
  /\ UNCHANGED <<peer, runs, filing, src, hello, envVars, sendVars, authed, reported>>

\* Whatever it displaced is reported, after the mutex is released.
Report(w) ==
  /\ pc[w] = "report"
  /\ reported' = [reported EXCEPT ![out[w]] = @ + 1]
  /\ out' = [out EXCEPT ![w] = None]
  /\ Goto(w, "same")
  /\ UNCHANGED <<peer, gateVars, src, hello, envVars, sendVars, authed>>

\* The second look is left out.
MutantSame(w) ==
  /\ pc[w] = "same"
  /\ Finish(w)
  /\ UNCHANGED <<peer, gateVars, envVars, sendVars, authed, reported>>

\* Every hello is confirmed, whoever sent it.
MutantSameAny(w) ==
  /\ pc[w] = "same"
  /\ Goto(w, "load")
  /\ UNCHANGED <<peer, gateVars, src, hello, out, envVars, sendVars, authed, reported>>

\* offerHello's second look: has the sender authenticated meanwhile?
Same(w) ==
  /\ pc[w] = "same"
  /\ Continue(w, peer = src[w], "load")
  /\ UNCHANGED <<peer, gateVars, out, envVars, sendVars, authed, reported>>

-----------------------------------------------------------------------------
(* maybeRoam, then helloGate.confirm                                       *)

Roam(w) ==
  /\ pc[w] = "roam"
  /\ peer' = src[w]
  /\ Goto(w, "load")
  /\ UNCHANGED <<gateVars, src, hello, out, envVars, sendVars, authed, reported>>

\* confirm's fast path: one atomic load, no mutex.
Load(w) ==
  /\ pc[w] = "load"
  /\ Continue(w, armed, "confirm")
  /\ UNCHANGED <<peer, gateVars, out, envVars, sendVars, authed, reported>>

\* The hello is answered but left in the slot.
MutantConfirm(w) ==
  /\ pc[w] = "confirm"
  /\ IF held # None /\ from[held] = src[w]
     THEN out' = [out EXCEPT ![w] = held] /\ Continue(w, TRUE, "answer")
     ELSE Finish(w)
  /\ UNCHANGED <<peer, gateVars, envVars, sendVars, authed, reported>>

Confirm(w) ==
  /\ pc[w] = "confirm"
  /\ IF held # None /\ from[held] = src[w]
     THEN /\ held' = None /\ armed' = FALSE
          /\ out' = [out EXCEPT ![w] = held]
          /\ Continue(w, TRUE, "answer")
     ELSE UNCHANGED <<held, armed>> /\ Finish(w)
  /\ UNCHANGED <<peer, timer, runs, filing, envVars, sendVars, authed, reported>>

\* helloAnswer, sent to the hello's own source, which may not be the peer.  An
\* answer that cannot be built or sent is logged and not tried again: the hello
\* counts as taken up all the same.
AnswerHello(w) ==
  /\ pc[w] = "answer"
  /\ Adopt(from[out[w]])
  /\ sentTo' = sentTo \cup {from[out[w]]}
  /\ answered' = [answered EXCEPT ![out[w]] = @ + 1]
  /\ Finish(w)
  /\ UNCHANGED <<peer, gateVars, envVars, authed, reported>>

-----------------------------------------------------------------------------
(* helloGate.expire, started by the timer in a goroutine of its own.       *)

Fire ==
  /\ timer <= now
  /\ timer' = Never
  /\ runs' = runs + 1
  /\ UNCHANGED <<peer, held, armed, filing, workVars, envVars, sendVars, authed, reported>>

Expire ==
  /\ runs > 0
  /\ runs' = runs - 1
  /\ IF held = None \/ now - at[held] < Hold
     THEN UNCHANGED <<held, armed, filing>>
     ELSE held' = None /\ armed' = FALSE /\ filing' = filing \cup {held}
  /\ UNCHANGED <<peer, timer, workVars, envVars, sendVars, authed, reported>>

File(h) ==
  /\ h \in filing
  /\ filing' = filing \ {h}
  /\ reported' = [reported EXCEPT ![h] = @ + 1]
  /\ UNCHANGED <<peer, held, armed, timer, runs, workVars, envVars, sendVars, authed>>

\* The clock.  It waits for a stamped hello to be offered only where the bound
\* on time would otherwise cut its hold short.
Tick ==
  /\ now < MaxTime
  /\ now + Hold < MaxTime \/ \A w \in Workers : pc[w] # "offer"
  /\ now' = now + 1
  /\ UNCHANGED <<peer, gateVars, workVars, from, at, arrived, auths, sendVars, authed,
                 reported>>

-----------------------------------------------------------------------------
Work(w) ==
  \/ Reply(w) \/ Offer(w) \/ Report(w) \/ Same(w)
  \/ Roam(w) \/ Load(w) \/ Confirm(w) \/ AnswerHello(w)

Next ==
  \/ \E w \in Workers, a \in Addrs : RecvHello(w, a) \/ RecvAuth(w, a)
  \/ \E w \in Workers : Work(w)
  \/ Fire \/ Expire \/ Tick
  \/ \E h \in Hellos : File(h)

\* The scheduler runs every goroutine, the clock ticks and timers fire.
Fairness ==
  /\ \A w \in Workers : WF_vars(Work(w))
  /\ WF_vars(Fire) /\ WF_vars(Expire) /\ WF_vars(Tick)
  /\ \A h \in Hellos : WF_vars(File(h))

Spec == Init /\ [][Next]_vars /\ Fairness

-----------------------------------------------------------------------------
TypeOK ==
  /\ peer \in Addrs \cup {NoAddr}
  /\ held \in Hellos \cup {None}
  /\ armed \in BOOLEAN
  /\ timer \in 0 .. Never
  /\ runs \in Nat
  /\ filing \subseteq Hellos
  /\ adopted \in BOOLEAN
  /\ pc \in [Workers -> {"recv", "reply", "offer", "report", "same", "roam", "load",
                         "confirm", "answer"}]
  /\ src \in [Workers -> Addrs \cup {NoAddr}]
  /\ hello \in [Workers -> Hellos \cup {None}]
  /\ out \in [Workers -> Hellos \cup {None}]
  /\ from \in [Hellos -> Addrs \cup {NoAddr}]
  /\ at \in [Hellos -> 0 .. MaxTime]
  /\ now \in 0 .. MaxTime
  /\ arrived \in 0 .. MaxHellos
  /\ auths \in 0 .. MaxAuth
  /\ authed \subseteq Addrs
  /\ sentTo \subseteq Addrs \cup {NoAddr}
  /\ cidFrom \in Addrs \cup {NoAddr}
  /\ answered \in [Hellos -> Nat]
  /\ reported \in [Hellos -> Nat]

(* A hello is dealt with once: taken up to be answered, whether or not the *)
(* answer goes out, or reported, never both and never twice, although      *)
(* confirm, offer and expire race for the one slot (types included).       *)
FiledOnce == TypeOK /\ \A h \in Hellos : answered[h] + reported[h] <= 1

(* "The listener sends nothing to an address that has not authenticated"   *)
(* (announce, reverse.go), nor does it take a connection ID from one.      *)
SilentUntilVouched ==
  /\ sentTo \subseteq authed
  /\ cidFrom \in authed \cup {NoAddr}

(* "Closes a race between the parallel receive goroutines" (offerHello):   *)
(* a hello in the slot whose sender is the peer by now never waits for a   *)
(* packet that need not come -- some goroutine is on its way to confirm    *)
(* it.                                                                     *)
NoneLeftBehind ==
  (held # None /\ from[held] = peer) =>
    \E w \in Workers :
      src[w] = peer /\ pc[w] \in {"report", "same", "load", "confirm"}

Offered(h) == held = h
Filed(h)   == answered[h] + reported[h] > 0

(* Every hello the gate takes in comes out of it: one timer, rescheduled   *)
(* by each offer while an earlier run may be under way, is enough to see   *)
(* each of them answered or reported (offer, expire).                      *)
EveryHelloFiled == \A h \in Hellos : Offered(h) ~> Filed(h)
=============================================================================
