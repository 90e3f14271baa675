--------------------------- MODULE HelloGateProofs ---------------------------
(***************************************************************************)
(* The hello gate for any number of receive goroutines, addresses, hellos  *)
(* and packets, any hold and any length of time.                           *)
(*                                                                         *)
(* The arguments, one for each part of the inductive invariant: a hello    *)
(* has one place at a time and leaves the last one when it is dealt with   *)
(* (Placed); whatever is sent goes where an authenticated packet came from *)
(* (Vouched); a goroutine is on its way to a held hello of the peer's      *)
(* (NoneLeftBehind, which is inductive once `armed` is known to tell       *)
(* whether the slot is taken); and a held hello has its timer (Timed).     *)
(***************************************************************************)
EXTENDS HelloGate, TLAPS

\* The hello each goroutine has on its hands, not yet offered or already taken out.
Hand ==
  [w \in Workers |-> CASE pc[w] \in {"reply", "offer"}   -> hello[w]
                      [] pc[w] \in {"report", "answer"} -> out[w]
                      [] OTHER -> None]

Unfiled(h) == answered[h] = 0 /\ reported[h] = 0

\* Goroutines know what they handle, and `armed` tells whether the slot is taken.
Handled ==
  /\ armed = (held # None)
  /\ held <= arrived /\ \A h \in filing : h <= arrived
  /\ \A w \in Workers :
       /\ pc[w] # "recv" => src[w] \in Addrs
       /\ pc[w] \in {"reply", "offer"} => hello[w] # None /\ from[hello[w]] = src[w]
       /\ pc[w] \in {"report", "answer"} => out[w] # None
       /\ Hand[w] <= arrived

\* A hello has one place: a goroutine's hands, the slot, or the reporter's.
Placed ==
  /\ \A h \in Hellos : answered[h] + reported[h] <= 1
  /\ \A h \in Hellos : h > arrived \/ h = held \/ h \in filing => Unfiled(h)
  /\ held \notin filing
  /\ \A w \in Workers :
       Hand[w] # None =>
         /\ Unfiled(Hand[w])
         /\ Hand[w] # held /\ Hand[w] \notin filing
         /\ \A v \in Workers \ {w} : Hand[v] # Hand[w]

\* Whoever is sent to, or about to be, has authenticated.
Vouched ==
  /\ SilentUntilVouched
  /\ peer \in authed \cup {NoAddr}
  /\ \A w \in Workers :
       /\ pc[w] = "reply" => src[w] \in authed /\ peer # NoAddr
       /\ pc[w] \in {"roam", "load", "confirm"} => src[w] \in authed
       /\ pc[w] = "answer" => from[out[w]] \in authed

\* The held hello's own timer is set, or a call of expire that will find it due waits.
Timed ==
  /\ \A h \in Hellos : at[h] <= now
  /\ held # None =>
       \/ timer # Never /\ timer >= at[held] + Hold
       \/ runs > 0 /\ now >= at[held] + Hold

GateInv == TypeOK /\ Handled /\ Placed /\ Vouched /\ NoneLeftBehind /\ Timed

-----------------------------------------------------------------------------

(* Types. *)
(* Counting one more hello keeps a count of each a function to Nat.        *)
LEMMA Counted ==
  ASSUME NEW S, NEW f \in [S -> Nat], NEW x \in S
  PROVE  [f EXCEPT ![x] = @ + 1] \in [S -> Nat]
OBVIOUS

LEMMA TypeStep ==
  ASSUME TypeOK, Handled, [Next]_vars
  PROVE  TypeOK'
<1> USE GateAssumption DEF TypeOK, Hellos, None, Never, gateVars, workVars, envVars, sendVars
<1>1. ASSUME NEW w \in Workers, NEW a \in Addrs, RecvHello(w, a) PROVE TypeOK'
  <2>1. arrived' \in 1 .. MaxHellos /\ now + Hold \in 0 .. MaxTime
    BY <1>1 DEF RecvHello
  <2>2. /\ from' \in [Hellos -> Addrs \cup {NoAddr}] /\ at' \in [Hellos -> 0 .. MaxTime]
        /\ src' \in [Workers -> Addrs \cup {NoAddr}]
        /\ hello' \in [Workers -> Hellos \cup {None}]
    BY <1>1, <2>1 DEF RecvHello
  <2>3. QED
    BY <1>1, <2>1, <2>2 DEF RecvHello, Goto
<1>2. ASSUME NEW w \in Workers, NEW a \in Addrs, RecvAuth(w, a) PROVE TypeOK'
  <2>1. /\ auths' \in 0 .. MaxAuth /\ authed' \subseteq Addrs
        /\ src' \in [Workers -> Addrs \cup {NoAddr}]
    BY <1>2 DEF RecvAuth
  <2>2. QED
    BY <1>2, <2>1 DEF RecvAuth, Goto
<1>3. ASSUME NEW w \in Workers, Reply(w) PROVE TypeOK'
  <2>1. hello[w] \in Hellos
    BY <1>3 DEF Reply, Handled
  <2>2. answered' = answered \/ answered' = [answered EXCEPT ![hello[w]] = @ + 1]
    BY <1>3 DEF Reply
  <2>3. answered' \in [Hellos -> Nat]
    <3>1. answered \in [Hellos -> Nat]
      OBVIOUS
    <3> HIDE DEF TypeOK, Hellos
    <3>2. QED
      BY <2>1, <2>2, <3>1, Counted
  <2>4. sentTo' \subseteq Addrs \cup {NoAddr}
    BY <1>3 DEF Reply
  <2>5. QED
    BY <1>3, <2>3, <2>4 DEF Reply, Adopt, Finish, Continue, Goto
<1>4. ASSUME NEW w \in Workers, Offer(w) PROVE TypeOK'
  <2>1. timer' \in 0 .. Never /\ held' \in Hellos \cup {None} /\ out' \in [Workers -> Hellos \cup {None}]
    BY <1>4 DEF Offer
  <2>2. QED
    BY <1>4, <2>1 DEF Offer, Goto
<1>5. ASSUME NEW w \in Workers, Report(w) PROVE TypeOK'
  <2>1. out[w] \in Hellos
    BY <1>5 DEF Report, Handled
  <2>2. reported' \in [Hellos -> Nat]
    BY <1>5, <2>1, Counted DEF Report
  <2>3. out' \in [Workers -> Hellos \cup {None}]
    BY <1>5 DEF Report
  <2>4. QED
    BY <1>5, <2>2, <2>3 DEF Report, Goto
<1>6. ASSUME NEW w \in Workers, Same(w) PROVE TypeOK'
  BY <1>6 DEF Same, Continue, Goto
<1>7. ASSUME NEW w \in Workers, Roam(w) PROVE TypeOK'
  BY <1>7 DEF Roam, Goto
<1>8. ASSUME NEW w \in Workers, Load(w) PROVE TypeOK'
  BY <1>8 DEF Load, Continue, Goto
<1>9. ASSUME NEW w \in Workers, Confirm(w) PROVE TypeOK'
  <2>1. /\ src' \in [Workers -> Addrs \cup {NoAddr}]
        /\ hello' \in [Workers -> Hellos \cup {None}]
        /\ out' \in [Workers -> Hellos \cup {None}]
    <3>1. /\ src' \in {src, [src EXCEPT ![w] = NoAddr]}
          /\ hello' \in {hello, [hello EXCEPT ![w] = None]}
          /\ out' \in {[out EXCEPT ![w] = held], [out EXCEPT ![w] = None]}
      BY <1>9 DEF Confirm, Finish, Continue
    <3>2. src' \in [Workers -> Addrs \cup {NoAddr}]
      BY <3>1
    <3>3. hello' \in [Workers -> Hellos \cup {None}]
      BY <3>1
    <3>4. out' \in [Workers -> Hellos \cup {None}]
      <4>1. out \in [Workers -> Hellos \cup {None}] /\ held \in Hellos \cup {None}
            /\ None \in Hellos \cup {None}
        OBVIOUS
      <4> HIDE DEF TypeOK
      <4>2. QED
        BY <3>1, <4>1
    <3>5. QED
      BY <3>2, <3>3, <3>4
  <2>2. /\ pc' = [pc EXCEPT ![w] = "answer"] \/ pc' = [pc EXCEPT ![w] = "recv"]
        /\ held' \in {held, None} /\ armed' \in {armed, FALSE}
        /\ UNCHANGED <<peer, timer, runs, filing, envVars, sendVars, authed, reported>>
    BY <1>9 DEF Confirm, Finish, Continue, Goto
  <2>3. QED
    BY <2>1, <2>2
<1>10. ASSUME NEW w \in Workers, AnswerHello(w) PROVE TypeOK'
  <2>1. out[w] \in Hellos
    BY <1>10 DEF AnswerHello, Handled
  <2>2. answered' \in [Hellos -> Nat] /\ from[out[w]] \in Addrs \cup {NoAddr}
    BY <1>10, <2>1, Counted DEF AnswerHello
  <2>3. QED
    BY <1>10, <2>2 DEF AnswerHello, Adopt, Finish, Continue, Goto
<1>11. CASE Fire
  BY <1>11 DEF Fire
<1>12. CASE Expire
  <2>1. runs' \in Nat
    BY <1>12 DEF Expire
  <2>2. CASE held = None \/ now - at[held] < Hold
    BY <1>12, <2>1, <2>2 DEF Expire
  <2>3. CASE ~(held = None \/ now - at[held] < Hold)
    <3>1. held' = None /\ armed' = FALSE /\ filing' = filing \cup {held} /\ held \in Hellos
      BY <1>12, <2>3 DEF Expire
    <3>2. QED
      BY <1>12, <2>1, <3>1 DEF Expire
  <2>4. QED
    BY <2>2, <2>3
<1>13. CASE Tick
  <2>1. now' \in 0 .. MaxTime
    BY <1>13 DEF Tick
  <2>2. UNCHANGED <<peer, gateVars, workVars, from, at, arrived, auths, sendVars, authed, reported>>
    BY <1>13 DEF Tick
  <2>3. QED
    BY <2>1, <2>2
<1>14. ASSUME NEW h \in Hellos, File(h) PROVE TypeOK'
  <2>1. reported' \in [Hellos -> Nat]
    BY <1>14, Counted DEF File
  <2>2. QED
    BY <1>14, <2>1 DEF File
<1>15. CASE UNCHANGED vars
  BY <1>15 DEF vars
<1>16. QED
  BY <1>1, <1>2, <1>3, <1>4, <1>5, <1>6, <1>7, <1>8, <1>9, <1>10, <1>11, <1>12, <1>13, <1>14,
     <1>15 DEF Next, Work

(* What the goroutines have on their hands is well typed. *)
LEMMA HandType ==
  ASSUME TypeOK
  PROVE  /\ Hand \in [Workers -> 0 .. MaxHellos]
         /\ held \in 0 .. MaxHellos /\ filing \subseteq 1 .. MaxHellos /\ arrived \in 0 .. MaxHellos
         /\ answered \in [1 .. MaxHellos -> Nat] /\ reported \in [1 .. MaxHellos -> Nat]
         /\ \A w \in Workers : hello[w] \in 0 .. MaxHellos /\ out[w] \in 0 .. MaxHellos
         /\ MaxHellos \in Nat
<1>1. MaxHellos \in Nat /\ Hellos \cup {None} = 0 .. MaxHellos /\ None \in 0 .. MaxHellos
  BY GateAssumption DEF Hellos, None
<1>2. ASSUME NEW w \in Workers PROVE hello[w] \in 0 .. MaxHellos /\ out[w] \in 0 .. MaxHellos
  BY <1>1 DEF TypeOK
<1>3. ASSUME NEW w \in Workers PROVE Hand[w] \in 0 .. MaxHellos
  BY <1>1, <1>2 DEF Hand
<1>4. Hand \in [Workers -> 0 .. MaxHellos]
  BY <1>3 DEF Hand
<1>5. QED
  BY <1>1, <1>2, <1>4 DEF TypeOK, Hellos

(* What the goroutines have on their hands is what they took. *)
LEMMA HandledStep ==
  ASSUME TypeOK, Handled, [Next]_vars
  PROVE  Handled'
<1> USE GateAssumption DEF Handled, gateVars, workVars, envVars, sendVars
<1>t. /\ held \in 0 .. MaxHellos /\ filing \subseteq 1 .. MaxHellos /\ arrived \in 0 .. MaxHellos
      /\ MaxHellos \in Nat /\ None = 0 /\ Hellos = 1 .. MaxHellos
      /\ from \in [Hellos -> Addrs \cup {NoAddr}]
      /\ \A w \in Workers : hello[w] \in 0 .. MaxHellos /\ out[w] \in 0 .. MaxHellos
      /\ pc = [w \in Workers |-> pc[w]] /\ src = [w \in Workers |-> src[w]]
      /\ hello = [w \in Workers |-> hello[w]] /\ out = [w \in Workers |-> out[w]]
  <2>1. /\ pc = [w \in Workers |-> pc[w]] /\ src = [w \in Workers |-> src[w]]
        /\ hello = [w \in Workers |-> hello[w]] /\ out = [w \in Workers |-> out[w]]
    BY DEF TypeOK
  <2>2. QED
    BY <2>1, HandType DEF TypeOK, Hellos, None
<1>1. ASSUME NEW w \in Workers, NEW a \in Addrs, RecvHello(w, a) PROVE Handled'
  BY <1>1, <1>t DEF RecvHello, Goto, Hand
<1>2. ASSUME NEW w \in Workers, NEW a \in Addrs, RecvAuth(w, a), a \in Addrs PROVE Handled'
  BY <1>2, <1>t DEF RecvAuth, Goto, Hand
<1>3. ASSUME NEW w \in Workers, Reply(w) PROVE Handled'
  BY <1>3, <1>t DEF Reply, Finish, Continue, Goto, Hand
<1>4. ASSUME NEW w \in Workers, Offer(w) PROVE Handled'
  BY <1>4, <1>t DEF Offer, Goto, Hand
<1>5. ASSUME NEW w \in Workers, Report(w) PROVE Handled'
  BY <1>5, <1>t DEF Report, Goto, Hand
<1>6. ASSUME NEW w \in Workers, Same(w) PROVE Handled'
  BY <1>6, <1>t DEF Same, Continue, Goto, Hand
<1>7. ASSUME NEW w \in Workers, Roam(w) PROVE Handled'
  BY <1>7, <1>t DEF Roam, Goto, Hand
<1>8. ASSUME NEW w \in Workers, Load(w) PROVE Handled'
  BY <1>8, <1>t DEF Load, Continue, Goto, Hand
<1>9. ASSUME NEW w \in Workers, Confirm(w) PROVE Handled'
  <2>1. CASE held # None /\ from[held] = src[w]
    <3>1. /\ pc' = [pc EXCEPT ![w] = "answer"] /\ out' = [out EXCEPT ![w] = held]
          /\ held' = None /\ armed' = FALSE
          /\ UNCHANGED <<src, hello, from, arrived, filing>> /\ pc[w] = "confirm"
      BY <1>9, <2>1 DEF Confirm, Continue, Goto
    <3>2. QED
      BY <2>1, <3>1, <1>t DEF Hand
  <2>2. CASE ~(held # None /\ from[held] = src[w])
    <3>1. /\ pc' = [pc EXCEPT ![w] = "recv"] /\ out' = [out EXCEPT ![w] = None]
          /\ src' = [src EXCEPT ![w] = NoAddr] /\ hello' = [hello EXCEPT ![w] = None]
          /\ UNCHANGED <<held, armed, from, arrived, filing>>
      BY <1>9, <2>2 DEF Confirm, Finish, Continue, Goto
    <3>2. QED
      BY <3>1, <1>t DEF Hand
  <2>3. QED
    BY <2>1, <2>2
<1>10. ASSUME NEW w \in Workers, AnswerHello(w) PROVE Handled'
  BY <1>10, <1>t DEF AnswerHello, Finish, Continue, Goto, Hand
<1>11. CASE Fire
  BY <1>11, <1>t DEF Fire, Hand
<1>12. CASE Expire
  <2>1. UNCHANGED <<pc, src, hello, out, from, arrived>>
    BY <1>12 DEF Expire
  <2>2. \/ UNCHANGED <<held, armed, filing>>
        \/ held # None /\ held' = None /\ armed' = FALSE /\ filing' = filing \cup {held}
    BY <1>12 DEF Expire
  <2>3. CASE UNCHANGED <<held, armed, filing>>
    BY <1>t, <2>1, <2>3 DEF Hand
  <2>4. CASE held # None /\ held' = None /\ armed' = FALSE /\ filing' = filing \cup {held}
    <3>1. held' <= arrived' /\ \A h \in filing' : h <= arrived'
      BY <1>t, <2>1, <2>4
    <3>2. Hand' = Hand
      BY <2>1 DEF Hand
    <3>3. QED
      BY <2>1, <2>4, <3>1, <3>2
  <2>5. QED
    BY <2>2, <2>3, <2>4
<1>13. CASE Tick
  BY <1>13, <1>t DEF Tick, Hand
<1>14. ASSUME NEW h \in Hellos, File(h) PROVE Handled'
  BY <1>14, <1>t DEF File, Hand
<1>15. CASE UNCHANGED vars
  BY <1>15 DEF vars, Hand
<1>16. QED
  BY <1>1, <1>2, <1>3, <1>4, <1>5, <1>6, <1>7, <1>8, <1>9, <1>10, <1>11, <1>12, <1>13, <1>14,
     <1>15 DEF Next, Work

(* Where hellos are, if a step moves none. *)
LEMMA NoneMoved ==
  ASSUME Placed, UNCHANGED <<Hand, held, filing, arrived, answered, reported>>
  PROVE  Placed'
BY DEF Placed, Unfiled

(* A hello has one place. *)
LEMMA PlacedStep ==
  ASSUME TypeOK, Handled, Placed, [Next]_vars
  PROVE  Placed'
<1> USE DEF gateVars, workVars, envVars, sendVars
<1>t. /\ Hand \in [Workers -> Hellos \cup {None}]
      /\ held \in Hellos \cup {None} /\ filing \subseteq Hellos /\ arrived \in Nat
      /\ answered \in [Hellos -> Nat] /\ reported \in [Hellos -> Nat]
      /\ Hellos \subseteq Nat /\ None \notin Hellos /\ None \in Nat
  BY HandType DEF Hellos, None
<1>h. /\ held <= arrived /\ \A h \in filing : h <= arrived
      /\ \A w \in Workers : Hand[w] <= arrived
  BY DEF Handled
<1>f. /\ pc = [w \in Workers |-> pc[w]] /\ hello = [w \in Workers |-> hello[w]]
      /\ out = [w \in Workers |-> out[w]]
  BY DEF TypeOK
<1>1. ASSUME NEW w \in Workers, NEW a \in Addrs, RecvHello(w, a) PROVE Placed'
  <2>1. /\ Hand' = [Hand EXCEPT ![w] = arrived'] /\ Hand[w] = None
    BY <1>1, <1>f DEF RecvHello, Goto, Hand
  <2>2. /\ arrived' = arrived + 1 /\ arrived < MaxHellos
        /\ UNCHANGED <<held, filing, answered, reported>>
    BY <1>1 DEF RecvHello
  <2>3. arrived' \in Hellos /\ arrived' > arrived /\ arrived' \in Nat
    BY <1>t, <2>2, GateAssumption DEF Hellos
  <2>4. \A h \in Hellos : h <= arrived => h # arrived'
    BY <1>t, <2>2
  <2>5. /\ held # arrived' /\ arrived' \notin filing
        /\ \A v \in Workers : Hand[v] # arrived'
    BY <1>t, <1>h, <2>3, <2>4
  <2>6. \A h \in Hellos : h > arrived' => h > arrived
    BY <1>t, <2>2
  <2>7. Unfiled(arrived')
    BY <2>3 DEF Placed
  <2>8. /\ \A h \in Hellos : answered'[h] + reported'[h] <= 1
        /\ \A h \in Hellos : h > arrived' \/ h = held' \/ h \in filing' => Unfiled(h)'
        /\ held' \notin filing'
    BY <2>2, <2>6 DEF Placed, Unfiled
  <2>9. ASSUME NEW v \in Workers, Hand'[v] # None
        PROVE  /\ Unfiled(Hand[v])'
               /\ Hand'[v] # held' /\ Hand'[v] \notin filing'
               /\ \A u \in Workers \ {v} : Hand'[u] # Hand'[v]
    BY <1>t, <2>1, <2>2, <2>5, <2>7, <2>9 DEF Placed, Unfiled
  <2>10. QED
    BY <2>8, <2>9 DEF Placed
<1>2. ASSUME NEW w \in Workers, NEW a \in Addrs, RecvAuth(w, a) PROVE Placed'
  <2>1. Hand' = Hand
    BY <1>2, <1>f DEF RecvAuth, Goto, Hand
  <2>2. QED
    BY <1>2, <2>1, NoneMoved DEF RecvAuth
<1>3. ASSUME NEW w \in Workers, Reply(w) PROVE Placed'
  <2>1. /\ Hand' = [Hand EXCEPT ![w] = None] /\ Hand[w] = hello[w]
    BY <1>3, <1>f DEF Reply, Finish, Continue, Goto, Hand
  <2>2. /\ UNCHANGED <<arrived, held, filing, reported>> /\ hello[w] # None
    BY <1>3 DEF Reply, Handled
  <2>3. CASE answered' = answered
    BY <1>t, <1>h, <2>1, <2>2, <2>3 DEF Placed, Unfiled
  <2>4. CASE answered' = [answered EXCEPT ![hello[w]] = @ + 1]
    BY <1>t, <1>h, <2>1, <2>2, <2>4 DEF Placed, Unfiled
  <2>5. QED
    BY <1>3, <2>3, <2>4 DEF Reply
<1>4. ASSUME NEW w \in Workers, Offer(w) PROVE Placed'
  <2>1. /\ Hand' = [Hand EXCEPT ![w] = held] /\ Hand[w] = hello[w]
    BY <1>4, <1>f, <1>t DEF Offer, Goto, Hand
  <2>2. /\ UNCHANGED <<arrived, filing, answered, reported>>
        /\ held' = hello[w] /\ hello[w] # None
    BY <1>4 DEF Offer, Handled
  <2>3. QED
    BY <1>t, <1>h, <2>1, <2>2 DEF Placed, Unfiled
<1>5. ASSUME NEW w \in Workers, Report(w) PROVE Placed'
  <2>1. /\ Hand' = [Hand EXCEPT ![w] = None] /\ Hand[w] = out[w]
    BY <1>5, <1>f DEF Report, Goto, Hand
  <2>2. /\ UNCHANGED <<arrived, held, filing, answered>> /\ out[w] # None
        /\ reported' = [reported EXCEPT ![out[w]] = @ + 1]
    BY <1>5 DEF Report, Handled
  <2>3. QED
    BY <1>t, <1>h, <2>1, <2>2 DEF Placed, Unfiled
<1>6. ASSUME NEW w \in Workers, Same(w) PROVE Placed'
  <2>1. Hand' = Hand
    BY <1>6, <1>f DEF Same, Continue, Goto, Hand
  <2>2. QED
    BY <1>6, <2>1, NoneMoved DEF Same
<1>7. ASSUME NEW w \in Workers, Roam(w) PROVE Placed'
  <2>1. Hand' = Hand
    BY <1>7, <1>f DEF Roam, Goto, Hand
  <2>2. QED
    BY <1>7, <2>1, NoneMoved DEF Roam
<1>8. ASSUME NEW w \in Workers, Load(w) PROVE Placed'
  <2>1. Hand' = Hand
    BY <1>8, <1>f DEF Load, Continue, Goto, Hand
  <2>2. QED
    BY <1>8, <2>1, NoneMoved DEF Load
<1>9. ASSUME NEW w \in Workers, Confirm(w) PROVE Placed'
  <2>1. UNCHANGED <<arrived, filing, answered, reported>>
    BY <1>9 DEF Confirm
  <2>2. CASE held # None /\ from[held] = src[w]
    <3>1. /\ Hand' = [Hand EXCEPT ![w] = held] /\ held' = None /\ Hand[w] = None
      BY <1>9, <2>2, <1>f DEF Confirm, Continue, Goto, Hand
    <3>2. QED
      BY <1>t, <1>h, <2>1, <2>2, <3>1 DEF Placed, Unfiled
  <2>3. CASE ~(held # None /\ from[held] = src[w])
    <3>1. Hand' = Hand /\ held' = held
      BY <1>9, <2>3, <1>f DEF Confirm, Finish, Continue, Goto, Hand
    <3>2. QED
      BY <2>1, <3>1, NoneMoved
  <2>4. QED
    BY <2>2, <2>3
<1>10. ASSUME NEW w \in Workers, AnswerHello(w) PROVE Placed'
  <2>1. /\ Hand' = [Hand EXCEPT ![w] = None] /\ Hand[w] = out[w]
    BY <1>10, <1>f DEF AnswerHello, Finish, Continue, Goto, Hand
  <2>2. /\ UNCHANGED <<arrived, held, filing, reported>> /\ out[w] # None
        /\ answered' = [answered EXCEPT ![out[w]] = @ + 1]
    BY <1>10 DEF AnswerHello, Handled
  <2>3. QED
    BY <1>t, <1>h, <2>1, <2>2 DEF Placed, Unfiled
<1>11. CASE Fire
  BY <1>11, NoneMoved DEF Fire, Hand
<1>12. CASE Expire
  <2>1. UNCHANGED <<Hand, arrived, answered, reported>>
    BY <1>12 DEF Expire, Hand
  <2>2. \/ UNCHANGED <<held, filing>>
        \/ held # None /\ held' = None /\ filing' = filing \cup {held}
    BY <1>12 DEF Expire
  <2>3. QED
    BY <1>t, <1>h, <2>1, <2>2 DEF Placed, Unfiled
<1>13. CASE Tick
  BY <1>13, NoneMoved DEF Tick, Hand
<1>14. ASSUME NEW h \in Hellos, File(h) PROVE Placed'
  <2>1. /\ UNCHANGED <<Hand, arrived, answered, held>> /\ h \in filing
        /\ filing' = filing \ {h} /\ reported' = [reported EXCEPT ![h] = @ + 1]
    BY <1>14 DEF File, Hand
  <2>2. QED
    BY <1>t, <1>h, <2>1 DEF Placed, Unfiled
<1>15. CASE UNCHANGED vars
  BY <1>15, NoneMoved DEF vars, Hand
<1>16. QED
  BY <1>1, <1>2, <1>3, <1>4, <1>5, <1>6, <1>7, <1>8, <1>9, <1>10, <1>11, <1>12, <1>13, <1>14,
     <1>15 DEF Next, Work

(* Nothing is sent to strangers. *)
LEMMA VouchedStep ==
  ASSUME TypeOK, Handled, Vouched, [Next]_vars
  PROVE  Vouched'
<1> USE GateAssumption DEF TypeOK, Handled, Vouched, SilentUntilVouched, gateVars, workVars, envVars, sendVars
<1>1. ASSUME NEW w \in Workers, NEW a \in Addrs, RecvHello(w, a) PROVE Vouched'
  <2>1. \A v \in Workers : pc[v] = "answer" => Hand[v] = out[v] /\ out[v] \in Hellos
    BY DEF Hand, Hellos, None
  <2>2. arrived' = arrived + 1 /\ arrived \in Nat /\ Hellos \subseteq Nat
    BY <1>1 DEF RecvHello, Hellos
  <2>3. \A v \in Workers : pc[v] = "answer" => from'[out[v]] = from[out[v]]
    BY <1>1, <2>1, <2>2 DEF RecvHello
  <2>4. QED
    BY <1>1, <2>3 DEF RecvHello, Goto
<1>2. ASSUME NEW w \in Workers, NEW a \in Addrs, RecvAuth(w, a) PROVE Vouched'
  BY <1>2 DEF RecvAuth, Goto
<1>3. ASSUME NEW w \in Workers, Reply(w) PROVE Vouched'
  BY <1>3 DEF Reply, Adopt, Finish, Continue, Goto
<1>4. ASSUME NEW w \in Workers, Offer(w) PROVE Vouched'
  BY <1>4 DEF Offer, Goto
<1>5. ASSUME NEW w \in Workers, Report(w) PROVE Vouched'
  BY <1>5 DEF Report, Goto
<1>6. ASSUME NEW w \in Workers, Same(w) PROVE Vouched'
  <2>1. UNCHANGED <<peer, authed, sentTo, cidFrom, from, src, out>> \/ peer # src[w]
    BY <1>6 DEF Same, Continue, Goto
  <2>2. QED
    BY <1>6, <2>1 DEF Same, Continue, Goto
<1>7. ASSUME NEW w \in Workers, Roam(w) PROVE Vouched'
  BY <1>7 DEF Roam, Goto
<1>8. ASSUME NEW w \in Workers, Load(w) PROVE Vouched'
  BY <1>8 DEF Load, Continue, Goto
<1>9. ASSUME NEW w \in Workers, Confirm(w) PROVE Vouched'
  BY <1>9 DEF Confirm, Finish, Continue, Goto
<1>10. ASSUME NEW w \in Workers, AnswerHello(w) PROVE Vouched'
  BY <1>10 DEF AnswerHello, Adopt, Finish, Continue, Goto
<1>11. CASE Fire
  BY <1>11 DEF Fire
<1>12. CASE Expire
  BY <1>12 DEF Expire
<1>13. CASE Tick
  BY <1>13 DEF Tick
<1>14. ASSUME NEW h \in Hellos, File(h) PROVE Vouched'
  BY <1>14 DEF File
<1>15. CASE UNCHANGED vars
  BY <1>15 DEF vars
<1>16. QED
  BY <1>1, <1>2, <1>3, <1>4, <1>5, <1>6, <1>7, <1>8, <1>9, <1>10, <1>11, <1>12, <1>13, <1>14,
     <1>15 DEF Next, Work


(* Nobody is left behind. *)
LEMMA ConfirmStep ==
  ASSUME TypeOK, Handled, NoneLeftBehind, [Next]_vars
  PROVE  NoneLeftBehind'
<1> USE GateAssumption DEF TypeOK, Handled, NoneLeftBehind, None, gateVars, workVars, envVars, sendVars
<1>1. ASSUME NEW w \in Workers, NEW a \in Addrs, RecvHello(w, a) PROVE NoneLeftBehind'
  BY <1>1 DEF RecvHello, Goto
<1>2. ASSUME NEW w \in Workers, NEW a \in Addrs, RecvAuth(w, a) PROVE NoneLeftBehind'
  BY <1>2 DEF RecvAuth, Goto
<1>3. ASSUME NEW w \in Workers, Reply(w) PROVE NoneLeftBehind'
  BY <1>3 DEF Reply, Adopt, Finish, Continue, Goto
<1>4. ASSUME NEW w \in Workers, Offer(w) PROVE NoneLeftBehind'
  BY <1>4 DEF Offer, Goto
<1>5. ASSUME NEW w \in Workers, Report(w) PROVE NoneLeftBehind'
  BY <1>5 DEF Report, Goto
<1>6. ASSUME NEW w \in Workers, Same(w) PROVE NoneLeftBehind'
  BY <1>6 DEF Same, Continue, Goto
<1>7. ASSUME NEW w \in Workers, Roam(w) PROVE NoneLeftBehind'
  BY <1>7 DEF Roam, Goto
<1>8. ASSUME NEW w \in Workers, Load(w) PROVE NoneLeftBehind'
  BY <1>8 DEF Load, Continue, Goto
<1>9. ASSUME NEW w \in Workers, Confirm(w) PROVE NoneLeftBehind'
  BY <1>9 DEF Confirm, Finish, Continue, Goto
<1>10. ASSUME NEW w \in Workers, AnswerHello(w) PROVE NoneLeftBehind'
  BY <1>10 DEF AnswerHello, Adopt, Finish, Continue, Goto
<1>11. CASE Fire
  BY <1>11 DEF Fire
<1>12. CASE Expire
  BY <1>12 DEF Expire
<1>13. CASE Tick
  BY <1>13 DEF Tick
<1>14. ASSUME NEW h \in Hellos, File(h) PROVE NoneLeftBehind'
  BY <1>14 DEF File
<1>15. CASE UNCHANGED vars
  BY <1>15 DEF vars
<1>16. QED
  BY <1>1, <1>2, <1>3, <1>4, <1>5, <1>6, <1>7, <1>8, <1>9, <1>10, <1>11, <1>12, <1>13, <1>14,
     <1>15 DEF Next, Work


(* The timer. *)
LEMMA TimedStep ==
  ASSUME TypeOK, Handled, Timed, [Next]_vars
  PROVE  Timed'
<1> USE GateAssumption DEF TypeOK, Handled, Timed, Hellos, None, Never, gateVars, workVars, envVars, sendVars
<1>1. ASSUME NEW w \in Workers, NEW a \in Addrs, RecvHello(w, a) PROVE Timed'
  BY <1>1 DEF RecvHello, Goto
<1>2. ASSUME NEW w \in Workers, NEW a \in Addrs, RecvAuth(w, a) PROVE Timed'
  BY <1>2 DEF RecvAuth, Goto
<1>3. ASSUME NEW w \in Workers, Reply(w) PROVE Timed'
  BY <1>3 DEF Reply, Adopt, Finish, Continue, Goto
<1>4. ASSUME NEW w \in Workers, Offer(w) PROVE Timed'
  BY <1>4 DEF Offer, Goto
<1>5. ASSUME NEW w \in Workers, Report(w) PROVE Timed'
  BY <1>5 DEF Report, Goto
<1>6. ASSUME NEW w \in Workers, Same(w) PROVE Timed'
  BY <1>6 DEF Same, Continue, Goto
<1>7. ASSUME NEW w \in Workers, Roam(w) PROVE Timed'
  BY <1>7 DEF Roam, Goto
<1>8. ASSUME NEW w \in Workers, Load(w) PROVE Timed'
  BY <1>8 DEF Load, Continue, Goto
<1>9. ASSUME NEW w \in Workers, Confirm(w) PROVE Timed'
  BY <1>9 DEF Confirm, Finish, Continue, Goto
<1>10. ASSUME NEW w \in Workers, AnswerHello(w) PROVE Timed'
  BY <1>10 DEF AnswerHello, Adopt, Finish, Continue, Goto
<1>11. CASE Fire
  BY <1>11 DEF Fire
<1>12. CASE Expire
  <2>1. UNCHANGED <<at, now, timer>> /\ runs > 0 /\ runs' = runs - 1
    BY <1>12 DEF Expire
  <2>2. held' = None \/ (held' = held /\ (held = None \/ now - at[held] < Hold))
    BY <1>12 DEF Expire
  <2>3. CASE held' # None
    <3>1. held' = held /\ held \in Hellos /\ at[held] \in 0..MaxTime /\ now - at[held] < Hold
      BY <2>2, <2>3
    <3>2. timer # Never /\ timer >= at[held] + Hold
      BY <3>1
    <3>3. QED
      BY <2>1, <3>1, <3>2
  <2>4. QED
    BY <2>1, <2>3
<1>13. CASE Tick
  <2>1. now' = now + 1 /\ UNCHANGED <<at, held, timer, runs>>
    BY <1>13 DEF Tick
  <2>2. \A h \in Hellos : at'[h] <= now'
    BY <2>1
  <2>3. QED
    BY <2>1, <2>2
<1>14. ASSUME NEW h \in Hellos, File(h) PROVE Timed'
  BY <1>14 DEF File
<1>15. CASE UNCHANGED vars
  BY <1>15 DEF vars
<1>16. QED
  BY <1>1, <1>2, <1>3, <1>4, <1>5, <1>6, <1>7, <1>8, <1>9, <1>10, <1>11, <1>12, <1>13, <1>14,
     <1>15 DEF Next, Work

-----------------------------------------------------------------------------

(* The inductive invariant holds of every behaviour of the gate. *)
THEOREM GateInvariant == Spec => []GateInv
<1>1. Init => GateInv
  <2> SUFFICES ASSUME Init PROVE GateInv
    OBVIOUS
  <2>1. TypeOK
    <3>1. /\ None = 0 /\ Never \in 0 .. Never /\ 0 \in 0 .. MaxTime /\ 0 \in 0 .. MaxHellos
          /\ 0 \in 0 .. MaxAuth
      BY GateAssumption DEF None, Never
    <3>2. QED
      BY <3>1 DEF Init, TypeOK
  <2>2. Hand = [w \in Workers |-> None]
    BY DEF Init, Hand
  <2>3. Handled
    <3>1. armed = FALSE /\ held = None
      BY DEF Init
    <3>2. \A w \in Workers : Hand[w] <= arrived
      BY <2>2 DEF Init, None
    <3>3. armed = (held # None)
      BY <3>1, Zenon
    <3>4. QED
      BY <3>2, <3>3 DEF Init, Handled, None
  <2>4. Placed
    BY <2>2 DEF Init, Placed, Unfiled
  <2>5. Vouched /\ NoneLeftBehind /\ Timed
    BY DEF Init, Vouched, SilentUntilVouched, NoneLeftBehind, Timed
  <2>6. QED
    BY <2>1, <2>3, <2>4, <2>5 DEF GateInv
<1>2. GateInv /\ [Next]_vars => GateInv'
  BY TypeStep, HandledStep, PlacedStep, VouchedStep, ConfirmStep, TimedStep DEF GateInv
<1>3. QED
  BY <1>1, <1>2, PTL DEF Spec

(* A hello is answered or reported, never both and never twice, however    *)
(* many goroutines run offer, confirm and expire at once (reverse.go).     *)
THEOREM HelloFiledOnce == Spec => []FiledOnce
<1>1. GateInv => FiledOnce
  BY DEF GateInv, Placed, FiledOnce
<1>2. QED
  BY <1>1, GateInvariant, PTL

(* The listener is silent towards every address that has not authenticated *)
(* (announce and offerHello, reverse.go).                                  *)
THEOREM GateIsSilent == Spec => []SilentUntilVouched
<1>1. GateInv => SilentUntilVouched
  BY DEF GateInv, Vouched
<1>2. QED
  BY <1>1, GateInvariant, PTL

(* A held hello whose sender is the peer has a goroutine on its way to it  *)
(* (offerHello's second look, maybeRoam's call of confirm).                *)
THEOREM HelloNotLeftBehind == Spec => []NoneLeftBehind
<1>1. GateInv => NoneLeftBehind
  BY DEF GateInv
<1>2. QED
  BY <1>1, GateInvariant, PTL

(* A hello in the slot is never without what will take it out: its timer,  *)
(* set for the end of its hold or later, or a call of expire that will     *)
(* find it due -- although confirm leaves the timer of an answered hello   *)
(* running and offer reschedules it under a call already started.          *)
THEOREM HoldEnds == Spec => []Timed
<1>1. GateInv => Timed
  BY DEF GateInv
<1>2. QED
  BY <1>1, GateInvariant, PTL
=============================================================================
