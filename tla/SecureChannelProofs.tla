----------------------- MODULE SecureChannelProofs ------------------------
(***************************************************************************)
(* For any number of goroutines, any interval, skew, transit and window,   *)
(* and any number of packets and restarts: the channel keeps its promise,  *)
(* and the cached key is the one it is filed under.  Neither needs the     *)
(* clocks to agree.  The argument: copies of a datagram carry one number,  *)
(* whoever holds them, and the number of a delivered one is in the window. *)
(* And, if no interval is shorter than skew and transit together, whatever *)
(* arrives in time is heard: its epoch is among the candidates of every    *)
(* opener, and its number can only be in the window by itself.             *)
(***************************************************************************)
EXTENDS SecureChannel, TLAPS

\* The packets on their way or in an opener's hands.
InHand == {pkt[o] : o \in {x \in Openers : opc[x] # "idle"}}
Known  == net \cup InHand

\* Enough of the types to count with.
ChannelType ==
  /\ now \in Nat /\ ahead \in [{"sender", "receiver"} -> Nat]
  /\ sendSeq \in Nat /\ sealed \in 0 .. MaxSeals
  /\ newest \in Nat /\ seen \subseteq Nat
  /\ got \in [Datagrams -> Nat]
  /\ opc = [o \in Openers |-> opc[o]] /\ pkt = [o \in Openers |-> pkt[o]]
  /\ cands = [o \in Openers |-> cands[o]]

\* Packets carry datagrams that were sealed, and numbers.
KnownTyped == \A p \in Known : p.id \in 1 .. sealed /\ p.seq \in Nat

\* The copies of a datagram carry one number.
OneNumber == \A p, q \in Known : p.id = q.id => p.seq = q.seq

\* What was delivered was sealed, and its number is in the window.
WindowKnows ==
  /\ \A n \in seen : n <= newest
  /\ \A d \in Datagrams : d > sealed => got[d] = 0
  /\ \A p \in Known : got[p.id] > 0 => p.seq \in seen

ChannelInv == ChannelType /\ KnownTyped /\ OneNumber /\ WindowKnows

LEMMA InitChannelInv == Init => ChannelInv
<1> SUFFICES ASSUME Init PROVE ChannelInv
  OBVIOUS
<1> USE ChannelAssumption DEF Init
<1>1. Known = {}
  BY DEF Known, InHand
<1>2. ChannelType
  BY DEF ChannelType, Undelivered, Datagrams
<1>3. KnownTyped /\ OneNumber /\ WindowKnows
  BY <1>1 DEF KnownTyped, OneNumber, WindowKnows, Undelivered
<1> QED BY <1>2, <1>3 DEF ChannelInv

\* A step that neither seals nor delivers keeps the invariant, whatever it
\* does to the packets known, as long as there are no new ones.
LEMMA QuietStep ==
  ASSUME ChannelInv, ChannelType', Known' \subseteq Known,
         sealed' = sealed, got' = got, newest' = newest, seen' = seen
  PROVE  ChannelInv'
BY DEF ChannelInv, KnownTyped, OneNumber, WindowKnows

\* The two steps of an opener that begin and end its work.
LEMMA BeginKnown ==
  ASSUME ChannelType, NEW o \in Openers, NEW p \in Known, NEW ask,
         Begin(o, p, ask), net' = net
  PROVE  /\ Known' \subseteq Known
         /\ opc' = [x \in Openers |-> opc'[x]] /\ pkt' = [x \in Openers |-> pkt'[x]]
         /\ cands' = [x \in Openers |-> cands'[x]]
BY DEF ChannelType, Begin, Known, InHand

LEMMA FinishKnown ==
  ASSUME ChannelType, NEW o \in Openers, Finish(o), net' = net
  PROVE  /\ Known' \subseteq Known
         /\ opc' = [x \in Openers |-> opc'[x]] /\ pkt' = [x \in Openers |-> pkt'[x]]
         /\ cands' = [x \in Openers |-> cands'[x]]
BY DEF ChannelType, Finish, Known, InHand

\* A packet that is fresh has not been delivered.
LEMMA FreshUndelivered ==
  ASSUME ChannelInv, NEW p \in Known, Fresh(p.seq)
  PROVE  p.id \in Datagrams /\ p.id \in 1 .. sealed /\ got[p.id] = 0 /\ p.seq \notin seen
<1> USE DEF ChannelInv, ChannelType
<1>1. p.id \in 1 .. sealed /\ p.seq \in Nat /\ p.id \in Datagrams
  BY ChannelAssumption DEF KnownTyped, Datagrams
<1>2. p.seq \notin seen
  BY <1>1 DEF Fresh, WindowKnows
<1>3. got[p.id] \in Nat /\ ~(got[p.id] > 0)
  BY <1>1, <1>2 DEF WindowKnows
<1> QED BY <1>1, <1>2, <1>3

LEMMA StepChannelInv == ChannelInv /\ [Next]_vars => ChannelInv'
<1> SUFFICES ASSUME ChannelInv, [Next]_vars PROVE ChannelInv'
  OBVIOUS
<1> USE DEF ChannelInv
<1> USE DEF sealVars, windowVars, epochVars, openVars
<1>1. ASSUME NEW s \in Sealers, TakeKey(s) PROVE ChannelInv'
  <2>1. ChannelType' /\ Known' = Known
    BY <1>1 DEF TakeKey, ChannelType, Known, InHand
  <2> QED BY <1>1, <2>1, QuietStep DEF TakeKey
<1>2. ASSUME NEW s \in Sealers, Number(s) PROVE ChannelInv'
  <2> USE <1>2 DEF Number, ChannelType
  <2> DEFINE new == Packet(s, sendSeq')
  <2>1. new.id = sealed + 1 /\ new.seq = sendSeq + 1
    BY DEF Packet
  <2>2. sealed' = sealed + 1 /\ sealed' \in Datagrams /\ got' = got /\ seen' = seen
    BY ChannelAssumption DEF Datagrams
  <2>3. Known' = Known \cup {new}
    BY DEF Known, InHand
  <2> HIDE DEF new
  <2>4. \A p \in Known : p.id # new.id
    BY <2>1 DEF KnownTyped
  <2>5. ChannelType'
    BY ChannelAssumption
  <2>6. KnownTyped'
    BY <2>1, <2>2, <2>3 DEF KnownTyped
  <2>7. OneNumber'
    BY <2>3, <2>4 DEF OneNumber
  <2>8. got[new.id] = 0
    BY <2>1, <2>2 DEF WindowKnows
  <2>9. WindowKnows'
    BY <2>2, <2>3, <2>8 DEF WindowKnows, Datagrams
  <2> QED BY <2>5, <2>6, <2>7, <2>9
<1>3. CASE Stop
  <2>1. ChannelType' /\ Known' = Known
    BY <1>3 DEF Stop, ChannelType, Known, InHand
  <2> QED BY <1>3, <2>1, QuietStep DEF Stop
<1>4. CASE Start
  <2>1. Clock("sender") * Rate \in Nat
    BY ChannelAssumption DEF Clock, ChannelType
  <2>2. ChannelType' /\ Known' = Known
    BY <1>4, <2>1 DEF Start, ChannelType, Known, InHand
  <2> QED BY <1>4, <2>2, QuietStep DEF Start
<1>5. ASSUME NEW o \in Openers, NEW p \in net, NEW ask \in BOOLEAN, Take(o, p, ask)
      PROVE  ChannelInv'
  <2>1. ChannelType' /\ Known' \subseteq Known
    <3>1. p \in Known /\ Begin(o, p, ask) /\ net' = net
      BY <1>5 DEF Take, Known
    <3> QED BY <1>5, <3>1, BeginKnown DEF Take, ChannelType
  <2> QED BY <1>5, <2>1, QuietStep DEF Take
<1>6. ASSUME NEW o \in Openers, LoadHave(o) \/ LoadLast(o) PROVE ChannelInv'
  <2>1. ChannelType' /\ Known' = Known
    BY <1>6 DEF LoadHave, LoadLast, Candidates, ChannelType, Known, InHand
  <2> QED BY <1>6, <2>1, QuietStep DEF LoadHave, LoadLast
<1>7. ASSUME NEW o \in Openers, Try(o) PROVE ChannelInv'
  <2>1. net' = net /\ sealed' = sealed /\ got' = got /\ newest' = newest /\ seen' = seen
    BY <1>7 DEF Try
  <2>2. CASE cands[o] = <<>>
    <3>1. Finish(o)
      BY <1>7, <2>2 DEF Try
    <3>2. ChannelType' /\ Known' \subseteq Known
      BY <1>7, <2>1, <3>1, FinishKnown DEF Try, ChannelType
    <3> QED BY <2>1, <3>2, QuietStep
  <2>3. CASE cands[o] # <<>>
    <3>1. ChannelType' /\ Known' = Known
      BY <1>7, <2>3 DEF Try, ChannelType, Known, InHand
    <3> QED BY <2>1, <3>1, QuietStep
  <2> QED BY <2>2, <2>3
<1>8. ASSUME NEW o \in Openers, Vouch(o) PROVE ChannelInv'
  <2>1. net' = net /\ sealed' = sealed /\ got' = got /\ newest' = newest /\ seen' = seen
    BY <1>8 DEF Vouch
  <2>2. CASE Fresh(pkt[o].seq)
    <3>1. ChannelType' /\ Known' = Known
      BY <1>8, <2>2 DEF Vouch, ChannelType, Known, InHand
    <3> QED BY <2>1, <3>1, QuietStep
  <2>3. CASE ~Fresh(pkt[o].seq)
    <3>1. Finish(o)
      BY <1>8, <2>3 DEF Vouch
    <3>2. ChannelType' /\ Known' \subseteq Known
      BY <1>8, <2>1, <3>1, FinishKnown DEF Vouch, ChannelType
    <3> QED BY <2>1, <3>2, QuietStep
  <2> QED BY <2>2, <2>3
<1>9. ASSUME NEW o \in Openers, Reopen(o) PROVE ChannelInv'
  <2>1. pkt[o] \in Known
    BY <1>9 DEF Reopen, Known, InHand
  <2>2. ChannelType' /\ Known' \subseteq Known
    BY <1>9, <2>1, BeginKnown DEF Reopen, ChannelType
  <2> QED BY <1>9, <2>2, QuietStep DEF Reopen
<1>10. ASSUME NEW o \in Openers, Check(o) PROVE ChannelInv'
  <2>1. net' = net /\ sealed' = sealed
    BY <1>10 DEF Check
  <2>2. CASE ~Fresh(pkt[o].seq)
    <3>1. Finish(o) /\ got' = got /\ newest' = newest /\ seen' = seen
      BY <1>10, <2>2 DEF Check
    <3>2. ChannelType' /\ Known' \subseteq Known
      BY <1>10, <2>1, <3>1, FinishKnown DEF Check, ChannelType
    <3> QED BY <2>1, <3>1, <3>2, QuietStep
  <2>3. CASE Fresh(pkt[o].seq)
    <3> DEFINE p == pkt[o]
    <3>1. p \in Known
      BY <1>10 DEF Check, Known, InHand
    <3>2. p.id \in Datagrams /\ p.id \in 1 .. sealed /\ p.seq \in Nat
      BY <3>1, <2>3, FreshUndelivered DEF KnownTyped
    <3>3. /\ got' = [got EXCEPT ![p.id] = @ + 1] /\ seen' = seen \cup {p.seq}
          /\ newest' = IF p.seq > newest THEN p.seq ELSE newest
          /\ opc' = [opc EXCEPT ![o] = "remember"] /\ pkt' = pkt /\ cands' = cands
      BY <1>10, <2>3 DEF Check
    <3>4. Known' = Known
      <4>1. InHand' = InHand
        BY <1>10, <3>3 DEF Check, ChannelType, InHand
      <4> QED BY <2>1, <4>1 DEF Known
    <3> HIDE DEF p
    <3>5. ChannelType'
      BY <1>10, <3>2, <3>3 DEF Check, ChannelType
    <3>6. KnownTyped' /\ OneNumber'
      BY <2>1, <3>4 DEF KnownTyped, OneNumber
    <3>7. \A n \in seen' : n <= newest'
      BY <3>2, <3>3 DEF ChannelType, WindowKnows
    <3>8. \A d \in Datagrams : d > sealed' => got'[d] = 0
      BY <2>1, <3>2, <3>3 DEF ChannelType, WindowKnows
    <3>9. \A q \in Known' : got'[q.id] > 0 => q.seq \in seen'
      <4> SUFFICES ASSUME NEW q \in Known, got'[q.id] > 0 PROVE q.seq \in seen'
        BY <3>4
      <4>1. CASE q.id = p.id
        BY <3>1, <3>3, <4>1 DEF OneNumber
      <4>2. CASE q.id # p.id
        BY <3>3, <4>2 DEF WindowKnows, ChannelType
      <4> QED BY <4>1, <4>2
    <3> QED BY <3>5, <3>6, <3>7, <3>8, <3>9 DEF WindowKnows
  <2> QED BY <2>2, <2>3
<1>11. ASSUME NEW o \in Openers, RememberLast(o) \/ RememberHave(o)
       PROVE  ChannelInv'
  <2>1. ChannelType' /\ Known' = Known
    BY <1>11 DEF RememberLast, RememberHave, ChannelType, Known, InHand
  <2> QED BY <1>11, <2>1, QuietStep DEF RememberLast, RememberHave
<1>12. ASSUME NEW o \in Openers, RememberKey(o) PROVE ChannelInv'
  <2>1. Finish(o) /\ net' = net
    BY <1>12 DEF RememberKey
  <2>2. ChannelType' /\ Known' \subseteq Known
    BY <1>12, <2>1, FinishKnown DEF RememberKey, ChannelType
  <2> QED BY <1>12, <2>2, QuietStep DEF RememberKey
<1>13. CASE RestartReceiver
  <2>1. Known' \subseteq Known /\ sealed' = sealed /\ seen' = {} /\ got' = Undelivered
    BY <1>13 DEF RestartReceiver, Known, InHand
  <2>2. ChannelType'
    BY <1>13 DEF RestartReceiver, ChannelType, Undelivered
  <2>3. \A p \in Known : p.id \in Datagrams
    BY ChannelAssumption DEF ChannelType, KnownTyped, Datagrams
  <2>4. KnownTyped' /\ OneNumber'
    BY <2>1 DEF KnownTyped, OneNumber
  <2>5. WindowKnows'
    BY <2>1, <2>3 DEF WindowKnows, Undelivered
  <2> QED BY <2>2, <2>4, <2>5
<1>14. CASE Tick
  <2>1. ChannelType' /\ Known' \subseteq Known
    BY <1>14 DEF Tick, ChannelType, Known, InHand
  <2> QED BY <1>14, <2>1, QuietStep DEF Tick
<1>15. ASSUME NEW end \in {"sender", "receiver"}, Adjust(end) PROVE ChannelInv'
  <2>1. ahead' \in [{"sender", "receiver"} -> Nat]
    BY <1>15, ChannelAssumption DEF Adjust, ChannelType
  <2>2. ChannelType' /\ Known' = Known
    BY <1>15, <2>1 DEF Adjust, ChannelType, Known, InHand
  <2> QED BY <1>15, <2>2, QuietStep DEF Adjust
<1>16. CASE UNCHANGED vars
  <2>1. ChannelType' /\ Known' = Known
    BY <1>16 DEF vars, ChannelType, Known, InHand
  <2> QED BY <1>16, <2>1, QuietStep DEF vars
<1> QED
  BY <1>1, <1>2, <1>3, <1>4, <1>5, <1>6, <1>7, <1>8, <1>9, <1>10, <1>11, <1>12, <1>13,
     <1>14, <1>15, <1>16 DEF Next, Seal, Open

(* In any behaviour of the two ends, what an opener holds and what the     *)
(* window remembers fit together (openSeq).                                *)
THEOREM ChannelInvariant == Spec => []ChannelInv
BY InitChannelInv, StepChannelInv, PTL DEF Spec

-----------------------------------------------------------------------------
(* Every step is a step of the channel's promise or changes nothing in it. *)
LEMMA StepKeepsChannel ==
  ChannelInv /\ [Next]_vars => [Channel!Next]_<<1 .. sealed, got>>
<1> SUFFICES ASSUME ChannelInv, [Next]_vars
             PROVE  [Channel!Next]_<<1 .. sealed, got>>
  OBVIOUS
<1> USE DEF sealVars, windowVars, epochVars, openVars
<1>1. ASSUME sealed' = sealed, got' = got PROVE [Channel!Next]_<<1 .. sealed, got>>
  BY <1>1
<1>2. ASSUME NEW s \in Sealers, Number(s) PROVE Channel!Send(sealed + 1)
  <2>1. sealed' = sealed + 1 /\ sealed + 1 \in Datagrams /\ got' = got
    BY <1>2, ChannelAssumption DEF Number, ChannelInv, ChannelType, Datagrams
  <2>2. 1 .. sealed' = (1 .. sealed) \cup {sealed + 1}
    BY <2>1 DEF ChannelInv, ChannelType
  <2> QED BY <2>1, <2>2 DEF Channel!Send, Datagrams, ChannelInv, ChannelType
<1>3. ASSUME NEW o \in Openers, Check(o), Fresh(pkt[o].seq)
      PROVE  pkt[o].id \in Datagrams /\ Channel!Deliver(pkt[o].id)
  <2>1. pkt[o] \in Known
    BY <1>3 DEF Check, Known, InHand
  <2>2. pkt[o].id \in Datagrams /\ pkt[o].id \in 1 .. sealed /\ got[pkt[o].id] = 0
    BY <1>3, <2>1, FreshUndelivered
  <2>3. got' = [got EXCEPT ![pkt[o].id] = 1] /\ sealed' = sealed
    BY <1>3, <2>2 DEF Check
  <2> QED BY <2>2, <2>3 DEF Channel!Deliver
<1>4. CASE RestartReceiver
  BY <1>4 DEF RestartReceiver, Undelivered, Channel!Next, Channel!Forget,
     Channel!Undelivered
<1>5. ASSUME NEW o \in Openers, Check(o), ~Fresh(pkt[o].seq)
      PROVE  sealed' = sealed /\ got' = got
  BY <1>5 DEF Check
<1>6. ASSUME NEW o \in Openers,
             \/ LoadHave(o) \/ LoadLast(o) \/ Try(o) \/ Vouch(o) \/ Reopen(o)
             \/ RememberLast(o) \/ RememberHave(o) \/ RememberKey(o)
             \/ \E p \in net, ask \in BOOLEAN : Take(o, p, ask)
      PROVE  sealed' = sealed /\ got' = got
  BY <1>6 DEF LoadHave, LoadLast, Try, Vouch, Reopen, RememberLast, RememberHave,
     RememberKey, Take
<1>7. ASSUME \/ \E s \in Sealers : TakeKey(s)
             \/ Stop \/ Start \/ Tick \/ UNCHANGED vars
             \/ \E end \in {"sender", "receiver"} : Adjust(end)
      PROVE  sealed' = sealed /\ got' = got
  BY <1>7 DEF TakeKey, Stop, Start, Tick, Adjust, vars
<1>8. ASSUME NEW s \in Sealers, Number(s) PROVE Channel!Next
  <2>1. sealed + 1 \in Datagrams
    BY <1>8, ChannelAssumption DEF Number, ChannelInv, ChannelType, Datagrams
  <2> QED BY <1>2, <1>8, <2>1 DEF Channel!Next
<1>9. ASSUME NEW o \in Openers, Check(o), Fresh(pkt[o].seq) PROVE Channel!Next
  BY <1>3, <1>9 DEF Channel!Next
<1> QED
  BY <1>1, <1>4, <1>5, <1>6, <1>7, <1>8, <1>9 DEF Next, Seal, Open, RestartReceiver,
     Channel!Next, Channel!Forget

(* What comes out of the receiving end was put in at the sending end, and  *)
(* nothing comes out twice in one life of the receiver, however many       *)
(* goroutines open, whatever is duplicated, vouched for or opened again    *)
(* (openSeq, authentic, sealInto).                                         *)
THEOREM ChannelKept == Spec => KeepsChannel
<1>1. Init => Channel!Init
  BY DEF Init, Undelivered, Channel!Init, Channel!Undelivered
<1> QED
  BY <1>1, ChannelInvariant, StepKeepsChannel, PTL DEF Spec, KeepsChannel, Channel!Spec

-----------------------------------------------------------------------------
\* An opener past the decryption has the epoch that fitted at hand.
Fitted ==
  \A o \in Openers : opc[o] \in {"check", "remember", "flag", "cache"} =>
                       cands[o] = <<pkt[o].epoch>>

CacheInv ==
  /\ opc = [o \in Openers |-> opc[o]] /\ pkt = [o \in Openers |-> pkt[o]]
  /\ cands = [o \in Openers |-> cands[o]]
  /\ CacheIsTrue /\ Fitted

LEMMA InitCacheInv == Init => CacheInv
BY DEF Init, CacheInv, CacheIsTrue, Fitted, NoCache

LEMMA StepCacheInv == CacheInv /\ [Next]_vars => CacheInv'
<1> SUFFICES ASSUME CacheInv, [Next]_vars PROVE CacheInv'
  OBVIOUS
<1> USE DEF CacheInv, CacheIsTrue, Fitted
<1> USE DEF sealVars, windowVars, epochVars, openVars
<1>1. CASE UNCHANGED <<epochVars, opc, pkt, cands>>
  BY <1>1
<1>2. ASSUME NEW o \in Openers, NEW p, NEW ask, Begin(o, p, ask), UNCHANGED epochVars
      PROVE  CacheInv'
  BY <1>2 DEF Begin
<1>3. ASSUME NEW o \in Openers, Finish(o), recvCache'.key = recvCache'.epoch
      PROVE  CacheInv'
  BY <1>3 DEF Finish
<1>4. ASSUME NEW o \in Openers, LoadHave(o) \/ LoadLast(o) PROVE CacheInv'
  BY <1>4 DEF LoadHave, LoadLast, Candidates
<1>5. ASSUME NEW o \in Openers, Try(o) PROVE CacheInv'
  <2>1. CASE cands[o] = <<>>
    BY <1>3, <1>5, <2>1 DEF Try
  <2>2. CASE cands[o] # <<>> /\ Head(cands[o]) = pkt[o].epoch
    BY <1>5, <2>2 DEF Try, RecvKey
  <2>3. CASE cands[o] # <<>> /\ Head(cands[o]) # pkt[o].epoch
    BY <1>5, <2>3 DEF Try, RecvKey
  <2> QED BY <2>1, <2>2, <2>3
<1>6. ASSUME NEW o \in Openers, Vouch(o) PROVE CacheInv'
  <2>1. CASE Fresh(pkt[o].seq)
    BY <1>6, <2>1 DEF Vouch
  <2>2. CASE ~Fresh(pkt[o].seq)
    BY <1>3, <1>6, <2>2 DEF Vouch
  <2> QED BY <2>1, <2>2
<1>7. ASSUME NEW o \in Openers, Check(o) PROVE CacheInv'
  <2>1. CASE Fresh(pkt[o].seq)
    BY <1>7, <2>1 DEF Check
  <2>2. CASE ~Fresh(pkt[o].seq)
    BY <1>3, <1>7, <2>2 DEF Check
  <2> QED BY <2>1, <2>2
<1>8. ASSUME NEW o \in Openers, RememberLast(o) \/ RememberHave(o) PROVE CacheInv'
  BY <1>8 DEF RememberLast, RememberHave
<1>9. ASSUME NEW o \in Openers, RememberKey(o) PROVE CacheInv'
  <2>1. recvCache'.key = recvCache'.epoch
    BY <1>9 DEF RememberKey
  <2> QED BY <1>3, <1>9, <2>1 DEF RememberKey
<1>10. CASE RestartReceiver
  BY <1>10 DEF RestartReceiver, NoCache
<1>11. ASSUME \/ \E s \in Sealers : Seal(s)
              \/ Stop \/ Start \/ Tick \/ UNCHANGED vars
              \/ \E end \in {"sender", "receiver"} : Adjust(end)
       PROVE  UNCHANGED <<epochVars, opc, pkt, cands>>
  BY <1>11 DEF Seal, TakeKey, Number, Stop, Start, Tick, Adjust, vars
<1>12. ASSUME NEW o \in Openers,
              Reopen(o) \/ \E p \in net, ask \in BOOLEAN : Take(o, p, ask)
       PROVE  CacheInv'
  BY <1>2, <1>12 DEF Reopen, Take
<1> QED
  BY <1>1, <1>4, <1>5, <1>6, <1>7, <1>8, <1>9, <1>10, <1>11, <1>12 DEF Next, Open

(* The key the openers leave each other is the key of the epoch it is      *)
(* filed under, whatever order they leave it in (rememberEpoch, recvAEAD). *)
THEOREM CacheStaysTrue == Spec => []CacheIsTrue
<1>1. CacheInv => CacheIsTrue
  BY DEF CacheInv
<1> QED BY <1>1, InitCacheInv, StepCacheInv, PTL DEF Spec

-----------------------------------------------------------------------------
\* A candidate is added once, if at all.
LEMMA AddOne ==
  ASSUME NEW es \in Seq(Nat), NEW e \in Nat, NEW n \in Nat, Len(es) <= n
  PROVE  LET r == IF Missing(es, e) THEN Append(es, e) ELSE es
         IN  r \in Seq(Nat) /\ Len(r) <= n + 1
OBVIOUS

\* The candidates fit the buffer of four.
LEMMA AroundFits ==
  ASSUME NEW c \in Nat, NEW first \in Seq(Nat), Len(first) <= 1
  PROVE  Around(c, first) \in Seq(Nat) /\ Len(Around(c, first)) <= 4
<1> DEFINE add(es, e) == IF Missing(es, e) THEN Append(es, e) ELSE es
           withCur  == add(first, c)
           withPrev == IF c = 0 THEN withCur ELSE add(withCur, c - 1)
<1>1. withCur \in Seq(Nat) /\ Len(withCur) <= 2
  BY AddOne
<1> HIDE DEF withCur
<1>2. withPrev \in Seq(Nat) /\ Len(withPrev) <= 3
  <2>1. CASE c = 0
    BY <1>1, <2>1
  <2>2. CASE c # 0
    <3>1. c - 1 \in Nat
      BY <2>2
    <3>2. add(withCur, c - 1) \in Seq(Nat) /\ Len(add(withCur, c - 1)) <= 2 + 1
      BY <1>1, <3>1, AddOne
    <3> QED BY <2>2, <3>2
  <2> QED BY <2>1, <2>2
<1> HIDE DEF withPrev
<1>3. c + 1 \in Nat
  OBVIOUS
<1>4. add(withPrev, c + 1) \in Seq(Nat) /\ Len(add(withPrev, c + 1)) <= 3 + 1
  BY <1>2, <1>3, AddOne
<1>5. Around(c, first) = add(withPrev, c + 1)
  BY DEF Around, withCur, withPrev
<1> QED BY <1>4, <1>5

\* The interval a clock is in is a natural number.
LEMMA EpochIsNat ==
  ASSUME rekey \in Nat, now \in Nat, ahead \in [{"sender", "receiver"} -> Nat],
         NEW end \in {"sender", "receiver"}
  PROVE  EpochNow(end) \in Nat
<1>1. Clock(end) \in Nat
  BY DEF Clock
<1>2. \A a \in Nat, b \in Nat \ {0} : a \div b \in Nat
  OBVIOUS
<1> QED BY <1>1, <1>2 DEF EpochNow

\* Packets come from a process that has started, and are numbered from one.
Stamped == \A p \in Known : p \in Packets /\ p.boot \in 1 .. boot /\ p.seq # 0

TypeInv == TypeOK /\ boot # 0 /\ Stamped
LEMMA NothingToTry ==
  LET none == [o \in Openers |-> <<>>]
  IN  none \in [Openers -> Seq(Nat)] /\ \A o \in Openers : Len(none[o]) <= 4
<1>1. <<>> \in Seq(Nat) /\ Len(<<>>) <= 4
  OBVIOUS
<1> DEFINE none == [o \in Openers |-> <<>>]
<1>2. none \in [Openers -> Seq(Nat)]
  BY <1>1
<1>3. \A o \in Openers : none[o] = <<>>
  OBVIOUS
<1> QED BY <1>1, <1>2, <1>3

LEMMA InitTypeInv == Init => TypeInv
<1> SUFFICES ASSUME Init PROVE TypeInv
  OBVIOUS
<1> USE ChannelAssumption DEF Init
<1>1. TypeOK
  <2>1. cands \in [Openers -> Seq(Nat)] /\ \A o \in Openers : Len(cands[o]) <= 4
    BY NothingToTry
  <2>2. pkt \in [Openers -> Packets]
    BY DEF NoPkt, Packets
  <2>3. got \in [Datagrams -> Nat] /\ seen \subseteq 1 .. newest
    BY DEF Undelivered
  <2>4. opc = [o \in Openers |-> "idle"] /\ recvCache = NoCache /\ haveLast = FALSE
    OBVIOUS
  <2>5. cur \in [Openers -> Nat] /\ asks \in [Openers -> BOOLEAN]
    OBVIOUS
  <2>6. /\ spc \in [Sealers -> {"idle", "number"}] /\ epoch \in [Sealers -> Nat]
        /\ born \in [Sealers -> 0 .. now]
    OBVIOUS
  <2>7. /\ now \in 0 .. MaxTime /\ stopped \in {Running} \cup 0 .. now
        /\ sealed \in 0 .. MaxSeals /\ restarts \in 0 .. MaxRestarts
    OBVIOUS
  <2>8. lost \subseteq 1 .. boot /\ net \subseteq Packets
    OBVIOUS
  <2>9. opc \in [Openers -> {"idle", "have", "last", "try", "check", "handed", "remember",
                          "flag", "cache"}]
    OBVIOUS
  <2> QED BY <2>1, <2>2, <2>3, <2>4, <2>5, <2>6, <2>7, <2>8, <2>9 DEF TypeOK
<1>2. Known = {}
  BY DEF Known, InHand
<1> QED BY <1>1, <1>2 DEF TypeInv, Stamped

LEMMA StepTypeInv == TypeInv /\ CacheInv /\ [Next]_vars => TypeInv'
<1> SUFFICES ASSUME TypeInv, CacheInv, [Next]_vars PROVE TypeInv'
  OBVIOUS
<1> USE ChannelAssumption DEF TypeInv
<1> USE DEF sealVars, windowVars, epochVars, openVars
<1>1. ASSUME NEW s \in Sealers, TakeKey(s) PROVE TypeInv'
  <2>1. EpochNow("sender") \in Nat
    BY EpochIsNat DEF TypeOK
  <2>2. TypeOK'
    BY <1>1, <2>1 DEF TakeKey, TypeOK
  <2>3. Stamped'
    BY <1>1 DEF TakeKey, Stamped, Known, InHand
  <2> QED BY <1>1, <2>2, <2>3 DEF TakeKey
<1>2. ASSUME NEW s \in Sealers, Number(s) PROVE TypeInv'
  <2> DEFINE new == Packet(s, sendSeq')
  <2>1. new \in Packets /\ new.boot = boot /\ new.seq # 0
    BY <1>2 DEF Number, Packet, Packets, TypeOK, Datagrams
  <2>2. net' = net \cup {new} /\ Known' = Known \cup {new}
    BY <1>2 DEF Number, Known, InHand
  <2> HIDE DEF new
  <2>3. TypeOK'
    BY <1>2, <2>1, <2>2 DEF Number, TypeOK
  <2>4. Stamped'
    BY <1>2, <2>1, <2>2 DEF Number, Stamped, TypeOK
  <2> QED BY <1>2, <2>3, <2>4 DEF Number
<1>3. CASE Stop
  <2>1. TypeOK'
    BY <1>3 DEF Stop, TypeOK
  <2>2. Stamped'
    BY <1>3 DEF Stop, Stamped, Known, InHand
  <2> QED BY <1>3, <2>1, <2>2 DEF Stop
<1>4. CASE Start
  <2>1. Clock("sender") * Rate \in Nat
    BY DEF Clock, TypeOK
  <2>2. TypeOK'
    BY <1>4, <2>1 DEF Start, TypeOK
  <2>3. Stamped'
    <3>1. Known' = Known
      BY <1>4 DEF Start, Known, InHand
    <3> QED BY <1>4, <3>1 DEF Start, Stamped, TypeOK
  <2> QED BY <1>4, <2>2, <2>3 DEF Start, TypeOK
<1>5. ASSUME NEW o \in Openers, NEW p \in Known, NEW ask \in BOOLEAN, Begin(o, p, ask),
             UNCHANGED <<rekey, now, ahead, sealVars, net, windowVars, epochVars, got,
                         lost, restarts>>
      PROVE  TypeInv'
  <2>1. EpochNow("receiver") \in Nat /\ p \in Packets
    BY EpochIsNat DEF TypeOK, Stamped
  <2>2. TypeOK'
    BY <1>5, <2>1 DEF Begin, TypeOK
  <2>3. Known' \subseteq Known
    BY <1>5 DEF Begin, Known, InHand, TypeOK
  <2>4. Stamped'
    BY <1>5, <2>3 DEF Begin, Stamped, TypeOK
  <2> QED BY <1>5, <2>2, <2>4
<1>6. ASSUME NEW o \in Openers, Finish(o), lastEpoch' \in Nat, haveLast' \in BOOLEAN,
             recvCache' \in [epoch : Nat, key : Nat] \cup {NoCache}, lost' \subseteq 1 .. boot,
             UNCHANGED <<rekey, now, ahead, sealVars, net, windowVars, got, restarts>>
      PROVE  TypeInv'
  <2>1. TypeOK'
    <3>1. NoPkt \in Packets
      BY DEF NoPkt, Packets
    <3> QED BY <1>6, <3>1 DEF Finish, TypeOK
  <2>2. Known' \subseteq Known
    BY <1>6 DEF Finish, Known, InHand, TypeOK
  <2>3. Stamped'
    BY <1>6, <2>2 DEF Finish, Stamped, TypeOK
  <2> QED BY <1>6, <2>1, <2>3
<1>7. ASSUME NEW o \in Openers, opc[o] # "idle"
      PROVE  pkt[o] \in Known /\ pkt[o] \in Packets /\ pkt[o].boot \in 1 .. boot
  BY <1>7 DEF Known, InHand, Stamped
<1>8. ASSUME NEW o \in Openers, opc[o] # "idle", Lose(o) \/ Refuse(o)
      PROVE  lost' \subseteq 1 .. boot
  BY <1>7, <1>8 DEF Lose, Refuse, TypeOK
<1>9. ASSUME NEW o \in Openers, NEW p \in net, NEW ask \in BOOLEAN, Take(o, p, ask)
      PROVE  TypeInv'
  BY <1>5, <1>9 DEF Take, Known
<1>10. ASSUME NEW o \in Openers, Reopen(o) PROVE TypeInv'
  BY <1>5, <1>7, <1>10 DEF Reopen
<1>11. ASSUME NEW o \in Openers, NEW first \in Seq(Nat), Len(first) <= 1,
              opc[o] \in {"have", "last"}, Candidates(o, first),
              UNCHANGED <<rekey, now, ahead, sealVars, net, windowVars, epochVars, pkt,
                          asks, got, lost, restarts>>
       PROVE  TypeInv'
  <2>1. Around(cur[o], first) \in Seq(Nat) /\ Len(Around(cur[o], first)) <= 4
    BY <1>11, AroundFits DEF TypeOK
  <2>2. TypeOK'
    BY <1>11, <2>1 DEF Candidates, TypeOK
  <2>3. Known' = Known
    BY <1>11 DEF Candidates, Known, InHand, TypeOK
  <2>4. Stamped'
    BY <1>11, <2>3 DEF Candidates, Stamped, TypeOK
  <2> QED BY <1>11, <2>2, <2>4
<1>12. ASSUME NEW o \in Openers, LoadHave(o) \/ LoadLast(o) PROVE TypeInv'
  <2>1. CASE LoadHave(o) /\ haveLast
    <3>1. TypeOK'
      BY <2>1 DEF LoadHave, TypeOK
    <3>2. Known' = Known
      <4>1. opc' = [opc EXCEPT ![o] = "last"] /\ opc[o] # "idle" /\ UNCHANGED <<pkt, net>>
        BY <2>1 DEF LoadHave
      <4>2. InHand' = InHand
        BY <4>1 DEF InHand, TypeOK
      <4> QED BY <4>1, <4>2 DEF Known
    <3>3. Stamped'
      BY <2>1, <3>2 DEF LoadHave, Stamped, TypeOK
    <3> QED BY <2>1, <3>1, <3>3 DEF LoadHave
  <2>2. CASE LoadHave(o) /\ ~haveLast
    <3>1. <<>> \in Seq(Nat) /\ Len(<<>>) <= 1
      OBVIOUS
    <3> QED BY <1>11, <2>2, <3>1 DEF LoadHave
  <2>3. CASE LoadLast(o)
    <3>1. <<lastEpoch>> \in Seq(Nat) /\ Len(<<lastEpoch>>) <= 1
      BY DEF TypeOK
    <3> QED BY <1>11, <2>3, <3>1 DEF LoadLast
  <2> QED BY <1>12, <2>1, <2>2, <2>3
<1>13. ASSUME NEW o \in Openers, NEW to, opc[o] # "idle", to # "idle",
              opc' = [opc EXCEPT ![o] = to], pkt' = pkt, net' = net, boot' = boot
       PROVE  Stamped'
  <2>1. InHand' = InHand
    BY <1>13 DEF InHand, TypeOK
  <2> QED BY <1>13, <2>1 DEF Stamped, Known
<1>14. ASSUME NEW o \in Openers, Try(o) PROVE TypeInv'
  <2>1. CASE cands[o] = <<>>
    BY <1>6, <1>8, <1>14, <2>1 DEF Try, TypeOK
  <2>2. CASE cands[o] # <<>>
    <3>1. /\ Head(cands[o]) \in Nat /\ <<Head(cands[o])>> \in Seq(Nat)
          /\ Tail(cands[o]) \in Seq(Nat) /\ Len(Tail(cands[o])) <= 4
          /\ Len(<<Head(cands[o])>>) <= 4
      BY <2>2 DEF TypeOK
    <3>2. TypeOK'
      BY <1>14, <2>2, <3>1 DEF Try, TypeOK
    <3>3. Stamped'
      <4>1. \/ opc' = opc
            \/ opc' = [opc EXCEPT ![o] = "check"]
        BY <1>14, <2>2 DEF Try
      <4>2. opc[o] # "idle" /\ UNCHANGED <<pkt, net, boot>>
        BY <1>14, <2>2 DEF Try
      <4>3. CASE opc' = opc
        BY <4>2, <4>3 DEF Stamped, Known, InHand
      <4> QED BY <1>13, <4>1, <4>2, <4>3
    <3> QED BY <1>14, <3>2, <3>3 DEF Try
  <2> QED BY <2>1, <2>2
<1>15. ASSUME NEW o \in Openers, Vouch(o) PROVE TypeInv'
  <2>1. CASE Fresh(pkt[o].seq)
    <3>1. TypeOK'
      BY <1>15, <2>1 DEF Vouch, TypeOK
    <3>2. Stamped'
      BY <1>13, <1>15, <2>1 DEF Vouch
    <3> QED BY <1>15, <3>1, <3>2 DEF Vouch
  <2>2. CASE ~Fresh(pkt[o].seq)
    BY <1>6, <1>8, <1>15, <2>2 DEF Vouch, TypeOK
  <2> QED BY <2>1, <2>2
<1>16. ASSUME NEW o \in Openers, Check(o) PROVE TypeInv'
  <2>1. CASE Fresh(pkt[o].seq)
    <3> DEFINE p == pkt[o]
    <3>1. p.seq \in Nat \ {0}
      BY <1>7, <1>16 DEF Check, Stamped, Packets
    <3>2. /\ got' = [got EXCEPT ![p.id] = @ + 1] /\ seen' = seen \cup {p.seq}
          /\ newest' = IF p.seq > newest THEN p.seq ELSE newest
          /\ opc' = [opc EXCEPT ![o] = "remember"]
      BY <1>16, <2>1 DEF Check
    <3>3. got' \in [Datagrams -> Nat]
      <4> HIDE DEF p
      <4>1. p.id \in Datagrams => got[p.id] + 1 \in Nat
        BY DEF TypeOK
      <4> QED BY <3>2, <4>1 DEF TypeOK
    <3>4. newest' \in Nat /\ seen' \subseteq 1 .. newest'
      <4> HIDE DEF p
      <4>1. newest' \in Nat /\ newest <= newest' /\ p.seq \in 1 .. newest'
        BY <3>1, <3>2 DEF TypeOK
      <4>2. 1 .. newest \subseteq 1 .. newest'
        BY <4>1 DEF TypeOK
      <4> QED BY <3>2, <4>1, <4>2 DEF TypeOK
    <3>5. TypeOK'
      BY <1>16, <2>1, <3>2, <3>3, <3>4 DEF Check, TypeOK
    <3>6. Stamped'
      BY <1>13, <1>16, <2>1 DEF Check
    <3> QED BY <1>16, <3>5, <3>6 DEF Check
  <2>2. CASE ~Fresh(pkt[o].seq)
    BY <1>6, <1>8, <1>16, <2>2 DEF Check, TypeOK
  <2> QED BY <2>1, <2>2
<1>17. ASSUME NEW o \in Openers, opc[o] \in {"remember", "flag", "cache"}
       PROVE  Head(cands[o]) \in Nat /\ pkt[o].epoch \in Nat
  <2>1. pkt[o].epoch \in Nat
    BY <1>7, <1>17 DEF Packets
  <2>2. cands[o] = <<pkt[o].epoch>>
    BY <1>17 DEF CacheInv, Fitted
  <2> QED BY <2>1, <2>2
<1>18. ASSUME NEW o \in Openers, RememberLast(o) \/ RememberHave(o) PROVE TypeInv'
  <2>1. TypeOK'
    BY <1>17, <1>18 DEF RememberLast, RememberHave, TypeOK
  <2>2. Stamped'
    BY <1>13, <1>18 DEF RememberLast, RememberHave
  <2> QED BY <1>18, <2>1, <2>2 DEF RememberLast, RememberHave
<1>19. ASSUME NEW o \in Openers, RememberKey(o) PROVE TypeInv'
  <2>1. recvCache' \in [epoch : Nat, key : Nat] \cup {NoCache}
    BY <1>17, <1>19 DEF RememberKey, TypeOK
  <2> QED BY <1>6, <1>19, <2>1 DEF RememberKey, TypeOK
<1>20. CASE RestartReceiver
  <2>1. NoPkt \in Packets
    BY DEF NoPkt, Packets
  <2>2. TypeOK'
    <3>1. cands' \in [Openers -> Seq(Nat)] /\ \A o \in Openers : Len(cands'[o]) <= 4
      BY <1>20, NothingToTry DEF RestartReceiver
    <3>2. got' \in [Datagrams -> Nat] /\ restarts' \in 0 .. MaxRestarts
      BY <1>20 DEF RestartReceiver, Undelivered, TypeOK
    <3>3. newest' \in Nat /\ seen' \subseteq 1 .. newest' /\ recvCache' = NoCache
      BY <1>20 DEF RestartReceiver
    <3>4. pkt' \in [Openers -> Packets] /\ cur' \in [Openers -> Nat]
      BY <1>20, <2>1 DEF RestartReceiver
    <3>5. asks' \in [Openers -> BOOLEAN] /\ opc' = [o \in Openers |-> "idle"]
      BY <1>20 DEF RestartReceiver
    <3> QED BY <1>20, <3>1, <3>2, <3>3, <3>4, <3>5 DEF RestartReceiver, TypeOK
  <2>3. Stamped'
    BY <1>20 DEF RestartReceiver, Stamped, Known, InHand
  <2> QED BY <1>20, <2>2, <2>3 DEF RestartReceiver
<1>21. CASE Tick
  <2>1. TypeOK'
    BY <1>21 DEF Tick, TypeOK
  <2>2. Stamped'
    BY <1>21 DEF Tick, Stamped, Known, InHand
  <2> QED BY <1>21, <2>1, <2>2 DEF Tick
<1>22. ASSUME NEW end \in {"sender", "receiver"}, Adjust(end) PROVE TypeInv'
  <2>1. TypeOK'
    BY <1>22 DEF Adjust, TypeOK
  <2>2. Stamped'
    BY <1>22 DEF Adjust, Stamped, Known, InHand
  <2> QED BY <1>22, <2>1, <2>2 DEF Adjust
<1>23. CASE UNCHANGED vars
  <2>1. TypeOK'
    BY <1>23 DEF vars, TypeOK
  <2>2. Stamped'
    BY <1>23 DEF vars, Stamped, Known, InHand
  <2> QED BY <1>23, <2>1, <2>2 DEF vars
<1> QED
  BY <1>1, <1>2, <1>3, <1>4, <1>9, <1>10, <1>12, <1>14, <1>15, <1>16, <1>18, <1>19, <1>20,
     <1>21, <1>22, <1>23 DEF Next, Seal, Open

(* Every variable keeps its type; the candidates for a key fit the buffer  *)
(* of four, whatever the interval and the clocks (recvEpochs).             *)
THEOREM ChannelTypeOK == Spec => []TypeOK
<1>1. TypeInv => TypeOK
  BY DEF TypeInv
<1> QED BY <1>1, InitCacheInv, InitTypeInv, StepTypeInv, StepCacheInv, PTL DEF Spec
-----------------------------------------------------------------------------
\* A key taken at true time b is that of a clock at most MaxSkew ahead.
KeyTaken(e, b) ==
  \E x \in Nat : b <= x /\ x <= b + MaxSkew /\ e = IF rekey = 0 THEN 0 ELSE x \div rekey

\* Near the receiver's interval.
Near(c, e) == e = c \/ e = c + 1 \/ e = c - 1

\* What is on its way is in time, and so is what authentic holds.
OnTime ==
  /\ \A s \in Sealers : spc[s] = "number" =>
       KeyTaken(epoch[s], born[s]) /\ now <= born[s] + Transit
  /\ \A p \in net : now <= p.at + Transit
  /\ \A p \in Known : KeyTaken(p.epoch, p.at) /\ p.at <= now
  /\ \A o \in Openers : asks[o] => now <= pkt[o].at + Transit

\* An opener tries the packet's epoch before it gives up.
WillFit ==
  \A o \in Openers :
    /\ opc[o] = "handed" => asks[o]
    /\ opc[o] \in {"have", "last"} => rekey # 0 /\ Near(cur[o], pkt[o].epoch)
    /\ opc[o] = "try" => ~Missing(cands[o], pkt[o].epoch)

\* Numbers grow, also over a restart, and stand for one datagram each; only those of
\* delivered ones are in the window.
Growing ==
  /\ sendSeq < (Clock("sender") + 1) * Rate
  /\ stopped # Running /\ now > stopped => sendSeq < Clock("sender") * Rate
  /\ \A s \in Sealers : spc[s] = "number" => stopped = Running
  /\ newest <= sendSeq /\ \A p \in Known : p.seq <= sendSeq
  /\ \A p, q \in Known : p.seq = q.seq => p.id = q.id
  /\ \A p \in Known : p.seq \in seen => got[p.id] > 0

HeardInv == OnTime /\ WillFit /\ Growing /\ AllHeard

\* The constant the theorem is about: the interval outlasts skew and transit.
LongIntervals == \A k \in Intervals : k = 0 \/ MaxSkew + Transit <= k

(* Two clocks no further apart than an interval are in the same one or in  *)
(* neighbours.                                                             *)
LEMMA NextInterval ==
  ASSUME NEW k \in Nat \ {0}, NEW x \in Nat, NEW y \in Nat, y <= x + k
  PROVE  x \div k \in Nat /\ y \div k \in Nat /\ y \div k <= (x \div k) + 1
<1> DEFINE a == x \div k
           b == y \div k
<1>1. a \in Nat /\ x % k \in 0..k - 1 /\ x = (k * a) + (x % k)
  OBVIOUS
<1>2. b \in Nat /\ y % k \in 0..k - 1 /\ y = (k * b) + (y % k)
  OBVIOUS
<1> HIDE DEF a, b
<1>3. ASSUME b > a + 1 PROVE FALSE
  <2>1. PICK d \in Nat : b = a + 2 + d
    <3>1. b - (a + 2) \in Nat /\ b = a + 2 + (b - (a + 2))
      BY <1>1, <1>2, <1>3
    <3>q. QED
      BY <3>1
  <2>2. k * b = (k * a) + (k * 2) + (k * d) /\ k * d \in Nat /\ k * a \in Nat /\ k * 2 = k + k
    BY <2>1, <1>1
  <2> DEFINE ka == k * a
             kd == k * d
  <2>3. y >= ka + (k + k) + kd
    <3>1. k * b \in Nat
      BY <1>2
    <3>q. QED
      BY <2>2, <3>1, <1>2
  <2>4. x < ka + k
    BY <1>1, <2>2
  <2> HIDE DEF ka, kd
  <2>5. ka \in Nat /\ kd \in Nat
    BY <2>2 DEF ka, kd
  <2>q. QED
    BY <2>3, <2>4, <2>5
<1>q. QED
  BY <1>1, <1>2, <1>3 DEF a, b

(* So a packet that is in time was sealed in the receiver's interval or in *)
(* a neighbour.                                                            *)
LEMMA InTimeIsNear ==
  ASSUME LongIntervals, TypeOK, rekey # 0,
         NEW e, NEW b \in Nat, KeyTaken(e, b), b <= now, now <= b + Transit
  PROVE  Near(EpochNow("receiver"), e) /\ e \in Nat
<1>1. PICK x \in Nat : b <= x /\ x <= b + MaxSkew /\ e = x \div rekey
  BY DEF KeyTaken
<1>2. /\ rekey \in Nat \ {0} /\ MaxSkew + Transit <= rekey /\ now \in Nat
      /\ ahead["receiver"] \in 0..MaxSkew /\ MaxSkew \in Nat /\ Transit \in Nat
  BY ChannelAssumption DEF LongIntervals, TypeOK
<1> DEFINE y == now + ahead["receiver"]
<1>3. y \in Nat /\ EpochNow("receiver") = y \div rekey
  BY <1>2 DEF EpochNow, Clock
<1>4. y <= x + rekey /\ x <= y + rekey
  BY <1>1, <1>2
<1> HIDE DEF y
<1>5. /\ x \div rekey \in Nat /\ y \div rekey \in Nat
      /\ y \div rekey <= (x \div rekey) + 1 /\ x \div rekey <= (y \div rekey) + 1
  BY <1>2, <1>3, <1>4, NextInterval
<1> DEFINE u == x \div rekey
           v == y \div rekey
<1>6. u \in Nat /\ v \in Nat /\ u <= v + 1 /\ v <= u + 1
  BY <1>5
<1> HIDE DEF u, v
<1>7. (u = v \/ u = v + 1 \/ u = v - 1) /\ u \in Nat
  BY <1>6
<1>q. QED
  BY <1>1, <1>3, <1>7 DEF Near, u, v

(* The candidates hold the neighbours of the opener's interval.            *)
LEMMA AddHolds ==
  ASSUME NEW es \in Seq(Nat), NEW e \in Nat
  PROVE  LET r == IF Missing(es, e) THEN Append(es, e) ELSE es
         IN  r \in Seq(Nat) /\ ~Missing(r, e) /\ \A d : ~Missing(es, d) => ~Missing(r, d)
<1>1. CASE ~Missing(es, e)
  BY <1>1
<1>2. CASE Missing(es, e)
  <2> DEFINE r == Append(es, e)
  <2>1. /\ r \in Seq(Nat) /\ Len(es) \in Nat /\ DOMAIN es = 1..Len(es)
        /\ DOMAIN r = 1..Len(es) + 1 /\ r[Len(es) + 1] = e
        /\ \A i \in 1..Len(es) : r[i] = es[i]
    OBVIOUS
  <2>2. Len(es) + 1 \in DOMAIN r /\ \A i \in DOMAIN es : i \in DOMAIN r /\ r[i] = es[i]
    BY <2>1
  <2> HIDE DEF r
  <2>3. ~Missing(r, e) /\ \A d : ~Missing(es, d) => ~Missing(r, d)
    BY <2>1, <2>2 DEF Missing
  <2>q. QED
    BY <1>2, <2>1, <2>3 DEF r
<1>q. QED
  BY <1>1, <1>2

LEMMA AroundHolds ==
  ASSUME NEW c \in Nat, NEW first \in Seq(Nat), NEW e \in Nat, Near(c, e)
  PROVE  ~Missing(Around(c, first), e)
<1> DEFINE add(es, d) == IF Missing(es, d) THEN Append(es, d) ELSE es
           withCur  == add(first, c)
           withPrev == IF c = 0 THEN withCur ELSE add(withCur, c - 1)
           all == add(withPrev, c + 1)
<1>1. withCur \in Seq(Nat) /\ ~Missing(withCur, c)
  BY AddHolds
<1> HIDE DEF withCur
<1>2. /\ withPrev \in Seq(Nat) /\ ~Missing(withPrev, c)
      /\ c # 0 => ~Missing(withPrev, c - 1)
  <2>1. CASE c = 0
    BY <1>1, <2>1
  <2>2. CASE c # 0
    <3>1. c - 1 \in Nat
      BY <2>2
    <3>q. QED
      BY <1>1, <2>2, <3>1, AddHolds
  <2>q. QED
    BY <2>1, <2>2
<1> HIDE DEF withPrev
<1>3. c + 1 \in Nat
  OBVIOUS
<1>4. /\ ~Missing(all, c + 1) /\ ~Missing(all, c)
      /\ c # 0 => ~Missing(all, c - 1)
  BY <1>2, <1>3, AddHolds
<1>5. Around(c, first) = all
  BY DEF Around, withCur, withPrev
<1>6. e = c - 1 => c # 0
  OBVIOUS
<1>q. QED
  BY <1>4, <1>5, <1>6 DEF Near

\* What the earlier invariants give, and what no step changes.
Before == LongIntervals /\ ChannelInv /\ TypeInv /\ CacheInv /\ HeardInv

LEMMA HandFacts ==
  ASSUME TypeInv, NEW o \in Openers, opc[o] # "idle"
  PROVE  pkt[o] \in Known /\ pkt[o] \in Packets
BY DEF TypeInv, Stamped, Known, InHand

LEMMA TypeFacts ==
  ASSUME TypeInv
  PROVE  /\ now \in Nat /\ rekey \in Nat /\ sendSeq \in Nat /\ newest \in Nat
         /\ stopped \in {Running} \cup 0 .. now
         /\ ahead \in [{"sender", "receiver"} -> 0 .. MaxSkew] /\ Clock("sender") \in Nat
         /\ seen \subseteq 1 .. newest
         /\ opc = [o \in Openers |-> opc[o]] /\ pkt = [o \in Openers |-> pkt[o]]
         /\ cands \in [Openers -> Seq(Nat)] /\ cur \in [Openers -> Nat]
         /\ asks \in [Openers -> BOOLEAN]
         /\ \A p \in Known : p.at \in Nat /\ p.seq \in Nat /\ p.epoch \in Nat /\ p.id \in Nat
<1>1. /\ now \in Nat /\ rekey \in Nat /\ Clock("sender") \in Nat
      /\ ahead \in [{"sender", "receiver"} -> 0 .. MaxSkew]
  BY ChannelAssumption DEF TypeInv, TypeOK, Clock
<1>2. \A p \in Known : p.at \in Nat /\ p.seq \in Nat /\ p.epoch \in Nat /\ p.id \in Nat
  BY ChannelAssumption DEF TypeInv, Stamped, Packets, Datagrams
<1>q. QED
  BY <1>1, <1>2 DEF TypeInv, TypeOK

(* What an opener knows of a packet it takes up, again or for the first    *)
(* time.                                                                   *)
LEMMA BeginFits ==
  ASSUME Before, NEW o \in Openers, NEW p \in Known, NEW ask \in BOOLEAN,
         now <= p.at + Transit, Begin(o, p, ask),
         UNCHANGED <<rekey, now, ahead, sealVars, net, windowVars, epochVars, got, lost>>
  PROVE  OnTime' /\ WillFit'
<1> USE DEF sealVars
<1>1. KeyTaken(p.epoch, p.at) /\ p.at <= now /\ p.at \in Nat
  BY TypeFacts DEF Before, HeardInv, OnTime
<1>2. /\ opc' = [opc EXCEPT ![o] = IF rekey = 0 THEN "try" ELSE "have"]
      /\ pkt' = [pkt EXCEPT ![o] = p]
      /\ cur' = [cur EXCEPT ![o] = EpochNow("receiver")]
      /\ cands' = [cands EXCEPT ![o] = IF rekey = 0 THEN <<0>> ELSE <<>>]
      /\ asks' = [asks EXCEPT ![o] = ask]
  BY DEF Begin
<1>3. /\ opc'[o] = (IF rekey = 0 THEN "try" ELSE "have") /\ pkt'[o] = p
      /\ cur'[o] = EpochNow("receiver") /\ asks'[o] = ask
      /\ cands'[o] = (IF rekey = 0 THEN <<0>> ELSE <<>>)
      /\ \A x \in Openers \ {o} : /\ opc'[x] = opc[x] /\ pkt'[x] = pkt[x] /\ cur'[x] = cur[x]
                                  /\ cands'[x] = cands[x] /\ asks'[x] = asks[x]
  BY <1>2, TypeFacts DEF Before
<1>4. OnTime'
  <2>1. Known' \subseteq Known
    BY BeginKnown DEF Before, ChannelInv
  <2>2. \A x \in Openers : asks'[x] => now <= pkt'[x].at + Transit
    BY <1>3 DEF Before, HeardInv, OnTime
  <2>q. QED
    BY <2>1, <2>2 DEF Before, HeardInv, OnTime, KeyTaken
<1>5. CASE rekey = 0
  <2>1. p.epoch = 0
    BY <1>1, <1>5 DEF KeyTaken
  <2>2. ~Missing(<<0>>, 0)
    BY DEF Missing
  <2>q. QED
    BY <1>3, <1>4, <1>5, <2>1, <2>2 DEF Before, HeardInv, WillFit
<1>6. CASE rekey # 0
  <2>1. Near(EpochNow("receiver"), p.epoch)
    BY <1>1, <1>6, InTimeIsNear DEF Before, TypeInv
  <2>q. QED
    BY <1>3, <1>4, <1>6, <2>1 DEF Before, HeardInv, WillFit, Near
<1>q. QED
  BY <1>5, <1>6

\* A step of an opener that does not begin keeps what is on time on time.
LEMMA StaysOnTime ==
  ASSUME Before, Known' \subseteq Known, net' = net, UNCHANGED <<rekey, now, spc, epoch, born>>,
         \A o \in Openers : asks'[o] => asks[o] /\ pkt'[o] = pkt[o]
  PROVE  OnTime'
BY DEF Before, HeardInv, OnTime, KeyTaken

LEMMA FinishFits ==
  ASSUME Before, NEW o \in Openers, Finish(o), net' = net,
         UNCHANGED <<rekey, now, spc, epoch, born>>
  PROVE  OnTime' /\ WillFit' /\ Known' \subseteq Known
<1>1. /\ opc'[o] = "idle" /\ asks'[o] = FALSE
      /\ \A x \in Openers \ {o} : /\ opc'[x] = opc[x] /\ pkt'[x] = pkt[x] /\ cur'[x] = cur[x]
                                  /\ cands'[x] = cands[x] /\ asks'[x] = asks[x]
  BY TypeFacts DEF Before, Finish
<1>2. Known' \subseteq Known
  BY FinishKnown DEF Before, ChannelInv
<1>3. OnTime'
  BY <1>1, <1>2, StaysOnTime
<1>4. WillFit'
  BY <1>1 DEF Before, HeardInv, WillFit, Near
<1>q. QED
  BY <1>2, <1>3, <1>4

\* Openers that stand still keep what they hold.
LEMMA StillFits ==
  ASSUME Before, UNCHANGED <<rekey, openVars>>
  PROVE  WillFit'
BY DEF Before, HeardInv, WillFit, openVars, Near

(* Sealing, and time.                                                      *)
LEMMA SealersOnTime ==
  ASSUME Before, \/ \E s \in Sealers : Seal(s)
                 \/ Stop \/ Start \/ Tick \/ UNCHANGED vars
                 \/ \E end \in {"sender", "receiver"} : Adjust(end)
  PROVE  OnTime' /\ WillFit'
<1> USE DEF sealVars, windowVars, epochVars, openVars
<1>0. UNCHANGED <<rekey, openVars>>
  BY DEF Seal, TakeKey, Number, Stop, Start, Tick, Adjust, vars
<1>1. WillFit'
  BY <1>0, StillFits
<1>2. /\ now \in Nat /\ Transit \in Nat /\ MaxSkew \in Nat
      /\ ahead["sender"] \in 0 .. MaxSkew /\ OnTime
      /\ \A p \in Known : p.at \in Nat
      /\ \A e, b : KeyTaken(e, b) <=> KeyTaken(e, b)'
  BY <1>0, TypeFacts, ChannelAssumption DEF Before, HeardInv, KeyTaken
<1>k. KeyTaken(EpochNow("sender"), now)
  <2>1. Clock("sender") \in Nat /\ now <= Clock("sender") /\ Clock("sender") <= now + MaxSkew
    BY <1>2 DEF Clock
  <2>q. QED
    BY <2>1 DEF KeyTaken, EpochNow
<1> HIDE DEF KeyTaken
<1>3. ASSUME NEW s \in Sealers, TakeKey(s) PROVE OnTime'
  <2>1. /\ epoch'[s] = EpochNow("sender") /\ born'[s] = now /\ now' = now /\ net' = net
        /\ \A r \in Sealers \ {s} : spc'[r] = spc[r] /\ epoch'[r] = epoch[r] /\ born'[r] = born[r]
    BY <1>3 DEF TakeKey, Before, TypeInv, TypeOK
  <2>2. Known' = Known
    BY <1>3 DEF TakeKey, Known, InHand
  <2>3. \A r \in Sealers : spc'[r] = "number" =>
          KeyTaken(epoch'[r], born'[r]) /\ now <= born'[r] + Transit
    BY <2>1, <1>2, <1>k DEF OnTime
  <2>q. QED
    BY <2>1, <2>2, <2>3, <1>0, <1>2 DEF OnTime
<1>4. ASSUME NEW s \in Sealers, Number(s) PROVE OnTime'
  <2> DEFINE new == Packet(s, sendSeq')
  <2>1. new.epoch = epoch[s] /\ new.at = born[s]
    BY DEF Packet
  <2>2. /\ spc[s] = "number" /\ now' = now /\ spc'[s] = "idle"
        /\ \A r \in Sealers \ {s} : spc'[r] = spc[r] /\ epoch'[r] = epoch[r] /\ born'[r] = born[r]
    BY <1>4 DEF Number, Before, TypeInv, TypeOK
  <2>3. net' = net \cup {new} /\ Known' = Known \cup {new}
    BY <1>4 DEF Number, Known, InHand
  <2>4. born[s] <= now
    BY DEF Before, TypeInv, TypeOK
  <2> HIDE DEF new
  <2>5. KeyTaken(new.epoch, new.at) /\ new.at <= now /\ now <= new.at + Transit
    BY <2>1, <2>2, <2>4, <1>2 DEF OnTime
  <2>6. \A r \in Sealers : spc'[r] = "number" =>
          KeyTaken(epoch'[r], born'[r]) /\ now <= born'[r] + Transit
    BY <2>2, <1>2 DEF OnTime
  <2>q. QED
    BY <2>2, <2>3, <2>5, <2>6, <1>0, <1>2 DEF OnTime
<1>5. CASE Stop
  <2>1. now' = now /\ net' = net /\ Known' = Known /\ \A r \in Sealers : spc'[r] = "idle"
    BY <1>5 DEF Stop, Known, InHand
  <2>2. \A s \in Sealers : spc'[s] = "number" =>
          KeyTaken(epoch'[s], born'[s]) /\ now <= born'[s] + Transit
    BY <2>1
  <2>q. QED
    BY <2>1, <2>2, <1>0, <1>1, <1>2 DEF OnTime
<1>6. CASE Start \/ UNCHANGED vars \/ \E end \in {"sender", "receiver"} : Adjust(end)
  <2>1. UNCHANGED <<now, net, spc, epoch, born>> /\ Known' = Known
    BY <1>6 DEF Start, Adjust, vars, Known, InHand
  <2>2. \A s \in Sealers : spc'[s] = "number" =>
          KeyTaken(epoch'[s], born'[s]) /\ now <= born'[s] + Transit
    BY <2>1, <1>2 DEF OnTime
  <2>q. QED
    BY <2>1, <2>2, <1>0, <1>1, <1>2 DEF OnTime
<1>7. CASE Tick
  <2>1. /\ now' = now + 1 /\ UNCHANGED <<spc, epoch, born>>
        /\ \A s \in Sealers : spc[s] = "number" => now < born[s] + Transit
        /\ \A o \in Openers : asks[o] => now < pkt[o].at + Transit
        /\ \A p \in net' : p \in net /\ now < p.at + Transit
    BY <1>7 DEF Tick, InTime
  <2>2. Known' \subseteq Known
    BY <1>7 DEF Tick, Known, InHand
  <2>3. /\ \A s \in Sealers : born[s] \in Nat
        /\ \A p \in net : p.at \in Nat
    BY <1>2 DEF Before, TypeInv, TypeOK, Known
  <2>4. \A o \in Openers : asks[o] => pkt[o].at \in Nat
    BY DEF Before, TypeInv, TypeOK, Packets
  <2>5. \A s \in Sealers : spc'[s] = "number" =>
          KeyTaken(epoch'[s], born'[s]) /\ now' <= born'[s] + Transit
    BY <2>1, <2>3, <1>2 DEF OnTime
  <2>6. \A p \in net' : now' <= p.at + Transit
    BY <2>1, <2>3, <1>2
  <2>7. \A p \in Known' : KeyTaken(p.epoch, p.at) /\ p.at <= now'
    BY <2>1, <2>2, <1>2 DEF OnTime
  <2>8. \A o \in Openers : asks'[o] => now' <= pkt'[o].at + Transit
    BY <2>1, <2>4, <1>0, <1>2
  <2>q. QED
    BY <2>5, <2>6, <2>7, <2>8, <1>1, <1>2 DEF OnTime
<1>q. QED
  BY <1>1, <1>3, <1>4, <1>5, <1>6, <1>7 DEF Seal

(* Opening.                                                                *)
LEMMA OpenersOnTime ==
  ASSUME Before, NEW o \in Openers,
         Open(o) \/ \E p \in net, ask \in BOOLEAN : Take(o, p, ask)
  PROVE  OnTime' /\ WillFit' /\ (opc[o] = "try" => lost' = lost)
<1> USE DEF sealVars, windowVars, epochVars, openVars
<1>1. ASSUME NEW p \in net, NEW ask \in BOOLEAN, Take(o, p, ask)
      PROVE  OnTime' /\ WillFit' /\ lost' = lost
  <2>1. p \in Known /\ now <= p.at + Transit
    BY DEF Known, Before, HeardInv, OnTime
  <2>q. QED
    BY <1>1, <2>1, BeginFits DEF Take
<1>2. ASSUME Reopen(o) PROVE OnTime' /\ WillFit' /\ lost' = lost
  <2>1. opc[o] = "handed" /\ pkt[o] \in Known
    BY <1>2, HandFacts DEF Reopen, Before
  <2>2. now <= pkt[o].at + Transit
    BY <2>1 DEF Before, HeardInv, OnTime, WillFit
  <2>q. QED
    BY <1>2, <2>1, <2>2, BeginFits DEF Reopen
\* What a step that stays with its packet keeps.
<1>3. ASSUME opc[o] # "idle", NEW to, to # "idle", opc' = [opc EXCEPT ![o] = to],
             pkt' = pkt, asks' = asks, net' = net, UNCHANGED <<rekey, now, spc, epoch, born>>
      PROVE  /\ OnTime' /\ opc'[o] = to
             /\ \A x \in Openers \ {o} : opc'[x] = opc[x]
  <2>1. Known' = Known /\ opc'[o] = to /\ \A x \in Openers \ {o} : opc'[x] = opc[x]
    BY <1>3, TypeFacts DEF Before, Known, InHand
  <2>q. QED
    BY <1>3, <2>1, StaysOnTime
<1>4. ASSUME NEW first \in Seq(Nat), opc[o] \in {"have", "last"}, Candidates(o, first),
             UNCHANGED <<rekey, now, sealVars, net, pkt, asks>>
      PROVE  OnTime' /\ WillFit'
  <2>1. OnTime' /\ opc'[o] = "try" /\ \A x \in Openers \ {o} : opc'[x] = opc[x]
    BY <1>3, <1>4 DEF Candidates
  <2>2. /\ cands'[o] = Around(cur[o], first)
        /\ \A x \in Openers \ {o} : cands'[x] = cands[x] /\ cur'[x] = cur[x]
    BY <1>4, TypeFacts DEF Before, Candidates
  <2>3. /\ cur[o] \in Nat /\ pkt[o].epoch \in Nat /\ Near(cur[o], pkt[o].epoch)
    BY <1>4, TypeFacts, HandFacts DEF Before, HeardInv, WillFit
  <2>4. ~Missing(Around(cur[o], first), pkt[o].epoch)
    BY <2>3, AroundHolds
  <2>q. QED
    BY <1>4, <2>1, <2>2, <2>4 DEF Before, HeardInv, WillFit, Near
<1>5. ASSUME LoadHave(o) \/ LoadLast(o) PROVE OnTime' /\ WillFit' /\ lost' = lost
  <2>1. <<>> \in Seq(Nat) /\ <<lastEpoch>> \in Seq(Nat)
    BY DEF Before, TypeInv, TypeOK
  <2>2. CASE LoadHave(o) /\ haveLast
    <3>1. OnTime' /\ opc'[o] = "last" /\ \A x \in Openers \ {o} : opc'[x] = opc[x]
      BY <1>3, <2>2 DEF LoadHave
    <3>q. QED
      BY <2>2, <3>1 DEF LoadHave, Before, HeardInv, WillFit, Near
  <2>3. CASE LoadHave(o) /\ ~haveLast
    BY <1>4, <2>1, <2>3 DEF LoadHave
  <2>4. CASE LoadLast(o)
    BY <1>4, <2>1, <2>4 DEF LoadLast
  <2>q. QED
    BY <1>5, <2>2, <2>3, <2>4
<1>6. ASSUME Try(o) PROVE OnTime' /\ WillFit' /\ lost' = lost
  <2>1. ~Missing(cands[o], pkt[o].epoch) /\ cands[o] \in Seq(Nat)
    BY <1>6, TypeFacts DEF Try, Before, HeardInv, WillFit
  <2>2. cands[o] # <<>>
    BY <2>1 DEF Missing
  <2>3. RecvKey(Head(cands[o])) = Head(cands[o])
    BY DEF RecvKey, Before, CacheInv, CacheIsTrue
  <2>4. CASE Head(cands[o]) = pkt[o].epoch
    <3>1. OnTime' /\ opc'[o] = "check" /\ \A x \in Openers \ {o} : opc'[x] = opc[x]
      BY <1>3, <1>6, <2>2, <2>3, <2>4 DEF Try
    <3>2. /\ \A x \in Openers \ {o} : cands'[x] = cands[x]
          /\ UNCHANGED <<cur, pkt, asks, lost, rekey>>
      BY <1>6, <2>2, <2>3, <2>4, TypeFacts DEF Before, Try
    <3>q. QED
      BY <3>1, <3>2 DEF Before, HeardInv, WillFit, Near
  <2>5. CASE Head(cands[o]) # pkt[o].epoch
    <3>1. /\ opc' = opc /\ cands'[o] = Tail(cands[o])
          /\ \A x \in Openers \ {o} : cands'[x] = cands[x]
          /\ UNCHANGED <<cur, pkt, asks, lost, rekey, net, now, spc, epoch, born>>
      BY <1>6, <2>2, <2>3, <2>5, TypeFacts DEF Before, Try
    <3>2. OnTime'
      <4>1. Known' = Known
        BY <3>1 DEF Known, InHand
      <4>q. QED
        BY <3>1, <4>1, StaysOnTime
    <3>3. ~Missing(Tail(cands[o]), pkt[o].epoch)
      <4> DEFINE s == cands[o]
                 t == Tail(s)
      <4>1. /\ DOMAIN s = 1..Len(s) /\ Len(s) \in Nat /\ DOMAIN t = 1..Len(s) - 1
            /\ \A i \in 1..Len(s) - 1 : t[i] = s[i + 1]
            /\ Head(s) = s[1]
        BY <2>1, <2>2
      <4> HIDE DEF s, t
      <4>2. PICK i \in DOMAIN s : s[i] = pkt[o].epoch
        BY <2>1 DEF Missing, s
      <4>3. i # 1
        BY <4>1, <4>2, <2>5 DEF s
      <4>4. i - 1 \in DOMAIN t /\ t[i - 1] = s[i]
        BY <4>1, <4>2, <4>3
      <4>q. QED
        BY <4>2, <4>4 DEF Missing, s, t
    <3>q. QED
      BY <3>1, <3>2, <3>3 DEF Before, HeardInv, WillFit, Near
  <2>q. QED
    BY <2>4, <2>5
<1>7. ASSUME Vouch(o) PROVE OnTime' /\ WillFit'
  <2>1. CASE Fresh(pkt[o].seq)
    <3>1. OnTime' /\ opc'[o] = "handed" /\ \A x \in Openers \ {o} : opc'[x] = opc[x]
      BY <1>3, <1>7, <2>1 DEF Vouch
    <3>2. UNCHANGED <<cur, pkt, asks, cands, rekey>> /\ asks[o]
      BY <1>7, <2>1 DEF Vouch
    <3>q. QED
      BY <3>1, <3>2 DEF Before, HeardInv, WillFit, Near
  <2>2. CASE ~Fresh(pkt[o].seq)
    BY <1>7, <2>2, FinishFits DEF Vouch
  <2>q. QED
    BY <2>1, <2>2
<1>8. ASSUME Check(o) PROVE OnTime' /\ WillFit'
  <2>1. CASE Fresh(pkt[o].seq)
    <3>1. OnTime' /\ opc'[o] = "remember" /\ \A x \in Openers \ {o} : opc'[x] = opc[x]
      BY <1>3, <1>8, <2>1 DEF Check
    <3>2. UNCHANGED <<cur, pkt, asks, cands, rekey>>
      BY <1>8, <2>1 DEF Check
    <3>q. QED
      BY <3>1, <3>2 DEF Before, HeardInv, WillFit, Near
  <2>2. CASE ~Fresh(pkt[o].seq)
    BY <1>8, <2>2, FinishFits DEF Check
  <2>q. QED
    BY <2>1, <2>2
<1>9. ASSUME RememberLast(o) \/ RememberHave(o) PROVE OnTime' /\ WillFit' /\ lost' = lost
  <2>1. PICK to \in {"flag", "cache"} : opc' = [opc EXCEPT ![o] = to]
    BY <1>9 DEF RememberLast, RememberHave
  <2>2. /\ UNCHANGED <<cur, pkt, asks, cands, rekey, now, spc, epoch, born, net, lost>>
        /\ opc[o] # "idle"
    BY <1>9 DEF RememberLast, RememberHave
  <2>3. OnTime' /\ opc'[o] = to /\ \A x \in Openers \ {o} : opc'[x] = opc[x]
    BY <1>3, <2>1, <2>2
  <2>q. QED
    BY <2>1, <2>2, <2>3 DEF Before, HeardInv, WillFit, Near
<1>10. ASSUME RememberKey(o) PROVE OnTime' /\ WillFit' /\ lost' = lost
  BY <1>10, FinishFits DEF RememberKey
<1>11. Vouch(o) \/ Check(o) => opc[o] # "try"
  BY DEF Vouch, Check
<1>q. QED
  BY <1>1, <1>2, <1>5, <1>6, <1>7, <1>8, <1>9, <1>10, <1>11 DEF Open

(* Multiples of the rate.                                                  *)
LEMMA RateFacts ==
  ASSUME NEW c \in Nat
  PROVE  c * Rate \in Nat /\ (c + 1) * Rate = (c * Rate) + Rate /\ Rate \in Nat /\ Rate > 0
<1>1. Rate \in Nat \ {0}
  BY ChannelAssumption
<1>q. QED
  BY <1>1

(* The numbers, whoever draws them and whatever the clocks do.             *)
LEMMA SealersGrow ==
  ASSUME Before, \/ \E s \in Sealers : Seal(s)
                 \/ Stop \/ Start \/ Tick \/ UNCHANGED vars
                 \/ \E end \in {"sender", "receiver"} : Adjust(end)
  PROVE  Growing' /\ AllHeard'
<1> USE DEF sealVars, windowVars, epochVars, openVars
<1> DEFINE c == Clock("sender")
<1>1. UNCHANGED <<windowVars, got, lost, opc, pkt>>
  BY DEF Seal, TakeKey, Number, Stop, Start, Tick, Adjust, vars
<1>2. /\ c \in Nat /\ now \in Nat /\ sendSeq \in Nat /\ newest \in Nat /\ seen \subseteq 1 .. newest
      /\ stopped \in {Running} \cup 0 .. now
      /\ ahead \in [{"sender", "receiver"} -> 0 .. MaxSkew]
      /\ \A p \in Known : p.seq \in Nat
      /\ MaxSkew \in Nat
  BY TypeFacts, ChannelAssumption DEF Before
<1>3. /\ sendSeq < (c + 1) * Rate
      /\ stopped # Running /\ now > stopped => sendSeq < c * Rate
      /\ \A s \in Sealers : spc[s] = "number" => stopped = Running
      /\ newest <= sendSeq /\ \A p \in Known : p.seq <= sendSeq
      /\ \A p, q \in Known : p.seq = q.seq => p.id = q.id
      /\ \A p \in Known : p.seq \in seen => got[p.id] > 0
  BY DEF Before, HeardInv, Growing
<1>4. /\ c * Rate \in Nat /\ (c + 1) * Rate = (c * Rate) + Rate /\ Rate \in Nat /\ Rate > 0
      /\ ((c + 1) + 1) * Rate = ((c + 1) * Rate) + Rate
  <2> HIDE DEF c
  <2>1. c + 1 \in Nat
    BY <1>2
  <2>2. ((c + 1) + 1) * Rate = ((c + 1) * Rate) + Rate
    BY <2>1, RateFacts
  <2>3. c * Rate \in Nat /\ (c + 1) * Rate = (c * Rate) + Rate /\ Rate \in Nat /\ Rate > 0
    BY <1>2, RateFacts
  <2>q. QED
    BY <2>2, <2>3
<1>5. /\ boot \notin lost /\ lost \subseteq 1 .. boot /\ boot \in Nat
  BY DEF Before, HeardInv, AllHeard, TypeInv, TypeOK
\* Nothing is drawn and the clock does not go back.
<1>6. ASSUME Known' \subseteq Known, sendSeq' = sendSeq, boot' = boot,
             c' = c \/ c' = c + 1,
             stopped' = stopped, \A s \in Sealers : spc'[s] = "number" => stopped' = Running,
             now' = now \/ (now' = now + 1 /\ c' = c + 1)
      PROVE  Growing' /\ AllHeard'
  <2>1. sendSeq' < (c' + 1) * Rate
    <3> HIDE DEF c
    <3>1. CASE c' = c
      BY <1>3, <1>6, <3>1
    <3>2. CASE c' = c + 1
      <4>1. (c' + 1) * Rate = ((c + 1) * Rate) + Rate /\ (c + 1) * Rate \in Nat
        BY <1>4, <3>2
      <4>q. QED
        BY <4>1, <1>2, <1>3, <1>4, <1>6
    <3>q. QED
      BY <3>1, <3>2, <1>6
  <2>2. ASSUME stopped' # Running, now' > stopped' PROVE sendSeq' < c' * Rate
    <3> HIDE DEF c
    <3>1. CASE c' = c
      BY <1>3, <1>6, <2>2, <3>1, <1>2
    <3>2. CASE c' = c + 1
      BY <1>3, <1>6, <3>2
    <3>q. QED
      BY <3>1, <3>2, <1>6
  <2>3. Growing'
    BY <2>1, <2>2, <1>1, <1>3, <1>6 DEF Growing
  <2>q. QED
    BY <2>3, <1>1, <1>5, <1>6 DEF AllHeard
<1>7. ASSUME NEW s \in Sealers, TakeKey(s) PROVE Growing' /\ AllHeard'
  <2>1. /\ Known' = Known /\ sendSeq' = sendSeq /\ boot' = boot /\ c' = c /\ stopped' = stopped
        /\ now' = now /\ stopped = Running
    BY <1>7 DEF TakeKey, Known, InHand, Clock
  <2>q. QED
    BY <2>1, <1>6
<1>8. ASSUME NEW s \in Sealers, Number(s) PROVE Growing' /\ AllHeard'
  <2> DEFINE new == Packet(s, sendSeq')
  <2>1. new.id = sealed + 1 /\ new.seq = sendSeq + 1 /\ sendSeq' = sendSeq + 1
    BY <1>8 DEF Number, Packet
  <2>2. Known' = Known \cup {new}
    BY <1>8 DEF Number, Known, InHand
  <2> HIDE DEF new
  <2>3. /\ c' = c /\ stopped' = stopped /\ now' = now /\ boot' = boot /\ stopped = Running
        /\ \A r \in Sealers : spc'[r] = "number" => stopped' = Running
        /\ sendSeq + 1 < (c + 1) * Rate
    BY <1>3, <1>8 DEF Number, Clock, InRate
  <2>4. /\ \A p \in Known : p.seq # new.seq
        /\ new.seq \notin seen
    BY <2>1, <1>2, <1>3
  <2>5. newest <= sendSeq' /\ \A p \in Known' : p.seq <= sendSeq'
    BY <2>1, <2>2, <1>2, <1>3
  <2>6. Growing'
    <3> HIDE DEF c
    <3>1. sendSeq' < (c' + 1) * Rate
      BY <2>1, <2>3
    <3>q. QED
      BY <3>1, <2>2, <2>3, <2>4, <2>5, <1>1, <1>3 DEF Growing, c
  <2>q. QED
    BY <2>3, <2>6, <1>1, <1>5 DEF AllHeard
<1>9. CASE Stop
  <2>1. /\ Known' = Known /\ sendSeq' = sendSeq /\ boot' = boot /\ c' = c /\ now' = now
        /\ stopped' = now /\ \A s \in Sealers : spc'[s] = "idle"
    BY <1>9 DEF Stop, Known, InHand, Clock
  <2>2. Growing'
    BY <2>1, <1>1, <1>2, <1>3 DEF Growing
  <2>q. QED
    BY <2>1, <2>2, <1>1, <1>5 DEF AllHeard
<1>10. CASE Start
  <2>1. /\ Known' = Known /\ sendSeq' = c * Rate /\ boot' = boot + 1 /\ c' = c /\ now' = now
        /\ stopped' = Running /\ stopped # Running /\ now > stopped /\ spc' = spc
    BY <1>10 DEF Start, Known, InHand, Clock
  <2>2. sendSeq < sendSeq'
    BY <2>1, <1>3
  <2>3. newest <= sendSeq' /\ \A p \in Known' : p.seq <= sendSeq'
    BY <2>1, <2>2, <1>2, <1>3, <1>4
  <2>4. Growing'
    <3> HIDE DEF c
    <3>1. sendSeq' < (c' + 1) * Rate
      BY <2>1, <1>4
    <3>q. QED
      BY <3>1, <2>1, <2>3, <1>1, <1>3 DEF Growing, c
  <2>5. boot + 1 \notin lost
    BY <1>5
  <2>q. QED
    BY <2>1, <2>4, <2>5, <1>1 DEF AllHeard
<1>11. CASE Tick
  <2>1. /\ Known' \subseteq Known /\ sendSeq' = sendSeq /\ boot' = boot /\ stopped' = stopped
        /\ now' = now + 1 /\ spc' = spc /\ ahead' = ahead
    BY <1>11 DEF Tick, Known, InHand
  <2>2. c' = c + 1
    BY <2>1, <1>2 DEF Clock
  <2>q. QED
    BY <2>1, <2>2, <1>3, <1>6
<1>12. ASSUME NEW end \in {"sender", "receiver"}, Adjust(end) PROVE Growing' /\ AllHeard'
  <2>1. /\ Known' = Known /\ sendSeq' = sendSeq /\ boot' = boot /\ stopped' = stopped
        /\ now' = now /\ spc' = spc
    BY <1>12 DEF Adjust, Known, InHand
  <2>2. c' = c \/ c' = c + 1
    BY <1>12, <1>2, <2>1 DEF Adjust, Clock
  <2>q. QED
    BY <2>1, <2>2, <1>3, <1>6
<1>13. CASE UNCHANGED vars
  <2>1. /\ Known' = Known /\ sendSeq' = sendSeq /\ boot' = boot /\ stopped' = stopped
        /\ now' = now /\ spc' = spc /\ c' = c
    BY <1>13 DEF vars, Known, InHand, Clock
  <2>q. QED
    BY <2>1, <1>3, <1>6
<1>q. QED
  BY <1>7, <1>8, <1>9, <1>10, <1>11, <1>12, <1>13 DEF Seal

(* A packet that is not fresh has been delivered, or a window's worth of   *)
(* numbers was drawn after it.                                             *)
LEMMA RefusedForGood ==
  ASSUME Before, NEW p \in Known, ~Fresh(p.seq)
  PROVE  got[p.id] > 0 \/ Overtaken(p)
<1>1. /\ p.seq \in Nat /\ newest \in Nat /\ sendSeq \in Nat /\ Width \in Nat
      /\ newest <= sendSeq
      /\ p.seq \in seen => got[p.id] > 0
  BY TypeFacts, ChannelAssumption DEF Before, HeardInv, Growing
<1>q. QED
  BY <1>1 DEF Fresh, Overtaken

LEMMA OpenersGrow ==
  ASSUME Before, NEW o \in Openers,
         Open(o) \/ \E p \in net, ask \in BOOLEAN : Take(o, p, ask)
  PROVE  Growing' /\ AllHeard'
<1> USE DEF sealVars, windowVars, epochVars, openVars
<1>1. UNCHANGED <<now, ahead, sendSeq, stopped, spc, boot, net>>
  BY DEF Open, Take, LoadHave, LoadLast, Try, Vouch, Reopen, Check, RememberLast,
     RememberHave, RememberKey
<1>2. Clock("sender")' = Clock("sender")
  BY <1>1 DEF Clock
<1>3. Known' \subseteq Known
  <2>1. ASSUME NEW p \in Known, NEW ask, Begin(o, p, ask) PROVE Known' \subseteq Known
    BY <1>1, <2>1, BeginKnown DEF Before, ChannelInv
  <2>2. ASSUME NEW p \in net, NEW ask \in BOOLEAN, Take(o, p, ask) PROVE Known' \subseteq Known
    BY <2>1, <2>2 DEF Take, Known
  <2>3. CASE Reopen(o)
    <3>1. pkt[o] \in Known
      BY <2>3, HandFacts DEF Reopen, Before
    <3>q. QED
      BY <2>1, <2>3, <3>1 DEF Reopen
  <2>4. CASE Finish(o)
    BY <1>1, <2>4, FinishKnown DEF Before, ChannelInv
  <2>5. ASSUME opc[o] # "idle", pkt' = pkt, opc' = opc \/ \E to : opc' = [opc EXCEPT ![o] = to]
        PROVE  Known' \subseteq Known
    BY <1>1, <2>5, TypeFacts DEF Before, Known, InHand
  <2>6. CASE LoadHave(o) \/ LoadLast(o) \/ RememberLast(o) \/ RememberHave(o)
    <3>1. opc[o] # "idle" /\ pkt' = pkt
      BY <2>6 DEF LoadHave, LoadLast, RememberLast, RememberHave
    <3>2. \E to : opc' = [opc EXCEPT ![o] = to]
      BY <2>6 DEF LoadHave, LoadLast, RememberLast, RememberHave, Candidates
    <3>q. QED
      BY <2>5, <3>1, <3>2
  <2>7. CASE Try(o) /\ ~Finish(o)
    <3>1. opc[o] # "idle" /\ pkt' = pkt
      BY <2>7 DEF Try
    <3>2. opc' = opc \/ \E to : opc' = [opc EXCEPT ![o] = to]
      BY <2>7 DEF Try
    <3>q. QED
      BY <2>5, <3>1, <3>2
  <2>8. CASE (Vouch(o) \/ Check(o)) /\ ~Finish(o)
    <3>1. opc[o] # "idle" /\ pkt' = pkt
      BY <2>8 DEF Vouch, Check
    <3>2. \E to : opc' = [opc EXCEPT ![o] = to]
      BY <2>8 DEF Vouch, Check
    <3>q. QED
      BY <2>5, <3>1, <3>2
  <2>9. RememberKey(o) => Finish(o)
    BY DEF RememberKey
  <2>q. QED
    BY <2>2, <2>3, <2>4, <2>6, <2>7, <2>8, <2>9 DEF Open
<1>4. ASSUME UNCHANGED <<windowVars, got>>, lost' = lost PROVE Growing' /\ AllHeard'
  BY <1>1, <1>2, <1>3, <1>4 DEF Before, HeardInv, Growing, AllHeard
<1>5. CASE Try(o)
  <2>1. lost' = lost
    BY <1>5, OpenersOnTime DEF Try
  <2>q. QED
    BY <1>4, <1>5, <2>1 DEF Try
<1>6. ASSUME opc[o] = "check", ~Fresh(pkt[o].seq), Refuse(o) PROVE lost' = lost
  <2>1. pkt[o] \in Known
    BY <1>6, HandFacts DEF Before
  <2>q. QED
    BY <1>6, <2>1, RefusedForGood DEF Refuse, Lose
<1>7. CASE Vouch(o)
  <2>1. lost' = lost
    BY <1>6, <1>7 DEF Vouch
  <2>q. QED
    BY <1>4, <1>7, <2>1 DEF Vouch
<1>8. CASE Check(o) /\ ~Fresh(pkt[o].seq)
  <2>1. lost' = lost
    BY <1>6, <1>8 DEF Check
  <2>q. QED
    BY <1>4, <1>8, <2>1 DEF Check
<1>9. CASE Check(o) /\ Fresh(pkt[o].seq)
  <2> DEFINE p == pkt[o]
  <2>1. p \in Known /\ p.seq \in Nat /\ p.id \in Datagrams
    <3>1. p \in Known
      BY <1>9, HandFacts DEF Check, Before
    <3>q. QED
      BY <1>9, <3>1, TypeFacts, FreshUndelivered DEF Before
  <2>2. /\ got' = [got EXCEPT ![p.id] = @ + 1] /\ seen' = seen \cup {p.seq}
        /\ newest' = IF p.seq > newest THEN p.seq ELSE newest
        /\ lost' = lost
    BY <1>9 DEF Check
  <2> HIDE DEF p
  <2>3. got \in [Datagrams -> Nat]
    BY DEF Before, ChannelInv, ChannelType
  <2>4. \A q \in Known : q.seq \in seen' => got'[q.id] > 0
    <3> SUFFICES ASSUME NEW q \in Known, q.seq \in seen' PROVE got'[q.id] > 0
      OBVIOUS
    <3>1. q.id \in Datagrams
      BY ChannelAssumption DEF Before, ChannelInv, ChannelType, KnownTyped, Datagrams
    <3>2. q.seq \in seen => got[q.id] > 0
      BY DEF Before, HeardInv, Growing
    <3>3. q.seq = p.seq => q.id = p.id
      BY <2>1 DEF Before, HeardInv, Growing
    <3>4. got'[p.id] = got[p.id] + 1 /\ got[p.id] \in Nat
      BY <2>1, <2>2, <2>3
    <3>5. q.id # p.id => got'[q.id] = got[q.id]
      BY <2>2, <2>3, <3>1
    <3>q. QED
      BY <2>2, <3>2, <3>3, <3>4, <3>5
  <2>5. newest' <= sendSeq
    BY <2>1, <2>2 DEF Before, HeardInv, Growing
  <2>6. Growing'
    BY <1>1, <1>2, <1>3, <2>4, <2>5 DEF Before, HeardInv, Growing
  <2>q. QED
    BY <1>1, <2>2, <2>6 DEF Before, HeardInv, AllHeard
<1>10. CASE \/ LoadHave(o) \/ LoadLast(o) \/ Reopen(o)
            \/ RememberLast(o) \/ RememberHave(o) \/ RememberKey(o)
            \/ \E p \in net, ask \in BOOLEAN : Take(o, p, ask)
  <2>1. UNCHANGED <<windowVars, got>> /\ lost' = lost
    BY <1>10 DEF LoadHave, LoadLast, Reopen, RememberLast, RememberHave, RememberKey, Take
  <2>q. QED
    BY <1>4, <2>1
<1>q. QED
  BY <1>5, <1>7, <1>8, <1>9, <1>10 DEF Open

LEMMA HeardStep ==
  ASSUME Before, [Next]_vars
  PROVE  HeardInv'
<1>1. CASE \/ \E s \in Sealers : Seal(s)
           \/ Stop \/ Start \/ Tick \/ UNCHANGED vars
           \/ \E end \in {"sender", "receiver"} : Adjust(end)
  BY <1>1, SealersOnTime, SealersGrow DEF HeardInv
<1>2. ASSUME NEW o \in Openers, Open(o) \/ \E p \in net, ask \in BOOLEAN : Take(o, p, ask)
      PROVE  HeardInv'
  BY <1>2, OpenersOnTime, OpenersGrow DEF HeardInv
<1>3. CASE RestartReceiver
  <2>1. /\ Known' \subseteq Known /\ UNCHANGED <<rekey, now, ahead, sealVars, net, lost>>
        /\ \A o \in Openers : opc'[o] = "idle" /\ asks'[o] = FALSE
        /\ newest' = 0 /\ seen' = {}
    BY <1>3 DEF RestartReceiver, Known, InHand
  <2>2. OnTime' /\ WillFit'
    BY <2>1 DEF Before, HeardInv, OnTime, KeyTaken, WillFit, sealVars
  <2>3. Growing'
    BY <2>1, TypeFacts DEF Before, HeardInv, Growing, Clock, sealVars
  <2>q. QED
    BY <2>1, <2>2, <2>3 DEF Before, HeardInv, AllHeard, sealVars
<1>q. QED
  BY <1>1, <1>2, <1>3 DEF Next

LEMMA HeardInit ==
  ASSUME Init
  PROVE  HeardInv
<1>1. Known = {}
  BY DEF Init, Known, InHand
<1>2. OnTime /\ WillFit /\ AllHeard
  BY <1>1 DEF Init, OnTime, WillFit, AllHeard
<1>3. Clock("sender") \in Nat
  BY ChannelAssumption DEF Init, Clock
<1>4. (Clock("sender") + 1) * Rate > 0
  BY <1>3, RateFacts
<1>q. QED
  BY <1>1, <1>2, <1>4 DEF Init, HeardInv, Growing

(* Every packet that arrives within Transit is opened and delivered once,  *)
(* or had been, or was overtaken by a whole window, or was sent before the *)
(* sender restarted (recvEpochs, openSeq, authentic, newTunnel): whatever  *)
(* the clocks and the other openers do meanwhile, as long as an interval   *)
(* is no shorter than the skew and the transit together.                   *)
THEOREM EverythingHeard ==
  ASSUME LongIntervals
  PROVE  Spec => []AllHeard
<1>1. Init => ChannelInv /\ TypeInv /\ CacheInv /\ HeardInv
  BY InitChannelInv, InitTypeInv, InitCacheInv, HeardInit
<1>2. ChannelInv /\ TypeInv /\ CacheInv /\ HeardInv /\ [Next]_vars
        => (ChannelInv /\ TypeInv /\ CacheInv /\ HeardInv)'
  BY StepChannelInv, StepTypeInv, StepCacheInv, HeardStep DEF Before
<1>3. HeardInv => AllHeard
  BY DEF HeardInv
<1>q. QED
  BY <1>1, <1>2, <1>3, PTL DEF Spec
=============================================================================
