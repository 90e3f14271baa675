-------------------------- MODULE NonceSpaceProofs --------------------------
(***************************************************************************)
(* Below the wrap a nonce comes twice only where a space was returned to:  *)
(* for every number of senders, any restarts, any connection ID a hello    *)
(* names, any DTLS epoch drawn and any key changes, as long as the numbers *)
(* drawn cannot reach the end of a space.  The argument: a sender holding  *)
(* a number holds one nobody else holds and nobody has used since the      *)
(* count began, because the count only goes up; what was used before that  *)
(* can be met again only in an old space.                                  *)
(***************************************************************************)
EXTENDS NonceSpace, TLAPS

\* The hypothesis: no start is within MaxPackets of the end of a space.
BelowWrap == \A p \in Starts : p + MaxPackets < Modulus

NonceType ==
  /\ quic \in BOOLEAN
  /\ spaces \in Nat \ {0} /\ space \in Nat
  /\ pn \in Nat /\ packets \in Nat
  /\ pc \in [Senders -> {"idle", "count", "load"}]
  /\ mine \in [Senders -> Nat]
  /\ key \in [Senders -> Nat] /\ epochNow \in Nat
  /\ issued \subseteq Nat \X Nat \X Nat

\* The count has gone no further than the numbers drawn.
CountBounded == packets <= MaxPackets /\ \E p \in Starts : pn <= p + packets

Before(x) == <<x[1], x[2]>> \in old

\* Of what was used since the count began, and of what is held, nothing is
\* ahead of the count.
NothingAhead ==
  /\ \A x \in issued : ~Before(x) => x[3] <= pn
  /\ \A s \in Senders : pc[s] = "load" => mine[s] <= pn

\* What a sender holds is its own, and unused since the count began.
HeldIsFresh ==
  \A s \in Senders : pc[s] = "load" =>
    /\ \A r \in Senders : (r # s /\ pc[r] = "load") => mine[r] # mine[s]
    /\ \A x \in issued : ~Before(x) => x[3] # mine[s]

\* An old space in use was noted when it was taken up.
ReturnNoted == \A p \in old : p[2] = space => p[2] \in again

ReusedIssued == reused \subseteq issued

NonceInv ==
  /\ NonceType /\ CountBounded /\ NothingAhead /\ HeldIsFresh
  /\ ReturnNoted /\ ReusedIssued /\ RepeatsOnlyOnReturn

LEMMA InitNonceInv == NonceInit => NonceInv
<1> SUFFICES ASSUME NonceInit PROVE NonceInv
  OBVIOUS
<1> USE NonceAssumption DEF NonceInit
<1>1. NonceType
  BY DEF NonceType
<1>2. CountBounded
  BY DEF CountBounded
<1>3. NothingAhead /\ HeldIsFresh
  BY DEF NothingAhead, HeldIsFresh
<1>4. ReturnNoted /\ ReusedIssued /\ RepeatsOnlyOnReturn
  BY DEF ReturnNoted, ReusedIssued, RepeatsOnlyOnReturn
<1> QED BY <1>1, <1>2, <1>3, <1>4 DEF NonceInv

\* Below the wrap, counting is adding one, and never ends at the wrap.
LEMMA CountIsNext ==
  ASSUME BelowWrap, NonceType, CountBounded, packets < MaxPackets
  PROVE  (pn + 1) % Modulus = pn + 1 /\ pn + 1 # 0
<1>1. PICK p \in Starts : pn <= p + packets
  BY DEF CountBounded
<1>2. p \in Nat /\ Modulus \in Nat \ {0} /\ MaxPackets \in Nat
  BY NonceAssumption
<1>3. pn + 1 \in 0 .. Modulus - 1
  BY <1>1, <1>2 DEF BelowWrap, NonceType
<1>4. \A a \in 0 .. Modulus - 1 : a % Modulus = a
  BY <1>2
<1> QED BY <1>3, <1>4 DEF NonceType

\* Taking up a space notes it when it is an old one.
LEMMA TakingUpIsNoted ==
  ASSUME NoteReturn(old')
  PROVE  ReturnNoted' /\ again \subseteq again'
BY DEF NoteReturn, ReturnNoted

\* A nonce used twice stays explained while the histories only grow.
LEMMA ExplainedStays ==
  ASSUME RepeatsOnlyOnReturn, reused' = reused,
         \A x \in reused : Before(x) => <<x[1], x[2]>> \in old',
         again \subseteq again'
  PROVE  RepeatsOnlyOnReturn'
BY DEF RepeatsOnlyOnReturn, Before

LEMMA StepNonceInv == BelowWrap /\ NonceInv /\ [NonceNext]_nonceVars => NonceInv'
<1> SUFFICES ASSUME BelowWrap, NonceInv, [NonceNext]_nonceVars PROVE NonceInv'
  OBVIOUS
<1> USE DEF NonceInv, NonceType, Before
<1>1. ASSUME NEW s \in Senders, PickKey(s) PROVE NonceInv'
  <2> USE <1>1 DEF PickKey, Goto, history, bounds
  <2>1. NonceType' /\ CountBounded'
    BY DEF CountBounded
  <2>2. NothingAhead' /\ HeldIsFresh'
    BY DEF NothingAhead, HeldIsFresh
  <2>3. ReturnNoted' /\ ReusedIssued' /\ RepeatsOnlyOnReturn'
    BY DEF ReturnNoted, ReusedIssued, RepeatsOnlyOnReturn
  <2> QED BY <2>1, <2>2, <2>3
<1>2. ASSUME NEW s \in Senders, Count(s) PROVE NonceInv'
  <2> USE <1>2 DEF Count, MayCount, Goto, history
  <2>1. pn' = pn + 1 /\ pn' # 0 /\ packets' = packets + 1
    BY CountIsNext
  <2>2. pc' = [pc EXCEPT ![s] = "load"] /\ mine' = [mine EXCEPT ![s] = pn + 1]
    BY <2>1
  <2>3. NonceType'
    BY <2>1, <2>2
  <2>4. CountBounded'
    <3>1. PICK p \in Starts : pn <= p + packets
      BY DEF CountBounded
    <3>2. p \in Nat /\ MaxPackets \in Nat
      BY NonceAssumption
    <3> QED BY <2>1, <3>1, <3>2 DEF CountBounded
  <2>5. \A x \in issued : ~Before(x) => x[3] <= pn /\ x[3] # pn + 1
    <3> SUFFICES ASSUME NEW x \in issued, ~Before(x)
                 PROVE  x[3] <= pn /\ x[3] # pn + 1
      OBVIOUS
    <3> QED BY DEF NothingAhead
  <2>6. NothingAhead'
    BY <2>1, <2>2, <2>5 DEF NothingAhead
  <2>7. HeldIsFresh'
    BY <2>1, <2>2, <2>5 DEF HeldIsFresh, NothingAhead
  <2>8. ReturnNoted' /\ ReusedIssued' /\ RepeatsOnlyOnReturn'
    BY DEF ReturnNoted, ReusedIssued, RepeatsOnlyOnReturn
  <2> QED BY <2>3, <2>4, <2>6, <2>7, <2>8
<1>3. ASSUME NEW s \in Senders, Load(s) PROVE NonceInv'
  <2> USE <1>3 DEF Load, Goto, bounds
  <2>1. Nonce(s) \in issued => Before(Nonce(s)) /\ space \in again
    BY DEF HeldIsFresh, ReturnNoted, Nonce
  <2>2. RepeatsOnlyOnReturn'
    <3> SUFFICES ASSUME NEW x \in reused'
                 PROVE  <<x[1], x[2]>> \in old /\ x[2] \in again
      BY DEF RepeatsOnlyOnReturn
    <3>1. CASE x \in reused
      BY <3>1 DEF RepeatsOnlyOnReturn
    <3>2. CASE x = Nonce(s) /\ Nonce(s) \in issued
      BY <2>1, <3>2 DEF Nonce
    <3> QED BY <3>1, <3>2
  <2>3. NonceType'
    <3>1. Nonce(s) \in Nat \X Nat \X Nat
      BY DEF Nonce
    <3>2. issued' \subseteq Nat \X Nat \X Nat
      BY <3>1
    <3>3. pc' \in [Senders -> {"idle", "count", "load"}]
      OBVIOUS
    <3> QED BY <3>2, <3>3
  <2>4. CountBounded' /\ ReturnNoted' /\ ReusedIssued'
    BY DEF CountBounded, ReturnNoted, ReusedIssued
  <2>5. NothingAhead'
    BY DEF NothingAhead, Nonce
  <2>6. HeldIsFresh'
    BY DEF HeldIsFresh, Nonce
  <2> QED BY <2>2, <2>3, <2>4, <2>5, <2>6
<1>4. ASSUME NEW s \in Senders, Lock(s) \/ Look(s) \/ Rotate(s) \/ Unlock(s)
      PROVE  NonceInv'
  BY <1>4 DEF Lock, Look, Rotate, Unlock
<1>5. CASE Adopt
  <2> USE <1>5 DEF Adopt, FreshID, bounds
  <2>1. NonceType' /\ CountBounded'
    BY DEF CountBounded
  <2>2. NothingAhead' /\ HeldIsFresh'
    BY DEF NothingAhead, HeldIsFresh
  <2>3. ReturnNoted' /\ again \subseteq again'
    BY TakingUpIsNoted
  <2>4. ReusedIssued' /\ RepeatsOnlyOnReturn'
    BY <2>3, ExplainedStays DEF ReusedIssued
  <2> QED BY <2>1, <2>2, <2>3, <2>4
<1>6. CASE Restart
  <2> USE <1>6, NonceAssumption DEF Restart, FreshID
  <2>1. NonceType' /\ CountBounded'
    BY DEF CountBounded
  <2>2. \A x \in issued' : Before(x)'
    BY DEF CountAnew
  <2>3. NothingAhead' /\ HeldIsFresh'
    BY <2>2 DEF NothingAhead, HeldIsFresh
  <2>4. ReturnNoted' /\ again \subseteq again'
    BY TakingUpIsNoted
  <2>5. ReusedIssued' /\ RepeatsOnlyOnReturn'
    BY <2>2, <2>4, ExplainedStays DEF ReusedIssued
  <2> QED BY <2>1, <2>3, <2>4, <2>5
<1>7. CASE Rekey
  <2> USE <1>7 DEF Rekey, history, bounds
  <2>1. NonceType' /\ CountBounded'
    BY DEF CountBounded
  <2>2. NothingAhead' /\ HeldIsFresh'
    BY DEF NothingAhead, HeldIsFresh
  <2>3. ReturnNoted' /\ ReusedIssued' /\ RepeatsOnlyOnReturn'
    BY DEF ReturnNoted, ReusedIssued, RepeatsOnlyOnReturn
  <2> QED BY <2>1, <2>2, <2>3
<1>8. CASE UNCHANGED nonceVars
  <2> USE <1>8 DEF nonceVars, history, bounds
  <2>1. NonceType' /\ CountBounded'
    BY DEF CountBounded
  <2>2. NothingAhead' /\ HeldIsFresh'
    BY DEF NothingAhead, HeldIsFresh
  <2>3. ReturnNoted' /\ ReusedIssued' /\ RepeatsOnlyOnReturn'
    BY DEF ReturnNoted, ReusedIssued, RepeatsOnlyOnReturn
  <2> QED BY <2>1, <2>2, <2>3
<1> QED BY <1>1, <1>2, <1>3, <1>4, <1>5, <1>6, <1>7, <1>8 DEF NonceNext, NextHeader

(* While the count stays below the wrap, a nonce comes twice only in a     *)
(* space returned to after a restart, however many goroutines seal,        *)
(* whatever connection ID a hello names and whatever epoch a new process   *)
(* draws (nextHeader, obfs.go, and nextRecordHeader, dtlsobfs.go).         *)
THEOREM RepeatsOnlyOnReturnBelowWrap ==
  ASSUME BelowWrap
  PROVE  NonceSpec => []RepeatsOnlyOnReturn
<1>1. NonceInit => NonceInv
  BY InitNonceInv
<1>2. NonceInv /\ [NonceNext]_nonceVars => NonceInv'
  BY StepNonceInv
<1>3. NonceInv => RepeatsOnlyOnReturn
  BY DEF NonceInv
<1> QED BY <1>1, <1>2, <1>3, PTL DEF NonceSpec

-----------------------------------------------------------------------------
(* Within one process and below the wrap nothing is old, so no nonce is    *)
(* used twice in either format, whatever connection ID is adopted: "the    *)
(* packet number keeps climbing across the change" (adoptPeerCID).         *)
THEOREM NonceUniqueInOneProcess ==
  ASSUME BelowWrap, MaxRestarted = 0
  PROVE  NonceSpec => []NonceUnique
<1> DEFINE Inv == NonceInv /\ restarted = 0 /\ old = {}
<1>1. NonceInit => Inv
  BY InitNonceInv DEF NonceInit
<1>2. Inv /\ [NonceNext]_nonceVars => Inv'
  <2> SUFFICES ASSUME Inv, [NonceNext]_nonceVars PROVE restarted' = 0 /\ old' = {}
    BY StepNonceInv
  <2>1. ASSUME NEW s \in Senders, PickKey(s) \/ Count(s) \/ Load(s)
        PROVE  restarted' = restarted /\ old' = old
    BY <2>1 DEF PickKey, Count, Load, history, bounds
  <2>2. ASSUME NEW s \in Senders PROVE ~(Lock(s) \/ Look(s) \/ Rotate(s) \/ Unlock(s))
    BY DEF NonceInv, NonceType, Lock, Look, Rotate, Unlock
  <2>3. Adopt \/ Rekey => restarted' = restarted /\ old' = old
    BY DEF Adopt, Rekey, history, bounds
  <2>4. ~Restart
    BY DEF Restart
  <2>5. UNCHANGED nonceVars => restarted' = restarted /\ old' = old
    BY DEF nonceVars, history, bounds
  <2> QED BY <2>1, <2>2, <2>3, <2>4, <2>5 DEF NonceNext, NextHeader
<1>3. Inv => NonceUnique
  BY DEF NonceInv, RepeatsOnlyOnReturn, NonceUnique
<1> QED BY <1>1, <1>2, <1>3, PTL DEF NonceSpec

\* Every connection ID used so far has a number, and none was taken up again.
AlwaysFresh ==
  /\ quic /\ space <= spaces /\ again = {}
  /\ \A x \in issued : x[2] <= spaces
  /\ \A p \in old : p[2] \in 0 .. spaces

\* A connection ID never seen before is not an old one.
LEMMA FreshIsNotOld ==
  ASSUME NonceType, AlwaysFresh, FreshID, NoteReturn(old'),
         \A p \in old' : p[2] \in 0 .. spaces
  PROVE  again' = {}
<1>1. \A p \in old' : p[2] # space'
  <2> SUFFICES ASSUME NEW p \in old' PROVE p[2] # space'
    OBVIOUS
  <2> QED BY DEF NonceType, FreshID
<1> QED BY <1>1 DEF AlwaysFresh, NoteReturn

(* With QUIC headers and hellos that name only connection IDs never used   *)
(* here before, no nonce is used twice below the wrap, whatever restarts:  *)
(* "unique across restarts because the connection ID is freshly random per *)
(* process" (nextHeader, obfs.go).                                         *)
THEOREM NonceUniqueAcrossRestarts ==
  ASSUME BelowWrap, Formats = {TRUE}, Replayed = FALSE
  PROVE  NonceSpec => []NonceUnique
<1> DEFINE Inv == NonceInv /\ AlwaysFresh
<1>1. NonceInit => Inv
  BY InitNonceInv DEF NonceInit, AlwaysFresh
<1>2. Inv /\ [NonceNext]_nonceVars => Inv'
  <2> SUFFICES ASSUME Inv, [NonceNext]_nonceVars PROVE AlwaysFresh'
    BY StepNonceInv
  <2> USE DEF NonceInv, NonceType, AlwaysFresh
  <2>1. ASSUME NEW s \in Senders, PickKey(s) \/ Count(s) PROVE AlwaysFresh'
    BY <2>1 DEF PickKey, Count, history
  <2>2. ASSUME NEW s \in Senders, Load(s) PROVE AlwaysFresh'
    BY <2>2 DEF Load, Nonce
  <2>3. ASSUME NEW s \in Senders PROVE ~(Lock(s) \/ Look(s) \/ Rotate(s) \/ Unlock(s))
    BY DEF Lock, Look, Rotate, Unlock
  <2>4. CASE Adopt
    <3> USE <2>4 DEF Adopt
    <3>1. FreshID /\ old' = old /\ issued' = issued /\ quic' = quic
      OBVIOUS
    <3>2. again' = {}
      BY <3>1, FreshIsNotOld
    <3>3. spaces' = spaces + 1 /\ space' = spaces + 1
      BY <3>1 DEF FreshID
    <3> QED BY <3>1, <3>2, <3>3
  <2>5. CASE Restart
    <3> USE <2>5 DEF Restart
    <3>1. FreshID /\ issued' = issued /\ quic' = quic /\ NoteReturn(old')
      OBVIOUS
    <3>2. \A p \in old' : p[2] \in 0 .. spaces
      BY DEF CountAnew
    <3>3. again' = {}
      BY <3>1, <3>2, FreshIsNotOld
    <3>4. spaces' = spaces + 1 /\ space' = spaces + 1
      BY <3>1 DEF FreshID
    <3>5. \A x \in issued' : x[2] <= spaces'
      BY <3>1, <3>4
    <3>6. \A p \in old' : p[2] \in 0 .. spaces'
      BY <3>2, <3>4
    <3> QED BY <3>1, <3>3, <3>4, <3>5, <3>6
  <2>6. Rekey \/ UNCHANGED nonceVars => AlwaysFresh'
    BY DEF Rekey, nonceVars, history
  <2> QED BY <2>1, <2>2, <2>3, <2>4, <2>5, <2>6 DEF NonceNext, NextHeader
<1>3. Inv => NonceUnique
  BY DEF NonceInv, AlwaysFresh, RepeatsOnlyOnReturn, NonceUnique
<1> QED BY <1>1, <1>2, <1>3, PTL DEF NonceSpec
=============================================================================
