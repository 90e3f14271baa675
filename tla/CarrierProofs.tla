--------------------------- MODULE CarrierProofs ---------------------------
(***************************************************************************)
(* Seven parts of the carriers, for every value of the constants.          *)
(*                                                                         *)
(* The token bucket keeps its rate (Pacer).  The argument is an account:   *)
(* what was let through since any moment, and what the bucket is worth now,*)
(* never exceed what the time in between earned and one full bucket; and   *)
(* the bucket's debt is bounded, because the one pump that sleeps sleeps   *)
(* long enough.  No echo-reply rule is lost track of (ReplyRules): each    *)
(* copy was found, could not be removed, or is on the list of the run that *)
(* has yet to remove it.  The kernel's filter and the parser agree         *)
(* (IcmpFilter): what the interpreter knows of a packet at each            *)
(* instruction.  Datagrams of the port-hopping carrier leave on schedule,  *)
(* and arrive in order (PortHop).  Whoever writes to a connection holds its*)
(* lock (WsLink).  What the bulk path batches, cuts and coalesces arrives  *)
(* whole and in order (BulkPath): a buffer of equal pieces is cut into the *)
(* very pieces it was made of, so what the far end was handed, what its    *)
(* reader keeps and what the wire carries are one sequence, to which the   *)
(* pump only appends.  Messages survive being framed (WsReader): what is   *)
(* under assembly lists the bytes of the frames since the opening one, and *)
(* is thus as long as there are such bytes, which is how the reader comes  *)
(* to judge every frame by its place among the others.                     *)
(***************************************************************************)
EXTENDS Pacer, PortHop, ReplyRules, IcmpFilter, WsLink, BulkPath, WsReader, TLAPS,
        FiniteSetTheorems, SequenceTheorems
-----------------------------------------------------------------------------
(* The pacer.                                                              *)

\* The bucket and the bytes let through since t are paid for.
Paid == \A t \in 0..clock : granted - grantedBy[t] + ideal <= Burst + Earned(clock - t)
\* Debt is bounded.
Floor == ideal >= -Debt
\* A pump sleeps until its batch is earned, and only one does.
LongEnough ==
  \A p \in Pumps : nap[p] # Awake =>
    /\ nap[p].until >= credited
    /\ tokens + Earned(nap[p].until - credited) >= nap[p].need
OneSleeps == \A p, q \in Pumps : nap[p] # Awake /\ nap[q] # Awake => p = q

PacerInv ==
  PacerTypeOK /\ LazyBucketExact /\ Paid /\ Floor /\ LongEnough /\ OneSleeps

-----------------------------------------------------------------------------

(* What time earns, the only place where numbers are multiplied. *)
LEMMA EarnedFacts ==
  ASSUME NEW s \in Nat, NEW t \in Nat
  PROVE  /\ Earned(t) \in Nat /\ Earned(0) = 0
         /\ Earned(t + 1) = Earned(t) + Rate
         /\ s <= t => Earned(s) <= Earned(t)
<1>1. Rate \in Nat
  BY PacerAssumption
<1>2. Earned(t) \in Nat /\ Earned(0) = 0 /\ Earned(t + 1) = Earned(t) + Rate
  BY <1>1 DEF Earned
<1>3. ASSUME s <= t PROVE Earned(s) <= Earned(t)
  <2>1. PICK d \in Nat : t = s + d
    <3>1. t - s \in Nat /\ t = s + (t - s)
      BY <1>3
    <3>2. QED
      BY <3>1
  <2>2. t * Rate = (s * Rate) + (d * Rate) /\ d * Rate >= 0 /\ s * Rate \in Nat /\ d * Rate \in Nat
    BY <2>1, <1>1
  <2>3. QED
    BY <2>2 DEF Earned
<1>4. QED
  BY <1>2, <1>3

(* A sleep rounded up to whole steps earns the deficit. *)
LEMMA SleepEarns ==
  ASSUME NEW d \in Nat \ {0}
  PROVE  /\ (d + Rate - 1) \div Rate \in Nat
         /\ Earned((d + Rate - 1) \div Rate) >= d
<1> DEFINE n == d + Rate - 1
           q == n \div Rate
<1>1. n \in Nat /\ Rate \in Nat \ {0}
  BY PacerAssumption
<1>2. q \in Nat /\ n % Rate \in 0..Rate - 1 /\ n = (Rate * q) + (n % Rate)
  <2> HIDE DEF n
  <2> QED
    BY <1>1
<1>3. q * Rate = Rate * q /\ Rate * q \in Nat
  <2> HIDE DEF q
  <2> QED
    BY <1>1, <1>2
<1>4. q * Rate >= d
  <2> DEFINE prod == Rate * q
             rem == n % Rate
  <2>1. d + Rate - 1 = prod + rem /\ prod \in Nat /\ rem \in 0..Rate - 1
    BY <1>2, <1>3
  <2> HIDE DEF prod, rem
  <2>2. prod >= d
    BY <2>1, <1>1
  <2>3. QED
    BY <2>2, <1>3 DEF prod
<1>5. QED
  BY <1>2, <1>4 DEF Earned

(* The bucket is worth what it is credited, and never more than Burst. *)
LEMMA AccruedFacts ==
  ASSUME PacerTypeOK
  PROVE  /\ Accrued \in Int /\ Accrued <= Burst
         /\ clock - credited \in Nat /\ Earned(clock - credited) \in Nat
         /\ Burst \in Nat /\ Rate \in Nat
<1>1. clock - credited \in Nat /\ Burst \in Nat /\ Rate \in Nat
  BY PacerAssumption DEF PacerTypeOK
<1>2. Earned(clock - credited) \in Nat
  BY <1>1, EarnedFacts
<1>3. QED
  BY <1>1, <1>2 DEF Accrued, Capped, PacerTypeOK

(* Debt covers a short sleep and a batch larger than the bucket. *)
LEMMA DebtFacts ==
  /\ Debt \in Int /\ Debt >= 0
  /\ \A n \in 0..MaxNeed : n - Burst <= Debt
  /\ Earned(MinSleep) <= Debt
<1>1. Earned(MinSleep) \in Nat
  BY PacerAssumption, EarnedFacts
<1>2. QED
  BY <1>1, PacerAssumption DEF Debt

(* Letting n bytes through keeps the account, if no pump sleeps afterwards *)
(* and the bucket does not sink below its debt.                            *)
LEMMA SpendKeeps ==
  ASSUME PacerInv, NEW n \in 0..MaxNeed, Spend(n), Accrued - n >= -Debt,
         UNCHANGED <<clock, grantedBy>>, nap' = [p \in Pumps |-> Awake]
  PROVE  PacerInv'
<1>1. /\ tokens' = Accrued - n /\ credited' = clock /\ clock' = clock
      /\ granted' = granted + n /\ ideal' = ideal - n /\ ideal = Accrued
      /\ n \in Nat /\ MaxNeed \in Nat
  BY PacerAssumption DEF PacerInv, LazyBucketExact, Spend
<1>2. Accrued \in Int /\ Accrued <= Burst /\ Burst \in Nat
  BY AccruedFacts DEF PacerInv
<1>3. PacerTypeOK'
  <2>1. nap' \in [Pumps -> Naps]
    BY <1>1 DEF Awake, Naps
  <2>2. QED
    BY <1>1, <1>2, <2>1 DEF PacerInv, PacerTypeOK
<1>4. LazyBucketExact'
  <2>1. Earned(clock - clock) = 0
    <3>1. clock - clock = 0
      BY DEF PacerInv, PacerTypeOK
    <3>2. QED
      BY <3>1, EarnedFacts
  <2>2. Accrued' = Capped(Accrued - n)
    <3>1. Accrued' = Capped(tokens' + Earned(clock - clock))
      BY <1>1 DEF Accrued, Capped, Earned
    <3>2. QED
      BY <3>1, <2>1, <1>1, <1>2
  <2>3. QED
    BY <2>2, <1>1, <1>2 DEF LazyBucketExact, Capped
<1>5. Paid'
  <2> SUFFICES ASSUME NEW t \in 0..clock
               PROVE  granted' - grantedBy[t] + ideal' <= Burst + Earned(clock - t)
    BY <1>1 DEF Paid, Earned
  <2>1. granted - grantedBy[t] + ideal <= Burst + Earned(clock - t)
    BY DEF PacerInv, Paid
  <2>2. granted \in Nat /\ grantedBy[t] \in Nat
    <3>1. clock \in 0..MaxTime /\ MaxTime \in Nat
      BY PacerAssumption DEF PacerInv, PacerTypeOK
    <3>2. t \in 0..MaxTime
      BY <3>1
    <3>3. QED
      BY <3>2 DEF PacerInv, PacerTypeOK
  <2>3. QED
    BY <1>1, <1>2, <2>1, <2>2
<1>6. Floor'
  <2>1. ideal' >= -Debt
    BY <1>1
  <2>2. QED
    BY <2>1 DEF Floor, Debt, Earned
<1>7. LongEnough' /\ OneSleeps'
  BY DEF LongEnough, OneSleeps
<1>8. QED
  BY <1>3, <1>4, <1>5, <1>6, <1>7 DEF PacerInv

LEMMA PacerInit_Inv ==
  ASSUME PacerInit
  PROVE  PacerInv
<1>1. Burst \in Nat /\ MaxTime \in Nat /\ MaxNeed \in Nat
  BY PacerAssumption
<1>2. PacerTypeOK
  BY <1>1 DEF PacerInit, PacerTypeOK, Naps, Awake
<1>3. Earned(0) = 0
  BY EarnedFacts
<1>4. LazyBucketExact
  <2>1. clock - credited = 0
    BY DEF PacerInit
  <2>2. QED
    BY <1>1, <1>3, <2>1 DEF PacerInit, LazyBucketExact, Accrued, Capped
<1>5. Paid
  <2> SUFFICES ASSUME NEW t \in 0..clock
               PROVE  granted - grantedBy[t] + ideal <= Burst + Earned(clock - t)
    BY DEF Paid
  <2>1. t = 0 /\ clock - t = 0 /\ grantedBy[t] = 0
    <3>1. t = 0 /\ clock = 0 /\ 0 \in 0..MaxTime
      BY <1>1 DEF PacerInit
    <3>2. QED
      BY <3>1 DEF PacerInit
  <2>2. QED
    BY <1>1, <1>3, <2>1 DEF PacerInit
<1>6. Floor
  BY <1>1, DebtFacts DEF Floor, PacerInit
<1>7. LongEnough /\ OneSleeps
  BY DEF LongEnough, OneSleeps, PacerInit
<1>8. QED
  BY <1>2, <1>4, <1>5, <1>6, <1>7 DEF PacerInv

LEMMA Elapse_Inv ==
  ASSUME PacerInv, Elapse
  PROVE  PacerInv'
<1>1. /\ clock \in Nat /\ clock' = clock + 1 /\ clock < MaxTime /\ MaxTime \in Nat
      /\ credited' = credited /\ tokens' = tokens /\ nap' = nap /\ granted' = granted
      /\ ideal' = Capped(ideal + Rate)
      /\ grantedBy' = [grantedBy EXCEPT ![clock + 1] = granted]
  BY PacerAssumption DEF Elapse, PacerInv, PacerTypeOK
<1>2. /\ Accrued \in Int /\ Accrued <= Burst /\ clock - credited \in Nat
      /\ Earned(clock - credited) \in Nat /\ Burst \in Nat /\ Rate \in Nat
      /\ ideal = Accrued /\ ideal \in Int /\ tokens \in Int
  BY AccruedFacts DEF PacerInv, LazyBucketExact, PacerTypeOK
<1>3. PacerTypeOK'
  <2>1. ideal' \in Int /\ ideal' <= Burst
    BY <1>1, <1>2 DEF Capped
  <2>2. grantedBy' \in [0..MaxTime -> Nat]
    BY <1>1 DEF PacerInv, PacerTypeOK
  <2>3. QED
    BY <1>1, <2>1, <2>2 DEF PacerInv, PacerTypeOK
<1>4. LazyBucketExact'
  <2>1. Accrued' = Capped(tokens + (Earned(clock - credited) + Rate))
    <3>1. (clock + 1) - credited = (clock - credited) + 1
      BY <1>1, <1>2 DEF PacerInv, PacerTypeOK
    <3>2. Earned((clock + 1) - credited) = Earned(clock - credited) + Rate
      BY <3>1, <1>2, EarnedFacts
    <3>3. Accrued' = Capped(tokens + Earned((clock + 1) - credited))
      BY <1>1 DEF Accrued, Capped, Earned
    <3>4. QED
      BY <3>2, <3>3
  <2>2. ideal = Capped(tokens + Earned(clock - credited))
    BY <1>2 DEF Accrued
  <2>3. QED
    BY <2>1, <2>2, <1>1, <1>2 DEF Capped, LazyBucketExact
<1>5. Paid'
  <2> SUFFICES ASSUME NEW t \in 0..clock + 1
               PROVE  granted - grantedBy'[t] + ideal' <= Burst + Earned((clock + 1) - t)
    BY <1>1 DEF Paid, Earned
  <2>1. ideal' <= ideal + Rate /\ ideal' <= Burst /\ ideal' \in Int
    BY <1>1, <1>2 DEF Capped
  <2>2. granted \in Nat
    BY DEF PacerInv, PacerTypeOK
  <2>3. CASE t = clock + 1
    <3>1. grantedBy'[t] = granted
      BY <1>1, <2>3 DEF PacerInv, PacerTypeOK
    <3>2. (clock + 1) - t = 0
      BY <1>1, <2>3
    <3>3. QED
      BY <3>1, <3>2, <2>1, <2>2, <1>2, EarnedFacts
  <2>4. CASE t # clock + 1
    <3>1. t \in 0..clock /\ clock - t \in Nat /\ (clock + 1) - t = (clock - t) + 1
      BY <1>1, <2>4
    <3>2. Earned((clock + 1) - t) = Earned(clock - t) + Rate /\ Earned(clock - t) \in Nat
      BY <3>1, EarnedFacts
    <3>3. grantedBy'[t] = grantedBy[t] /\ grantedBy[t] \in Nat
      BY <1>1, <3>1 DEF PacerInv, PacerTypeOK
    <3>4. granted - grantedBy[t] + ideal <= Burst + Earned(clock - t)
      BY <3>1 DEF PacerInv, Paid
    <3>5. QED
      BY <3>2, <3>3, <3>4, <2>1, <2>2, <1>2
  <2>5. QED
    BY <2>3, <2>4
<1>6. Floor'
  <2>1. ideal' >= -Debt
    BY <1>1, <1>2, DebtFacts DEF PacerInv, Floor, Capped
  <2>2. QED
    BY <2>1 DEF Floor, Debt, Earned
<1>7. LongEnough' /\ OneSleeps'
  BY <1>1 DEF PacerInv, LongEnough, OneSleeps, Earned
<1>8. QED
  BY <1>3, <1>4, <1>5, <1>6, <1>7 DEF PacerInv

(* With the lock free nobody sleeps; a small deficit is within the debt. *)
LEMMA WaitNot_Inv ==
  ASSUME PacerInv, NEW p \in Pumps, NEW n \in 1..MaxNeed, WaitNot(p, n)
  PROVE  PacerInv'
<1>1. nap' = [q \in Pumps |-> Awake]
  BY DEF WaitNot, LockFree, PacerInv, PacerTypeOK
<1>2. Accrued \in Int /\ n \in 0..MaxNeed /\ n - Accrued <= Earned(MinSleep)
  BY AccruedFacts, PacerAssumption DEF WaitNot, PacerInv
<1>3. Accrued - n >= -Debt
  BY <1>2, DebtFacts, PacerAssumption, EarnedFacts
<1>4. QED
  BY <1>1, <1>2, <1>3, SpendKeeps DEF WaitNot

(* The only pump that sleeps wakes when its batch is earned, or when the   *)
(* bucket is full and the batch larger than the bucket.                    *)
LEMMA Wake_Inv ==
  ASSUME PacerInv, NEW p \in Pumps, Wake(p)
  PROVE  PacerInv'
<1> DEFINE n == nap[p].need
           u == nap[p].until
<1>1. /\ nap[p] \in Naps /\ n \in 0..MaxNeed /\ u \in Nat
      /\ nap[p] # Awake /\ clock >= u
  BY DEF Wake, PacerInv, PacerTypeOK, Naps
<1>2. u >= credited /\ tokens + Earned(u - credited) >= n
  BY <1>1 DEF PacerInv, LongEnough
<1>3. nap' = [q \in Pumps |-> Awake]
  BY <1>1 DEF Wake, PacerInv, OneSleeps, PacerTypeOK
<1>4. Accrued - n >= -Debt
  <2>1. credited \in Nat /\ clock \in Nat /\ tokens \in Int /\ Burst \in Nat /\ MaxNeed \in Nat
    BY PacerAssumption DEF PacerInv, PacerTypeOK
  <2>2. Earned(u - credited) <= Earned(clock - credited)
    <3>1. u - credited \in Nat /\ clock - credited \in Nat /\ u - credited <= clock - credited
      BY <1>1, <1>2, <2>1
    <3>2. QED
      BY <3>1, EarnedFacts
  <2>3. Earned(u - credited) \in Nat /\ Earned(clock - credited) \in Nat
    <3>1. u - credited \in Nat /\ clock - credited \in Nat
      BY <1>1, <1>2, <2>1
    <3>2. QED
      BY <3>1, EarnedFacts
  <2>4. Accrued = Burst \/ Accrued >= n
    <3> HIDE DEF n, u
    <3>1. tokens + Earned(clock - credited) >= n
      BY <1>1, <1>2, <2>1, <2>2, <2>3
    <3>2. QED
      BY <3>1 DEF Accrued, Capped
  <2>5. n - Burst <= Debt /\ Debt >= 0 /\ Debt \in Int
    BY <1>1, DebtFacts
  <2>6. Accrued \in Int
    BY AccruedFacts DEF PacerInv
  <2>7. QED
    <3> HIDE DEF n, u
    <3>1. QED
      BY <1>1, <2>1, <2>4, <2>5, <2>6
<1>5. Spend(n) /\ UNCHANGED <<clock, grantedBy>>
  BY DEF Wake
<1>6. QED
  BY <1>1, <1>3, <1>4, <1>5, SpendKeeps

(* Falling asleep credits the bucket, and the sleep is long enough. *)
LEMMA FallAsleep_Inv ==
  ASSUME PacerInv, NEW p \in Pumps, NEW n \in 1..MaxNeed, FallAsleep(p, n)
  PROVE  PacerInv'
<1> DEFINE d == n - Accrued
           k == (d + Rate - 1) \div Rate
<1>1. /\ tokens' = Accrued /\ credited' = clock /\ clock' = clock /\ granted' = granted
      /\ ideal' = ideal /\ grantedBy' = grantedBy /\ ideal = Accrued
      /\ nap' = [nap EXCEPT ![p] = [need |-> n, until |-> clock + k]]
      /\ \A q \in Pumps : nap[q] = Awake
      /\ d > Earned(MinSleep)
  BY DEF FallAsleep, LockFree, PacerInv, LazyBucketExact
<1>2. /\ Accrued \in Int /\ Accrued <= Burst /\ Burst \in Nat /\ clock \in Nat
      /\ MaxNeed \in Nat /\ n \in 0..MaxNeed
  BY AccruedFacts, PacerAssumption DEF PacerInv, PacerTypeOK
<1>3. d \in Nat \ {0} /\ k \in Nat /\ Earned(k) >= d
  <2>1. d \in Nat \ {0}
    <3>1. Earned(MinSleep) \in Nat
      BY EarnedFacts, PacerAssumption
    <3>2. n \in Int /\ d \in Int
      BY <1>2
    <3>3. QED
      BY <3>1, <3>2, <1>1
  <2>2. QED
    <3> HIDE DEF d
    <3>1. QED
      BY <2>1, SleepEarns
<1> HIDE DEF k
<1>4. PacerTypeOK'
  <2>1. [need |-> n, until |-> clock + k] \in Naps
    BY <1>2, <1>3 DEF Naps
  <2>2. nap' \in [Pumps -> Naps]
    BY <1>1, <2>1 DEF PacerInv, PacerTypeOK
  <2>3. QED
    BY <1>1, <1>2, <2>2 DEF PacerInv, PacerTypeOK
<1>5. LazyBucketExact'
  <2>1. Earned(clock - clock) = 0
    <3>1. clock - clock = 0
      BY <1>2
    <3>2. QED
      BY <3>1, EarnedFacts
  <2>2. Accrued' = Capped(Accrued + Earned(clock - clock))
    BY <1>1 DEF Accrued, Capped, Earned
  <2>3. QED
    BY <1>1, <1>2, <2>1, <2>2 DEF LazyBucketExact, Capped
<1>6. Paid' /\ Floor'
  BY <1>1 DEF PacerInv, Paid, Floor, Debt, Earned
<1>7. LongEnough'
  <2> SUFFICES ASSUME NEW q \in Pumps, nap'[q] # Awake
               PROVE  /\ nap'[q].until >= clock
                      /\ Accrued + Earned(nap'[q].until - clock) >= nap'[q].need
    BY <1>1 DEF LongEnough, Earned
  <2>1. nap'[q] = [need |-> n, until |-> clock + k]
    BY <1>1 DEF PacerInv, PacerTypeOK
  <2>2. (clock + k) - clock = k /\ clock + k >= clock
    BY <1>2, <1>3
  <2>3. Accrued + Earned(k) >= n
    <3>1. Earned(k) \in Nat
      BY <1>3, EarnedFacts
    <3>2. QED
      BY <3>1, <1>2, <1>3
  <2>4. QED
    BY <2>1, <2>2, <2>3
<1>8. OneSleeps'
  BY <1>1 DEF PacerInv, PacerTypeOK, OneSleeps
<1>9. QED
  BY <1>4, <1>5, <1>6, <1>7, <1>8 DEF PacerInv

-----------------------------------------------------------------------------

LEMMA PacerNext_Inv ==
  ASSUME PacerInv, [PacerNext]_pacerVars
  PROVE  PacerInv'
<1>1. CASE Elapse
  BY <1>1, Elapse_Inv
<1>2. ASSUME NEW p \in Pumps, Wake(p) PROVE PacerInv'
  BY <1>2, Wake_Inv
<1>3. ASSUME NEW p \in Pumps, NEW n \in 1..MaxNeed, WaitNot(p, n) PROVE PacerInv'
  BY <1>3, WaitNot_Inv
<1>4. ASSUME NEW p \in Pumps, NEW n \in 1..MaxNeed, FallAsleep(p, n) PROVE PacerInv'
  BY <1>4, FallAsleep_Inv
<1>5. CASE UNCHANGED pacerVars
  BY <1>5 DEF pacerVars, PacerInv, PacerTypeOK, LazyBucketExact, Accrued, Capped, Earned,
     Paid, Floor, Debt, LongEnough, OneSleeps
<1>6. QED
  BY <1>1, <1>2, <1>3, <1>4, <1>5 DEF PacerNext

(* The inductive invariant holds of every behaviour of the pacer. *)
THEOREM PacerInvariant == PacerSpec => []PacerInv
<1>1. PacerInit => PacerInv
  BY PacerInit_Inv
<1>2. PacerInv /\ [PacerNext]_pacerVars => PacerInv'
  BY PacerNext_Inv
<1>3. QED
  BY <1>1, <1>2, PTL DEF PacerSpec

(* Crediting lazily, when a pump waits or wakes, neither loses nor invents *)
(* credit (accrue and wait of pacer.go).                                   *)
THEOREM LazyIsExact == PacerSpec => []LazyBucketExact
<1>1. PacerInv => LazyBucketExact
  BY DEF PacerInv
<1>2. QED
  BY <1>1, PacerInvariant, PTL

(* The pumps of a carrier together never exceed the rate by more than one  *)
(* bucket and one debt, over any stretch of time (the promise of pacer.go's*)
(* lock held across the sleep).                                            *)
THEOREM PumpsKeepRate == PacerSpec => []RateKept
<1>1. PacerInv => RateKept
  <2> SUFFICES ASSUME PacerInv, NEW t \in 0..clock
               PROVE  granted - grantedBy[t] <= Burst + Earned(clock - t) + Debt
    BY DEF RateKept
  <2>1. granted - grantedBy[t] + ideal <= Burst + Earned(clock - t) /\ ideal >= -Debt
    BY DEF PacerInv, Paid, Floor
  <2>2. clock \in 0..MaxTime /\ MaxTime \in Nat /\ Burst \in Nat
    BY PacerAssumption DEF PacerInv, PacerTypeOK
  <2>3. t \in 0..MaxTime /\ clock - t \in Nat
    BY <2>2
  <2>4. grantedBy[t] \in Nat /\ granted \in Nat /\ ideal \in Int
    BY <2>3 DEF PacerInv, PacerTypeOK
  <2>5. Earned(clock - t) \in Nat /\ Debt \in Int
    BY <2>3, EarnedFacts, DebtFacts
  <2>6. QED
    BY <2>1, <2>2, <2>4, <2>5
<1>2. QED
  BY <1>1, PacerInvariant, PTL

-----------------------------------------------------------------------------
(* The echo-reply rules.                                                   *)

RulesSpec == RulesInit /\ [][RulesNext]_ruleVars

RulePlaces == {"down", "add", "rollback", "clear", "make", "flush", "drop",
               "ready", "up", "stop"}
Copies == [Tools -> [Rule -> Nat]]

RulesTyped ==
  /\ rules \in Copies /\ found \in Copies /\ stuck \in Copies /\ faults \in Nat
  /\ proc \in [at : RulePlaces, tool : Tools \union {"none"}, pool : SUBSET Rule]
  /\ todo \subseteq Rule /\ done \subseteq Rule /\ undo \subseteq Rule
  /\ installed \subseteq Tools

OwedIsListed ==
  \A t \in Tools, r \in Rule : rules[t][r] <= found[t][r] + stuck[t][r] + Owes(t, r)

\* What the process asked for is in, or still to be put in, and its lists hold no more
\* than it asked for.
Asked == IF undo = {} THEN proc.pool ELSE undo
Listed ==
  /\ proc.at = "down" => proc.tool = "none" /\ done = {} /\ undo = {}
  /\ proc.at = "add" => proc.tool \in Tools
  /\ proc.at = "add" /\ proc.tool = "iptables" =>
       /\ done \union todo \subseteq Asked /\ Asked \subseteq Present("iptables") \union todo
       /\ done \intersect todo = {} /\ undo \in {{}, {All}}
  /\ proc.at = "add" /\ proc.tool = "nft" =>
       \/ proc.pool \subseteq Present("nft") \union todo
       \/ All \in Present("nft") \union todo
  /\ proc.at = "rollback" => proc.tool = "iptables" /\ todo \subseteq done /\ undo \in {{}, {All}}
  /\ proc.at \in {"clear", "make", "flush", "drop"} => proc.tool = "nft"
  /\ proc.at \in {"clear", "make"} => todo = proc.pool
  /\ proc.at = "flush" => todo = {All}
  /\ proc.at \in {"add", "clear", "make", "flush", "drop"} /\ proc.tool = "nft" =>
       undo = {} /\ done = {}
  /\ proc.at = "stop" => todo \subseteq undo
  /\ proc.at \in {"ready", "up", "stop"} => done = {} /\ (proc.tool = "none" => undo = {})

Suppressed ==
  proc.at \in {"ready", "up"} /\ undo # {} =>
    proc.pool \subseteq Present(proc.tool) \/ All \in Present(proc.tool)
SeldomTwice == \A r \in Rule : rules["iptables"][r] <= 1 + faults

RulesInv == RulesTyped /\ OwedIsListed /\ Listed /\ Suppressed /\ SeldomTwice

LEMMA NothingThere ==
  /\ NoRules \in [Rule -> Nat] /\ \A r \in Rule : NoRules[r] = 0
  /\ [t \in Tools |-> NoRules] \in Copies
BY DEF NoRules, Copies

\* What nft's commands do to a table, and a failed one to the account.
LEMMA TableEmptied ==
  ASSUME RulesTyped, Emptied \/ StaysFull
  PROVE  /\ rules' \in Copies /\ faults' \in Nat /\ faults <= faults'
         /\ \A q \in Rule : rules'["iptables"][q] = rules["iptables"][q]
         /\ \A q \in Rule : rules'["nft"][q] <= rules["nft"][q]
<1>1. \A t \in Tools, q \in Rule : rules[t][q] \in Nat
  BY DEF RulesTyped, Copies
<1>2. CASE Emptied
  <2>1. /\ rules' \in Copies /\ \A q \in Rule : rules'["nft"][q] = 0
        /\ \A q \in Rule : rules'["iptables"][q] = rules["iptables"][q]
    BY <1>2, NothingThere DEF Emptied, RulesTyped, Copies, Tools
  <2>q. QED
    BY <1>1, <1>2, <2>1 DEF Emptied, RulesTyped, Tools
<1>3. CASE StaysFull
  BY <1>1, <1>3 DEF StaysFull, Fault, RulesTyped, Tools
<1>q. QED
  BY <1>2, <1>3

LEMMA TableLeft ==
  ASSUME RulesTyped, TableGoes
  PROVE  /\ rules' \in Copies /\ stuck' \in Copies /\ faults' \in Nat /\ faults <= faults'
         /\ \A q \in Rule : /\ rules'["iptables"][q] = rules["iptables"][q]
                            /\ stuck'["iptables"][q] = stuck["iptables"][q]
                            /\ rules'["nft"][q] <= stuck'["nft"][q]
<1>1. /\ \A t \in Tools, q \in Rule : rules[t][q] \in Nat /\ stuck[t][q] \in Nat
      /\ rules["nft"] \in [Rule -> Nat] /\ rules \in Copies /\ stuck \in Copies
  BY DEF RulesTyped, Copies, Tools
<1>2. CASE Emptied /\ UNCHANGED stuck
  <2>1. /\ rules' \in Copies /\ \A q \in Rule : rules'["nft"][q] = 0
        /\ \A q \in Rule : rules'["iptables"][q] = rules["iptables"][q]
    BY <1>1, <1>2, NothingThere DEF Emptied, Copies, Tools
  <2>q. QED
    BY <1>1, <1>2, <2>1 DEF Emptied, RulesTyped, Tools
<1>3. CASE StaysFull /\ stuck' = [stuck EXCEPT !["nft"] = rules["nft"]]
  <2>1. /\ stuck' \in Copies /\ \A q \in Rule : stuck'["nft"][q] = rules["nft"][q]
        /\ \A q \in Rule : stuck'["iptables"][q] = stuck["iptables"][q]
    BY <1>1, <1>3 DEF Copies, Tools
  <2>q. QED
    BY <1>1, <1>3, <2>1 DEF StaysFull, Fault, RulesTyped, Tools
<1>q. QED
  BY <1>2, <1>3 DEF TableGoes

(* iptables: rules go in, or what went in is taken back.                   *)
LEMMA AddRuleStep ==
  ASSUME RulesInv, AddRule
  PROVE  RulesInv'
<1>1. /\ proc.at = "add" /\ proc.tool = "iptables" /\ UNCHANGED <<installed, undo, found, stuck>>
      /\ AddFails \/ \E r \in todo : Ensure(r)
  BY DEF AddRule
<1>2. /\ proc \in [at : RulePlaces, tool : Tools \union {"none"}, pool : SUBSET Rule]
      /\ rules \in Copies /\ faults \in Nat /\ "iptables" \in Tools /\ "nft" \in Tools
      /\ \A t \in Tools, q \in Rule :
           rules[t][q] \in Nat /\ found[t][q] \in Nat /\ stuck[t][q] \in Nat
  BY DEF RulesInv, RulesTyped, Tools, Copies
<1>3. /\ done \union todo \subseteq Asked /\ Asked \subseteq Present("iptables") \union todo
      /\ done \intersect todo = {} /\ undo \in {{}, {All}}
  BY <1>1 DEF RulesInv, Listed
<1>4. \A q \in Rule : /\ rules["nft"][q] <= found["nft"][q] + stuck["nft"][q]
                      /\ rules["iptables"][q] <= found["iptables"][q] + stuck["iptables"][q]
                                                 + (IF q \in done THEN 1 ELSE 0)
  BY <1>1, <1>2 DEF RulesInv, OwedIsListed, Owes
<1>5. CASE AddFails
  <2>1. /\ proc' = [proc EXCEPT !.tool = "iptables", !.at = "rollback"] /\ todo' = done
        /\ UNCHANGED <<rules, done>> /\ faults' = faults + 1
    BY <1>5 DEF AddFails, Fault, Enter
  <2>2. proc'.at = "rollback" /\ proc'.tool = "iptables"
    BY <2>1, <1>2
  <2>3. RulesTyped'
    <3>1. proc' \in [at : RulePlaces, tool : Tools \union {"none"}, pool : SUBSET Rule]
      BY <2>1, <1>2 DEF Tools, RulePlaces
    <3>2. faults' \in Nat /\ rules' = rules
      BY <2>1, <1>2
    <3>q. QED
      BY <2>1, <3>1, <3>2, <1>1 DEF RulesInv, RulesTyped
  <2>4. OwedIsListed'
    BY <2>1, <2>2, <1>1, <1>2, <1>4 DEF OwedIsListed, Owes, Tools
  <2>5. Listed' /\ Suppressed'
    BY <2>1, <2>2, <1>1, <1>3 DEF Listed, Suppressed
  <2>6. SeldomTwice'
    BY <2>1, <1>2 DEF RulesInv, SeldomTwice
  <2>q. QED
    BY <2>3, <2>4, <2>5, <2>6 DEF RulesInv
<1>6. ASSUME NEW r \in todo, Ensure(r)
      PROVE  RulesInv'
  <2>1. /\ proc' = [proc EXCEPT !.tool = "iptables", !.at = "add"] /\ todo' = todo \ {r}
        /\ r \in Rule /\ r \notin done
    BY <1>6, <1>3 DEF Ensure, Enter, RulesInv, RulesTyped
  <2>2. proc'.at = "add" /\ proc'.tool = "iptables" /\ proc'.pool = proc.pool
    BY <2>1, <1>2
  <2>3. /\ rules' \in Copies /\ faults' \in Nat /\ done' \subseteq done \union {r} /\ done \subseteq done'
        /\ \A q \in Rule : /\ rules'["nft"][q] = rules["nft"][q]
                           /\ q # r => rules'["iptables"][q] = rules["iptables"][q]
        /\ rules["iptables"][r] <= rules'["iptables"][r] /\ rules'["iptables"][r] > 0
        /\ rules'["iptables"][r] <= rules["iptables"][r] + (IF r \in done' THEN 1 ELSE 0)
        /\ faults <= faults' /\ rules'["iptables"][r] <= 1 + faults'
    <3>1. CASE rules["iptables"][r] > 0 /\ UNCHANGED <<rules, done, faults>>
      BY <3>1, <2>1, <1>2 DEF RulesInv, SeldomTwice
    <3>2. CASE /\ Put(r) /\ done' = done \union {r}
               /\ IF rules["iptables"][r] > 0 THEN Fault ELSE UNCHANGED faults
      <4>1. /\ rules' \in Copies
            /\ \A u \in Tools, q \in Rule :
                 rules'[u][q] = IF u = "iptables" /\ q = r THEN rules[u][q] + 1 ELSE rules[u][q]
        BY <3>2, <1>1, <1>2, <2>1 DEF Put, Copies, Tools
      <4>2. /\ faults' \in Nat /\ faults <= faults'
            /\ rules["iptables"][r] > 0 => faults' = faults + 1
        BY <3>2, <1>2 DEF Fault
      <4>3. rules["iptables"][r] <= 1 + faults
        BY <2>1 DEF RulesInv, SeldomTwice
      <4>q. QED
        BY <3>2, <4>1, <4>2, <4>3, <2>1, <1>2
    <3>q. QED
      BY <3>1, <3>2, <1>6 DEF Ensure
  <2>4. RulesTyped'
    BY <2>1, <2>3, <1>1, <1>2 DEF RulesInv, RulesTyped, Tools, RulePlaces
  <2>5. OwedIsListed'
    BY <2>1, <2>2, <2>3, <1>1, <1>2, <1>4 DEF OwedIsListed, Owes, Tools, Copies
  <2>6. Asked' = Asked
    BY <2>2, <1>1 DEF Asked
  <2>7. Asked \subseteq Present("iptables")' \union todo'
    <3> SUFFICES ASSUME NEW q \in Asked, q \notin todo' PROVE q \in Present("iptables")'
      OBVIOUS
    <3>1. q \in Rule /\ (q = r \/ q \in Present("iptables"))
      BY <2>1, <1>3 DEF Present
    <3>q. QED
      BY <3>1, <2>3 DEF Present
  <2>8. done' \union todo' \subseteq Asked /\ done' \intersect todo' = {}
    BY <2>1, <2>3, <1>3
  <2>9. Listed' /\ Suppressed'
    BY <2>2, <2>6, <2>7, <2>8, <1>1, <1>3 DEF Listed, Suppressed, Tools
  <2>10. SeldomTwice'
    BY <2>3, <1>2 DEF RulesInv, SeldomTwice
  <2>q. QED
    BY <2>4, <2>5, <2>9, <2>10 DEF RulesInv
<1>q. QED
  BY <1>1, <1>5, <1>6

\* One rule is taken down, at the rollback or at the end.
LEMMA TakenBackStep ==
  ASSUME RulesInv, NEW r \in todo, TakenBack(r), proc.tool = "iptables",
         proc.at \in {"rollback", "stop"}, UNCHANGED <<installed, proc, done, undo, found>>
  PROVE  RulesInv'
<1>1. /\ todo' = todo \ {r} /\ r \in Rule /\ rules \in Copies /\ stuck \in Copies /\ faults \in Nat
      /\ "iptables" \in Tools /\ "nft" \in Tools
      /\ \A t \in Tools, q \in Rule :
           rules[t][q] \in Nat /\ found[t][q] \in Nat /\ stuck[t][q] \in Nat
  BY DEF TakenBack, RulesInv, RulesTyped, Tools, Copies
<1>2. \A q \in Rule : /\ rules["nft"][q] <= found["nft"][q] + stuck["nft"][q]
                      /\ rules["iptables"][q] <= found["iptables"][q] + stuck["iptables"][q]
                                                 + (IF q \in todo THEN 1 ELSE 0)
  BY <1>1 DEF RulesInv, OwedIsListed, Owes
<1>3. /\ rules' \in Copies /\ stuck' \in Copies /\ faults' \in Nat /\ faults <= faults'
      /\ \A q \in Rule : /\ rules'["nft"][q] = rules["nft"][q] /\ stuck'["nft"][q] = stuck["nft"][q]
                         /\ q # r => /\ rules'["iptables"][q] = rules["iptables"][q]
                                     /\ stuck'["iptables"][q] = stuck["iptables"][q]
      /\ rules'["iptables"][r] <= rules["iptables"][r]
      /\ rules'["iptables"][r] <= found["iptables"][r] + stuck'["iptables"][r]
  <2>1. CASE ~(rules["iptables"][r] > 0) /\ UNCHANGED <<rules, faults, stuck>>
    BY <2>1, <1>1
  <2>2. CASE /\ rules["iptables"][r] > 0 /\ UNCHANGED <<faults, stuck>>
             /\ rules' = [rules EXCEPT !["iptables"][r] = @ - 1]
    <3>1. /\ rules' \in Copies
          /\ \A u \in Tools, q \in Rule :
               rules'[u][q] = IF u = "iptables" /\ q = r THEN rules[u][q] - 1 ELSE rules[u][q]
      BY <2>2, <1>1 DEF Copies, Tools
    <3>q. QED
      BY <2>2, <3>1, <1>1, <1>2
  <2>3. CASE /\ Fault /\ UNCHANGED rules
             /\ stuck' = [stuck EXCEPT !["iptables"][r] = @ + 1]
    <3>1. /\ stuck' \in Copies
          /\ \A u \in Tools, q \in Rule :
               stuck'[u][q] = IF u = "iptables" /\ q = r THEN stuck[u][q] + 1 ELSE stuck[u][q]
      BY <2>3, <1>1 DEF Copies, Tools
    <3>q. QED
      BY <2>3, <3>1, <1>1, <1>2 DEF Fault
  <2>q. QED
    BY <2>1, <2>2, <2>3 DEF TakenBack
<1>4. RulesTyped'
  BY <1>1, <1>3 DEF RulesInv, RulesTyped
<1>5. OwedIsListed'
  <2>1. \A q \in Rule : /\ Owes("nft", q)' = 0
                        /\ Owes("iptables", q)' = IF q \in todo' THEN 1 ELSE 0
    BY <1>1 DEF Owes
  <2>2. \A q \in Rule : rules'["nft"][q] <= found'["nft"][q] + stuck'["nft"][q]
    BY <1>1, <1>2, <1>3
  <2>3. ASSUME NEW q \in Rule
        PROVE  rules'["iptables"][q] <=
                 found'["iptables"][q] + stuck'["iptables"][q] + (IF q \in todo' THEN 1 ELSE 0)
    <3>1. found'["iptables"][q] \in Nat /\ stuck'["iptables"][q] \in Nat
      BY <1>1, <1>3 DEF Copies
    <3>2. CASE q = r
      BY <3>1, <3>2, <1>1, <1>3
    <3>3. CASE q # r
      BY <3>3, <1>1, <1>2, <1>3
    <3>q. QED
      BY <3>2, <3>3
  <2>4. \A q \in Rule : found'["nft"][q] \in Nat /\ stuck'["nft"][q] \in Nat
    BY <1>1, <1>3 DEF Copies
  <2>q. QED
    BY <2>1, <2>2, <2>3, <2>4 DEF OwedIsListed, Tools
<1>6. Listed' /\ Suppressed'
  BY <1>1 DEF RulesInv, Listed, Suppressed
<1>7. SeldomTwice'
  <2> SUFFICES ASSUME NEW q \in Rule PROVE rules'["iptables"][q] <= 1 + faults'
    BY DEF SeldomTwice
  <2>1. rules["iptables"][q] <= 1 + faults /\ rules'["iptables"][q] <= rules["iptables"][q]
    BY <1>1, <1>3 DEF RulesInv, SeldomTwice
  <2>2. rules'["iptables"][q] \in Nat /\ rules["iptables"][q] \in Nat
    BY <1>1, <1>3 DEF Copies
  <2>q. QED
    BY <2>1, <2>2, <1>1, <1>3
<1>q. QED
  BY <1>4, <1>5, <1>6, <1>7 DEF RulesInv

LEMMA RollbackStep ==
  ASSUME RulesInv, Rollback \/ RolledBack
  PROVE  RulesInv'
<1>1. proc.at = "rollback" /\ proc.tool = "iptables"
  BY DEF Rollback, RolledBack, RulesInv, Listed
<1>2. CASE Rollback
  BY <1>1, <1>2, TakenBackStep DEF Rollback
<1>3. CASE RolledBack
  <2>1. /\ todo = {} /\ done' = {} /\ UNCHANGED <<rules, installed, faults, found, stuck>>
        /\ undo' \in {{}, {All}}
        /\ \A t \in Tools, q \in Rule : rules[t][q] <= found[t][q] + stuck[t][q]
    <3>1. todo = {} /\ done' = {} /\ UNCHANGED <<rules, installed, faults, found, stuck>>
      BY <1>3 DEF RolledBack
    <3>2. \A t \in Tools, q \in Rule :
            rules[t][q] \in Nat /\ found[t][q] \in Nat /\ stuck[t][q] \in Nat
      BY DEF RulesInv, RulesTyped, Copies
    <3>q. QED
      BY <1>1, <1>3, <3>1, <3>2 DEF RolledBack, RulesInv, OwedIsListed, Owes, Tools
  <2>2. proc.pool \subseteq Rule /\ All \in Rule
    BY DEF RulesInv, RulesTyped, Rule
  <2>3. \/ /\ proc' = [proc EXCEPT !.tool = "iptables", !.at = "add"]
           /\ todo' = {All} /\ undo' = {All}
        \/ proc' = [proc EXCEPT !.tool = "nft", !.at = "clear"] /\ todo' = proc.pool /\ undo' = {}
        \/ proc' = [proc EXCEPT !.tool = "none", !.at = "ready"] /\ todo' = {} /\ undo' = {}
    BY <1>3 DEF RolledBack, Enter
  <2>4. RulesTyped'
    BY <2>1, <2>2, <2>3 DEF RulesInv, RulesTyped, Tools, RulePlaces
  <2>5. \A t \in Tools, q \in Rule : Owes(t, q)' = 0
    BY <2>1, <2>3 DEF RulesInv, RulesTyped, Owes, Tools
  <2>6. OwedIsListed'
    <3>1. \A t \in Tools, q \in Rule :
            rules[t][q] \in Nat /\ found[t][q] \in Nat /\ stuck[t][q] \in Nat
      BY DEF RulesInv, RulesTyped, Copies
    <3>q. QED
      BY <2>1, <2>5, <3>1 DEF OwedIsListed
  <2>7. Listed' /\ Suppressed'
    BY <2>1, <2>3 DEF RulesInv, RulesTyped, Listed, Suppressed, Asked, Tools
  <2>q. QED
    BY <2>1, <2>4, <2>6, <2>7 DEF RulesInv, SeldomTwice
<1>q. QED
  BY <1>2, <1>3

(* nft: the table is cleared, made and filled.                             *)
LEMMA TableStep ==
  ASSUME RulesInv, ClearTable \/ MakeTable \/ AddToTable \/ FlushChain \/ DropTable
  PROVE  RulesInv'
<1>1. /\ proc.tool = "nft" /\ undo = {} /\ done = {}
      /\ proc.at \in {"clear", "make", "add", "flush", "drop"}
      /\ UNCHANGED <<installed, done, undo, found>>
  BY DEF ClearTable, MakeTable, AddToTable, FlushChain, DropTable, RulesInv, Listed
<1>2. /\ proc \in [at : RulePlaces, tool : Tools \union {"none"}, pool : SUBSET Rule]
      /\ rules \in Copies /\ stuck \in Copies /\ faults \in Nat /\ All \in Rule
      /\ "iptables" \in Tools /\ "nft" \in Tools
      /\ \A t \in Tools, q \in Rule :
           rules[t][q] \in Nat /\ found[t][q] \in Nat /\ stuck[t][q] \in Nat
  BY DEF RulesInv, RulesTyped, Tools, Copies, Rule
<1>3. \A q \in Rule : rules["iptables"][q] <= found["iptables"][q] + stuck["iptables"][q]
  BY <1>1, <1>2 DEF RulesInv, OwedIsListed, Owes
\* While the process is at its table, all of it is its to remove, or as it was found.
<1>4. ASSUME rules' \in Copies, stuck' \in Copies, faults' \in Nat, faults <= faults',
             todo' \subseteq Rule,
             \A q \in Rule : /\ rules'["iptables"][q] = rules["iptables"][q]
                             /\ stuck'["iptables"][q] = stuck["iptables"][q],
             \/ /\ proc' = [proc EXCEPT !.tool = "nft", !.at = "make"] /\ todo' = proc.pool
                /\ \A q \in Rule : rules'["nft"][q] <= found["nft"][q] + stuck'["nft"][q]
             \/ /\ proc' = [proc EXCEPT !.tool = "nft", !.at = "add"]
                /\ \/ proc.pool \subseteq Present("nft")' \union todo'
                   \/ All \in Present("nft")' \union todo'
             \/ proc' = [proc EXCEPT !.tool = "nft", !.at = "flush"] /\ todo' = {All}
             \/ proc' = [proc EXCEPT !.tool = "nft", !.at = "drop"]
             \/ /\ proc' = [proc EXCEPT !.tool = "none", !.at = "ready"]
                /\ \A q \in Rule : rules'["nft"][q] <= found["nft"][q] + stuck'["nft"][q]
      PROVE  RulesInv'
  <2>1. /\ proc'.pool = proc.pool
        /\ \/ proc'.tool = "nft" /\ proc'.at \in {"make", "add", "flush", "drop"}
           \/ proc'.tool = "none" /\ proc'.at = "ready"
        /\ proc' \in [at : RulePlaces, tool : Tools \union {"none"}, pool : SUBSET Rule]
    BY <1>2, <1>4 DEF Tools, RulePlaces
  <2>2. RulesTyped'
    BY <1>1, <1>4, <2>1 DEF RulesInv, RulesTyped
  <2>3. \A t \in Tools, q \in Rule :
          rules'[t][q] \in Nat /\ found'[t][q] \in Nat /\ stuck'[t][q] \in Nat
    BY <1>1, <1>2, <1>4 DEF Copies
  <2>4. \A q \in Rule :
          /\ rules'["iptables"][q] <= found'["iptables"][q] + stuck'["iptables"][q]
          /\ proc'.at \in {"make", "ready"} =>
               rules'["nft"][q] <= found'["nft"][q] + stuck'["nft"][q]
    BY <1>1, <1>2, <1>3, <1>4, <2>1
  <2>5. \A q \in Rule :
          /\ Owes("iptables", q)' = 0 /\ Owes("nft", q)' \in Nat
          /\ proc'.at \in {"add", "flush", "drop"} => Owes("nft", q)' = rules'["nft"][q]
    BY <1>1, <2>1, <2>3 DEF Owes, Tools
  <2>6. OwedIsListed'
    <3>1. \A q \in Rule :
            rules'["iptables"][q] <= found'["iptables"][q] + stuck'["iptables"][q] + Owes("iptables", q)'
      BY <2>3, <2>4, <2>5 DEF Tools
    <3>2. \A q \in Rule :
            rules'["nft"][q] <= found'["nft"][q] + stuck'["nft"][q] + Owes("nft", q)'
      BY <2>1, <2>3, <2>4, <2>5 DEF Tools
    <3>q. QED
      BY <3>1, <3>2 DEF OwedIsListed, Tools
  <2>7. Listed' /\ Suppressed'
    BY <1>1, <1>2, <1>4, <2>1 DEF Listed, Suppressed, Tools
  <2>8. SeldomTwice'
    <3> SUFFICES ASSUME NEW q \in Rule PROVE rules'["iptables"][q] <= 1 + faults'
      BY DEF SeldomTwice
    <3>1. rules["iptables"][q] <= 1 + faults /\ rules["iptables"][q] \in Nat
      BY <1>2 DEF RulesInv, SeldomTwice
    <3>q. QED
      BY <3>1, <1>2, <1>4
  <2>q. QED
    BY <2>2, <2>6, <2>7, <2>8 DEF RulesInv
<1>5. CASE ClearTable
  <2>1. /\ proc.at = "clear" /\ proc' = [proc EXCEPT !.tool = "nft", !.at = "make"]
        /\ Emptied \/ StaysFull
        /\ UNCHANGED <<todo, stuck>>
    BY <1>5 DEF ClearTable, Enter
  <2>2. \A q \in Rule : rules["nft"][q] <= found["nft"][q] + stuck["nft"][q]
    BY <1>1, <1>2, <2>1 DEF RulesInv, OwedIsListed, Owes
  <2>3. todo = proc.pool /\ todo \subseteq Rule
    BY <2>1 DEF RulesInv, RulesTyped, Listed
  <2>4. /\ rules' \in Copies /\ faults' \in Nat /\ faults <= faults'
        /\ \A q \in Rule : rules'["iptables"][q] = rules["iptables"][q]
        /\ \A q \in Rule : rules'["nft"][q] <= rules["nft"][q]
    BY <2>1, TableEmptied DEF RulesInv
  <2>5. \A q \in Rule : rules'["nft"][q] <= found["nft"][q] + stuck'["nft"][q]
    <3>1. \A q \in Rule : rules'["nft"][q] \in Nat
      BY <2>4, <1>2 DEF Copies
    <3>q. QED
      BY <2>1, <2>2, <2>4, <3>1, <1>2
  <2>q. QED
    BY <1>2, <1>4, <2>1, <2>3, <2>4, <2>5
<1>6. CASE MakeTable
  <2>1. /\ proc.at = "make" /\ UNCHANGED <<rules, stuck>> /\ faults' \in Nat /\ faults <= faults'
        /\ \/ proc' = [proc EXCEPT !.tool = "nft", !.at = "add"] /\ UNCHANGED todo
           \/ proc' = [proc EXCEPT !.tool = "none", !.at = "ready"] /\ todo' = {}
           \/ proc' = [proc EXCEPT !.tool = "nft", !.at = "drop"] /\ UNCHANGED todo
    BY <1>2, <1>6 DEF MakeTable, Enter, Fault
  <2>2. \A q \in Rule : rules["nft"][q] <= found["nft"][q] + stuck["nft"][q]
    BY <1>1, <1>2, <2>1 DEF RulesInv, OwedIsListed, Owes
  <2>3. todo = proc.pool /\ todo \subseteq Rule
    BY <2>1 DEF RulesInv, RulesTyped, Listed
  <2>q. QED
    BY <1>2, <1>4, <2>1, <2>2, <2>3
<1>7. CASE AddToTable
  <2>1. PICK r \in todo :
          \/ Put(r) /\ todo' = todo \ {r} /\ UNCHANGED <<proc, faults>>
          \/ /\ Fault /\ UNCHANGED rules
             /\ IF r = All THEN Enter("nft", "drop") /\ UNCHANGED todo
                           ELSE Enter("nft", "flush") /\ todo' = {All}
    BY <1>7 DEF AddToTable
  <2>2. proc.at = "add" /\ UNCHANGED stuck /\ todo \subseteq Rule
        /\ (proc.pool \subseteq Present("nft") \union todo \/ All \in Present("nft") \union todo)
    BY <1>1, <1>7 DEF AddToTable, RulesInv, RulesTyped, Listed
  <2>3. CASE Put(r) /\ todo' = todo \ {r} /\ UNCHANGED <<proc, faults>>
    <3>1. /\ rules' \in Copies
          /\ \A u \in Tools, q \in Rule :
               rules'[u][q] = IF u = "nft" /\ q = r THEN rules[u][q] + 1 ELSE rules[u][q]
      BY <2>2, <2>3, <1>1, <1>2 DEF Put, Copies, Tools
    <3>2. Present("nft") \union todo \subseteq Present("nft")' \union todo'
      <4> SUFFICES ASSUME NEW q \in Present("nft") \union todo, q \notin todo'
                   PROVE  q \in Present("nft")'
        OBVIOUS
      <4>1. q \in Rule /\ (q = r \/ q \in Present("nft"))
        BY <2>2, <2>3 DEF Present
      <4>2. rules'["nft"][q] = IF q = r THEN rules["nft"][q] + 1 ELSE rules["nft"][q]
        BY <3>1, <4>1, <1>2
      <4>q. QED
        BY <4>1, <4>2, <1>2 DEF Present
    <3>3. proc' = [proc EXCEPT !.tool = "nft", !.at = "add"]
      BY <2>2, <2>3, <1>1, <1>2
    <3>4. proc.pool \subseteq Present("nft")' \union todo' \/ All \in Present("nft")' \union todo'
      BY <2>2, <3>2
    <3>q. QED
      BY <1>2, <1>4, <2>2, <2>3, <3>1, <3>3, <3>4
  <2>4. CASE /\ Fault /\ UNCHANGED rules
             /\ IF r = All THEN Enter("nft", "drop") /\ UNCHANGED todo
                           ELSE Enter("nft", "flush") /\ todo' = {All}
    <3>1. faults' \in Nat /\ faults <= faults'
      BY <2>4, <1>2 DEF Fault
    <3>q. QED
      BY <1>2, <1>4, <2>2, <2>4, <3>1 DEF Enter
  <2>q. QED
    BY <2>1, <2>3, <2>4
<1>8. CASE FlushChain
  <2>1. /\ proc.at = "flush" /\ proc' = [proc EXCEPT !.tool = "nft", !.at = "add"]
        /\ Emptied \/ StaysFull
        /\ UNCHANGED <<todo, stuck>>
    BY <1>8 DEF FlushChain, Enter
  <2>2. todo = {All}
    BY <2>1 DEF RulesInv, Listed
  <2>3. /\ rules' \in Copies /\ faults' \in Nat /\ faults <= faults'
        /\ \A q \in Rule : rules'["iptables"][q] = rules["iptables"][q]
    BY <2>1, TableEmptied DEF RulesInv
  <2>q. QED
    BY <1>2, <1>4, <2>1, <2>2, <2>3
<1>9. CASE DropTable
  <2>1. proc' = [proc EXCEPT !.tool = "none", !.at = "ready"] /\ todo' = {} /\ TableGoes
    BY <1>9 DEF DropTable, Enter
  <2>2. /\ rules' \in Copies /\ stuck' \in Copies /\ faults' \in Nat /\ faults <= faults'
        /\ \A q \in Rule : /\ rules'["iptables"][q] = rules["iptables"][q]
                           /\ stuck'["iptables"][q] = stuck["iptables"][q]
                           /\ rules'["nft"][q] <= stuck'["nft"][q]
    BY <2>1, TableLeft DEF RulesInv
  <2>3. \A q \in Rule : rules'["nft"][q] <= found["nft"][q] + stuck'["nft"][q]
    <3>1. \A q \in Rule : rules'["nft"][q] \in Nat /\ stuck'["nft"][q] \in Nat
      BY <2>2, <1>2 DEF Copies
    <3>q. QED
      BY <2>2, <3>1, <1>2
  <2>q. QED
    BY <1>4, <2>1, <2>2, <2>3
<1>q. QED
  BY <1>5, <1>6, <1>7, <1>8, <1>9

(* The other steps of the process: it starts, comes up, takes its rules    *)
(* down, ends.                                                             *)
LEMMA OtherRulesStep ==
  ASSUME RulesInv,
         \/ \E pool \in Pools : Start(pool)
         \/ UndoReady \/ HandlerSet \/ Signalled \/ Undo \/ Exited \/ Died
  PROVE  RulesInv'
<1>0. /\ proc \in [at : RulePlaces, tool : Tools \union {"none"}, pool : SUBSET Rule]
      /\ rules \in Copies /\ found \in Copies /\ stuck \in Copies /\ faults \in Nat
      /\ "iptables" \in Tools /\ "nft" \in Tools
      /\ \A t \in Tools, q \in Rule :
           rules[t][q] \in Nat /\ found[t][q] \in Nat /\ stuck[t][q] \in Nat
  BY DEF RulesInv, RulesTyped, Tools, Copies
\* A run begins, or dies: what is there is what was found.
<1>1. ASSUME rules' = rules, found' = rules, stuck' = [t \in Tools |-> NoRules],
             \A t \in Tools, q \in Rule : Owes(t, q)' = 0
      PROVE  OwedIsListed' /\ stuck' \in Copies
  <2>1. stuck' \in Copies /\ \A t \in Tools, q \in Rule : stuck'[t][q] = 0
    BY <1>1, NothingThere
  <2>q. QED
    BY <1>0, <1>1, <2>1 DEF OwedIsListed
<1>2. ASSUME NEW pool \in Pools, Start(pool) PROVE RulesInv'
  <2>1. /\ UNCHANGED <<rules, installed, faults>> /\ done' = {} /\ undo' = {}
        /\ found' = rules /\ stuck' = [t \in Tools |-> NoRules] /\ pool \subseteq Rule
        /\ \/ /\ proc' = [at |-> "ready", tool |-> "none", pool |-> pool] /\ todo' = {}
           \/ /\ "iptables" \in installed
              /\ proc' = [at |-> "add", tool |-> "iptables", pool |-> pool] /\ todo' = pool
           \/ proc' = [at |-> "clear", tool |-> "nft", pool |-> pool] /\ todo' = pool
    BY <1>2 DEF Start, Rule
  <2>2. \A t \in Tools, q \in Rule : Owes(t, q)' = 0
    BY <2>1 DEF Owes, Tools
  <2>3. OwedIsListed' /\ stuck' \in Copies
    BY <1>1, <2>1, <2>2
  <2>4. RulesTyped'
    BY <2>1, <2>3 DEF RulesInv, RulesTyped, RulePlaces, Tools
  <2>5. Listed' /\ Suppressed' /\ SeldomTwice'
    BY <2>1 DEF RulesInv, Listed, Suppressed, SeldomTwice, Asked, Tools
  <2>q. QED
    BY <2>3, <2>4, <2>5 DEF RulesInv
<1>3. CASE UndoReady
  <2>1. /\ proc.at = "add" /\ todo = {} /\ done' = {} /\ proc' = [proc EXCEPT !.at = "ready"]
        /\ undo' = (IF proc.tool = "nft" THEN Present("nft") ELSE Asked)
        /\ UNCHANGED <<rules, installed, todo, faults, found, stuck>>
    BY <1>3, <1>0 DEF UndoReady, Enter, Asked
  <2>2. /\ proc'.at = "ready" /\ proc'.tool = proc.tool /\ proc'.pool = proc.pool
        /\ proc.tool \in Tools /\ proc' \in [at : RulePlaces, tool : Tools \union {"none"}, pool : SUBSET Rule]
    BY <2>1, <1>0 DEF RulesInv, Listed, RulePlaces
  <2>3. RulesTyped'
    BY <2>1, <2>2 DEF RulesInv, RulesTyped, Present, Asked
  <2>4. CASE proc.tool = "iptables"
    <3>1. /\ done \subseteq undo' /\ undo' \subseteq Present("iptables")
          /\ undo' = proc.pool \/ undo' = {All}
      BY <2>1, <2>4 DEF RulesInv, Listed, Asked
    <3>2. Listed' /\ Suppressed'
      BY <2>1, <2>2, <2>4, <3>1 DEF Listed, Suppressed, Present
    <3>3. ASSUME NEW q \in Rule
          PROVE  /\ Owes("iptables", q) <= Owes("iptables", q)' /\ Owes("nft", q)' = Owes("nft", q)
                 /\ Owes("iptables", q) \in Nat /\ Owes("iptables", q)' \in Nat /\ Owes("nft", q) = 0
      BY <2>1, <2>2, <2>4, <3>1 DEF Owes
    <3>4. OwedIsListed'
      BY <2>1, <3>3, <1>0 DEF RulesInv, OwedIsListed, Tools
    <3>q. QED
      BY <2>1, <2>3, <3>2, <3>4 DEF RulesInv, SeldomTwice
  <2>5. CASE proc.tool = "nft"
    <3>1. proc.pool \subseteq Present("nft") \/ All \in Present("nft")
      BY <2>1, <2>5 DEF RulesInv, Listed
    <3>2. Listed' /\ Suppressed'
      BY <2>1, <2>2, <2>5, <3>1 DEF Listed, Suppressed, Present
    <3>3. ASSUME NEW q \in Rule
          PROVE  /\ Owes("nft", q)' = (IF undo' = {} THEN 0 ELSE rules["nft"][q])
                 /\ Owes("iptables", q) = 0 /\ Owes("iptables", q)' = 0
      BY <2>1, <2>2, <2>5 DEF Owes
    <3>4. ASSUME NEW q \in Rule
          PROVE  rules["nft"][q] <= found["nft"][q] + stuck["nft"][q] + Owes("nft", q)'
      <4>1. undo' = {} => rules["nft"][q] = 0
        BY <2>1, <2>5, <1>0 DEF Present
      <4>q. QED
        BY <4>1, <3>3, <1>0
    <3>5. \A q \in Rule : rules["iptables"][q] <= found["iptables"][q] + stuck["iptables"][q] + Owes("iptables", q)'
      BY <3>3, <1>0 DEF RulesInv, OwedIsListed
    <3>6. OwedIsListed'
      BY <2>1, <3>4, <3>5 DEF OwedIsListed, Tools
    <3>q. QED
      BY <2>1, <2>3, <3>2, <3>6 DEF RulesInv, SeldomTwice
  <2>q. QED
    BY <2>2, <2>4, <2>5 DEF Tools
<1>4. CASE HandlerSet \/ Signalled
  <2>1. /\ UNCHANGED <<rules, installed, done, undo, faults, found, stuck>>
        /\ \/ /\ proc.at = "ready" /\ proc' = [proc EXCEPT !.at = "up"] /\ todo' = todo
           \/ /\ proc.at = "up" /\ proc' = [proc EXCEPT !.at = "stop"] /\ todo' = undo
    BY <1>4, <1>0 DEF HandlerSet, Signalled, Enter
  <2>2. /\ proc'.tool = proc.tool /\ proc'.pool = proc.pool /\ proc'.at \in {"up", "stop"}
        /\ proc'.at = "stop" => todo' = undo
        /\ proc' \in [at : RulePlaces, tool : Tools \union {"none"}, pool : SUBSET Rule]
    BY <2>1, <1>0 DEF RulePlaces
  <2>3. \A t \in Tools, q \in Rule : Owes(t, q)' = Owes(t, q)
    BY <2>1, <2>2 DEF Owes
  <2>4. RulesTyped'
    BY <2>1, <2>2 DEF RulesInv, RulesTyped
  <2>5. OwedIsListed' /\ SeldomTwice'
    BY <2>1, <2>3 DEF RulesInv, OwedIsListed, SeldomTwice
  <2>6. Listed' /\ Suppressed'
    BY <2>1, <2>2 DEF RulesInv, Listed, Suppressed, Present
  <2>q. QED
    BY <2>4, <2>5, <2>6 DEF RulesInv
<1>5. CASE Undo
  <2>1. CASE proc.tool = "iptables" /\ \E r \in todo : TakenBack(r)
    BY <1>5, <2>1, TakenBackStep DEF Undo
  <2>2. CASE proc.tool = "nft" /\ todo' = {} /\ TableGoes
    <3>1. proc.at = "stop" /\ UNCHANGED <<installed, proc, done, undo, found>>
      BY <1>5 DEF Undo
    <3>2. /\ rules' \in Copies /\ stuck' \in Copies /\ faults' \in Nat /\ faults <= faults'
          /\ \A q \in Rule : /\ rules'["iptables"][q] = rules["iptables"][q]
                             /\ stuck'["iptables"][q] = stuck["iptables"][q]
                             /\ rules'["nft"][q] <= stuck'["nft"][q]
      BY <2>2, TableLeft DEF RulesInv
    <3>3. RulesTyped'
      BY <2>2, <3>1, <3>2 DEF RulesInv, RulesTyped
    <3>4. \A q \in Rule : /\ Owes("iptables", q) = 0
                          /\ Owes("iptables", q)' = 0 /\ Owes("nft", q)' = 0
      BY <2>2, <3>1 DEF Owes
    <3>5. \A q \in Rule : rules'["iptables"][q] <= found'["iptables"][q] + stuck'["iptables"][q]
      BY <3>1, <3>2, <3>4, <1>0 DEF RulesInv, OwedIsListed
    <3>6. \A q \in Rule : /\ rules'["iptables"][q] \in Nat /\ rules'["nft"][q] \in Nat
                          /\ stuck'["iptables"][q] \in Nat /\ stuck'["nft"][q] \in Nat
                          /\ found'["iptables"][q] \in Nat /\ found'["nft"][q] \in Nat
      BY <1>0, <3>1, <3>2 DEF Copies
    <3>7. OwedIsListed'
      BY <3>2, <3>4, <3>5, <3>6 DEF OwedIsListed, Tools
    <3>8. SeldomTwice'
      <4> SUFFICES ASSUME NEW q \in Rule PROVE rules'["iptables"][q] <= 1 + faults'
        BY DEF SeldomTwice
      <4>1. rules["iptables"][q] <= 1 + faults
        BY DEF RulesInv, SeldomTwice
      <4>q. QED
        BY <4>1, <3>2, <3>6, <1>0
    <3>9. Listed' /\ Suppressed'
      BY <2>2, <3>1 DEF RulesInv, Listed, Suppressed
    <3>q. QED
      BY <3>3, <3>7, <3>8, <3>9 DEF RulesInv
  <2>q. QED
    BY <1>5, <2>1, <2>2 DEF Undo
<1>6. CASE Exited
  <2>1. /\ proc.at = "stop" /\ todo = {} /\ proc' = Nowhere /\ undo' = {} /\ done' = {}
        /\ UNCHANGED <<rules, installed, todo, faults, found, stuck>>
    BY <1>6 DEF Exited, RulesInv, Listed
  <2>2. \A t \in Tools, q \in Rule : Owes(t, q) = 0 /\ Owes(t, q)' = 0
    BY <2>1 DEF Owes, Nowhere, Tools
  <2>3. RulesTyped'
    BY <2>1 DEF RulesInv, RulesTyped, Nowhere, RulePlaces, Tools
  <2>4. OwedIsListed' /\ SeldomTwice'
    BY <2>1, <2>2 DEF RulesInv, OwedIsListed, SeldomTwice
  <2>5. Listed' /\ Suppressed'
    BY <2>1 DEF Listed, Suppressed, Nowhere
  <2>q. QED
    BY <2>3, <2>4, <2>5 DEF RulesInv
<1>7. CASE Died
  <2>1. /\ proc' = Nowhere /\ undo' = {} /\ done' = {} /\ todo' = {}
        /\ found' = rules /\ stuck' = [t \in Tools |-> NoRules]
        /\ UNCHANGED <<rules, installed, faults>>
    BY <1>7 DEF Died
  <2>2. \A t \in Tools, q \in Rule : Owes(t, q)' = 0
    BY <2>1 DEF Owes, Nowhere, Tools
  <2>3. OwedIsListed' /\ stuck' \in Copies
    BY <1>1, <2>1, <2>2
  <2>4. RulesTyped'
    BY <2>1, <2>3 DEF RulesInv, RulesTyped, Nowhere, RulePlaces, Tools
  <2>5. Listed' /\ Suppressed' /\ SeldomTwice'
    BY <2>1 DEF RulesInv, Listed, Suppressed, SeldomTwice, Nowhere
  <2>q. QED
    BY <2>3, <2>4, <2>5 DEF RulesInv
<1>q. QED
  BY <1>2, <1>3, <1>4, <1>5, <1>6, <1>7

(* Of no echo-reply rule are there more copies than were found, could not  *)
(* be removed or are still to be removed; a run that believes its replies  *)
(* suppressed has the rules for it; and none is there twice but for a      *)
(* command that failed (suppressReplies, applyIPTables, suppressNFT): for  *)
(* any pools of identifiers, any number of runs, and any command failing.  *)
THEOREM RulesStayAccounted == RulesSpec => []RulesAccounted
<1>1. RulesInit => RulesInv
  <2> SUFFICES ASSUME RulesInit PROVE RulesInv
    OBVIOUS
  <2>1. /\ rules \in Copies /\ found = rules /\ stuck = rules /\ faults = 0
        /\ \A t \in Tools, q \in Rule : rules[t][q] = 0
    BY NothingThere DEF RulesInit
  <2>2. RulesTyped
    BY <2>1 DEF RulesInit, RulesTyped, Nowhere, RulePlaces
  <2>3. \A t \in Tools, q \in Rule : Owes(t, q) = 0
    BY DEF RulesInit, Owes, Nowhere, Tools
  <2>4. OwedIsListed /\ SeldomTwice
    BY <2>1, <2>3 DEF OwedIsListed, SeldomTwice, Tools
  <2>5. Listed /\ Suppressed
    BY DEF RulesInit, Nowhere, Listed, Suppressed
  <2>q. QED
    BY <2>2, <2>4, <2>5 DEF RulesInv
<1>2. RulesInv /\ [RulesNext]_ruleVars => RulesInv'
  <2>1. CASE RulesNext
    BY <2>1, AddRuleStep, RollbackStep, TableStep, OtherRulesStep DEF RulesNext
  <2>2. CASE UNCHANGED ruleVars
    BY <2>2 DEF ruleVars, RulesInv, RulesTyped, OwedIsListed, Owes, Listed, Asked, Suppressed,
                SeldomTwice, Present
  <2>q. QED
    BY <2>1, <2>2
<1>3. RulesInv => RulesAccounted
  BY DEF RulesInv, OwedIsListed, Suppressed, SeldomTwice, RulesAccounted
<1>q. QED
  BY <1>1, <1>2, <1>3, PTL DEF RulesSpec

-----------------------------------------------------------------------------
(* The kernel filter.                                                      *)

FilterSpec == FilterInit /\ [][FilterNext]_filterVars

Count == Len(ids)

FilterTyped ==
  /\ ids \in Seq(Nat) /\ Count \in Nat /\ Count <= 254 /\ mimic \in BOOLEAN
  /\ packet.len \in Nat /\ packet.words \in Nat /\ packet.type \in Int /\ packet.id \in Int
  /\ cpu \in [pc : 0..Count + 5, X : Int, A : Int,
              verdict : {"running", "reject", "accept"}]

\* What the interpreter knows of the packet at each instruction.
KnownAt ==
  /\ cpu.pc > 0 => cpu.X = 4 * packet.words
  /\ cpu.pc = 2 => cpu.A = packet.type
  /\ cpu.pc \in 3..Count + 3 => packet.type = EchoRequest
  /\ cpu.pc \in 4..Count + 3 => /\ cpu.A = packet.id
                               /\ \A j \in 1..cpu.pc - 4 : ids[j] # packet.id
  /\ cpu.pc = Count + 4 => packet.type # EchoRequest \/ ~KnownID(packet.id)
  /\ cpu.pc = Count + 5 => packet.type = EchoRequest /\ KnownID(packet.id)
Judged ==
  /\ cpu.verdict = "reject" => ~Parsed
  /\ cpu.verdict = "accept" => packet.type = EchoRequest /\ KnownID(packet.id)

FilterInv == FilterTyped /\ KnownAt /\ Judged

(* Four instructions, n and two, one after the other.                      *)
LaidOut(p, a, b, c, n) ==
  /\ DOMAIN p = 1..n + 6
  /\ p[1] = a[1] /\ p[2] = a[2] /\ p[3] = a[3] /\ p[4] = a[4]
  /\ \A i \in 1..n : p[i + 4] = b[i]
  /\ p[n + 5] = c[1] /\ p[n + 6] = c[2]

LEMMA FourAndTwo ==
  ASSUME NEW n \in Nat, NEW S, NEW a \in Seq(S), NEW b \in Seq(S), NEW c \in Seq(S),
         Len(a) = 4, Len(b) = n, Len(c) = 2
  PROVE  LaidOut(a \o b \o c, a, b, c, n)
<1>1. /\ a \o b \in Seq(S) /\ Len(a \o b) = 4 + n
      /\ \A i \in 1..4 + n : (a \o b)[i] = IF i <= 4 THEN a[i] ELSE b[i - 4]
  <2>1. /\ a \o b \in Seq(S) /\ Len(a \o b) = Len(a) + Len(b)
        /\ \A i \in 1..Len(a) + Len(b) :
             (a \o b)[i] = IF i <= Len(a) THEN a[i] ELSE b[i - Len(a)]
    BY ConcatProperties
  <2>q. QED
    BY <2>1
<1> DEFINE ab == a \o b
<1> HIDE DEF ab
<1>2. /\ ab \o c \in Seq(S) /\ Len(ab \o c) = (4 + n) + 2
      /\ \A i \in 1..(4 + n) + 2 : (ab \o c)[i] = IF i <= 4 + n THEN ab[i] ELSE c[i - (4 + n)]
  <2>1. ab \in Seq(S) /\ Len(ab) = 4 + n
    BY <1>1 DEF ab
  <2>2. /\ ab \o c \in Seq(S) /\ Len(ab \o c) = Len(ab) + Len(c)
        /\ \A i \in 1..Len(ab) + Len(c) :
             (ab \o c)[i] = IF i <= Len(ab) THEN ab[i] ELSE c[i - Len(ab)]
    BY <2>1, ConcatProperties
  <2>q. QED
    BY <2>1, <2>2
<1>3. /\ \A i \in 1..4 : ab[i] = a[i]
      /\ \A i \in 1..n : ab[i + 4] = b[i]
  <2>1. \A i \in 1..n : i + 4 \in 1..4 + n /\ ~(i + 4 <= 4) /\ (i + 4) - 4 = i
    OBVIOUS
  <2>q. QED
    BY <1>1, <2>1 DEF ab
<1>4. DOMAIN (ab \o c) = 1..n + 6
  BY <1>2
<1>5. /\ \A i \in 1..4 + n : (ab \o c)[i] = ab[i]
      /\ (ab \o c)[n + 5] = c[1] /\ (ab \o c)[n + 6] = c[2]
  BY <1>2
<1>6. \A i \in 1..n : i + 4 \in 1..4 + n
  OBVIOUS
<1>7. 1 \in 1..4 + n /\ 2 \in 1..4 + n /\ 3 \in 1..4 + n /\ 4 \in 1..4 + n
  OBVIOUS
<1> DEFINE abc == ab \o c
<1> HIDE DEF abc
<1>8. /\ DOMAIN abc = 1..n + 6
      /\ abc[1] = a[1] /\ abc[2] = a[2] /\ abc[3] = a[3] /\ abc[4] = a[4]
      /\ \A i \in 1..n : abc[i + 4] = b[i]
      /\ abc[n + 5] = c[1] /\ abc[n + 6] = c[2]
  <2>1. abc[1] = a[1] /\ abc[2] = a[2] /\ abc[3] = a[3] /\ abc[4] = a[4]
    <3>1. \A l \in 1..4 : l \in 1..4 + n
      OBVIOUS
    <3>2. \A l \in 1..4 : abc[l] = a[l]
      BY <3>1, <1>3, <1>5 DEF abc
    <3>3. 1 \in 1..4 /\ 2 \in 1..4 /\ 3 \in 1..4 /\ 4 \in 1..4
      OBVIOUS
    <3>q. QED
      BY <3>2, <3>3
  <2>2. \A i \in 1..n : abc[i + 4] = b[i]
    BY <1>3, <1>5, <1>6 DEF abc
  <2>q. QED
    BY <1>4, <1>5, <2>1, <2>2 DEF abc
<1>q. QED
  BY <1>8 DEF abc, ab, LaidOut

(* Which instruction is where, and that its jumps fit their byte.          *)
LEMMA Instructions ==
  ASSUME FilterTyped
  PROVE  LET p == Program(Count)
         IN /\ DOMAIN p = 1..Count + 6
            /\ p[1] = Ldx(0) /\ p[2] = LdB(0) /\ p[4] = LdH(4)
            /\ p[3] = [op |-> "jeq", k |-> EchoRequest, jt |-> 0, jf |-> Count + 1]
            /\ \A i \in 1..Count :
                 p[i + 4] = [op |-> "jeq", k |-> ids[i], jt |-> Count - (i - 1), jf |-> 0]
            /\ p[Count + 5] = Ret(0) /\ p[Count + 6] = Ret(MaxAccepted)
<1> DEFINE n == Count
           start == <<Ldx(0), LdB(0), Jeq(EchoRequest, 0, n + 1), LdH(4)>>
           middle == [i \in 1..n |-> Jeq(ids[i], n - (i - 1), 0)]
           end == <<Ret(0), Ret(MaxAccepted)>>
           Ins == {start[i] : i \in 1..4} \union {middle[i] : i \in 1..n} \union {end[i] : i \in 1..2}
<1>1. n \in Nat /\ n <= 254
  BY DEF FilterTyped
<1>2. /\ start \in Seq(Ins) /\ middle \in Seq(Ins) /\ end \in Seq(Ins)
      /\ Len(start) = 4 /\ Len(middle) = n /\ Len(end) = 2
  <2>1. middle \in [1..n -> Ins]
    OBVIOUS
  <2>2. middle \in Seq(Ins) /\ Len(middle) = n
    <3> HIDE DEF middle, Ins
    <3>q. QED
      BY <2>1, <1>1
  <2>3. start \in Seq(Ins) /\ Len(start) = 4 /\ end \in Seq(Ins) /\ Len(end) = 2
    <3>1. \A i \in 1..4 : start[i] \in Ins
      BY Zenon
    <3>2. \A i \in 1..2 : end[i] \in Ins
      BY Zenon
    <3>3. ASSUME NEW a, NEW b, NEW c, NEW d, NEW S, a \in S, b \in S, c \in S, d \in S
          PROVE  <<a, b, c, d>> \in Seq(S) /\ Len(<<a, b, c, d>>) = 4 /\ <<a, b>> \in Seq(S)
                 /\ Len(<<a, b>>) = 2
      BY <3>3
    <3>4. start[1] = Ldx(0) /\ start[2] = LdB(0) /\ start[3] = Jeq(EchoRequest, 0, n + 1)
          /\ start[4] = LdH(4) /\ end[1] = Ret(0) /\ end[2] = Ret(MaxAccepted)
      OBVIOUS
    <3>5. Ldx(0) \in Ins /\ LdB(0) \in Ins /\ Jeq(EchoRequest, 0, n + 1) \in Ins /\ LdH(4) \in Ins
          /\ Ret(0) \in Ins /\ Ret(MaxAccepted) \in Ins
      <4> HIDE DEF Ins, start, end
      <4>q. QED
        BY <3>1, <3>2, <3>4
    <3> HIDE DEF Ins
    <3>q. QED
      BY <3>3, <3>5
  <2>q. QED
    BY <2>2, <2>3
<1>3. Program(n) = start \o middle \o end
  BY DEF Program
<1>5. /\ start[1] = Ldx(0) /\ start[2] = LdB(0) /\ start[4] = LdH(4)
      /\ start[3] = [op |-> "jeq", k |-> EchoRequest, jt |-> 0, jf |-> n + 1]
      /\ end[1] = Ret(0) /\ end[2] = Ret(MaxAccepted)
  <2>1. 0 % 256 = 0 /\ (n + 1) % 256 = n + 1
    BY <1>1
  <2>q. QED
    BY <2>1 DEF Jeq
<1>6. ASSUME NEW i \in 1..n
      PROVE  middle[i] = [op |-> "jeq", k |-> ids[i], jt |-> n - (i - 1), jf |-> 0]
  <2>1. 0 % 256 = 0 /\ (n - (i - 1)) % 256 = n - (i - 1)
    BY <1>1
  <2>q. QED
    BY <2>1 DEF Jeq
<1> HIDE DEF start, middle, end, Ins
<1> DEFINE p == start \o middle \o end
<1>7. /\ DOMAIN p = 1..n + 6
      /\ p[1] = start[1] /\ p[2] = start[2] /\ p[3] = start[3] /\ p[4] = start[4]
      /\ \A i \in 1..n : p[i + 4] = middle[i]
      /\ p[n + 5] = end[1] /\ p[n + 6] = end[2]
  <2> HIDE DEF n
  <2>1. n \in Nat /\ Len(start) = 4 /\ Len(middle) = n /\ Len(end) = 2
    BY <1>1, <1>2
  <2>2. start \in Seq(Ins) /\ middle \in Seq(Ins) /\ end \in Seq(Ins)
    BY <1>2
  <2>3. LaidOut(start \o middle \o end, start, middle, end, n)
    BY <2>1, <2>2, FourAndTwo
  <2>q. QED
    BY <2>3 DEF LaidOut
<1> HIDE DEF p
<1>q. QED
  BY <1>3, <1>5, <1>6, <1>7 DEF p

(* What parse would take is what the instructions test, and more.          *)
LEMMA ParsedNeeds ==
  ASSUME FilterTyped, Parsed
  PROVE  /\ packet.type = EchoRequest /\ KnownID(packet.id)
         /\ packet.len > 0 /\ 4 * packet.words + 6 <= packet.len
<1>1. /\ packet.type = EchoRequest /\ KnownID(packet.id)
      /\ packet.len >= IpMin /\ packet.len >= 4 * packet.words + IcmpHeader
  BY DEF Parsed
<1>2. packet.len \in Nat /\ packet.words \in Nat
  BY DEF FilterTyped
<1>3. ASSUME NEW l \in Nat, NEW k \in Nat, l >= 20, l >= 4 * k + 8
      PROVE  l > 0 /\ 4 * k + 6 <= l
  BY <1>3
<1>4. QED
  BY <1>1, <1>2, <1>3 DEF IpMin, IcmpHeader

(* One instruction.                                                        *)
LEMMA InstructionKept ==
  ASSUME FilterInv, RunInstruction
  PROVE  FilterInv'
<1> DEFINE p == Program(Count)
           i == p[cpu.pc + 1]
<1>1. /\ cpu.verdict = "running" /\ UNCHANGED <<ids, mimic, packet>>
      /\ Count \in Nat /\ cpu.pc \in 0..Count + 5
  BY DEF RunInstruction, FilterInv, FilterTyped
<1>2. /\ p[1] = Ldx(0) /\ p[2] = LdB(0) /\ p[4] = LdH(4)
      /\ p[3] = [op |-> "jeq", k |-> EchoRequest, jt |-> 0, jf |-> Count + 1]
      /\ \A j \in 1..Count : p[j + 4] = [op |-> "jeq", k |-> ids[j], jt |-> Count - (j - 1), jf |-> 0]
      /\ p[Count + 5] = Ret(0) /\ p[Count + 6] = Ret(MaxAccepted)
  BY Instructions DEF FilterInv
<1>3. /\ FilterTyped /\ KnownAt /\ (KnownID(packet.id) <=> KnownID(packet.id)')
      /\ (Parsed <=> Parsed') /\ Count' = Count
  BY <1>1 DEF FilterInv, KnownID, Parsed, Count
<1>4. cpu \in [pc : 0..Count + 5, X : Int, A : Int,
               verdict : {"running", "reject", "accept"}]
      /\ packet.words \in Nat /\ packet.len \in Nat
      /\ packet.type \in Int /\ packet.id \in Int
  BY <1>3 DEF FilterTyped
\* The two ends of the program, and a load that goes too far.
<1>5. ASSUME cpu' = [cpu EXCEPT !.verdict = "reject"], ~Parsed
      PROVE  FilterInv'
  BY <1>1, <1>3, <1>4, <1>5 DEF FilterInv, FilterTyped, KnownAt, Judged, KnownID
<1>6. ASSUME cpu' = [cpu EXCEPT !.verdict = "accept"], packet.type = EchoRequest,
             KnownID(packet.id)
      PROVE  FilterInv'
  BY <1>1, <1>3, <1>4, <1>6 DEF FilterInv, FilterTyped, KnownAt, Judged, KnownID
\* An instruction that goes on.
<1>7. ASSUME cpu' \in [pc : 0..Count + 5, X : Int, A : Int, verdict : {"running"}], KnownAt'
      PROVE  FilterInv'
  BY <1>1, <1>3, <1>4, <1>7 DEF FilterInv, FilterTyped, Judged, Count
\* What an instruction does.
<1> DEFINE rejected == cpu' = [cpu EXCEPT !.verdict = "reject"]
<1> HIDE DEF i
<1>e. /\ i.op = "ldx" => \/ cpu' = [cpu EXCEPT !.X = 4 * packet.words, !.pc = cpu.pc + 1]
                         \/ ~(i.k < packet.len) /\ rejected
      /\ i.op = "ldb" => \/ cpu' = [cpu EXCEPT !.A = packet.type, !.pc = cpu.pc + 1]
                         \/ ~(cpu.X + i.k + 1 <= packet.len) /\ rejected
      /\ i.op = "ldh" => \/ cpu' = [cpu EXCEPT !.A = packet.id, !.pc = cpu.pc + 1]
                         \/ ~(cpu.X + i.k + 2 <= packet.len) /\ rejected
      /\ i.op = "jeq" =>
           cpu' = [cpu EXCEPT !.pc = cpu.pc + 1 + (IF cpu.A = i.k THEN i.jt ELSE i.jf)]
      /\ i.op = "ret" => Return(i.k)
  <2>1. \/ i.op = "ldx" /\ IF i.k < packet.len
             THEN cpu' = [cpu EXCEPT !.X = 4 * packet.words, !.pc = cpu.pc + 1] ELSE Return(0)
        \/ i.op = "ldb" /\ Load(cpu.X + i.k, 1, packet.type)
        \/ i.op = "ldh" /\ Load(cpu.X + i.k, 2, packet.id)
        \/ /\ i.op = "jeq"
           /\ cpu' = [cpu EXCEPT !.pc = cpu.pc + 1 + (IF cpu.A = i.k THEN i.jt ELSE i.jf)]
        \/ i.op = "ret" /\ Return(i.k)
    BY DEF RunInstruction, i, Count
  <2>2. Return(0) => rejected
    BY DEF Return
  <2>q. QED
    BY <2>1, <2>2 DEF Load
<1> HIDE DEF p
<1>8. CASE cpu.pc = 0
  <2>1. \/ cpu' = [cpu EXCEPT !.X = 4 * packet.words, !.pc = cpu.pc + 1]
        \/ packet.len <= 0 /\ cpu' = [cpu EXCEPT !.verdict = "reject"]
    <3>1. i = Ldx(0)
      BY <1>2, <1>8 DEF i
    <3>2. i.op = "ldx" /\ i.k = 0 /\ cpu.pc + 1 = 1
      BY <3>1, <1>8 DEF Ldx
    <3>3. \/ cpu' = [cpu EXCEPT !.X = 4 * packet.words, !.pc = cpu.pc + 1]
          \/ ~(0 < packet.len) /\ rejected
      BY <3>2, <1>e
    <3>q. QED
      BY <3>2, <3>3, <1>4 DEF rejected
  <2>2. CASE cpu' = [cpu EXCEPT !.X = 4 * packet.words, !.pc = cpu.pc + 1]
    <3>1. KnownAt'
      BY <1>1, <1>3, <1>4, <1>8, <2>2 DEF KnownAt
    <3>2. cpu' \in [pc : 0..Count + 5, X : Int, A : Int, verdict : {"running"}]
      <4>1. cpu' = [pc |-> cpu.pc + 1, X |-> 4 * packet.words, A |-> cpu.A, verdict |-> "running"]
        BY <1>1, <1>4, <2>2
      <4>2. cpu.pc + 1 \in 0..Count + 5 /\ 4 * packet.words \in Int /\ cpu.A \in Int
        BY <1>1, <1>4, <1>8
      <4>q. QED
        BY <4>1, <4>2
    <3>q. QED
      BY <1>7, <3>1, <3>2
  <2>q. QED
    BY <1>3, <1>4, <1>5, <2>1, <2>2, ParsedNeeds
<1>9. CASE cpu.pc = 1
  <2>1. \/ cpu' = [cpu EXCEPT !.A = packet.type, !.pc = cpu.pc + 1]
        \/ cpu.X + 1 > packet.len /\ cpu' = [cpu EXCEPT !.verdict = "reject"]
    <3>1. i = LdB(0)
      BY <1>2, <1>9 DEF i
    <3>2. i.op = "ldb" /\ i.k = 0 /\ cpu.pc + 1 = 2 /\ cpu.X + 0 + 1 = cpu.X + 1
      BY <3>1, <1>4, <1>9 DEF LdB
    <3>3. \/ cpu' = [cpu EXCEPT !.A = packet.type, !.pc = cpu.pc + 1]
          \/ ~(cpu.X + 0 + 1 <= packet.len) /\ rejected
      BY <3>2, <1>e
    <3>q. QED
      BY <3>2, <3>3, <1>4 DEF rejected
  <2>2. CASE cpu' = [cpu EXCEPT !.A = packet.type, !.pc = cpu.pc + 1]
    <3>1. KnownAt'
      BY <1>1, <1>3, <1>4, <1>9, <2>2 DEF KnownAt
    <3>2. cpu' \in [pc : 0..Count + 5, X : Int, A : Int, verdict : {"running"}]
      <4>1. cpu' = [pc |-> cpu.pc + 1, X |-> cpu.X, A |-> packet.type, verdict |-> "running"]
        BY <1>1, <1>4, <2>2
      <4>2. cpu.pc + 1 \in 0..Count + 5 /\ cpu.X \in Int /\ packet.type \in Int
        BY <1>1, <1>4, <1>9
      <4>q. QED
        BY <4>1, <4>2
    <3>q. QED
      BY <1>7, <3>1, <3>2
  <2>q. QED
    BY <1>3, <1>4, <1>5, <1>9, <2>1, <2>2, ParsedNeeds DEF KnownAt
<1>10. CASE cpu.pc = 2
  <2>1. cpu' = [cpu EXCEPT !.pc = IF cpu.A = EchoRequest THEN 3 ELSE Count + 4]
    <3>1. i = [op |-> "jeq", k |-> EchoRequest, jt |-> 0, jf |-> Count + 1]
      BY <1>2, <1>10 DEF i
    <3>q. QED
      BY <3>1, <1>e, <1>1, <1>4, <1>10
  <2>2. KnownAt'
    BY <1>1, <1>3, <1>4, <1>10, <2>1 DEF KnownAt
  <2>q. QED
    BY <1>1, <1>4, <1>7, <1>10, <2>1, <2>2
<1>11. CASE cpu.pc = 3
  <2>1. \/ cpu' = [cpu EXCEPT !.A = packet.id, !.pc = cpu.pc + 1]
        \/ cpu.X + 6 > packet.len /\ cpu' = [cpu EXCEPT !.verdict = "reject"]
    <3>1. i = LdH(4)
      BY <1>2, <1>11 DEF i
    <3>2. i.op = "ldh" /\ i.k = 4 /\ cpu.pc + 1 = 4 /\ cpu.X + 4 + 2 = cpu.X + 6
      BY <3>1, <1>4, <1>11 DEF LdH
    <3>3. \/ cpu' = [cpu EXCEPT !.A = packet.id, !.pc = cpu.pc + 1]
          \/ ~(cpu.X + 4 + 2 <= packet.len) /\ rejected
      BY <3>2, <1>e
    <3>q. QED
      BY <3>2, <3>3, <1>4 DEF rejected
  <2>2. CASE cpu' = [cpu EXCEPT !.A = packet.id, !.pc = cpu.pc + 1]
    <3>1. KnownAt'
      BY <1>1, <1>3, <1>4, <1>11, <2>2 DEF KnownAt, KnownID, Count
    <3>2. cpu' \in [pc : 0..Count + 5, X : Int, A : Int, verdict : {"running"}]
      <4>1. cpu' = [pc |-> cpu.pc + 1, X |-> cpu.X, A |-> packet.id, verdict |-> "running"]
        BY <1>1, <1>4, <2>2
      <4>2. cpu.pc + 1 \in 0..Count + 5 /\ cpu.X \in Int /\ packet.id \in Int
        BY <1>1, <1>4, <1>11
      <4>q. QED
        BY <4>1, <4>2
    <3>q. QED
      BY <1>7, <3>1, <3>2
  <2>q. QED
    BY <1>3, <1>4, <1>5, <1>11, <2>1, <2>2, ParsedNeeds DEF KnownAt
<1>12. ASSUME cpu.pc \in 4..Count + 3 PROVE FilterInv'
  <2> DEFINE j == cpu.pc - 3
  <2>1. j \in 1..Count /\ cpu.pc + 1 = j + 4 /\ DOMAIN ids = 1..Count
    <3>1. DOMAIN ids = 1..Count
      BY DEF FilterInv, FilterTyped, Count
    <3>q. QED
      BY <1>1, <1>12, <3>1
  <2>2. cpu' = [cpu EXCEPT !.pc = IF cpu.A = ids[j] THEN Count + 5 ELSE cpu.pc + 1]
    <3>1. i = [op |-> "jeq", k |-> ids[j], jt |-> Count - (j - 1), jf |-> 0]
      BY <1>2, <2>1 DEF i
    <3>2. cpu.pc + 1 + (Count - (j - 1)) = Count + 5 /\ cpu.pc + 1 + 0 = cpu.pc + 1
      BY <2>1, <1>1, <1>12
    <3>q. QED
      BY <3>1, <3>2, <1>e
  <2>3. /\ cpu.X = 4 * packet.words /\ packet.type = EchoRequest /\ cpu.A = packet.id
        /\ \A l \in 1..j - 1 : ids[l] # packet.id
    <3>1. cpu.pc > 0 /\ cpu.pc \in 3..Count + 3 /\ cpu.pc - 4 = j - 1
      BY <1>1, <1>12
    <3>q. QED
      BY <3>1, <1>3, <1>12 DEF KnownAt
  <2>4. CASE packet.id = ids[j]
    <3>1. cpu' = [cpu EXCEPT !.pc = Count + 5]
      BY <2>2, <2>3, <2>4
    <3>2. /\ cpu'.pc = Count + 5 /\ cpu'.X = cpu.X
          /\ cpu' \in [pc : 0..Count + 5, X : Int, A : Int, verdict : {"running"}]
      BY <3>1, <1>1, <1>4
    <3>3. KnownID(packet.id)
      BY <2>1, <2>4 DEF KnownID
    <3>4. KnownAt'
      BY <1>1, <1>3, <2>3, <3>2, <3>3 DEF KnownAt
    <3>q. QED
      BY <1>7, <3>2, <3>4
  <2>5. CASE packet.id # ids[j]
    <3>1. cpu' = [cpu EXCEPT !.pc = cpu.pc + 1]
      BY <2>2, <2>3, <2>5
    <3>2. /\ cpu'.pc = j + 4 /\ cpu'.X = cpu.X /\ cpu'.A = cpu.A
          /\ cpu' \in [pc : 0..Count + 5, X : Int, A : Int, verdict : {"running"}]
      <4>1. cpu' = [pc |-> cpu.pc + 1, X |-> cpu.X, A |-> cpu.A, verdict |-> "running"]
        BY <3>1, <1>1, <1>4
      <4>2. cpu.pc + 1 \in 0..Count + 5 /\ cpu.X \in Int /\ cpu.A \in Int
        BY <1>1, <1>4, <2>1
      <4>q. QED
        BY <4>1, <4>2, <2>1
    <3>3. \A l \in 1..j : ids[l] # packet.id
      BY <2>1, <2>3, <2>5
    <3>4. j = Count => ~KnownID(packet.id)
      BY <2>1, <3>3 DEF KnownID
    <3>5. cpu'.pc - 4 = j /\ (cpu'.pc = Count + 4 => j = Count) /\ cpu'.pc # Count + 5
      BY <3>2, <2>1, <1>1
    <3>6. KnownAt'
      BY <1>1, <1>3, <2>1, <2>3, <3>2, <3>3, <3>4, <3>5 DEF KnownAt
    <3>q. QED
      BY <1>7, <3>2, <3>6
  <2>q. QED
    BY <2>4, <2>5
<1>13. CASE cpu.pc = Count + 4
  <2>1. cpu' = [cpu EXCEPT !.verdict = "reject"]
    <3>1. i = Ret(0)
      <4>1. cpu.pc + 1 = Count + 5
        BY <1>1, <1>13
      <4>q. QED
        BY <4>1, <1>2 DEF i
    <3>q. QED
      BY <3>1, <1>e DEF Ret, Return
  <2>q. QED
    BY <1>3, <1>5, <1>13, <2>1, ParsedNeeds DEF KnownAt
<1>14. CASE cpu.pc = Count + 5
  <2>1. cpu' = [cpu EXCEPT !.verdict = "accept"]
    <3>1. MaxAccepted # 0
      BY DEF MaxAccepted
    <3>q. QED
      <4>1. cpu.pc + 1 = Count + 6
        BY <1>1, <1>14
      <4>2. i = Ret(MaxAccepted)
        BY <4>1, <1>2 DEF i
      <4>q. QED
        BY <3>1, <4>2, <1>e DEF Ret, Return
  <2>q. QED
    BY <1>3, <1>6, <1>14, <2>1 DEF KnownAt
<1>q. QED
  BY <1>1, <1>8, <1>9, <1>10, <1>11, <1>12, <1>13, <1>14

(* The hand-counted jumps hold for every number of identifiers the byte    *)
(* has room for, and every packet: the interpreter stays in the program,   *)
(* rejects nothing that parse would take, and lets through nothing of      *)
(* another tunnel's (attachICMPFilter, parse).                             *)
THEOREM FilterIsRight == FilterSpec => []FilterAgrees
<1>1. FilterInit => FilterInv
  <2> SUFFICES ASSUME FilterInit PROVE FilterInv
    OBVIOUS
  <2>1. ids \in Seq(Nat) /\ Count \in Nat /\ Count <= 254
    BY FilterAssumption DEF FilterInit, Count
  <2>2. packet.len \in Nat /\ packet.words \in Nat /\ packet.type \in Int /\ packet.id \in Int
    <3>1. /\ packet.len \in PacketLens /\ packet.words \in HeaderWords
          /\ packet.type \in {EchoRequest, EchoReply} /\ packet.id \in SeenIds
      BY DEF FilterInit
    <3>2. PacketLens \subseteq Nat /\ HeaderWords \subseteq Nat /\ SeenIds \subseteq Nat
      BY FilterAssumption
    <3>3. packet.type \in Int
      BY <3>1 DEF EchoRequest, EchoReply
    <3>4. packet.len \in Nat /\ packet.words \in Nat /\ packet.id \in Nat
      BY <3>1, <3>2, Zenon
    <3>q. QED
      BY <3>3, <3>4
  <2>q. QED
    BY <2>1, <2>2 DEF FilterInit, FilterInv, FilterTyped, KnownAt, Judged
<1>2. FilterInv /\ [FilterNext]_filterVars => FilterInv'
  <2>1. ASSUME FilterInv, UNCHANGED filterVars PROVE FilterInv'
    BY <2>1 DEF filterVars, FilterInv, FilterTyped, KnownAt, Judged, KnownID, Parsed, Count
  <2>q. QED
    BY <2>1, InstructionKept DEF FilterNext
<1>3. FilterInv => FilterAgrees
  <2> SUFFICES ASSUME FilterInv PROVE FilterAgrees
    OBVIOUS
  <2>1. cpu.pc + 1 \in DOMAIN Program(Len(ids))
    <3>1. DOMAIN Program(Count) = 1..Count + 6
      BY Instructions DEF FilterInv
    <3>q. QED
      BY <3>1 DEF FilterInv, FilterTyped, Count
  <2>2. packet.type = EchoRequest /\ KnownID(packet.id) =>
          \/ Parsed
          \/ 4 * packet.words < IpMin
          \/ packet.len < 4 * packet.words + IcmpHeader + (IF mimic THEN MimicLen ELSE 0)
    <3>1. packet.len \in Nat /\ packet.words \in Nat
      BY DEF FilterInv, FilterTyped
    <3>q. QED
      BY <3>1 DEF Parsed, IpMin, IcmpHeader, MimicLen
  <2>q. QED
    BY <2>1, <2>2 DEF FilterInv, Judged, FilterAgrees
<1>q. QED
  BY <1>1, <1>2, <1>3, PTL DEF FilterSpec

-----------------------------------------------------------------------------
(* Port hopping.                                                           *)

HopSpec == HopInit /\ [][HopNext]_hopVars

\* The sending side: the cached word, once anybody may look at it, holds a slot of the
\* schedule beside its epoch, and so does a sender that has its slot.
SendTyped ==
  /\ schedule \in [Epochs -> Slots] /\ epoch \in Epochs /\ sends \in Nat
  /\ send \in [Hoppers -> [at : {"idle", "derive", "cached", "flag", "write"},
                           epoch : Epochs \union {0}, slot : Slots \union {0}]]
  /\ onWire \in [Bound -> Seq([n : 1..sends, epoch : Epochs])]
CacheFits ==
  haveSlot \/ (\E g \in Hoppers : send[g].at = "flag") =>
    slotCache.epoch \in Epochs /\ slotCache.slot = schedule[slotCache.epoch]
SendersFit ==
  \A g \in Hoppers :
    /\ send[g].at # "idle" => send[g].epoch \in Epochs
    /\ send[g].at = "cached" => haveSlot
    /\ send[g].at \in {"flag", "write"} => send[g].slot = schedule[send[g].epoch]
SendInv == SendTyped /\ CacheFits /\ SendersFit /\ OnSchedule

(* A step of a sender other than the write.                                *)
LEMMA SlotStep ==
  ASSUME SendInv, NEW g \in Hoppers,
         ReadClock(g) \/ ReadCache(g) \/ StoreSlot(g) \/ StoreFlag(g),
         UNCHANGED <<schedule, epoch, sends, steps, peerKnown, onWire, ReceiveSide>>
  PROVE  SendInv'
<1> DEFINE S == [at : {"idle", "derive", "cached", "flag", "write"},
                 epoch : Epochs \union {0}, slot : Slots \union {0}]
<1>1. /\ schedule \in [Epochs -> Slots] /\ epoch \in Epochs /\ send \in [Hoppers -> S]
      /\ send[g] \in S
      /\ UNCHANGED <<schedule, epoch, sends, onWire>>
  BY DEF SendInv, SendTyped
\* What they have in common.
<1>2. ASSUME NEW s \in S, send' = [send EXCEPT ![g] = s], s.at # "idle", s.epoch \in Epochs,
             s.at = "cached" => haveSlot', haveSlot => haveSlot',
             s.at \in {"flag", "write"} => s.slot = schedule[s.epoch],
             haveSlot' \/ s.at = "flag" \/ (\E h \in Hoppers : send[h].at = "flag") =>
               slotCache'.epoch \in Epochs /\ slotCache'.slot = schedule[slotCache'.epoch]
      PROVE  SendInv'
  <2>1. /\ send' \in [Hoppers -> S] /\ send'[g] = s
        /\ \A h \in Hoppers \ {g} : send'[h] = send[h]
    BY <1>1, <1>2
  <2>2. SendTyped'
    BY <2>1, <1>1 DEF SendInv, SendTyped
  <2>3. CacheFits'
    BY <2>1, <1>1, <1>2 DEF CacheFits
  <2>4. SendersFit'
    BY <2>1, <1>1, <1>2 DEF SendInv, SendersFit
  <2>5. OnSchedule'
    BY <1>1 DEF SendInv, OnSchedule
  <2>q. QED
    BY <2>2, <2>3, <2>4, <2>5 DEF SendInv
<1>3. CASE ReadClock(g)
  <2> DEFINE s == [at |-> IF haveSlot THEN "cached" ELSE "derive", epoch |-> epoch, slot |-> 0]
  <2>1. s \in S /\ s.epoch \in Epochs /\ s.at \in {"cached", "derive"} /\ (s.at = "cached" => haveSlot)
    BY <1>1
  <2>2. send' = [send EXCEPT ![g] = s] /\ UNCHANGED <<slotCache, haveSlot>>
    BY <1>3 DEF ReadClock
  <2> HIDE DEF s, S
  <2>q. QED
    BY <2>1, <2>2, <1>1, <1>2 DEF SendInv, CacheFits
<1>4. CASE ReadCache(g)
  <2> DEFINE s == IF slotCache.epoch = send[g].epoch
                  THEN [send[g] EXCEPT !.slot = slotCache.slot, !.at = "write"]
                  ELSE [send[g] EXCEPT !.at = "derive"]
  <2>1. /\ send[g].at = "cached" /\ send' = [send EXCEPT ![g] = s]
        /\ UNCHANGED <<slotCache, haveSlot>>
    BY <1>4, <1>1 DEF ReadCache
  <2>2. /\ send[g].epoch \in Epochs /\ haveSlot
        /\ slotCache.epoch \in Epochs /\ slotCache.slot = schedule[slotCache.epoch]
        /\ slotCache.slot \in Slots
    BY <2>1, <1>1 DEF SendInv, SendersFit, CacheFits
  <2>3. /\ s \in S /\ s.epoch = send[g].epoch /\ s.at \in {"derive", "write"}
        /\ s.at = "write" => s.slot = schedule[s.epoch]
    BY <1>1, <2>2
  <2> HIDE DEF s, S
  <2>q. QED
    BY <2>1, <2>2, <2>3, <1>2
<1>5. CASE StoreSlot(g)
  <2> DEFINE s == [send[g] EXCEPT !.slot = schedule[send[g].epoch], !.at = "flag"]
  <2>1. /\ send[g].at = "derive" /\ send' = [send EXCEPT ![g] = s] /\ UNCHANGED haveSlot
        /\ slotCache' = [epoch |-> send[g].epoch, slot |-> schedule[send[g].epoch]]
    BY <1>5, <1>1 DEF StoreSlot
  <2>2. send[g].epoch \in Epochs /\ schedule[send[g].epoch] \in Slots
    BY <2>1, <1>1 DEF SendInv, SendersFit
  <2>3. s \in S /\ s.epoch = send[g].epoch /\ s.at = "flag" /\ s.slot = schedule[s.epoch]
    BY <1>1, <2>2
  <2>4. slotCache'.epoch \in Epochs /\ slotCache'.slot = schedule[slotCache'.epoch]
    BY <2>1, <2>2
  <2> HIDE DEF s, S
  <2>q. QED
    BY <2>1, <2>2, <2>3, <2>4, <1>2
<1>6. CASE StoreFlag(g)
  <2> DEFINE s == [send[g] EXCEPT !.at = "write"]
  <2>1. /\ send[g].at = "flag" /\ send' = [send EXCEPT ![g] = s] /\ haveSlot'
        /\ UNCHANGED slotCache
    BY <1>6, <1>1 DEF StoreFlag
  <2>2. send[g].epoch \in Epochs /\ send[g].slot = schedule[send[g].epoch]
    BY <2>1 DEF SendInv, SendersFit
  <2>3. s \in S /\ s.epoch = send[g].epoch /\ s.at = "write" /\ s.slot = send[g].slot
    BY <1>1
  <2>4. slotCache.epoch \in Epochs /\ slotCache.slot = schedule[slotCache.epoch]
    BY <2>1 DEF SendInv, CacheFits
  <2> HIDE DEF s, S
  <2>q. QED
    BY <2>1, <2>2, <2>3, <2>4, <1>2
<1>q. QED
  BY <1>3, <1>4, <1>5, <1>6

(* What a write puts on the wire, on the port of its slot.                 *)
LEMMA WriteFacts ==
  ASSUME SendInv, NEW g \in Hoppers, Write(g)
  PROVE  LET p == HopPorts[send[g].slot]
             d == [n |-> sends + 1, epoch |-> send[g].epoch]
         IN /\ p \in Bound /\ sends' = sends + 1 /\ sends \in Nat
            /\ onWire[p] \in Seq([n : 1..sends, epoch : Epochs])
            /\ d.epoch \in Epochs /\ HopPorts[schedule[d.epoch]] = p
            /\ onWire' = [onWire EXCEPT ![p] = Append(onWire[p], d)]
            /\ sock' = [sock EXCEPT ![p] = Append(sock[p], sends + 1)]
            /\ send' = [send EXCEPT ![g] = NotSending]
            /\ UNCHANGED <<schedule, epoch, slotCache, haveSlot, rd, hopRx, taken, spilled>>
<1>1. send[g].at = "write" /\ send[g].epoch \in Epochs /\ send[g].slot = schedule[send[g].epoch]
  BY DEF SendInv, SendersFit, Write
<1>2. send[g].slot \in Slots /\ HopPorts[send[g].slot] \in Bound
  BY <1>1 DEF SendInv, SendTyped, Bound
<1>q. QED
  BY <1>1, <1>2 DEF Write, SendInv, SendTyped

LEMMA WriteStep ==
  ASSUME SendInv, NEW g \in Hoppers, Write(g)
  PROVE  SendInv'
<1> DEFINE p == HopPorts[send[g].slot]
           d == [n |-> sends + 1, epoch |-> send[g].epoch]
<1>1. /\ p \in Bound /\ sends' = sends + 1 /\ sends \in Nat
      /\ d.epoch \in Epochs /\ HopPorts[schedule[d.epoch]] = p
      /\ onWire' = [onWire EXCEPT ![p] = Append(onWire[p], d)]
      /\ send' = [send EXCEPT ![g] = NotSending]
      /\ UNCHANGED <<schedule, epoch, slotCache, haveSlot>>
  BY WriteFacts
<1>2. onWire \in [Bound -> Seq([n : 1..sends, epoch : Epochs])]
  BY DEF SendInv, SendTyped
<1>3. /\ onWire' \in [Bound -> Seq([n : 1..sends', epoch : Epochs])]
  <2> DEFINE D == [n : 1..sends', epoch : Epochs]
  <2>1. d \in D /\ \A q \in Bound : onWire[q] \in Seq(D)
    <3>1. [n : 1..sends, epoch : Epochs] \subseteq D
      BY <1>1
    <3>2. ASSUME NEW q \in Bound PROVE onWire[q] \in Seq(D)
      <4> HIDE DEF D
      <4>1. onWire[q] \in Seq([n : 1..sends, epoch : Epochs])
        BY <1>2
      <4>q. QED
        BY <3>1, <4>1, SeqMonotonic
    <3>3. sends + 1 \in 1..sends'
      BY <1>1
    <3>q. QED
      BY <3>2, <3>3, <1>1
  <2> HIDE DEF D, d, p
  <2>2. Append(onWire[p], d) \in Seq(D)
    BY <2>1, <1>1
  <2>q. QED
    BY <2>1, <2>2, <1>1, <1>2 DEF D
<1>4. SendTyped'
  <2>1. NotSending \in [at : {"idle", "derive", "cached", "flag", "write"},
                        epoch : Epochs \union {0}, slot : Slots \union {0}]
    BY DEF NotSending
  <2>2. send' \in [Hoppers -> [at : {"idle", "derive", "cached", "flag", "write"},
                               epoch : Epochs \union {0}, slot : Slots \union {0}]]
    <3> HIDE DEF p, d
    <3>q. QED
      BY <2>1, <1>1 DEF SendInv, SendTyped
  <2>3. sends' \in Nat /\ schedule' \in [Epochs -> Slots] /\ epoch' \in Epochs
    BY <1>1 DEF SendInv, SendTyped
  <2>q. QED
    BY <2>2, <2>3, <1>3 DEF SendTyped
<1>5. CacheFits' /\ SendersFit'
  <2>1. send'[g].at = "idle" /\ \A h \in Hoppers \ {g} : send'[h] = send[h]
    BY <1>1 DEF SendInv, SendTyped, NotSending
  <2>q. QED
    BY <2>1, <1>1 DEF SendInv, CacheFits, SendersFit
<1>6. OnSchedule'
  <2> SUFFICES ASSUME NEW q \in Bound, NEW i \in DOMAIN onWire'[q]
               PROVE  HopPorts[schedule[onWire'[q][i].epoch]] = q
    BY <1>1 DEF OnSchedule
  <2>1. CASE q # p
    <3>1. onWire'[q] = onWire[q]
      BY <2>1, <1>1, <1>2
    <3>q. QED
      BY <3>1 DEF SendInv, OnSchedule
  <2>2. CASE q = p
    <3>1. onWire'[q] = Append(onWire[p], d)
      BY <2>2, <1>1, <1>2
    <3>2. onWire[p] \in Seq([n : 1..sends, epoch : Epochs])
      BY <1>1, <1>2
    <3>3. \/ i \in DOMAIN onWire[p] /\ onWire'[q][i] = onWire[p][i]
          \/ onWire'[q][i] = d
      <4> HIDE DEF d, p
      <4>q. QED
        BY <3>1, <3>2
    <3>4. ASSUME NEW j \in DOMAIN onWire[p]
          PROVE  HopPorts[schedule[onWire[p][j].epoch]] = p
      BY <1>1 DEF SendInv, OnSchedule
    <3> HIDE DEF d, p
    <3>q. QED
      BY <2>2, <3>3, <3>4, <1>1
  <2>q. QED
    BY <2>1, <2>2
<1>q. QED
  BY <1>4, <1>5, <1>6 DEF SendInv

LEMMA SendKept ==
  ASSUME SendInv, [HopNext]_hopVars
  PROVE  SendInv'
<1>1. ASSUME UNCHANGED <<schedule, slotCache, haveSlot, send, sends, onWire>>, epoch' \in Epochs
      PROVE  SendInv'
  BY <1>1 DEF SendInv, SendTyped, CacheFits, SendersFit, OnSchedule
<1>2. epoch \in Epochs
  BY DEF SendInv, SendTyped
<1>3. CASE \E g \in Hoppers : SendStep(g)
  BY <1>3, SlotStep, WriteStep DEF SendStep
<1>4. CASE MoveClock \/ LearnPeer \/ UNCHANGED hopVars
  BY <1>1, <1>2, <1>4 DEF MoveClock, LearnPeer, hopVars, SendSide
<1>5. CASE UNCHANGED <<schedule, epoch, SendSide, steps, peerKnown>>
  BY <1>1, <1>2, <1>5 DEF SendSide
<1>q. QED
  BY <1>3, <1>4, <1>5 DEF HopNext

LEMMA SendInit ==
  ASSUME HopInit
  PROVE  SendInv
<1>1. FirstEpoch \in Epochs
  BY HopAssumption DEF Epochs
<1>2. NotSending \in [at : {"idle", "derive", "cached", "flag", "write"},
                      epoch : Epochs \union {0}, slot : Slots \union {0}] /\ NotSending.at = "idle"
  BY DEF NotSending
<1>3. \A S : <<>> \in Seq(S) /\ DOMAIN <<>> = {}
  OBVIOUS
<1>q. QED
  BY <1>1, <1>2, <1>3 DEF HopInit, SendInv, SendTyped, CacheFits, SendersFit, OnSchedule

(* A sender is where the schedule says for the clock it read, whatever     *)
(* other senders do to the cache and the operator to the clock             *)
(* (currentSlot), for any number of senders, any schedule and port list.   *)
THEOREM HopsOnSchedule == HopSpec => []OnSchedule
<1>1. HopInit => SendInv
  BY SendInit
<1>2. SendInv /\ [HopNext]_hopVars => SendInv'
  BY SendKept
<1>3. SendInv => OnSchedule
  BY DEF SendInv
<1>q. QED
  BY <1>1, <1>2, <1>3, PTL DEF HopSpec


\* The receiving side.  A number is sent to one port only, and none is ahead of the count.
ReceiveTyped ==
  /\ sock \in [Bound -> Seq(Nat)] /\ rd \in [Bound -> Seq(Nat)]
  /\ taken \in Seq(Nat) /\ hopRx \in Seq(Nat)
  /\ ToSet(Handed) \subseteq 1..sends /\ spilled \subseteq 1..sends
OnePort == \A p, q \in Bound : p # q => Mine(p) \intersect Mine(q) = {}
PortsInv == SendInv /\ ReceiveTyped /\ OnePort /\ PortsKept

(* Splitting a sequence and putting it together again.                     *)
LEMMA SplitSeq ==
  ASSUME NEW s \in Seq(Nat), NEW n \in 1..Len(s)
  PROVE  /\ SubSeq(s, 1, n) \in Seq(Nat) /\ SubSeq(s, n + 1, Len(s)) \in Seq(Nat)
         /\ SubSeq(s, 1, n) \o SubSeq(s, n + 1, Len(s)) = s
<1>1. Len(s) \in Nat /\ n \in Nat /\ n <= Len(s) /\ DOMAIN s = 1..Len(s)
      /\ \A i \in 1..Len(s) : s[i] \in Nat
  BY LenProperties, ElementOfSeq
<1>2. SubSeq(s, 1, n) \in Seq(Nat)
  <2>1. \A i \in 1..n : s[i] \in Nat
    BY <1>1
  <2>2. 1 \in Int /\ n \in Int
    BY <1>1
  <2>q. QED
    BY <2>1, <2>2, SubSeqProperties
<1>3. SubSeq(s, n + 1, Len(s)) \in Seq(Nat)
  <2>1. \A i \in n + 1 .. Len(s) : s[i] \in Nat
    BY <1>1
  <2>2. n + 1 \in Int /\ Len(s) \in Int
    BY <1>1
  <2>q. QED
    BY <2>1, <2>2, SubSeqProperties
<1>4. SubSeq(s, 1, n) \o SubSeq(s, n + 1, Len(s)) = SubSeq(s, 1, Len(s))
  <2>1. 1 \in 1..Len(s) + 1 /\ n \in 1 - 1 .. Len(s) /\ Len(s) \in n..Len(s)
    BY <1>1
  <2>q. QED
    BY <2>1, ConcatAdjacentSubSeq
<1>q. QED
  BY <1>2, <1>3, <1>4, SubSeqFull

(* Appending at the end of a concatenation.                                *)
LEMMA ConcatAppend ==
  ASSUME NEW a \in Seq(Nat), NEW b \in Seq(Nat), NEW x \in Nat
  PROVE  a \o Append(b, x) = Append(a \o b, x) /\ a \o b \in Seq(Nat)
<1>1. <<x>> \in Seq(Nat) /\ a \o b \in Seq(Nat)
  BY ConcatProperties
<1>2. Append(b, x) = b \o <<x>> /\ Append(a \o b, x) = (a \o b) \o <<x>>
  BY <1>1, AppendIsConcat
<1>q. QED
  BY <1>1, <1>2, ConcatAssociative

(* Taking from the front of a concatenation.                               *)
LEMMA ConcatTail ==
  ASSUME NEW a \in Seq(Nat), NEW b \in Seq(Nat), a # <<>>
  PROVE  /\ Tail(a) \o b = Tail(a \o b) /\ Head(a) = Head(a \o b) /\ a \o b # <<>>
         /\ Tail(a) \in Seq(Nat) /\ Head(a) \in Nat
<1>1. /\ Head(a) \in Nat /\ Tail(a) \in Seq(Nat) /\ Len(Tail(a)) = Len(a) - 1
      /\ \A i \in 1..Len(Tail(a)) : Tail(a)[i] = a[i + 1]
  BY HeadTailProperties
<1>2. Len(a) \in Nat /\ Len(a) >= 1 /\ Len(b) \in Nat
  BY EmptySeq, LenProperties
<1>3. /\ a \o b \in Seq(Nat) /\ Len(a \o b) = Len(a) + Len(b)
      /\ \A i \in 1..Len(a) + Len(b) : (a \o b)[i] = IF i <= Len(a) THEN a[i] ELSE b[i - Len(a)]
  BY ConcatProperties
<1>4. a \o b # <<>>
  BY <1>2, <1>3, EmptySeq
<1>5. /\ Tail(a \o b) \in Seq(Nat) /\ Len(Tail(a \o b)) = Len(a \o b) - 1
      /\ \A i \in 1..Len(Tail(a \o b)) : Tail(a \o b)[i] = (a \o b)[i + 1]
  BY <1>3, <1>4, HeadTailProperties
<1>6. /\ Tail(a) \o b \in Seq(Nat) /\ Len(Tail(a) \o b) = Len(Tail(a)) + Len(b)
      /\ \A i \in 1..Len(Tail(a)) + Len(b) :
           (Tail(a) \o b)[i] = IF i <= Len(Tail(a)) THEN Tail(a)[i] ELSE b[i - Len(Tail(a))]
  BY <1>1, ConcatProperties
<1>7. Len(Tail(a) \o b) = Len(Tail(a \o b))
  BY <1>1, <1>2, <1>3, <1>5, <1>6
<1>8. ASSUME NEW i \in 1..Len(Tail(a) \o b) PROVE (Tail(a) \o b)[i] = Tail(a \o b)[i]
  <2>1. /\ Tail(a \o b)[i] = (a \o b)[i + 1] /\ i + 1 \in 1..Len(a) + Len(b)
    BY <1>2, <1>3, <1>5, <1>7, <1>8
  <2>2. CASE i <= Len(a) - 1
    BY <2>1, <2>2, <1>1, <1>2, <1>3, <1>6, <1>8
  <2>3. CASE ~(i <= Len(a) - 1)
    <3>1. i - (Len(a) - 1) = (i + 1) - Len(a)
      BY <1>2
    <3>q. QED
      BY <2>1, <2>3, <3>1, <1>1, <1>2, <1>3, <1>6, <1>8
  <2>q. QED
    BY <2>2, <2>3
<1>9. Tail(a) \o b = Tail(a \o b)
  BY <1>5, <1>6, <1>7, <1>8, SeqEqual
<1>10. Head(a) = Head(a \o b)
  <2>1. (a \o b)[1] = a[1]
    BY <1>2, <1>3
  <2>q. QED
    BY <2>1
<1>q. QED
  BY <1>1, <1>4, <1>9, <1>10

(* Moving the first of b to the end of a leaves their concatenation.       *)
LEMMA ConcatMove ==
  ASSUME NEW a \in Seq(Nat), NEW b \in Seq(Nat), b # <<>>
  PROVE  Append(a, Head(b)) \o Tail(b) = a \o b
<1>1. Head(b) \in Nat /\ Tail(b) \in Seq(Nat) /\ <<Head(b)>> \in Seq(Nat)
  BY HeadTailProperties
<1>2. <<Head(b)>> \o Tail(b) = b
  <2>1. Len(b) \in Nat /\ Len(b) >= 1
    BY EmptySeq
  <2>2. Tail(b) = SubSeq(b, 2, Len(b)) /\ SubSeq(b, 1, Len(b)) = b /\ Head(b) = b[1]
    BY TailIsSubSeq, SubSeqFull
  <2>3. 1 \in 1..Len(b) /\ Len(b) \in 1..Len(b)
    BY <2>1
  <2>4. SubSeq(b, 1, Len(b)) = <<b[1]>> \o SubSeq(b, 1 + 1, Len(b))
    BY <2>3, SubSeqRecursiveFirst
  <2>q. QED
    BY <2>2, <2>4
<1>3. Append(a, Head(b)) = a \o <<Head(b)>>
  BY <1>1, AppendIsConcat
<1>4. (a \o <<Head(b)>>) \o Tail(b) = a \o (<<Head(b)>> \o Tail(b))
  BY <1>1, ConcatAssociative
<1>q. QED
  BY <1>2, <1>3, <1>4

(* Order, when a number joins at the end or leaves at the front.           *)
LEMMA OrderAppend ==
  ASSUME NEW s \in Seq(Nat), NEW x \in Nat, NEW M, InOrder(s, M),
         x \in M => \A n \in ToSet(s) \intersect M : n < x
  PROVE  InOrder(Append(s, x), M) /\ ToSet(Append(s, x)) = ToSet(s) \union {x}
<1>1. /\ Append(s, x) \in Seq(Nat) /\ Len(Append(s, x)) = Len(s) + 1
      /\ \A i \in 1..Len(s) : Append(s, x)[i] = s[i] /\ Append(s, x)[Len(s) + 1] = x
      /\ Append(s, x)[Len(s) + 1] = x
  BY AppendProperties
<1>2. Len(s) \in Nat /\ DOMAIN s = 1..Len(s) /\ DOMAIN Append(s, x) = 1..Len(s) + 1
  BY <1>1, LenProperties
<1> DEFINE t == Append(s, x)
<1> HIDE DEF t
<1>3. /\ \A i \in 1..Len(s) : t[i] = s[i] /\ i \in DOMAIN t
      /\ t[Len(s) + 1] = x /\ Len(s) + 1 \in DOMAIN t
      /\ \A i \in DOMAIN t : i \in 1..Len(s) \/ i = Len(s) + 1
  BY <1>1, <1>2 DEF t
<1>4. ToSet(t) = ToSet(s) \union {x}
  BY <1>2, <1>3 DEF ToSet
<1>5. InOrder(t, M)
  <2> SUFFICES ASSUME NEW i \in DOMAIN t, NEW j \in DOMAIN t, i < j, t[i] \in M, t[j] \in M
               PROVE  t[i] < t[j]
    BY DEF InOrder
  <2>1. i \in 1..Len(s)
    BY <1>2, <1>3 DEF t
  <2>2. CASE j \in 1..Len(s)
    BY <2>1, <2>2, <1>2, <1>3 DEF InOrder
  <2>3. CASE j = Len(s) + 1
    <3>1. t[i] \in ToSet(s) /\ t[j] = x
      BY <2>1, <2>3, <1>2, <1>3 DEF ToSet
    <3>q. QED
      BY <3>1
  <2>q. QED
    BY <2>2, <2>3, <1>3
<1>q. QED
  BY <1>4, <1>5 DEF t

LEMMA OrderTail ==
  ASSUME NEW s \in Seq(Nat), s # <<>>, NEW M, InOrder(s, M), ToSet(s) \subseteq M
  PROVE  /\ InOrder(Tail(s), M) /\ ToSet(s) = ToSet(Tail(s)) \union {Head(s)}
         /\ \A m \in ToSet(Tail(s)) : Head(s) < m
<1>1. /\ Tail(s) \in Seq(Nat) /\ Len(Tail(s)) = Len(s) - 1
      /\ \A i \in 1..Len(Tail(s)) : Tail(s)[i] = s[i + 1]
  BY HeadTailProperties
<1>2. /\ Len(s) \in Nat /\ Len(s) >= 1 /\ DOMAIN s = 1..Len(s) /\ DOMAIN Tail(s) = 1..Len(s) - 1
      /\ Head(s) = s[1]
  BY <1>1, EmptySeq, LenProperties
<1> DEFINE t == Tail(s)
<1> HIDE DEF t
<1>3. /\ \A i \in DOMAIN t : i \in 1..Len(s) - 1 /\ t[i] = s[i + 1] /\ i + 1 \in DOMAIN s
      /\ 1 \in DOMAIN s /\ \A i \in DOMAIN s : i = 1 \/ (i - 1 \in DOMAIN t /\ t[i - 1] = s[i])
  BY <1>1, <1>2 DEF t
<1>4. \A i \in DOMAIN s : s[i] \in M
  BY DEF ToSet
<1>5. InOrder(t, M)
  BY <1>2, <1>3, <1>4 DEF InOrder
<1>6. ToSet(s) = ToSet(t) \union {s[1]}
  BY <1>3 DEF ToSet
<1>7. ASSUME NEW m \in ToSet(t) PROVE s[1] < m
  <2>1. PICK i \in DOMAIN t : m = t[i]
    BY <1>7 DEF ToSet
  <2>2. m = s[i + 1] /\ i + 1 \in DOMAIN s /\ 1 < i + 1 /\ 1 \in DOMAIN s
    BY <2>1, <1>2, <1>3
  <2>3. s[1] \in M /\ s[i + 1] \in M
    BY <2>2, <1>4
  <2>q. QED
    BY <2>2, <2>3 DEF InOrder
<1>q. QED
  BY <1>2, <1>5, <1>6, <1>7 DEF t

\* What PortsKept says of a port: M was sent to it, W waits in its socket and its
\* reader, H was handed to the channel, by all the readers, and Sp found it full.
Kept(M, H, W, Sp) ==
  /\ InOrder(H, M) /\ InOrder(W, M)
  /\ \A n \in ToSet(H) \intersect M, m \in ToSet(W) : n < m
  /\ M = ToSet(W) \union ((ToSet(H) \union Sp) \intersect M)
  /\ Sp \intersect (ToSet(H) \union ToSet(W)) = {}

\* A new number arrives at the port it was sent to.
LEMMA KeptWrite ==
  ASSUME NEW M, NEW H \in Seq(Nat), NEW W \in Seq(Nat), NEW Sp, Kept(M, H, W, Sp),
         NEW n \in Nat, M \subseteq 1..n, ToSet(H) \subseteq 1..n, Sp \subseteq 1..n
  PROVE  Kept(M \union {n + 1}, H, Append(W, n + 1), Sp)
<1> DEFINE N == M \union {n + 1}
<1>1. ToSet(W) \subseteq M /\ InOrder(W, M) /\ InOrder(H, M)
  BY DEF Kept
<1>2. /\ \A i \in DOMAIN H : H[i] \in ToSet(H)
      /\ \A i \in DOMAIN W : W[i] \in ToSet(W)
  BY DEF ToSet
<1>3. \A k \in 1..n : k # n + 1 /\ k < n + 1
  OBVIOUS
<1>4. InOrder(H, N) /\ InOrder(W, N)
  BY <1>1, <1>2, <1>3 DEF InOrder
<1>5. \A k \in ToSet(W) \intersect N : k < n + 1
  BY <1>1, <1>3
<1>6. /\ InOrder(Append(W, n + 1), N)
      /\ ToSet(Append(W, n + 1)) = ToSet(W) \union {n + 1}
  BY <1>4, <1>5, OrderAppend
<1>7. \A k \in ToSet(H) \intersect N, m \in ToSet(Append(W, n + 1)) : k < m
  BY <1>3, <1>6 DEF Kept
<1>8. N = ToSet(Append(W, n + 1)) \union ((ToSet(H) \union Sp) \intersect N)
  BY <1>3, <1>6 DEF Kept
<1>9. Sp \intersect (ToSet(H) \union ToSet(Append(W, n + 1))) = {}
  BY <1>3, <1>6 DEF Kept
<1>q. QED
  BY <1>4, <1>6, <1>7, <1>8, <1>9 DEF Kept

\* The first that waits is handed over, or dropped.
LEMMA KeptHandOver ==
  ASSUME NEW M, NEW H \in Seq(Nat), NEW W \in Seq(Nat), NEW Sp, Kept(M, H, W, Sp), W # <<>>
  PROVE  /\ Kept(M, Append(H, Head(W)), Tail(W), Sp)
         /\ Kept(M, H, Tail(W), Sp \union {Head(W)})
         /\ Head(W) \in M /\ Head(W) \notin ToSet(H) /\ Head(W) \notin Sp
<1> DEFINE x == Head(W)
           T == Tail(W)
<1>1. ToSet(W) \subseteq M /\ InOrder(W, M) /\ InOrder(H, M)
  BY DEF Kept
<1>2. x \in Nat /\ T \in Seq(Nat)
  BY HeadTailProperties
<1>3. InOrder(T, M) /\ ToSet(W) = ToSet(T) \union {x} /\ \A m \in ToSet(T) : x < m
  BY <1>1, OrderTail
<1>4. \A k \in ToSet(H) \intersect M : k < x
  BY <1>3 DEF Kept
<1>5. InOrder(Append(H, x), M) /\ ToSet(Append(H, x)) = ToSet(H) \union {x}
  BY <1>1, <1>2, <1>4, OrderAppend
<1>6. x \in M /\ x \notin ToSet(T) /\ x \notin ToSet(H) /\ x \notin Sp
  <2>1. x \in M /\ x \notin Sp
    BY <1>1, <1>3 DEF Kept
  <2>2. ~(x < x)
    BY <1>2
  <2>q. QED
    BY <1>3, <1>4, <2>1, <2>2
<1>7. /\ \A k \in ToSet(H) \intersect M, m \in ToSet(T) : k < m
      /\ M = ToSet(T) \union {x} \union ((ToSet(H) \union Sp) \intersect M)
      /\ Sp \intersect (ToSet(H) \union ToSet(T)) = {}
  BY <1>3 DEF Kept
<1> HIDE DEF x, T
<1>8. Kept(M, Append(H, x), T, Sp)
  BY <1>3, <1>5, <1>6, <1>7 DEF Kept
<1>9. Kept(M, H, T, Sp \union {x})
  BY <1>1, <1>3, <1>6, <1>7 DEF Kept
<1>q. QED
  BY <1>6, <1>8, <1>9 DEF x, T

\* What is handed over or dropped elsewhere is none of a port's business.
LEMMA KeptElsewhere ==
  ASSUME NEW M, NEW H \in Seq(Nat), NEW W \in Seq(Nat), NEW Sp, Kept(M, H, W, Sp),
         NEW x \in Nat, x \notin M, x \notin Sp, x \notin ToSet(H)
  PROVE  Kept(M, Append(H, x), W, Sp) /\ Kept(M, H, W, Sp \union {x})
<1>1. InOrder(Append(H, x), M) /\ ToSet(Append(H, x)) = ToSet(H) \union {x}
  BY OrderAppend DEF Kept
<1>q. QED
  BY <1>1 DEF Kept

LEMMA PortsTold == PortsKept <=> \A p \in Bound : Kept(Mine(p), Handed, Waiting(p), spilled)
BY DEF PortsKept, Kept

(* What the receiving side holds, as sequences of numbers.                 *)
LEMMA ReceiveFacts ==
  ASSUME SendInv, ReceiveTyped
  PROVE  /\ sends \in Nat /\ Handed \in Seq(Nat)
         /\ \A p \in Bound : /\ rd[p] \in Seq(Nat) /\ sock[p] \in Seq(Nat)
                             /\ Waiting(p) \in Seq(Nat) /\ Mine(p) \subseteq 1..sends
<1>1. sends \in Nat /\ Handed \in Seq(Nat)
  BY ConcatProperties DEF SendInv, SendTyped, ReceiveTyped, Handed
<1>2. ASSUME NEW p \in Bound
      PROVE  /\ rd[p] \in Seq(Nat) /\ sock[p] \in Seq(Nat)
             /\ Waiting(p) \in Seq(Nat) /\ Mine(p) \subseteq 1..sends
  <2>1. rd[p] \in Seq(Nat) /\ sock[p] \in Seq(Nat)
    BY <1>2 DEF ReceiveTyped
  <2>2. Waiting(p) \in Seq(Nat)
    BY <2>1, ConcatProperties DEF Waiting
  <2>3. onWire[p] \in Seq([n : 1..sends, epoch : Epochs])
    BY <1>2 DEF SendInv, SendTyped
  <2>4. \A i \in DOMAIN onWire[p] : onWire[p][i] \in [n : 1..sends, epoch : Epochs]
    BY <2>3, ElementOfSeq, LenProperties
  <2>q. QED
    BY <2>1, <2>2, <2>4 DEF Mine
<1>q. QED
  BY <1>1, <1>2

(* A write: one more number, sent to one port.                             *)
LEMMA WritePorts ==
  ASSUME PortsInv, NEW g \in Hoppers, Write(g)
  PROVE  ReceiveTyped' /\ OnePort' /\ PortsKept'
<1> DEFINE x == sends + 1
           d == [n |-> x, epoch |-> send[g].epoch]
<1>0. PICK p \in Bound : p = HopPorts[send[g].slot]
  BY WriteFacts DEF PortsInv
<1>1. /\ sends' = x /\ sends \in Nat
      /\ onWire' = [onWire EXCEPT ![p] = Append(onWire[p], d)]
      /\ sock' = [sock EXCEPT ![p] = Append(sock[p], x)]
      /\ rd' = rd /\ hopRx' = hopRx /\ taken' = taken /\ spilled' = spilled
  BY <1>0, WriteFacts DEF PortsInv
<1>2. /\ onWire \in [Bound -> Seq([n : 1..sends, epoch : Epochs])] /\ d.n = x
      /\ sock \in [Bound -> Seq(Nat)] /\ rd \in [Bound -> Seq(Nat)]
      /\ ToSet(Handed) \subseteq 1..sends /\ spilled \subseteq 1..sends
      /\ taken \in Seq(Nat) /\ hopRx \in Seq(Nat)
  BY DEF PortsInv, SendInv, SendTyped, ReceiveTyped
<1>3. /\ Handed \in Seq(Nat) /\ Handed' = Handed
      /\ \A q \in Bound : /\ Waiting(q) \in Seq(Nat) /\ Mine(q) \subseteq 1..sends
                          /\ rd[q] \in Seq(Nat) /\ sock[q] \in Seq(Nat)
  BY <1>1, ReceiveFacts DEF PortsInv, Handed
<1>4. x \in Nat /\ x \notin 1..sends /\ 1..sends \subseteq 1..x /\ x \in 1..x
  BY <1>1
<1> HIDE DEF x, d
<1>5. ReceiveTyped'
  <2>1. Append(sock[p], x) \in Seq(Nat)
    BY <1>1, <1>3, <1>4, AppendProperties
  <2>2. sock' \in [Bound -> Seq(Nat)]
    BY <2>1, <1>1, <1>2
  <2>q. QED
    BY <2>2, <1>1, <1>2, <1>3, <1>4 DEF ReceiveTyped
<1>6. ASSUME NEW q \in Bound \ {p} PROVE Mine(q)' = Mine(q) /\ Waiting(q)' = Waiting(q)
  <2>1. onWire'[q] = onWire[q] /\ sock'[q] = sock[q]
    BY <1>1, <1>2, <1>6
  <2>q. QED
    BY <2>1, <1>1 DEF Mine, Waiting
<1>7. Mine(p)' = Mine(p) \union {x}
  <2>1. onWire[p] \in Seq([n : 1..sends, epoch : Epochs]) /\ onWire'[p] = Append(onWire[p], d)
    BY <1>1, <1>2
  <2>2. /\ \A i \in DOMAIN onWire[p] : i \in DOMAIN onWire'[p] /\ onWire'[p][i] = onWire[p][i]
        /\ \E i \in DOMAIN onWire'[p] : onWire'[p][i] = d
        /\ \A i \in DOMAIN onWire'[p] :
             onWire'[p][i] = d \/ (i \in DOMAIN onWire[p] /\ onWire'[p][i] = onWire[p][i])
    <3> DEFINE s == onWire[p]
               D == [n : 1..sends, epoch : Epochs]
    <3> HIDE DEF s, D
    <3>1. s \in Seq(D) /\ onWire'[p] = Append(s, d)
      BY <2>1 DEF s, D
    <3>2. /\ Len(s) \in Nat /\ DOMAIN s = 1..Len(s)
          /\ DOMAIN Append(s, d) = 1..Len(s) + 1 /\ Append(s, d)[Len(s) + 1] = d
          /\ \A i \in 1..Len(s) : Append(s, d)[i] = s[i]
      BY <3>1
    <3>3. Len(s) + 1 \in 1..Len(s) + 1 /\ \A i \in 1..Len(s) + 1 : i \in 1..Len(s) \/ i = Len(s) + 1
      BY <3>2
    <3>4. 1..Len(s) \subseteq 1..Len(s) + 1
      BY <3>2
    <3>q. QED
      BY <3>1, <3>2, <3>3, <3>4 DEF s
  <2>3. ASSUME NEW k \in Mine(p)' PROVE k \in Mine(p) \union {x}
    <3>1. PICK i \in DOMAIN onWire'[p] : k = onWire'[p][i].n
      BY <2>3 DEF Mine
    <3>q. QED
      BY <3>1, <2>2, <1>2 DEF Mine
  <2>4. ASSUME NEW k \in Mine(p) PROVE k \in Mine(p)'
    <3>1. PICK i \in DOMAIN onWire[p] : k = onWire[p][i].n
      BY <2>4 DEF Mine
    <3>q. QED
      BY <3>1, <2>2 DEF Mine
  <2>5. x \in Mine(p)'
    BY <2>2, <1>2 DEF Mine
  <2>q. QED
    BY <2>3, <2>4, <2>5
<1>8. Waiting(p)' = Append(Waiting(p), x)
  <2>1. sock'[p] = Append(sock[p], x) /\ rd[p] \in Seq(Nat) /\ sock[p] \in Seq(Nat)
    BY <1>1, <1>2
  <2>2. rd[p] \o Append(sock[p], x) = Append(rd[p] \o sock[p], x)
    BY <2>1, <1>4, ConcatAppend
  <2>q. QED
    BY <2>1, <2>2, <1>1 DEF Waiting
<1>9. OnePort'
  <2> SUFFICES ASSUME NEW q \in Bound, NEW r \in Bound, q # r
               PROVE  Mine(q)' \intersect Mine(r)' = {}
    BY DEF OnePort, Bound
  <2>1. Mine(q) \intersect Mine(r) = {} /\ x \notin Mine(q) /\ x \notin Mine(r)
    BY <1>3, <1>4 DEF PortsInv, OnePort
  <2>2. CASE q # p /\ r # p
    BY <2>1, <2>2, <1>6
  <2>3. CASE q = p
    BY <2>1, <2>3, <1>6, <1>7
  <2>4. CASE r = p
    BY <2>1, <2>4, <1>6, <1>7
  <2>q. QED
    BY <2>2, <2>3, <2>4
<1>10. \A q \in Bound : Kept(Mine(q), Handed, Waiting(q), spilled)
  BY PortsTold DEF PortsInv
<1>11. Kept(Mine(p) \union {x}, Handed, Append(Waiting(p), x), spilled)
  BY <1>1, <1>2, <1>3, <1>10, KeptWrite DEF x
<1>12. ASSUME NEW q \in Bound PROVE Kept(Mine(q)', Handed', Waiting(q)', spilled')
  <2>1. Handed' = Handed /\ spilled' = spilled
    BY <1>1, <1>3
  <2>2. CASE q = p
    BY <2>1, <2>2, <1>7, <1>8, <1>11
  <2>3. CASE q # p
    <3>1. Mine(q)' = Mine(q) /\ Waiting(q)' = Waiting(q)
      BY <2>3, <1>6
    <3>q. QED
      BY <2>1, <3>1, <1>10
  <2>q. QED
    BY <2>2, <2>3
<1>13. PortsKept'
  BY <1>1, <1>12 DEF PortsKept, Kept, Bound
<1>q. QED
  BY <1>5, <1>9, <1>13

(* A read moves what waits from the socket to its reader.                  *)
LEMMA ReadPorts ==
  ASSUME PortsInv, NEW p \in Bound, ReadSocket(p), UNCHANGED <<schedule, epoch, SendSide>>
  PROVE  ReceiveTyped' /\ OnePort' /\ PortsKept'
<1>1. PICK n \in 1..Len(sock[p]) :
        /\ rd' = [rd EXCEPT ![p] = SubSeq(sock[p], 1, n)]
        /\ sock' = [sock EXCEPT ![p] = SubSeq(@, n + 1, Len(@))]
  BY DEF ReadSocket
<1>2. /\ rd[p] = <<>> /\ sock \in [Bound -> Seq(Nat)] /\ rd \in [Bound -> Seq(Nat)]
      /\ sock[p] \in Seq(Nat)
      /\ UNCHANGED <<hopRx, taken, spilled, sends, onWire>>
  BY DEF PortsInv, ReceiveTyped, ReadSocket, SendSide
<1>3. /\ rd'[p] = SubSeq(sock[p], 1, n) /\ sock'[p] = SubSeq(sock[p], n + 1, Len(sock[p]))
      /\ \A q \in Bound \ {p} : rd'[q] = rd[q] /\ sock'[q] = sock[q]
  BY <1>1, <1>2
<1>4. /\ rd'[p] \in Seq(Nat) /\ sock'[p] \in Seq(Nat) /\ rd'[p] \o sock'[p] = sock[p]
  <2>1. /\ SubSeq(sock[p], 1, n) \in Seq(Nat) /\ SubSeq(sock[p], n + 1, Len(sock[p])) \in Seq(Nat)
        /\ SubSeq(sock[p], 1, n) \o SubSeq(sock[p], n + 1, Len(sock[p])) = sock[p]
    BY <1>2, SplitSeq
  <2>q. QED
    BY <2>1, <1>3
<1>5. <<>> \o sock[p] = sock[p]
  BY <1>2, ConcatEmptySeq
<1>6. \A q \in Bound : Waiting(q)' = Waiting(q) /\ Mine(q)' = Mine(q)
  BY <1>2, <1>3, <1>4, <1>5 DEF Waiting, Mine
<1>7. Handed' = Handed
  BY <1>2 DEF Handed
<1>8. ReceiveTyped'
  <2>1. rd' \in [Bound -> Seq(Nat)] /\ sock' \in [Bound -> Seq(Nat)]
    BY <1>1, <1>2, <1>3, <1>4
  <2>q. QED
    BY <2>1, <1>2, <1>7 DEF PortsInv, ReceiveTyped
<1>q. QED
  BY <1>2, <1>6, <1>7, <1>8 DEF PortsInv, OnePort, PortsKept

(* A reader hands its first on, or drops it: both leave every port's order.*)
LEMMA HandPorts ==
  ASSUME PortsInv, NEW p \in Bound, HandOver(p), UNCHANGED <<schedule, epoch, SendSide>>
  PROVE  ReceiveTyped' /\ OnePort' /\ PortsKept'
<1> DEFINE x == Head(rd[p])
<1>1. /\ rd[p] # <<>> /\ rd' = [rd EXCEPT ![p] = Tail(rd[p])]
      /\ \/ hopRx' = Append(hopRx, x) /\ spilled' = spilled
         \/ spilled' = spilled \union {x} /\ hopRx' = hopRx
      /\ UNCHANGED <<sock, taken, sends, onWire>>
  BY DEF HandOver, SendSide
<1>2. /\ sock \in [Bound -> Seq(Nat)] /\ rd \in [Bound -> Seq(Nat)]
      /\ taken \in Seq(Nat) /\ hopRx \in Seq(Nat)
      /\ ToSet(Handed) \subseteq 1..sends /\ spilled \subseteq 1..sends
  BY DEF PortsInv, ReceiveTyped
<1>3. /\ Handed \in Seq(Nat)
      /\ \A q \in Bound : /\ Waiting(q) \in Seq(Nat) /\ Mine(q) \subseteq 1..sends
                          /\ rd[q] \in Seq(Nat) /\ sock[q] \in Seq(Nat)
  BY ReceiveFacts DEF PortsInv
<1>4. /\ Tail(rd[p]) \o sock[p] = Tail(Waiting(p)) /\ x = Head(Waiting(p)) /\ Waiting(p) # <<>>
      /\ Tail(rd[p]) \in Seq(Nat) /\ x \in Nat
  BY <1>1, <1>3, ConcatTail DEF Waiting
<1> HIDE DEF x
<1>5. /\ Waiting(p)' = Tail(Waiting(p))
      /\ \A q \in Bound \ {p} : Waiting(q)' = Waiting(q)
      /\ \A q \in Bound : Mine(q)' = Mine(q)
  BY <1>1, <1>2, <1>4 DEF Waiting, Mine
<1>6. \A q \in Bound : Kept(Mine(q), Handed, Waiting(q), spilled)
  BY PortsTold DEF PortsInv
<1>7. /\ Kept(Mine(p), Append(Handed, x), Tail(Waiting(p)), spilled)
      /\ Kept(Mine(p), Handed, Tail(Waiting(p)), spilled \union {x})
      /\ x \in Mine(p) /\ x \notin ToSet(Handed) /\ x \notin spilled
  BY <1>3, <1>4, <1>6, KeptHandOver
<1>8. ASSUME NEW q \in Bound \ {p}
      PROVE  /\ Kept(Mine(q), Append(Handed, x), Waiting(q), spilled)
             /\ Kept(Mine(q), Handed, Waiting(q), spilled \union {x})
  <2>1. x \notin Mine(q)
    BY <1>7, <1>8 DEF PortsInv, OnePort
  <2>q. QED
    BY <2>1, <1>3, <1>4, <1>6, <1>7, <1>8, KeptElsewhere
<1>9. \/ Handed' = Append(Handed, x) /\ spilled' = spilled
      \/ Handed' = Handed /\ spilled' = spilled \union {x}
  <2>1. taken \o Append(hopRx, x) = Append(taken \o hopRx, x)
    BY <1>2, <1>4, ConcatAppend
  <2>q. QED
    BY <2>1, <1>1 DEF Handed
<1>10. ASSUME NEW q \in Bound PROVE Kept(Mine(q)', Handed', Waiting(q)', spilled')
  BY <1>5, <1>7, <1>8, <1>9, <1>10
<1>11. PortsKept'
  BY <1>10 DEF PortsKept, Kept
<1>12. ReceiveTyped'
  <2>1. rd' \in [Bound -> Seq(Nat)] /\ hopRx' \in Seq(Nat)
    <3>1. Append(hopRx, x) \in Seq(Nat)
      BY <1>2, <1>4, AppendProperties
    <3>q. QED
      BY <3>1, <1>1, <1>2, <1>4
  <2>2. x \in 1..sends
    BY <1>3, <1>7
  <2>3. ToSet(Append(Handed, x)) = ToSet(Handed) \union {x}
    <3>1. InOrder(Handed, {})
      BY DEF InOrder
    <3>q. QED
      BY <3>1, <1>3, <1>4, OrderAppend
  <2>q. QED
    BY <2>1, <2>2, <2>3, <1>1, <1>2, <1>9 DEF ReceiveTyped
<1>13. OnePort'
  BY <1>5 DEF PortsInv, OnePort
<1>q. QED
  BY <1>11, <1>12, <1>13

(* Recv takes the first from the channel: what was handed over stays.      *)
LEMMA RecvPorts ==
  ASSUME PortsInv, Recv, UNCHANGED <<schedule, epoch, SendSide>>
  PROVE  ReceiveTyped' /\ OnePort' /\ PortsKept'
<1>1. /\ hopRx # <<>> /\ taken' = Append(taken, Head(hopRx)) /\ hopRx' = Tail(hopRx)
      /\ UNCHANGED <<sock, rd, spilled, sends, onWire>>
      /\ taken \in Seq(Nat) /\ hopRx \in Seq(Nat)
  BY DEF PortsInv, ReceiveTyped, Recv, SendSide
<1>2. Head(hopRx) \in Nat /\ Tail(hopRx) \in Seq(Nat)
  BY <1>1, HeadTailProperties
<1>3. taken' \in Seq(Nat) /\ hopRx' \in Seq(Nat)
  BY <1>1, <1>2, AppendProperties
<1>4. Handed' = Handed
  BY <1>1, ConcatMove DEF Handed
<1>5. \A q \in Bound : Waiting(q)' = Waiting(q) /\ Mine(q)' = Mine(q)
  BY <1>1 DEF Waiting, Mine
<1>q. QED
  BY <1>1, <1>3, <1>4, <1>5 DEF PortsInv, ReceiveTyped, OnePort, PortsKept

LEMMA PortsStep ==
  ASSUME PortsInv, [HopNext]_hopVars
  PROVE  PortsInv'
<1>1. SendInv'
  BY SendKept DEF PortsInv
<1>2. ASSUME UNCHANGED <<sends, onWire, sock, rd, hopRx, taken, spilled>>
      PROVE  ReceiveTyped' /\ OnePort' /\ PortsKept'
  <2>1. Handed' = Handed /\ \A p \in Bound : Waiting(p)' = Waiting(p) /\ Mine(p)' = Mine(p)
    BY <1>2 DEF Handed, Waiting, Mine
  <2>q. QED
    BY <2>1, <1>2 DEF PortsInv, ReceiveTyped, OnePort, PortsKept
<1>3. CASE \E g \in Hoppers : SendStep(g)
  BY <1>1, <1>2, <1>3, WritePorts DEF SendStep, ReceiveSide, PortsInv
<1>4. CASE MoveClock \/ LearnPeer \/ UNCHANGED hopVars
  BY <1>1, <1>2, <1>4 DEF MoveClock, LearnPeer, hopVars, SendSide, ReceiveSide, PortsInv
<1>5. CASE /\ \E p \in Bound : ReadSocket(p) \/ HandOver(p)
           /\ UNCHANGED <<schedule, epoch, SendSide, steps, peerKnown>>
  BY <1>1, <1>5, ReadPorts, HandPorts DEF PortsInv
<1>6. CASE Recv /\ UNCHANGED <<schedule, epoch, SendSide, steps, peerKnown>>
  BY <1>1, <1>6, RecvPorts DEF PortsInv
<1>q. QED
  BY <1>3, <1>4, <1>5, <1>6 DEF HopNext

LEMMA PortsInit ==
  ASSUME HopInit
  PROVE  PortsInv
<1>1. SendInv
  BY SendInit
<1>2. <<>> \in Seq(Nat) /\ DOMAIN <<>> = {} /\ <<>> \o <<>> = <<>>
  BY EmptySeq, ConcatEmptySeq
<1>3. ToSet(<<>>) = {}
  BY <1>2 DEF ToSet
<1>4. Handed = <<>> /\ \A p \in Bound : Waiting(p) = <<>> /\ Mine(p) = {}
  BY <1>2 DEF HopInit, Handed, Waiting, Mine
<1>5. ReceiveTyped /\ OnePort
  BY <1>2, <1>3, <1>4 DEF HopInit, ReceiveTyped, OnePort
<1>6. PortsKept
  BY <1>2, <1>3, <1>4 DEF HopInit, PortsKept, InOrder
<1>q. QED
  BY <1>1, <1>5, <1>6 DEF PortsInv

(* Whatever the kernel coalesces and however slow the consumer is, a port's*)
(* datagrams reach Recv in order, each at most once, and none vanishes but *)
(* into a full channel (recvLoop, Recv), for any room and number of ports. *)
THEOREM PortsStayInOrder == HopSpec => []PortsKept
<1>1. HopInit => PortsInv
  BY PortsInit
<1>2. PortsInv /\ [HopNext]_hopVars => PortsInv'
  BY PortsStep
<1>3. PortsInv => PortsKept
  BY DEF PortsInv
<1>q. QED
  BY <1>1, <1>2, <1>3, PTL DEF HopSpec
-----------------------------------------------------------------------------
(* The link (WsLink).                                                      *)

\* Beside its types: a task that is about to write has a connection to write to.
LinkTyped ==
  /\ conn \in [Ends -> Conns \cup {None}]
  /\ open \in [Ends -> [Conns -> BOOLEAN]]
  /\ pc \in [Tasks -> {"idle", "announce", "want", "write", "hold"}]
  /\ with \in [Tasks -> Conns \cup {None}]
  /\ wmu \in [Ends -> Tasks \cup {Free}]
  /\ dialed \in 0..MaxConns /\ admitted \subseteq 1..dialed
  /\ pings \in [Ends -> 0..MaxPings]
PipesFit(p) ==
  /\ p \in [Ends -> [Conns -> Seq(Frames)]]
  /\ \A e \in Ends, c \in Conns : Len(p[e][c]) <= Window
HoldsLock == \A g \in Tasks : pc[g] = "write" <=> wmu[g[1]] = g
MeansToWrite == \A g \in Tasks : pc[g] \in {"want", "write"} => with[g] \in Conns
LinkInv == LinkTyped /\ PipesFit(pipe) /\ HoldsLock /\ MeansToWrite

(* Ends and tasks, spelled out.                                            *)
LEMMA LinkFacts ==
  /\ None \notin Conns
  /\ Dialer \in Tasks /\ Dialer[1] = "dialer" /\ Free \notin Tasks
  /\ \A e \in Ends : /\ Far(e) \in Ends /\ Receiver(e) \in Tasks /\ Receiver(e)[1] = e
                     /\ Receiver(e) # Dialer /\ <<e, "pump">> \in Tasks /\ <<e, "pump">>[1] = e
                     /\ <<e, "pump">> # Dialer
  /\ \A g \in Tasks : g[1] \in Ends
<1>1. None \notin Conns
  BY LinkAssumption DEF None, Conns, LinkAssumption
<1>2. Dialer \in Tasks /\ Dialer[1] = "dialer"
  BY DEF Tasks, Dialer
<1>3. Free \notin Tasks
  BY DEF Tasks, Free, Ends
<1>4. ASSUME NEW e \in Ends
      PROVE  /\ Far(e) \in Ends /\ Receiver(e) \in Tasks /\ Receiver(e)[1] = e
             /\ Receiver(e) # Dialer /\ <<e, "pump">> \in Tasks /\ <<e, "pump">>[1] = e
             /\ <<e, "pump">> # Dialer
  BY DEF Ends, Tasks, Dialer, Receiver, Far
<1>5. \A g \in Tasks : g[1] \in Ends
  BY DEF Tasks, Ends
<1>6. QED
  BY <1>1, <1>2, <1>3, <1>4, <1>5

(* What is discarded with a closed leg leaves pipes that fit.              *)
LEMMA UnreadFits ==
  ASSUME NEW p, PipesFit(p), NEW legs
  PROVE  PipesFit(Unread(p, legs))
<1> DEFINE u == Unread(p, legs)
<1>1. \A e \in Ends, c \in Conns : u[e][c] = p[e][c] \/ u[e][c] = <<>>
  BY DEF Unread
<1>2. DOMAIN u = Ends /\ \A e \in Ends : DOMAIN u[e] = Conns
  BY DEF Unread
<1>3. ASSUME NEW e \in Ends, NEW c \in Conns
      PROVE  u[e][c] \in Seq(Frames) /\ Len(u[e][c]) <= Window
  <2>1. p[e][c] \in Seq(Frames) /\ Len(p[e][c]) <= Window
    BY DEF PipesFit
  <2>2. <<>> \in Seq(Frames) /\ Len(<<>>) <= Window
    BY LinkAssumption DEF LinkAssumption
  <2>3. QED
    BY <1>1, <2>1, <2>2
<1>4. u = [e \in Ends |-> [c \in Conns |-> u[e][c]]]
  BY DEF Unread
<1> HIDE DEF u
<1>5. u \in [Ends -> [Conns -> Seq(Frames)]]
  BY <1>3, <1>4
<1>6. QED
  BY <1>3, <1>5 DEF PipesFit, u

(* A frame is added where there is room, and one is taken.                 *)
LEMMA PipeSteps ==
  ASSUME NEW p, PipesFit(p), NEW e \in Ends, NEW c \in Conns
  PROVE  /\ \A frame \in Frames :
              Len(p[e][c]) < Window => PipesFit([p EXCEPT ![e][c] = Append(@, frame)])
         /\ p[e][c] # <<>> => PipesFit([p EXCEPT ![e][c] = Tail(@)])
<1>1. p[e][c] \in Seq(Frames) /\ Len(p[e][c]) \in Nat /\ Len(p[e][c]) <= Window /\ Window \in Nat
  BY LinkAssumption DEF PipesFit, LinkAssumption
<1>2. ASSUME NEW q \in Seq(Frames), Len(q) <= Window
      PROVE  PipesFit([p EXCEPT ![e][c] = q])
  <2> DEFINE n == [p EXCEPT ![e][c] = q]
  <2>1. n \in [Ends -> [Conns -> Seq(Frames)]]
    BY DEF PipesFit
  <2>2. \A f \in Ends, d \in Conns : n[f][d] = IF f = e /\ d = c THEN q ELSE p[f][d]
    BY DEF PipesFit
  <2> HIDE DEF n
  <2>3. PipesFit(n)
    BY <1>2, <2>1, <2>2 DEF PipesFit
  <2>4. QED
    BY <2>3 DEF n
<1>3. ASSUME NEW frame \in Frames, Len(p[e][c]) < Window
      PROVE  PipesFit([p EXCEPT ![e][c] = Append(@, frame)])
  <2>1. /\ Append(p[e][c], frame) \in Seq(Frames)
        /\ Len(Append(p[e][c], frame)) <= Window
    BY <1>1, <1>3
  <2>2. QED
    BY <1>2, <2>1
<1>4. ASSUME p[e][c] # <<>>
      PROVE  PipesFit([p EXCEPT ![e][c] = Tail(@)])
  <2>1. Tail(p[e][c]) \in Seq(Frames) /\ Len(Tail(p[e][c])) <= Window
    BY <1>1, <1>4
  <2>2. QED
    BY <1>2, <2>1
<1>5. QED
  BY <1>3, <1>4

(* An end gets another connection, or none.                                *)
LEMMA InstalledFits ==
  ASSUME LinkTyped, NEW e \in Ends, NEW c \in Conns \cup {None},
         NEW legs \in [Ends -> [Conns -> BOOLEAN]], NEW p, PipesFit(p),
         Installed(e, c, legs, p)
  PROVE  /\ conn' \in [Ends -> Conns \cup {None}]
         /\ open' \in [Ends -> [Conns -> BOOLEAN]] /\ PipesFit(pipe')
<1>1. pipe' = Unread(p, open')
  BY DEF Installed
<1>2. conn' \in [Ends -> Conns \cup {None}]
  BY DEF Installed, LinkTyped
<1>3. open' \in [Ends -> [Conns -> BOOLEAN]]
  BY DEF Installed
<1>4. QED
  BY <1>1, <1>2, <1>3, UnreadFits
(* An end closes its leg.                                                  *)
LEMMA CloseFits ==
  ASSUME LinkTyped, PipesFit(pipe), NEW e \in Ends, NEW c, Close(e, c)
  PROVE  open' \in [Ends -> [Conns -> BOOLEAN]] /\ PipesFit(pipe')
<1>1. pipe' = Unread(pipe, open')
  BY DEF Close
<1>2. open' \in [Ends -> [Conns -> BOOLEAN]]
  BY DEF Close, LinkTyped
<1>3. QED
  BY <1>1, <1>2, UnreadFits

(* A task that neither takes nor gives up the lock moves on.               *)
LEMMA TaskMoves ==
  ASSUME LinkInv, NEW g \in Tasks, NEW to \in {"idle", "announce", "want", "hold"},
         pc[g] # "write", wmu' = wmu, pc' = [pc EXCEPT ![g] = to],
         \/ with' = with /\ to # "want"
         \/ \E c \in Conns : with' = [with EXCEPT ![g] = c]
  PROVE  /\ pc' \in [Tasks -> {"idle", "announce", "want", "write", "hold"}]
         /\ with' \in [Tasks -> Conns \cup {None}]
         /\ wmu' \in [Ends -> Tasks \cup {Free}] /\ HoldsLock' /\ MeansToWrite'
<1>1. /\ pc' \in [Tasks -> {"idle", "announce", "want", "write", "hold"}]
      /\ with' \in [Tasks -> Conns \cup {None}] /\ wmu' \in [Ends -> Tasks \cup {Free}]
  BY DEF LinkInv, LinkTyped
<1>2. \A h \in Tasks : (pc'[h] = "write" <=> pc[h] = "write") /\ (h # g => pc'[h] = pc[h])
  BY DEF LinkInv, LinkTyped
<1>3. pc'[g] = to /\ \A h \in Tasks : h # g => with'[h] = with[h]
  BY DEF LinkInv, LinkTyped
<1>4. HoldsLock'
  BY <1>2 DEF LinkInv, HoldsLock
<1>5. to = "want" => with'[g] \in Conns
  BY DEF LinkInv, LinkTyped
<1>6. MeansToWrite'
  BY <1>2, <1>3, <1>5 DEF LinkInv, MeansToWrite
<1>7. QED
  BY <1>1, <1>4, <1>6

(* A task gets ready to write, waits for the lock and has it.              *)
LEMMA LinkSendStep ==
  ASSUME LinkInv, NEW g \in Tasks,
         \/ Begin(g, "idle") \/ Begin(g, "announce") \/ Lock(g)
  PROVE  LinkInv'
<1>1. CASE Begin(g, "idle") \/ Begin(g, "announce")
  <2>1. /\ pc[g] # "write" /\ pc' = [pc EXCEPT ![g] = "want"] /\ wmu' = wmu
        /\ conn[g[1]] # None /\ with' = [with EXCEPT ![g] = conn[g[1]]]
        /\ UNCHANGED <<conn, open, pipe, dialed, admitted, pings>>
    BY <1>1 DEF Begin
  <2>2. conn[g[1]] \in Conns
    BY <2>1, LinkFacts DEF LinkInv, LinkTyped
  <2>3. /\ pc' \in [Tasks -> {"idle", "announce", "want", "write", "hold"}]
        /\ with' \in [Tasks -> Conns \cup {None}]
        /\ wmu' \in [Ends -> Tasks \cup {Free}] /\ HoldsLock' /\ MeansToWrite'
    BY <2>1, <2>2, TaskMoves
  <2>4. QED
    BY <2>1, <2>3 DEF LinkInv, LinkTyped
<1>2. CASE Lock(g)
  <2>1. /\ pc[g] = "want" /\ wmu[g[1]] = Free /\ wmu' = [wmu EXCEPT ![g[1]] = g]
        /\ pc' = [pc EXCEPT ![g] = "write"]
        /\ UNCHANGED <<conn, open, pipe, with, dialed, admitted, pings>>
    BY <1>2 DEF Lock
  <2>2. /\ pc' \in [Tasks -> {"idle", "announce", "want", "write", "hold"}]
        /\ wmu' \in [Ends -> Tasks \cup {Free}] /\ g[1] \in Ends
        /\ wmu'[g[1]] = g /\ \A e \in Ends : e # g[1] => wmu'[e] = wmu[e]
        /\ pc'[g] = "write" /\ \A h \in Tasks : h # g => pc'[h] = pc[h]
    BY <2>1, LinkFacts DEF LinkInv, LinkTyped
  <2>3. HoldsLock'
    <3> SUFFICES ASSUME NEW h \in Tasks PROVE pc'[h] = "write" <=> wmu'[h[1]] = h
      BY DEF HoldsLock
    <3>1. CASE h = g
      BY <3>1, <2>2
    <3>2. CASE h # g /\ h[1] = g[1]
      BY <3>2, <2>1, <2>2, LinkFacts DEF LinkInv, HoldsLock
    <3>3. CASE h # g /\ h[1] # g[1]
      BY <3>3, <2>2, LinkFacts DEF LinkInv, HoldsLock
    <3>4. QED
      BY <3>1, <3>2, <3>3
  <2>4. MeansToWrite'
    BY <2>1, <2>2 DEF LinkInv, MeansToWrite
  <2>5. QED
    BY <2>1, <2>2, <2>3, <2>4 DEF LinkInv, LinkTyped
<1>3. QED
  BY <1>1, <1>2

(* It writes, and lets the next one have the lock.                         *)
LEMMA LinkWriteStep ==
  ASSUME LinkInv, NEW g \in Tasks, WriteTo(g)
  PROVE  LinkInv'
<1> DEFINE to == IF g = Dialer THEN "hold" ELSE "idle"
<1>1. /\ pc[g] = "write" /\ wmu' = [wmu EXCEPT ![g[1]] = Free]
      /\ pc' = [pc EXCEPT ![g] = to] /\ with' = [with EXCEPT ![g] = None]
      /\ UNCHANGED <<conn, open, dialed, admitted, pings>>
  BY DEF WriteTo
<1>2. wmu[g[1]] = g /\ g[1] \in Ends /\ with[g] \in Conns
  BY <1>1, LinkFacts DEF LinkInv, HoldsLock, MeansToWrite
<1>3. PipesFit(pipe')
  <2> DEFINE frame == IF g[2] = "recv" THEN "pong" ELSE "data"
  <2>1. frame \in Frames
    BY DEF Frames
  <2>2. \/ pipe' = pipe
        \/ /\ Len(pipe[g[1]][with[g]]) < Window
           /\ pipe' = [pipe EXCEPT ![g[1]][with[g]] = Append(@, frame)]
    BY DEF WriteTo, Room
  <2> HIDE DEF frame
  <2>3. PipesFit(pipe)
    BY DEF LinkInv
  <2>4. ASSUME Len(pipe[g[1]][with[g]]) < Window
        PROVE  PipesFit([pipe EXCEPT ![g[1]][with[g]] = Append(@, frame)])
    BY <2>1, <2>3, <2>4, <1>2, PipeSteps
  <2>5. QED
    BY <2>2, <2>3, <2>4
<1>4. /\ pc' \in [Tasks -> {"idle", "announce", "want", "write", "hold"}]
      /\ wmu' \in [Ends -> Tasks \cup {Free}] /\ with' \in [Tasks -> Conns \cup {None}]
      /\ wmu'[g[1]] = Free /\ \A e \in Ends : e # g[1] => wmu'[e] = wmu[e]
      /\ pc'[g] = to /\ \A h \in Tasks : h # g => pc'[h] = pc[h] /\ with'[h] = with[h]
  BY <1>1, <1>2 DEF LinkInv, LinkTyped
<1>5. HoldsLock'
  <2> SUFFICES ASSUME NEW h \in Tasks PROVE pc'[h] = "write" <=> wmu'[h[1]] = h
    BY DEF HoldsLock
  <2>1. CASE h[1] = g[1]
    <3>1. wmu'[h[1]] # h
      BY <2>1, <1>4, LinkFacts
    <3>2. h # g => pc[h] # "write"
      BY <2>1, <1>2 DEF LinkInv, HoldsLock
    <3>3. QED
      BY <3>1, <3>2, <1>4
  <2>2. CASE h[1] # g[1]
    BY <2>2, <1>4, LinkFacts DEF LinkInv, HoldsLock
  <2>3. QED
    BY <2>1, <2>2
<1>6. MeansToWrite'
  BY <1>4 DEF LinkInv, MeansToWrite
<1>7. QED
  BY <1>1, <1>3, <1>4, <1>5, <1>6 DEF LinkInv, LinkTyped

(* A frame is read; a ping makes its reader a writer.                      *)
LEMMA LinkReadStep ==
  ASSUME LinkInv, NEW e \in Ends, Read(e)
  PROVE  LinkInv'
<1> DEFINE c == conn[e]
           g == Receiver(e)
<1>1. /\ pc[g] = "idle" /\ c # None /\ pipe[Far(e)][c] # <<>> /\ wmu' = wmu
      /\ pipe' = [pipe EXCEPT ![Far(e)][c] = Tail(@)]
      /\ \/ pc' = [pc EXCEPT ![g] = "want"] /\ with' = [with EXCEPT ![g] = c]
         \/ UNCHANGED <<pc, with>>
      /\ UNCHANGED <<conn, open, dialed, admitted, pings>>
  BY DEF Read
<1>2. c \in Conns /\ g \in Tasks /\ Far(e) \in Ends
  <2>1. c \in Conns
    BY <1>1, LinkFacts DEF LinkInv, LinkTyped
  <2>2. QED
    BY <2>1, LinkFacts
<1> HIDE DEF c, g
<1>3. PipesFit(pipe')
  BY <1>1, <1>2, PipeSteps DEF LinkInv
<1>4. CASE pc' = [pc EXCEPT ![g] = "want"] /\ with' = [with EXCEPT ![g] = c]
  <2>1. /\ pc' \in [Tasks -> {"idle", "announce", "want", "write", "hold"}]
        /\ with' \in [Tasks -> Conns \cup {None}]
        /\ wmu' \in [Ends -> Tasks \cup {Free}] /\ HoldsLock' /\ MeansToWrite'
    BY <1>1, <1>2, <1>4, TaskMoves
  <2>2. QED
    BY <1>1, <1>3, <2>1 DEF LinkInv, LinkTyped
<1>5. CASE UNCHANGED <<pc, with>>
  BY <1>1, <1>3, <1>5 DEF LinkInv, LinkTyped, HoldsLock, MeansToWrite
<1>6. QED
  BY <1>1, <1>4, <1>5

(* A leg is closed, by the kernel, the deadline or the CDN.                *)
LEMMA LinkCloseStep ==
  ASSUME LinkInv, NEW e \in Ends, NEW c, Close(e, c),
         UNCHANGED <<conn, wmu, pc, with, dialed, admitted, pings>>
  PROVE  LinkInv'
<1>1. open' \in [Ends -> [Conns -> BOOLEAN]] /\ PipesFit(pipe')
  BY CloseFits DEF LinkInv
<1>2. QED
  BY <1>1 DEF LinkInv, LinkTyped, HoldsLock, MeansToWrite

(* The dial loop's own steps.                                              *)
LEMMA LinkDialStep ==
  ASSUME LinkInv, Dial \/ Redial \/ Watch \/ SkipAnnounce
  PROVE  LinkInv'
<1>1. PICK to \in {"idle", "announce", "hold"} :
        pc[Dialer] # "write" /\ pc' = [pc EXCEPT ![Dialer] = to]
  BY DEF Dial, Redial, Watch, SkipAnnounce
<1>2. UNCHANGED <<wmu, with, admitted, pings>>
  BY DEF Dial, Redial, Watch, SkipAnnounce
<1>3. /\ pc' \in [Tasks -> {"idle", "announce", "want", "write", "hold"}]
      /\ with' \in [Tasks -> Conns \cup {None}]
      /\ wmu' \in [Ends -> Tasks \cup {Free}] /\ HoldsLock' /\ MeansToWrite'
  BY <1>1, <1>2, TaskMoves, LinkFacts
<1>4. /\ conn' \in [Ends -> Conns \cup {None}] /\ open' \in [Ends -> [Conns -> BOOLEAN]]
      /\ PipesFit(pipe') /\ dialed' \in 0..MaxConns /\ dialed <= dialed'
  <2>0. LinkTyped /\ PipesFit(pipe) /\ MaxConns \in Nat /\ dialed \in 0..MaxConns
    BY LinkAssumption DEF LinkInv, LinkTyped, LinkAssumption
  <2>1. CASE Dial
    <3> DEFINE legs == [f \in Ends |-> [open[f] EXCEPT ![dialed + 1] = TRUE]]
    <3>1. /\ dialed < MaxConns /\ dialed' = dialed + 1
          /\ Installed("dialer", dialed + 1, legs, pipe)
      BY <2>1 DEF Dial
    <3>2. dialed + 1 \in Conns /\ dialed' \in 0..MaxConns /\ dialed <= dialed'
      BY <2>0, <3>1 DEF Conns
    <3>3. legs \in [Ends -> [Conns -> BOOLEAN]]
      BY <2>0 DEF LinkTyped
    <3> HIDE DEF legs
    <3>4. "dialer" \in Ends
      BY DEF Ends
    <3>5. QED
      BY <2>0, <3>1, <3>2, <3>3, <3>4, InstalledFits
  <2>2. CASE Watch
    <3>1. Installed("dialer", None, open, pipe) /\ dialed' = dialed
      BY <2>2 DEF Watch
    <3>2. "dialer" \in Ends /\ open \in [Ends -> [Conns -> BOOLEAN]]
      BY <2>0 DEF Ends, LinkTyped
    <3>3. QED
      BY <2>0, <3>1, <3>2, InstalledFits
  <2>3. CASE Redial \/ SkipAnnounce
    <3>1. UNCHANGED <<conn, open, pipe, dialed>>
      BY <2>3 DEF Redial, SkipAnnounce
    <3>2. QED
      BY <2>0, <3>1 DEF LinkTyped
  <2>4. QED
    BY <2>1, <2>2, <2>3
<1>5. admitted' \subseteq 1..dialed'
  BY <1>2, <1>4, LinkAssumption DEF LinkInv, LinkTyped, LinkAssumption
<1>6. QED
  BY <1>2, <1>3, <1>4, <1>5 DEF LinkInv, LinkTyped

(* The listener admits a connection, or skips a control frame before it.   *)
LEMMA LinkAdmitStep ==
  ASSUME LinkInv, NEW c \in Conns, Admit(c)
  PROVE  LinkInv'
<1> DEFINE rest == [pipe EXCEPT !["dialer"][c] = Tail(@)]
<1>1. /\ c \in (1..dialed) \ admitted /\ pipe["dialer"][c] # <<>>
      /\ \/ admitted' = admitted \cup {c} /\ Installed("listener", c, open, rest)
         \/ pipe' = rest /\ UNCHANGED <<admitted, conn, open>>
      /\ UNCHANGED <<wmu, pc, with, dialed, pings>>
  BY DEF Admit
<1>2. {"dialer", "listener"} \subseteq Ends
  BY DEF Ends
<1>3. PipesFit(rest)
  BY <1>1, <1>2, PipeSteps DEF LinkInv
<1> HIDE DEF rest
<1>4. /\ conn' \in [Ends -> Conns \cup {None}]
      /\ open' \in [Ends -> [Conns -> BOOLEAN]] /\ PipesFit(pipe')
  <2>1. CASE Installed("listener", c, open, rest)
    BY <2>1, <1>2, <1>3, InstalledFits DEF LinkInv, LinkTyped
  <2>2. CASE pipe' = rest /\ UNCHANGED <<admitted, conn, open>>
    BY <2>2, <1>3 DEF LinkInv, LinkTyped
  <2>3. QED
    BY <1>1, <2>1, <2>2
<1>5. admitted' \subseteq 1..dialed'
  BY <1>1 DEF LinkInv, LinkTyped
<1>6. QED
  BY <1>1, <1>4, <1>5 DEF LinkInv, LinkTyped, HoldsLock, MeansToWrite

(* Every step of the link keeps the invariant.                             *)
LEMMA LinkNextStep ==
  ASSUME LinkInv, [Next]_vars
  PROVE  LinkInv'
<1>1. ASSUME NEW e \in Ends, Begin(<<e, "pump">>, "idle")
      PROVE  LinkInv'
  BY <1>1, LinkSendStep, LinkFacts
<1>2. CASE Begin(Dialer, "announce")
  BY <1>2, LinkSendStep, LinkFacts
<1>3. ASSUME NEW g \in Tasks, Lock(g) \/ WriteTo(g)
      PROVE  LinkInv'
  BY <1>3, LinkSendStep, LinkWriteStep
<1>4. ASSUME NEW e \in Ends, ReadFails(e)
      PROVE  LinkInv'
  <2>1. Installed(e, None, open, pipe) /\ UNCHANGED <<wmu, pc, with, dialed, admitted, pings>>
    BY <1>4 DEF ReadFails
  <2>2. /\ conn' \in [Ends -> Conns \cup {None}]
        /\ open' \in [Ends -> [Conns -> BOOLEAN]] /\ PipesFit(pipe')
    BY <2>1, InstalledFits DEF LinkInv, LinkTyped
  <2>3. QED
    BY <2>1, <2>2 DEF LinkInv, LinkTyped, HoldsLock, MeansToWrite
<1>5. ASSUME NEW e \in Ends, UserTimeout(e)
      PROVE  LinkInv'
  BY <1>5, LinkCloseStep DEF UserTimeout
<1>6. ASSUME NEW e \in Ends, NEW c \in Conns, Ping(e, c)
      PROVE  LinkInv'
  <2>1. /\ pings[e] < MaxPings /\ pings' = [pings EXCEPT ![e] = @ + 1]
        /\ Len(pipe[Far(e)][c]) < Window /\ "ping" \in Frames
        /\ pipe' = [pipe EXCEPT ![Far(e)][c] = Append(@, "ping")]
        /\ UNCHANGED <<conn, open, wmu, pc, with, dialed, admitted>>
    BY <1>6 DEF Ping, Room, Frames
  <2>2. PipesFit(pipe')
    BY <2>1, LinkFacts, PipeSteps DEF LinkInv
  <2>3. pings' \in [Ends -> 0..MaxPings]
    <3>1. pings[e] + 1 \in 0..MaxPings
      BY <2>1, LinkAssumption DEF LinkInv, LinkTyped, LinkAssumption
    <3>2. QED
      BY <2>1, <3>1 DEF LinkInv, LinkTyped
  <2>4. QED
    BY <2>1, <2>2, <2>3 DEF LinkInv, LinkTyped, HoldsLock, MeansToWrite
<1>7. ASSUME NEW e \in Ends, NEW c \in Conns, PassOn(e, c)
      PROVE  LinkInv'
  BY <1>7, LinkCloseStep DEF PassOn
<1>8. ASSUME NEW c \in Conns, AdmitTimeout(c)
      PROVE  LinkInv'
  <2>1. "listener" \in Ends
    BY DEF Ends
  <2>2. QED
    BY <1>8, <2>1, LinkCloseStep DEF AdmitTimeout
<1>9. CASE UNCHANGED vars
  BY <1>9 DEF vars, LinkInv, LinkTyped, HoldsLock, MeansToWrite
<1>10. QED
  BY <1>1, <1>2, <1>3, <1>4, <1>5, <1>6, <1>7, <1>8, <1>9,
     LinkReadStep, LinkDialStep, LinkAdmitStep DEF Next

(* However both ends are pinged, block, time out and redial: whoever is    *)
(* writing holds the lock of its end, alone, and no pipe overflows (Send,  *)
(* sendControl, writeTo).                                                  *)
THEOREM OneWriterAtATime == Spec => []TypeOK
<1>1. Init => LinkInv
  <2> SUFFICES ASSUME Init PROVE LinkInv
    OBVIOUS
  <2>1. LinkTyped
    BY LinkAssumption DEF Init, LinkTyped, LinkAssumption, None
  <2>2. PipesFit(pipe)
    <3>1. <<>> \in Seq(Frames) /\ Len(<<>>) <= Window
      BY LinkAssumption DEF LinkAssumption
    <3>2. QED
      BY <3>1 DEF Init, PipesFit
  <2>3. HoldsLock /\ MeansToWrite
    BY LinkFacts DEF Init, HoldsLock, MeansToWrite
  <2>4. QED
    BY <2>1, <2>2, <2>3 DEF LinkInv
<1>2. LinkInv /\ [Next]_vars => LinkInv'
  BY LinkNextStep
<1>3. LinkInv => TypeOK
  BY DEF LinkInv, LinkTyped, PipesFit, HoldsLock, TypeOK
<1>4. QED
  BY <1>1, <1>2, <1>3, PTL DEF Spec

-----------------------------------------------------------------------------
(* The bulk path.                                                          *)

BulkSpec == BulkInit /\ [][BulkNext]_bulkVars

Datagram == Seq(Nat \X Nat)
Ids(ds) == {Id(ds[i]) : i \in DOMAIN ds}

\* A buffer is these pieces, one after the other: all of one length but the last.
Off(i, seg) == (i - 1) * seg
Splits(buf, seg, ds) ==
  /\ buf \in Datagram /\ ds \in Seq(Datagram) /\ seg \in Nat \ {0} /\ Len(ds) > 0
  /\ \A i \in 1..Len(ds) : Len(ds[i]) \in 1..seg /\ (i < Len(ds) => Len(ds[i]) = seg)
  /\ Len(buf) = Off(Len(ds), seg) + Len(ds[Len(ds)])
  /\ \A i \in 1..Len(ds) : \A j \in 1..Len(ds[i]) : buf[Off(i, seg) + j] = ds[i][j]

\* The last datagram that has joined a batch, and the last that has left it again.
LastIn == Len(sealed) - (IF pump.held = <<>> THEN 0 ELSE 1)
LastOut == LastIn - batch.count

PumpKept ==
  /\ path \in Paths /\ sealed \in Seq(Lengths)
  /\ pump \in [at : {"read", "drain", "flush", "flushFirst", "rest"}, held : Datagram]
  /\ pump.held # <<>> <=> pump.at \in {"flushFirst", "rest"}
  /\ pump.held # <<>> => Len(sealed) > 0 /\ pump.held = Whole(Len(sealed))
  /\ pump.at = "rest" => batch = EmptyBatch

\* The batch is the datagrams since LastOut; a UDP batch falls into them when cut.
Slotted ==
  /\ Len(batch.slots) = batch.count /\ LastOut \in Nat
  /\ \A i \in 1..batch.count : batch.slots[i] = Whole(LastOut + i)
  /\ IdsIn(batch.buf) = LastOut + 1..LastIn
OneLength ==
  path \in {"gso", "udp"} /\ batch.count > 0 =>
    /\ Splits(batch.buf, batch.segSize, batch.slots)
    /\ \A i \in 1..batch.count : Len(batch.slots[i]) = batch.segSize
BatchKept ==
  /\ batch \in [buf : Datagram, slots : Seq(Datagram), segSize : Nat, count : Nat]
  /\ Slotted /\ OneLength
  /\ batch.count = 0 => batch.buf = <<>>
  /\ path \in {"udp", "single"} => batch.count <= 1
  /\ path = "gso" /\ batch.count > 1 => batch.count <= MaxSegments /\ Len(batch.buf) <= MaxBytes

\* What left: it was handed over, waits in the reader to be cut off, or is on the wire.
Pending == IF reader.pend = <<>> THEN <<>> ELSE Cut(reader.pend, reader.seg)
Wire == (opened \o Pending) \o air
WireKept ==
  /\ reader \in [pend : Datagram, seg : Nat]
  /\ opened \in Seq(Datagram) /\ air \in Seq(Datagram) /\ Pending \in Seq(Datagram)
  /\ reader.pend # <<>> => Splits(reader.pend, reader.seg, Pending)

\* It is as it was sealed, and in order; the rest was given up.
Orderly(ds, upto) ==
  /\ \A i \in DOMAIN ds : Id(ds[i]) \in 1..upto /\ ds[i] = Whole(Id(ds[i]))
  /\ \A i, j \in DOMAIN ds : i < j => Id(ds[i]) < Id(ds[j])
Shared == Ids(Wire) \union unsent = 1..LastOut /\ Ids(Wire) \intersect unsent = {}

BulkInv == PumpKept /\ BatchKept /\ WireKept /\ Orderly(Wire, LastOut) /\ Shared

-----------------------------------------------------------------------------


(* One piece more is one length more.                                      *)
LEMMA OffFacts ==
  ASSUME NEW seg \in Nat \ {0}, NEW i \in Nat \ {0}
  PROVE  /\ Off(i, seg) \in Nat /\ Off(1, seg) = 0
         /\ Off(i + 1, seg) = Off(i, seg) + seg /\ i * seg = Off(i, seg) + seg
<1>1. /\ (i - 1) * seg \in Nat /\ (1 - 1) * seg = 0
      /\ ((i + 1) - 1) * seg = (i - 1) * seg + seg /\ i * seg = (i - 1) * seg + seg
  BY Z3
<1>2. QED
  BY <1>1 DEF Off
LEMMA OffGrows ==
  ASSUME NEW seg \in Nat \ {0}, NEW i \in Nat \ {0}, NEW j \in Nat \ {0}, i < j
  PROVE  Off(i, seg) + seg <= Off(j, seg)
<1>1. i <= j - 1 /\ i \in Nat /\ j - 1 \in Nat /\ seg \in Nat
  OBVIOUS
<1>2. i * seg <= (j - 1) * seg
  BY <1>1, Z3
<1>3. QED
  BY <1>2, OffFacts DEF Off

\* The piece that holds a position, and where in it.
Piece(k, seg) == ((k - 1) \div seg) + 1
Spot(k, seg) == ((k - 1) % seg) + 1
At(i, j, seg) == Off(i, seg) + j

(* Every position is one of exactly one piece.                             *)
LEMMA Place ==
  ASSUME NEW seg \in Nat \ {0}, NEW k \in Nat \ {0}
  PROVE  /\ Piece(k, seg) \in Nat \ {0} /\ Spot(k, seg) \in 1..seg
         /\ k = Off(Piece(k, seg), seg) + Spot(k, seg)
<1> DEFINE m == k - 1
           q == m \div seg
           r == m % seg
<1>1. m \in Nat /\ k = m + 1
  OBVIOUS
<1> HIDE DEF m
<1>2. q \in Nat /\ r \in 0..seg - 1 /\ m = seg * q + r
  BY <1>1, Z3
<1> HIDE DEF q, r
<1>3. Off(q + 1, seg) = q * seg
  BY <1>2 DEF Off
<1>4. q * seg = seg * q /\ q * seg \in Nat
  BY <1>2, Z3
<1>5. k = Off(q + 1, seg) + (r + 1)
  BY <1>1, <1>2, <1>3, <1>4
<1>6. QED
  BY <1>2, <1>5 DEF m, q, r, Piece, Spot
LEMMA PlaceOnly ==
  ASSUME NEW seg \in Nat \ {0}, NEW i \in Nat \ {0}, NEW j \in 1..seg
  PROVE  /\ Piece(At(i, j, seg), seg) = i /\ Spot(At(i, j, seg), seg) = j
         /\ At(i, j, seg) = Off(i, seg) + j
<1> DEFINE k == At(i, j, seg)
           a == Piece(k, seg)
           b == Spot(k, seg)
<1>1. k \in Nat \ {0} /\ Off(i, seg) \in Nat
  <2>1. Off(i, seg) \in Nat
    BY OffFacts
  <2>2. QED
    BY <2>1 DEF At
<1>2. a \in Nat \ {0} /\ b \in 1..seg /\ k = Off(a, seg) + b
  <2> HIDE DEF k
  <2>1. QED
    BY <1>1, Place
<1>3. k = Off(i, seg) + j
  BY DEF At
<1> HIDE DEF k, a, b
<1>4. Off(a, seg) \in Nat
  BY <1>2, OffFacts
<1>5. ~(i < a)
  <2> SUFFICES ASSUME i < a PROVE FALSE
    OBVIOUS
  <2>1. Off(i, seg) + seg <= Off(a, seg)
    BY <1>2, OffGrows
  <2>2. QED
    BY <2>1, <1>1, <1>2, <1>3, <1>4
<1>6. ~(a < i)
  <2> SUFFICES ASSUME a < i PROVE FALSE
    OBVIOUS
  <2>1. Off(a, seg) + seg <= Off(i, seg)
    BY <1>2, OffGrows
  <2>2. QED
    BY <2>1, <1>1, <1>2, <1>3, <1>4
<1>7. a = i
  BY <1>2, <1>5, <1>6
<1>8. b = j
  BY <1>1, <1>2, <1>3, <1>7
<1>9. QED
  BY <1>3, <1>7, <1>8 DEF a, b, k

(* Where the pieces lie.                                                   *)
LEMMA PieceFacts ==
  ASSUME NEW buf, NEW seg, NEW ds, Splits(buf, seg, ds), NEW i \in 1..Len(ds)
  PROVE  /\ seg \in Nat \ {0} /\ Len(ds) \in Nat /\ Len(buf) \in Nat
         /\ ds[i] \in Datagram /\ Len(ds[i]) \in 1..seg /\ (i < Len(ds) => Len(ds[i]) = seg)
         /\ Off(i, seg) \in Nat /\ Off(i, seg) + Len(ds[i]) <= Len(buf)
         /\ Lesser(i * seg, Len(buf)) = Off(i, seg) + Len(ds[i])
<1>1. /\ buf \in Datagram /\ ds \in Seq(Datagram) /\ seg \in Nat \ {0} /\ Len(ds) \in Nat
      /\ Len(buf) \in Nat /\ i \in Nat \ {0} /\ i <= Len(ds) /\ Len(ds) \in Nat \ {0}
      /\ Len(ds[i]) \in 1..seg /\ (i < Len(ds) => Len(ds[i]) = seg)
      /\ ds[i] \in Datagram
      /\ Len(buf) = Off(Len(ds), seg) + Len(ds[Len(ds)]) /\ Len(ds[Len(ds)]) \in 1..seg
  <2>1. /\ buf \in Datagram /\ ds \in Seq(Datagram) /\ seg \in Nat \ {0} /\ Len(ds) > 0
        /\ Len(buf) = Off(Len(ds), seg) + Len(ds[Len(ds)])
        /\ \A k \in 1..Len(ds) : Len(ds[k]) \in 1..seg /\ (k < Len(ds) => Len(ds[k]) = seg)
    BY DEF Splits
  <2>2. Len(ds) \in Nat /\ ds[i] \in Datagram
    BY <2>1, ElementOfSeq
  <2>3. Len(buf) \in Nat
    BY <2>1 DEF Datagram
  <2>4. Len(ds) \in 1..Len(ds) /\ Len(ds) \in Nat \ {0} /\ i \in Nat \ {0} /\ i <= Len(ds)
    BY <2>1, <2>2
  <2>5. QED
    BY <2>1, <2>2, <2>3, <2>4
<1>2. Off(i, seg) \in Nat /\ i * seg = Off(i, seg) + seg /\ Off(Len(ds), seg) \in Nat
  BY <1>1, OffFacts
<1>3. CASE i = Len(ds)
  BY <1>1, <1>2, <1>3 DEF Lesser
<1>4. CASE i < Len(ds)
  <2>1. Off(i, seg) + seg <= Off(Len(ds), seg)
    BY <1>1, <1>4, OffGrows
  <2>2. QED
    BY <1>1, <1>2, <1>4, <2>1 DEF Lesser
<1>5. QED
  BY <1>1, <1>3, <1>4

(* The kernel cuts a buffer into the pieces it was made of.                *)
LEMMA CutIs ==
  ASSUME NEW buf, NEW seg, NEW ds, Splits(buf, seg, ds)
  PROVE  Cut(buf, seg) = ds
<1> DEFINE n == Len(ds)
<1>1. /\ ds \in Seq(Datagram) /\ buf \in Datagram /\ n \in Nat \ {0} /\ seg \in Nat \ {0}
      /\ Len(buf) = Off(n, seg) + Len(ds[n]) /\ n \in 1..n
  BY DEF Splits
<1>2. (Len(buf) + seg - 1) \div seg = n
  <2> HIDE DEF n
  <2>0. n + 1 \in Nat \ {0} /\ n \in Nat \ {0}
    BY <1>1
  <2>1. /\ Len(ds[n]) \in 1..seg /\ Off(n, seg) \in Nat /\ Off(n + 1, seg) = Off(n, seg) + seg
        /\ n + 1 \in Nat \ {0} /\ Off(n + 1, seg) \in Nat
    <3>1. Len(ds[n]) \in 1..seg
      BY PieceFacts, <1>1 DEF n
    <3>2. Off(n, seg) \in Nat /\ Off(n + 1, seg) = Off(n, seg) + seg
      BY <2>0, <1>1, OffFacts
    <3>3. QED
      BY <2>0, <1>1, <3>1, <3>2
  <2>2. Len(buf) + seg - 1 = (Off(n + 1, seg) + Len(ds[n])) - 1
    BY <1>1, <2>1
  <2>3. (((Off(n + 1, seg) + Len(ds[n])) - 1) \div seg) + 1 = n + 1
    <3>1. /\ Piece(At(n + 1, Len(ds[n]), seg), seg) = n + 1
          /\ At(n + 1, Len(ds[n]), seg) = Off(n + 1, seg) + Len(ds[n])
      BY <1>1, <2>1, PlaceOnly
    <3>2. QED
      BY <3>1 DEF Piece
  <2>4. ((Off(n + 1, seg) + Len(ds[n])) - 1) \div seg \in Int
    <3>1. (Off(n + 1, seg) + Len(ds[n])) - 1 \in Nat
      <4>1. Off(n + 1, seg) \in Nat /\ Len(ds[n]) \in Nat \ {0}
        BY <1>1, <2>1
      <4>2. QED
        BY <4>1
    <3>2. QED
      BY <1>1, <3>1, Z3
  <2>5. QED
    BY <1>1, <2>2, <2>3, <2>4
<1>3. ASSUME NEW i \in 1..n
      PROVE  SubSeq(buf, (i - 1) * seg + 1, Lesser(i * seg, Len(buf))) = ds[i]
  <2> DEFINE o == Off(i, seg)
             l == Len(ds[i])
  <2>1. /\ o \in Nat /\ l \in Nat /\ 1 <= l /\ o + l <= Len(buf) /\ Len(buf) \in Nat
        /\ Lesser(i * seg, Len(buf)) = o + l /\ ds[i] \in Datagram
    BY PieceFacts
  <2>2. \A j \in 1..l : buf[o + j] = ds[i][j]
    BY DEF Splits
  <2>3. (i - 1) * seg + 1 = o + 1
    BY DEF Off
  <2> HIDE DEF o
  <2>4. /\ SubSeq(buf, o + 1, o + l) \in Datagram /\ Len(SubSeq(buf, o + 1, o + l)) = l
        /\ \A j \in 1..l : SubSeq(buf, o + 1, o + l)[j] = buf[o + j]
    <3>1. /\ o + 1 \in Int /\ o + l \in Int /\ o + 1 <= o + l
          /\ \A k \in o + 1..o + l : buf[k] \in Nat \X Nat
      <4>1. \A k \in o + 1..o + l : k \in 1..Len(buf)
        BY <2>1
      <4>2. \A k \in 1..Len(buf) : buf[k] \in Nat \X Nat
        BY <1>1, ElementOfSeq DEF Datagram
      <4>3. QED
        BY <2>1, <4>1, <4>2
    <3>2. /\ SubSeq(buf, o + 1, o + l) \in Datagram
          /\ Len(SubSeq(buf, o + 1, o + l)) = (o + l) - (o + 1) + 1
          /\ \A j \in 1..(o + l) - (o + 1) + 1 :
               SubSeq(buf, o + 1, o + l)[j] = buf[(o + 1) + j - 1]
      BY <3>1, SubSeqProperties DEF Datagram
    <3>3. (o + l) - (o + 1) + 1 = l /\ \A j \in 1..l : (o + 1) + j - 1 = o + j
      BY <2>1
    <3>4. QED
      BY <3>2, <3>3
  <2>5. QED
    <3> DEFINE c == SubSeq(buf, o + 1, o + l)
    <3>1. c \in Datagram /\ Len(c) = Len(ds[i]) /\ \A j \in 1..Len(c) : c[j] = ds[i][j]
      BY <2>2, <2>4
    <3> HIDE DEF c
    <3>2. c = ds[i]
      BY <3>1, <2>1, SeqEqual DEF Datagram
    <3>3. QED
      BY <3>2, <2>1, <2>3 DEF c
<1>4. ds = [i \in 1..n |-> ds[i]]
  BY <1>1
<1>5. QED
  BY <1>2, <1>3, <1>4 DEF Cut

(* One datagram is a run of one piece.                                     *)
LEMMA SplitsOne ==
  ASSUME NEW pkt \in Datagram, pkt # <<>>
  PROVE  Splits(pkt, Len(pkt), <<pkt>>)
<1>1. Len(pkt) \in Nat \ {0} /\ Off(1, Len(pkt)) = 0
  BY EmptySeq, OffFacts DEF Datagram
<1>2. <<pkt>> \in Seq(Datagram) /\ Len(<<pkt>>) = 1 /\ <<pkt>>[1] = pkt
  OBVIOUS
<1>3. \A j \in 1..Len(pkt) : pkt[Off(1, Len(pkt)) + j] = pkt[j]
  BY <1>1
<1>4. QED
  BY <1>1, <1>2, <1>3 DEF Splits

(* A piece is added to pieces that are all of the one length.              *)
LEMMA SplitsMore ==
  ASSUME NEW buf, NEW seg, NEW ds, Splits(buf, seg, ds), NEW pkt \in Datagram,
         pkt # <<>>, Len(pkt) <= seg, \A i \in 1..Len(ds) : Len(ds[i]) = seg
  PROVE  Splits(buf \o pkt, seg, Append(ds, pkt))
<1> DEFINE n == Len(ds)
           es == Append(ds, pkt)
<1>1. /\ buf \in Datagram /\ ds \in Seq(Datagram) /\ seg \in Nat \ {0} /\ n \in Nat \ {0}
      /\ Len(buf) \in Nat /\ Len(pkt) \in 1..seg
  BY EmptySeq DEF Splits, Datagram
<1>2. /\ es \in Seq(Datagram) /\ Len(es) = n + 1 /\ es[n + 1] = pkt
      /\ \A i \in 1..n : es[i] = ds[i]
  BY <1>1, AppendProperties
<1>3. Len(buf) = Off(n + 1, seg)
  <2>1. Len(buf) = Off(n, seg) + seg
    BY <1>1 DEF Splits
  <2>2. QED
    BY <2>1, <1>1, OffFacts
<1>4. /\ buf \o pkt \in Datagram /\ Len(buf \o pkt) = Off(n + 1, seg) + Len(pkt)
      /\ \A k \in 1..Len(buf) : (buf \o pkt)[k] = buf[k]
      /\ \A j \in 1..Len(pkt) : (buf \o pkt)[Off(n + 1, seg) + j] = pkt[j]
  <2>1. /\ buf \o pkt \in Datagram /\ Len(buf \o pkt) = Len(buf) + Len(pkt)
        /\ \A k \in 1..Len(buf) + Len(pkt) :
             (buf \o pkt)[k] = IF k <= Len(buf) THEN buf[k] ELSE pkt[k - Len(buf)]
    BY <1>1, ConcatProperties DEF Datagram
  <2>2. \A k \in 1..Len(buf) : (buf \o pkt)[k] = buf[k]
    BY <2>1, <1>1
  <2>3. \A j \in 1..Len(pkt) : (buf \o pkt)[Len(buf) + j] = pkt[j]
    <3> TAKE j \in 1..Len(pkt)
    <3>1. /\ Len(buf) + j \in 1..Len(buf) + Len(pkt) /\ ~(Len(buf) + j <= Len(buf))
          /\ (Len(buf) + j) - Len(buf) = j
      BY <1>1
    <3>2. QED
      BY <2>1, <3>1
  <2>4. QED
    BY <2>1, <2>2, <2>3, <1>3
<1> HIDE DEF n, es
<1>5. \A i \in 1..n + 1 : Len(es[i]) \in 1..seg /\ (i < n + 1 => Len(es[i]) = seg)
  BY <1>1, <1>2 DEF n
<1>6. ASSUME NEW i \in 1..n + 1, NEW j \in 1..Len(es[i])
      PROVE  (buf \o pkt)[Off(i, seg) + j] = es[i][j]
  <2>1. CASE i = n + 1
    BY <2>1, <1>2, <1>4
  <2>2. CASE i # n + 1
    <3>1. i \in 1..n /\ i \in 1..Len(ds) /\ es[i] = ds[i] /\ j \in 1..Len(ds[i])
      BY <2>2, <1>1, <1>2 DEF n
    <3>2. Off(i, seg) \in Nat /\ Off(i, seg) + Len(ds[i]) <= Len(buf) /\ Len(ds[i]) \in Nat
      <4>1. /\ Off(i, seg) \in Nat /\ Off(i, seg) + Len(ds[i]) <= Len(buf)
            /\ Len(ds[i]) \in 1..seg
        BY <3>1, PieceFacts
      <4>2. QED
        BY <4>1, <1>1
    <3>3. Off(i, seg) + j \in 1..Len(buf)
      BY <3>1, <3>2, <1>1
    <3>4. buf[Off(i, seg) + j] = ds[i][j]
      BY <3>1 DEF Splits
    <3>5. QED
      BY <1>4, <3>1, <3>3, <3>4
  <2>3. QED
    BY <2>1, <2>2
<1>7. Splits(buf \o pkt, seg, es)
  <2>1. /\ Len(es) > 0 /\ Len(es[Len(es)]) = Len(pkt)
        /\ \A i \in 1..Len(es) : Len(es[i]) \in 1..seg /\ (i < Len(es) => Len(es[i]) = seg)
    BY <1>1, <1>2, <1>5
  <2>2. Len(buf \o pkt) = Off(Len(es), seg) + Len(es[Len(es)])
    BY <2>1, <1>2, <1>4
  <2>3. \A i \in 1..Len(es) : \A j \in 1..Len(es[i]) : (buf \o pkt)[Off(i, seg) + j] = es[i][j]
    BY <1>2, <1>6
  <2>4. QED
    BY <1>1, <1>2, <1>4, <2>1, <2>2, <2>3 DEF Splits
<1>8. QED
  BY <1>7 DEF es

(* What two kernels coalesce falls into what was coalesced.                *)
LEMMA JoinedSplits ==
  ASSUME NEW ds \in Seq(Datagram), ds # <<>>, \A i \in 1..Len(ds) : ds[i] # <<>>,
         \A i \in 1..Len(ds) : IF i < Len(ds) THEN Len(ds[i]) = Len(ds[1])
                               ELSE Len(ds[i]) <= Len(ds[1])
  PROVE  Splits(Joined(ds), Len(ds[1]), ds)
<1> DEFINE n == Len(ds)
           seg == Len(ds[1])
           l == Off(n, seg) + Len(ds[n])
           buf == [k \in 1..l |-> ds[Piece(k, seg)][Spot(k, seg)]]
<1>1. n \in Nat \ {0}
  BY EmptySeq
<1>2. ASSUME NEW i \in 1..n
      PROVE  ds[i] \in Datagram /\ Len(ds[i]) \in Nat \ {0}
  <2>1. ds[i] \in Datagram /\ ds[i] # <<>>
    BY <1>2
  <2>2. QED
    BY <2>1, EmptySeq DEF Datagram
<1>3. seg \in Nat \ {0}
  BY <1>1, <1>2
<1>4. \A i \in 1..n : Len(ds[i]) \in 1..seg /\ (i < n => Len(ds[i]) = seg)
  <2> TAKE i \in 1..n
  <2>1. Len(ds[i]) \in Nat \ {0} /\ (IF i < n THEN Len(ds[i]) = seg ELSE Len(ds[i]) <= seg)
    BY <1>2
  <2>2. QED
    BY <2>1, <1>3
<1>5. Off(n, seg) \in Nat /\ l \in Nat /\ Len(ds[n]) \in 1..seg /\ n \in 1..n
  <2>1. Off(n, seg) \in Nat
    BY <1>1, <1>3, OffFacts
  <2>2. n \in 1..n
    BY <1>1
  <2>3. Len(ds[n]) \in 1..seg
    BY <2>2, <1>4
  <2>4. QED
    BY <1>3, <2>1, <2>2, <2>3
<1>6. Joined(ds) = buf
  BY DEF Joined, Off, Piece, Spot
<1> HIDE DEF n, seg
<1>7. ASSUME NEW i \in 1..n, NEW j \in 1..Len(ds[i])
      PROVE  /\ Off(i, seg) + j \in 1..l
             /\ Piece(Off(i, seg) + j, seg) = i /\ Spot(Off(i, seg) + j, seg) = j
  <2>1. i \in Nat \ {0} /\ Len(ds[i]) \in 1..seg /\ (i < n => Len(ds[i]) = seg)
    BY <1>1, <1>4
  <2> HIDE DEF l
  <2>2. j \in 1..seg /\ Off(i, seg) \in Nat
    <3>1. Off(i, seg) \in Nat
      BY <2>1, <1>3, OffFacts
    <3>2. j \in 1..seg
      BY <2>1, <1>3
    <3>3. QED
      BY <3>1, <3>2
  <2>3. Piece(Off(i, seg) + j, seg) = i /\ Spot(Off(i, seg) + j, seg) = j
    <3>1. /\ Piece(At(i, j, seg), seg) = i /\ Spot(At(i, j, seg), seg) = j
          /\ At(i, j, seg) = Off(i, seg) + j
      BY <2>1, <2>2, <1>3, PlaceOnly
    <3>2. QED
      BY <3>1
  <2>4. Off(i, seg) + j <= l
    <3>1. CASE i = n
      BY <3>1, <1>5, <2>2 DEF l
    <3>2. CASE i < n
      <4>1. Off(i, seg) + seg <= Off(n, seg)
        BY <3>2, <2>1, <1>1, <1>3, OffGrows
      <4>2. QED
        BY <4>1, <1>3, <1>5, <2>2 DEF l
    <3>3. QED
      BY <3>1, <3>2, <1>1
  <2>5. QED
    BY <1>5, <2>2, <2>3, <2>4
<1>8. ASSUME NEW k \in 1..l
      PROVE  ds[Piece(k, seg)][Spot(k, seg)] \in Nat \X Nat
  <2> DEFINE a == Piece(k, seg)
             b == Spot(k, seg)
  <2>1. a \in Nat \ {0} /\ b \in 1..seg /\ k = Off(a, seg) + b
    <3>1. k \in Nat \ {0}
      BY <1>5
    <3>2. QED
      BY <3>1, <1>3, Place
  <2> HIDE DEF a, b
  <2>2. Off(a, seg) \in Nat
    BY <2>1, <1>3, OffFacts
  <2>3. a <= n
    <3> SUFFICES ASSUME n < a PROVE FALSE
      BY <1>1, <2>1
    <3>1. Off(n, seg) + seg <= Off(a, seg)
      BY <2>1, <1>1, <1>3, OffGrows
    <3>2. k <= Off(n, seg) + Len(ds[n]) /\ k \in Nat
      BY <1>5
    <3>3. QED
      BY <2>1, <2>2, <3>1, <3>2, <1>3, <1>5
  <2>4. b <= Len(ds[a])
    <3>1. CASE a < n
      BY <3>1, <2>1, <1>1, <1>4
    <3>2. CASE a = n
      <4>1. k <= Off(a, seg) + Len(ds[a])
        BY <1>5, <3>2
      <4>2. QED
        BY <4>1, <2>1, <2>2, <1>3, <1>5, <3>2
    <3>3. QED
      BY <3>1, <3>2, <2>1, <2>3, <1>1
  <2>5. a \in 1..n /\ b \in 1..Len(ds[a]) /\ ds[a] \in Datagram
    BY <2>1, <2>3, <2>4, <1>1, <1>2
  <2>6. ds[a][b] \in Nat \X Nat
    BY <2>5, ElementOfSeq DEF Datagram
  <2>7. QED
    BY <2>6 DEF a, b
<1>9. buf \in Datagram /\ Len(buf) = l
  <2> DEFINE e(k) == ds[Piece(k, seg)][Spot(k, seg)]
  <2> HIDE DEF l, e
  <2>1. \A k \in 1..l : e(k) \in Nat \X Nat
    BY <1>8 DEF e
  <2>2. [k \in 1..l |-> e(k)] \in Seq(Nat \X Nat)
    BY <1>5, <2>1, IsASeq
  <2>3. Len([k \in 1..l |-> e(k)]) = l
    BY <1>5
  <2>4. QED
    BY <2>2, <2>3 DEF e, Datagram
<1>10. ASSUME NEW i \in 1..n, NEW j \in 1..Len(ds[i])
       PROVE  buf[Off(i, seg) + j] = ds[i][j]
  <2> HIDE DEF l
  <2>1. QED
    BY <1>7
<1>11. Splits(buf, seg, ds)
  <2> HIDE DEF buf
  <2>1. QED
    BY <1>1, <1>3, <1>4, <1>5, <1>9, <1>10 DEF Splits, n
<1>12. QED
  BY <1>6, <1>11 DEF seg

(* The reader takes the first piece off the front.                         *)
LEMMA FirstPiece ==
  ASSUME NEW buf, NEW seg, NEW ds, Splits(buf, seg, ds)
  PROVE  SubSeq(buf, 1, Lesser(seg, Len(buf))) = ds[1] /\ ds[1] \in Datagram
<1>1. seg \in Nat \ {0} /\ ds \in Seq(Datagram) /\ 1 \in 1..Len(ds)
  BY DEF Splits
<1>2. Cut(buf, seg) = ds
  BY CutIs
<1>3. 1 \in DOMAIN Cut(buf, seg)
  BY <1>1, <1>2
<1>4. Cut(buf, seg)[1] = SubSeq(buf, (1 - 1) * seg + 1, Lesser(1 * seg, Len(buf)))
  BY <1>3 DEF Cut
<1>5. (1 - 1) * seg + 1 = 1 /\ 1 * seg = seg
  BY <1>1
<1>6. ds[1] = SubSeq(buf, 1, Lesser(seg, Len(buf)))
  BY <1>2, <1>4, <1>5
<1>7. ds[1] \in Datagram
  BY <1>1, ElementOfSeq
<1>8. QED
  BY <1>6, <1>7

(* And is left with the others.                                            *)
LEMMA OtherPieces ==
  ASSUME NEW buf, NEW seg, NEW ds, Splits(buf, seg, ds)
  PROVE  /\ Len(ds) = 1 => SubSeq(buf, Lesser(seg, Len(buf)) + 1, Len(buf)) = <<>>
         /\ Len(ds) > 1 =>
              /\ Lesser(seg, Len(buf)) = seg /\ seg < Len(buf)
              /\ SubSeq(buf, seg + 1, Len(buf)) # <<>>
              /\ Splits(SubSeq(buf, seg + 1, Len(buf)), seg, Tail(ds))
<1> DEFINE n == Len(ds)
           rest == SubSeq(buf, seg + 1, Len(buf))
           es == Tail(ds)
<1>1. /\ buf \in Datagram /\ ds \in Seq(Datagram) /\ seg \in Nat \ {0} /\ n \in Nat \ {0}
      /\ Len(buf) \in Nat /\ ds # <<>>
  BY EmptySeq DEF Splits, Datagram
<1>2. /\ 1 \in 1..n /\ Len(ds[1]) \in 1..seg /\ (1 < n => Len(ds[1]) = seg)
      /\ Off(1, seg) = 0 /\ 1 * seg = seg
      /\ Lesser(1 * seg, Len(buf)) = Off(1, seg) + Len(ds[1])
  <2>1. 1 \in 1..n /\ Off(1, seg) = 0 /\ 1 * seg = seg
    BY <1>1, OffFacts
  <2>2. /\ Len(ds[1]) \in 1..seg /\ (1 < n => Len(ds[1]) = seg)
        /\ Lesser(1 * seg, Len(buf)) = Off(1, seg) + Len(ds[1])
    BY <2>1, PieceFacts
  <2>3. QED
    BY <2>1, <2>2
<1>3. Lesser(seg, Len(buf)) = Len(ds[1])
  BY <1>1, <1>2
<1>4. ASSUME n = 1
      PROVE  SubSeq(buf, Lesser(seg, Len(buf)) + 1, Len(buf)) = <<>>
  <2>1. Len(buf) = Len(ds[1])
    BY <1>1, <1>2, <1>4 DEF Splits
  <2>2. Lesser(seg, Len(buf)) + 1 \in Int /\ Len(buf) \in Int
        /\ Len(buf) < Lesser(seg, Len(buf)) + 1
    BY <2>1, <1>1, <1>3
  <2>3. QED
    BY <2>2, SubSeqEmpty
<1>5. ASSUME n > 1
      PROVE  /\ Lesser(seg, Len(buf)) = seg /\ seg < Len(buf) /\ rest # <<>>
             /\ Splits(rest, seg, es)
  <2>1. n \in 1..n /\ n - 1 \in Nat \ {0} /\ Len(ds[1]) = seg /\ n \in Nat /\ n > 1
    <3> HIDE DEF n
    <3>1. n \in Nat /\ n > 1 /\ (1 < n => Len(ds[1]) = seg)
      BY <1>1, <1>2, <1>5
    <3>2. QED
      BY <3>1
  <2>2. /\ Len(ds[n]) \in 1..seg /\ Len(buf) = Off(n, seg) + Len(ds[n])
        /\ Off(n, seg) = Off(n - 1, seg) + seg /\ Off(n - 1, seg) \in Nat
    <3>1. Len(ds[n]) \in 1..seg
      BY <2>1, PieceFacts
    <3>2. Off((n - 1) + 1, seg) = Off(n - 1, seg) + seg /\ Off(n - 1, seg) \in Nat
      BY <2>1, <1>1, OffFacts
    <3>3. (n - 1) + 1 = n
      BY <1>1
    <3>4. Len(buf) = Off(n, seg) + Len(ds[n])
      BY DEF Splits
    <3>5. QED
      BY <3>1, <3>2, <3>3, <3>4
  <2>3. seg < Len(buf) /\ Len(buf) = (Off(n - 1, seg) + Len(ds[n])) + seg
    BY <2>2, <1>1
  <2>4. /\ rest \in Datagram /\ Len(rest) = Off(n - 1, seg) + Len(ds[n])
        /\ \A k \in 1..Len(rest) : rest[k] = buf[seg + k]
    <3>1. /\ seg + 1 \in Int /\ Len(buf) \in Int /\ seg + 1 <= Len(buf)
          /\ (Len(buf) - (seg + 1)) + 1 = Off(n - 1, seg) + Len(ds[n])
      BY <1>1, <2>2, <2>3
    <3>2. \A k \in seg + 1..Len(buf) : buf[k] \in Nat \X Nat
      <4>1. \A k \in 1..Len(buf) : buf[k] \in Nat \X Nat
        BY <1>1, ElementOfSeq DEF Datagram
      <4>2. \A k \in seg + 1..Len(buf) : k \in 1..Len(buf)
        BY <1>1
      <4>3. QED
        BY <4>1, <4>2
    <3>3. /\ rest \in Datagram /\ Len(rest) = (Len(buf) - (seg + 1)) + 1
          /\ \A k \in 1..(Len(buf) - (seg + 1)) + 1 : rest[k] = buf[((seg + 1) + k) - 1]
      BY <3>1, <3>2, SubSeqProperties DEF Datagram
    <3>4. \A k \in 1..(Len(buf) - (seg + 1)) + 1 : ((seg + 1) + k) - 1 = seg + k
      BY <1>1
    <3>5. QED
      BY <3>1, <3>3, <3>4
  <2>5. /\ es \in Seq(Datagram) /\ Len(es) = n - 1
        /\ \A i \in 1..n - 1 : es[i] = ds[i + 1] /\ i + 1 \in 1..n /\ i \in Nat \ {0}
    <3>1. es \in Seq(Datagram) /\ Len(es) = n - 1 /\ \A i \in 1..Len(es) : es[i] = ds[i + 1]
      BY <1>1, HeadTailProperties
    <3>2. \A i \in 1..n - 1 : i + 1 \in 1..n /\ i \in Nat \ {0}
      BY <1>1
    <3>3. QED
      BY <3>1, <3>2
  <2> HIDE DEF rest, es
  <2>6. \A i \in 1..n - 1 : Len(es[i]) \in 1..seg /\ (i < n - 1 => Len(es[i]) = seg)
    <3> TAKE i \in 1..n - 1
    <3>1. Len(ds[i + 1]) \in 1..seg /\ (i + 1 < n => Len(ds[i + 1]) = seg)
      BY <2>5, PieceFacts
    <3>2. QED
      BY <3>1, <2>5, <1>1
  <2>7. ASSUME NEW i \in 1..n - 1, NEW j \in 1..Len(es[i])
        PROVE  rest[Off(i, seg) + j] = es[i][j]
    <3>1. /\ es[i] = ds[i + 1] /\ i + 1 \in 1..n /\ i \in Nat \ {0}
          /\ Len(ds[i + 1]) \in 1..seg /\ j \in 1..Len(ds[i + 1]) /\ j \in Nat \ {0}
      <4>1. es[i] = ds[i + 1] /\ i + 1 \in 1..n /\ i \in Nat \ {0}
        BY <2>5
      <4>2. Len(es[i]) \in 1..seg
        BY <2>6
      <4>3. j \in Nat \ {0}
        OBVIOUS
      <4>4. QED
        BY <4>1, <4>2, <4>3
    <3>2. /\ Off(i, seg) \in Nat /\ Off(i + 1, seg) = Off(i, seg) + seg
          /\ Off(i + 1, seg) + Len(ds[i + 1]) <= Len(buf)
      <4>1. Off(i, seg) \in Nat /\ Off(i + 1, seg) = Off(i, seg) + seg
        BY <3>1, <1>1, OffFacts
      <4>2. Off(i + 1, seg) + Len(ds[i + 1]) <= Len(buf)
        BY <3>1, PieceFacts
      <4>3. QED
        BY <4>1, <4>2
    <3>3. /\ Off(i, seg) + j \in 1..Len(rest)
          /\ seg + (Off(i, seg) + j) = Off(i + 1, seg) + j
      <4>1. Len(rest) = Len(buf) - seg
        BY <2>2, <2>3, <2>4, <1>1
      <4>2. QED
        <5>1. /\ seg \in Nat /\ Off(i, seg) \in Nat /\ j \in Nat \ {0} /\ j <= Len(ds[i + 1])
              /\ Len(ds[i + 1]) \in Nat /\ Len(buf) \in Nat
          BY <3>1, <3>2, <1>1
        <5>2. seg + (Off(i, seg) + j) = Off(i + 1, seg) + j
          BY <5>1, <3>2
        <5>3. Off(i + 1, seg) + j <= Len(buf)
          BY <5>1, <3>2
        <5>4. Off(i, seg) + j <= Len(buf) - seg /\ Off(i, seg) + j \in Nat \ {0}
          BY <5>1, <5>2, <5>3
        <5>5. QED
          BY <5>1, <5>2, <5>4, <4>1
    <3>4. buf[Off(i + 1, seg) + j] = ds[i + 1][j]
      BY <3>1 DEF Splits
    <3>5. QED
      BY <2>4, <3>1, <3>3, <3>4
  <2>8. es[n - 1] = ds[n]
    <3> HIDE DEF n
    <3>1. n - 1 \in 1..n - 1 /\ (n - 1) + 1 = n
      BY <2>1
    <3>2. QED
      BY <3>1, <2>5
  <2>9. Splits(rest, seg, es)
    <3>1. Len(es) > 0 /\ Len(rest) = Off(Len(es), seg) + Len(es[Len(es)])
      BY <2>1, <2>4, <2>5, <2>8
    <3>2. QED
      BY <1>1, <2>4, <2>5, <2>6, <2>7, <3>1 DEF Splits
  <2>10. rest # <<>>
    <3>1. Len(rest) > 0
      BY <2>2, <2>4, <1>1
    <3>2. QED
      BY <3>1
  <2>11. QED
    BY <1>3, <2>1, <2>3, <2>9, <2>10
<1>6. QED
  BY <1>4, <1>5

(* What a buffer is cut into is of the datagrams it holds.                 *)
LEMMA IdsOfPieces ==
  ASSUME NEW buf, NEW seg, NEW ds, Splits(buf, seg, ds),
         \A i \in 1..Len(ds) : \A j \in 1..Len(ds[i]) : ds[i][j][1] = Id(ds[i])
  PROVE  IdsIn(buf) = Ids(ds)
<1>1. /\ buf \in Datagram /\ ds \in Seq(Datagram) /\ seg \in Nat \ {0} /\ Len(ds) \in Nat \ {0}
      /\ Len(buf) \in Nat /\ DOMAIN buf = 1..Len(buf) /\ DOMAIN ds = 1..Len(ds)
  BY DEF Splits, Datagram
<1>2. ASSUME NEW i \in 1..Len(ds)
      PROVE  Id(ds[i]) \in IdsIn(buf)
  <2>1. /\ 1 \in 1..Len(ds[i]) /\ Off(i, seg) \in Nat /\ Off(i, seg) + Len(ds[i]) <= Len(buf)
        /\ Len(ds[i]) \in Nat
    <3>1. /\ Len(ds[i]) \in 1..seg /\ Off(i, seg) \in Nat
          /\ Off(i, seg) + Len(ds[i]) <= Len(buf)
      BY PieceFacts
    <3>2. QED
      BY <3>1, <1>1
  <2>2. buf[Off(i, seg) + 1] = ds[i][1] /\ Off(i, seg) + 1 \in DOMAIN buf
    <3>1. buf[Off(i, seg) + 1] = ds[i][1]
      BY <2>1 DEF Splits
    <3>2. QED
      BY <3>1, <2>1, <1>1
  <2>3. QED
    BY <2>2 DEF IdsIn, Id
<1>3. ASSUME NEW k \in 1..Len(buf)
      PROVE  buf[k][1] \in Ids(ds)
  <2> DEFINE n == Len(ds)
             a == Piece(k, seg)
             b == Spot(k, seg)
  <2>1. a \in Nat \ {0} /\ b \in 1..seg /\ k = Off(a, seg) + b /\ k \in Nat \ {0}
    <3>1. k \in Nat \ {0}
      BY <1>1
    <3>2. QED
      BY <3>1, <1>1, Place
  <2> HIDE DEF a, b
  <2>2. /\ n \in 1..n /\ Off(a, seg) \in Nat /\ Len(ds[n]) \in 1..seg /\ Off(n, seg) \in Nat
        /\ Len(buf) = Off(n, seg) + Len(ds[n])
    <3>1. n \in 1..n
      BY <1>1
    <3>2. Off(a, seg) \in Nat /\ Off(n, seg) \in Nat
      BY <2>1, <1>1, OffFacts
    <3>3. Len(ds[n]) \in 1..seg /\ Len(buf) = Off(n, seg) + Len(ds[n])
      BY <3>1 DEF Splits
    <3>4. QED
      BY <3>1, <3>2, <3>3
  <2>3. a <= n
    <3> SUFFICES ASSUME n < a PROVE FALSE
      BY <1>1, <2>1
    <3>1. Off(n, seg) + seg <= Off(a, seg)
      BY <2>1, <1>1, OffGrows
    <3>2. QED
      BY <2>1, <2>2, <3>1, <1>1
  <2>4. a \in 1..n /\ Len(ds[a]) \in 1..seg /\ (a < n => Len(ds[a]) = seg)
    <3>1. a \in 1..n
      BY <2>1, <2>3, <1>1
    <3>2. QED
      BY <3>1 DEF Splits
  <2>5. b \in 1..Len(ds[a])
    <3>1. CASE a < n
      BY <3>1, <2>1, <2>4
    <3>2. CASE a = n
      BY <3>2, <2>1, <2>2, <1>1
    <3>3. a < n \/ a = n
      <4> HIDE DEF n
      <4>1. n \in Nat /\ a \in 1..n
        BY <2>4, <1>1 DEF n
      <4>2. QED
        BY <4>1
    <3>4. QED
      BY <3>1, <3>2, <3>3
  <2>6. buf[k] = ds[a][b]
    BY <2>1, <2>4, <2>5 DEF Splits
  <2>7. ds[a][b][1] = Id(ds[a])
    BY <2>4, <2>5
  <2>8. QED
    BY <2>4, <2>6, <2>7, <1>1 DEF Ids
<1>4. IdsIn(buf) \subseteq Ids(ds)
  BY <1>1, <1>3 DEF IdsIn
<1>5. Ids(ds) \subseteq IdsIn(buf)
  BY <1>1, <1>2 DEF Ids
<1>6. QED
  BY <1>4, <1>5

(* The bytes of a datagram.                                                *)
LEMMA BytesFacts ==
  ASSUME NEW id \in Nat, NEW n \in Nat \ {0}
  PROVE  /\ Bytes(id, n) \in Datagram /\ Len(Bytes(id, n)) = n /\ Bytes(id, n) # <<>>
         /\ Id(Bytes(id, n)) = id /\ IdsIn(Bytes(id, n)) = {id}
         /\ \A j \in 1..n : Bytes(id, n)[j][1] = id
<1> DEFINE e(k) == <<id, k>>
<1>1. \A k \in 1..n : e(k) \in Nat \X Nat
  OBVIOUS
<1> HIDE DEF e
<1>2. [k \in 1..n |-> e(k)] \in Seq(Nat \X Nat)
  BY <1>1, IsASeq
<1>3. Bytes(id, n) = [k \in 1..n |-> e(k)]
  BY DEF Bytes, e
<1>4. Bytes(id, n) \in Datagram
  BY <1>2, <1>3 DEF Datagram
<1>5. Len(Bytes(id, n)) = n /\ DOMAIN Bytes(id, n) = 1..n
  BY <1>3
<1>6. \A k \in 1..n : Bytes(id, n)[k] = <<id, k>>
  BY DEF Bytes
<1>7. \A k \in 1..n : Bytes(id, n)[k][1] = id
  BY <1>6
<1>8. 1 \in 1..n
  OBVIOUS
<1>9. Id(Bytes(id, n)) = id
  BY <1>7, <1>8 DEF Id
<1>10. IdsIn(Bytes(id, n)) = {id}
  BY <1>5, <1>7, <1>8 DEF IdsIn
<1>11. Bytes(id, n) # <<>>
  BY <1>5, <1>8
<1>12. QED
  BY <1>4, <1>5, <1>7, <1>9, <1>10, <1>11
LEMMA WholeFacts ==
  ASSUME BulkAssumption, sealed \in Seq(Lengths), NEW id \in 1..Len(sealed)
  PROVE  /\ id \in Nat /\ Whole(id) \in Datagram /\ Len(Whole(id)) = sealed[id]
         /\ sealed[id] \in Nat \ {0} /\ Whole(id) # <<>> /\ Id(Whole(id)) = id
         /\ IdsIn(Whole(id)) = {id} /\ \A j \in 1..Len(Whole(id)) : Whole(id)[j][1] = id
<1>1. sealed[id] \in Nat \ {0} /\ id \in Nat
  <2>1. sealed[id] \in Lengths
    BY ElementOfSeq
  <2>2. Lengths \subseteq Nat \ {0}
    BY DEF BulkAssumption
  <2>3. id \in Nat
    OBVIOUS
  <2>4. QED
    BY <2>1, <2>2, <2>3
<1>2. QED
  BY <1>1, BytesFacts DEF Whole

(* Where a sequence stands in a longer one.                                *)
LEMMA IdsMore ==
  ASSUME NEW w \in Seq(Datagram), NEW out \in Seq(Datagram)
  PROVE  Ids(w \o out) = Ids(w) \union Ids(out)
<1>1. /\ w \o out \in Seq(Datagram) /\ Len(w \o out) = Len(w) + Len(out)
      /\ \A i \in 1..Len(w) + Len(out) :
           (w \o out)[i] = IF i <= Len(w) THEN w[i] ELSE out[i - Len(w)]
  BY ConcatProperties
<1>2. /\ DOMAIN w = 1..Len(w) /\ DOMAIN out = 1..Len(out) /\ Len(w) \in Nat /\ Len(out) \in Nat
      /\ DOMAIN (w \o out) = 1..Len(w) + Len(out)
  <2>1. DOMAIN w = 1..Len(w) /\ Len(w) \in Nat
    BY LenProperties
  <2>2. DOMAIN out = 1..Len(out) /\ Len(out) \in Nat
    BY LenProperties
  <2>3. DOMAIN (w \o out) = 1..Len(w \o out)
    BY <1>1, LenProperties
  <2>4. QED
    BY <2>1, <2>2, <2>3, <1>1
<1> DEFINE x == w \o out
<1> HIDE DEF x
<1>3. \A i \in 1..Len(w) : i \in DOMAIN x /\ x[i] = w[i]
  BY <1>1, <1>2 DEF x
<1>4. \A i \in 1..Len(out) : Len(w) + i \in DOMAIN x /\ x[Len(w) + i] = out[i]
  <2> TAKE i \in 1..Len(out)
  <2>1. /\ Len(w) + i \in 1..Len(w) + Len(out) /\ ~(Len(w) + i <= Len(w))
        /\ (Len(w) + i) - Len(w) = i
    BY <1>2
  <2>2. QED
    BY <2>1, <1>1, <1>2 DEF x
<1>5. \A i \in DOMAIN x : \/ i \in 1..Len(w) /\ x[i] = w[i]
                          \/ i - Len(w) \in 1..Len(out) /\ x[i] = out[i - Len(w)]
  <2> TAKE i \in DOMAIN x
  <2>1. i \in 1..Len(w) + Len(out) /\ x[i] = IF i <= Len(w) THEN w[i] ELSE out[i - Len(w)]
    BY <1>1, <1>2 DEF x
  <2>2. QED
    BY <2>1, <1>2
<1>6. Ids(x) \subseteq Ids(w) \union Ids(out)
  BY <1>2, <1>5 DEF Ids
<1>7. Ids(w) \subseteq Ids(x) /\ Ids(out) \subseteq Ids(x)
  BY <1>2, <1>3, <1>4 DEF Ids
<1>8. QED
  BY <1>6, <1>7 DEF x

(* What leaves next keeps the wire in order.                               *)
LEMMA OrderlyMore ==
  ASSUME BulkAssumption, sealed \in Seq(Lengths), NEW w \in Seq(Datagram),
         NEW out \in Seq(Datagram), NEW upto \in Nat, NEW m \in Nat, Orderly(w, upto),
         Len(out) <= m, upto + m <= Len(sealed),
         \A i \in 1..Len(out) : out[i] = Whole(upto + i)
  PROVE  Orderly(w \o out, upto + m) /\ Ids(out) = upto + 1..upto + Len(out)
<1> DEFINE x == w \o out
           l == Len(w)
           o == Len(out)
<1>1. /\ x \in Seq(Datagram) /\ Len(x) = l + o /\ l \in Nat /\ o \in Nat
      /\ \A i \in 1..l + o : x[i] = IF i <= l THEN w[i] ELSE out[i - l]
  BY ConcatProperties
<1>2. DOMAIN x = 1..l + o /\ DOMAIN w = 1..l /\ DOMAIN out = 1..o /\ Len(sealed) \in Nat
  BY <1>1
<1> HIDE DEF x, l, o
<1>0. l \in Nat /\ o \in Nat /\ upto \in Nat
  BY <1>1
<1>3. \A i \in 1..o : /\ upto + i \in 1..upto + m /\ upto + i \in 1..Len(sealed)
                      /\ out[i] = Whole(upto + i) /\ Id(out[i]) = upto + i
  <2> TAKE i \in 1..o
  <2>1. upto + i \in 1..upto + m /\ upto + i \in 1..Len(sealed)
    BY <1>1, <1>2 DEF o
  <2>2. out[i] = Whole(upto + i)
    BY DEF o
  <2>3. Id(Whole(upto + i)) = upto + i
    BY <2>1, WholeFacts
  <2>4. QED
    BY <2>1, <2>2, <2>3
<1>4. \A i \in 1..l : Id(w[i]) \in 1..upto /\ w[i] = Whole(Id(w[i]))
  BY <1>2 DEF Orderly
<1>5. \A i \in 1..l + o :
        \/ i \in 1..l /\ x[i] = w[i] /\ Id(x[i]) \in 1..upto
        \/ /\ i - l \in 1..o /\ x[i] = out[i - l] /\ Id(x[i]) = (upto + i) - l
           /\ Id(x[i]) \in 1..upto + m
  <2> TAKE i \in 1..l + o
  <2>1. CASE i <= l
    <3>1. i \in 1..l /\ x[i] = w[i]
      BY <2>1, <1>1
    <3>2. QED
      BY <3>1, <1>4
  <2>2. CASE ~(i <= l)
    <3>1. i - l \in 1..o /\ upto + (i - l) = (upto + i) - l
      BY <2>2, <1>0
    <3>2. x[i] = out[i - l]
      BY <2>2, <1>1
    <3>3. QED
      BY <3>1, <3>2, <1>3
  <2>3. QED
    BY <2>1, <2>2
<1>6. \A i \in DOMAIN x : Id(x[i]) \in 1..upto + m /\ x[i] = Whole(Id(x[i]))
  <2> SUFFICES ASSUME NEW i \in 1..l + o
               PROVE  Id(x[i]) \in 1..upto + m /\ x[i] = Whole(Id(x[i]))
    BY <1>2
  <2>1. CASE i \in 1..l /\ x[i] = w[i] /\ Id(x[i]) \in 1..upto
    BY <2>1, <1>4
  <2>2. CASE i - l \in 1..o /\ x[i] = out[i - l]
    BY <2>2, <1>3
  <2>3. QED
    BY <2>1, <2>2, <1>5
<1>7. \A i, j \in DOMAIN x : i < j => Id(x[i]) < Id(x[j])
  <2> SUFFICES ASSUME NEW i \in 1..l + o, NEW j \in 1..l + o, i < j
               PROVE  Id(x[i]) < Id(x[j])
    BY <1>2
  <2>1. CASE i \in 1..l /\ j \in 1..l
    <3>1. Id(w[i]) < Id(w[j])
      BY <2>1, <1>2 DEF Orderly
    <3>2. x[i] = w[i] /\ x[j] = w[j]
      <4>1. \A k \in 1..l : k \in 1..l + o /\ k <= l
        BY <1>0
      <4>2. \A k \in 1..l : x[k] = w[k]
        BY <4>1, <1>1
      <4>3. QED
        BY <4>2, <2>1
    <3>3. QED
      BY <3>1, <3>2
  <2>2. CASE i \in 1..l /\ j \notin 1..l
    <3>1. Id(x[i]) \in 1..upto
      <4>1. i \in 1..l + o /\ i \in 1..l /\ i <= l
        BY <2>2, <1>1
      <4>2. QED
        BY <4>1, <1>5, <1>1, <1>4
    <3>2. Id(x[j]) = (upto + j) - l /\ j - l \in 1..o
      BY <2>2, <1>5
    <3>3. QED
      BY <3>1, <3>2, <1>1
  <2>3. CASE i \notin 1..l
    <3>1. j \notin 1..l
      BY <2>3, <1>1
    <3>2. Id(x[i]) = (upto + i) - l /\ Id(x[j]) = (upto + j) - l
      BY <2>3, <3>1, <1>5
    <3>3. i \in Int /\ j \in Int
      OBVIOUS
    <3>4. QED
      BY <3>2, <3>3, <1>0
  <2>4. QED
    BY <2>1, <2>2, <2>3
<1>8. Ids(out) = upto + 1..upto + o
  <2>1. Ids(out) \subseteq upto + 1..upto + o
    <3>1. \A i \in 1..o : Id(out[i]) \in upto + 1..upto + o
      BY <1>1, <1>3
    <3>2. QED
      BY <3>1, <1>2 DEF Ids
  <2>2. upto + 1..upto + o \subseteq Ids(out)
    <3> SUFFICES ASSUME NEW k \in upto + 1..upto + o PROVE k \in Ids(out)
      OBVIOUS
    <3>1. k - upto \in 1..o /\ upto + (k - upto) = k
      BY <1>1
    <3>2. Id(out[k - upto]) = k
      BY <3>1, <1>3
    <3>3. QED
      BY <3>1, <3>2, <1>2 DEF Ids
  <2>3. QED
    BY <2>1, <2>2
<1>9. QED
  BY <1>6, <1>7, <1>8 DEF Orderly, x, o

(* What the invariant says of the counts.                                  *)
LEMMA Counts ==
  ASSUME BulkAssumption, PumpKept, BatchKept
  PROVE  /\ Len(sealed) \in Nat /\ LastIn \in Nat /\ LastOut \in Nat /\ batch.count \in Nat
         /\ LastIn = LastOut + batch.count /\ LastIn <= Len(sealed)
         /\ (pump.held = <<>> => LastIn = Len(sealed))
         /\ (pump.held # <<>> => LastIn + 1 = Len(sealed))
<1>1. Len(sealed) \in Nat
  BY DEF PumpKept
<1>2. batch.count \in Nat /\ LastOut \in Nat
  BY DEF BatchKept, Slotted
<1>3. pump.held # <<>> => Len(sealed) > 0
  BY DEF PumpKept
<1>4. LastIn \in Int /\ LastOut = LastIn - batch.count
  BY <1>1 DEF LastIn, LastOut
<1>5. LastIn = LastOut + batch.count
  BY <1>2, <1>4
<1>6. QED
  BY <1>1, <1>2, <1>3, <1>4, <1>5 DEF LastIn

(* A batch holds whole datagrams.                                          *)
LEMMA SlotFacts ==
  ASSUME BulkAssumption, PumpKept, BatchKept, NEW i \in 1..batch.count
  PROVE  /\ LastOut + i \in 1..Len(sealed) /\ batch.slots[i] = Whole(LastOut + i)
         /\ batch.slots \in Seq(Datagram) /\ Len(batch.slots) = batch.count
<1>1. /\ Len(sealed) \in Nat /\ LastIn \in Nat /\ LastOut \in Nat /\ batch.count \in Nat
      /\ LastIn = LastOut + batch.count /\ LastIn <= Len(sealed)
  BY Counts
<1>2. batch.slots[i] = Whole(LastOut + i) /\ Len(batch.slots) = batch.count
  BY DEF BatchKept, Slotted
<1>3. batch.slots \in Seq(Datagram)
  BY DEF BatchKept
<1>4. QED
  BY <1>1, <1>2, <1>3

(* Bytes of two buffers.                                                   *)
LEMMA IdsInMore ==
  ASSUME NEW a \in Datagram, NEW b \in Datagram
  PROVE  IdsIn(a \o b) = IdsIn(a) \union IdsIn(b)
<1>1. /\ a \o b \in Datagram /\ Len(a \o b) = Len(a) + Len(b)
      /\ \A k \in 1..Len(a) + Len(b) : (a \o b)[k] = IF k <= Len(a) THEN a[k] ELSE b[k - Len(a)]
  BY ConcatProperties DEF Datagram
<1>2. /\ DOMAIN a = 1..Len(a) /\ DOMAIN b = 1..Len(b) /\ Len(a) \in Nat /\ Len(b) \in Nat
      /\ DOMAIN (a \o b) = 1..Len(a) + Len(b)
  <2>1. DOMAIN a = 1..Len(a) /\ Len(a) \in Nat
    BY LenProperties DEF Datagram
  <2>2. DOMAIN b = 1..Len(b) /\ Len(b) \in Nat
    BY LenProperties DEF Datagram
  <2>3. DOMAIN (a \o b) = 1..Len(a \o b)
    BY <1>1, LenProperties DEF Datagram
  <2>4. QED
    BY <2>1, <2>2, <2>3, <1>1
<1> DEFINE x == a \o b
<1> HIDE DEF x
<1>3. \A k \in 1..Len(a) : k \in DOMAIN x /\ x[k] = a[k]
  BY <1>1, <1>2 DEF x
<1>4. \A k \in 1..Len(b) : Len(a) + k \in DOMAIN x /\ x[Len(a) + k] = b[k]
  <2> TAKE k \in 1..Len(b)
  <2>1. /\ Len(a) + k \in 1..Len(a) + Len(b) /\ ~(Len(a) + k <= Len(a))
        /\ (Len(a) + k) - Len(a) = k
    BY <1>2
  <2>2. QED
    BY <2>1, <1>1, <1>2 DEF x
<1>5. \A k \in DOMAIN x : \/ k \in 1..Len(a) /\ x[k] = a[k]
                          \/ k - Len(a) \in 1..Len(b) /\ x[k] = b[k - Len(a)]
  <2> TAKE k \in DOMAIN x
  <2>1. k \in 1..Len(a) + Len(b) /\ x[k] = IF k <= Len(a) THEN a[k] ELSE b[k - Len(a)]
    BY <1>1, <1>2 DEF x
  <2>2. QED
    BY <2>1, <1>2
<1>6. IdsIn(x) \subseteq IdsIn(a) \union IdsIn(b)
  BY <1>2, <1>5 DEF IdsIn
<1>7. IdsIn(a) \subseteq IdsIn(x) /\ IdsIn(b) \subseteq IdsIn(x)
  BY <1>2, <1>3, <1>4 DEF IdsIn
<1>8. QED
  BY <1>6, <1>7 DEF x

(* A datagram joins the batch.                                             *)
LEMMA JoinKept ==
  ASSUME BulkAssumption, PumpKept, BatchKept, NEW n \in Lengths, NEW pkt,
         NEW upto \in Nat, NEW low \in Nat, LastIn = upto, LastOut = low,
         pkt = Bytes(upto + 1, n), Wants(pkt), batch' = Added(pkt), path' = path,
         LastOut' = low, LastIn' = upto + 1,
         \A i \in 1..upto : Whole(i)' = Whole(i), sealed'[upto + 1] = n
  PROVE  BatchKept'
<1> DEFINE c == batch.count
           buf == batch.buf
           slots == batch.slots
           seg == batch.segSize
<1>1. /\ buf \in Datagram /\ slots \in Seq(Datagram) /\ seg \in Nat /\ c \in Nat
      /\ Len(slots) = c /\ path \in Paths
  BY DEF BatchKept, Slotted, PumpKept
<1>2. upto = low + c
  BY Counts
<1>3. n \in Nat \ {0}
  BY DEF BulkAssumption
<1>4. /\ pkt \in Datagram /\ Len(pkt) = n /\ pkt # <<>> /\ IdsIn(pkt) = {upto + 1}
  <2>1. upto + 1 \in Nat
    OBVIOUS
  <2>2. QED
    BY <2>1, <1>3, BytesFacts
<1>5. /\ batch'.buf = buf \o pkt /\ batch'.slots = Append(slots, pkt) /\ batch'.count = c + 1
      /\ batch'.segSize = IF c = 0 THEN n ELSE seg
      /\ batch' = [buf |-> batch'.buf, slots |-> batch'.slots, segSize |-> batch'.segSize,
                   count |-> batch'.count]
  BY <1>4 DEF Added
<1>6. /\ buf \o pkt \in Datagram /\ Len(buf \o pkt) = Len(buf) + n
      /\ Append(slots, pkt) \in Seq(Datagram) /\ Len(Append(slots, pkt)) = c + 1
      /\ \A i \in 1..c : Append(slots, pkt)[i] = slots[i]
      /\ Append(slots, pkt)[c + 1] = pkt
  <2>1. buf \o pkt \in Datagram /\ Len(buf \o pkt) = Len(buf) + n
    <3>1. buf \o pkt \in Datagram /\ Len(buf \o pkt) = Len(buf) + Len(pkt)
      <4> HIDE DEF buf
      <4>1. QED
        BY <1>1, <1>4, ConcatProperties DEF Datagram
    <3>2. QED
      BY <3>1, <1>4
  <2>2. /\ Append(slots, pkt) \in Seq(Datagram) /\ Len(Append(slots, pkt)) = Len(slots) + 1
        /\ \A i \in 1..Len(slots) : Append(slots, pkt)[i] = slots[i]
        /\ Append(slots, pkt)[Len(slots) + 1] = pkt
    BY <1>1, <1>4, AppendProperties
  <2>3. QED
    BY <2>1, <2>2, <1>1
<1> HIDE DEF c, buf, slots, seg
<1>7. batch' \in [buf : Datagram, slots : Seq(Datagram), segSize : Nat, count : Nat]
  <2>1. (IF c = 0 THEN n ELSE seg) \in Nat /\ c + 1 \in Nat
    BY <1>1, <1>3
  <2>2. QED
    BY <1>5, <1>6, <2>1
<1>8. Slotted'
  <2>1. LastOut' \in Nat /\ Len(batch'.slots) = batch'.count
    BY <1>5, <1>6
  <2>2. ASSUME NEW i \in 1..c + 1
        PROVE  batch'.slots[i] = Bytes(low + i, sealed'[low + i])
    <3>1. CASE i \in 1..c
      <4>1. batch.slots[i] = Whole(low + i)
        BY <3>1 DEF BatchKept, Slotted, c
      <4>2. low + i \in 1..upto
        BY <3>1, <1>1, <1>2
      <4>3. Whole(low + i)' = Whole(low + i)
        BY <4>2
      <4>4. batch'.slots[i] = slots[i]
        BY <3>1, <1>5, <1>6
      <4>5. QED
        BY <4>1, <4>3, <4>4 DEF slots, Whole
    <3>2. CASE i = c + 1
      <4>1. low + i = upto + 1
        BY <3>2, <1>1, <1>2
      <4>2. batch'.slots[i] = pkt
        BY <3>2, <1>5, <1>6
      <4>3. QED
        BY <4>1, <4>2
    <3>3. QED
      BY <3>1, <3>2, <1>1
  <2>3. IdsIn(batch'.buf) = LastOut' + 1..LastIn'
    <3>1. IdsIn(batch.buf) = low + 1..upto
      BY DEF BatchKept, Slotted
    <3>2. IdsIn(buf \o pkt) = IdsIn(buf) \union IdsIn(pkt)
      BY <1>1, <1>4, IdsInMore
    <3>3. IdsIn(batch'.buf) = (low + 1..upto) \union {upto + 1}
      BY <3>1, <3>2, <1>4, <1>5 DEF buf
    <3>4. (low + 1..upto) \union {upto + 1} = low + 1..upto + 1
      BY <1>1, <1>2
    <3>5. QED
      BY <3>3, <3>4
  <2>4. \A i \in 1..batch'.count : batch'.slots[i] = Bytes(LastOut' + i, sealed'[LastOut' + i])
    BY <2>2, <1>5
  <2>5. IdsIn(batch.buf)' = IdsIn(batch'.buf)
    BY DEF IdsIn
  <2>6. QED
    BY <2>1, <2>3, <2>4, <2>5 DEF Slotted, Whole
<1>9. path \in {"gso", "udp"} /\ c > 0 =>
         path = "gso" /\ n = seg /\ c < MaxSegments /\ Len(buf) + n <= MaxBytes
  <2> SUFFICES ASSUME path \in {"gso", "udp"}, c > 0
               PROVE  path = "gso" /\ n = seg /\ c < MaxSegments /\ Len(buf) + n <= MaxBytes
    OBVIOUS
  <2>1. path \notin {"icmp", "tcp"} /\ batch.count # 0
    BY <1>1 DEF c
  <2>2. /\ path = "gso" /\ Len(pkt) = batch.segSize
        /\ batch.count < MaxSegments /\ Len(batch.buf) + Len(pkt) <= MaxBytes
    BY <2>1 DEF Wants
  <2>3. QED
    BY <2>2, <1>4 DEF c, seg, buf
<1>10. OneLength'
  <2> SUFFICES ASSUME path \in {"gso", "udp"}
               PROVE  /\ Splits(batch'.buf, batch'.segSize, batch'.slots)
                      /\ \A i \in 1..batch'.count : Len(batch'.slots[i]) = batch'.segSize
    BY DEF OneLength
  <2>1. CASE c = 0
    <3>1. buf = <<>> /\ slots = <<>>
      <4>1. buf = <<>>
        BY <2>1 DEF BatchKept, c, buf
      <4>2. slots = <<>>
        BY <2>1, <1>1, EmptySeq
      <4>3. QED
        BY <4>1, <4>2
    <3>2. batch'.buf = pkt /\ batch'.slots = <<pkt>> /\ batch'.segSize = Len(pkt)
      <4>1. <<>> \o pkt = pkt
        BY <1>4, ConcatEmptySeq DEF Datagram
      <4>2. Append(<<>>, pkt) = <<pkt>>
        OBVIOUS
      <4>3. QED
        BY <3>1, <4>1, <4>2, <1>4, <1>5, <2>1
    <3>3. Splits(pkt, Len(pkt), <<pkt>>)
      BY <1>4, SplitsOne
    <3>4. \A i \in 1..batch'.count : i = 1
      BY <1>5, <2>1
    <3>5. QED
      BY <3>2, <3>3, <3>4
  <2>2. CASE c > 0
    <3>1. Splits(buf, seg, slots) /\ \A i \in 1..c : Len(slots[i]) = seg
      BY <2>2 DEF BatchKept, OneLength, buf, seg, slots, c
    <3>2. batch'.segSize = seg /\ Len(pkt) = seg
      BY <2>2, <1>4, <1>5, <1>9
    <3>3. Splits(buf \o pkt, seg, Append(slots, pkt))
      BY <3>1, <3>2, <1>1, <1>4, SplitsMore
    <3>4. \A i \in 1..c + 1 : Len(Append(slots, pkt)[i]) = seg
      <4> TAKE i \in 1..c + 1
      <4>1. CASE i \in 1..c
        BY <4>1, <3>1, <1>6
      <4>2. CASE i = c + 1
        BY <4>2, <3>2, <1>6
      <4>3. QED
        BY <4>1, <4>2, <1>1
    <3>5. QED
      BY <3>2, <3>3, <3>4, <1>5
  <2>3. QED
    BY <2>1, <2>2, <1>1
<1>11. path \in {"udp", "single"} => c = 0
  <2> SUFFICES ASSUME path \in {"udp", "single"}, c # 0 PROVE FALSE
    OBVIOUS
  <2>1. path # "gso" /\ path \notin {"icmp", "tcp"} /\ batch.count # 0
    BY DEF c
  <2>2. QED
    BY <2>1 DEF Wants
<1>12. path = "gso" /\ c + 1 > 1 => c + 1 <= MaxSegments /\ Len(buf) + n <= MaxBytes
  BY <1>1, <1>9 DEF BulkAssumption
<1>13. QED
  <2>1. batch'.count # 0
    BY <1>1, <1>5
  <2>2. path' \in {"udp", "single"} => batch'.count <= 1
    BY <1>5, <1>11
  <2>3. path' = "gso" /\ batch'.count > 1 =>
          batch'.count <= MaxSegments /\ Len(batch'.buf) <= MaxBytes
    BY <1>5, <1>6, <1>12
  <2>4. QED
    BY <2>1, <2>2, <2>3, <1>7, <1>8, <1>10 DEF BatchKept

(* Concatenation may be regrouped.                                         *)
Grouped(a, b, c) == a \o (b \o c) = (a \o b) \o c
LEMMA JoinsOn ==
  ASSUME NEW S, NEW a \in Seq(S), NEW b \in Seq(S), NEW c \in Seq(S)
  PROVE  Grouped(a, b, c)
<1>1. /\ a \o (b \o c) \in Seq(S) /\ (a \o b) \o c \in Seq(S)
      /\ Len(a \o (b \o c)) = Len(a) + (Len(b) + Len(c))
      /\ Len((a \o b) \o c) = Len(a) + (Len(b) + Len(c))
  BY ConcatProperties
<1>2. a \o (b \o c) = (a \o b) \o c
  BY <1>1
<1>3. QED
  BY <1>2 DEF Grouped

(* Datagrams that leave go to the end of the wire.                         *)
LEMMA LeaveKept ==
  ASSUME BulkAssumption, sealed \in Seq(Lengths), WireKept, Orderly(Wire, LastOut), Shared,
         NEW out \in Seq(Datagram), NEW m \in Nat, NEW upto \in Nat, upto = LastOut,
         Len(out) <= m, upto + m <= Len(sealed), LastOut' = upto + m,
         \A i \in 1..Len(out) : out[i] = Whole(upto + i),
         \A i \in 1..upto + m : Whole(i)' = Whole(i),
         air' = air \o out, unsent' = unsent \union ((upto + 1..upto + m) \ Ids(out)),
         UNCHANGED <<reader, opened>>
  PROVE  WireKept' /\ Orderly(Wire, LastOut)' /\ Shared'
<1>1. /\ opened \in Seq(Datagram) /\ air \in Seq(Datagram) /\ Pending \in Seq(Datagram)
      /\ Pending' = Pending
  BY DEF WireKept, Pending
<1>2. Wire \in Seq(Datagram) /\ air' \in Seq(Datagram) /\ Wire' = Wire \o out
  <2>1. opened \o Pending \in Seq(Datagram)
    BY <1>1, ConcatProperties
  <2>2. air \o out \in Seq(Datagram) /\ (opened \o Pending) \o air \in Seq(Datagram)
    BY <1>1, <2>1, ConcatProperties
  <2>3. (opened \o Pending) \o (air \o out) = ((opened \o Pending) \o air) \o out
    <3> DEFINE op == opened \o Pending
    <3>1. op \in Seq(Datagram)
      BY <2>1
    <3> HIDE DEF op
    <3>2. Grouped(op, air, out)
      BY <3>1, <1>1, JoinsOn
    <3>3. QED
      BY <3>2 DEF Grouped, op
  <2>4. Wire' = (opened \o Pending) \o (air \o out)
    BY <1>1 DEF Wire
  <2>5. QED
    BY <2>2, <2>3, <2>4 DEF Wire
<1>3. WireKept'
  <2>1. reader' = reader /\ opened' = opened
    OBVIOUS
  <2>2. QED
    BY <1>1, <1>2, <2>1 DEF WireKept
<1> DEFINE w == Wire \o out
<1>4. Orderly(w, upto + m) /\ Ids(out) = upto + 1..upto + Len(out)
  <2>1. Orderly(Wire, upto)
    OBVIOUS
  <2>2. QED
    BY <2>1, <1>2, OrderlyMore
<1>5. Orderly(Wire, LastOut)'
  <2> HIDE DEF w
  <2>1. Wire' = w
    BY <1>2 DEF w
  <2>2. \A i \in DOMAIN w : w[i] = Bytes(Id(w[i]), sealed'[Id(w[i])])
    <3> SUFFICES ASSUME NEW i \in DOMAIN w
                 PROVE  w[i] = Bytes(Id(w[i]), sealed'[Id(w[i])])
      OBVIOUS
    <3> DEFINE id == Id(w[i])
    <3>1. id \in 1..upto + m /\ w[i] = Whole(id)
      BY <1>4 DEF Orderly
    <3> HIDE DEF id
    <3>2. PICK k \in 1..upto + m : k = id
      BY <3>1
    <3>3. Whole(k)' = Whole(k)
      OBVIOUS
    <3>4. w[i] = Bytes(k, sealed'[k])
      BY <3>1, <3>2, <3>3 DEF Whole
    <3>5. QED
      BY <3>2, <3>4 DEF id
  <2>3. /\ \A i \in DOMAIN w : Id(w[i]) \in 1..upto + m
        /\ \A i, j \in DOMAIN w : i < j => Id(w[i]) < Id(w[j])
    BY <1>4 DEF Orderly
  <2>4. QED
    BY <2>1, <2>2, <2>3 DEF Orderly, Whole, Id
<1>6. Ids(Wire') = Ids(Wire) \union Ids(out)
  BY <1>2, IdsMore
<1>7. Shared'
  <2> DEFINE old == Ids(Wire)
  <2>1. old \union unsent = 1..upto /\ old \intersect unsent = {}
    BY DEF Shared
  <2>2. Ids(Wire)' = old \union (upto + 1..upto + Len(out))
    <3>1. Ids(Wire)' = Ids(Wire')
      BY DEF Ids, Id
    <3>2. QED
      BY <3>1, <1>4, <1>6
  <2>3. unsent' = unsent \union ((upto + 1..upto + m) \ (upto + 1..upto + Len(out)))
    BY <1>4
  <2> HIDE DEF old
  <2>4. Len(out) \in Nat
    OBVIOUS
  <2>5. upto + 1..upto + Len(out) \subseteq upto + 1..upto + m
    BY <2>4
  <2>6. \A i \in 1..upto : i \notin upto + 1..upto + m
    OBVIOUS
  <2>7. (1..upto) \union (upto + 1..upto + m) = 1..upto + m
    OBVIOUS
  <2>8. Ids(Wire)' \union unsent' = 1..upto + m
    BY <2>1, <2>2, <2>3, <2>5, <2>7
  <2>9. Ids(Wire)' \intersect unsent' = {}
    BY <2>1, <2>2, <2>3, <2>5, <2>6
  <2>10. QED
    BY <2>8, <2>9 DEF Shared
<1>8. QED
  BY <1>3, <1>5, <1>7

(* Nothing leaves, and nothing sealed is forgotten.                        *)
LEMMA StayKept ==
  ASSUME BulkAssumption, WireKept, Orderly(Wire, LastOut), Shared, NEW upto \in Nat,
         upto = LastOut, LastOut' = upto, \A i \in 1..upto : Whole(i)' = Whole(i),
         UNCHANGED <<reader, opened, air, unsent>>
  PROVE  WireKept' /\ Orderly(Wire, LastOut)' /\ Shared'
<1>1. Pending' = Pending /\ Wire' = Wire
  BY DEF Pending, Wire
<1>2. WireKept'
  BY <1>1 DEF WireKept
<1> DEFINE w == Wire
<1>3. /\ \A i \in DOMAIN w : Id(w[i]) \in 1..upto /\ w[i] = Whole(Id(w[i]))
      /\ \A i, j \in DOMAIN w : i < j => Id(w[i]) < Id(w[j])
  BY DEF Orderly
<1>4. Wire' = w
  BY <1>1
<1> HIDE DEF w
<1>5. \A i \in DOMAIN w : w[i] = Bytes(Id(w[i]), sealed'[Id(w[i])])
  <2> SUFFICES ASSUME NEW i \in DOMAIN w
               PROVE  w[i] = Bytes(Id(w[i]), sealed'[Id(w[i])])
    OBVIOUS
  <2>1. PICK k \in 1..upto : k = Id(w[i])
    BY <1>3
  <2>2. Whole(k)' = Whole(k)
    OBVIOUS
  <2>3. w[i] = Whole(k)
    BY <2>1, <1>3
  <2>4. w[i] = Bytes(k, sealed'[k])
    BY <2>2, <2>3 DEF Whole
  <2>5. QED
    BY <2>1, <2>4
<1>6. Orderly(Wire, LastOut)'
  BY <1>3, <1>4, <1>5 DEF Orderly, Whole, Id
<1>7. Shared'
  <2>1. Ids(Wire)' = Ids(Wire)
    BY <1>1 DEF Ids, Id
  <2>2. QED
    BY <2>1 DEF Shared
<1>8. QED
  BY <1>2, <1>6, <1>7

(* What a batch is sent as is what it holds: the kernel's cut is no other. *)
LEMMA SentWhole ==
  ASSUME BulkAssumption, PumpKept, BatchKept
  PROVE  Datagrams(batch) = batch.slots
<1>1. CASE path \in {"gso", "udp"} /\ batch.count > 0
  <2>1. Splits(batch.buf, batch.segSize, batch.slots)
    BY <1>1 DEF BatchKept, OneLength
  <2>2. QED
    BY <1>1, <2>1, CutIs DEF Datagrams
<1>2. CASE ~(path \in {"gso", "udp"} /\ batch.count > 0)
  BY <1>2 DEF Datagrams
<1>3. QED
  BY <1>1, <1>2

(* A call sends the batch's first datagrams, all of them or fewer.         *)
LEMMA SentFacts ==
  ASSUME BulkAssumption, PumpKept, BatchKept, NEW out \in Sent(batch)
  PROVE  /\ out \in Seq(Datagram) /\ Len(out) <= batch.count
         /\ \A i \in 1..Len(out) : out[i] = batch.slots[i]
<1> DEFINE all == batch.slots
<1>1. all \in Seq(Datagram) /\ Len(all) = batch.count /\ batch.count \in Nat
  BY DEF BatchKept, Slotted
<1>2. out = <<>> \/ out = all \/ out \in FirstFew(all)
  BY SentWhole DEF Sent
<1> HIDE DEF all
<1>3. CASE out = <<>>
  BY <1>1, <1>3
<1>4. CASE out = all
  BY <1>1, <1>4 DEF all
<1>5. CASE out \in FirstFew(all)
  <2>1. PICK k \in 0..Len(all) : out = SubSeq(all, 1, k)
    BY <1>5 DEF FirstFew
  <2>2. /\ 1 \in Int /\ k \in Int /\ (k - 1) + 1 = k /\ k <= batch.count /\ k \in Nat
    BY <1>1
  <2>3. \A i \in 1..k : all[i] \in Datagram /\ (1 + i) - 1 = i
    <3> TAKE i \in 1..k
    <3>1. i \in 1..Len(all)
      BY <1>1, <2>2
    <3>2. all[i] \in Datagram
      BY <3>1, <1>1, ElementOfSeq
    <3>3. QED
      BY <3>2
  <2>4. /\ out \in Seq(Datagram) /\ Len(out) = IF 1 <= k THEN (k - 1) + 1 ELSE 0
        /\ \A i \in 1..(k - 1) + 1 : out[i] = all[(1 + i) - 1]
    BY <2>1, <2>2, <2>3, SubSeqProperties
  <2>5. Len(out) = k /\ \A i \in 1..k : out[i] = all[i]
    BY <2>2, <2>3, <2>4
  <2>6. QED
    BY <2>2, <2>4, <2>5 DEF all
<1>6. QED
  BY <1>2, <1>3, <1>4, <1>5

(* The bytes of whole datagrams are of those datagrams.                    *)
LEMMA IdsOfWhole ==
  ASSUME NEW ds \in Seq(Datagram), \A i \in 1..Len(ds) : IdsIn(ds[i]) = {Id(ds[i])}
  PROVE  IdsOf(ds) = Ids(ds)
<1>1. DOMAIN ds = 1..Len(ds)
  OBVIOUS
<1>2. \A x : x \in IdsOf(ds) <=> \E i \in 1..Len(ds) : x \in IdsIn(ds[i])
  BY <1>1 DEF IdsOf
<1>3. \A x : x \in Ids(ds) <=> \E i \in 1..Len(ds) : x = Id(ds[i])
  BY <1>1 DEF Ids
<1>4. \A x : x \in IdsOf(ds) <=> x \in Ids(ds)
  <2> TAKE x
  <2>1. \A i \in 1..Len(ds) : x \in IdsIn(ds[i]) <=> x = Id(ds[i])
    OBVIOUS
  <2>2. QED
    BY <2>1, <1>2, <1>3
<1>5. QED
  BY <1>4

(* A packet is sealed and joins, or waits behind the batch.                *)
LEMMA TakeKeeps == ASSUME BulkAssumption, BulkInv, Take PROVE BulkInv'
<1> DEFINE s == Len(sealed)
<1>1. PICK n \in Lengths :
        /\ sealed' = Append(sealed, n)
        /\ IF Wants(Bytes(s + 1, n)) /\ Fits(Bytes(s + 1, n))
           THEN /\ batch' = Added(Bytes(s + 1, n))
                /\ pump' = [pump EXCEPT !.at = IF Full(batch') THEN "flush" ELSE "drain"]
           ELSE /\ pump' = [at |-> "flushFirst", held |-> Bytes(s + 1, n)]
                /\ UNCHANGED batch
  BY DEF Take
<1>2. pump.at \in {"read", "drain"} /\ UNCHANGED <<path, peerSet, air, reader, opened, unsent>>
  BY DEF Take
<1> DEFINE pkt == Bytes(s + 1, n)
<1>3. /\ PumpKept /\ BatchKept /\ WireKept /\ Orderly(Wire, LastOut) /\ Shared
      /\ sealed \in Seq(Lengths) /\ pump.held = <<>> /\ path \in Paths
      /\ pump \in [at : {"read", "drain", "flush", "flushFirst", "rest"}, held : Datagram]
  BY <1>2 DEF BulkInv, PumpKept
<1>4. PICK low \in Nat : low = LastOut
  BY <1>3, Counts
<1>5. s \in Nat /\ s = LastIn /\ s = low + batch.count /\ batch.count \in Nat
  BY <1>3, <1>4, Counts
<1>6. n \in Nat \ {0} /\ pkt \in Datagram /\ pkt # <<>>
  <2>1. n \in Nat \ {0}
    BY DEF BulkAssumption
  <2>2. s + 1 \in Nat
    BY <1>5
  <2>3. QED
    BY <2>1, <2>2, BytesFacts
<1>7. /\ sealed' \in Seq(Lengths) /\ Len(sealed') = s + 1 /\ sealed'[s + 1] = n
      /\ \A i \in 1..s : sealed'[i] = sealed[i]
  BY <1>1, <1>3, AppendProperties
<1>8. \A i \in 1..s : Whole(i)' = Whole(i)
  BY <1>7 DEF Whole
<1> HIDE DEF s, pkt
<1>9. CASE Wants(pkt) /\ Fits(pkt)
  <2>1. batch' = Added(pkt) /\ pump' = [pump EXCEPT !.at = IF Full(batch') THEN "flush" ELSE "drain"]
    BY <1>1, <1>9 DEF pkt, s
  <2>2. /\ pump'.held = <<>> /\ pump'.at \in {"flush", "drain"}
        /\ pump' \in [at : {"read", "drain", "flush", "flushFirst", "rest"}, held : Datagram]
    BY <2>1, <1>3
  <2>3. batch'.count = batch.count + 1
    BY <2>1 DEF Added
  <2>4. LastIn' = s + 1 /\ LastOut' = low
    <3>1. LastIn' = s + 1
      BY <2>2, <1>5, <1>7 DEF LastIn
    <3>2. (s + 1) - (batch.count + 1) = low
      BY <1>5
    <3>3. QED
      BY <3>1, <3>2, <2>3 DEF LastOut
  <2>5. BatchKept'
    <3>1. LastIn = s /\ LastOut = low /\ pkt = Bytes(s + 1, n) /\ path' = path
      BY <1>2, <1>4, <1>5 DEF pkt
    <3>2. QED
      BY <3>1, <2>1, <2>4, <1>3, <1>5, <1>7, <1>8, <1>9, JoinKept
  <2>6. PumpKept'
    BY <2>2, <1>2, <1>3, <1>7 DEF PumpKept
  <2>7. \A i \in 1..low : Whole(i)' = Whole(i)
    BY <1>5, <1>8
  <2>8. WireKept' /\ Orderly(Wire, LastOut)' /\ Shared'
    BY <2>4, <2>7, <1>2, <1>3, <1>4, StayKept
  <2>9. QED
    BY <2>5, <2>6, <2>8 DEF BulkInv
<1>10. CASE ~(Wants(pkt) /\ Fits(pkt))
  <2>1. pump' = [at |-> "flushFirst", held |-> pkt] /\ batch' = batch
    BY <1>1, <1>10 DEF pkt, s
  <2>2. LastIn' = s /\ LastOut' = low
    BY <2>1, <1>5, <1>6, <1>7 DEF LastIn, LastOut
  <2>3. PumpKept'
    <3>1. Whole(Len(sealed))' = Bytes(s + 1, n)
      BY <1>7 DEF Whole
    <3>2. /\ pump' \in [at : {"read", "drain", "flush", "flushFirst", "rest"}, held : Datagram]
          /\ pump'.held # <<>> /\ pump'.at = "flushFirst" /\ pump'.held = Whole(Len(sealed))'
          /\ Len(sealed') > 0
      BY <2>1, <3>1, <1>5, <1>6, <1>7 DEF pkt
    <3>3. QED
      BY <3>2, <1>2, <1>3, <1>7 DEF PumpKept
  <2>4. BatchKept'
    <3>1. Slotted'
      <4>1. \A i \in 1..batch.count : batch.slots[i] = Bytes(low + i, sealed'[low + i])
        <5> TAKE i \in 1..batch.count
        <5>1. low + i \in 1..s
          BY <1>5
        <5>2. batch.slots[i] = Whole(low + i)
          BY <1>3, <1>4 DEF BatchKept, Slotted
        <5>3. QED
          BY <5>1, <5>2, <1>7 DEF Whole
      <4>2. Len(batch.slots) = batch.count /\ IdsIn(batch.buf) = low + 1..s
        BY <1>3, <1>4, <1>5 DEF BatchKept, Slotted
      <4>3. IdsIn(batch.buf)' = IdsIn(batch.buf)
        BY <2>1 DEF IdsIn
      <4>4. QED
        BY <4>1, <4>2, <4>3, <2>1, <2>2 DEF Slotted, Whole
    <3>2. OneLength'
      BY <2>1, <1>2, <1>3 DEF BatchKept, OneLength
    <3>3. QED
      BY <3>1, <3>2, <2>1, <1>2, <1>3 DEF BatchKept
  <2>5. \A i \in 1..low : Whole(i)' = Whole(i)
    BY <1>5, <1>8
  <2>6. WireKept' /\ Orderly(Wire, LastOut)' /\ Shared'
    BY <2>2, <2>5, <1>2, <1>3, <1>4, StayKept
  <2>7. QED
    BY <2>3, <2>4, <2>6 DEF BulkInv
<1>11. QED
  BY <1>9, <1>10

(* Neither batch nor wire changes.                                         *)
LEMMA SameKept ==
  ASSUME BulkAssumption, BulkInv, UNCHANGED <<path, sealed, batch, air, reader, opened, unsent>>,
         pump'.held = pump.held, PumpKept'
  PROVE  BulkInv'
<1>1. LastIn' = LastIn /\ LastOut' = LastOut /\ Pending' = Pending /\ Wire' = Wire
  BY DEF LastIn, LastOut, Pending, Wire
<1>2. BatchKept /\ WireKept /\ Orderly(Wire, LastOut) /\ Shared
  BY DEF BulkInv
<1>3. BatchKept'
  <2>1. batch' = batch /\ path' = path /\ sealed' = sealed
    OBVIOUS
  <2>2. Slotted'
    BY <1>1, <1>2, <2>1 DEF BatchKept, Slotted, Whole, IdsIn
  <2>3. OneLength'
    BY <1>2, <2>1 DEF BatchKept, OneLength
  <2>4. QED
    BY <1>2, <2>1, <2>2, <2>3 DEF BatchKept
<1>4. WireKept'
  BY <1>1, <1>2 DEF WireKept
<1>5. Orderly(Wire, LastOut)'
  BY <1>1, <1>2 DEF Orderly, Whole, Id
<1>6. Shared'
  BY <1>1, <1>2 DEF Shared, Ids, Id
<1>7. QED
  BY <1>3, <1>4, <1>5, <1>6 DEF BulkInv
LEMMA IdleKeeps ==
  ASSUME BulkAssumption, BulkInv, Arrive \/ PeerFound \/ DrainEmpty
  PROVE  BulkInv'
<1>1. UNCHANGED <<path, sealed, batch, air, reader, opened, unsent>>
  BY DEF Arrive, PeerFound, DrainEmpty
<1>2. \/ pump' = pump
      \/ pump.at = "drain" /\ pump' = [pump EXCEPT !.at = "flush"]
  <2>1. CASE Arrive
    <3>1. pump' = pump
      BY <2>1 DEF Arrive
    <3>2. QED
      BY <3>1
  <2>2. CASE PeerFound
    <3>1. pump' = pump
      BY <2>2 DEF PeerFound
    <3>2. QED
      BY <3>1
  <2>3. CASE DrainEmpty
    BY <2>3 DEF DrainEmpty
  <2>4. QED
    BY <2>1, <2>2, <2>3
<1>3. PumpKept
  BY DEF BulkInv
<1>4. PumpKept' /\ pump'.held = pump.held
  <2>1. pump \in [at : {"read", "drain", "flush", "flushFirst", "rest"}, held : Datagram]
    BY <1>3 DEF PumpKept
  <2>2. Whole(Len(sealed))' = Whole(Len(sealed))
    BY <1>1 DEF Whole
  <2>3. CASE pump' = pump
    BY <1>1, <1>3, <2>2, <2>3 DEF PumpKept
  <2>4. CASE pump.at = "drain" /\ pump' = [pump EXCEPT !.at = "flush"]
    <3>1. /\ pump' \in [at : {"read", "drain", "flush", "flushFirst", "rest"}, held : Datagram]
          /\ pump'.held = pump.held /\ pump'.at = "flush" /\ pump.held = <<>>
      BY <2>1, <2>4, <1>3 DEF PumpKept
    <3>2. QED
      BY <3>1, <1>1, <1>3 DEF PumpKept
  <2>5. QED
    BY <1>2, <2>3, <2>4
<1>5. QED
  BY <1>1, <1>4, SameKept

(* An empty batch.                                                         *)
LEMMA EmptyKept ==
  ASSUME batch' = EmptyBatch, NEW upto \in Nat, LastIn' = upto, LastOut' = upto
  PROVE  BatchKept'
<1>1. /\ batch'.buf = <<>> /\ batch'.slots = <<>> /\ batch'.segSize = 0 /\ batch'.count = 0
      /\ batch' \in [buf : Datagram, slots : Seq(Datagram), segSize : Nat, count : Nat]
  <2>1. <<>> \in Datagram /\ <<>> \in Seq(Datagram)
    BY EmptySeq DEF Datagram
  <2>2. QED
    BY <2>1 DEF EmptyBatch
<1>2. IdsIn(batch.buf)' = {}
  BY <1>1 DEF IdsIn
<1>3. upto + 1..upto = {}
  OBVIOUS
<1>4. Slotted'
  <2>1. Len(batch'.slots) = batch'.count /\ LastOut' \in Nat
    BY <1>1
  <2>2. IdsIn(batch.buf)' = LastOut' + 1..LastIn'
    BY <1>2, <1>3
  <2>3. 1..batch'.count = {}
    BY <1>1
  <2>4. QED
    BY <2>1, <2>2, <2>3 DEF Slotted
<1>5. OneLength'
  BY <1>1 DEF OneLength
<1>6. QED
  BY <1>1, <1>4, <1>5 DEF BatchKept

(* The batch is sent, as much of it as the kernel takes.                   *)
LEMMA FlushKeeps == ASSUME BulkAssumption, BulkInv, Flush PROVE BulkInv'
<1>1. /\ PumpKept /\ BatchKept /\ WireKept /\ Orderly(Wire, LastOut) /\ Shared
      /\ sealed \in Seq(Lengths)
  BY DEF BulkInv, PumpKept
<1>2. PICK out \in Sent(batch) :
        air' = air \o out /\ unsent' = unsent \union (IdsIn(batch.buf) \ IdsOf(out))
  BY DEF Flush
<1>3. /\ pump.at \in {"flush", "flushFirst"} /\ batch' = EmptyBatch
      /\ pump' = [pump EXCEPT !.at = IF pump.at = "flush" THEN "read" ELSE "rest"]
      /\ UNCHANGED <<path, queued, sealed, peerSet, reader, opened>>
  BY DEF Flush
<1>4. PICK upto \in Nat, m \in Nat : upto = LastOut /\ m = batch.count
  BY <1>1, Counts
<1>5. LastIn = upto + m /\ upto + m <= Len(sealed) /\ Len(sealed) \in Nat
  BY <1>1, <1>4, Counts
<1>6. /\ out \in Seq(Datagram) /\ Len(out) <= m /\ Len(out) \in Nat
      /\ \A i \in 1..Len(out) : out[i] = Whole(upto + i) /\ upto + i \in 1..Len(sealed)
  <2>1. /\ out \in Seq(Datagram) /\ Len(out) <= batch.count
        /\ \A i \in 1..Len(out) : out[i] = batch.slots[i]
    BY <1>1, SentFacts
  <2>2. \A i \in 1..batch.count : batch.slots[i] = Whole(LastOut + i)
    BY <1>1 DEF BatchKept, Slotted
  <2>3. \A i \in 1..Len(out) : upto + i \in 1..Len(sealed)
    BY <2>1, <1>4, <1>5
  <2>4. QED
    BY <2>1, <2>2, <2>3, <1>4
<1>7. IdsOf(out) = Ids(out)
  <2>1. \A i \in 1..Len(out) : IdsIn(out[i]) = {Id(out[i])}
    <3> TAKE i \in 1..Len(out)
    <3>1. IdsIn(Whole(upto + i)) = {upto + i} /\ Id(Whole(upto + i)) = upto + i
      BY <1>1, <1>6, WholeFacts
    <3>2. QED
      BY <3>1, <1>6
  <2>2. QED
    BY <2>1, <1>6, IdsOfWhole
<1>8. unsent' = unsent \union ((upto + 1..upto + m) \ Ids(out))
  <2>1. IdsIn(batch.buf) = upto + 1..upto + m
    BY <1>1, <1>4, <1>5 DEF BatchKept, Slotted
  <2>2. QED
    BY <2>1, <1>2, <1>7
<1>9. /\ pump'.held = pump.held
      /\ pump'.at = IF pump.at = "flush" THEN "read" ELSE "rest"
      /\ pump' \in [at : {"read", "drain", "flush", "flushFirst", "rest"}, held : Datagram]
  BY <1>1, <1>3 DEF PumpKept
<1>10. LastIn' = upto + m /\ LastOut' = upto + m
  <2>1. LastIn' = LastIn /\ batch'.count = 0
    BY <1>3, <1>9 DEF LastIn, EmptyBatch
  <2>2. QED
    BY <2>1, <1>5 DEF LastOut
<1>11. PumpKept'
  <2>1. Whole(Len(sealed))' = Whole(Len(sealed))
    BY <1>3 DEF Whole
  <2>2. QED
    BY <2>1, <1>1, <1>3, <1>9 DEF PumpKept, EmptyBatch
<1>12. BatchKept'
  <2>1. upto + m \in Nat
    OBVIOUS
  <2>2. QED
    BY <2>1, <1>3, <1>10, EmptyKept
<1>13. WireKept' /\ Orderly(Wire, LastOut)' /\ Shared'
  <2>1. \A i \in 1..upto + m : Whole(i)' = Whole(i)
    BY <1>3 DEF Whole
  <2>2. air' = air \o out /\ UNCHANGED <<reader, opened>>
    BY <1>2, <1>3
  <2>3. \A i \in 1..Len(out) : out[i] = Whole(upto + i)
    BY <1>6
  <2>4. QED
    BY <2>1, <2>2, <2>3, <1>1, <1>4, <1>5, <1>6, <1>8, <1>10, LeaveKept
<1>14. QED
  BY <1>11, <1>12, <1>13 DEF BulkInv

(* The datagram held joins an empty batch, or goes on its own.             *)
LEMMA RestKeeps == ASSUME BulkAssumption, BulkInv, Rest PROVE BulkInv'
<1>1. /\ PumpKept /\ BatchKept /\ WireKept /\ Orderly(Wire, LastOut) /\ Shared
      /\ sealed \in Seq(Lengths) /\ UNCHANGED <<path, queued, sealed, peerSet, reader, opened>>
      /\ path \in Paths
  BY DEF BulkInv, PumpKept, Rest
<1> DEFINE s == Len(sealed)
           pkt == pump.held
<1>2. /\ pump.at = "rest" /\ pkt # <<>> /\ s > 0 /\ pkt = Whole(s) /\ batch = EmptyBatch
      /\ batch.count = 0
  BY <1>1 DEF PumpKept, Rest, EmptyBatch
<1>3. PICK upto \in Nat : upto = LastOut
  BY <1>1, Counts
<1>4. LastIn = upto /\ s = upto + 1 /\ s \in Nat /\ s \in 1..s
  <2>1. LastIn = LastOut + batch.count /\ LastIn + 1 = Len(sealed) /\ LastIn \in Nat
    BY <1>1, <1>2, Counts
  <2>2. QED
    BY <2>1, <1>2, <1>3
<1>5. /\ pkt \in Datagram /\ IdsIn(pkt) = {s} /\ Id(pkt) = s
      /\ pkt = Bytes(s, sealed[s]) /\ sealed[s] \in Lengths
  <2>1. Whole(s) \in Datagram /\ IdsIn(Whole(s)) = {s} /\ Id(Whole(s)) = s
    BY <1>1, <1>4, WholeFacts
  <2>2. sealed[s] \in Lengths
    BY <1>1, <1>4, ElementOfSeq
  <2>3. QED
    BY <2>1, <2>2, <1>2 DEF Whole
<1>6. \A i \in 1..s : Whole(i)' = Whole(i)
  BY <1>1 DEF Whole
<1>7. ASSUME pump'.held = <<>>, pump'.at \in {"flush", "drain"},
             pump' \in [at : {"flush", "drain"}, held : {<<>>}]
      PROVE  PumpKept' /\ LastIn' = upto + 1
  <2>1. <<>> \in Datagram
    BY EmptySeq DEF Datagram
  <2>2. pump' \in [at : {"read", "drain", "flush", "flushFirst", "rest"}, held : Datagram]
    BY <1>7, <2>1
  <2>3. PumpKept'
    BY <1>1, <1>7, <2>2 DEF PumpKept
  <2>4. LastIn' = upto + 1
    BY <1>1, <1>4, <1>7 DEF LastIn
  <2>5. QED
    BY <2>3, <2>4
<1>8. CASE Fits(pkt)
  <2>1. /\ batch' = Added(pkt) /\ UNCHANGED <<air, unsent>>
        /\ pump' = [at |-> IF Full(batch') THEN "flush" ELSE "drain", held |-> <<>>]
    BY <1>8 DEF Rest
  <2>2. PumpKept' /\ LastIn' = upto + 1
    <3>1. /\ pump'.held = <<>> /\ pump'.at \in {"flush", "drain"}
          /\ pump' \in [at : {"flush", "drain"}, held : {<<>>}]
      BY <2>1
    <3>2. QED
      BY <3>1, <1>7
  <2>3. LastOut' = upto
    <3>1. batch'.count = 1
      BY <2>1, <1>2 DEF Added
    <3>2. QED
      BY <3>1, <2>2 DEF LastOut
  <2>4. BatchKept'
    <3>1. Wants(pkt) /\ LastIn = upto /\ LastOut = upto
      BY <1>2, <1>3, <1>4 DEF Wants
    <3>2. \A i \in 1..upto : Whole(i)' = Whole(i)
      BY <1>4, <1>6
    <3>3. PICK n \in Lengths : n = sealed[s]
      BY <1>5
    <3>4. pkt = Bytes(upto + 1, n) /\ sealed'[upto + 1] = n /\ path' = path
      BY <3>3, <1>1, <1>4, <1>5
    <3>5. LastIn' = upto + 1 /\ LastOut' = upto /\ batch' = Added(pkt)
      BY <2>1, <2>2, <2>3
    <3> HIDE DEF pkt, s
    <3>6. QED
      BY <3>1, <3>2, <3>4, <3>5, <1>1, JoinKept
  <2>5. WireKept' /\ Orderly(Wire, LastOut)' /\ Shared'
    <3>1. \A i \in 1..upto : Whole(i)' = Whole(i)
      BY <1>4, <1>6
    <3>2. UNCHANGED <<reader, opened, air, unsent>>
      BY <2>1, <1>1
    <3>3. QED
      BY <3>1, <3>2, <2>3, <1>1, <1>3, StayKept
  <2>6. QED
    BY <2>2, <2>4, <2>5 DEF BulkInv
<1>9. CASE ~Fits(pkt)
  <2>1. /\ \/ air' = Append(air, pkt) /\ UNCHANGED unsent
           \/ unsent' = unsent \union IdsIn(pkt) /\ UNCHANGED air
        /\ pump' = [at |-> "drain", held |-> <<>>] /\ batch' = batch
    BY <1>9 DEF Rest
  <2>2. PumpKept' /\ LastIn' = upto + 1
    <3>1. /\ pump'.held = <<>> /\ pump'.at \in {"flush", "drain"}
          /\ pump' \in [at : {"flush", "drain"}, held : {<<>>}]
      BY <2>1
    <3>2. QED
      BY <3>1, <1>7
  <2>3. LastOut' = upto + 1 /\ upto + 1 \in Nat
    BY <2>1, <2>2, <1>2 DEF LastOut
  <2>4. BatchKept'
    BY <2>1, <2>2, <2>3, <1>2, EmptyKept
  <2>5. PICK out \in Seq(Datagram) :
          /\ Len(out) <= 1 /\ \A i \in 1..Len(out) : out[i] = Whole(upto + i)
          /\ air' = air \o out /\ unsent' = unsent \union ((upto + 1..upto + 1) \ Ids(out))
    <3>1. upto + 1..upto + 1 = {s} /\ air \in Seq(Datagram)
      BY <1>1, <1>4 DEF WireKept
    <3>2. CASE air' = Append(air, pkt) /\ UNCHANGED unsent
      <4> DEFINE o == <<pkt>>
      <4>1. o \in Seq(Datagram) /\ Len(o) = 1 /\ o[1] = pkt /\ DOMAIN o = {1}
        BY <1>5
      <4>2. Ids(o) = {s}
        BY <4>1, <1>5 DEF Ids
      <4>3. air' = air \o o
        BY <3>1, <3>2, <1>5, AppendIsConcat
      <4>4. \A i \in 1..Len(o) : o[i] = Whole(upto + i)
        BY <4>1, <1>2, <1>4
      <4> HIDE DEF o
      <4>5. unsent' = unsent \union ((upto + 1..upto + 1) \ Ids(o))
        BY <4>2, <3>1, <3>2
      <4>6. Len(o) <= 1
        BY <4>1
      <4>7. QED
        BY <4>1, <4>3, <4>4, <4>5, <4>6, Zenon
    <3>3. CASE unsent' = unsent \union IdsIn(pkt) /\ UNCHANGED air
      <4> DEFINE o == <<>>
      <4>1. o \in Seq(Datagram) /\ Len(o) = 0 /\ Ids(o) = {}
        BY EmptySeq DEF Ids
      <4>2. air' = air \o o
        BY <3>1, <3>3, ConcatEmptySeq
      <4> HIDE DEF o
      <4>3. Len(o) <= 1 /\ \A i \in 1..Len(o) : o[i] = Whole(upto + i)
        BY <4>1
      <4>4. unsent' = unsent \union ((upto + 1..upto + 1) \ Ids(o))
        BY <4>1, <3>1, <3>3, <1>5
      <4>5. QED
        BY <4>1, <4>2, <4>3, <4>4, Zenon
    <3>4. QED
      BY <2>1, <3>2, <3>3
  <2>6. WireKept' /\ Orderly(Wire, LastOut)' /\ Shared'
    <3>1. \A i \in 1..upto + 1 : Whole(i)' = Whole(i)
      BY <1>4, <1>6
    <3>2. upto + 1 <= Len(sealed) /\ UNCHANGED <<reader, opened>> /\ 1 \in Nat
      BY <1>1, <1>4
    <3>3. QED
      BY <3>1, <3>2, <2>3, <2>5, <1>1, <1>3, LeaveKept
  <2>7. QED
    BY <2>2, <2>4, <2>6 DEF BulkInv
<1>10. QED
  BY <1>8, <1>9

(* The first of a run is handed over, the others stay in line.             *)
LEMMA HandedOver ==
  ASSUME NEW a \in Seq(Datagram), NEW ds \in Seq(Datagram), Len(ds) > 0
  PROVE  /\ Append(a, ds[1]) \in Seq(Datagram) /\ Tail(ds) \in Seq(Datagram)
         /\ Append(a, ds[1]) \o Tail(ds) = a \o ds
<1> DEFINE u == Append(a, ds[1])
           t == Tail(ds)
<1>1. /\ Len(a) \in Nat /\ Len(ds) \in Nat \ {0} /\ ds # <<>> /\ 1 \in 1..Len(ds)
      /\ ds[1] \in Datagram
  BY EmptySeq
<1>2. /\ u \in Seq(Datagram) /\ Len(u) = Len(a) + 1 /\ \A i \in 1..Len(a) : u[i] = a[i]
      /\ u[Len(a) + 1] = ds[1]
  BY <1>1, AppendProperties
<1>3. /\ t \in Seq(Datagram) /\ Len(t) = Len(ds) - 1 /\ \A i \in 1..Len(t) : t[i] = ds[i + 1]
  BY <1>1, HeadTailProperties
<1> HIDE DEF u, t
<1> DEFINE x == u \o t
           y == a \o ds
<1>4. /\ x \in Seq(Datagram) /\ Len(x) = Len(u) + Len(t)
      /\ \A i \in 1..Len(u) + Len(t) : x[i] = IF i <= Len(u) THEN u[i] ELSE t[i - Len(u)]
  BY <1>2, <1>3, ConcatProperties
<1>5. /\ y \in Seq(Datagram) /\ Len(y) = Len(a) + Len(ds)
      /\ \A i \in 1..Len(a) + Len(ds) : y[i] = IF i <= Len(a) THEN a[i] ELSE ds[i - Len(a)]
  BY <1>1, ConcatProperties
<1> HIDE DEF x, y
<1>6. Len(x) = Len(y) /\ Len(u) + Len(t) = Len(a) + Len(ds)
  BY <1>1, <1>2, <1>3, <1>4, <1>5
<1>7. ASSUME NEW i \in 1..Len(x)
      PROVE  x[i] = y[i]
  <2>1. i \in 1..Len(a) + Len(ds)
    BY <1>4, <1>6
  <2>2. CASE i <= Len(a)
    <3>1. x[i] = u[i] /\ u[i] = a[i] /\ y[i] = a[i]
      BY <2>1, <2>2, <1>1, <1>2, <1>4, <1>5, <1>6
    <3>2. QED
      BY <3>1
  <2>3. CASE i = Len(a) + 1
    <3>1. i <= Len(u) /\ ~(i <= Len(a)) /\ i - Len(a) = 1
      BY <2>3, <1>1, <1>2
    <3>2. x[i] = u[i] /\ y[i] = ds[1]
      BY <3>1, <2>1, <1>4, <1>5, <1>6
    <3>3. QED
      BY <3>2, <2>3, <1>2
  <2>4. CASE i > Len(a) + 1
    <3>1. /\ ~(i <= Len(u)) /\ ~(i <= Len(a)) /\ i - Len(u) \in 1..Len(t)
          /\ (i - Len(u)) + 1 = i - Len(a)
      BY <2>1, <2>4, <1>1, <1>2, <1>3
    <3>2. x[i] = t[i - Len(u)] /\ y[i] = ds[i - Len(a)]
      BY <3>1, <2>1, <1>4, <1>5, <1>6
    <3>3. t[i - Len(u)] = ds[(i - Len(u)) + 1]
      BY <3>1, <1>3
    <3>4. QED
      BY <3>1, <3>2, <3>3
  <2>5. QED
    BY <2>1, <2>2, <2>3, <2>4, <1>1
<1>8. x = y
  BY <1>4, <1>5, <1>6, <1>7, SeqEqual
<1>9. QED
  BY <1>2, <1>3, <1>8 DEF x, y, u, t

(* Where what left stands on the wire.                                     *)
LEMMA ConcatFacts ==
  ASSUME NEW a \in Seq(Datagram), NEW b \in Seq(Datagram)
  PROVE  /\ a \o b \in Seq(Datagram) /\ Len(a \o b) = Len(a) + Len(b)
         /\ Len(a) \in Nat /\ Len(b) \in Nat
         /\ \A i \in 1..Len(a) : (a \o b)[i] = a[i]
         /\ \A i \in 1..Len(b) : (a \o b)[Len(a) + i] = b[i]
<1> DEFINE x == a \o b
<1>1. /\ x \in Seq(Datagram) /\ Len(x) = Len(a) + Len(b) /\ Len(a) \in Nat /\ Len(b) \in Nat
      /\ \A i \in 1..Len(a) + Len(b) : x[i] = IF i <= Len(a) THEN a[i] ELSE b[i - Len(a)]
  BY ConcatProperties
<1> HIDE DEF x
<1>2. \A i \in 1..Len(a) : x[i] = a[i]
  BY <1>1
<1>3. \A i \in 1..Len(b) : x[Len(a) + i] = b[i]
  <2> TAKE i \in 1..Len(b)
  <2>1. /\ Len(a) + i \in 1..Len(a) + Len(b) /\ ~(Len(a) + i <= Len(a))
        /\ (Len(a) + i) - Len(a) = i
    BY <1>1
  <2>2. QED
    BY <2>1, <1>1
<1>4. QED
  BY <1>1, <1>2, <1>3 DEF x
LEMMA WireParts ==
  ASSUME WireKept
  PROVE  /\ opened \in Seq(Datagram) /\ Pending \in Seq(Datagram) /\ air \in Seq(Datagram)
         /\ opened \o Pending \in Seq(Datagram) /\ Wire \in Seq(Datagram)
         /\ Len(opened) \in Nat /\ Len(Pending) \in Nat /\ Len(air) \in Nat
         /\ Len(Wire) = (Len(opened) + Len(Pending)) + Len(air)
         /\ \A i \in 1..Len(opened) : i \in DOMAIN Wire /\ Wire[i] = opened[i]
         /\ \A i \in 1..Len(Pending) : /\ Len(opened) + i \in DOMAIN Wire
                                       /\ Wire[Len(opened) + i] = Pending[i]
         /\ \A i \in 1..Len(air) : /\ (Len(opened) + Len(Pending)) + i \in DOMAIN Wire
                                   /\ Wire[(Len(opened) + Len(Pending)) + i] = air[i]
<1>1. opened \in Seq(Datagram) /\ Pending \in Seq(Datagram) /\ air \in Seq(Datagram)
  BY DEF WireKept
<1> DEFINE op == opened \o Pending
<1>2. /\ op \in Seq(Datagram) /\ Len(op) = Len(opened) + Len(Pending)
      /\ Len(opened) \in Nat /\ Len(Pending) \in Nat
      /\ \A i \in 1..Len(opened) : op[i] = opened[i]
      /\ \A i \in 1..Len(Pending) : op[Len(opened) + i] = Pending[i]
  BY <1>1, ConcatFacts
<1>3. Wire = op \o air
  BY DEF Wire
<1> HIDE DEF op
<1>4. /\ Wire \in Seq(Datagram) /\ Len(Wire) = Len(op) + Len(air) /\ Len(air) \in Nat
      /\ \A i \in 1..Len(op) : Wire[i] = op[i]
      /\ \A i \in 1..Len(air) : Wire[Len(op) + i] = air[i]
  <2> DEFINE w == op \o air
  <2>1. /\ w \in Seq(Datagram) /\ Len(w) = Len(op) + Len(air) /\ Len(air) \in Nat
        /\ \A i \in 1..Len(op) : w[i] = op[i]
        /\ \A i \in 1..Len(air) : w[Len(op) + i] = air[i]
    BY <1>1, <1>2, ConcatFacts
  <2> HIDE DEF w
  <2>2. Wire = w
    BY <1>3 DEF w
  <2>3. QED
    BY <2>1, <2>2
<1>5. DOMAIN Wire = 1..Len(Wire)
  BY <1>4, LenProperties
<1>6. \A i \in 1..Len(opened) : i \in DOMAIN Wire /\ Wire[i] = opened[i]
  <2> TAKE i \in 1..Len(opened)
  <2>1. i \in 1..Len(op) /\ i \in 1..Len(Wire)
    BY <1>2, <1>4
  <2>2. QED
    BY <2>1, <1>2, <1>4, <1>5
<1>7. \A i \in 1..Len(Pending) : /\ Len(opened) + i \in DOMAIN Wire
                                 /\ Wire[Len(opened) + i] = Pending[i]
  <2> TAKE i \in 1..Len(Pending)
  <2>1. Len(opened) + i \in 1..Len(op) /\ Len(opened) + i \in 1..Len(Wire)
    BY <1>2, <1>4
  <2>2. QED
    BY <2>1, <1>2, <1>4, <1>5
<1>8. \A i \in 1..Len(air) : /\ Len(op) + i \in DOMAIN Wire
                             /\ Wire[Len(op) + i] = air[i]
  <2> TAKE i \in 1..Len(air)
  <2>1. Len(op) + i \in 1..Len(Wire)
    BY <1>2, <1>4
  <2>2. QED
    BY <2>1, <1>4, <1>5
<1>9. QED
  BY <1>1, <1>2, <1>4, <1>6, <1>7, <1>8 DEF op

(* The far end only moves what left along.                                 *)
LEMMA MovedKept ==
  ASSUME BulkAssumption, BulkInv, UNCHANGED <<path, sealed, pump, batch, unsent>>,
         Wire' = Wire, WireKept'
  PROVE  BulkInv'
<1>1. LastIn' = LastIn /\ LastOut' = LastOut
  BY DEF LastIn, LastOut
<1>2. PumpKept /\ BatchKept /\ Orderly(Wire, LastOut) /\ Shared
  BY DEF BulkInv
<1>3. PumpKept'
  BY <1>2 DEF PumpKept, Whole
<1>4. BatchKept'
  <2>1. batch' = batch /\ path' = path /\ sealed' = sealed
    OBVIOUS
  <2>2. Slotted'
    BY <1>1, <1>2, <2>1 DEF BatchKept, Slotted, Whole, IdsIn
  <2>3. OneLength'
    BY <1>2, <2>1 DEF BatchKept, OneLength
  <2>4. QED
    BY <1>2, <2>1, <2>2, <2>3 DEF BatchKept
<1>5. Orderly(Wire, LastOut)'
  BY <1>1, <1>2 DEF Orderly, Whole, Id
<1>6. Shared'
  BY <1>1, <1>2 DEF Shared, Ids, Id
<1>7. QED
  BY <1>3, <1>4, <1>5, <1>6 DEF BulkInv

(* The rest of a run waits in the reader.                                  *)
LEMMA PendKept ==
  ASSUME NEW ds \in Seq(Datagram), NEW pend, NEW seg \in Nat, reader' = [pend |-> pend, seg |-> seg],
         \/ pend = <<>> /\ ds = <<>>
         \/ pend # <<>> /\ Splits(pend, seg, ds)
  PROVE  /\ Pending' = ds /\ reader' \in [pend : Datagram, seg : Nat]
         /\ (reader'.pend # <<>> => Splits(reader'.pend, reader'.seg, Pending'))
<1>1. reader'.pend = pend /\ reader'.seg = seg
  OBVIOUS
<1>2. CASE pend = <<>> /\ ds = <<>>
  <2>1. pend \in Datagram
    BY <1>2, EmptySeq DEF Datagram
  <2>2. Pending' = ds
    BY <1>1, <1>2 DEF Pending
  <2>3. QED
    BY <1>1, <1>2, <2>1, <2>2
<1>3. CASE pend # <<>> /\ Splits(pend, seg, ds)
  <2>1. pend \in Datagram
    BY <1>3 DEF Splits
  <2>2. Cut(pend, seg) = ds
    BY <1>3, CutIs
  <2>3. Pending' = ds
    BY <1>1, <1>3, <2>2 DEF Pending, Cut, Lesser
  <2>4. QED
    BY <1>1, <1>3, <2>1, <2>3
<1>4. QED
  BY <1>2, <1>3

(* The next piece is cut off.                                              *)
LEMMA RecvPendingKeeps == ASSUME BulkAssumption, BulkInv, RecvPending PROVE BulkInv'
<1> DEFINE pend == reader.pend
           seg == reader.seg
           n == Lesser(seg, Len(pend))
           ds == Pending
<1>1. WireKept /\ UNCHANGED <<path, sealed, pump, batch, air, unsent>> /\ pend # <<>>
  BY DEF BulkInv, RecvPending
<1>2. /\ opened' = Append(opened, SubSeq(pend, 1, n))
      /\ reader' = [reader EXCEPT !.pend = SubSeq(@, n + 1, Len(@))]
  BY DEF RecvPending
<1>3. /\ reader \in [pend : Datagram, seg : Nat] /\ opened \in Seq(Datagram)
      /\ air \in Seq(Datagram) /\ ds \in Seq(Datagram) /\ Splits(pend, seg, ds)
  BY <1>1 DEF WireKept
<1>4. reader' = [pend |-> SubSeq(pend, n + 1, Len(pend)), seg |-> seg] /\ seg \in Nat
  BY <1>2, <1>3
<1> HIDE DEF pend, seg, n, ds
<1>5. opened' = Append(opened, ds[1])
  BY <1>2, <1>3, FirstPiece DEF n
<1>6. Len(ds) > 0 /\ Len(ds) \in Nat
  BY <1>3 DEF Splits
<1>7. /\ opened' \in Seq(Datagram) /\ Tail(ds) \in Seq(Datagram)
      /\ opened' \o Tail(ds) = opened \o ds
  BY <1>3, <1>5, <1>6, HandedOver
<1> DEFINE rest == SubSeq(pend, n + 1, Len(pend))
<1>8. \/ rest = <<>> /\ Tail(ds) = <<>>
      \/ rest # <<>> /\ Splits(rest, seg, Tail(ds))
  <2>1. CASE Len(ds) = 1
    <3>1. rest = <<>>
      BY <2>1, <1>3, OtherPieces DEF n
    <3>2. Len(Tail(ds)) = 0
      <4>1. ds # <<>>
        BY <1>6
      <4>2. Len(Tail(ds)) = Len(ds) - 1
        BY <4>1, <1>3, HeadTailProperties
      <4>3. QED
        BY <4>2, <2>1
    <3>3. Tail(ds) = <<>>
      BY <3>2, <1>7, EmptySeq
    <3>4. QED
      BY <3>1, <3>3
  <2>2. CASE Len(ds) > 1
    <3>1. /\ n = seg /\ SubSeq(pend, seg + 1, Len(pend)) # <<>>
          /\ Splits(SubSeq(pend, seg + 1, Len(pend)), seg, Tail(ds))
      BY <2>2, <1>3, OtherPieces DEF n
    <3>2. QED
      BY <3>1
  <2>3. Len(ds) = 1 \/ Len(ds) > 1
    <3>1. PICK k \in Nat : k = Len(ds) /\ k > 0
      BY <1>6
    <3>2. k = 1 \/ k > 1
      BY <3>1
    <3>3. QED
      BY <3>1, <3>2
  <2>4. QED
    BY <2>1, <2>2, <2>3
<1>9. /\ Pending' = Tail(ds) /\ reader' \in [pend : Datagram, seg : Nat]
      /\ (reader'.pend # <<>> => Splits(reader'.pend, reader'.seg, Pending'))
  <2>1. reader' = [pend |-> rest, seg |-> seg]
    BY <1>4
  <2> HIDE DEF rest
  <2>2. QED
    BY <2>1, <1>4, <1>7, <1>8, PendKept
<1>10. WireKept'
  <2>1. (reader.pend # <<>> => Splits(reader.pend, reader.seg, Pending))'
    BY <1>9 DEF Splits, Off
  <2>2. QED
    BY <2>1, <1>1, <1>3, <1>7, <1>9 DEF WireKept
<1>11. Wire' = Wire
  <2>1. Wire' = (opened' \o Tail(ds)) \o air
    BY <1>1, <1>9 DEF Wire
  <2>2. Wire = (opened \o ds) \o air
    BY DEF Wire, ds
  <2>3. QED
    BY <2>1, <2>2, <1>7
<1>12. QED
  BY <1>1, <1>10, <1>11, MovedKept

(* A run is read: its first datagram is handed over.                       *)
LEMMA RecvSocketKeeps == ASSUME BulkAssumption, BulkInv, RecvSocket PROVE BulkInv'
<1>1. /\ WireKept /\ Orderly(Wire, LastOut) /\ sealed \in Seq(Lengths)
      /\ UNCHANGED <<path, sealed, pump, batch, unsent>>
      /\ reader.pend = <<>> /\ air # <<>> /\ PumpKept /\ BatchKept
  BY DEF BulkInv, PumpKept, RecvSocket
<1>2. PICK n \in Runs :
        LET buf == Joined(SubSeq(air, 1, n))
            seg == IF n > 1 THEN Len(air[1]) ELSE 0
        IN /\ air' = SubSeq(air, n + 1, Len(air))
           /\ IF seg > 0 /\ seg < Len(buf)
              THEN /\ opened' = Append(opened, SubSeq(buf, 1, seg))
                   /\ reader' = [pend |-> SubSeq(buf, seg + 1, Len(buf)), seg |-> seg]
              ELSE opened' = Append(opened, buf) /\ reader' = NoPend
  BY DEF RecvSocket
<1> DEFINE ds == SubSeq(air, 1, n)
           left == SubSeq(air, n + 1, Len(air))
           buf == Joined(ds)
           seg == Len(air[1])
<1>3. /\ opened \in Seq(Datagram) /\ air \in Seq(Datagram) /\ Pending = <<>>
      /\ Len(air) \in Nat
  BY <1>1 DEF WireKept, Pending
<1>4. /\ n \in 1..Len(air) /\ n \in Nat \ {0} /\ n <= Len(air)
      /\ (n > 1 => \A i \in 1..n : IF i < n THEN Len(air[i]) = Len(air[1])
                                   ELSE Len(air[i]) <= Len(air[1]))
  BY <1>3 DEF Runs
<1>5. \A i \in 1..Len(air) : air[i] \in Datagram /\ Len(air[i]) \in Nat \ {0} /\ air[i] # <<>>
  <2> TAKE i \in 1..Len(air)
  <2> DEFINE k == (Len(opened) + Len(Pending)) + i
  <2>1. k \in DOMAIN Wire /\ Wire[k] = air[i]
    BY <1>1, WireParts
  <2> HIDE DEF k
  <2>2. Id(Wire[k]) \in 1..LastOut /\ Wire[k] = Whole(Id(Wire[k]))
    BY <1>1, <2>1 DEF Orderly
  <2>3. LastOut \in Nat /\ LastOut <= Len(sealed) /\ Len(sealed) \in Nat
    <3>1. /\ LastOut \in Nat /\ LastIn = LastOut + batch.count /\ LastIn <= Len(sealed)
          /\ batch.count \in Nat /\ Len(sealed) \in Nat
      BY <1>1, Counts
    <3>2. QED
      BY <3>1
  <2>4. PICK id \in 1..Len(sealed) : air[i] = Whole(id)
    <3>1. Id(Wire[k]) \in 1..Len(sealed)
      BY <2>2, <2>3
    <3>2. QED
      BY <2>1, <2>2, <3>1
  <2>5. Whole(id) \in Datagram /\ Len(Whole(id)) = sealed[id] /\ sealed[id] \in Nat \ {0}
        /\ Whole(id) # <<>>
    BY <1>1, WholeFacts
  <2>6. QED
    BY <2>4, <2>5
<1>6. /\ ds \in Seq(Datagram) /\ Len(ds) = n /\ \A i \in 1..n : ds[i] = air[i]
  <2>1. 1 \in Int /\ n \in Int /\ \A i \in 1..n : air[i] \in Datagram
    BY <1>3, <1>4, <1>5
  <2>2. /\ ds \in Seq(Datagram) /\ Len(ds) = IF 1 <= n THEN (n - 1) + 1 ELSE 0
        /\ \A i \in 1..(n - 1) + 1 : ds[i] = air[(1 + i) - 1]
    BY <2>1, SubSeqProperties
  <2>3. (n - 1) + 1 = n /\ 1 <= n /\ \A i \in 1..n : (1 + i) - 1 = i
    BY <1>4
  <2>4. QED
    BY <2>2, <2>3
<1>7. left \in Seq(Datagram) /\ ds \o left = air
  <2>1. n + 1 \in Int /\ Len(air) \in Int /\ \A i \in n + 1..Len(air) : air[i] \in Datagram
    BY <1>3, <1>4, <1>5
  <2>2. left \in Seq(Datagram)
    BY <2>1, SubSeqProperties
  <2>3. 1 \in 1..Len(air) + 1 /\ n \in (1 - 1)..Len(air) /\ Len(air) \in n..Len(air)
    BY <1>3, <1>4
  <2>4. ds \o left = SubSeq(air, 1, Len(air))
    BY <2>3, <1>3, ConcatAdjacentSubSeq
  <2>5. SubSeq(air, 1, Len(air)) = air
    BY <1>3, SubSeqFull
  <2>6. QED
    BY <2>2, <2>4, <2>5
<1> HIDE DEF ds, left
<1>8. seg \in Nat \ {0} /\ seg = Len(ds[1]) /\ Splits(buf, seg, ds)
  <2>1. 1 \in 1..n /\ 1 \in 1..Len(air) /\ ds # <<>>
    BY <1>3, <1>4, <1>6
  <2>2. ds[1] = air[1] /\ Len(air[1]) \in Nat \ {0}
    BY <2>1, <1>5, <1>6
  <2>3. \A i \in 1..Len(ds) : ds[i] # <<>>
    BY <1>3, <1>4, <1>5, <1>6
  <2>4. \A i \in 1..Len(ds) : IF i < Len(ds) THEN Len(ds[i]) = Len(ds[1])
                              ELSE Len(ds[i]) <= Len(ds[1])
    <3>1. CASE n > 1
      BY <3>1, <1>4, <1>6, <2>2
    <3>2. CASE n = 1
      BY <3>2, <1>6, <2>2
    <3>3. QED
      BY <3>1, <3>2, <1>4
  <2>5. Splits(Joined(ds), Len(ds[1]), ds)
    BY <2>1, <2>3, <2>4, <1>6, JoinedSplits
  <2>6. QED
    BY <2>2, <2>5
<1>9. SubSeq(buf, 1, Lesser(seg, Len(buf))) = ds[1]
  BY <1>8, FirstPiece
<1>10. /\ air' = left
       /\ opened' = Append(opened, ds[1])
       /\ \/ reader' = NoPend /\ n = 1
          \/ /\ reader' = [pend |-> SubSeq(buf, seg + 1, Len(buf)), seg |-> seg]
             /\ SubSeq(buf, seg + 1, Len(buf)) # <<>>
             /\ Splits(SubSeq(buf, seg + 1, Len(buf)), seg, Tail(ds))
  <2>1. air' = left
    BY <1>2 DEF left
  <2>2. CASE n > 1
    <3>1. /\ Lesser(seg, Len(buf)) = seg /\ seg < Len(buf)
          /\ SubSeq(buf, seg + 1, Len(buf)) # <<>>
          /\ Splits(SubSeq(buf, seg + 1, Len(buf)), seg, Tail(ds))
      BY <2>2, <1>6, <1>8, OtherPieces
    <3>2. /\ opened' = Append(opened, SubSeq(buf, 1, seg))
          /\ reader' = [pend |-> SubSeq(buf, seg + 1, Len(buf)), seg |-> seg]
      <4> DEFINE c == IF n > 1 THEN Len(air[1]) ELSE 0
      <4>1. c = seg /\ c > 0 /\ c < Len(buf)
        BY <2>2, <3>1, <1>8
      <4>2. /\ opened' = Append(opened, SubSeq(buf, 1, c))
            /\ reader' = [pend |-> SubSeq(buf, c + 1, Len(buf)), seg |-> c]
        <5>1. IF c > 0 /\ c < Len(buf)
              THEN /\ opened' = Append(opened, SubSeq(buf, 1, c))
                   /\ reader' = [pend |-> SubSeq(buf, c + 1, Len(buf)), seg |-> c]
              ELSE opened' = Append(opened, buf) /\ reader' = NoPend
          BY <1>2 DEF ds
        <5> HIDE DEF c, buf
        <5>2. QED
          BY <4>1, <5>1
      <4> HIDE DEF c, buf, seg
      <4>3. QED
        BY <4>1, <4>2
    <3>3. SubSeq(buf, 1, seg) = ds[1]
      BY <3>1, <1>9
    <3>4. QED
      BY <2>1, <3>1, <3>2, <3>3
  <2>3. CASE n = 1
    <3>1. opened' = Append(opened, buf) /\ reader' = NoPend
      BY <2>3, <1>2 DEF ds
    <3>2. buf = ds[1]
      <4>1. /\ Len(buf) = Off(1, seg) + Len(ds[1]) /\ Off(1, seg) = 0 /\ buf \in Datagram
        BY <2>3, <1>6, <1>8, OffFacts DEF Splits
      <4>2. Lesser(seg, Len(buf)) = Len(buf)
        BY <4>1, <1>8 DEF Lesser
      <4>3. SubSeq(buf, 1, Len(buf)) = buf
        BY <4>1, SubSeqFull DEF Datagram
      <4>4. QED
        BY <4>2, <4>3, <1>9
    <3>3. QED
      BY <2>1, <2>3, <3>1, <3>2
  <2>4. n > 1 \/ n = 1
    BY <1>4
  <2> HIDE DEF buf, seg
  <2>5. QED
    BY <2>2, <2>3, <2>4
<1>11. /\ opened' \in Seq(Datagram) /\ Tail(ds) \in Seq(Datagram)
       /\ opened' \o Tail(ds) = opened \o ds
  <2>1. Len(ds) > 0
    BY <1>4, <1>6
  <2>2. QED
    BY <2>1, <1>3, <1>6, <1>10, HandedOver
<1>12. /\ Pending' = Tail(ds) /\ reader' \in [pend : Datagram, seg : Nat]
       /\ (reader'.pend # <<>> => Splits(reader'.pend, reader'.seg, Pending'))
  <2> HIDE DEF buf, seg
  <2>1. CASE reader' = NoPend /\ n = 1
    <3>1. Tail(ds) = <<>>
      <4>1. ds # <<>>
        BY <1>6, <2>1
      <4>2. Len(Tail(ds)) = 0
        BY <4>1, <1>6, <2>1, HeadTailProperties
      <4>3. QED
        BY <4>2, <1>11, EmptySeq
    <3>2. reader' = [pend |-> <<>>, seg |-> 0] /\ 0 \in Nat
      BY <2>1 DEF NoPend
    <3>3. QED
      BY <3>1, <3>2, <1>11, PendKept
  <2>2. CASE /\ reader' = [pend |-> SubSeq(buf, seg + 1, Len(buf)), seg |-> seg]
             /\ SubSeq(buf, seg + 1, Len(buf)) # <<>>
             /\ Splits(SubSeq(buf, seg + 1, Len(buf)), seg, Tail(ds))
    <3> DEFINE rest == SubSeq(buf, seg + 1, Len(buf))
    <3>1. reader' = [pend |-> rest, seg |-> seg] /\ rest # <<>> /\ Splits(rest, seg, Tail(ds))
      BY <2>2
    <3> HIDE DEF rest
    <3>2. seg \in Nat
      BY <1>8
    <3>3. QED
      BY <3>1, <3>2, <1>11, PendKept
  <2>3. QED
    BY <2>1, <2>2, <1>10
<1>13. WireKept'
  <2>1. (reader.pend # <<>> => Splits(reader.pend, reader.seg, Pending))'
    BY <1>12 DEF Splits, Off
  <2>2. QED
    BY <2>1, <1>7, <1>10, <1>11, <1>12 DEF WireKept
<1>14. Wire' = Wire
  <2>1. Wire' = (opened' \o Tail(ds)) \o left
    BY <1>10, <1>12 DEF Wire
  <2>2. Wire = opened \o (ds \o left)
    <3>1. opened \o <<>> = opened
      BY <1>3, ConcatEmptySeq
    <3>2. QED
      BY <3>1, <1>3, <1>7 DEF Wire
  <2>3. Grouped(opened, ds, left)
    BY <1>3, <1>6, <1>7, JoinsOn
  <2>4. QED
    BY <2>1, <2>2, <2>3, <1>11 DEF Grouped
<1>15. QED
  BY <1>1, <1>13, <1>14, MovedKept

(* The pump starts with nothing in hand.                                   *)
LEMMA BulkStarts == ASSUME BulkAssumption, BulkInit PROVE BulkInv
<1>1. /\ path \in Paths /\ sealed = <<>> /\ batch = EmptyBatch
      /\ pump = [at |-> "read", held |-> <<>>]
      /\ air = <<>> /\ reader = NoPend /\ opened = <<>> /\ unsent = {}
  BY DEF BulkInit
<1>2. /\ <<>> \in Datagram /\ <<>> \in Seq(Datagram) /\ sealed \in Seq(Lengths) /\ Len(sealed) = 0
  BY <1>1, EmptySeq DEF Datagram
<1>3. LastIn = 0 /\ LastOut = 0
  BY <1>1, <1>2 DEF LastIn, LastOut, EmptyBatch
<1>4. PumpKept
  <2>1. pump.held = <<>> /\ pump.at = "read"
        /\ pump \in [at : {"read", "drain", "flush", "flushFirst", "rest"}, held : Datagram]
    BY <1>1, <1>2
  <2>2. QED
    BY <2>1, <1>1, <1>2 DEF PumpKept
<1>5. BatchKept
  <2>1. /\ batch.buf = <<>> /\ batch.slots = <<>> /\ batch.segSize = 0 /\ batch.count = 0
        /\ batch \in [buf : Datagram, slots : Seq(Datagram), segSize : Nat, count : Nat]
    BY <1>1, <1>2 DEF EmptyBatch
  <2>2. IdsIn(batch.buf) = {} /\ 0 + 1..0 = {}
    BY <2>1 DEF IdsIn
  <2>3. Slotted
    BY <2>1, <2>2, <1>3 DEF Slotted
  <2>4. OneLength
    BY <2>1 DEF OneLength
  <2>5. QED
    BY <2>1, <2>3, <2>4 DEF BatchKept
<1>6. Pending = <<>> /\ reader.pend = <<>> /\ reader \in [pend : Datagram, seg : Nat]
  BY <1>1, <1>2 DEF Pending, NoPend
<1>7. WireKept
  BY <1>1, <1>2, <1>6 DEF WireKept
<1>8. Wire = <<>>
  BY <1>1, <1>2, <1>6, ConcatEmptySeq DEF Wire
<1>9. Orderly(Wire, LastOut) /\ Shared
  BY <1>1, <1>3, <1>8 DEF Orderly, Shared, Ids
<1>10. QED
  BY <1>4, <1>5, <1>7, <1>9 DEF BulkInv

(* The kernel takes every run: each of its pieces is a datagram.           *)
LEMMA RunsAreLegal ==
  ASSUME BulkAssumption, BulkInv
  PROVE  RunsLegal
<1>1. PumpKept /\ BatchKept /\ sealed \in Seq(Lengths)
  BY DEF BulkInv, PumpKept
<1>2. SUFFICES ASSUME path = "gso", batch.count > 1
               PROVE  /\ batch.count <= MaxSegments /\ Len(batch.buf) <= MaxBytes
                      /\ \A id \in IdsIn(batch.buf) : sealed[id] = batch.segSize
  BY DEF RunsLegal
<1>3. batch.count <= MaxSegments /\ Len(batch.buf) <= MaxBytes
  BY <1>1, <1>2 DEF BatchKept
<1>4. ASSUME NEW id \in IdsIn(batch.buf)
      PROVE  sealed[id] = batch.segSize
  <2>1. IdsIn(batch.buf) = LastOut + 1..LastIn
    BY <1>1 DEF BatchKept, Slotted
  <2>2. /\ LastOut \in Nat /\ LastIn \in Nat /\ batch.count \in Nat
        /\ LastIn = LastOut + batch.count
    BY <1>1, Counts
  <2>3. PICK i \in 1..batch.count : id = LastOut + i
    <3>1. id - LastOut \in 1..batch.count /\ id = LastOut + (id - LastOut)
      BY <2>1, <2>2, <1>4
    <3>2. QED
      BY <3>1
  <2>4. LastOut + i \in 1..Len(sealed) /\ batch.slots[i] = Whole(LastOut + i)
    BY <1>1, SlotFacts
  <2>5. Len(Whole(LastOut + i)) = sealed[LastOut + i]
    BY <2>4, <1>1, WholeFacts
  <2>6. Len(batch.slots[i]) = batch.segSize
    <3>1. batch.count > 0
      BY <1>2, <2>2
    <3>2. QED
      BY <3>1, <1>1, <1>2 DEF BatchKept, OneLength
  <2>7. QED
    BY <2>3, <2>4, <2>5, <2>6
<1>5. QED
  BY <1>3, <1>4

(* The invariant is enough.                                                *)
LEMMA BulkIntact == ASSUME BulkAssumption, BulkInv PROVE DatagramsIntact
<1>1. /\ PumpKept /\ BatchKept /\ WireKept /\ Orderly(Wire, LastOut) /\ Shared
      /\ sealed \in Seq(Lengths)
  BY DEF BulkInv, PumpKept
<1>2. PICK upto \in Nat, in \in Nat, s \in Nat :
         upto = LastOut /\ in = LastIn /\ s = Len(sealed) /\ upto <= in /\ in <= s
         /\ (pump.held = <<>> => in = s) /\ (pump.held # <<>> => in + 1 = s)
  <2>1. /\ Len(sealed) \in Nat /\ LastIn \in Nat /\ LastOut \in Nat /\ batch.count \in Nat
        /\ LastIn = LastOut + batch.count /\ LastIn <= Len(sealed)
        /\ (pump.held = <<>> => LastIn = Len(sealed))
        /\ (pump.held # <<>> => LastIn + 1 = Len(sealed))
    BY <1>1, Counts
  <2>2. LastOut <= LastIn
    BY <2>1
  <2>3. QED
    BY <2>1, <2>2
<1> DEFINE a == Ids(opened)
           b == Ids(Pending)
           c == Ids(air)
           m == upto + 1..in
           h == IdsIn(pump.held)
<1>3. h = in + 1..s
  <2>1. CASE pump.held = <<>>
    BY <2>1, <1>2 DEF IdsIn
  <2>2. CASE pump.held # <<>>
    <3>1. pump.held = Whole(s) /\ s \in 1..s
      BY <2>2, <1>1, <1>2 DEF PumpKept
    <3>2. IdsIn(Whole(s)) = {s}
      BY <3>1, <1>1, <1>2, WholeFacts
    <3>3. in + 1..s = {s}
      BY <2>2, <1>2
    <3>4. QED
      BY <3>1, <3>2, <3>3
  <2>3. QED
    BY <2>1, <2>2
<1>4. IdsIn(batch.buf) = m
  BY <1>1, <1>2 DEF BatchKept, Slotted
<1> DEFINE k == Len(opened)
           l == Len(opened) + Len(Pending)
<1>5. /\ opened \in Seq(Datagram) /\ Pending \in Seq(Datagram) /\ air \in Seq(Datagram)
      /\ DOMAIN opened = 1..k /\ DOMAIN Pending = 1..Len(Pending) /\ DOMAIN air = 1..Len(air)
      /\ k \in Nat /\ Len(Pending) \in Nat /\ Len(air) \in Nat /\ l \in Nat
      /\ \A i \in 1..k : i \in DOMAIN Wire /\ Wire[i] = opened[i]
      /\ \A i \in 1..Len(Pending) : k + i \in DOMAIN Wire /\ Wire[k + i] = Pending[i]
      /\ \A i \in 1..Len(air) : l + i \in DOMAIN Wire /\ Wire[l + i] = air[i]
  <2>1. /\ opened \in Seq(Datagram) /\ Pending \in Seq(Datagram) /\ air \in Seq(Datagram)
        /\ k \in Nat /\ Len(Pending) \in Nat /\ Len(air) \in Nat
        /\ \A i \in 1..k : i \in DOMAIN Wire /\ Wire[i] = opened[i]
        /\ \A i \in 1..Len(Pending) : k + i \in DOMAIN Wire /\ Wire[k + i] = Pending[i]
        /\ \A i \in 1..Len(air) : l + i \in DOMAIN Wire /\ Wire[l + i] = air[i]
    BY <1>1, WireParts
  <2>2. DOMAIN opened = 1..k /\ DOMAIN Pending = 1..Len(Pending) /\ DOMAIN air = 1..Len(air)
    BY <2>1, LenProperties
  <2>3. QED
    BY <2>1, <2>2
<1>6. /\ \A i \in DOMAIN Wire : Id(Wire[i]) \in 1..upto /\ Wire[i] = Whole(Id(Wire[i]))
      /\ \A i, j \in DOMAIN Wire : i < j => Id(Wire[i]) < Id(Wire[j])
  BY <1>1, <1>2 DEF Orderly
<1>7. \A i \in DOMAIN Wire : /\ IdsIn(Wire[i]) = {Id(Wire[i])}
                             /\ \A j \in 1..Len(Wire[i]) : Wire[i][j][1] = Id(Wire[i])
  <2> TAKE i \in DOMAIN Wire
  <2>1. PICK id \in 1..Len(sealed) : Id(Wire[i]) = id /\ Wire[i] = Whole(id)
    <3>1. Id(Wire[i]) \in 1..Len(sealed)
      BY <1>2, <1>6
    <3>2. QED
      BY <3>1, <1>6
  <2>2. IdsIn(Whole(id)) = {id} /\ \A j \in 1..Len(Whole(id)) : Whole(id)[j][1] = id
    BY <1>1, WholeFacts
  <2>3. QED
    BY <2>1, <2>2
<1>8. IdsOf(air) = c
  <2>1. \A i \in 1..Len(air) : IdsIn(air[i]) = {Id(air[i])}
    BY <1>5, <1>7
  <2>2. QED
    BY <2>1, <1>5, IdsOfWhole
<1>9. IdsIn(reader.pend) = b
  <2>1. CASE reader.pend = <<>>
    BY <2>1 DEF Pending, Ids, IdsIn
  <2>2. CASE reader.pend # <<>>
    <3>1. Splits(reader.pend, reader.seg, Pending)
      BY <2>2, <1>1 DEF WireKept
    <3>2. \A i \in 1..Len(Pending) : \A j \in 1..Len(Pending[i]) : Pending[i][j][1] = Id(Pending[i])
      BY <1>5, <1>7
    <3>3. QED
      BY <3>1, <3>2, IdsOfPieces
  <2>3. QED
    BY <2>1, <2>2
<1>10. /\ a \union b \union c \union unsent = 1..upto
       /\ (a \union b \union c) \intersect unsent = {}
  <2>1. opened \o Pending \in Seq(Datagram)
    BY <1>1, WireParts
  <2>2. Ids(opened \o Pending) = a \union b
    BY <1>5, IdsMore
  <2>3. Ids(Wire) = Ids(opened \o Pending) \union c
    BY <2>1, <1>5, IdsMore DEF Wire
  <2>4. Ids(Wire) \union unsent = 1..upto /\ Ids(Wire) \intersect unsent = {}
    BY <1>1, <1>2 DEF Shared
  <2>5. QED
    BY <2>2, <2>3, <2>4
<1>11. \A i \in a : \A j \in b \union c : i < j
  <2> SUFFICES ASSUME NEW x \in 1..k, NEW j \in b \union c
               PROVE  Id(opened[x]) < j
    BY <1>5 DEF Ids
  <2>1. CASE j \in b
    <3>1. PICK y \in 1..Len(Pending) : j = Id(Pending[y])
      BY <2>1, <1>5 DEF Ids
    <3>2. x \in DOMAIN Wire /\ k + y \in DOMAIN Wire /\ x < k + y
      BY <1>5
    <3>3. Id(Wire[x]) < Id(Wire[k + y])
      BY <3>2, <1>6
    <3>4. QED
      BY <3>1, <3>3, <1>5
  <2>2. CASE j \in c
    <3>1. PICK y \in 1..Len(air) : j = Id(air[y])
      BY <2>2, <1>5 DEF Ids
    <3>2. x \in DOMAIN Wire /\ l + y \in DOMAIN Wire /\ x < l + y
      BY <1>5
    <3>3. Id(Wire[x]) < Id(Wire[l + y])
      BY <3>2, <1>6
    <3>4. QED
      BY <3>1, <3>3, <1>5
  <2>3. QED
    BY <2>1, <2>2
<1>12. /\ \A i \in 1..k : opened[i] = Whole(Id(opened[i])) /\ Id(opened[i]) \in 1..upto
       /\ \A i, j \in 1..k : i < j => Id(opened[i]) < Id(opened[j])
  BY <1>5, <1>6
<1>13. a \subseteq 1..upto /\ b \subseteq 1..upto /\ c \subseteq 1..upto
  BY <1>10
<1>14. RunsLegal
  BY RunsAreLegal
<1> DEFINE ahead == IdsIn(reader.pend) \union IdsOf(air) \union IdsIn(batch.buf) \union h
<1>15. ahead = b \union c \union (upto + 1..in) \union (in + 1..s)
  BY <1>3, <1>4, <1>8, <1>9
<1> HIDE DEF a, b, c, k, l, h, m
<1>16. /\ \A i \in upto + 1..in : i \notin 1..upto /\ i \in Int /\ i > upto
       /\ \A i \in in + 1..s : i \notin 1..upto /\ i \in Int /\ i > upto
       /\ (1..upto) \union (upto + 1..in) \union (in + 1..s) = 1..s
  BY <1>2
<1> HIDE DEF ahead
<1>17. a \union ahead \union unsent = 1..s
  BY <1>10, <1>15, <1>16
<1>18. a \intersect unsent = {} /\ ahead \intersect unsent = {}
  BY <1>10, <1>15, <1>16
<1>19. \A i \in a : \A j \in ahead : i < j
  <2> SUFFICES ASSUME NEW i \in a, NEW j \in ahead PROVE i < j
    OBVIOUS
  <2>1. i \in 1..upto
    BY <1>13
  <2>2. CASE j \in b \union c
    BY <2>2, <1>11
  <2>3. CASE j \in upto + 1..in
    BY <2>1, <2>3, <1>2
  <2>4. CASE j \in in + 1..s
    BY <2>1, <2>4, <1>2
  <2>5. QED
    BY <2>2, <2>3, <2>4, <1>15
<1>20. DOMAIN sealed = 1..s
  BY <1>1, <1>2
<1>21. {Id(opened[i]) : i \in DOMAIN opened} = a
  BY DEF a, Ids
<1>22. /\ \A i \in DOMAIN opened : opened[i] = Whole(Id(opened[i]))
       /\ \A i, j \in DOMAIN opened : i < j => Id(opened[i]) < Id(opened[j])
  BY <1>5, <1>12
<1>23. QED
  BY <1>14, <1>17, <1>18, <1>19, <1>20, <1>21, <1>22 DEF DatagramsIntact, ahead, h

(* Whatever was batched, cut, coalesced and cut again, the far end is      *)
(* handed whole datagrams, in the order of sealing and none twice; none is *)
(* lost but what was given up (DatagramsIntact).                           *)
THEOREM DatagramsStayIntact == BulkSpec => []DatagramsIntact
<1>1. BulkInit => BulkInv
  BY BulkAssumption, BulkStarts
<1>2. BulkInv /\ [BulkNext]_bulkVars => BulkInv'
  <2> SUFFICES ASSUME BulkInv, [BulkNext]_bulkVars PROVE BulkInv'
    OBVIOUS
  <2>1. CASE Arrive \/ PeerFound \/ DrainEmpty
    BY <2>1, BulkAssumption, IdleKeeps
  <2>2. CASE Take
    BY <2>2, BulkAssumption, TakeKeeps
  <2>3. CASE Flush
    BY <2>3, BulkAssumption, FlushKeeps
  <2>4. CASE Rest
    BY <2>4, BulkAssumption, RestKeeps
  <2>5. CASE RecvSocket
    BY <2>5, BulkAssumption, RecvSocketKeeps
  <2>6. CASE RecvPending
    BY <2>6, BulkAssumption, RecvPendingKeeps
  <2>7. CASE UNCHANGED bulkVars
    <3>1. /\ UNCHANGED <<path, sealed, batch, air, reader, opened, unsent>> /\ pump' = pump
      BY <2>7 DEF bulkVars
    <3>2. PumpKept'
      BY <3>1 DEF BulkInv, PumpKept, Whole
    <3>3. QED
      BY <3>1, <3>2, BulkAssumption, SameKept
  <2>8. QED
    BY <2>1, <2>2, <2>3, <2>4, <2>5, <2>6, <2>7 DEF BulkNext
<1>3. BulkInv => DatagramsIntact
  BY BulkAssumption, BulkIntact
<1>4. QED
  BY <1>1, <1>2, <1>3, PTL DEF BulkSpec

-----------------------------------------------------------------------------
(* The reader (WsReader).                                                  *)

Reading == phase \in {"admit", "carrier"}
Byte == Nat \X Nat
Reply == [op : {"pong", "close"}, data : Seq(Byte)]

\* While a message is under assembly, msg is what it has carried so far, and msgOp
\* the opcode it was opened with.
ReaderTyped ==
  /\ msg \in Seq(Byte) /\ msgOp \in Openings \cup {Nothing}
  /\ phase \in {"admit", "carrier", "stranger", "closed", "failed"}
  /\ first \in BOOLEAN /\ (first => phase = "carrier")
  /\ got \in Seq(Seq(Byte)) /\ read \in Seq(AnyFrame)
  /\ answered \in Seq(Reply)
Underway ==
  Reading =>
    /\ msgOp # Nothing <=> OpenAt(Len(read) + 1)
    /\ msgOp # Nothing => /\ Lists(msg, Carried(Len(read)))
                          /\ \E o \in Parts(Len(read)) : read[o].op = msgOp
\* The first binary message ends the admission.
Decided == (phase = "admit" => Binaries = {}) /\ (phase = "carrier" => Binaries # {})
\* What was handed on and answered, before an admission too: nothing.
Matched ==
  phase # "stranger" =>
    /\ Len(TunnelGets) = Cardinality(Binaries)
    /\ \A j \in Binaries : Lists(TunnelGets[Rank(j, Binaries)], Carried(j))
Echoed ==
  IF phase = "stranger" THEN answered = <<>>
  ELSE /\ Len(answered) = Cardinality(Dues)
       /\ \A j \in Dues : answered[Rank(j, Dues)] = Answer(j)
ReaderInv == ReaderTyped /\ Underway /\ Decided /\ Matched /\ FaultsFound /\ Echoed

(* Lists of bytes.                                                         *)

(* A list names no byte twice, so it is as long as what it lists is large. *)
LEMMA ListIsAsLong ==
  ASSUME NEW m \in Seq(Byte), NEW bytes, Lists(m, bytes)
  PROVE  IsFiniteSet(bytes) /\ Cardinality(bytes) = Len(m)
<1>1. Len(m) \in Nat /\ DOMAIN m = 1..Len(m) /\ m \in [1..Len(m) -> Byte]
  OBVIOUS
<1>2. m \in Surjection(1..Len(m), bytes)
  BY <1>1 DEF Lists, Surjection
<1>3. \A x, y \in 1..Len(m) : x < y => m[x] # m[y]
  <2>1. SUFFICES ASSUME NEW x \in 1..Len(m), NEW y \in 1..Len(m), x < y, m[x] = m[y]
                 PROVE  FALSE
    OBVIOUS
  <2>2. Precedes(m[x], m[y]) /\ m[x] \in Byte
    BY <1>1, <2>1 DEF Lists
  <2>3. m[x][1] \in Nat /\ m[x][2] \in Nat
    BY <2>2 DEF Byte
  <2>4. QED
    BY <2>1, <2>2, <2>3 DEF Precedes
<1>4. \A x, y \in 1..Len(m) : m[x] = m[y] => x = y
  BY <1>1, <1>3
<1>5. m \in Bijection(1..Len(m), bytes)
  BY <1>1, <1>2, <1>4 DEF Bijection, Injection, Surjection, IsInjective
<1>6. IsFiniteSet(1..Len(m)) /\ Cardinality(1..Len(m)) = Len(m)
  BY <1>1, FS_Interval
<1>7. ExistsBijection(1..Len(m), bytes)
  BY <1>5 DEF ExistsBijection
<1>q. QED
  BY <1>6, <1>7, FS_Bijection

LEMMA FrameBytesFacts ==
  ASSUME NEW k \in Nat, NEW size \in Nat
  PROVE  /\ FrameBytes(k, size) \in Seq(Byte) /\ Len(FrameBytes(k, size)) = size
         /\ \A i \in 1..size : FrameBytes(k, size)[i] = <<k, i>>
<1>1. \A i \in 1..size : <<k, i>> \in Byte
  BY DEF Byte
<1>2. FrameBytes(k, size) \in [1..size -> Byte]
  BY <1>1 DEF FrameBytes
<1>q. QED
  BY <1>2 DEF FrameBytes

(* What a frame adds to a list of earlier bytes comes after them.          *)
LEMMA ListGrows ==
  ASSUME NEW m \in Seq(Byte), NEW bytes, NEW k \in Nat, NEW size \in Nat,
         Lists(m, bytes), \A b \in bytes : b[1] < k
  PROVE  Lists(m \o FrameBytes(k, size), bytes \cup ({k} \X (1..size)))
<1> DEFINE more == FrameBytes(k, size)
           l == m \o more
           all == bytes \cup ({k} \X (1..size))
<1>1. /\ more \in Seq(Byte) /\ Len(more) = size
      /\ \A i \in 1..size : more[i] = <<k, i>>
  BY FrameBytesFacts
<1>2. Len(m) \in Nat /\ DOMAIN m = 1..Len(m)
  OBVIOUS
<1> HIDE DEF more
<1>c. l \in Seq(Byte) /\ Len(l) = Len(m) + Len(more)
  BY <1>1, ConcatProperties
<1>3. /\ DOMAIN l = 1..Len(m) + size
      /\ \A x \in 1..Len(m) : l[x] = m[x]
      /\ \A x \in 1..Len(m) + size : x > Len(m) => l[x] = more[x - Len(m)]
  BY <1>1, <1>2, <1>c, ConcatProperties
<1> HIDE DEF l
<1>4. \A x \in 1..Len(m) + size : x > Len(m) => l[x] = <<k, x - Len(m)>> /\ x - Len(m) \in 1..size
  BY <1>1, <1>2, <1>3
<1>5. \A x \in 1..Len(m) : l[x] \in bytes
  BY <1>2, <1>3 DEF Lists
<1>6. {l[x] : x \in DOMAIN l} = all
  <2>1. \A x \in DOMAIN l : l[x] \in all
    <3>1. TAKE x \in DOMAIN l
    <3>2. CASE x <= Len(m)
      BY <1>2, <1>3, <1>5, <3>2
    <3>3. CASE ~(x <= Len(m))
      <4>1. l[x] = <<k, x - Len(m)>> /\ x - Len(m) \in 1..size
        BY <1>2, <1>3, <1>4, <3>3
      <4>2. QED
        BY <4>1
    <3>4. QED
      BY <3>2, <3>3
  <2>2. \A b \in bytes : \E x \in DOMAIN l : l[x] = b
    <3>1. TAKE b \in bytes
    <3>2. PICK x \in 1..Len(m) : m[x] = b
      BY <1>2 DEF Lists
    <3>3. x \in DOMAIN l /\ l[x] = b
      BY <1>1, <1>2, <1>3, <3>2
    <3>4. QED
      BY <3>3
  <2>3. \A b \in {k} \X (1..size) : \E x \in DOMAIN l : l[x] = b
    <3>1. TAKE b \in {k} \X (1..size)
    <3>2. PICK i \in 1..size : b = <<k, i>>
      OBVIOUS
    <3>3. Len(m) + i \in 1..Len(m) + size /\ Len(m) + i > Len(m) /\ Len(m) + i - Len(m) = i
      BY <1>2
    <3>4. Len(m) + i \in DOMAIN l /\ l[Len(m) + i] = b
      BY <1>3, <1>4, <3>2, <3>3
    <3>5. QED
      BY <3>4
  <2>4. QED
    BY <2>1, <2>2, <2>3
<1>7. \A x, y \in DOMAIN l : x < y => Precedes(l[x], l[y])
  <2>1. SUFFICES ASSUME NEW x \in 1..Len(m) + size, NEW y \in 1..Len(m) + size, x < y
                 PROVE  Precedes(l[x], l[y])
    BY <1>3
  <2>2. CASE y <= Len(m)
    <3>1. x \in 1..Len(m) /\ y \in 1..Len(m)
      BY <1>2, <2>1, <2>2
    <3>2. QED
      BY <1>2, <1>3, <2>1, <3>1 DEF Lists
  <2>3. CASE x <= Len(m) /\ y > Len(m)
    <3>1. x \in 1..Len(m) /\ l[y] = <<k, y - Len(m)>>
      BY <1>2, <1>4, <2>3
    <3>2. l[x][1] < k /\ l[y][1] = k
      BY <1>5, <3>1
    <3>3. QED
      BY <3>2 DEF Precedes
  <2>4. CASE x > Len(m)
    <3>1. l[x] = <<k, x - Len(m)>> /\ l[y] = <<k, y - Len(m)>> /\ x - Len(m) < y - Len(m)
      BY <1>2, <1>4, <2>1, <2>4
    <3>2. QED
      BY <3>1 DEF Precedes
  <2>5. QED
    BY <1>2, <2>1, <2>2, <2>3, <2>4
<1>q. QED
  BY <1>6, <1>7 DEF Lists, l, more

(* Ranks, when a larger one joins.                                         *)
LEMMA RankGrows ==
  ASSUME NEW n \in Nat, NEW S \in SUBSET (1..n - 1)
  PROVE  /\ Cardinality(S) \in Nat
         /\ Cardinality(S \cup {n}) = Cardinality(S) + 1
         /\ Rank(n, S \cup {n}) = Cardinality(S) + 1
         /\ \A j \in S : /\ Rank(j, S \cup {n}) = Rank(j, S)
                         /\ Rank(j, S) \in 1..Cardinality(S)
<1>1. IsFiniteSet(S) /\ n \notin S /\ Cardinality(S) \in Nat
  <2>1. IsFiniteSet(1..n - 1)
    BY FS_Interval
  <2>2. IsFiniteSet(S)
    BY <2>1, FS_Subset
  <2>3. QED
    BY <2>2, FS_CardinalityType
<1>2. Cardinality(S \cup {n}) = Cardinality(S) + 1
  BY <1>1, FS_AddElement
<1>3. {k \in S \cup {n} : k <= n} = S \cup {n}
  <2>1. \A k \in S : k \in Nat /\ k <= n
    OBVIOUS
  <2>2. \A k \in S \cup {n} : k <= n
    BY <2>1
  <2>3. QED
    BY <2>2
<1>4. ASSUME NEW j \in S
      PROVE  /\ Rank(j, S \cup {n}) = Rank(j, S)
             /\ Rank(j, S) \in 1..Cardinality(S)
  <2>1. {k \in S \cup {n} : k <= j} = {k \in S : k <= j}
    OBVIOUS
  <2>2. IsFiniteSet({k \in S : k <= j}) /\ Cardinality({k \in S : k <= j}) <= Cardinality(S)
    BY <1>1, FS_Subset
  <2>3. Cardinality({k \in S : k <= j}) \in Nat /\ Cardinality({k \in S : k <= j}) # 0
    BY <2>2, FS_CardinalityType, FS_EmptySet
  <2>4. QED
    BY <1>1, <2>1, <2>2, <2>3 DEF Rank
<1>q. QED
  BY <1>1, <1>2, <1>3, <1>4 DEF Rank

-----------------------------------------------------------------------------
(* What one more frame does to the frames of the message it belongs to.    *)

LEMMA FrameJoins ==
  ASSUME ReaderTyped, NEW f \in AnyFrame, TakeFrame(f)
  PROVE  /\ Len(read) \in Nat /\ DOMAIN read = 1..Len(read)
         /\ read' \in Seq(AnyFrame) /\ Len(read') = Len(read) + 1
         /\ DOMAIN read' = 1..Len(read) + 1
         /\ \A k \in 1..Len(read) : read'[k] = read[k] /\ read[k] \in AnyFrame
         /\ read'[Len(read) + 1] = f
BY DEF ReaderTyped, TakeFrame

LEMMA EarlierFrames ==
  ASSUME ReaderTyped, NEW f \in AnyFrame, TakeFrame(f), NEW j \in 1..Len(read)
  PROVE  /\ Parts(j)' = Parts(j) /\ Carried(j)' = Carried(j)
         /\ OpenAt(j)' <=> OpenAt(j)
         /\ WellFramed(j)' <=> WellFramed(j)
         /\ Binary(j)' <=> Binary(j)
<1>1. \A k \in 1..j : read'[k] = read[k] /\ k \in 1..Len(read)
  BY FrameJoins
<1>2. Parts(j)' = Parts(j)
  <2>1. \A k \in 1..j : (\A i \in k + 1 .. j : read'[i].op \notin Openings)
                       <=> (\A i \in k + 1 .. j : read[i].op \notin Openings)
    BY <1>1
  <2>2. QED
    BY <1>1, <2>1 DEF Parts, Data
<1>3. Carried(j)' = Carried(j)
  <2>1. \A k \in Parts(j) : read'[k] = read[k]
    BY <1>1 DEF Parts
  <2>2. QED
    BY <1>2, <2>1 DEF Carried
<1>4. OpenAt(j)' <=> OpenAt(j)
  <2>1. \A k \in 1..j - 1 : read'[k] = read[k]
    BY <1>1
  <2>2. \A o \in 1..j - 1 : \A k \in o..j - 1 : k \in 1..j - 1
    OBVIOUS
  <2>3. QED
    BY <2>1, <2>2 DEF OpenAt, Data
<1>5. read'[j] = read[j]
  BY <1>1
<1>6. WellFramed(j)' <=> WellFramed(j)
  BY <1>3, <1>4, <1>5 DEF WellFramed, Data
<1>7. (\E o \in Parts(j)' : read'[o].op = "binary")
        <=> (\E o \in Parts(j) : read[o].op = "binary")
  BY <1>1, <1>2 DEF Parts
<1>q. QED
  BY <1>2, <1>3, <1>4, <1>5, <1>6, <1>7 DEF Binary, Data

(* A frame begins its message, or goes on with it, or does not concern it. *)
LEMMA NewParts ==
  ASSUME ReaderTyped, NEW f \in AnyFrame, TakeFrame(f), NEW n \in Nat, n = Len(read) + 1
  PROVE  /\ f.op \in Openings => Parts(n)' = {n}
         /\ f.op = "cont" => Parts(n)' = Parts(n - 1) \cup {n}
         /\ ~Data(f) => Parts(n)' = Parts(n - 1)
<1>1. /\ \A k \in 1..n - 1 : read'[k] = read[k]
      /\ read'[n] = f
  BY FrameJoins
<1>2. ASSUME f.op \in Openings PROVE Parts(n)' = {n}
  <2>1. \A k \in 1..n - 1 : n \in k + 1 .. n /\ read'[n].op \in Openings
    BY <1>1, <1>2
  <2>2. n \in 1..n /\ \A i \in n + 1 .. n : FALSE
    BY FrameJoins
  <2>3. \A k \in 1..n : k = n \/ k \in 1..n - 1
    OBVIOUS
  <2>4. QED
    BY <1>1, <1>2, <2>1, <2>2, <2>3 DEF Parts, Data
<1>3. ASSUME f.op \notin Openings, NEW k \in 1..n - 1
      PROVE  k \in Parts(n)' <=> k \in Parts(n - 1)
  <2>1. \A i \in k + 1 .. n : i = n \/ i \in k + 1 .. n - 1
    OBVIOUS
  <2>2. \A i \in k + 1 .. n - 1 : i \in k + 1 .. n /\ read'[i] = read[i]
    BY <1>1
  <2>3. read'[k] = read[k] /\ k \in 1..n
    BY <1>1
  <2>4. QED
    BY <1>1, <1>3, <2>1, <2>2, <2>3 DEF Parts, Data
<1>4. ASSUME f.op \notin Openings PROVE n \in Parts(n)' <=> Data(f)
  <2>1. n \in 1..n /\ \A i \in n + 1 .. n : FALSE
    BY FrameJoins
  <2>2. QED
    BY <1>1, <2>1 DEF Parts, Data
<1>5. /\ Parts(n)' \subseteq 1..n /\ Parts(n - 1) \subseteq 1..n - 1
      /\ \A k \in 1..n : k = n \/ k \in 1..n - 1
  BY DEF Parts
<1>6. f.op = "cont" => f.op \notin Openings /\ Data(f)
  BY DEF Openings, Data
<1>7. ~Data(f) => f.op \notin Openings
  BY DEF Data
<1>8. ASSUME f.op \notin Openings
      PROVE  Parts(n)' = IF Data(f) THEN Parts(n - 1) \cup {n} ELSE Parts(n - 1)
  <2>1. \A k \in 1..n - 1 : k \in Parts(n)' <=> k \in Parts(n - 1)
    BY <1>3, <1>8
  <2>2. n \in Parts(n)' <=> Data(f)
    BY <1>4, <1>8
  <2>3. n \notin Parts(n - 1)
    BY <1>5
  <2>4. Data(f) => Parts(n)' = Parts(n - 1) \cup {n}
    BY <1>5, <2>1, <2>2
  <2>5. ~Data(f) => Parts(n)' = Parts(n - 1)
    BY <1>5, <2>1, <2>2, <2>3
  <2>6. QED
    BY <2>4, <2>5, Zenon
<1>q. QED
  BY <1>2, <1>6, <1>7, <1>8

(* What its message carries, then, and whether it is left open.            *)
LEMMA NewCarried ==
  ASSUME ReaderTyped, NEW f \in AnyFrame, TakeFrame(f), NEW n \in Nat, n = Len(read) + 1
  PROVE  /\ f.op \in Openings => Carried(n)' = {n} \X (1..f.size)
         /\ f.op = "cont" => Carried(n)' = Carried(n - 1) \cup ({n} \X (1..f.size))
         /\ ~Data(f) => Carried(n)' = Carried(n - 1)
<1>1. /\ \A k \in 1..n - 1 : read'[k] = read[k]
      /\ read'[n] = f
  BY FrameJoins
<1>2. \A k \in Parts(n - 1) : read'[k] = read[k]
  BY <1>1 DEF Parts
<1>3. Carried(n)' = UNION {{k} \X (1..read'[k].size) : k \in Parts(n)'}
  BY DEF Carried
<1>4. UNION {{k} \X (1..read'[k].size) : k \in Parts(n - 1)} = Carried(n - 1)
  BY <1>2 DEF Carried
<1>5. ASSUME f.op \in Openings PROVE Carried(n)' = {n} \X (1..f.size)
  BY <1>1, <1>3, <1>5, NewParts
<1>6. ASSUME f.op = "cont" PROVE Carried(n)' = Carried(n - 1) \cup ({n} \X (1..f.size))
  <2>1. Parts(n)' = Parts(n - 1) \cup {n}
    BY <1>6, NewParts
  <2>2. QED
    BY <1>1, <1>3, <1>4, <2>1
<1>7. ASSUME ~Data(f) PROVE Carried(n)' = Carried(n - 1)
  BY <1>3, <1>4, <1>7, NewParts
<1>q. QED
  BY <1>5, <1>6, <1>7

LEMMA NewOpen ==
  ASSUME ReaderTyped, NEW f \in AnyFrame, TakeFrame(f), NEW n \in Nat, n = Len(read) + 1
  PROVE  /\ OpenAt(n)' <=> OpenAt(n)
         /\ f.op \in Openings => (OpenAt(n + 1)' <=> ~f.fin)
         /\ f.op = "cont" => (OpenAt(n + 1)' <=> OpenAt(n) /\ ~f.fin)
         /\ ~Data(f) => (OpenAt(n + 1)' <=> OpenAt(n))
<1>1. /\ \A k \in 1..n - 1 : read'[k] = read[k]
      /\ read'[n] = f /\ n \in 1..n
  BY FrameJoins
<1> DEFINE Begins(o) == /\ read[o].op \in Openings
                        /\ \A k \in o .. n - 1 : Data(read[k]) => ~read[k].fin
<1>2. OpenAt(n) <=> \E o \in 1..n - 1 : Begins(o)
  BY DEF OpenAt
<1>3. ASSUME NEW o \in 1..n - 1
      PROVE  /\ read'[o].op = read[o].op
             /\ (\A k \in o .. n - 1 : Data(read'[k]) => ~read'[k].fin)
                <=> \A k \in o .. n - 1 : Data(read[k]) => ~read[k].fin
             /\ (\A k \in o .. n : Data(read'[k]) => ~read'[k].fin)
                <=> /\ \A k \in o .. n - 1 : Data(read[k]) => ~read[k].fin
                    /\ Data(f) => ~f.fin
  <2>1. \A k \in o .. n - 1 : read'[k] = read[k] /\ k \in o..n
    BY <1>1
  <2>2. n \in o..n /\ \A k \in o..n : k = n \/ k \in o..n - 1
    OBVIOUS
  <2>3. read'[o] = read[o]
    BY <1>1
  <2>4. QED
    BY <1>1, <2>1, <2>2, <2>3 DEF Data
<1>4. OpenAt(n)' <=> OpenAt(n)
  BY <1>2, <1>3 DEF OpenAt, Data
<1>5. OpenAt(n + 1)' <=> \E o \in 1..n : read'[o].op \in Openings
                              /\ \A k \in o .. n : Data(read'[k]) => ~read'[k].fin
  <2>1. n + 1 - 1 = n
    OBVIOUS
  <2>2. QED
    BY <2>1 DEF OpenAt, Data
<1>6. (Data(f) => ~f.fin) /\ OpenAt(n) => OpenAt(n + 1)'
  <2>1. SUFFICES ASSUME Data(f) => ~f.fin, NEW o \in 1..n - 1, Begins(o)
                 PROVE  OpenAt(n + 1)'
    BY <1>2
  <2>2. o \in 1..n
    OBVIOUS
  <2>3. QED
    BY <1>3, <1>5, <2>1, <2>2
<1>7. OpenAt(n + 1)' => (Data(f) => ~f.fin) /\ (f.op \in Openings \/ OpenAt(n))
  <2>1. SUFFICES ASSUME NEW o \in 1..n, read'[o].op \in Openings,
                        \A k \in o .. n : Data(read'[k]) => ~read'[k].fin
                 PROVE  (Data(f) => ~f.fin) /\ (f.op \in Openings \/ OpenAt(n))
    BY <1>5
  <2>2. n \in o..n
    OBVIOUS
  <2>3. Data(f) => ~f.fin
    BY <1>1, <2>1, <2>2
  <2>4. CASE o = n
    BY <1>1, <2>1, <2>3, <2>4
  <2>5. CASE o # n
    <3>1. o \in 1..n - 1
      BY <2>5
    <3>2. Begins(o)
      BY <1>3, <2>1, <3>1
    <3>3. QED
      BY <1>2, <2>3, <3>1, <3>2
  <2>6. QED
    BY <2>4, <2>5
<1>8. f.op \in Openings /\ ~f.fin => OpenAt(n + 1)'
  <2>1. \A k \in n..n : k = n
    OBVIOUS
  <2>2. QED
    BY <1>1, <1>5, <2>1
<1>9. (f.op \in Openings \/ f.op = "cont" <=> Data(f)) /\ (f.op = "cont" => f.op \notin Openings)
  BY DEF Data, Openings
<1>q. QED
  BY <1>4, <1>6, <1>7, <1>8, <1>9

-----------------------------------------------------------------------------
(* How a frame is judged, and what it adds.                                *)

Assembly(f) == (IF f.op = "cont" THEN msg ELSE <<>>) \o Payload(f)
Kind(f) == IF f.op = "cont" THEN msgOp ELSE f.op

LEMMA AssemblyLists ==
  ASSUME ReaderAssumption, ReaderTyped, Underway, Reading,
         NEW f \in AnyFrame, TakeFrame(f), NEW n \in Nat, n = Len(read) + 1,
         Data(f), f.op = "cont" => msgOp # Nothing
  PROVE  /\ Assembly(f) \in Seq(Byte) /\ Lists(Assembly(f), Carried(n)')
         /\ Len(Assembly(f)) = (IF f.op = "cont" THEN Len(msg) ELSE 0) + f.size
         /\ Cardinality(Carried(n)') = Len(Assembly(f))
<1>1. f.size \in Nat /\ msg \in Seq(Byte) /\ n - 1 = Len(read)
  <2>1. f.size \in Nat
    BY DEF ReaderAssumption, AnyFrame
  <2>2. Len(read) \in Nat
    BY FrameJoins
  <2>3. QED
    BY <2>1, <2>2 DEF ReaderTyped
<1>2. /\ Payload(f) = FrameBytes(n, f.size)
      /\ Payload(f) \in Seq(Byte) /\ Len(Payload(f)) = f.size
  BY <1>1, FrameBytesFacts DEF Payload
<1>3. CASE f.op = "cont"
  <2>1. Lists(msg, Carried(n - 1))
    BY <1>1, <1>3 DEF Underway
  <2>2. \A b \in Carried(n - 1) : b[1] < n
    BY DEF Carried, Parts
  <2>3. Lists(msg \o FrameBytes(n, f.size), Carried(n - 1) \cup ({n} \X (1..f.size)))
    BY <1>1, <2>1, <2>2, ListGrows
  <2>4. Carried(n)' = Carried(n - 1) \cup ({n} \X (1..f.size))
    BY <1>3, NewCarried
  <2>5. Assembly(f) = msg \o FrameBytes(n, f.size)
    BY <1>2, <1>3 DEF Assembly
  <2>6. Assembly(f) \in Seq(Byte) /\ Len(Assembly(f)) = Len(msg) + f.size
    BY <1>1, <1>2, <2>5, ConcatProperties
  <2>7. Lists(Assembly(f), Carried(n)')
    BY <2>3, <2>4, <2>5
  <2>8. QED
    BY <1>3, <2>6, <2>7, ListIsAsLong
<1>4. CASE f.op # "cont"
  <2>1. f.op \in Openings
    BY <1>4 DEF Data
  <2>2. <<>> \in Seq(Byte) /\ Len(<<>>) = 0 /\ Lists(<<>>, {})
    BY DEF Lists
  <2>3. Lists(<<>> \o FrameBytes(n, f.size), {} \cup ({n} \X (1..f.size)))
    BY <1>1, <2>2, ListGrows
  <2>4. Carried(n)' = {} \cup ({n} \X (1..f.size))
    BY <2>1, NewCarried
  <2>5. Assembly(f) = <<>> \o FrameBytes(n, f.size)
    BY <1>2, <1>4 DEF Assembly
  <2>6. Assembly(f) \in Seq(Byte) /\ Len(Assembly(f)) = f.size
    BY <1>1, <1>2, <2>2, <2>5, ConcatProperties
  <2>7. Lists(Assembly(f), Carried(n)')
    BY <2>3, <2>4, <2>5
  <2>8. QED
    BY <1>1, <1>4, <2>6, <2>7, ListIsAsLong
<1>q. QED
  BY <1>3, <1>4

(* The reader finds fault with exactly the frames that are at fault.       *)
LEMMA FrameJudged ==
  ASSUME ReaderAssumption, ReaderTyped, Underway, Reading,
         NEW f \in AnyFrame, TakeFrame(f), NEW n \in Nat, n = Len(read) + 1
  PROVE  /\ Error(f) = Nothing <=> WellFramed(n)'
         /\ Error(f) = Nothing => (f.op = "cont" <=> Data(f) /\ msgOp # Nothing)
<1>1. /\ read'[n] = f /\ (OpenAt(n)' <=> msgOp # Nothing)
      /\ f.size \in Nat /\ Len(msg) \in Nat /\ MaxMessage \in Nat
  <2>1. f.size \in Nat /\ MaxMessage \in Nat
    BY DEF ReaderAssumption, AnyFrame
  <2>2. Len(msg) \in Nat
    BY DEF ReaderTyped
  <2>3. OpenAt(n)' <=> OpenAt(n)
    BY NewOpen
  <2>4. QED
    BY <2>1, <2>2, <2>3, FrameJoins DEF Underway
<1>2. WellFramed(n)' <=>
        /\ f.op \in Openings \cup Control \cup {"cont"}
        /\ f.op \in Control => f.fin /\ f.size <= MaxControl
        /\ f.op = "cont" => msgOp # Nothing
        /\ f.op \in Openings => msgOp = Nothing
        /\ Data(f) => Cardinality(Carried(n)') <= MaxMessage
  BY <1>1 DEF WellFramed, Data
<1>3. f.op \in {"cont", "text", "binary", "close", "ping", "pong",
                "rsv", "reserved", "reservedControl"}
  BY DEF AnyFrame, Opcodes, Openings, Control
<1>4. CASE f.op \in {"rsv", "reserved", "reservedControl"}
  <2>1. f.op \notin Openings \cup Control \cup {"cont"}
    BY <1>4 DEF Openings, Control
  <2>2. Error(f) = "protocol"
    BY <1>4, <2>1 DEF Error, ControlError
  <2>3. QED
    BY <1>2, <2>1, <2>2 DEF Nothing, Data
<1>5. CASE f.op \in {"close", "ping", "pong"}
  <2>1. /\ f.op \in Control /\ f.op \notin Openings /\ f.op # "cont" /\ f.op # "rsv"
        /\ ~Data(f)
    BY <1>5 DEF Control, Openings, Data
  <2>2. Error(f) = IF ~f.fin \/ f.size > MaxControl THEN "protocol" ELSE Nothing
    BY <2>1 DEF Error, ControlError
  <2>3. f.size <= MaxControl <=> ~(f.size > MaxControl)
    BY <1>1 DEF ReaderAssumption
  <2>4. QED
    BY <1>2, <2>1, <2>2, <2>3 DEF Nothing
<1>6. CASE f.op = "cont"
  <2>1. /\ f.op \notin Control \cup {"reservedControl"} /\ f.op \notin Openings /\ Data(f)
        /\ f.op \notin Control /\ f.op # "rsv" /\ f.op # "reserved"
    BY <1>6 DEF Control, Openings, Data
  <2>2. msgOp = Nothing => Error(f) = "protocol"
    BY <1>6, <2>1 DEF Error
  <2>3. msgOp # Nothing =>
          Error(f) = IF f.size > MaxMessage - Len(msg) THEN "too big" ELSE Nothing
    BY <1>6, <2>1 DEF Error
  <2>4. msgOp # Nothing => Cardinality(Carried(n)') = Len(msg) + f.size
    BY <1>6, <2>1, AssemblyLists
  <2>5. Len(msg) + f.size <= MaxMessage <=> ~(f.size > MaxMessage - Len(msg))
    BY <1>1
  <2>6. QED
    BY <1>2, <1>6, <2>1, <2>2, <2>3, <2>4, <2>5 DEF Nothing
<1>7. CASE f.op \in Openings
  <2>1. /\ f.op \notin Control \cup {"reservedControl"} /\ f.op # "cont" /\ Data(f)
        /\ f.op \notin Control /\ f.op # "rsv" /\ f.op # "reserved"
    BY <1>7 DEF Control, Openings, Data
  <2>2. msgOp # Nothing => Error(f) = "protocol"
    BY <2>1 DEF Error
  <2>3. msgOp = Nothing => Error(f) = IF f.size > MaxMessage - 0 THEN "too big" ELSE Nothing
    BY <2>1 DEF Error
  <2>4. Cardinality(Carried(n)') = 0 + f.size
    BY <2>1, AssemblyLists
  <2>5. 0 + f.size <= MaxMessage <=> ~(f.size > MaxMessage - 0)
    BY <1>1
  <2>6. QED
    BY <1>2, <1>7, <2>1, <2>2, <2>3, <2>4, <2>5 DEF Nothing
<1>q. QED
  BY <1>3, <1>4, <1>5, <1>6, <1>7 DEF Openings

(* The message a frame belongs to was opened once.                         *)
LEMMA KindIs ==
  ASSUME ReaderAssumption, ReaderTyped, Underway, Reading,
         NEW f \in AnyFrame, TakeFrame(f), NEW n \in Nat, n = Len(read) + 1,
         Data(f), f.op = "cont" => msgOp # Nothing
  PROVE  /\ Kind(f) \in Openings
         /\ \E o \in Parts(n)' : read'[o].op = Kind(f)
         /\ \A o \in Parts(n)' : read'[o].op \in Openings => read'[o].op = Kind(f)
<1>1. /\ \A k \in 1..n - 1 : read'[k] = read[k]
      /\ read'[n] = f
  BY FrameJoins
<1>2. CASE f.op \in Openings
  <2>1. Parts(n)' = {n} /\ f.op # "cont"
    BY <1>2, NewParts DEF Openings
  <2>2. QED
    BY <1>1, <1>2, <2>1 DEF Kind
<1>3. CASE f.op = "cont"
  <2>1. Parts(n)' = Parts(n - 1) \cup {n} /\ f.op \notin Openings
    BY <1>3, NewParts DEF Openings
  <2>2. msgOp \in Openings
    BY <1>3 DEF ReaderTyped
  <2>3. PICK o \in Parts(n - 1) : read[o].op = msgOp
    BY <1>3, FrameJoins DEF Underway
  <2>4. \A p \in Parts(n - 1) : p \in 1..n - 1 /\ read'[p] = read[p]
    BY <1>1 DEF Parts
  <2>5. ASSUME NEW p \in Parts(n - 1), read[p].op \in Openings PROVE p = o
    <3>1. p \in 1..n - 1 /\ o \in 1..n - 1
      BY <2>4
    <3>2. ~(p < o)
      <4>1. SUFFICES ASSUME p < o PROVE FALSE
        OBVIOUS
      <4>2. o \in p + 1 .. n - 1
        BY <3>1, <4>1
      <4>3. QED
        BY <2>2, <2>3, <4>2 DEF Parts
    <3>3. ~(o < p)
      <4>1. SUFFICES ASSUME o < p PROVE FALSE
        OBVIOUS
      <4>2. p \in o + 1 .. n - 1
        BY <3>1, <4>1
      <4>3. QED
        BY <2>5, <4>2 DEF Parts
    <3>4. QED
      BY <3>1, <3>2, <3>3
  <2>6. Kind(f) = msgOp
    BY <1>3 DEF Kind
  <2>7. \E p \in Parts(n)' : read'[p].op = msgOp
    BY <2>1, <2>3, <2>4
  <2>8. ASSUME NEW p \in Parts(n)', read'[p].op \in Openings PROVE read'[p].op = msgOp
    <3>1. p # n
      BY <1>1, <2>1, <2>8
    <3>2. p \in Parts(n - 1)
      BY <2>1, <3>1
    <3>3. QED
      BY <2>3, <2>4, <2>5, <2>8, <3>2
  <2>9. QED
    BY <2>2, <2>6, <2>7, <2>8
<1>q. QED
  BY <1>2, <1>3 DEF Data

-----------------------------------------------------------------------------
(* What a frame leaves of the invariant, part by part.                     *)

LEMMA UnderwayNext ==
  ASSUME NEW n \in Nat, Len(read') = n, msgOp' # Nothing <=> OpenAt(n + 1)',
         msgOp' # Nothing => /\ Lists(msg', Carried(n)')
                             /\ \E o \in Parts(n)' : read'[o].op = msgOp'
  PROVE  Underway'
BY DEF Underway, OpenAt, Carried, Parts, Data

LEMMA Assembling ==
  ASSUME ReaderAssumption, ReaderTyped, Underway, Reading,
         NEW f \in AnyFrame, TakeFrame(f), NEW n \in Nat, n = Len(read) + 1,
         Data(f), Error(f) = Nothing, Assemble(f)
  PROVE  /\ msg' \in Seq(Byte) /\ msgOp' \in Openings \cup {Nothing} /\ Underway'
         /\ Lists(msg', Carried(n)')
         /\ Binary(n)' <=> Completes(f) = "binary" /\ msg' # <<>>
<1>1. /\ f.op = "cont" => msgOp # Nothing
      /\ WellFramed(n)'
  BY FrameJudged
<1>2. msg' = Assembly(f) /\ msgOp' = IF f.fin THEN Nothing ELSE Kind(f)
  BY DEF Assemble, Assembly, Kind
<1>3. msg' \in Seq(Byte) /\ Lists(msg', Carried(n)')
  BY <1>1, <1>2, AssemblyLists
<1>4. /\ Kind(f) \in Openings /\ Kind(f) # Nothing
      /\ \E o \in Parts(n)' : read'[o].op = Kind(f)
      /\ \A o \in Parts(n)' : read'[o].op \in Openings => read'[o].op = Kind(f)
  BY <1>1, KindIs DEF Openings, Nothing
<1>5. f.fin \in BOOLEAN
  BY DEF AnyFrame
<1>6. OpenAt(n + 1)' <=> ~f.fin
  <2>1. OpenAt(n) <=> msgOp # Nothing
    BY DEF Underway
  <2>2. f.op \in Openings \/ f.op = "cont"
    BY DEF Data
  <2>3. QED
    BY <1>1, <2>1, <2>2, NewOpen
<1>7. Underway'
  <2>1. Len(read') = n
    BY FrameJoins
  <2>2. msgOp' # Nothing <=> OpenAt(n + 1)'
    BY <1>2, <1>4, <1>5, <1>6
  <2>3. msgOp' # Nothing => \E o \in Parts(n)' : read'[o].op = msgOp'
    BY <1>2, <1>4
  <2>4. QED
    BY <1>3, <2>1, <2>2, <2>3, UnderwayNext
<1>8. Binary(n)' <=> Completes(f) = "binary" /\ msg' # <<>>
  <2>1. read'[n] = f
    BY FrameJoins
  <2>2. (\E o \in Parts(n)' : read'[o].op = "binary") <=> Kind(f) = "binary"
    BY <1>4 DEF Openings
  <2>3. Carried(n)' # {} <=> msg' # <<>>
    <3>1. DOMAIN msg' = 1..Len(msg') /\ Len(msg') \in Nat /\ (msg' # <<>> <=> Len(msg') > 0)
      BY <1>3
    <3>2. Carried(n)' = {msg'[x] : x \in DOMAIN msg'}
      BY <1>3 DEF Lists
    <3>3. Len(msg') > 0 => 1 \in 1..Len(msg')
      BY <3>1
    <3>4. ~(Len(msg') > 0) => 1..Len(msg') = {}
      BY <3>1
    <3>5. QED
      BY <3>1, <3>2, <3>3, <3>4, Zenon
  <2>4. Completes(f) = IF f.fin THEN Kind(f) ELSE Nothing
    BY <1>5 DEF Completes, Kind
  <2>5. Binary(n)' <=> f.fin /\ Kind(f) = "binary" /\ msg' # <<>>
    BY <1>1, <2>1, <2>2, <2>3 DEF Binary, Data
  <2>6. QED
    BY <1>5, <2>4, <2>5 DEF Nothing
<1>q. QED
  BY <1>2, <1>3, <1>4, <1>7, <1>8

LEMMA NotAssembling ==
  ASSUME ReaderAssumption, ReaderTyped, Underway, Reading,
         NEW f \in AnyFrame, TakeFrame(f), NEW n \in Nat, n = Len(read) + 1,
         ~Data(f), UNCHANGED <<msg, msgOp>>
  PROVE  Underway' /\ ~Binary(n)'
<1>1. /\ Len(read') = n /\ n - 1 = Len(read)
      /\ \A k \in 1..n - 1 : read'[k] = read[k]
      /\ read'[n] = f
  BY FrameJoins
<1>2. Parts(n)' = Parts(n - 1) /\ Carried(n)' = Carried(n - 1) /\ (OpenAt(n + 1)' <=> OpenAt(n))
  BY NewParts, NewCarried, NewOpen
<1>3. \A o \in Parts(n - 1) : read'[o] = read[o]
  BY <1>1 DEF Parts
<1>4. /\ msgOp' # Nothing <=> OpenAt(n + 1)'
      /\ msgOp' # Nothing => /\ Lists(msg', Carried(n)')
                             /\ \E o \in Parts(n)' : read'[o].op = msgOp'
  BY <1>1, <1>2, <1>3 DEF Underway
<1>5. ~Binary(n)'
  <2>1. read'[n] = f
    BY <1>1
  <2>2. Binary(n)' => read'[n].op \in Openings \cup {"cont"}
    BY DEF Binary, Data
  <2>3. QED
    BY <2>1, <2>2 DEF Data
<1>q. QED
  BY <1>1, <1>4, <1>5, UnderwayNext

LEMMA SetsGrow ==
  ASSUME ReaderTyped, NEW f \in AnyFrame, TakeFrame(f), NEW n \in Nat, n = Len(read) + 1
  PROVE  /\ Binaries \in SUBSET (1..n - 1) /\ Dues \in SUBSET (1..n - 1)
         /\ Binaries' = IF Binary(n)' THEN Binaries \cup {n} ELSE Binaries
         /\ Due(n)' <=> WellFramed(n)' /\ f.op \in {"ping", "close"} /\ Binaries # {}
         /\ Dues' = IF Due(n)' THEN Dues \cup {n} ELSE Dues
<1>1. /\ n - 1 = Len(read) /\ DOMAIN read = 1..n - 1 /\ DOMAIN read' = 1..n
      /\ \A k \in 1..n - 1 : read'[k] = read[k]
      /\ read'[n] = f
  BY FrameJoins
<1>2. Binaries \in SUBSET (1..n - 1) /\ Dues \in SUBSET (1..n - 1)
  BY <1>1 DEF Binaries, Dues
<1>3. \A j \in 1..n - 1 : (Binary(j)' <=> Binary(j)) /\ (WellFramed(j)' <=> WellFramed(j))
  BY <1>1, EarlierFrames
<1>4. n \in 1..n /\ \A j \in 1..n : j = n \/ j \in 1..n - 1
  BY FrameJoins
<1>5. Binaries' = {j \in 1..n : Binary(j)'}
  BY <1>1 DEF Binaries
<1>6. Binaries = {j \in 1..n - 1 : Binary(j)}
  BY <1>1 DEF Binaries
<1>7. Binaries' = IF Binary(n)' THEN Binaries \cup {n} ELSE Binaries
  BY <1>3, <1>4, <1>5, <1>6
<1>8. \A j \in 1..n : (\E b \in Binaries' : b < j) <=> \E b \in Binaries : b < j
  BY <1>2, <1>7
<1>9. \A j \in 1..n - 1 : Due(j)' <=> Due(j)
  BY <1>1, <1>3, <1>8 DEF Due
<1>10. Due(n)' <=> WellFramed(n)' /\ f.op \in {"ping", "close"} /\ Binaries # {}
  <2>1. Due(n)' <=> WellFramed(n)' /\ read'[n].op \in {"ping", "close"} /\ \E b \in Binaries' : b < n
    BY DEF Due
  <2>2. \A b \in Binaries : b < n
    BY <1>2
  <2>3. (\E b \in Binaries' : b < n) <=> Binaries # {}
    BY <1>4, <1>8, <2>2
  <2>4. QED
    BY <1>1, <2>1, <2>3
<1>11. Dues' = {j \in 1..n : Due(j)'}
  BY <1>1 DEF Dues
<1>12. Dues = {j \in 1..n - 1 : Due(j)}
  BY <1>1 DEF Dues
<1>13. Dues' = IF Due(n)' THEN Dues \cup {n} ELSE Dues
  BY <1>4, <1>9, <1>11, <1>12
<1>q. QED
  BY <1>2, <1>7, <1>10, <1>13

LEMMA FaultsNext ==
  ASSUME ReaderTyped, FaultsFound, Reading,
         NEW f \in AnyFrame, TakeFrame(f), NEW n \in Nat, n = Len(read) + 1,
         WellFramed(n)' <=> phase' # "failed"
  PROVE  FaultsFound'
<1>1. n - 1 = Len(read) /\ DOMAIN read = 1..n - 1 /\ DOMAIN read' = 1..n /\ Len(read') = n
  BY FrameJoins
<1>2. \A j \in 1..n - 1 : WellFramed(j)'
  <2>1. \A j \in 1..n - 1 : WellFramed(j)
    BY <1>1 DEF FaultsFound, Reading
  <2>2. \A j \in 1..n - 1 : WellFramed(j)' <=> WellFramed(j)
    BY <1>1, EarlierFrames
  <2>3. QED
    BY <2>1, <2>2
<1>3. FaultsFound' <=> \A j \in 1..n : ~WellFramed(j)' <=> j = n /\ phase' = "failed"
  BY <1>1 DEF FaultsFound
<1>4. \A j \in 1..n : j = n \/ (j \in 1..n - 1 /\ j # n)
  OBVIOUS
<1>q. QED
  BY <1>2, <1>3, <1>4

LEMMA MatchedNext ==
  ASSUME ReaderTyped, Matched, Reading, TunnelGets \in Seq(Seq(Byte)),
         NEW f \in AnyFrame, TakeFrame(f), NEW n \in Nat, n = Len(read) + 1,
         \/ ~Binary(n)' /\ TunnelGets' = TunnelGets
         \/ /\ Binary(n)' /\ msg' \in Seq(Byte) /\ Lists(msg', Carried(n)')
            /\ phase' = "stranger" \/ TunnelGets' = Append(TunnelGets, msg')
  PROVE  Matched'
<1>1. SUFFICES ASSUME phase' # "stranger" PROVE Matched'
  BY DEF Matched
<1>2. /\ Len(TunnelGets) = Cardinality(Binaries)
      /\ \A j \in Binaries : Lists(TunnelGets[Rank(j, Binaries)], Carried(j))
  BY DEF Matched, Reading
<1>3. /\ Binaries \in SUBSET (1..n - 1) /\ n - 1 \in Nat /\ n - 1 = Len(read)
      /\ Binaries' = IF Binary(n)' THEN Binaries \cup {n} ELSE Binaries
  BY SetsGrow, FrameJoins
<1>4. \A j \in Binaries : Carried(j)' = Carried(j)
  BY <1>3, EarlierFrames
<1>5. Matched' <=> /\ Len(TunnelGets') = Cardinality(Binaries')
                   /\ \A j \in Binaries' : Lists(TunnelGets'[Rank(j, Binaries')], Carried(j)')
  BY <1>1 DEF Matched, Lists, Rank
<1>6. CASE ~Binary(n)'
  BY <1>2, <1>3, <1>4, <1>5, <1>6
<1>7. CASE Binary(n)'
  <2>1. TunnelGets' = Append(TunnelGets, msg') /\ Lists(msg', Carried(n)') /\ msg' \in Seq(Byte)
    BY <1>1, <1>7
  <2>2. Binaries' = Binaries \cup {n}
    BY <1>3, <1>7
  <2>3. /\ Cardinality(Binaries) \in Nat
        /\ Cardinality(Binaries') = Cardinality(Binaries) + 1
        /\ Rank(n, Binaries') = Cardinality(Binaries) + 1
        /\ \A j \in Binaries : /\ Rank(j, Binaries') = Rank(j, Binaries)
                              /\ Rank(j, Binaries) \in 1..Cardinality(Binaries)
    <3>1. Binaries \in SUBSET (1..n - 1)
      BY <1>3
    <3>2. /\ Cardinality(Binaries) \in Nat
         /\ Cardinality(Binaries \cup {n}) = Cardinality(Binaries) + 1
         /\ Rank(n, Binaries \cup {n}) = Cardinality(Binaries) + 1
         /\ \A j \in Binaries : /\ Rank(j, Binaries \cup {n}) = Rank(j, Binaries)
                           /\ Rank(j, Binaries) \in 1..Cardinality(Binaries)
      BY <3>1, RankGrows
    <3>3. QED
      BY <3>2, <2>2, Zenon
  <2>4. /\ Len(TunnelGets') = Cardinality(Binaries) + 1
        /\ TunnelGets'[Cardinality(Binaries) + 1] = msg'
        /\ \A i \in 1..Cardinality(Binaries) : TunnelGets'[i] = TunnelGets[i]
    BY <1>2, <2>1, <2>3
  <2>5. \A j \in Binaries : Lists(TunnelGets'[Rank(j, Binaries')], Carried(j)')
    BY <1>2, <1>4, <2>3, <2>4
  <2>6. Lists(TunnelGets'[Rank(n, Binaries')], Carried(n)')
    BY <2>1, <2>3, <2>4
  <2>7. QED
    BY <1>5, <2>2, <2>3, <2>4, <2>5, <2>6
<1>q. QED
  BY <1>6, <1>7

LEMMA EchoedNext ==
  ASSUME ReaderTyped, Echoed, Reading,
         NEW f \in AnyFrame, TakeFrame(f), NEW n \in Nat, n = Len(read) + 1,
         \/ ~Due(n)' /\ answered' = answered
         \/ Due(n)' /\ answered' = Append(answered, Answer(n)'),
         phase' = "stranger" => Binaries = {} /\ answered' = answered
  PROVE  Echoed'
<1>1. /\ Len(answered) = Cardinality(Dues)
      /\ \A j \in Dues : answered[Rank(j, Dues)] = Answer(j)
  BY DEF Echoed, Reading
<1>2. /\ Dues \in SUBSET (1..n - 1) /\ n - 1 \in Nat /\ n - 1 = Len(read)
      /\ Dues' = IF Due(n)' THEN Dues \cup {n} ELSE Dues
  BY SetsGrow, FrameJoins
<1>3. CASE phase' = "stranger"
  <2>1. Dues = {}
    BY <1>3 DEF Dues, Due
  <2>2. Len(answered) = 0
    BY <1>1, <2>1, FS_EmptySet
  <2>3. answered' = <<>>
    BY <1>3, <2>2 DEF ReaderTyped
  <2>4. QED
    BY <1>3, <2>3 DEF Echoed
<1>4. CASE phase' # "stranger"
  <2>1. \A j \in Dues : Answer(j)' = Answer(j)
    <3>1. \A j \in Dues : read'[j] = read[j]
      BY <1>2, FrameJoins
    <3>2. QED
      BY <3>1 DEF Answer
  <2>2. Echoed' <=> /\ Len(answered') = Cardinality(Dues')
                    /\ \A j \in Dues' : answered'[Rank(j, Dues')] = Answer(j)'
    BY <1>4 DEF Echoed, Rank
  <2>3. CASE ~Due(n)'
    BY <1>1, <1>2, <2>1, <2>2, <2>3
  <2>4. CASE Due(n)'
    <3>1. answered' = Append(answered, Answer(n)') /\ Dues' = Dues \cup {n}
      BY <1>2, <2>4
    <3>2. /\ Cardinality(Dues) \in Nat
          /\ Cardinality(Dues') = Cardinality(Dues) + 1
          /\ Rank(n, Dues') = Cardinality(Dues) + 1
          /\ \A j \in Dues : /\ Rank(j, Dues') = Rank(j, Dues)
                            /\ Rank(j, Dues) \in 1..Cardinality(Dues)
      <4>1. Dues \in SUBSET (1..n - 1)
        BY <1>2
      <4>2. /\ Cardinality(Dues) \in Nat
           /\ Cardinality(Dues \cup {n}) = Cardinality(Dues) + 1
           /\ Rank(n, Dues \cup {n}) = Cardinality(Dues) + 1
           /\ \A j \in Dues : /\ Rank(j, Dues \cup {n}) = Rank(j, Dues)
                         /\ Rank(j, Dues) \in 1..Cardinality(Dues)
        BY <4>1, RankGrows
      <4>3. QED
        BY <4>2, <3>1, Zenon
    <3>3. \E S : answered \in Seq(S)
      BY DEF ReaderTyped
    <3>4. /\ Len(answered') = Cardinality(Dues) + 1
          /\ answered'[Cardinality(Dues) + 1] = Answer(n)'
          /\ \A i \in 1..Cardinality(Dues) : answered'[i] = answered[i]
      BY <1>1, <3>1, <3>2, <3>3
    <3>5. \A j \in Dues : answered'[Rank(j, Dues')] = Answer(j)'
      BY <1>1, <2>1, <3>2, <3>4
    <3>6. QED
      BY <2>2, <3>1, <3>2, <3>4, <3>5
  <2>5. QED
    BY <2>3, <2>4
<1>q. QED
  BY <1>3, <1>4

-----------------------------------------------------------------------------
(* The actions.                                                            *)

(* What all of them need of a frame: its number and its sort.              *)
LEMMA FrameFacts ==
  ASSUME ReaderAssumption, ReaderInv, Reading,
         NEW f \in AnyFrame, TakeFrame(f), NEW n \in Nat, n = Len(read) + 1
  PROVE  /\ read' \in Seq(AnyFrame)
         /\ Payload(f) = FrameBytes(n, f.size) /\ Payload(f) \in Seq(Byte)
         /\ Error(f) = Nothing <=> WellFramed(n)'
         /\ Binary(n)' => WellFramed(n)' /\ Data(f)
         /\ Due(n)' <=> WellFramed(n)' /\ f.op \in {"ping", "close"} /\ Binaries # {}
         /\ f.op \in Control => ~Data(f)
         /\ phase = "admit" => ~first /\ Binaries = {}
         /\ phase = "carrier" => Binaries # {}
<1>1. ReaderTyped /\ Underway /\ Decided
  BY DEF ReaderInv
<1>2. read' \in Seq(AnyFrame) /\ read'[n] = f
  BY <1>1, FrameJoins
<1>3. f.size \in Nat
  BY DEF ReaderAssumption, AnyFrame
<1>4. Payload(f) = FrameBytes(n, f.size)
  BY DEF Payload
<1>5. FrameBytes(n, f.size) \in Seq(Byte)
  BY <1>3, FrameBytesFacts
<1>6. Error(f) = Nothing <=> WellFramed(n)'
  BY <1>1, FrameJudged
<1>7. Binary(n)' => WellFramed(n)' /\ Data(f)
  <2>1. Binary(n)' => WellFramed(n)' /\ Data(read'[n])
    BY DEF Binary, Data
  <2>2. QED
    BY <1>2, <2>1
<1>8. Due(n)' <=> WellFramed(n)' /\ f.op \in {"ping", "close"} /\ Binaries # {}
  BY <1>1, SetsGrow
<1>9. f.op \in Control => ~Data(f)
  BY DEF Control, Data, Openings
<1>10. phase = "admit" => ~first /\ Binaries = {}
  BY <1>1 DEF ReaderTyped, Decided
<1>11. phase = "carrier" => Binaries # {}
  BY <1>1 DEF Decided
<1>q. QED
  BY <1>2, <1>4, <1>5, <1>6, <1>7, <1>8, <1>9, <1>10, <1>11

(* A frame that ends the connection.                                       *)
LEMMA EndKeeps ==
  ASSUME ReaderAssumption, ReaderInv, NEW f \in AnyFrame, AdmitEnds(f) \/ RecvEnds(f)
  PROVE  ReaderInv'
<1>1. PICK n \in Nat : n = Len(read) + 1
  BY DEF ReaderInv, ReaderTyped
<1>2. /\ ReaderTyped /\ Matched /\ FaultsFound /\ Echoed
      /\ Reading /\ TakeFrame(f)
      /\ Error(f) # Nothing \/ f.op = "close"
  BY DEF ReaderInv, AdmitEnds, RecvEnds, Reading
<1>3. /\ phase' = IF Error(f) # Nothing THEN "failed" ELSE "closed"
      /\ UNCHANGED <<msg, msgOp, first, got>> /\ ~first
  BY <1>1, <1>2, FrameFacts DEF AdmitEnds, RecvEnds
<1>4. /\ read' \in Seq(AnyFrame) /\ Payload(f) \in Seq(Byte)
      /\ Payload(f) = FrameBytes(n, f.size)
      /\ Error(f) = Nothing <=> WellFramed(n)'
      /\ Due(n)' <=> Error(f) = Nothing /\ phase = "carrier"
      /\ ~Binary(n)'
  <2>1. f.op = "close" => f.op \in Control /\ f.op \in {"ping", "close"}
    BY DEF Control
  <2>2. phase = "admit" \/ phase = "carrier"
    BY <1>2 DEF Reading
  <2>3. QED
    BY <1>1, <1>2, <2>1, <2>2, FrameFacts
<1>5. Underway' /\ Decided'
  BY <1>3 DEF Underway, Decided, Reading
<1>6. Matched'
  <2>1. TunnelGets' = TunnelGets /\ TunnelGets \in Seq(Seq(Byte))
    BY <1>2, <1>3 DEF TunnelGets, ReaderTyped
  <2>2. QED
    BY <1>1, <1>2, <1>4, <2>1, MatchedNext
<1>7. FaultsFound'
  <2>1. WellFramed(n)' <=> phase' # "failed"
    BY <1>3, <1>4
  <2>2. QED
    BY <1>1, <1>2, <2>1, FaultsNext
<1>8. /\ Status(Payload(f)) \in Seq(Byte)
      /\ Error(f) = Nothing => Answer(n)' = [op |-> "close", data |-> Status(Payload(f))]
  <2>1. Status(Payload(f)) \in Seq(Byte)
    <3>1. Len(Payload(f)) \in Nat /\ DOMAIN Payload(f) = 1..Len(Payload(f))
      BY <1>4
    <3>2. \A k \in 0..2 : k <= Len(Payload(f)) => SubSeq(Payload(f), 1, k) \in Seq(Byte)
      BY <1>4, <3>1
    <3>3. QED
      BY <3>1, <3>2 DEF Status
  <2>2. read'[n] = f
    BY <1>1, <1>2, FrameJoins
  <2>3. Error(f) = Nothing => f.op # "ping"
    BY <1>2
  <2>4. QED
    BY <1>4, <2>1, <2>2, <2>3 DEF Answer, Status
<1>9. IF Due(n)' THEN answered' = Append(answered, Answer(n)') ELSE answered' = answered
  <2>1. CASE AdmitEnds(f)
    BY <1>4, <2>1 DEF AdmitEnds
  <2>2. CASE RecvEnds(f)
    <3>1. /\ phase = "carrier"
          /\ answered' = IF Error(f) # Nothing THEN answered
                ELSE Append(answered, [op |-> "close", data |-> Status(Payload(f))])
      BY <2>2 DEF RecvEnds
    <3>2. QED
      BY <1>4, <1>8, <3>1
  <2>3. QED
    BY <2>1, <2>2
<1>10. Echoed'
  BY <1>1, <1>2, <1>3, <1>9, EchoedNext
<1>11. answered' \in Seq(Reply)
  <2>1. answered \in Seq(Reply)
    BY <1>2 DEF ReaderTyped
  <2>2. [op |-> "close", data |-> Status(Payload(f))] \in Reply
    BY <1>8 DEF Reply
  <2>3. Due(n)' => Append(answered, Answer(n)') \in Seq(Reply)
    BY <1>4, <1>8, <2>1, <2>2, AppendProperties
  <2>4. QED
    BY <1>9, <2>1, <2>3
<1>12. ReaderTyped'
  BY <1>2, <1>3, <1>4, <1>11 DEF ReaderTyped
<1>q. QED
  BY <1>5, <1>6, <1>7, <1>10, <1>12 DEF ReaderInv

(* One that admission reads past.                                          *)
LEMMA SkipKeeps ==
  ASSUME ReaderAssumption, ReaderInv, NEW f \in AnyFrame, AdmitSkips(f)
  PROVE  ReaderInv'
<1>1. PICK n \in Nat : n = Len(read) + 1
  BY DEF ReaderInv, ReaderTyped
<1>2. /\ ReaderTyped /\ Underway /\ Matched /\ FaultsFound /\ Echoed
      /\ phase = "admit" /\ Reading /\ TakeFrame(f) /\ Error(f) = Nothing
      /\ UNCHANGED <<phase, first, got, answered>>
  BY DEF ReaderInv, AdmitSkips, Reading
<1>3. /\ read' \in Seq(AnyFrame) /\ WellFramed(n)' /\ ~Due(n)' /\ ~first /\ Binaries = {}
  BY <1>1, <1>2, FrameFacts
<1>4. /\ msg' \in Seq(Byte) /\ msgOp' \in Openings \cup {Nothing}
      /\ Underway' /\ ~Binary(n)'
  <2>1. CASE Data(f)
    <3>1. Assemble(f) /\ Completes(f) # "binary"
      BY <2>1 DEF AdmitSkips
    <3>2. QED
      BY <1>1, <1>2, <2>1, <3>1, Assembling
  <2>2. CASE ~Data(f)
    <3>1. UNCHANGED <<msg, msgOp>>
      BY <2>2 DEF AdmitSkips
    <3>2. Underway' /\ ~Binary(n)'
      BY <1>1, <1>2, <2>2, <3>1, NotAssembling
    <3>3. QED
      BY <1>2, <3>1, <3>2 DEF ReaderTyped
  <2>3. QED
    BY <2>1, <2>2
<1>5. Decided'
  <2>1. Binaries' = {}
    BY <1>1, <1>2, <1>3, <1>4, SetsGrow
  <2>2. QED
    BY <1>2, <2>1 DEF Decided
<1>6. Matched'
  <2>1. TunnelGets' = TunnelGets /\ TunnelGets \in Seq(Seq(Byte))
    BY <1>2, <1>3 DEF TunnelGets, ReaderTyped
  <2>2. QED
    BY <1>1, <1>2, <1>4, <2>1, MatchedNext
<1>7. FaultsFound'
  BY <1>1, <1>2, <1>3, FaultsNext
<1>8. Echoed'
  BY <1>1, <1>2, <1>3, EchoedNext
<1>9. ReaderTyped'
  BY <1>2, <1>3, <1>4 DEF ReaderTyped
<1>q. QED
  BY <1>4, <1>5, <1>6, <1>7, <1>8, <1>9 DEF ReaderInv

(* The one that decides on it.                                             *)
LEMMA DecisionKeeps ==
  ASSUME ReaderAssumption, ReaderInv, NEW f \in AnyFrame, NEW authentic \in BOOLEAN,
         AdmitDecides(f, authentic)
  PROVE  ReaderInv'
<1>1. PICK n \in Nat : n = Len(read) + 1
  BY DEF ReaderInv, ReaderTyped
<1>2. /\ ReaderTyped /\ Underway /\ Matched /\ FaultsFound /\ Echoed
      /\ phase = "admit" /\ Reading /\ TakeFrame(f) /\ Error(f) = Nothing
      /\ Data(f) /\ Completes(f) = "binary" /\ Assemble(f)
      /\ authentic => msg' # <<>>
      /\ first' = authentic /\ phase' = IF authentic THEN "carrier" ELSE "stranger"
      /\ UNCHANGED <<got, answered>>
  BY DEF ReaderInv, AdmitDecides, Reading
<1>3. /\ read' \in Seq(AnyFrame) /\ WellFramed(n)' /\ ~Due(n)' /\ ~first /\ Binaries = {}
  BY <1>1, <1>2, FrameFacts
<1>4. /\ msg' \in Seq(Byte) /\ msgOp' \in Openings \cup {Nothing}
      /\ Underway' /\ Lists(msg', Carried(n)')
      /\ Binary(n)' <=> msg' # <<>>
  BY <1>1, <1>2, Assembling
<1>5. Decided'
  <2>1. authentic => Binaries' # {}
    BY <1>1, <1>2, <1>4, SetsGrow
  <2>2. QED
    BY <1>2, <2>1 DEF Decided
<1>6. Matched'
  <2>1. /\ TunnelGets = got /\ TunnelGets \in Seq(Seq(Byte))
        /\ TunnelGets' = IF authentic THEN Append(got, msg') ELSE got
    BY <1>2, <1>3 DEF TunnelGets, ReaderTyped
  <2>2. CASE Binary(n)'
    <3>1. phase' = "stranger" \/ TunnelGets' = Append(TunnelGets, msg')
      BY <1>2, <2>1
    <3>2. QED
      BY <1>1, <1>2, <1>4, <2>1, <2>2, <3>1, MatchedNext
  <2>3. CASE ~Binary(n)'
    <3>1. TunnelGets' = TunnelGets
      BY <1>2, <1>4, <2>1, <2>3
    <3>2. QED
      BY <1>1, <1>2, <2>1, <2>3, <3>1, MatchedNext
  <2>4. QED
    BY <2>2, <2>3
<1>7. FaultsFound'
  <2>1. phase' # "failed"
    BY <1>2
  <2>2. QED
    BY <1>1, <1>2, <1>3, <2>1, FaultsNext
<1>8. Echoed'
  BY <1>1, <1>2, <1>3, EchoedNext
<1>9. ReaderTyped'
  <2>1. /\ first' \in BOOLEAN /\ (first' => phase' = "carrier")
        /\ phase' \in {"admit", "carrier", "stranger", "closed", "failed"}
    BY <1>2
  <2>2. QED
    BY <1>2, <1>3, <1>4, <2>1 DEF ReaderTyped
<1>q. QED
  BY <1>4, <1>5, <1>6, <1>7, <1>8, <1>9 DEF ReaderInv

(* Pings and pongs.                                                        *)
LEMMA ControlKeeps ==
  ASSUME ReaderAssumption, ReaderInv, NEW f \in AnyFrame, RecvControl(f)
  PROVE  ReaderInv'
<1>1. PICK n \in Nat : n = Len(read) + 1
  BY DEF ReaderInv, ReaderTyped
<1>2. /\ ReaderTyped /\ Underway /\ Decided /\ Matched /\ FaultsFound /\ Echoed
      /\ phase = "carrier" /\ Reading /\ ~first /\ TakeFrame(f) /\ Error(f) = Nothing
      /\ f.op \in {"ping", "pong"}
      /\ answered' = IF f.op = "ping" THEN Append(answered, [op |-> "pong", data |-> Payload(f)])
                     ELSE answered
      /\ UNCHANGED <<msg, msgOp, phase, first, got>>
  BY DEF ReaderInv, RecvControl, Reading
<1>3. f.op \in Control
  BY <1>2 DEF Control
<1>4. /\ read' \in Seq(AnyFrame) /\ WellFramed(n)' /\ ~Data(f) /\ Binaries # {}
      /\ Payload(f) = FrameBytes(n, f.size) /\ Payload(f) \in Seq(Byte)
      /\ Due(n)' <=> f.op = "ping"
  BY <1>1, <1>2, <1>3, FrameFacts
<1>5. Underway' /\ ~Binary(n)'
  BY <1>1, <1>2, <1>4, NotAssembling
<1>6. Decided'
  BY <1>1, <1>2, <1>4, <1>5, SetsGrow DEF Decided
<1>7. Matched'
  <2>1. TunnelGets' = TunnelGets /\ TunnelGets \in Seq(Seq(Byte))
    BY <1>2 DEF TunnelGets, ReaderTyped
  <2>2. QED
    BY <1>1, <1>2, <1>5, <2>1, MatchedNext
<1>8. FaultsFound'
  BY <1>1, <1>2, <1>4, FaultsNext
<1>9. f.op = "ping" => Answer(n)' = [op |-> "pong", data |-> Payload(f)]
  <2>1. read'[n] = f
    BY <1>1, <1>2, FrameJoins
  <2>2. QED
    BY <1>4, <2>1 DEF Answer
<1>10. Echoed'
  <2>1. IF Due(n)' THEN answered' = Append(answered, Answer(n)') ELSE answered' = answered
    BY <1>2, <1>4, <1>9
  <2>2. QED
    BY <1>1, <1>2, <2>1, EchoedNext
<1>11. answered' \in Seq(Reply)
  <2>1. answered \in Seq(Reply)
    BY <1>2 DEF ReaderTyped
  <2>2. [op |-> "pong", data |-> Payload(f)] \in Reply
    BY <1>4 DEF Reply
  <2>3. Append(answered, [op |-> "pong", data |-> Payload(f)]) \in Seq(Reply)
    BY <2>1, <2>2, AppendProperties
  <2>4. QED
    BY <1>2, <2>1, <2>3
<1>12. ReaderTyped'
  BY <1>2, <1>4, <1>11 DEF ReaderTyped
<1>q. QED
  BY <1>5, <1>6, <1>7, <1>8, <1>10, <1>12 DEF ReaderInv

(* Data.                                                                   *)
LEMMA DataKeeps ==
  ASSUME ReaderAssumption, ReaderInv, NEW f \in AnyFrame, RecvData(f)
  PROVE  ReaderInv'
<1>1. PICK n \in Nat : n = Len(read) + 1
  BY DEF ReaderInv, ReaderTyped
<1>2. /\ ReaderTyped /\ Underway /\ Decided /\ Matched /\ FaultsFound /\ Echoed
      /\ phase = "carrier" /\ Reading /\ ~first /\ TakeFrame(f) /\ Error(f) = Nothing
      /\ Data(f) /\ Assemble(f)
      /\ got' = IF Completes(f) = "binary" /\ msg' # <<>> THEN Append(got, msg') ELSE got
      /\ UNCHANGED <<phase, first, answered>>
  BY DEF ReaderInv, RecvData, Reading
<1>3. f.op \notin {"ping", "close"}
  BY <1>2 DEF Data, Openings
<1>4. /\ read' \in Seq(AnyFrame) /\ WellFramed(n)' /\ Binaries # {} /\ ~Due(n)'
  BY <1>1, <1>2, <1>3, FrameFacts
<1>5. /\ msg' \in Seq(Byte) /\ msgOp' \in Openings \cup {Nothing}
      /\ Underway' /\ Lists(msg', Carried(n)')
      /\ Binary(n)' <=> Completes(f) = "binary" /\ msg' # <<>>
  BY <1>1, <1>2, Assembling
<1>6. Decided'
  BY <1>1, <1>2, <1>4, SetsGrow DEF Decided
<1>7. got \in Seq(Seq(Byte)) /\ got' \in Seq(Seq(Byte))
  <2>1. got \in Seq(Seq(Byte))
    BY <1>2 DEF ReaderTyped
  <2>2. QED
    BY <1>2, <1>5, <2>1, AppendProperties
<1>8. Matched'
  <2>1. TunnelGets = got /\ TunnelGets' = got'
    BY <1>2 DEF TunnelGets
  <2>2. \/ ~Binary(n)' /\ TunnelGets' = TunnelGets
        \/ Binary(n)' /\ TunnelGets' = Append(TunnelGets, msg')
    BY <1>2, <1>5, <2>1
  <2>3. QED
    BY <1>1, <1>2, <1>5, <1>7, <2>1, <2>2, MatchedNext
<1>9. FaultsFound'
  BY <1>1, <1>2, <1>4, FaultsNext
<1>10. Echoed'
  BY <1>1, <1>2, <1>4, EchoedNext
<1>11. ReaderTyped'
  BY <1>2, <1>4, <1>5, <1>7 DEF ReaderTyped
<1>q. QED
  BY <1>5, <1>6, <1>8, <1>9, <1>10, <1>11 DEF ReaderInv

(* No frame is read.                                                       *)
LEMMA NoFrameKeeps ==
  ASSUME ReaderInv, TakeFirst \/ UNCHANGED readerVars
  PROVE  ReaderInv'
<1>1. /\ ReaderTyped /\ Underway /\ Decided /\ Matched /\ FaultsFound /\ Echoed
      /\ UNCHANGED <<msg, msgOp, phase, answered, read>>
      /\ TunnelGets' = TunnelGets
      /\ got' \in Seq(Seq(Byte)) /\ first' \in BOOLEAN /\ (first' => phase = "carrier")
  <2>1. CASE TakeFirst
    <3>1. got \in Seq(Seq(Byte)) /\ msg \in Seq(Byte)
      BY DEF ReaderInv, ReaderTyped
    <3>2. Append(got, msg) \in Seq(Seq(Byte))
      BY <3>1, AppendProperties
    <3>3. QED
      BY <2>1, <3>2 DEF ReaderInv, TakeFirst, TunnelGets
  <2>2. CASE UNCHANGED readerVars
    BY <2>2 DEF ReaderInv, ReaderTyped, readerVars, TunnelGets
  <2>3. QED
    BY <2>1, <2>2
<1>2. ReaderTyped'
  BY <1>1 DEF ReaderTyped
<1>3. Underway'
  <2>1. PICK n \in Nat : n = Len(read)
    BY <1>1 DEF ReaderTyped
  <2>2. CASE Reading
    <3>1. /\ OpenAt(n + 1)' <=> OpenAt(n + 1)
          /\ Carried(n)' = Carried(n) /\ Parts(n)' = Parts(n)
      BY <1>1 DEF Carried, Parts, OpenAt, Data
    <3>2. /\ msgOp # Nothing <=> OpenAt(n + 1)
          /\ msgOp # Nothing => /\ Lists(msg, Carried(n))
                                /\ \E o \in Parts(n) : read[o].op = msgOp
      BY <1>1, <2>1, <2>2 DEF Underway
    <3>3. Lists(msg', Carried(n)') <=> Lists(msg, Carried(n))
      BY <1>1, <3>1 DEF Lists
    <3>4. QED
      BY <1>1, <2>1, <3>1, <3>2, <3>3, UnderwayNext
  <2>3. CASE ~Reading
    BY <1>1, <2>3 DEF Underway, Reading
  <2>4. QED
    BY <2>2, <2>3
<1>4. Binaries' = Binaries /\ Dues' = Dues /\ (FaultsFound' <=> FaultsFound)
  BY <1>1 DEF Binaries, Dues, FaultsFound, Binary, Due, WellFramed, Carried, Parts, OpenAt, Data
<1>5. Decided'
  BY <1>1, <1>4 DEF Decided
<1>6. Matched'
  <2>1. \A j \in Binaries : Carried(j)' = Carried(j)
    BY <1>1 DEF Carried, Parts, Data
  <2>2. Matched' <=> (phase' # "stranger" =>
          /\ Len(TunnelGets') = Cardinality(Binaries')
          /\ \A j \in Binaries' : Lists(TunnelGets'[Rank(j, Binaries')], Carried(j)'))
    BY DEF Matched, Lists, Rank
  <2>3. QED
    BY <1>1, <1>4, <2>1, <2>2 DEF Matched
<1>7. Echoed'
  <2>1. \A j \in Dues : Answer(j)' = Answer(j)
    BY <1>1 DEF Answer
  <2>2. Echoed' <=> IF phase' = "stranger" THEN answered' = <<>>
                    ELSE /\ Len(answered') = Cardinality(Dues')
                         /\ \A j \in Dues' : answered'[Rank(j, Dues')] = Answer(j)'
    BY DEF Echoed, Rank
  <2>3. QED
    BY <1>1, <1>4, <2>1, <2>2 DEF Echoed
<1>q. QED
  BY <1>1, <1>2, <1>3, <1>4, <1>5, <1>6, <1>7 DEF ReaderInv

LEMMA ReaderStarts == ASSUME ReaderInit PROVE ReaderInv
<1>1. /\ msg = <<>> /\ msgOp = Nothing /\ phase = "admit" /\ first = FALSE
      /\ got = <<>> /\ answered = <<>> /\ read = <<>>
  BY DEF ReaderInit
<1>2. DOMAIN read = {} /\ Len(read) = 0 /\ Len(got) = 0 /\ Len(answered) = 0
  BY <1>1
<1>3. Binaries = {} /\ Dues = {} /\ FaultsFound /\ Cardinality({}) = 0
  BY <1>2, FS_EmptySet DEF Binaries, Dues, FaultsFound
<1>4. ReaderTyped
  <2>1. \A S : <<>> \in Seq(S)
    OBVIOUS
  <2>2. /\ msgOp \in Openings \cup {Nothing} /\ first \in BOOLEAN /\ (first => phase = "carrier")
        /\ phase \in {"admit", "carrier", "stranger", "closed", "failed"}
    BY <1>1
  <2>3. QED
    BY <1>1, <2>1, <2>2 DEF ReaderTyped
<1>5. Underway
  <2>1. ~OpenAt(0 + 1)
    BY DEF OpenAt
  <2>2. QED
    BY <1>1, <1>2, <2>1 DEF Underway
<1>6. Decided /\ Matched /\ Echoed
  BY <1>1, <1>2, <1>3 DEF Decided, Matched, Echoed, TunnelGets
<1>q. QED
  BY <1>3, <1>4, <1>5, <1>6 DEF ReaderInv

LEMMA ReaderStays == ReaderSpec => []ReaderInv
<1>1. ReaderInit => ReaderInv
  BY ReaderStarts
<1>2. ReaderInv /\ [ReaderNext]_readerVars => ReaderInv'
  <2>1. SUFFICES ASSUME ReaderInv, [ReaderNext]_readerVars PROVE ReaderInv'
    OBVIOUS
  <2>2. ASSUME NEW f \in AnyFrame, AdmitEnds(f) \/ RecvEnds(f) PROVE ReaderInv'
    BY <2>1, <2>2, EndKeeps, ReaderAssumption
  <2>3. ASSUME NEW f \in AnyFrame, AdmitSkips(f) PROVE ReaderInv'
    BY <2>1, <2>3, SkipKeeps, ReaderAssumption
  <2>4. ASSUME NEW f \in AnyFrame, NEW a \in BOOLEAN, AdmitDecides(f, a) PROVE ReaderInv'
    BY <2>1, <2>4, DecisionKeeps, ReaderAssumption
  <2>5. ASSUME NEW f \in AnyFrame, RecvControl(f) PROVE ReaderInv'
    BY <2>1, <2>5, ControlKeeps, ReaderAssumption
  <2>6. ASSUME NEW f \in AnyFrame, RecvData(f) PROVE ReaderInv'
    BY <2>1, <2>6, DataKeeps, ReaderAssumption
  <2>7. CASE TakeFirst \/ UNCHANGED readerVars
    BY <2>1, <2>7, NoFrameKeeps
  <2>8. QED
    BY <2>1, <2>2, <2>3, <2>4, <2>5, <2>6, <2>7 DEF ReaderNext
<1>3. QED
  BY <1>1, <1>2, PTL DEF ReaderSpec

(* The tunnel gets the messages that were sent, each once, whole, in order *)
(* and nothing else, however they are cut up and interrupted.              *)
THEOREM MessagesStayIntact == ReaderSpec => []MessagesIntact
<1>1. ReaderInv => MessagesIntact
  BY DEF ReaderInv, Matched, MessagesIntact, Admitted
<1>2. QED
  BY <1>1, ReaderStays, PTL

(* A connection is given up at the first frame that breaks one of the      *)
(* reader's rules (reserved bits and opcodes, control frames whole and     *)
(* short, the order of fragments, the size of a message), and at no other. *)
THEOREM FaultsAreFound == ReaderSpec => []FaultsFound
<1>1. ReaderInv => FaultsFound
  BY DEF ReaderInv
<1>2. QED
  BY <1>1, ReaderStays, PTL

(* Every ping from the admission on is answered once, in order, with what  *)
(* it carried, and a close with its status.                                *)
THEOREM AnswersAreEchoes == ReaderSpec => []AnswersEcho
<1>1. ASSUME ReaderInv PROVE AnswersEcho
  <2>1. CASE Admitted
    BY <1>1, <2>1 DEF ReaderInv, Echoed, AnswersEcho, Admitted
  <2>2. CASE ~Admitted /\ phase # "stranger"
    <3>1. Dues = {}
      BY <2>2 DEF Admitted, Dues, Due
    <3>2. Len(answered) = 0 /\ answered \in Seq(Reply)
      BY <1>1, <2>2, <3>1, FS_EmptySet DEF ReaderInv, ReaderTyped, Echoed
    <3>3. QED
      BY <2>2, <3>2 DEF AnswersEcho
  <2>3. CASE phase = "stranger"
    BY <1>1, <2>3 DEF ReaderInv, Echoed, AnswersEcho, Admitted
  <2>4. QED
    BY <2>1, <2>2, <2>3
<1>2. QED
  BY <1>1, ReaderStays, PTL
=============================================================================
