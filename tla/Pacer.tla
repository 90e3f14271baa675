------------------------------- MODULE Pacer -------------------------------
(***************************************************************************)
(* The token bucket that shapes bulk traffic (pacer.go), shared by the     *)
(* pumps of all TUN queues under a lock that is held across the sleep.     *)
(* Credit is added lazily, from the time that really passed; a short       *)
(* sleep is not taken but carried as debt, and so is what a batch needs    *)
(* beyond the bucket.  Time is counted in steps in which Rate bytes are    *)
(* earned: the code's fractions of a byte and of a nanosecond are left out.*)
(***************************************************************************)
EXTENDS Integers

CONSTANTS Pumps,
          Rate,      \* bytes earned per step of time
          Burst,     \* capacity of the bucket
          MinSleep,  \* shortest sleep taken (minPacerSleep)
          MaxNeed,   \* largest batch
          MaxTime    \* bound: the clock

ASSUME PacerAssumption ==
  /\ Rate \in Nat \ {0} /\ Burst \in Nat /\ MinSleep \in Nat
  /\ MaxNeed \in Nat /\ MaxTime \in Nat

VARIABLES clock,
          tokens,         \* the bucket,
          credited,       \* as of the last time it was credited (pacer.last)
          nap,            \* pump |-> the sleep it takes inside wait, or Awake
          granted,        \* bytes let through so far
          grantedBy,      \* time |-> what had been let through when that time came
          ideal           \* a bucket credited at every step of time

pacerVars == <<clock, tokens, credited, nap, granted, grantedBy, ideal>>

Awake == [need |-> 0, until |-> 0]
Naps == [need : 0..MaxNeed, until : Nat]
Earned(t) == t * Rate
Capped(n) == IF n > Burst THEN Burst ELSE n

PacerInit ==
  /\ clock = 0 /\ tokens = Burst /\ credited = 0 /\ nap = [p \in Pumps |-> Awake]
  /\ granted = 0 /\ grantedBy = [t \in 0..MaxTime |-> 0] /\ ideal = Burst

-----------------------------------------------------------------------------

Elapse ==
  /\ clock < MaxTime /\ clock' = clock + 1
  /\ ideal' = Capped(ideal + Rate)
  /\ grantedBy' = [grantedBy EXCEPT ![clock + 1] = granted]
  /\ UNCHANGED <<tokens, credited, nap, granted>>

\* accrue, the only place that reads the clock: what is in the bucket now.
Accrued == Capped(tokens + Earned(clock - credited))

\* The end of wait: n bytes leave the bucket, which may go below zero.
Spend(n) ==
  /\ tokens' = Accrued - n /\ credited' = clock
  /\ granted' = granted + n /\ ideal' = ideal - n

\* Mutant: the lock is not held across the sleep.
MutantLockFree(p) == nap[p] = Awake

\* p.mu, held by the pump that sleeps.
LockFree(p) == \A q \in Pumps : nap[q] = Awake

\* wait: lock and credit; a deficit worth no sleep becomes debt.
WaitNot(p, n) ==
  /\ LockFree(p)
  /\ n - Accrued <= Earned(MinSleep)
  /\ Spend(n)
  /\ UNCHANGED <<clock, nap, grantedBy>>
\* Otherwise the deficit is slept off, with the lock held.
FallAsleep(p, n) ==
  /\ LockFree(p)
  /\ n - Accrued > Earned(MinSleep)
  /\ tokens' = Accrued /\ credited' = clock
  /\ nap' = [nap EXCEPT ![p] =
               [need |-> n, until |-> clock + ((n - Accrued) + Rate - 1) \div Rate]]
  /\ UNCHANGED <<clock, granted, grantedBy, ideal>>

\* Mutant: what is credited is the sleep that was asked for.
MutantWake(p) ==
  /\ nap[p] # Awake /\ clock >= nap[p].until
  /\ tokens' = Capped(tokens + Earned(nap[p].until - credited)) - nap[p].need /\ credited' = clock
  /\ granted' = granted + nap[p].need /\ ideal' = ideal - nap[p].need
  /\ nap' = [nap EXCEPT ![p] = Awake]
  /\ UNCHANGED <<clock, grantedBy>>

\* The sleep ends, at its time or later: what it really took is credited.
Wake(p) ==
  /\ nap[p] # Awake /\ clock >= nap[p].until
  /\ Spend(nap[p].need)
  /\ nap' = [nap EXCEPT ![p] = Awake]
  /\ UNCHANGED <<clock, grantedBy>>

PacerNext ==
  \/ Elapse
  \/ \E p \in Pumps : Wake(p) \/ \E n \in 1..MaxNeed : WaitNot(p, n) \/ FallAsleep(p, n)

PacerSpec == PacerInit /\ [][PacerNext]_pacerVars

-----------------------------------------------------------------------------

\* Type correctness.
PacerTypeOK ==
  /\ clock \in 0..MaxTime /\ credited \in 0..clock
  /\ tokens \in Int /\ tokens <= Burst /\ ideal \in Int /\ ideal <= Burst
  /\ nap \in [Pumps -> Naps]
  /\ granted \in Nat /\ grantedBy \in [0..MaxTime -> Nat]

\* No credit is lost and none is invented: the bucket that is only credited when
\* somebody waits is worth, at every moment, what a bucket credited all the time would
\* be, whatever the sleeps overshoot.
LazyBucketExact == Accrued = ideal

\* The pumps together keep the rate: over any stretch of time they are let through
\* what it earned, a full bucket, and the one debt a short sleep or a batch larger than
\* the bucket may leave.
Debt == IF MaxNeed - Burst > Earned(MinSleep) THEN MaxNeed - Burst ELSE Earned(MinSleep)
RateKept ==
  \A t \in 0..clock : granted - grantedBy[t] <= Burst + Earned(clock - t) + Debt
=============================================================================
