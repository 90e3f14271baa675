--------------------------- MODULE KernelCounters ---------------------------
(***************************************************************************)
(* The observer's reports of what the kernel threw away (dpilog.go): one   *)
(* goroutine per process reads the kernel's counters every half minute and *)
(* reports what they moved by.  On the ICMP carrier that is icmpWatch,     *)
(* which also reads the drop counter of the carrier's own socket once the  *)
(* socket's inode is published; on every other carrier it is kernelWatch.  *)
(* A read may fail, and a counter may wrap.  One counter stands for the    *)
(* five of a block, which are treated alike; Nil is a read that failed.    *)
(***************************************************************************)
EXTENDS Integers, FiniteSets

CONSTANTS Width,      \* counters are kept modulo this
          MaxMoved,   \* bound: what a counter moves by in all
          MaxFailed   \* bound: reads that fail

ASSUME KernelAssumption == Width \in Nat \ {0} /\ MaxFailed \in Nat

VARIABLES carrier,    \* "icmp" or "other": t.transport
          kernel,      \* counter |-> all it ever moved by; its reading is that % Width
          inode,      \* d.rawInode is published
          kw,         \* the goroutine's locals: prev, prevDrops, and where it stands
          failed,
          told,       \* counter |-> what the reports said in all
          base, seen, \* for the property: counter |-> what it had moved by at its first
          missed      \* and its last reading; whether a report passed something over

kernelVars == <<carrier, kernel, inode, kw, failed, told, base, seen, missed>>

Nil == -1
Counters == {"block", "drops"}
Reading(c) == kernel[c] % Width

KernelInit ==
  /\ carrier \in {"icmp", "other"}
  /\ kernel \in [Counters -> {0, 1}]
  /\ inode = FALSE /\ failed = 0
  /\ kw = [at |-> "start", block |-> Nil, drops |-> Nil]
  /\ told = [c \in Counters |-> 0] /\ base = [c \in Counters |-> Nil]
  /\ seen = [c \in Counters |-> 0]
  /\ missed = [c \in Counters |-> FALSE]

-----------------------------------------------------------------------------

Drop(c) ==
  /\ kernel[c] < MaxMoved
  /\ kernel' = [kernel EXCEPT ![c] = @ + 1]
  /\ UNCHANGED <<carrier, inode, kw, failed, told, base, seen, missed>>

\* newICMPCarrier, after the observer has been started.
PublishInode ==
  /\ carrier = "icmp" /\ ~inode /\ inode' = TRUE
  /\ UNCHANGED <<carrier, kernel, kw, failed, told, base, seen, missed>>

\* readSNMPBlock and rawSocketDrops: a reading, or none; the socket's needs the inode.
Readings(c) ==
  (IF c = "block" \/ inode THEN {Reading(c)} ELSE {})
  \union (IF (c = "drops" /\ ~inode) \/ failed < MaxFailed THEN {Nil} ELSE {})
Failed(c, v) == IF v = Nil /\ (c = "block" \/ inode) THEN 1 ELSE 0

\* What two readings of a counter say it moved by: nothing if either is missing, and
\* nothing if it went down.
Delta(prev, cur) == IF prev = Nil \/ cur = Nil \/ cur < prev THEN 0 ELSE cur - prev

\* A reading c goes into the account: reported, and remembered as `keep`.
Account(c, v, keep) ==
  /\ kw' = [kw EXCEPT ![c] = keep, !.at = IF c = "block" /\ carrier = "icmp" THEN "drops"
                                          ELSE "block"]
  /\ told' = [told EXCEPT ![c] = @ + Delta(kw[c], v)]
  /\ base' = [base EXCEPT ![c] = IF @ = Nil /\ v # Nil THEN kernel[c] ELSE @]
  /\ seen' = [seen EXCEPT ![c] = IF v # Nil THEN kernel[c] ELSE @]
  /\ missed' = [missed EXCEPT ![c] = @ \/ (kw[c] # Nil /\ v # Nil /\ kernel[c] - seen[c] # v - kw[c])
                                       \/ (carrier = "other" /\ base[c] # Nil /\ keep = Nil)]
  /\ failed' = failed + Failed(c, v)
  /\ UNCHANGED <<carrier, kernel, inode>>

\* kernelWatch: a failed read is remembered as one, and what the counter moves by
\* before the next good one is passed over.
KernelWatch ==
  /\ carrier = "other" /\ kw.at \in {"start", "block"}
  /\ \E v \in Readings("block") : Account("block", v, v)

\* Mutant: a failed read of the block is remembered, as in kernelWatch.
MutantIcmpWatch ==
  /\ carrier = "icmp"
  /\ \/ /\ kw.at \in {"start", "block"}
        /\ \E v \in Readings("block") : Account("block", v, v)
     \/ /\ kw.at = "drops"
        /\ \E v \in Readings("drops") : Account("drops", v, IF v = Nil THEN kw.drops ELSE v)

\* icmpWatch: both of its readings keep the last good value over a failed one.
IcmpWatch ==
  /\ carrier = "icmp"
  /\ \/ /\ kw.at \in {"start", "block"}
        /\ \E v \in Readings("block") : Account("block", v, IF v = Nil THEN kw.block ELSE v)
     \/ /\ kw.at = "drops"
        /\ \E v \in Readings("drops") : Account("drops", v, IF v = Nil THEN kw.drops ELSE v)

KernelNext ==
  \/ \E c \in Counters : Drop(c)
  \/ PublishInode \/ KernelWatch \/ IcmpWatch

-----------------------------------------------------------------------------

\* Type correctness.
KernelTypeOK ==
  /\ \A c \in Counters : /\ kw[c] \in {Nil} \union 0..Width - 1
                         /\ kernel[c] \in 0..MaxMoved + 1 /\ base[c] \in {Nil} \union 0..kernel[c]
  /\ kw.at \in {"start", "block", "drops"} /\ failed \in 0..MaxFailed

\* The reports never invent a drop and, on the ICMP carrier, never lose one to a read
\* that failed: whatever reads fail and whenever the inode is published, what they
\* say in all is what the counter moved by between its first reading and its last;
\* only a counter that wrapped, or kernelWatch after a failed read, says less.
KernelDropsTold ==
  \A c \in Counters :
    base[c] # Nil => /\ told[c] <= seen[c] - base[c]
                     /\ ~missed[c] => told[c] = seen[c] - base[c]
=============================================================================
