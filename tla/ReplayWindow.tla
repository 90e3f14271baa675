---------------------------- MODULE ReplayWindow ----------------------------
(***************************************************************************)
(* The anti-replay window of a tunnel end (tunnel.go, type replayWindow):  *)
(* a circular bitmap of Size bits kept in words, the newest sequence       *)
(* number seen, and a flag for "nothing seen yet".  Every method but the   *)
(* test for zero runs under the window's mutex, so one call is one step.   *)
(*                                                                         *)
(* A uint64 never wraps here: the only subtraction in the code is          *)
(* larger - smaller, and last + 1 is computed only when something larger   *)
(* than last has arrived.                                                  *)
(***************************************************************************)
EXTENDS Integers

CONSTANTS
  Seqs,         \* the sequence numbers that may arrive
  Requested,    \* the size asked of newReplayWindow
  WordBits,     \* bits in one word of the bitmap (64 in the code)
  DefaultSize   \* the size used when none is asked for (4096 in the code)

ASSUME WindowAssumption ==
  /\ Seqs \subseteq Nat
  /\ Requested \in Nat
  /\ WordBits \in Nat \ {0}
  /\ DefaultSize \in Nat \ {0}
  /\ DefaultSize % WordBits = 0

VARIABLES
  bits,       \* the set bits of the bitmap, each <<word, bit>>
  last,       \* the newest sequence number accepted
  init,       \* whether anything has been accepted
  delivered,  \* history: how many times each number has been accepted
  verdict     \* history: the last question asked and its answer

windowVars == <<bits, last, init, delivered, verdict>>

-----------------------------------------------------------------------------
(* newReplayWindow rounds the size it is asked for up to whole words.      *)

MutantRoundUp(n) == IF n = 0 THEN DefaultSize ELSE n   \* no rounding

RoundUp(n) ==
  IF n % WordBits # 0 THEN ((n \div WordBits) + 1) * WordBits
  ELSE IF n = 0 THEN DefaultSize
  ELSE n

Size == RoundUp(Requested)

Words   == 0 .. (Size \div WordBits) - 1
Offsets == 0 .. WordBits - 1

\* Where a sequence number's bit lives.
Idx(seq) == <<(seq % Size) \div WordBits, (seq % Size) % WordBits>>

Get(seq) == Idx(seq) \in bits

Ahead(seq)  == seq > last
TooOld(seq) == last - seq >= Size

\* The bits of the numbers a jump from `last` to seq skips over.
MutantSkipped(seq) == {Idx(s) : s \in last + 1 .. seq - 2}   \* one short

Skipped(seq) == {Idx(s) : s \in last + 1 .. seq - 1}

\* The bitmap after a jump forward to seq.
MutantAdvanced(seq) == {Idx(seq)}   \* every jump wipes the window

Advanced(seq) ==
  IF seq - last >= Size THEN {Idx(seq)} ELSE (bits \ Skipped(seq)) \cup {Idx(seq)}

-----------------------------------------------------------------------------
Verdict == [op : {"check", "fresh"}, seq : Seqs, ok : BOOLEAN]

Replies(op, seq, ok) == verdict' = [op |-> op, seq |-> seq, ok |-> ok]

Accept(seq) ==
  /\ delivered' = [delivered EXCEPT ![seq] = @ + 1]
  /\ Replies("check", seq, TRUE)

Refuse(seq) ==
  /\ Replies("check", seq, FALSE)
  /\ UNCHANGED <<bits, last, init, delivered>>

WindowInit ==
  /\ bits = {}
  /\ last = 0
  /\ init = FALSE
  /\ delivered = [s \in Seqs |-> 0]
  /\ verdict \in Verdict

\* check: a number no packet carries.
CheckZero(seq) == seq = 0 /\ Refuse(seq)

\* check: the first number ever opens the window where it stands.
CheckFirst(seq) ==
  /\ seq # 0
  /\ ~init
  /\ init' = TRUE
  /\ last' = seq
  /\ bits' = bits \cup {Idx(seq)}
  /\ Accept(seq)

\* check: a number beyond the newest moves the window up to it.
CheckAhead(seq) ==
  /\ seq # 0 /\ init /\ Ahead(seq)
  /\ bits' = Advanced(seq)
  /\ last' = seq
  /\ Accept(seq)
  /\ UNCHANGED init

\* check: a late number inside the window is accepted once.
CheckLate(seq) ==
  /\ seq # 0 /\ init /\ ~Ahead(seq)
  /\ ~TooOld(seq)
  /\ ~Get(seq)
  /\ bits' = bits \cup {Idx(seq)}
  /\ Accept(seq)
  /\ UNCHANGED <<last, init>>

\* check: too old, or already seen.
CheckStale(seq) ==
  /\ seq # 0 /\ init /\ ~Ahead(seq)
  /\ TooOld(seq) \/ Get(seq)
  /\ Refuse(seq)

Check(seq) ==
  \/ CheckZero(seq)
  \/ CheckFirst(seq)
  \/ CheckAhead(seq)
  \/ CheckLate(seq)
  \/ CheckStale(seq)

\* fresh's answer.
MutantWouldAccept(seq) == seq # 0 /\ (~init \/ Ahead(seq) \/ ~TooOld(seq))   \* no Get

WouldAccept(seq) ==
  /\ seq # 0
  /\ \/ ~init
     \/ Ahead(seq)
     \/ ~TooOld(seq) /\ ~Get(seq)

\* fresh: the question without the record.
Fresh(seq) ==
  /\ Replies("fresh", seq, WouldAccept(seq))
  /\ UNCHANGED <<bits, last, init, delivered>>

WindowNext == \E seq \in Seqs : Check(seq) \/ Fresh(seq)

WindowSpec == WindowInit /\ [][WindowNext]_windowVars

-----------------------------------------------------------------------------
WindowTypeOK ==
  /\ bits \subseteq Words \X Offsets
  /\ last \in Nat
  /\ init \in BOOLEAN
  /\ delivered \in [Seqs -> Nat]
  /\ verdict \in Verdict

(* No sequence number is delivered twice, however the numbers are ordered, *)
(* repeated, or spaced apart (replayWindow.check).                         *)
AtMostOnce == \A s \in Seqs : delivered[s] <= 1

(* `last` is the newest number delivered: nothing is delivered beyond it,  *)
(* it was itself delivered, and `init` tells the window that has one from  *)
(* the window that is still empty (the three fields check keeps in step).  *)
NewestIsLast ==
  /\ init <=> last # 0
  /\ ~init => bits = {}
  /\ init => last \in Seqs /\ delivered[last] # 0
  /\ \A s \in Seqs : delivered[s] # 0 => s \in 1 .. last

(* The bitmap is exact over the window it covers: for each of the Size     *)
(* numbers up to the newest, the bit is set if and only if that number has *)
(* been delivered, although every bit is shared with all the numbers that  *)
(* agree with it modulo Size.                                              *)
WindowExact ==
  \A s \in Seqs :
    (s # 0 /\ s <= last /\ last - s < Size) => (Get(s) <=> delivered[s] # 0)

\* Together the inductive invariant behind AtMostOnce.
WindowInv == WindowTypeOK /\ AtMostOnce /\ NewestIsLast /\ WindowExact

(* The bitmap keeps the promise of AntiReplay: each answer of check and of *)
(* fresh is the one the promise gives, so a late packet inside the window  *)
(* is never refused for somebody else's bit, and fresh never disagrees     *)
(* with the check that would follow it (authentic, then openSeq).          *)
Promise == INSTANCE AntiReplay WITH newest <- last

KeepsPromise == Promise!Spec
=============================================================================
