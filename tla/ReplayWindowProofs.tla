------------------------- MODULE ReplayWindowProofs -------------------------
(***************************************************************************)
(* The replay window, for every window size, word width and set of         *)
(* sequence numbers.  The one fact everything rests on is that two numbers *)
(* less than Size apart never share a bit (IdxInjective).                  *)
(***************************************************************************)
EXTENDS ReplayWindow, TLAPS

(* newReplayWindow always ends up with a whole, positive number of words.  *)
LEMMA SizeFacts ==
  /\ Size \in Nat \ {0}
  /\ Size % WordBits = 0
  /\ Size \div WordBits \in Nat
  /\ Size = WordBits * (Size \div WordBits)
<1>1. Size \in Nat \ {0} /\ Size % WordBits = 0
  <2>1. CASE Requested % WordBits # 0
    <3> DEFINE q == (Requested \div WordBits) + 1
    <3>1. q \in Nat \ {0} /\ Size = q * WordBits
      BY <2>1, WindowAssumption DEF Size, RoundUp
    <3>2. QED
      BY <3>1, WindowAssumption
  <2>2. CASE Requested % WordBits = 0
    BY <2>2, WindowAssumption DEF Size, RoundUp
  <2>3. QED
    BY <2>1, <2>2
<1>2. QED
  BY <1>1, WindowAssumption

(* A sequence number's bit is one the bitmap has: idx never indexes past   *)
(* the last word.                                                          *)
LEMMA IdxInRange ==
  ASSUME NEW s \in Nat
  PROVE  Idx(s) \in Words \X Offsets
<1> DEFINE r == s % Size
           w == r \div WordBits
           n == Size \div WordBits
<1>1. r \in 0 .. Size - 1
  BY SizeFacts
<1>2. w \in Nat /\ r % WordBits \in Offsets /\ r = (WordBits * w) + (r % WordBits)
  <2> HIDE DEF r
  <2> QED
    BY <1>1, SizeFacts, WindowAssumption DEF Offsets
<1>3. w < n
  <2>1. SUFFICES ASSUME w >= n PROVE FALSE
    BY <1>2, SizeFacts
  <2>2. WordBits * w >= WordBits * n
    <3> HIDE DEF w, n, r
    <3>1. n \in Nat
      BY SizeFacts DEF n
    <3>2. QED
      BY <2>1, <1>2, <3>1, WindowAssumption
  <2>3. QED
    BY <1>1, <1>2, <2>2, SizeFacts, WindowAssumption DEF Offsets
<1>4. QED
  BY <1>2, <1>3, SizeFacts DEF Idx, Words

(* Two numbers less than Size apart never share a bit.                     *)
LEMMA IdxInjective ==
  ASSUME NEW a \in Nat, NEW b \in Nat, a <= b, b - a < Size, Idx(a) = Idx(b)
  PROVE  a = b
<1>1. a % Size = b % Size
  <2> DEFINE x == a % Size
             y == b % Size
  <2>1. x \in Nat /\ y \in Nat
    BY SizeFacts
  <2>2. x \div WordBits = y \div WordBits /\ x % WordBits = y % WordBits
    BY DEF Idx
  <2>3. QED
    <3> HIDE DEF x, y
    <3>1. x = (WordBits * (x \div WordBits)) + (x % WordBits)
      BY <2>1, WindowAssumption
    <3>2. y = (WordBits * (y \div WordBits)) + (y % WordBits)
      BY <2>1, WindowAssumption
    <3>3. x = y
      BY <3>1, <3>2, <2>2
    <3>4. QED
      BY <3>3 DEF x, y
<1> DEFINE p == a \div Size
           q == b \div Size
<1>2. p \in Int /\ q \in Int
  BY SizeFacts
<1>3. a = (Size * p) + (a % Size) /\ b = (Size * q) + (b % Size)
  BY SizeFacts
<1>4. b - a = Size * (q - p)
  <2> HIDE DEF p, q
  <2> QED
    BY <1>1, <1>2, <1>3, SizeFacts
<1>5. q = p
  <2> HIDE DEF p, q
  <2>1. q - p \in Int
    BY <1>2
  <2>2. q - p >= 1 => Size * (q - p) >= Size
    BY <2>1, SizeFacts
  <2>3. q - p <= -1 => Size * (q - p) <= -Size
    BY <2>1, SizeFacts
  <2>4. QED
    BY <1>2, <1>4, <2>1, <2>2, <2>3, SizeFacts
<1>6. QED
  <2> HIDE DEF p, q
  <2> QED
    BY <1>1, <1>3, <1>5

-----------------------------------------------------------------------------
(* Setting one more number's bit leaves the others in its window alone.    *)
LEMMA NeighboursApart ==
  ASSUME NEW s \in Seqs, NEW seq \in Seqs, s # seq,
         s - seq < Size, seq - s < Size
  PROVE  Idx(s) # Idx(seq)
<1>1. s \in Nat /\ seq \in Nat
  BY WindowAssumption
<1>2. CASE s <= seq
  BY <1>1, <1>2, IdxInjective
<1>3. CASE seq <= s
  BY <1>1, <1>3, IdxInjective
<1>4. QED
  BY <1>1, <1>2, <1>3

(* After a jump to seq the bitmap says exactly what it should of every     *)
(* number in the window that now ends at seq.                              *)
LEMMA AdvancedExact ==
  ASSUME WindowInv, NEW seq \in Seqs, init, Ahead(seq),
         NEW s \in Seqs, s # 0, s <= seq, seq - s < Size
  PROVE  Idx(s) \in Advanced(seq) <=> s = seq \/ delivered[s] # 0
<1>1. s \in Nat /\ seq \in Nat /\ last \in Nat /\ Size \in Nat \ {0}
  BY WindowAssumption, SizeFacts DEF WindowInv, WindowTypeOK
<1>2. s # seq => Idx(s) # Idx(seq)
  BY <1>1, NeighboursApart
<1>3. s > last => delivered[s] = 0
  BY <1>1 DEF WindowInv, NewestIsLast, WindowTypeOK
<1>4. CASE s = seq
  BY <1>4 DEF Advanced
<1>5. CASE s # seq /\ seq - last >= Size
  BY <1>1, <1>2, <1>3, <1>5 DEF Advanced
<1>6. CASE s # seq /\ seq - last < Size /\ s > last
  <2>1. Idx(s) \in Skipped(seq)
    BY <1>1, <1>6 DEF Skipped
  <2>2. QED
    BY <1>2, <1>3, <1>6, <2>1 DEF Advanced
<1>7. CASE s # seq /\ seq - last < Size /\ s <= last
  <2>1. ASSUME NEW r \in last + 1 .. seq - 1
        PROVE  Idx(r) # Idx(s)
    BY <1>1, <1>7, IdxInjective
  <2>2. Idx(s) \notin Skipped(seq)
    BY <2>1 DEF Skipped
  <2>3. Idx(s) \in bits <=> delivered[s] # 0
    BY <1>1, <1>7 DEF WindowInv, WindowExact, Get, Ahead
  <2>4. QED
    BY <1>1, <1>2, <1>7, <2>2, <2>3 DEF Advanced
<1>8. QED
  BY <1>1, <1>4, <1>5, <1>6, <1>7

LEMMA AdvancedInRange ==
  ASSUME WindowInv, NEW seq \in Seqs
  PROVE  Advanced(seq) \subseteq Words \X Offsets
<1>1. Idx(seq) \in Words \X Offsets
  BY IdxInRange, WindowAssumption
<1>2. QED
  BY <1>1 DEF Advanced, WindowInv, WindowTypeOK

LEMMA InitEstablishesInv == WindowInit => WindowInv
<1> SUFFICES ASSUME WindowInit PROVE WindowInv
  OBVIOUS
<1>1. WindowTypeOK
  BY DEF WindowInit, WindowTypeOK
<1>2. AtMostOnce /\ NewestIsLast
  BY WindowAssumption DEF WindowInit, AtMostOnce, NewestIsLast
<1>3. WindowExact
  BY WindowAssumption DEF WindowInit, WindowExact
<1>4. QED
  BY <1>1, <1>2, <1>3 DEF WindowInv

(* What check does when it accepts a number, whichever branch it took: the *)
(* number is counted, and the window ends at the new newest number.        *)
LEMMA AcceptKeepsInv ==
  ASSUME WindowInv, NEW seq \in Seqs, seq # 0, delivered[seq] = 0,
         Accept(seq), init' = TRUE,
         last' = IF seq > last THEN seq ELSE last,
         bits' \subseteq Words \X Offsets,
         \A s \in Seqs : (s # 0 /\ s <= last' /\ last' - s < Size) =>
                           (Idx(s) \in bits' <=> s = seq \/ delivered[s] # 0)
  PROVE  WindowInv'
<1>1. seq \in Nat \ {0} /\ last \in Nat /\ delivered \in [Seqs -> Nat]
  BY WindowAssumption DEF WindowInv, WindowTypeOK
<1>2. last' \in Nat \ {0} /\ seq <= last' /\ last <= last'
  BY <1>1
<1>3. /\ delivered' \in [Seqs -> Nat]
      /\ delivered'[seq] = 1
      /\ \A s \in Seqs : s # seq => delivered'[s] = delivered[s]
  BY <1>1 DEF Accept
<1>4. WindowTypeOK'
  BY <1>2, <1>3 DEF WindowTypeOK, Accept, Replies, Verdict
<1>5. AtMostOnce'
  BY <1>3 DEF AtMostOnce, WindowInv
<1>6. NewestIsLast'
  <2>1. last' \in Seqs /\ delivered'[last'] # 0
    BY <1>1, <1>3 DEF WindowInv, NewestIsLast
  <2>2. \A s \in Seqs : delivered'[s] # 0 => s \in 1 .. last'
    BY <1>1, <1>2, <1>3 DEF WindowInv, NewestIsLast
  <2>3. QED
    BY <1>2, <2>1, <2>2 DEF NewestIsLast
<1>7. WindowExact'
  BY <1>3 DEF WindowExact, Get
<1>8. QED
  BY <1>4, <1>5, <1>6, <1>7 DEF WindowInv

(* The number each accepting branch takes has not been delivered before.   *)
LEMMA AcceptedIsNew ==
  ASSUME WindowInv, NEW seq \in Seqs,
         CheckFirst(seq) \/ CheckAhead(seq) \/ CheckLate(seq)
  PROVE  delivered[seq] = 0
<1>1. seq \in Nat /\ last \in Nat
  BY WindowAssumption DEF WindowInv, WindowTypeOK
<1>2. CASE CheckFirst(seq) \/ CheckAhead(seq)
  BY <1>1, <1>2 DEF CheckFirst, CheckAhead, Ahead, WindowInv, NewestIsLast, WindowTypeOK
<1>3. CASE CheckLate(seq)
  BY <1>1, <1>3, SizeFacts
     DEF CheckLate, Ahead, TooOld, WindowInv, WindowExact
<1>4. QED
  BY <1>2, <1>3

(* One call of check or fresh keeps the invariant.                         *)
LEMMA StepKeepsInv == WindowInv /\ [WindowNext]_windowVars => WindowInv'
<1> SUFFICES ASSUME WindowInv, [WindowNext]_windowVars PROVE WindowInv'
  OBVIOUS
<1>0. Size \in Nat \ {0} /\ last \in Nat
  BY SizeFacts DEF WindowInv, WindowTypeOK
<1>1. CASE UNCHANGED windowVars
  BY <1>1 DEF windowVars, WindowInv, WindowTypeOK, AtMostOnce, NewestIsLast, WindowExact, Get
<1>2. ASSUME NEW seq \in Seqs, NEW ok \in BOOLEAN, NEW op \in {"check", "fresh"},
             Replies(op, seq, ok), UNCHANGED <<bits, last, init, delivered>>
      PROVE  WindowInv'
  BY <1>2 DEF Replies, Verdict, WindowInv, WindowTypeOK, AtMostOnce, NewestIsLast,
              WindowExact, Get
<1>3. ASSUME NEW seq \in Seqs, Refuse(seq)
      PROVE  WindowInv'
  BY <1>2, <1>3 DEF Refuse
<1>4. ASSUME NEW seq \in Seqs, Fresh(seq)
      PROVE  WindowInv'
  <2>1. WouldAccept(seq) \in BOOLEAN
    BY DEF WouldAccept, Ahead, TooOld, Get
  <2>2. QED
    BY <1>2, <1>4, <2>1 DEF Fresh
<1>5. ASSUME NEW seq \in Seqs, CheckFirst(seq)
      PROVE  WindowInv'
  <2>1. seq \in Nat /\ delivered[seq] = 0 /\ last = 0 /\ bits = {}
    BY <1>5, AcceptedIsNew, WindowAssumption DEF CheckFirst, WindowInv, NewestIsLast
  <2>2. bits' = {Idx(seq)} /\ last' = seq /\ seq # 0
    BY <1>5, <2>1 DEF CheckFirst
  <2>3. \A s \in Seqs : delivered[s] = 0
    BY <2>1, WindowAssumption DEF WindowInv, NewestIsLast, WindowTypeOK
  <2>4. ASSUME NEW s \in Seqs, s <= seq, seq - s < Size, s # seq
        PROVE  Idx(s) # Idx(seq)
    BY <1>0, <2>1, <2>4, NeighboursApart, WindowAssumption
  <2>5. QED
    BY <1>0, <1>5, <2>1, <2>2, <2>3, <2>4, AcceptKeepsInv, IdxInRange DEF CheckFirst
<1>6. ASSUME NEW seq \in Seqs, CheckAhead(seq)
      PROVE  WindowInv'
  BY <1>0, <1>6, AcceptKeepsInv, AcceptedIsNew, AdvancedExact, AdvancedInRange
     DEF CheckAhead, Ahead
<1>7. ASSUME NEW seq \in Seqs, CheckLate(seq)
      PROVE  WindowInv'
  <2>1. seq \in Nat /\ delivered[seq] = 0 /\ seq <= last /\ last - seq < Size
    BY <1>0, <1>7, AcceptedIsNew, WindowAssumption DEF CheckLate, Ahead, TooOld
  <2>2. bits' = bits \cup {Idx(seq)} /\ bits' \subseteq Words \X Offsets
    BY <1>7, <2>1, IdxInRange DEF CheckLate, WindowInv, WindowTypeOK
  <2>3. ASSUME NEW s \in Seqs, s # 0, s <= last, last - s < Size
        PROVE  Idx(s) \in bits' <=> s = seq \/ delivered[s] # 0
    <3>1. Idx(s) \in bits <=> delivered[s] # 0
      BY <2>3 DEF WindowInv, WindowExact, Get
    <3>2. s # seq => Idx(s) # Idx(seq)
      BY <1>0, <2>1, <2>3, NeighboursApart, WindowAssumption
    <3>3. QED
      BY <2>2, <3>1, <3>2
  <2>4. last' = IF seq > last THEN seq ELSE last
    BY <1>0, <1>7, <2>1 DEF CheckLate
  <2>5. last' = last /\ init' = TRUE /\ seq # 0 /\ Accept(seq)
    BY <1>7 DEF CheckLate
  <2>6. QED
    BY <2>1, <2>2, <2>3, <2>4, <2>5, AcceptKeepsInv
<1>8. QED
  BY <1>1, <1>3, <1>4, <1>5, <1>6, <1>7 DEF WindowNext, Check, CheckZero, CheckStale

(* The window's state is always well formed: no bit index is ever outside  *)
(* the bitmap that newReplayWindow allocated.                              *)
THEOREM WindowTyped == WindowSpec => []WindowTypeOK
<1>1. WindowInv => WindowTypeOK
  BY DEF WindowInv
<1>2. QED
  BY InitEstablishesInv, StepKeepsInv, <1>1, PTL DEF WindowSpec

(* The bitmap is exact over the window, whatever the window's size.        *)
THEOREM WindowIsExact == WindowSpec => []WindowExact
<1>1. WindowInv => WindowExact
  BY DEF WindowInv
<1>2. QED
  BY InitEstablishesInv, StepKeepsInv, <1>1, PTL DEF WindowSpec

(* No sequence number is delivered twice.                                  *)
THEOREM DeliveredAtMostOnce == WindowSpec => []AtMostOnce
<1>1. WindowInv => AtMostOnce
  BY DEF WindowInv
<1>2. QED
  BY InitEstablishesInv, StepKeepsInv, <1>1, PTL DEF WindowSpec

-----------------------------------------------------------------------------
(* On every state the invariant allows, the bitmap's answer is the         *)
(* promise's answer.                                                       *)
LEMMA AnswersAgree ==
  ASSUME WindowInv, NEW seq \in Seqs
  PROVE  WouldAccept(seq) = Promise!Deliverable(seq)
<1>1. seq \in Nat /\ last \in Nat /\ Size \in Nat \ {0} /\ delivered[seq] \in Nat
  BY WindowAssumption, SizeFacts DEF WindowInv, WindowTypeOK
<1>2. CASE ~init
  BY <1>1, <1>2 DEF WouldAccept, Promise!Deliverable, WindowInv, NewestIsLast
<1>3. CASE init /\ Ahead(seq)
  BY <1>1, <1>3 DEF WouldAccept, Promise!Deliverable, Ahead, WindowInv, NewestIsLast
<1>4. CASE init /\ ~Ahead(seq)
  BY <1>1, <1>4
     DEF WouldAccept, Promise!Deliverable, Ahead, TooOld, WindowInv, WindowExact
<1>5. QED
  BY <1>2, <1>3, <1>4 DEF WindowInv, WindowTypeOK

(* Every answer of the bitmap is the one the abstract promise gives.       *)
THEOREM WindowKeepsPromise == WindowSpec => KeepsPromise
<1>1. WindowInit => Promise!Init
  BY DEF WindowInit, Promise!Init, Verdict, Promise!Verdict
<1>2. ASSUME WindowInv, [WindowNext]_windowVars
      PROVE  [Promise!Next]_(Promise!vars)
  <2>1. CASE UNCHANGED windowVars
    BY <2>1 DEF windowVars, Promise!vars
  <2>2. ASSUME NEW seq \in Seqs, Fresh(seq)
        PROVE  Promise!Query(seq)
    BY <1>2, <2>2, AnswersAgree DEF Fresh, Replies, Promise!Query, Promise!Answer
  <2>3. ASSUME NEW seq \in Seqs, CheckZero(seq) \/ CheckStale(seq)
        PROVE  Promise!Check(seq)
    <3>1. ~WouldAccept(seq)
      BY <2>3 DEF CheckZero, CheckStale, WouldAccept
    <3>2. Promise!Deliverable(seq) = FALSE
      BY <1>2, <3>1, AnswersAgree DEF Promise!Deliverable
    <3>3. QED
      BY <2>3, <3>2
         DEF CheckZero, CheckStale, Refuse, Replies, Promise!Check, Promise!Answer
  <2>4. ASSUME NEW seq \in Seqs, CheckFirst(seq) \/ CheckAhead(seq) \/ CheckLate(seq)
        PROVE  Promise!Check(seq)
    <3>1. WouldAccept(seq)
      BY <2>4 DEF CheckFirst, CheckAhead, CheckLate, WouldAccept
    <3>2. Promise!Deliverable(seq) = TRUE
      BY <1>2, <3>1, AnswersAgree DEF Promise!Deliverable
    <3>3. last' = IF seq > last THEN seq ELSE last
      <4>1. seq \in Nat /\ last \in Nat /\ (~init => last = 0)
        BY <1>2, WindowAssumption DEF WindowInv, WindowTypeOK, NewestIsLast
      <4>2. QED
        BY <2>4, <4>1 DEF CheckFirst, CheckAhead, CheckLate, Ahead
    <3>4. QED
      BY <2>4, <3>2, <3>3
         DEF CheckFirst, CheckAhead, CheckLate, Accept, Replies,
             Promise!Check, Promise!Answer
  <2>5. QED
    BY <1>2, <2>1, <2>2, <2>3, <2>4 DEF WindowNext, Check, Promise!Next
<1>3. QED
  BY <1>1, <1>2, InitEstablishesInv, StepKeepsInv, PTL
     DEF WindowSpec, KeepsPromise, Promise!Spec
=============================================================================
