----------------------------- MODULE Strangers ------------------------------
(***************************************************************************)
(* The per-source aggregation of the observer (dpilog.go): the receive     *)
(* goroutines count every datagram that is not the peer's under its source *)
(* and class, in a table of at most MaxSources sources; once per window    *)
(* the flush copies the active ones out under the same lock, resets them,  *)
(* forgets the quiet ones, and emits one record each, after the unlock.    *)
(***************************************************************************)
EXTENDS Integers, FiniteSets, FiniteSetsExt

CONSTANTS Sources, Classes,
          MaxSources,    \* rows of the table (2048)
          MaxDatagrams   \* bound: strangers' datagrams

ASSUME StrangersAssumption == MaxSources \in Nat

VARIABLES table,     \* source |-> [classes, pending, quiet]; the rows that exist
          overCap,   \* d.overCap: datagrams of sources the table had no room for
          flushing,  \* what the flush has copied out and not emitted yet
          observed,  \* source |-> class |-> datagrams that found or got a row
          turnedAway,\* datagrams of sources that got none
          reported,  \* source |-> class |-> datagrams the emitted records speak of
          uncounted  \* datagrams in records of the overflow

histories == <<observed, turnedAway, reported, uncounted>>
strangerVars == <<table, overCap, flushing, histories>>

NoCount == [c \in Classes |-> 0]
Plus(f, g) == [c \in Classes |-> f[c] + g[c]]
Came ==
  turnedAway + FoldSet(LAMBDA sc, n : n + observed[sc[1]][sc[2]], 0, Sources \X Classes)

\* out: a source and the counts its record will speak of.
Idle == [over |-> 0, out |-> [s \in {} |-> NoCount]]

StrangersInit ==
  /\ table = [s \in {} |-> [classes |-> NoCount, pending |-> FALSE, quiet |-> FALSE]]
  /\ overCap = 0 /\ flushing = Idle
  /\ observed = [s \in Sources |-> NoCount] /\ reported = [s \in Sources |-> NoCount]
  /\ turnedAway = 0 /\ uncounted = 0

-----------------------------------------------------------------------------

\* observeStranger, which holds the lock throughout.
ObserveStranger(s, c) ==
  /\ Came < MaxDatagrams
  /\ \/ /\ s \notin DOMAIN table /\ Cardinality(DOMAIN table) >= MaxSources
        /\ overCap' = overCap + 1 /\ turnedAway' = turnedAway + 1
        /\ UNCHANGED <<table, observed>>
     \/ /\ s \in DOMAIN table \/ Cardinality(DOMAIN table) < MaxSources
        /\ LET old == IF s \in DOMAIN table THEN table[s].classes ELSE NoCount
               row == [classes |-> [old EXCEPT ![c] = @ + 1],
                       pending |-> TRUE, quiet |-> FALSE]
           IN table' = [t \in DOMAIN table \union {s} |-> IF t = s THEN row ELSE table[t]]
        /\ observed' = [observed EXCEPT ![s][c] = @ + 1]
        /\ UNCHANGED <<overCap, turnedAway>>
  /\ UNCHANGED <<flushing, reported, uncounted>>

\* Ten minutes pass in which the source is not heard.
GoQuiet(s) ==
  /\ s \in DOMAIN table /\ ~table[s].quiet
  /\ table' = [table EXCEPT ![s].quiet = TRUE]
  /\ UNCHANGED <<overCap, flushing, histories>>

\* The locked half of flushSources.
Active == {s \in DOMAIN table : table[s].pending}
Forgotten == {s \in DOMAIN table \ Active : table[s].quiet}

\* Mutant: the rows copied out keep their counts.
MutantFlushTake ==
  /\ flushing = Idle
  /\ flushing' = [over |-> overCap,
                  out |-> [s \in Active |-> table[s].classes]]
  /\ overCap' = 0
  /\ table' = [s \in DOMAIN table \ Forgotten |-> [table[s] EXCEPT !.pending = FALSE]]
  /\ UNCHANGED histories

FlushTake ==
  /\ flushing = Idle
  /\ flushing' = [over |-> overCap,
                  out |-> [s \in Active |-> table[s].classes]]
  /\ overCap' = 0
  /\ table' = [s \in DOMAIN table \ Forgotten |->
                 IF s \in Active
                 THEN [table[s] EXCEPT !.classes = NoCount, !.pending = FALSE]
                 ELSE table[s]]
  /\ UNCHANGED histories

\* The unlocked half: first the overflow's record, then one for every source.
FlushOverflow ==
  /\ flushing.over > 0
  /\ uncounted' = uncounted + flushing.over
  /\ flushing' = [flushing EXCEPT !.over = 0]
  /\ UNCHANGED <<table, overCap, observed, turnedAway, reported>>

FlushRecord ==
  /\ flushing.over = 0
  /\ \E s \in DOMAIN flushing.out :
       /\ reported' = [reported EXCEPT ![s] = Plus(@, flushing.out[s])]
       /\ flushing' = [flushing EXCEPT !.out = [r \in DOMAIN @ \ {s} |-> @[r]]]
  /\ UNCHANGED <<table, overCap, observed, turnedAway, uncounted>>

StrangersNext ==
  \/ \E s \in Sources, c \in Classes : ObserveStranger(s, c)
  \/ \E s \in Sources : GoQuiet(s)
  \/ FlushTake \/ FlushOverflow \/ FlushRecord

-----------------------------------------------------------------------------

\* Type correctness; a table of spoofed sources stays at its limit.
Counts == [Classes -> Nat]
StrangersTypeOK ==
  /\ DOMAIN table \subseteq Sources /\ Cardinality(DOMAIN table) <= MaxSources
  /\ \A s \in DOMAIN table :
       table[s] \in [classes : Counts, pending : BOOLEAN, quiet : BOOLEAN]
  /\ DOMAIN flushing.out \subseteq Sources /\ flushing.over \in Nat
  /\ \A s \in DOMAIN flushing.out : flushing.out[s] \in Counts
  /\ overCap \in Nat /\ uncounted \in Nat /\ turnedAway \in Nat
  /\ observed \in [Sources -> Counts] /\ reported \in [Sources -> Counts]

\* No stranger's datagram is lost from the account or reported twice, in whatever
\* order sources come, go quiet, are forgotten and are flushed: of every source and
\* class, what the records have said, what the flush still holds and what waits in
\* the table is what came, and those the table had no room for are in the overflow's.
InFlush(s, c) == IF s \in DOMAIN flushing.out THEN flushing.out[s][c] ELSE 0
InTable(s, c) == IF s \in DOMAIN table THEN table[s].classes[c] ELSE 0
StrangersCounted ==
  /\ \A s \in Sources, c \in Classes :
       observed[s][c] = reported[s][c] + InFlush(s, c) + InTable(s, c)
  /\ turnedAway = uncounted + overCap + flushing.over
=============================================================================
