---------------------------- MODULE ReplyRules ----------------------------
(***************************************************************************)
(* The firewall rules that keep the kernel from answering the peer's data  *)
(* pings (icmp.go): installed with iptables or else nft, one rule for each *)
(* identifier or else one for everything, taken down by the signal handler.*)
(* Rules outlive the process, so runs follow one another here, and a kill, *)
(* a signal before the handler is registered or a fatal error may end one  *)
(* between any two commands; and any command may fail.  A rule is the      *)
(* identifier it matches, or All.  The state is how many copies of it the  *)
(* kernel's OUTPUT chain, or the nft table, holds; in what order the       *)
(* commands of one loop run plays no part.                                 *)
(***************************************************************************)
EXTENDS Naturals

CONSTANTS Pools,      \* identifier sets of the configurations; {} suppresses nothing
          All,        \* the rule that drops every echo reply to the peer
          MaxRuns,    \* bound: starts of the process
          MaxFaults   \* bound: commands that fail

Tools == {"iptables", "nft"}
Rule == {All} \union UNION Pools

VARIABLES rules,      \* tool |-> rule |-> copies in the kernel
          installed,  \* tools found in PATH
          proc,       \* at: where the process stands; tool and pool it works with
          todo,       \* rules still to be added, or to be removed
          done,       \* applyIPTables' done
          undo,       \* what c.suppress removes; {} if it is nil, {All} once that is tried
          starts, faults,
          found,      \* history: the rules when the run began, or as a dead one left them
          stuck       \* history: copies whose removal failed in this run

ruleVars == <<rules, installed, proc, todo, done, undo, starts, faults, found, stuck>>

Nowhere == [at |-> "down", tool |-> "none", pool |-> {}]
NoRules == [r \in Rule |-> 0]

RulesInit ==
  /\ rules = [t \in Tools |-> NoRules] /\ found = rules /\ stuck = rules
  /\ installed \in SUBSET Tools
  /\ proc = Nowhere /\ todo = {} /\ done = {} /\ undo = {} /\ starts = 0 /\ faults = 0

Enter(t, at) == proc' = [proc EXCEPT !.tool = t, !.at = at]
Present(t) == {r \in Rule : rules[t][r] > 0}
\* iptables -A, or nft add rule: one copy more.
Put(r) == rules' = [rules EXCEPT ![proc.tool][r] = @ + 1]
Fault == faults < MaxFaults /\ faults' = faults + 1

\* nft delete table or flush chain: all of it goes, or the command fails and all stays.
Emptied == rules' = [rules EXCEPT !["nft"] = NoRules] /\ UNCHANGED faults
StaysFull == Fault /\ UNCHANGED rules

-----------------------------------------------------------------------------

\* A run begins, with a pool that an earlier one may not have had; with no peer
\* configured, or suppression off, it is up at once.
Start(pool) ==
  /\ proc.at = "down" /\ starts < MaxRuns /\ starts' = starts + 1
  /\ done' = {} /\ undo' = {}
  /\ \/ /\ pool = {} \/ installed = {}
        /\ proc' = [at |-> "ready", tool |-> "none", pool |-> pool] /\ todo' = {}
     \/ /\ pool # {} /\ "iptables" \in installed
        /\ proc' = [at |-> "add", tool |-> "iptables", pool |-> pool] /\ todo' = pool
     \/ /\ pool # {} /\ installed = {"nft"}
        /\ proc' = [at |-> "clear", tool |-> "nft", pool |-> pool] /\ todo' = pool
  /\ found' = rules /\ stuck' = [t \in Tools |-> NoRules]
  /\ UNCHANGED <<rules, installed, faults>>

\* Mutant: a failure leaves the rules that did go in.
MutantAddFails ==
  /\ Fault /\ Enter("iptables", "rollback") /\ todo' = {}
  /\ UNCHANGED <<rules, done>>

\* A failure takes back what did go in.
AddFails ==
  /\ Fault /\ Enter("iptables", "rollback") /\ todo' = done
  /\ UNCHANGED <<rules, done>>

\* iptables -C and -A of one rule.  One that is there counts as installed and is not put
\* on the list of those to take back; but the check may fail, and it goes in again.
Ensure(r) ==
  /\ todo' = todo \ {r} /\ Enter("iptables", "add")
  /\ \/ rules["iptables"][r] > 0 /\ UNCHANGED <<rules, done, faults>>
     \/ /\ Put(r) /\ done' = done \union {r}
        /\ IF rules["iptables"][r] > 0 THEN Fault ELSE UNCHANGED faults

\* applyIPTables.
AddRule ==
  /\ proc.at = "add" /\ proc.tool = "iptables"
  /\ todo # {} /\ (AddFails \/ \E r \in todo : Ensure(r))
  /\ UNCHANGED <<installed, undo, starts, found, stuck>>

\* iptables -D of one rule takes one copy away; when it fails, because there is none or
\* otherwise, a warning is all that happens.
TakenBack(r) ==
  LET there == rules["iptables"][r] > 0
  IN  /\ todo' = todo \ {r}
      /\ \/ ~there /\ UNCHANGED <<rules, faults, stuck>>
         \/ /\ there /\ rules' = [rules EXCEPT !["iptables"][r] = @ - 1]
            /\ UNCHANGED <<faults, stuck>>
         \/ /\ there /\ Fault /\ UNCHANGED rules
            /\ stuck' = [stuck EXCEPT !["iptables"][r] = @ + 1]

Rollback ==
  /\ proc.at = "rollback" /\ \E r \in todo : TakenBack(r)
  /\ UNCHANGED <<installed, proc, done, undo, starts, found>>

\* The rules for single identifiers did not go in: the catch-all is tried, then nft.
RolledBack ==
  /\ proc.at = "rollback" /\ todo = {} /\ done' = {}
  /\ \/ /\ undo = {} /\ Enter("iptables", "add")
        /\ todo' = {All} /\ undo' = {All}
     \/ /\ undo = {All} /\ undo' = {}
        /\ IF "nft" \in installed THEN Enter("nft", "clear") /\ todo' = proc.pool
                                  ELSE Enter("none", "ready") /\ todo' = {}
  /\ UNCHANGED <<rules, installed, starts, faults, found, stuck>>

\* suppressNFT: the table a previous run left is deleted, whether that works or not,
ClearTable ==
  /\ proc.at = "clear" /\ Enter("nft", "make")
  /\ Emptied \/ StaysFull
  /\ UNCHANGED <<installed, todo, done, undo, starts, found, stuck>>
\* and made anew.  Without a table nothing is suppressed; without a chain, neither, and
\* the table goes.
MakeTable ==
  /\ proc.at = "make"
  /\ \/ Enter("nft", "add") /\ UNCHANGED <<todo, faults>>
     \/ Fault /\ Enter("none", "ready") /\ todo' = {}
     \/ Fault /\ Enter("nft", "drop") /\ UNCHANGED todo
  /\ UNCHANGED <<rules, installed, done, undo, starts, found, stuck>>
\* A rule that fails makes way for the catch-all; that one failing, the table goes.
AddToTable ==
  /\ proc.at = "add" /\ proc.tool = "nft"
  /\ \E r \in todo :
       \/ Put(r) /\ todo' = todo \ {r} /\ UNCHANGED <<proc, faults>>
       \/ /\ Fault /\ UNCHANGED rules
          /\ IF r = All THEN Enter("nft", "drop") /\ UNCHANGED todo
                        ELSE Enter("nft", "flush") /\ todo' = {All}
  /\ UNCHANGED <<installed, done, undo, starts, found, stuck>>
\* The chain is emptied for the catch-all, or not, and that is tried all the same.
FlushChain ==
  /\ proc.at = "flush" /\ Enter("nft", "add")
  /\ Emptied \/ StaysFull
  /\ UNCHANGED <<installed, todo, done, undo, starts, found, stuck>>

\* The whole table is deleted, or stays as it is.
TableGoes ==
  \/ Emptied /\ UNCHANGED stuck
  \/ StaysFull /\ stuck' = [stuck EXCEPT !["nft"] = rules["nft"]]
DropTable ==
  /\ proc.at = "drop" /\ Enter("none", "ready") /\ todo' = {}
  /\ TableGoes
  /\ UNCHANGED <<installed, done, undo, starts, found>>

\* suppressReplies returns the undo: the specs asked for, those found there included;
\* for nft, the table with all that is in it.
UndoReady ==
  /\ proc.at = "add" /\ todo = {}
  /\ undo' = IF proc.tool = "nft" THEN Present("nft")
             ELSE IF undo = {} THEN proc.pool ELSE undo
  /\ Enter(proc.tool, "ready") /\ done' = {}
  /\ UNCHANGED <<rules, installed, todo, starts, faults, found, stuck>>

\* stopOnSignal registers the handler only now.
HandlerSet ==
  /\ proc.at = "ready" /\ Enter(proc.tool, "up")
  /\ UNCHANGED <<rules, installed, todo, done, undo, starts, faults, found, stuck>>

\* SIGTERM or SIGINT: Close, which only the first call gets past, undoes and exits.
Signalled ==
  /\ proc.at = "up" /\ Enter(proc.tool, "stop") /\ todo' = undo
  /\ UNCHANGED <<rules, installed, done, undo, starts, faults, found, stuck>>
Undo ==
  /\ proc.at = "stop" /\ todo # {}
  /\ \/ proc.tool = "iptables" /\ \E r \in todo : TakenBack(r)
     \/ proc.tool = "nft" /\ todo' = {} /\ TableGoes
  /\ UNCHANGED <<installed, proc, done, undo, starts, found>>
Exited ==
  /\ proc.at = "stop" /\ todo = {} /\ proc' = Nowhere /\ undo' = {}
  /\ UNCHANGED <<rules, installed, todo, done, starts, faults, found, stuck>>

\* A kill, a signal before the handler is registered, a log.Fatalf anywhere.
Died ==
  /\ proc.at # "down" /\ proc' = Nowhere
  /\ todo' = {} /\ done' = {} /\ undo' = {}
  /\ found' = rules /\ stuck' = [t \in Tools |-> NoRules]
  /\ UNCHANGED <<rules, installed, starts, faults>>

RulesNext ==
  \/ \E pool \in Pools : Start(pool)
  \/ AddRule \/ Rollback \/ RolledBack
  \/ ClearTable \/ MakeTable \/ AddToTable \/ FlushChain \/ DropTable
  \/ UndoReady \/ HandlerSet \/ Signalled \/ Undo \/ Exited \/ Died

-----------------------------------------------------------------------------

\* How many copies of r the run still has to take away, going by the list that its place
\* says it will work through next: one of each rule, or the whole table.
Owes(t, r) ==
  LET list == CASE proc.at = "add" -> done
                [] proc.at \in {"rollback", "stop"} -> todo
                [] OTHER -> undo
      table == proc.at \in {"add", "flush", "drop"} \/ list # {}
  IN  IF proc.tool # t THEN 0
      ELSE IF t = "nft" THEN IF table THEN rules["nft"][r] ELSE 0
      ELSE IF r \in list THEN 1 ELSE 0

(* No copy of a rule is lost track of: of each there are no more than the  *)
(* run found when it began, those whose own removal failed in this run,    *)
(* and those it has yet to take away.  So a run ended by its handler       *)
(* leaves only what it found and what it tried in vain to remove           *)
(* (applyIPTables, suppressNFT, removeIPTables).  A run that believes its  *)
(* replies suppressed has a rule for each of its identifiers, or the       *)
(* catch-all; and a rule is there twice only where a command failed: "a    *)
(* rule that is already present counts as installed rather than being      *)
(* appended twice" (applyIPTables).                                        *)
RulesAccounted ==
  /\ \A t \in Tools, r \in Rule : rules[t][r] <= found[t][r] + stuck[t][r] + Owes(t, r)
  /\ proc.at \in {"ready", "up"} /\ undo # {} =>
       proc.pool \subseteq Present(proc.tool) \/ All \in Present(proc.tool)
  /\ \A r \in Rule : rules["iptables"][r] <= 1 + faults
=============================================================================
