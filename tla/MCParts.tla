------------------------------ MODULE MCParts ------------------------------
(***************************************************************************)
(* Instance for TLC: the parts of the program that share no state with one *)
(* another.  Of the observer's goroutines (dpilog.go) each may put an      *)
(* event into the channel to the writer at any moment, as EventLog lets    *)
(* it; the carriers' parts meet at calls, whose results each model leaves  *)
(* open.  So they are explored one at a time, the one that moves chosen in *)
(* the initial state, where the others then stand still.                   *)
(***************************************************************************)
EXTENDS EventLog, Strangers, HopCount, PathWatch, KernelCounters, WsReader,
        PathAlarms, ReplayWindow, PortHop, BulkPath, Pacer, ReplyRules, IcmpFilter

CONSTANT MaxSeq   \* bound: the sequence numbers that arrive at the window

VARIABLE part   \* the part that moves in this behaviour

MCSeqs == 0..MaxSeq

\* The port list as configured, the identifier lists of tunnels and the pools of runs.
HopList == <<2, 0, 1, 2>>
IdLists == {<<7>>, <<7, 9>>, <<9, 7, 8>>}
IdPools == {{}, {1}, {1, 2}, {2, 3}}

observerVars == <<logVars, strangerVars, hopCountVars, pathVars, kernelVars, alarmVars>>
carrierVars == <<windowVars, readerVars, hopVars, bulkVars, pacerVars, ruleVars, filterVars>>
vars == <<part, observerVars, carrierVars>>

\* One initial state of a part that stands still is enough.
Init ==
  /\ part \in {"log", "strangers", "hops", "path", "kernel", "alarms",
              "window", "reader", "hopping", "bulk", "pacer", "rules", "filter"}
  /\ IF part # "hops" THEN crew = Workers ELSE TRUE
  /\ IF part # "kernel" THEN carrier = "other" /\ kernel = [c \in Counters |-> 0] ELSE TRUE
  /\ IF part # "window" THEN verdict = [op |-> "check", seq |-> 0, ok |-> FALSE] ELSE TRUE
  /\ IF part # "hopping" THEN schedule = [e \in Epochs |-> 1] ELSE TRUE
  /\ IF part # "bulk" THEN path = "udp" ELSE TRUE
  /\ IF part # "rules" THEN installed = {} ELSE TRUE
  /\ IF part # "filter"
     THEN ids = <<7>> /\ mimic = TRUE
          /\ packet = [len |-> 0, words |-> 5, type |-> EchoRequest, id |-> 7]
     ELSE TRUE
  /\ LogInit /\ StrangersInit /\ HopCountInit /\ PathInit /\ KernelInit
  /\ AlarmInit /\ WindowInit /\ ReaderInit /\ HopInit /\ BulkInit /\ PacerInit
  /\ RulesInit /\ FilterInit

ObserverNext ==
  \/ /\ part = "log" /\ LogNext
     /\ UNCHANGED <<strangerVars, hopCountVars, pathVars, kernelVars, alarmVars>>
  \/ /\ part = "strangers" /\ StrangersNext
     /\ UNCHANGED <<logVars, hopCountVars, pathVars, kernelVars, alarmVars>>
  \/ /\ part = "hops" /\ HopCountNext
     /\ UNCHANGED <<logVars, strangerVars, pathVars, kernelVars, alarmVars>>
  \/ /\ part = "path" /\ PathNext
     /\ UNCHANGED <<logVars, strangerVars, hopCountVars, kernelVars, alarmVars>>
  \/ /\ part = "kernel" /\ KernelNext
     /\ UNCHANGED <<logVars, strangerVars, hopCountVars, pathVars, alarmVars>>
  \/ /\ part = "alarms" /\ AlarmNext
     /\ UNCHANGED <<logVars, strangerVars, hopCountVars, pathVars, kernelVars>>

CarrierNext ==
  \/ /\ part = "window" /\ WindowNext
     /\ UNCHANGED <<readerVars, hopVars, bulkVars, pacerVars, ruleVars, filterVars>>
  \/ /\ part = "reader" /\ ReaderNext
     /\ UNCHANGED <<windowVars, hopVars, bulkVars, pacerVars, ruleVars, filterVars>>
  \/ /\ part = "hopping" /\ HopNext
     /\ UNCHANGED <<windowVars, readerVars, bulkVars, pacerVars, ruleVars, filterVars>>
  \/ /\ part = "bulk" /\ BulkNext
     /\ UNCHANGED <<windowVars, readerVars, hopVars, pacerVars, ruleVars, filterVars>>
  \/ /\ part = "pacer" /\ PacerNext
     /\ UNCHANGED <<windowVars, readerVars, hopVars, bulkVars, ruleVars, filterVars>>
  \/ /\ part = "rules" /\ RulesNext
     /\ UNCHANGED <<windowVars, readerVars, hopVars, bulkVars, pacerVars, filterVars>>
  \/ /\ part = "filter" /\ FilterNext
     /\ UNCHANGED <<windowVars, readerVars, hopVars, bulkVars, pacerVars, ruleVars>>

Next ==
  \/ ObserverNext /\ UNCHANGED <<part, carrierVars>>
  \/ CarrierNext /\ UNCHANGED <<part, observerVars>>

Spec == Init /\ [][Next]_vars

\* Type correctness of the parts; the window's is an invariant of its own.
PartsTypeOK ==
  /\ LogTypeOK /\ StrangersTypeOK /\ HopCountTypeOK /\ PathTypeOK
  /\ KernelTypeOK /\ ReaderTypeOK /\ HopTypeOK /\ BulkTypeOK /\ PacerTypeOK
  /\ AlarmTypeOK
=============================================================================
