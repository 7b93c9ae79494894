------------------------------ MODULE MCDriver ------------------------------
(* The driver's parts and its peers' streams, each in a small instance,     *)
(* side by side: one of them runs and the others stay in their initial      *)
(* state.                                                                   *)
EXTENDS Aggregator, InflightBudget, FrameStreams

CONSTANTS
    Parts           \* the parts a run looks at

VARIABLE part

driverAll == <<driverVars, aggVars, budgetVars, fs, part>>

\* A single unit, a group of two, a single unit.
MCWeight == <<1, 2, 1>>

\* Streams: where the identity is, whether it is accepted, the control frames, and the bulk streams.
Sends(mode, known, control, bulk) == [mode |-> mode, known |-> known, control |-> control, bulk |-> bulk]

MCPlans ==
    {Sends("tcp", TRUE, <<1, 2, 1>>, <<<<>>>>), Sends("tcp", TRUE, <<1, 3>>, <<<<>>>>),
     Sends("hello", TRUE, <<1, 2, 1>>, <<<<2>>, <<1>>>>), Sends("hello", TRUE, <<1, 2, 3>>, <<<<1>>>>),
     Sends("hello", FALSE, <<1, 1>>, <<<<>>>>), Sends("hello", TRUE, <<2>>, <<<<>>>>),
     Sends("cert", TRUE, <<1, 2>>, <<<<1, 2>>, <<3>>>>)}

MCInit ==
    /\ DriverInit /\ AggInit /\ BudgetInit /\ part \in Parts
    /\ \E p \in IF part = "frames" THEN Plans ELSE {CHOOSE p \in Plans : TRUE} : fs = FrameStart(p)

Direct == part = "direct" /\ (DriverNext \/ DirectCalls) /\ UNCHANGED <<aggVars, budgetVars, fs>>

\* The callers of the aggregator come and leave in order, and the network is quiet.
Aggregated ==
    /\ part = "aggregated" /\ UNCHANGED <<budgetVars, fs>>
    /\ UNCHANGED <<losses, installs>>
    /\ \/ DriverNext /\ UNCHANGED aggVars
       \/ AggNext
    /\ \A c \in Callers \ {1} : entry'[c] # "idle" => entry[c - 1] # "idle"
    /\ \A c \in Callers \ {1} : c \notin handles' => c - 1 \notin handles

Budgeted == part = "budget" /\ BudgetNext /\ UNCHANGED <<driverVars, aggVars, fs>>

Framing == part = "frames" /\ FrameNext /\ UNCHANGED <<driverVars, aggVars, budgetVars>>

MCNext == (Direct \/ Aggregated \/ Budgeted \/ Framing) /\ UNCHANGED part

MCSpec == MCInit /\ [][MCNext]_driverAll

TypeOK == DriverTypeOK /\ AggTypeOK /\ BudgetTypeOK

=============================================================================
