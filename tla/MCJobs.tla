------------------------------- MODULE MCJobs -------------------------------
(***************************************************************************)
(* Two pieces that work behind the payments and share nothing: the jobs    *)
(* that move the demo's money, and the Web Worker that proves.  The run    *)
(* explores each of them while the other rests; both must come to an end   *)
(* whatever happens, which is the fairness of each.                        *)
(***************************************************************************)
EXTENDS DemoFloat, ProverWorker, TLC

MCTries == [j \in Job |-> IF j = "create" THEN 2 ELSE 1]
MCFunds == "payee" :> 0 @@ "operator" :> 2 @@ "demo" :> 2

FloatRests == held = Funds /\ \A j \in Job : starts[j] = 0
ProverRests == \A r \in Request : place[r] = "idle"

MCNext ==
  \/ FloatNext /\ ProverRests /\ UNCHANGED vars
  \/ Next /\ FloatRests /\ UNCHANGED floatVars

MCInit == FloatInit /\ Init

MCSpec == MCInit /\ [][MCNext]_<<floatVars, vars>> /\ FloatFairness /\ ProverFairness
=============================================================================
