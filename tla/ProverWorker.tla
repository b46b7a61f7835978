---------------------------- MODULE ProverWorker ----------------------------
(***************************************************************************)
(* The browser's prover, web/lib/prover.js 28-57 and prover-worker.js: the *)
(* proofs of payments, disclosures and attacks share one Web Worker, or    *)
(* run inline once there is no worker.                                     *)
(*                                                                         *)
(* _workerBroken is never reset, so a page creates at most one worker; it  *)
(* may throw on creation, fail to load its script, be slow, or be          *)
(* terminated with the jobs of others in it.  The timers all run for 120 s *)
(* and so fire in the order they were set.                                 *)
(***************************************************************************)
EXTENDS Naturals

CONSTANT Request     \* calls of fullProve

VARIABLES
  handle,    \* _worker is set
  broken,    \* _workerBroken
  seq,       \* _seq
  worker,    \* the worker: "none", "loading", "up", "failed" or "terminated"
  jobs,      \* ids posted to the worker and not finished
  mail,      \* messages from the worker that the page has not seen
  place,     \* "idle", "waiting" (for the worker), "inline" or "done"
  id,        \* the id a call posted under, 0 if it posted none
  outcome    \* how its promise was settled, and with whose proof

vars == <<handle, broken, seq, worker, jobs, mail, place, id, outcome>>

Init ==
  /\ handle = FALSE /\ broken = FALSE /\ seq = 0
  /\ worker = "none" /\ jobs = {} /\ mail = {}
  /\ place = [r \in Request |-> "idle"]
  /\ id = [r \in Request |-> 0]
  /\ outcome = [r \in Request |-> [kind |-> "none", of |-> 0]]

-----------------------------------------------------------------------------
Resolve(r, kind, i) ==
  /\ place' = [place EXCEPT ![r] = "done"]
  /\ outcome' = [outcome EXCEPT ![r] = [kind |-> kind, of |-> i]]

Post(r) ==
  /\ seq' = seq + 1
  /\ id' = [id EXCEPT ![r] = seq + 1]
  /\ jobs' = jobs \cup {seq + 1}
  /\ place' = [place EXCEPT ![r] = "waiting"]
  /\ UNCHANGED <<broken, mail, outcome>>

\* getWorker returned null: no_worker, and fullProve goes on inline.
GoInline(r) ==
  /\ place' = [place EXCEPT ![r] = "inline"]
  /\ broken' = TRUE
  /\ UNCHANGED <<handle, seq, worker, jobs, mail, id, outcome>>

Start(r) ==
  /\ place[r] = "idle"
  /\ \/ broken /\ GoInline(r)
     \/ ~broken /\ handle /\ Post(r) /\ UNCHANGED <<handle, worker>>
     \/ ~broken /\ ~handle /\ Post(r) /\ handle' = TRUE /\ worker' = "loading"
     \/ ~broken /\ ~handle /\ GoInline(r)               \* new Worker throws

ScriptLoads ==
  /\ worker = "loading"
  /\ worker' = "up"
  /\ UNCHANGED <<handle, broken, seq, jobs, mail, place, id, outcome>>

\* onerror.  The messages posted to the worker are lost; nobody tells the
\* calls that wait for them.
ScriptFails ==
  /\ worker = "loading"
  /\ worker' = "failed"
  /\ jobs' = {}
  /\ broken' = TRUE
  /\ handle' = FALSE
  /\ UNCHANGED <<seq, mail, place, id, outcome>>

\* The worker's onmessage handlers are async and run side by side.
WorkerAnswers(i) ==
  /\ worker = "up"
  /\ i \in jobs
  /\ jobs' = jobs \ {i}
  /\ \E good \in BOOLEAN : mail' = mail \cup {[id |-> i, ok |-> good]}
  /\ UNCHANGED <<handle, broken, seq, worker, place, id, outcome>>

DeliverToAll(m) ==                         \* mutant: a listener takes any message
  /\ m \in mail
  /\ mail' = mail \ {m}
  /\ place' = [r \in Request |-> IF place[r] = "waiting" THEN "done" ELSE place[r]]
  /\ outcome' = [r \in Request |->
       IF place[r] = "waiting"
       THEN [kind |-> IF m.ok THEN "proof" ELSE "error", of |-> m.id]
       ELSE outcome[r]]
  /\ UNCHANGED <<handle, broken, seq, worker, jobs, id>>

\* Every waiting call has a listener; all but the one the id names ignore it,
\* and so do all when that call has timed out.
Deliver(m) ==
  /\ m \in mail
  /\ mail' = mail \ {m}
  /\ \/ \E r \in Request :
          /\ place[r] = "waiting"
          /\ id[r] = m.id
          /\ Resolve(r, IF m.ok THEN "proof" ELSE "error", m.id)
     \/ /\ ~\E r \in Request : place[r] = "waiting" /\ id[r] = m.id
        /\ UNCHANGED <<place, outcome>>
  /\ UNCHANGED <<handle, broken, seq, worker, jobs, id>>

TimeoutOfLatest(r) ==                      \* mutant: one timer, set anew by every call
  /\ place[r] = "waiting"
  /\ id[r] = seq
  /\ Resolve(r, "prove_timeout", 0)
  /\ broken' = TRUE
  /\ handle' = FALSE
  /\ worker' = IF worker \in {"loading", "up"} THEN "terminated" ELSE worker
  /\ jobs' = {}
  /\ UNCHANGED <<seq, mail, id>>

\* The timer of r, the oldest that is set: it gives r up and takes the worker
\* down, with whatever jobs it has.
Timeout(r) ==
  /\ place[r] = "waiting"
  /\ \A s \in Request : place[s] = "waiting" => id[r] <= id[s]
  /\ Resolve(r, "prove_timeout", 0)
  /\ broken' = TRUE
  /\ handle' = FALSE
  /\ worker' = IF worker \in {"loading", "up"} THEN "terminated" ELSE worker
  /\ jobs' = {}
  /\ UNCHANGED <<seq, mail, id>>

InlineEnds(r) ==
  /\ place[r] = "inline"
  /\ \E kind \in {"proof", "error"} : Resolve(r, kind, id[r])
  /\ UNCHANGED <<handle, broken, seq, worker, jobs, mail, id>>

Next ==
  \/ \E r \in Request : Start(r) \/ Timeout(r) \/ InlineEnds(r)
  \/ ScriptLoads \/ ScriptFails
  \/ \E i \in jobs : WorkerAnswers(i)
  \/ \E m \in mail : Deliver(m)

\* Timers fire and inline proving ends; nothing is assumed of the worker.
ProverFairness == \A r \in Request : WF_vars(Timeout(r)) /\ WF_vars(InlineEnds(r))

Spec == Init /\ [][Next]_vars /\ ProverFairness

-----------------------------------------------------------------------------
(* Properties                                                              *)

TypeOK ==
  /\ handle \in BOOLEAN /\ broken \in BOOLEAN
  /\ seq \in Nat
  /\ worker \in {"none", "loading", "up", "failed", "terminated"}
  /\ jobs \subseteq 1..seq
  /\ mail \subseteq [id : 1..seq, ok : BOOLEAN]
  /\ place \in [Request -> {"idle", "waiting", "inline", "done"}]
  /\ id \in [Request -> 0..seq]
  /\ outcome \in [Request -> [kind : {"none", "proof", "error", "prove_timeout"}, of : 0..seq]]

\* A caller gets the proof of its own input, however the worker's answers are
\* ordered, late, or meant for calls that gave up (prover.js 40-45).
OwnProof ==
  \A r \in Request : outcome[r].kind = "proof" => outcome[r].of = id[r]

\* "fall back to inline snarkjs only when the worker is unavailable (not on a
\* genuine slow/hang/abort, which would just re-fail)" (prover.js 48-49): no
\* proof is computed in the worker and inline as well.
NoDoubleRun ==
  \A r \in Request : place[r] = "inline" => id[r] = 0

\* Every call of fullProve ends, whatever becomes of the worker and of the
\* calls it shares it with (prover.js 41).
EveryProofEnds ==
  \A r \in Request : place[r] # "idle" ~> place[r] = "done"
=============================================================================
