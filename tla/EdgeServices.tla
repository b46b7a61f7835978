---------------------------- MODULE EdgeServices ----------------------------
(***************************************************************************)
(* The server's request handling outside of the relayer: the rate limiter  *)
(* that all endpoints share, the waitlist, and the translation of an       *)
(* instruction into a payment (server.mjs; worker.mjs has the same code    *)
(* over a key-value store).  A client is its address; a request is what    *)
(* arrives of it behind the proxies, with what the client wrote into it.   *)
(***************************************************************************)
EXTENDS Integers, Sequences, FiniteSets

CONSTANTS
  Client,
  Requests,     \* requests that arrive
  OwnOrigins,   \* ALLOWED_ORIGINS
  Limit,        \* requests per window, by endpoint: 20, 20, 30, 10, 10
  Window,       \* windowMs
  HitsMax,      \* addresses above which the limiter's map is pruned
  Vendors,      \* the vendors a browser may send with an instruction
  Dest,         \* destinations a language model may answer with
  MaxRequests,  \* bound: requests, over all processes
  MaxTime,      \* bound: clock
  MaxRestarts,  \* bound: restarts of the process
  Nothing

Endpoint == {"relay", "attack", "agent", "waitlist", "export"}

ASSUME EdgeAssumption ==
  /\ Limit \in [Endpoint -> Nat]
  /\ {HitsMax, MaxRequests, MaxTime, MaxRestarts} \subseteq Nat
  /\ Window \in Nat \ {0}
  /\ Nothing \notin Dest \cup Client
  \* The proxy in front tells the address, or appends it to what the client
  \* claims in X-Forwarded-For; without a proxy there is neither header.
  /\ \A r \in Requests :
       /\ r.from \in Client
       /\ \/ r.external = r.from
          \/ r.external = Nothing /\ r.hops # << >> /\ r.hops[Len(r.hops)] = r.from
          \/ r.external = Nothing /\ r.hops = << >> /\ r.socket = r.from

VARIABLES
  clock,
  hits,      \* HITS: the times of an address's requests, numbered: two may be equal
  log,       \* the requests since the process started, and whether each was refused
  webhook,   \* WAITLIST_WEBHOOK is set
  waiting,   \* waitlist requests that await the webhook
  sink,      \* the addresses (of e-mail: one per client) in the file or KV store
  hooked,    \* and those that the webhook has kept
  shown,     \* wl.status in each browser
  intent,    \* the answer of /api/agent, if the last request was for it
  asked,     \* requests so far
  restarts

edgeVars == <<clock, hits, log, asked, webhook, waiting, sink, hooked, shown, intent, restarts>>
limiterVars == <<clock, hits, log, asked, restarts>>
waitlistVars == <<webhook, waiting, sink, hooked, shown>>

\* An empty map.
NoHits == [c \in {} |-> {}]

EdgeInit ==
  /\ clock = 0 /\ hits = NoHits /\ log = {}
  /\ webhook \in BOOLEAN
  /\ waiting = {} /\ sink = {} /\ hooked = {}
  /\ shown = [c \in Client |-> "none"]
  /\ intent = Nothing
  /\ asked = 0 /\ restarts = 0

-----------------------------------------------------------------------------
(* What a request is.                                                      *)

\* The last hop is the proxy's; what is before it the client may have made up.
LastHop(r) == IF r.hops # << >> THEN r.hops[Len(r.hops)] ELSE r.socket

FirstHop(r) ==                             \* mutant: the hop that the client claims
  IF r.external # Nothing THEN r.external ELSE IF r.hops # << >> THEN r.hops[1] ELSE r.socket

\* clientIp.
ClientIp(r) == IF r.external # Nothing THEN r.external ELSE LastHop(r)

\* Origins, by their hosts (either scheme will do).
SiteOrigins(r) == OwnOrigins \cup {r.host}

\* A page of another site sends its origin along; clients other than browsers
\* send none.
OriginAllowed(r) == r.origin = Nothing \/ r.origin \in SiteOrigins(r)

PostsToApi(r) == r.method = "POST" /\ r.path \in Endpoint \ {"export"} /\ OriginAllowed(r)

\* Where a request is sent to, if not to a file or an answer that depends on nothing.
Handler(r) ==
  IF PostsToApi(r) THEN r.path
  ELSE IF r.method = "GET" /\ r.path = "export" THEN "export" ELSE "none"

-----------------------------------------------------------------------------
(* The limiter.                                                            *)

Recent(times) == {t \in times : clock - t.at < Window}

PrunedEntirely(map) ==                     \* mutant: the whole map is dropped
  IF Cardinality(DOMAIN map) <= HitsMax THEN map ELSE NoHits

\* Above HitsMax addresses, those without a recent request are dropped.
Pruned(map) ==
  IF Cardinality(DOMAIN map) <= HitsMax THEN map
  ELSE [a \in {a \in DOMAIN map : Recent(map[a]) # {}} |-> map[a]]

\* rateLimited: the request counts although it may be refused.
Asked(r) ==
  LET ip == ClientIp(r)
      kept == Pruned(hits)
      arr == (IF ip \in DOMAIN kept THEN Recent(kept[ip]) ELSE {}) \cup {[at |-> clock, n |-> asked]}
  IN  /\ asked < MaxRequests
      /\ asked' = asked + 1
      /\ hits' = [a \in DOMAIN kept \cup {ip} |-> IF a = ip THEN arr ELSE kept[a]]
      /\ log' = log \cup {[client |-> r.from, endpoint |-> Handler(r), at |-> clock, n |-> asked,
                           refused |-> Cardinality(arr) > Limit[Handler(r)]]}
      /\ UNCHANGED <<clock, restarts>>

Admitted == \E q \in log' : q.n = asked /\ ~q.refused

\* Relay, attack and export requests: here they only pass the limiter.
Ask(r) ==
  /\ Handler(r) \in {"relay", "attack", "export"}
  /\ Asked(r)
  /\ intent' = Nothing
  /\ UNCHANGED waitlistVars

-----------------------------------------------------------------------------
(* The waitlist.                                                           *)

\* The browser's submitWaitlist throws unless an answer arrives that says ok.
SubmitWaitlist(answer) == answer = "ok"

\* The answer is ok for what was persisted; it may get lost.
Answered(c, persisted) ==
  \E answer \in {IF persisted THEN "ok" ELSE "failed", "none"} :
    shown' = [shown EXCEPT ![c] = IF SubmitWaitlist(answer) THEN "ok" ELSE "err"]

\* The waitlist's field in the footer: none while it is being sent.  ("ok" takes
\* its place, until the page is loaded again.)
WaitlistField(c) == shown[c] # "sending"

\* submitWaitlist and handleWaitlist up to the webhook: the write may fail.
PostWaitlist(r) ==
  /\ Handler(r) = "waitlist"
  /\ WaitlistField(r.from)
  /\ Asked(r)
  /\ IF ~Admitted
     THEN shown' = [shown EXCEPT ![r.from] = "err"] /\ UNCHANGED <<waiting, sink>>
     ELSE \E persisted \in BOOLEAN :
            /\ sink' = IF persisted THEN sink \cup {r.from} ELSE sink
            /\ IF webhook
               THEN /\ waiting' = waiting \cup {[client |-> r.from, persisted |-> persisted]}
                    /\ shown' = [shown EXCEPT ![r.from] = "sending"]
               ELSE Answered(r.from, persisted) /\ UNCHANGED waiting
  /\ intent' = Nothing
  /\ UNCHANGED <<webhook, hooked>>

WebhookIgnored(w) ==                       \* mutant: any answer of the webhook will do
  /\ w \in waiting
  /\ waiting' = waiting \ {w}
  /\ hooked' \in {hooked, hooked \cup {w.client}}
  /\ Answered(w.client, TRUE)
  /\ UNCHANGED <<limiterVars, webhook, sink, intent>>

\* The webhook answers with success, or with an error or not at all (and may
\* have kept it even so).
WebhookDone(w) ==
  /\ w \in waiting
  /\ waiting' = waiting \ {w}
  /\ \/ hooked' = hooked \cup {w.client} /\ Answered(w.client, TRUE)
     \/ hooked' \in {hooked, hooked \cup {w.client}} /\ Answered(w.client, w.persisted)
  /\ UNCHANGED <<limiterVars, webhook, sink, intent>>

-----------------------------------------------------------------------------
(* The agent.                                                              *)

\* What a message says, as far as the parser and the model are concerned: a
\* literal address or none, among the first 800 characters, and a verb of paying.
Message == [typed : Dest \cup {Nothing}, pays : BOOLEAN]

\* fallbackIntent.
FallbackIntent(m, vendors) ==
  IF m.pays
  THEN [action |-> "pay",
        to |-> IF m.typed # Nothing THEN m.typed
               ELSE IF vendors # << >> THEN vendors[1] ELSE Nothing]
  ELSE [action |-> "chat", to |-> Nothing]

GroqIntentTrusting(m, out) == out          \* mutant: the model's destination is used

\* groqIntent: out is whatever the model answered.
GroqIntent(m, out) ==
  [action |-> out.action, to |-> IF m.typed # Nothing THEN m.typed ELSE out.to]

\* handleAgent: the model, or the parser when there is no key or the model fails.
PostAgent(r, m, vendors) ==
  /\ Handler(r) = "agent"
  /\ Asked(r)
  /\ \/ ~Admitted /\ intent' = Nothing
     \/ /\ Admitted
        /\ \E out \in [action : {"pay", "chat"}, to : Dest \cup {Nothing}] :
             intent' = [typed |-> m.typed, answer |-> GroqIntent(m, out)]
     \/ /\ Admitted
        /\ intent' = [typed |-> m.typed, answer |-> FallbackIntent(m, vendors)]
  /\ UNCHANGED waitlistVars

-----------------------------------------------------------------------------

Tick ==
  /\ clock < MaxTime
  /\ clock' = clock + 1
  /\ UNCHANGED <<hits, log, asked, restarts, waitlistVars, intent>>

\* A new process (or isolate): requests in flight fail, the limiter forgets.
Restart ==
  /\ restarts < MaxRestarts
  /\ restarts' = restarts + 1
  /\ hits' = NoHits /\ log' = {}
  /\ waiting' = {}
  /\ shown' = [c \in Client |-> IF shown[c] = "sending" THEN "err" ELSE shown[c]]
  /\ UNCHANGED <<clock, asked, webhook, sink, hooked, intent>>

EdgeNext ==
  \/ \E r \in Requests : Ask(r)
  \/ \E r \in Requests : PostWaitlist(r)
  \/ \E w \in waiting : WebhookDone(w)
  \/ \E r \in Requests, m \in Message, v \in Vendors : PostAgent(r, m, v)
  \/ Tick
  \/ Restart

EdgeSpec == EdgeInit /\ [][EdgeNext]_edgeVars

-----------------------------------------------------------------------------
(* Properties                                                              *)

\* A request is refused exactly when its client made more than the endpoint's
\* limit of requests, to any endpoint, in the window that ends with it: the map
\* that is filtered and pruned says what the whole history would, whatever the
\* client claims to be (server.mjs 55-57).
LimiterExact ==
  \A q \in log :
    q.refused <=>
      Cardinality({p \in log : p.client = q.client /\ p.n <= q.n /\ q.at - p.at < Window})
        > Limit[q.endpoint]

\* What the edge answers is so.  The browser says "you're on the list" only of an
\* address that is kept, through failed writes, failed webhooks, lost answers,
\* repeats and restarts (server.mjs 266, chain.js 294-295); and an address that was
\* typed is the one an intent pays, whatever the language model says and whichever
\* way the instruction was read (server.mjs 226-228).
AnswersHold ==
  /\ \A c \in Client : shown[c] = "ok" => c \in sink \cup hooked
  /\ intent # Nothing /\ intent.answer.action = "pay" /\ intent.typed # Nothing
       => intent.answer.to = intent.typed
=============================================================================
