--------------------------- MODULE AccountSession ---------------------------
(***************************************************************************)
(* One browser tab and the accounts made in it: creation and keystores     *)
(* (runCreate of web/app.js, web/lib/create.js), switching, importing and  *)
(* restoring accounts, and what the tab shows of the active one (loadChain *)
(* and the writes that come back late), and disclosure, which proves about *)
(* what is shown.                                                          *)
(*                                                                         *)
(* Account 0 is the demo account; creation n makes account n with the      *)
(* policy secret n (salt and address are drawn at random for each).        *)
(***************************************************************************)
EXTENDS PolicyTree, FiniteSets

CONSTANTS
  MaxCreates,  \* bound: how many accounts are attempted
  Allowlists,  \* allowlists, as sequences of leaves
  CapOf,       \* the cap in each policy secret
  Limits,      \* regulatory maxima the slider can be dragged to
  FirstLimit,  \* where it is at first: 500
  MaxVisits,   \* bound: how often the page is loaded
  MaxOldLoads, \* bound: loads of earlier views that are still under way
  NoValue

Demo == 0
Creation == 1 .. MaxCreates
AnAccount == 0 .. MaxCreates

\* A keystore, sealed or not: the account it names and the secret inside.
KeystoreOf(n) == [account |-> n, secret |-> n]

Keystore == {KeystoreOf(n) : n \in Creation}

ASSUME SessionAssumption ==
  /\ MaxCreates \in Nat
  /\ CapOf \in [AnAccount -> Nat]
  /\ Limits \subseteq Nat /\ FirstLimit \in Nat
  /\ NoValue \notin AnAccount
  /\ \A k \in Keystore : k # NoValue
  \* buildPolicy throws for other lists (poseidon.js 50-51).
  /\ \A list \in Allowlists :
       list = [i \in 1 .. Len(list) |-> list[i]] /\ Len(list) \in 1 .. Leaves

VARIABLES
  wallet,     \* create.wallet: Freighter is connected
  create,     \* this.create: phase, policy and keystore
  made,       \* number of the latest creation
  at,         \* where runCreate is
  verdict,    \* how each runCreate ended
  pool,       \* deployments the network holds
  deployed,   \* accounts on the ledger
  built,      \* the allowlist a policy was built for, until the deployment is sent
  local,      \* localStorage: sealed keystores
  unlocked,   \* sessionStorage: opened keystores
  files,      \* downloaded keystore files
  active,     \* the active account and its keystore
  saved,      \* localStorage nulth.active
  visits,     \* page loads so far
  view,       \* this.live: whose balance, policy, secret and payments it shows
  load,       \* loadChain of the current this.live
  oldLoads,   \* accounts that loadChains of earlier views are reading
  late,       \* a read of refreshBalances or runAdmin that is under way
  disc        \* this.disc, and the limit that its proof is made for

createVars == <<wallet, create, made, at, verdict, built>>
storeVars == <<local, unlocked, files, saved>>
viewVars == <<view, load, oldLoads>>
netVars == <<pool, deployed>>
readVars == <<late, disc>>
sessionVars == <<createVars, storeVars, viewVars, netVars, readVars, active, visits>>

FreshView ==
  [balance |-> NoValue, policy |-> NoValue, secret |-> NoValue, activity |-> NoValue]

\* "secret", "reads", then "shown" or "failed", whether or not the activity is listed.
NoLoad == [step |-> "secret", of |-> NoValue, listed |-> FALSE]
NoDisc == [phase |-> "idle", limit |-> FirstLimit, asked |-> FirstLimit, commitment |-> NoValue]

SessionInit ==
  /\ wallet = FALSE
  /\ create = [phase |-> "idle", policy |-> NoValue, keystore |-> NoValue]
  /\ made = 0 /\ at = "idle"
  /\ verdict = [n \in Creation |-> "none"]
  /\ built = NoValue
  /\ pool = {} /\ deployed = {Demo}
  /\ local = {} /\ unlocked = {} /\ files = {}
  /\ active = [account |-> Demo, keystore |-> NoValue]
  /\ saved = NoValue /\ visits = 1
  /\ view = FreshView /\ load = NoLoad /\ oldLoads = {}
  /\ late = NoValue /\ disc = NoDisc

-----------------------------------------------------------------------------
(* What the screens offer.                                                 *)

\* createScreen: the wallet's button, the form's, the panel of a deployment that
\* is done, and the list of this browser's accounts, if there are any: the
\* button that imports a keystore is below that list.
CreateScreen ==
  {b \in {"connectWallet", "createrun", "enterCreated", "switch", "importKeystore"} :
     CASE b = "connectWallet" -> ~wallet
       [] b = "createrun" -> create.phase # "running"
       [] b = "enterCreated" -> create.phase = "done"
       [] b \in {"switch", "importKeystore"} -> local # {}}

\* The banner above every screen, with its Retry: both reads of the load failed.
Banner == load.step = "failed"

\* dashboard: the active account, and the balance that is shown for it.
Dashboard == [account |-> active.account, balance |-> view.balance]

\* activity: whose payments are listed.
ActivityScreen == view.activity

\* policy: the secret on this device, and beside it what the chain stores.
PolicyScreen == [device |-> view.secret, chain |-> view.policy]

\* verify: the slider's limit, the outcome, and the commitment that the outcome is
\* said to be bound to, which is the one of the policy that is shown by now.
VerifyScreen == [phase |-> disc.phase, limit |-> disc.limit, boundTo |-> view.policy]

-----------------------------------------------------------------------------
(* Creating an account.                                                    *)

\* connectWallet: the user approves.
ConnectWallet ==
  /\ "connectWallet" \in CreateScreen
  /\ wallet' = TRUE
  /\ UNCHANGED <<create, made, at, verdict, built, storeVars, viewVars, netVars, readVars,
                 active, visits>>

\* NulthCreate.buildPolicy: an allowlist and what is committed to for it.
NewPolicy(list) == [list |-> list, policy |-> BuildPolicy(list)]

\* runCreate's checks, and the policy, which is computed in the browser.
CreateClick(list) ==
  /\ "createrun" \in CreateScreen
  /\ wallet
  /\ made < MaxCreates
  /\ made' = made + 1
  /\ built' = NewPolicy(list)
  /\ create' = [create EXCEPT !.phase = "running", !.policy = made']
  /\ at' = "signing"
  /\ UNCHANGED <<wallet, verdict, storeVars, viewVars, netVars, readVars, active, visits>>

CreateEnds(how) ==
  /\ at' = "idle"
  /\ verdict' = [verdict EXCEPT ![made] = how]

\* deploy throws: an RPC call, the simulation, or the user declines to sign.
DeployThrows ==
  /\ at \in {"signing", "polling"}
  /\ create' = [create EXCEPT !.phase = "error"]
  /\ CreateEnds("error")
  /\ built' = NoValue
  /\ UNCHANGED <<wallet, made, storeVars, viewVars, netVars, readVars, active, visits>>

\* The wallet signs and the transaction is sent.
DeploySend ==
  /\ at = "signing"
  /\ pool' \in {pool, pool \cup {made}}
  /\ at' = "polling"
  /\ built' = NoValue
  /\ UNCHANGED <<wallet, create, made, verdict, deployed, storeVars, viewVars,
                 readVars, active, visits>>

\* What deploy returns after its last poll; FAILED stands for NOT_FOUND as well.
DeployStatus == IF made \in deployed THEN "SUCCESS" ELSE "FAILED"

\* runCreate goes on with SUCCESS, and returns with anything else.
DeployPolled ==
  /\ at = "polling"
  /\ IF DeployStatus = "SUCCESS"
     THEN at' = "sealing" /\ UNCHANGED <<create, verdict>>
     ELSE create' = [create EXCEPT !.phase = "error"] /\ CreateEnds("error")
  /\ UNCHANGED <<wallet, made, built, storeVars, viewVars, netVars, readVars, active, visits>>

SaveUnsealedOnly ==                        \* mutant: nothing durable is written
  /\ at = "sealing"
  /\ unlocked' = unlocked \cup {KeystoreOf(made)}
  /\ create' = [create EXCEPT !.phase = "done", !.keystore = made]
  /\ CreateEnds("done")
  /\ UNCHANGED <<wallet, made, built, local, files, saved, viewVars, netVars, readVars,
                 active, visits>>

\* The stores of keystores: localStorage holds sealed ones, sessionStorage opened ones.
SaveLocal(ks) == local' = local \cup {ks}
SaveUnlocked(ks) == unlocked' = unlocked \cup {ks}
Download(ks) == files' = files \cup {ks}

\* seal, saveLocal, download and saveUnlocked, in that order: either store may
\* refuse, and what comes before it stays.
SaveKeystore ==
  /\ at = "sealing"
  /\ LET ks == KeystoreOf(made)
         refused == create' = [create EXCEPT !.phase = "error"] /\ CreateEnds("error")
     IN  \/ /\ SaveLocal(ks) /\ Download(ks) /\ SaveUnlocked(ks)
            /\ create' = [create EXCEPT !.phase = "done", !.keystore = made]
            /\ CreateEnds("done")
         \/ SaveLocal(ks) /\ Download(ks) /\ refused /\ UNCHANGED unlocked
         \/ refused /\ UNCHANGED <<local, files, unlocked>>
  /\ UNCHANGED <<wallet, made, built, saved, viewVars, netVars, readVars, active, visits>>

DeployTaken(n) ==
  /\ n \in pool
  /\ pool' = pool \ {n}
  /\ deployed' \in {deployed, deployed \cup {n}}
  /\ UNCHANGED <<createVars, storeVars, viewVars, readVars, active, visits>>

-----------------------------------------------------------------------------
(* The active account.                                                     *)

KeptView == [FreshView EXCEPT !.secret = view.secret]

LateKept == late                           \* mutant: runAdmin looks this.live up after its await

\* What is still written to the view when it is replaced: runAdmin's assignment to
\* this.live.policy took the object before it awaited the value.
LateLeft == IF late # NoValue /\ late.what = "policy" THEN NoValue ELSE late

\* A new this.live, with the secret of the old one until its load() is done: the
\* loadChain of the old one goes on with the old object.
NewView ==
  /\ load.step = "reads" => Cardinality(oldLoads \cup {load.of}) <= MaxOldLoads
  /\ view' = KeptView
  /\ load' = NoLoad
  /\ oldLoads' = IF load.step = "reads" THEN oldLoads \cup {load.of} ELSE oldLoads
  /\ late' = LateLeft

ActivateKeeping(a, ks) ==                  \* mutant: the keystore is set only when there is none
  /\ active' = [account |-> a, keystore |-> IF active.keystore = NoValue \/ ks = NoValue THEN ks
                                            ELSE active.keystore]
  /\ saved' = IF a = Demo THEN NoValue ELSE a
  /\ NewView

\* setActive, nulth.active, and a new view.
Activate(a, ks) ==
  /\ active' = [account |-> a, keystore |-> ks]
  /\ saved' = IF a = Demo THEN NoValue ELSE a
  /\ NewView

EnterCreatedAccount ==
  /\ "enterCreated" \in CreateScreen /\ create.keystore # NoValue
  /\ Activate(create.keystore, KeystoreOf(create.keystore))
  /\ create' = [phase |-> "idle", policy |-> NoValue, keystore |-> NoValue]
  /\ UNCHANGED <<wallet, made, at, verdict, built, local, unlocked, files, netVars, disc, visits>>

SwitchToDemo ==
  /\ "switch" \in CreateScreen /\ active.account # Demo
  /\ Activate(Demo, NoValue)
  /\ UNCHANGED <<createVars, local, unlocked, files, netVars, disc, visits>>

\* Switch to an account of the list: it is open in this session, or its keystore
\* is opened with its passphrase (with a wrong one nothing changes).
SwitchAccount(ks) ==
  /\ "switch" \in CreateScreen /\ ks \in local
  /\ ks.account # active.account
  /\ SaveUnlocked(ks)
  /\ Activate(ks.account, ks)
  /\ UNCHANGED <<createVars, local, files, netVars, disc, visits>>

\* importKeystore of a downloaded file with its passphrase, and the switch.
ImportKeystore(ks) ==
  /\ "importKeystore" \in CreateScreen /\ ks \in files
  /\ SaveLocal(ks) /\ SaveUnlocked(ks)
  /\ Activate(ks.account, ks)
  /\ UNCHANGED <<createVars, files, netVars, disc, visits>>

\* sessionStorage refuses: the keystore is kept, and the user told it is invalid.
ImportThrows(ks) ==
  /\ "importKeystore" \in CreateScreen /\ ks \in files
  /\ SaveLocal(ks)
  /\ UNCHANGED <<createVars, unlocked, files, saved, viewVars, netVars, readVars, active, visits>>

\* The page is loaded again: a reload keeps sessionStorage, closing the tab does
\* not, and the user may have cleared the site's data.  init restores the saved
\* account if it is still open.
Visit ==
  /\ visits < MaxVisits
  /\ visits' = visits + 1
  /\ unlocked' \in {unlocked, {}}
  /\ \/ UNCHANGED local
     \/ local' = {} /\ unlocked' = {}
  /\ saved' = IF local' = {} THEN NoValue ELSE saved
  /\ LET open == {ks \in unlocked' : ks.account = saved'}
     IN  active' \in IF open = {} THEN {[account |-> Demo, keystore |-> NoValue]}
                     ELSE {[account |-> ks.account, keystore |-> ks] : ks \in open}
  /\ wallet' = FALSE
  /\ create' = [phase |-> "idle", policy |-> NoValue, keystore |-> NoValue]
  /\ IF at = "idle" THEN UNCHANGED <<at, verdict>> ELSE CreateEnds("closed")
  /\ view' = FreshView /\ load' = NoLoad /\ oldLoads' = {}
  /\ late' = NoValue /\ disc' = NoDisc /\ built' = NoValue
  /\ UNCHANGED <<made, files, netVars>>

-----------------------------------------------------------------------------
(* What is shown of it.                                                    *)

\* The secret proofs are made with: cur().
Secret == IF active.keystore = NoValue THEN Demo ELSE active.keystore.secret

\* What load() returns: the open keystore's secret or the demo's, whose fetch may throw.
LoadSecret == IF active.keystore = NoValue THEN {Secret, NoValue} ELSE {Secret}

\* loadChain past its load(): the secret is shown, and acct() and _active are read.
LoadReads ==
  /\ load.step = "secret"
  /\ \E secret \in LoadSecret : view' = [view EXCEPT !.secret = secret]
  /\ load' = [NoLoad EXCEPT !.step = "reads", !.of = active.account]
  /\ UNCHANGED <<createVars, storeVars, oldLoads, netVars, readVars, active, visits>>

\* What sacBalance and readPolicy tell of an account: its own balance or policy,
\* or nothing, when the call throws or the ledger has no such entry.
SacBalance(a) == {a, NoValue}
ReadPolicy(a) == {a, NoValue}

\* Its reads are back; each of them may have failed.
LoadShows ==
  /\ load.step = "reads"
  /\ \E b \in SacBalance(load.of), p \in ReadPolicy(load.of) :
       /\ view' = [view EXCEPT !.balance = b, !.policy = p]
       /\ load' = [load EXCEPT !.step = IF {b, p} = {NoValue} THEN "failed" ELSE "shown"]
  /\ UNCHANGED <<createVars, storeVars, oldLoads, netVars, readVars, active, visits>>

\* The account's transfers among the events, or no rows: a call throws, or
\* there are none.
RecentActivity(a) == {a, NoValue}

\* The activity is read after that, failed or not, and written to the same view.
LoadActivity ==
  /\ load.step \in {"shown", "failed"} /\ ~load.listed
  /\ \E a \in RecentActivity(load.of) : view' = [view EXCEPT !.activity = a]
  /\ load' = [load EXCEPT !.listed = TRUE]
  /\ UNCHANGED <<createVars, storeVars, oldLoads, netVars, readVars, active, visits>>

OldLoadShows(a) ==                         \* mutant: this.live instead of the captured L
  /\ a \in oldLoads
  /\ oldLoads' = oldLoads \ {a}
  /\ view' = [view EXCEPT !.balance = a, !.policy = a]
  /\ UNCHANGED <<createVars, storeVars, load, netVars, readVars, active, visits>>

\* The reads for an earlier view are back, and are written to that view.
OldLoadEnds(a) ==
  /\ a \in oldLoads
  /\ oldLoads' = oldLoads \ {a}
  /\ UNCHANGED <<createVars, storeVars, view, load, netVars, readVars, active, visits>>

\* reload: a new this.live that still shows what the old one did.
Reload ==
  /\ Banner
  /\ load' = NoLoad
  /\ late' = LateLeft
  /\ UNCHANGED <<createVars, storeVars, view, oldLoads, netVars, disc, active, visits>>

\* refreshBalances (after a payment or a seed) and runAdmin's readPolicy start to read
\* of the active account ...
LateRead(what) ==
  /\ late = NoValue
  /\ late' = [what |-> what, of |-> active.account]
  /\ UNCHANGED <<createVars, storeVars, viewVars, netVars, disc, active, visits>>

\* ... and write when they are back: refreshBalances to the view that is there by
\* then, runAdmin to the one there was, which keeps its policy if the call throws.
LateWrite ==
  /\ late # NoValue
  /\ \/ /\ late.what = "balance"
        /\ \E b \in SacBalance(late.of) : view' = [view EXCEPT !.balance = b]
     \/ /\ late.what = "policy"
        /\ \E p \in ReadPolicy(late.of) \cup {view.policy} : view' = [view EXCEPT !.policy = p]
  /\ late' = NoValue
  /\ UNCHANGED <<createVars, storeVars, load, oldLoads, netVars, disc, active, visits>>

\* The slider is dragged: oninput writes into the this.disc there is.  Its
\* onchange, DisclosureClick, may not follow: a render replaces the slider.
DragLimit(limit) ==
  /\ limit # disc.limit
  /\ disc' = [disc EXCEPT !.limit = limit]
  /\ UNCHANGED <<createVars, storeVars, viewVars, netVars, late, active, visits>>

DisclosedAsDragged(phase, commitment) ==   \* mutant: the limit is read again after the await
  [phase |-> phase, limit |-> disc.limit, asked |-> disc.asked, commitment |-> commitment]

Disclosed(phase, commitment) ==
  [phase |-> phase, limit |-> disc.asked, asked |-> disc.asked, commitment |-> commitment]

\* runDisclosure takes the limit and the commitment that are shown ...
DisclosureClick ==
  /\ disc.phase # "proving"
  /\ disc' = [phase |-> IF view.policy = NoValue THEN "error" ELSE "proving",
              limit |-> disc.limit, asked |-> disc.limit, commitment |-> view.policy]
  /\ UNCHANGED <<createVars, storeVars, viewVars, netVars, late, active, visits>>

\* verifyDisclosure: the verifier contract accepts the proof, or a call throws.
VerifyDisclosure == {Disclosed("verified", disc.commitment), Disclosed("error", NoValue)}

\* ... and proves with the secret that is open once load() is done.  The circuit
\* ties the cap to both; proving may throw.
ProveDisclosure ==
  /\ disc.phase = "proving"
  /\ \/ disc.asked < CapOf[Secret] /\ disc' = Disclosed("cannotprove", NoValue)
     \/ /\ disc.asked >= CapOf[Secret] /\ Secret = disc.commitment
        /\ disc' \in VerifyDisclosure
     \/ disc' = Disclosed("error", NoValue)
  /\ UNCHANGED <<createVars, storeVars, viewVars, netVars, late, active, visits>>

SessionNext ==
  \/ ConnectWallet
  \/ \E list \in Allowlists : CreateClick(list)
  \/ DeployThrows \/ DeploySend \/ DeployPolled \/ SaveKeystore
  \/ \E n \in Creation : DeployTaken(n)
  \/ EnterCreatedAccount
  \/ SwitchToDemo
  \/ \E ks \in Keystore : SwitchAccount(ks) \/ ImportKeystore(ks) \/ ImportThrows(ks)
  \/ Visit
  \/ LoadReads \/ LoadShows \/ LoadActivity \/ Reload
  \/ \E a \in AnAccount : OldLoadEnds(a)
  \/ \E what \in {"balance", "policy"} : LateRead(what)
  \/ LateWrite
  \/ \E limit \in Limits : DragLimit(limit)
  \/ DisclosureClick \/ ProveDisclosure

SessionSpec == SessionInit /\ [][SessionNext]_sessionVars

-----------------------------------------------------------------------------
(* Properties                                                              *)

\* The keystore that is open is the active account's, whatever was created,
\* imported, switched to or restored: proofs are never made for one account with
\* another's secret.
ActiveKeystoreFits ==
  IF active.account = Demo THEN active.keystore = NoValue
  ELSE active.keystore # NoValue /\ active.keystore.account = active.account

\* An account that was reported live can be opened again, in this browser or,
\* when its data has been cleared, from the downloaded file.
ReportedMeansRecoverable ==
  \A n \in Creation :
    verdict[n] = "done" => n \in deployed /\ KeystoreOf(n) \in files

\* The browser's sparse tree has the root of the full tree, and its paths are
\* the ones the circuit accepts, whatever list is asked for; so are the
\* scripts' for every place of the one member.
TreesAgree ==
  built # NoValue =>
    /\ built.policy.root = FullRoot(built.list)
    /\ Provable(built.policy)
    /\ \A i \in 0 .. Leaves - 1 : Provable(ComputePolicy(built.list[1], i))

LateIs(a) == late # NoValue /\ a = late.of

\* What is read is only shown in the view it was read for: a policy and payments are
\* always the active account's, whatever loads, switches and admin calls are under
\* way; a balance is another's only by a late write of refreshBalances (app.js 88);
\* and a secret that is not the one proofs are made with is left over from the view
\* before, until load() is done.
LoadsStayInTheirView ==
  [][/\ \/ Dashboard'.balance \in {Dashboard.balance, NoValue, Dashboard'.account}
        \/ LateIs(Dashboard'.balance)
     /\ PolicyScreen'.chain \in {NoValue, active'.account}
     /\ ActivityScreen' \in {NoValue, active'.account}
     /\ \/ PolicyScreen'.device \in {NoValue, Secret'}
        \/ PolicyScreen'.device = PolicyScreen.device /\ load'.step = "secret"]_sessionVars

\* What prove-to-an-auditor.md:14 says of the screen, on which app.js 731 writes
\* "VERIFIED ON-CHAIN" with the limit that the slider was dragged to since, and
\* app.js 721 "Bound to commitment" with the one of the policy that is shown now.
VerifiedAsShown ==
  VerifyScreen.phase = "verified" /\ VerifyScreen.boundTo # NoValue =>
    CapOf[VerifyScreen.boundTo] <= VerifyScreen.limit

\* What is shown as verified becomes untrue in two ways alone: the slider is dragged
\* after the verdict, or another policy comes to be shown.  A slider that is dragged,
\* an account that is switched or a policy that is read while the proof is being made
\* (app.js 118-132, 864) leads to no verdict over another limit or cap than the proof's.
VerdictStaysTrue ==
  [][VerifiedAsShown /\ ~VerifiedAsShown' =>
       \/ disc.phase = "verified" /\ disc'.limit # disc.limit
       \/ view'.policy # view.policy]_sessionVars
=============================================================================
