--------------------------- MODULE BrowserProofs ---------------------------
(***************************************************************************)
(* What runs in the browser, for any number of accounts, calls and sizes:  *)
(* the accounts of a tab, however often they are switched, imported and    *)
(* restored, with the trees of their policies; and the prover that works   *)
(* for them.                                                               *)
(***************************************************************************)
EXTENDS AccountSession, ProverWorker, CircuitProofs

(***************************************************************************)
(* The accounts of a tab.                                                  *)
(***************************************************************************)

OptAccount == AnAccount \cup {NoValue}

ViewType ==
  [balance : OptAccount, policy : OptAccount, secret : OptAccount, activity : OptAccount]

LoadType == [step : {"secret", "reads", "shown", "failed"}, of : OptAccount, listed : BOOLEAN]

SessionTypeOK ==
  /\ create \in [phase : {"idle", "running", "done", "error"},
                 policy : OptAccount, keystore : Creation \cup {NoValue}]
  /\ made \in 0 .. MaxCreates
  /\ at \in {"idle", "signing", "polling", "sealing"}
  /\ at # "idle" => made \in Creation
  /\ verdict \in [Creation -> {"none", "done", "error", "closed"}]
  /\ local \subseteq Keystore /\ unlocked \subseteq Keystore /\ files \subseteq Keystore
  /\ active \in [account : AnAccount, keystore : Keystore \cup {NoValue}]
  /\ view \in ViewType
  /\ load \in LoadType
  /\ late # NoValue => late.of \in AnAccount
  /\ disc \in [phase : {"idle", "proving", "cannotprove", "verified", "error"},
               limit : Nat, asked : Nat, commitment : OptAccount]

LEMMA KeystoreFields ==
  /\ \A n \in Creation : KeystoreOf(n) \in Keystore /\ n \in AnAccount /\ n # Demo
  /\ \A ks \in Keystore : /\ ks.account \in Creation /\ ks.secret \in Creation
                          /\ ks = KeystoreOf(ks.account) /\ ks # NoValue
  BY SessionAssumption DEF Keystore, KeystoreOf, Creation, AnAccount, Demo

\* What is active after a switch, an import or an entry.
LEMMA ActivateTypes ==
  ASSUME NEW a \in AnAccount, NEW ks \in Keystore \cup {NoValue}, Activate(a, ks)
  PROVE  /\ active' \in [account : AnAccount, keystore : Keystore \cup {NoValue}]
         /\ active'.account = a /\ active'.keystore = ks
         /\ view' = KeptView /\ load' = NoLoad /\ late' = LateLeft
  BY DEF Activate, NewView

LEMMA FreshTypes ==
  /\ FreshView \in ViewType
  /\ FreshView.balance = NoValue /\ FreshView.policy = NoValue 
  /\ FreshView.secret = NoValue /\ FreshView.activity = NoValue
  /\ NoLoad \in LoadType /\ NoLoad.step = "secret"
  /\ NoDisc \in [phase : {"idle", "proving", "cannotprove", "verified", "error"},
                 limit : Nat, asked : Nat, commitment : OptAccount]
  /\ NoDisc.phase = "idle"
  BY SessionAssumption DEF FreshView, NoLoad, NoDisc, OptAccount, ViewType, LoadType

LEMMA KeptTypes ==
  ASSUME SessionTypeOK
  PROVE  /\ KeptView \in ViewType
         /\ KeptView.balance = NoValue /\ KeptView.policy = NoValue 
         /\ KeptView.secret = view.secret /\ KeptView.activity = NoValue
  BY FreshTypes DEF KeptView, SessionTypeOK, ViewType

\* The ways in which an account becomes the active one.
Enters ==
  \/ EnterCreatedAccount
  \/ SwitchToDemo
  \/ \E ks \in Keystore : SwitchAccount(ks) \/ ImportKeystore(ks)

LEMMA EntersFits ==
  ASSUME SessionTypeOK, Enters
  PROVE  /\ active' \in [account : AnAccount, keystore : Keystore \cup {NoValue}]
         /\ ActiveKeystoreFits'
         /\ view' = KeptView /\ load' = NoLoad /\ late' = LateLeft
<1>1. CASE EnterCreatedAccount
  <2>1. create.keystore \in Creation
    BY <1>1 DEF EnterCreatedAccount, SessionTypeOK
  <2>2. Activate(create.keystore, KeystoreOf(create.keystore))
    BY <1>1 DEF EnterCreatedAccount
  <2> DEFINE n == create.keystore
  <2>3. KeystoreOf(n) \in Keystore /\ n \in AnAccount /\ n # Demo /\ KeystoreOf(n).account = n
    BY <2>1, KeystoreFields DEF KeystoreOf
  <2> QED
    BY <2>2, <2>3, ActivateTypes, KeystoreFields DEF ActiveKeystoreFits
<1>2. CASE SwitchToDemo
  <2>1. Demo \in AnAccount
    BY SessionAssumption DEF Demo, AnAccount
  <2> QED
    BY <1>2, <2>1, ActivateTypes DEF SwitchToDemo, ActiveKeystoreFits
<1>3. ASSUME NEW ks \in Keystore, SwitchAccount(ks) \/ ImportKeystore(ks)
      PROVE  /\ active' \in [account : AnAccount, keystore : Keystore \cup {NoValue}]
             /\ ActiveKeystoreFits'
             /\ view' = KeptView /\ load' = NoLoad /\ late' = LateLeft
  <2>1. Activate(ks.account, ks)
    BY <1>3 DEF SwitchAccount, ImportKeystore
  <2> QED
    BY <2>1, ActivateTypes, KeystoreFields DEF ActiveKeystoreFits
<1> QED
  BY <1>1, <1>2, <1>3 DEF Enters

\* The restored account, or the demo account.
LEMMA VisitFits ==
  ASSUME SessionTypeOK, Visit
  PROVE  /\ active' \in [account : AnAccount, keystore : Keystore \cup {NoValue}]
         /\ ActiveKeystoreFits'
         /\ view' = FreshView /\ load' = NoLoad /\ disc' = NoDisc /\ late' = NoValue
         /\ unlocked' \subseteq unlocked /\ local' \subseteq local /\ files' = files
<1>1. unlocked' \subseteq unlocked /\ local' \subseteq local /\ files' = files
  BY DEF Visit
<1>2. view' = FreshView /\ load' = NoLoad /\ disc' = NoDisc /\ late' = NoValue
  BY DEF Visit
<1>3. \/ active' = [account |-> Demo, keystore |-> NoValue]
      \/ \E ks \in unlocked' : active' = [account |-> ks.account, keystore |-> ks]
  BY DEF Visit
<1>4. Demo \in AnAccount
  BY SessionAssumption DEF Demo, AnAccount
<1>5. CASE active' = [account |-> Demo, keystore |-> NoValue]
  BY <1>1, <1>2, <1>4, <1>5 DEF ActiveKeystoreFits
<1>6. ASSUME NEW ks \in unlocked', active' = [account |-> ks.account, keystore |-> ks]
      PROVE  /\ active' \in [account : AnAccount, keystore : Keystore \cup {NoValue}]
             /\ ActiveKeystoreFits'
  <2>1. ks \in Keystore
    BY <1>1, <1>6 DEF SessionTypeOK
  <2>2. ks.account \in AnAccount /\ ks.account # Demo /\ ks # NoValue
    BY <2>1, KeystoreFields
  <2> QED
    BY <1>6, <2>1, <2>2 DEF ActiveKeystoreFits
<1> QED
  BY <1>1, <1>2, <1>3, <1>5, <1>6

-----------------------------------------------------------------------------
(* Types.                                                                  *)

\* Creating an account leaves alone what is active and what is shown.
Creates ==
  \/ ConnectWallet
  \/ \E list \in Allowlists : CreateClick(list)
  \/ DeployThrows \/ DeploySend \/ DeployPolled \/ SaveKeystore
  \/ \E n \in Creation : DeployTaken(n)

\* What is shown changes without any account being touched.
Looks ==
  \/ LoadReads \/ LoadShows \/ LoadActivity \/ Reload
  \/ \E a \in AnAccount : OldLoadEnds(a)
  \/ \E what \in {"balance", "policy"} : LateRead(what)
  \/ LateWrite
  \/ \E limit \in Limits : DragLimit(limit)
  \/ DisclosureClick \/ ProveDisclosure

\* A keystore is stored again, but not entered.
Restores == \E ks \in Keystore : ImportThrows(ks)

LEMMA SessionSteps == SessionNext => Creates \/ Enters \/ Restores \/ Visit \/ Looks
  BY DEF SessionNext, Creates, Enters, Restores, Looks

LEMMA RestoresLeaves ==
  Restores => /\ UNCHANGED <<create, made, at, verdict, deployed, unlocked, files, active, view, load, late, disc>>
              /\ \E ks \in Keystore : local' = local \cup {ks}
  BY DEF Restores, ImportThrows, SaveLocal, createVars, netVars, viewVars, readVars

LEMMA CreatesLeaves == Creates => UNCHANGED <<active, viewVars, readVars>>
  BY DEF Creates, ConnectWallet, CreateClick, DeployThrows, DeploySend, DeployPolled, SaveKeystore,
         DeployTaken, viewVars, readVars

LEMMA LooksLeaves == Looks => UNCHANGED <<active, createVars, storeVars, netVars>>
  BY DEF Looks, LoadReads, LoadShows, SacBalance, ReadPolicy, LoadActivity, Reload, OldLoadEnds, LateRead, LateWrite, DragLimit,
         DisclosureClick, ProveDisclosure, VerifyDisclosure, viewVars, readVars

CreateType == [phase : {"idle", "running", "done", "error"},
               policy : OptAccount, keystore : Creation \cup {NoValue}]

\* The types of what Creates writes.
CreateTypeOK ==
  /\ create \in CreateType
  /\ made \in 0 .. MaxCreates
  /\ at \in {"idle", "signing", "polling", "sealing"}
  /\ at # "idle" => made \in Creation
  /\ verdict \in [Creation -> {"none", "done", "error", "closed"}]
  /\ local \subseteq Keystore /\ unlocked \subseteq Keystore /\ files \subseteq Keystore

LEMMA CreateEndsTypes ==
  ASSUME CreateTypeOK, at # "idle", NEW how \in {"done", "error", "closed"}, CreateEnds(how)
  PROVE  /\ verdict' \in [Creation -> {"none", "done", "error", "closed"}]
         /\ at' = "idle" /\ verdict'[made] = how
         /\ \A n \in Creation \ {made} : verdict'[n] = verdict[n]
  BY DEF CreateTypeOK, CreateEnds

LEMMA CreatesTypes == CreateTypeOK /\ Creates => CreateTypeOK'
<1> SUFFICES ASSUME CreateTypeOK, Creates PROVE CreateTypeOK'
  OBVIOUS
<1> USE DEF storeVars, netVars, createVars
<1>1. ASSUME NEW list \in Allowlists, CreateClick(list) PROVE CreateTypeOK'
  <2>1. made' \in Creation /\ made' \in OptAccount /\ made' \in 0 .. MaxCreates
    BY <1>1, SessionAssumption DEF CreateClick, CreateTypeOK, Creation, OptAccount, AnAccount
  <2>2. create' \in CreateType
    BY <1>1, <2>1 DEF CreateClick, CreateTypeOK, CreateType
  <2> QED
    BY <1>1, <2>1, <2>2 DEF CreateClick, CreateTypeOK
<1>2. ASSUME DeployThrows \/ DeployPolled PROVE CreateTypeOK'
  <2>1. create' \in CreateType
    BY <1>2 DEF DeployThrows, DeployPolled, DeployStatus, CreateTypeOK, CreateType
  <2>2. \/ CreateEnds("error")
        \/ at' = "sealing" /\ UNCHANGED verdict
    BY <1>2 DEF DeployThrows, DeployPolled, DeployStatus
  <2>3. at # "idle" /\ UNCHANGED <<made, local, unlocked, files>>
    BY <1>2 DEF DeployThrows, DeployPolled, DeployStatus
  <2> QED
    BY <2>1, <2>2, <2>3, CreateEndsTypes DEF CreateTypeOK
<1>3. ASSUME SaveKeystore PROVE CreateTypeOK'
  <2>1. made \in Creation /\ KeystoreOf(made) \in Keystore
    BY <1>3, KeystoreFields DEF SaveKeystore, CreateTypeOK
  <2>2. \/ create' = [create EXCEPT !.phase = "done", !.keystore = made]
        \/ create' = [create EXCEPT !.phase = "error"]
    BY <1>3 DEF SaveKeystore
  <2>3. create' \in CreateType
    BY <2>1, <2>2 DEF CreateTypeOK, CreateType
  <2>4. (CreateEnds("done") \/ CreateEnds("error")) /\ at # "idle" /\ made' = made
    BY <1>3 DEF SaveKeystore
  <2>5. local' \subseteq Keystore /\ unlocked' \subseteq Keystore /\ files' \subseteq Keystore
    BY <1>3, <2>1 DEF SaveKeystore, SaveLocal, SaveUnlocked, Download, CreateTypeOK
  <2> QED
    BY <2>3, <2>4, <2>5, CreateEndsTypes DEF CreateTypeOK
<1>4. ASSUME ConnectWallet \/ DeploySend \/ \E n \in Creation : DeployTaken(n) PROVE CreateTypeOK'
  BY <1>4 DEF ConnectWallet, DeploySend, DeployTaken, CreateTypeOK
<1> QED
  BY <1>1, <1>2, <1>3, <1>4 DEF Creates

\* Entering an account and visiting change them less.
LEMMA EntersCreateTypes == SessionTypeOK /\ (Enters \/ Visit) => CreateTypeOK'
<1> SUFFICES ASSUME SessionTypeOK, Enters \/ Visit PROVE CreateTypeOK'
  OBVIOUS
<1>1. CreateTypeOK
  BY DEF SessionTypeOK, CreateTypeOK, CreateType
<1>2. [phase |-> "idle", policy |-> NoValue, keystore |-> NoValue] \in CreateType
  BY DEF CreateType, OptAccount
<1>3. CASE EnterCreatedAccount
  BY <1>1, <1>2, <1>3 DEF EnterCreatedAccount, CreateTypeOK
<1>4. CASE SwitchToDemo
  BY <1>1, <1>4 DEF SwitchToDemo, CreateTypeOK, createVars
<1>5. ASSUME NEW ks \in Keystore, SwitchAccount(ks) \/ ImportKeystore(ks) PROVE CreateTypeOK'
  BY <1>1, <1>5 DEF SwitchAccount, ImportKeystore, SaveLocal, SaveUnlocked, CreateTypeOK, createVars
<1>6. CASE Visit
  <2>1. create' \in CreateType /\ made' = made
    BY <1>2, <1>6 DEF Visit
  <2>2. local' \subseteq Keystore /\ unlocked' \subseteq Keystore /\ files' \subseteq Keystore
    BY <1>1, <1>6, VisitFits DEF CreateTypeOK
  <2>3. IF at = "idle" THEN at' = at /\ verdict' = verdict ELSE CreateEnds("closed")
    BY <1>6 DEF Visit
  <2> QED
    BY <1>1, <2>1, <2>2, <2>3, CreateEndsTypes DEF CreateTypeOK
<1> QED
  BY <1>3, <1>4, <1>5, <1>6 DEF Enters

LEMMA LooksTypes == SessionTypeOK /\ Looks => SessionTypeOK'
<1> SUFFICES ASSUME SessionTypeOK, Looks PROVE SessionTypeOK'
  OBVIOUS
<1> USE DEF viewVars, readVars
<1> DEFINE Disc == [phase : {"idle", "proving", "cannotprove", "verified", "error"},
                    limit : Nat, asked : Nat, commitment : OptAccount]
<1>1. active \in [account : AnAccount, keystore : Keystore \cup {NoValue}] /\ active.account \in AnAccount
  BY DEF SessionTypeOK
<1>2. view \in ViewType /\ load \in LoadType /\ disc \in Disc /\ (late # NoValue => late.of \in AnAccount)
  BY DEF SessionTypeOK
<1>3. /\ view' \in ViewType /\ load' \in LoadType /\ disc' \in Disc /\ (late' # NoValue => late'.of \in AnAccount)
  <2>1. CASE LoadReads
    <3>1. PICK secret \in LoadSecret : view' = [view EXCEPT !.secret = secret]
      BY <2>1 DEF LoadReads
    <3>2. secret \in OptAccount
      <4>1. Secret \in AnAccount
        BY <1>1, KeystoreFields, SessionAssumption DEF Secret, Demo, AnAccount, Creation
      <4> QED
        BY <3>1, <4>1 DEF LoadSecret, OptAccount
    <3>3. view' \in ViewType
      BY <1>2, <3>1, <3>2 DEF ViewType
    <3> QED
      BY <1>1, <1>2, <2>1, <3>3 DEF LoadReads, OptAccount, NoLoad, LoadType
  <2>2. CASE LoadShows
    <3>1. PICK b \in {load.of, NoValue}, p \in {load.of, NoValue} :
            view' = [view EXCEPT !.balance = b, !.policy = p]
      BY <2>2 DEF LoadShows, SacBalance, ReadPolicy
    <3>2. b \in OptAccount /\ p \in OptAccount
      BY <1>2 DEF OptAccount, LoadType
    <3>3. view' \in ViewType
      BY <1>2, <3>1, <3>2 DEF ViewType
    <3> QED
      BY <1>2, <2>2, <3>3 DEF LoadShows, SacBalance, ReadPolicy, LoadType
  <2>8. CASE LoadActivity
    <3>1. PICK a \in {load.of, NoValue} : view' = [view EXCEPT !.activity = a]
      BY <2>8 DEF LoadActivity, RecentActivity
    <3>2. a \in OptAccount
      BY <1>2 DEF OptAccount, LoadType
    <3>3. view' \in ViewType
      BY <1>2, <3>1, <3>2 DEF ViewType
    <3> QED
      BY <1>2, <2>8, <3>3 DEF LoadActivity, RecentActivity, LoadType
  <2>3. CASE Reload \/ \E a \in AnAccount : OldLoadEnds(a)
    BY <1>2, <2>3, FreshTypes DEF Reload, OldLoadEnds, LateLeft
  <2>4. CASE \E what \in {"balance", "policy"} : LateRead(what)
    BY <1>1, <1>2, <2>4 DEF LateRead
  <2>5. CASE LateWrite
    <3>1. late.of \in OptAccount /\ UNCHANGED <<load, disc>> /\ late' = NoValue
      BY <1>2, <2>5 DEF LateWrite, OptAccount
    <3>2. PICK v \in {late.of, NoValue, view.policy} :
            view' \in {[view EXCEPT !.balance = v], [view EXCEPT !.policy = v]}
      BY <2>5 DEF LateWrite, SacBalance, ReadPolicy
    <3>4. v \in OptAccount
      BY <1>2, <3>1, <3>2 DEF ViewType, OptAccount
    <3>3. view' \in ViewType
      BY <1>2, <3>2, <3>4 DEF ViewType
    <3> QED
      BY <1>2, <3>1, <3>3
  <2>6. ASSUME NEW limit \in Limits, DragLimit(limit)
        PROVE  <1>3
    BY <1>2, <2>6, SessionAssumption DEF DragLimit
  <2>7. CASE DisclosureClick \/ ProveDisclosure
    BY <1>2, <2>7 DEF DisclosureClick, ProveDisclosure, VerifyDisclosure, Disclosed, OptAccount, ViewType
  <2> QED
    BY <2>1, <2>2, <2>3, <2>4, <2>5, <2>6, <2>7, <2>8 DEF Looks
<1> QED
  BY <1>3, LooksLeaves DEF SessionTypeOK, createVars, storeVars

LEMMA SessionTypesStep == SessionTypeOK /\ [SessionNext]_sessionVars => SessionTypeOK'
<1> SUFFICES ASSUME SessionTypeOK, [SessionNext]_sessionVars PROVE SessionTypeOK'
  OBVIOUS
<1>1. CreateTypeOK
  BY DEF SessionTypeOK, CreateTypeOK, CreateType
<1>2. CASE Creates
  BY <1>1, <1>2, CreatesTypes, CreatesLeaves DEF SessionTypeOK, CreateTypeOK, CreateType, viewVars, readVars
<1>3. CASE Enters
  <2>1. disc' = disc
    BY <1>3 DEF Enters, EnterCreatedAccount, SwitchToDemo, SwitchAccount, ImportKeystore
  <2>2. late' # NoValue => late'.of \in AnAccount
    BY <1>3, EntersFits DEF LateLeft, SessionTypeOK
  <2> QED
    BY <1>3, <2>1, <2>2, EntersFits, EntersCreateTypes, FreshTypes, KeptTypes
    DEF SessionTypeOK, CreateTypeOK, CreateType
<1>4. CASE Visit
  BY <1>4, VisitFits, EntersCreateTypes, FreshTypes DEF SessionTypeOK, CreateTypeOK, CreateType
<1>5. CASE UNCHANGED sessionVars
  BY <1>5 DEF sessionVars, createVars, storeVars, viewVars, readVars, SessionTypeOK
<1>6. CASE Restores
  BY <1>6, RestoresLeaves DEF SessionTypeOK
<1> QED
  BY <1>2, <1>3, <1>4, <1>5, <1>6, LooksTypes, SessionSteps

-----------------------------------------------------------------------------
(* Invariants.                                                             *)

LEMMA FitsStep == SessionTypeOK /\ ActiveKeystoreFits /\ [SessionNext]_sessionVars => ActiveKeystoreFits'
<1> SUFFICES ASSUME SessionTypeOK, ActiveKeystoreFits, [SessionNext]_sessionVars PROVE ActiveKeystoreFits'
  OBVIOUS
<1>1. CASE active' = active
  BY <1>1 DEF ActiveKeystoreFits
<1>2. Creates \/ Restores \/ Looks \/ UNCHANGED sessionVars => active' = active
  BY CreatesLeaves, RestoresLeaves, LooksLeaves DEF sessionVars
<1> QED
  BY <1>1, <1>2, EntersFits, VisitFits, SessionSteps

\* A keystore is sealed once its account is on the ledger.
SavedInv ==
  /\ at = "sealing" => made \in deployed
  /\ ReportedMeansRecoverable

LEMMA SavedStep == SessionTypeOK /\ SavedInv /\ [SessionNext]_sessionVars => SavedInv'
<1> SUFFICES ASSUME SessionTypeOK, SavedInv, [SessionNext]_sessionVars PROVE SavedInv'
  OBVIOUS
<1> USE DEF createVars, storeVars, netVars
<1>0. CreateTypeOK
  BY DEF SessionTypeOK, CreateTypeOK, CreateType
\* Nothing is reported, and what was reported is kept.
<1>1. ASSUME deployed \subseteq deployed', files \subseteq files',
             \A n \in Creation : verdict'[n] = "done" => verdict[n] = "done",
             at' = "sealing" => made' \in deployed'
      PROVE  SavedInv'
  BY <1>1 DEF SavedInv, ReportedMeansRecoverable
<1>2. ASSUME NEW how \in {"error", "closed"}, at # "idle", CreateEnds(how), UNCHANGED <<deployed, files>>
      PROVE  SavedInv'
  <2>1. \A n \in Creation : verdict'[n] = "done" => verdict[n] = "done"
    BY <1>0, <1>2, CreateEndsTypes
  <2> QED
    BY <1>1, <1>2, <2>1 DEF CreateEnds
<1>3. CASE SaveKeystore
  <2>1. UNCHANGED <<made, deployed>> /\ at = "sealing" /\ made \in deployed
    BY <1>3 DEF SaveKeystore, SavedInv
  <2>2. CASE CreateEnds("error") /\ files' = files
    BY <1>2, <2>1, <2>2
  <2>4. CASE CreateEnds("error") /\ files' = files \cup {KeystoreOf(made)}
    <3>1. \A n \in Creation : verdict'[n] = "done" => verdict[n] = "done"
      BY <1>0, <2>1, <2>4, CreateEndsTypes
    <3> QED
      BY <1>1, <2>1, <2>4, <3>1 DEF CreateEnds
  <2>3. CASE CreateEnds("done") /\ files' = files \cup {KeystoreOf(made)}
    <3>1. at' = "idle" /\ \A n \in Creation \ {made} : verdict'[n] = verdict[n]
      BY <1>0, <2>1, <2>3, CreateEndsTypes
    <3> QED
      BY <2>1, <2>3, <3>1 DEF SavedInv, ReportedMeansRecoverable
  <2> QED
    BY <1>3, <2>2, <2>3, <2>4 DEF SaveKeystore, Download
<1>4. CASE DeployThrows \/ DeployPolled
  <2>1. UNCHANGED <<made, deployed, files>> /\ at # "idle"
    BY <1>4 DEF DeployThrows, DeployPolled, DeployStatus
  <2>2. CreateEnds("error") \/ (at' = "sealing" /\ made \in deployed /\ verdict' = verdict)
    BY <1>4 DEF DeployThrows, DeployPolled, DeployStatus
  <2> QED
    BY <1>1, <1>2, <2>1, <2>2
<1>5. CASE \/ ConnectWallet \/ DeploySend \/ \E list \in Allowlists : CreateClick(list)
           \/ \E n \in Creation : DeployTaken(n)
  <2>1. /\ deployed \subseteq deployed' /\ files' = files /\ verdict' = verdict
        /\ at' = "sealing" => at = "sealing" /\ made' = made
    BY <1>5 DEF ConnectWallet, DeploySend, CreateClick, DeployTaken
  <2> QED
    BY <1>1, <2>1 DEF SavedInv
<1>6. CASE Enters
  <2>1. UNCHANGED <<deployed, files, verdict, at, made>>
    BY <1>6 DEF Enters, EnterCreatedAccount, SwitchToDemo, SwitchAccount, ImportKeystore
  <2> QED
    BY <1>1, <2>1 DEF SavedInv
<1>7. CASE Visit
  <2>1. /\ UNCHANGED <<deployed, files, made>>
        /\ IF at = "idle" THEN at' = at /\ verdict' = verdict ELSE CreateEnds("closed")
    BY <1>7 DEF Visit
  <2> QED
    BY <1>1, <1>2, <2>1
<1>8. Restores \/ Looks \/ UNCHANGED sessionVars => UNCHANGED <<deployed, files, verdict, at, made>>
  BY RestoresLeaves, LooksLeaves DEF sessionVars
<1>9. CASE UNCHANGED <<deployed, files, verdict, at, made>>
  BY <1>9 DEF SavedInv, ReportedMeansRecoverable
<1> QED
  BY <1>3, <1>4, <1>5, <1>6, <1>7, <1>8, <1>9, SessionSteps DEF Creates

\* What a late write comes to.
LEMMA LateWrites ==
  ASSUME SessionTypeOK, LateWrite
  PROVE  /\ late # NoValue /\ late' = NoValue /\ UNCHANGED <<active, load, disc>>
         /\ view'.secret = view.secret /\ view'.activity = view.activity
         /\ \/ /\ late.what = "balance" /\ view'.policy = view.policy
               /\ view'.balance \in {late.of, NoValue}
            \/ /\ late.what = "policy" /\ view'.balance = view.balance
               /\ view'.policy \in {late.of, NoValue, view.policy}
<1>1. late # NoValue /\ late' = NoValue /\ UNCHANGED <<active, load, disc>>
  BY DEF LateWrite
<1>2. CASE late.what = "balance" /\ \E b \in {late.of, NoValue} : view' = [view EXCEPT !.balance = b]
  BY <1>1, <1>2 DEF SessionTypeOK, ViewType
<1>3. CASE /\ late.what = "policy"
           /\ \E p \in {late.of, NoValue, view.policy} : view' = [view EXCEPT !.policy = p]
  BY <1>1, <1>3 DEF SessionTypeOK, ViewType
<1> QED
  BY <1>2, <1>3 DEF LateWrite, SacBalance, ReadPolicy

\* The load of the current view is about the active account, and so is the secret
\* that is shown once it reads.
LoadInv ==
  load.step # "secret" => load.of = active.account /\ view.secret \in {NoValue, Secret}

LEMMA LoadStep == SessionTypeOK /\ LoadInv /\ [SessionNext]_sessionVars => LoadInv'
<1> SUFFICES ASSUME SessionTypeOK, LoadInv, [SessionNext]_sessionVars PROVE LoadInv'
  OBVIOUS
<1> USE DEF viewVars, Secret
<1>1. CASE UNCHANGED <<active, load>> /\ view'.secret = view.secret
  BY <1>1 DEF LoadInv
<1>2. CASE load' = NoLoad
  BY <1>2, FreshTypes DEF LoadInv
<1>3. CASE LoadReads
  <2>1. PICK secret \in LoadSecret : view' = [view EXCEPT !.secret = secret]
    BY <1>3 DEF LoadReads
  <2>2. view'.secret = secret /\ secret \in {NoValue, Secret}
    BY <2>1 DEF SessionTypeOK, LoadSecret, ViewType
  <2> QED
    BY <1>3, <2>2 DEF LoadReads, LoadInv, NoLoad
<1>4. CASE LoadShows
  <2>1. view'.secret = view.secret
    BY <1>4 DEF LoadShows, SacBalance, ReadPolicy, SessionTypeOK, ViewType
  <2>2. load'.of = load.of /\ load.step # "secret" /\ active' = active
    BY <1>4 DEF LoadShows, SacBalance, ReadPolicy, SessionTypeOK, LoadType
  <2> QED
    BY <2>1, <2>2 DEF LoadInv
<1>9. CASE LoadActivity
  <2>1. view'.secret = view.secret
    BY <1>9 DEF LoadActivity, RecentActivity, SessionTypeOK, ViewType
  <2>2. load'.of = load.of /\ load.step # "secret" /\ active' = active
    BY <1>9 DEF LoadActivity, RecentActivity, SessionTypeOK, LoadType
  <2> QED
    BY <2>1, <2>2 DEF LoadInv
<1>5. CASE LateWrite
  BY <1>1, <1>5, LateWrites DEF LateWrite
<1>6. CASE \/ \E a \in AnAccount : OldLoadEnds(a)
           \/ \E what \in {"balance", "policy"} : LateRead(what)
           \/ \E limit \in Limits : DragLimit(limit)
           \/ DisclosureClick \/ ProveDisclosure
  BY <1>1, <1>6 DEF OldLoadEnds, LateRead, DragLimit, DisclosureClick, ProveDisclosure, VerifyDisclosure
<1>7. Creates \/ Restores \/ UNCHANGED sessionVars => UNCHANGED <<active, load, view>>
  BY CreatesLeaves, RestoresLeaves DEF sessionVars
<1>8. Reload => load' = NoLoad
  BY DEF Reload
<1> QED
  BY <1>1, <1>2, <1>3, <1>4, <1>5, <1>6, <1>7, <1>8, <1>9, EntersFits, VisitFits, SessionSteps DEF Looks

\* The policy and the payments that are shown are the active account's, and so is
\* the policy that runAdmin is still to write.
ShownInv ==
  /\ view.policy \in {NoValue, active.account}
  /\ view.activity \in {NoValue, active.account}
  /\ late # NoValue /\ late.what = "policy" => late.of = active.account

LEMMA ShownStep == SessionTypeOK /\ LoadInv /\ ShownInv /\ [SessionNext]_sessionVars => ShownInv'
<1> SUFFICES ASSUME SessionTypeOK, LoadInv, ShownInv, [SessionNext]_sessionVars PROVE ShownInv'
  OBVIOUS
<1> USE DEF viewVars, readVars
<1>1. CASE UNCHANGED <<active, late>> /\ view'.policy = view.policy /\ view'.activity = view.activity
  BY <1>1 DEF ShownInv
<1>2. CASE Enters
  BY <1>2, EntersFits, KeptTypes DEF ShownInv, LateLeft
<1>3. CASE Visit
  BY <1>3, VisitFits, FreshTypes DEF ShownInv
<1>4. CASE LoadReads
  BY <1>1, <1>4 DEF LoadReads, SessionTypeOK, ViewType
<1>5. CASE LoadShows
  <2>1. PICK b \in {load.of, NoValue}, p \in {load.of, NoValue} :
          view' = [view EXCEPT !.balance = b, !.policy = p]
    BY <1>5 DEF LoadShows, SacBalance, ReadPolicy
  <2>2. view'.policy = p /\ view'.activity = view.activity
    BY <2>1 DEF SessionTypeOK, ViewType
  <2>3. load.of = active.account /\ UNCHANGED <<active, late>>
    BY <1>5 DEF LoadShows, LoadInv
  <2> QED
    BY <2>2, <2>3 DEF ShownInv
<1>6. CASE LoadActivity
  <2>1. PICK a \in {load.of, NoValue} : view' = [view EXCEPT !.activity = a]
    BY <1>6 DEF LoadActivity, RecentActivity
  <2>2. view'.activity = a /\ view'.policy = view.policy
    BY <2>1 DEF SessionTypeOK, ViewType
  <2>3. load.of = active.account /\ UNCHANGED <<active, late>>
    BY <1>6 DEF LoadActivity, LoadInv
  <2> QED
    BY <2>2, <2>3 DEF ShownInv
<1>7. CASE LateWrite
  BY <1>7, LateWrites DEF ShownInv
<1>8. CASE Reload
  BY <1>8 DEF Reload, LateLeft, ShownInv
<1>9. ASSUME NEW what \in {"balance", "policy"}, LateRead(what)
      PROVE  ShownInv'
  BY <1>9 DEF LateRead, ShownInv
<1>10. CASE \/ \E a \in AnAccount : OldLoadEnds(a)
            \/ \E limit \in Limits : DragLimit(limit)
            \/ DisclosureClick \/ ProveDisclosure
  BY <1>1, <1>10 DEF OldLoadEnds, DragLimit, DisclosureClick, ProveDisclosure, VerifyDisclosure
<1>11. Creates \/ Restores \/ UNCHANGED sessionVars => UNCHANGED <<active, view, late>>
  BY CreatesLeaves, RestoresLeaves DEF sessionVars
<1> QED
  BY <1>1, <1>2, <1>3, <1>4, <1>5, <1>6, <1>7, <1>8, <1>9, <1>10, <1>11, SessionSteps DEF Looks

\* What a step may write into a view.
StaysInView ==
  /\ \/ Dashboard'.balance \in {Dashboard.balance, NoValue, Dashboard'.account}
     \/ LateIs(Dashboard'.balance)
  /\ PolicyScreen'.chain \in {NoValue, active'.account}
  /\ ActivityScreen' \in {NoValue, active'.account}
  /\ \/ PolicyScreen'.device \in {NoValue, Secret'}
     \/ PolicyScreen'.device = PolicyScreen.device /\ load'.step = "secret"

LEMMA ViewStep == SessionTypeOK /\ LoadInv /\ ShownInv /\ [SessionNext]_sessionVars => StaysInView
<1> SUFFICES ASSUME SessionTypeOK, LoadInv, ShownInv, [SessionNext]_sessionVars PROVE StaysInView
  OBVIOUS
<1> USE DEF viewVars
<1> DEFINE Balance == view'.balance \in {view.balance, NoValue, active'.account} \/ LateIs(view'.balance)
           \* The column of the device, by what the load is about.
           Device == \/ view'.secret \in {NoValue, Secret'}
                     \/ view'.secret = view.secret /\ load'.step = "secret"
<1>1. view'.secret = view.secret => Device
  BY LoadStep DEF LoadInv
<1>0. ShownInv'
  BY ShownStep
<1>11. Balance /\ Device => StaysInView
  BY <1>0 DEF StaysInView, Dashboard, PolicyScreen, ActivityScreen, ShownInv
<1>2. CASE view' = view
  BY <1>1, <1>2, <1>11
<1>3. CASE Enters
  BY <1>1, <1>3, <1>11, EntersFits, KeptTypes
<1>4. CASE Visit
  BY <1>4, <1>11, VisitFits, FreshTypes
<1>5. CASE LoadReads
  <2>1. PICK secret \in LoadSecret : view' = [view EXCEPT !.secret = secret]
    BY <1>5 DEF LoadReads
  <2>2. view'.balance = view.balance /\ view'.secret = secret
    BY <2>1 DEF SessionTypeOK, ViewType
  <2>3. secret \in {NoValue, Secret'}
    BY <1>5, <2>1 DEF LoadReads, LoadSecret, Secret
  <2> QED
    BY <2>2, <2>3, <1>11
<1>6. CASE LoadShows
  <2>1. PICK b \in {load.of, NoValue}, p \in {load.of, NoValue} :
          view' = [view EXCEPT !.balance = b, !.policy = p]
    BY <1>6 DEF LoadShows, SacBalance, ReadPolicy
  <2>2. view'.balance = b /\ view'.secret = view.secret
    BY <2>1 DEF SessionTypeOK, ViewType
  <2>3. load.of = active'.account
    BY <1>6 DEF LoadShows, LoadInv
  <2> QED
    BY <1>1, <1>11, <2>2, <2>3
<1>7. CASE LateWrite
  BY <1>1, <1>7, <1>11, LateWrites DEF LateIs
<1>8. CASE \/ Reload
           \/ \E a \in AnAccount : OldLoadEnds(a)
           \/ \E what \in {"balance", "policy"} : LateRead(what)
           \/ \E limit \in Limits : DragLimit(limit)
           \/ DisclosureClick \/ ProveDisclosure
  BY <1>2, <1>8 DEF Reload, OldLoadEnds, LateRead, DragLimit, DisclosureClick, ProveDisclosure, VerifyDisclosure
<1>9. Creates \/ Restores \/ UNCHANGED sessionVars => view' = view
  BY CreatesLeaves, RestoresLeaves DEF sessionVars
<1>10. CASE LoadActivity
  <2>1. view'.balance = view.balance /\ view'.secret = view.secret
    BY <1>10 DEF LoadActivity, RecentActivity, SessionTypeOK, ViewType
  <2> QED
    BY <1>1, <1>11, <2>1
<1> QED
  BY <1>2, <1>3, <1>4, <1>5, <1>6, <1>7, <1>8, <1>9, <1>10, SessionSteps DEF Looks

\* How a verdict that was true can cease to be.
LEMMA DisclosureStep ==
  SessionTypeOK /\ ActiveKeystoreFits /\ ShownInv /\ [SessionNext]_sessionVars
    => (VerifiedAsShown /\ ~VerifiedAsShown' =>
          \/ disc.phase = "verified" /\ disc'.limit # disc.limit
          \/ view'.policy # view.policy)
<1> SUFFICES ASSUME SessionTypeOK, ActiveKeystoreFits, ShownInv, [SessionNext]_sessionVars,
                    view'.policy = view.policy, VerifiedAsShown,
                    disc.phase = "verified" => disc'.limit = disc.limit
             PROVE  VerifiedAsShown'
  OBVIOUS
<1> USE DEF readVars, VerifyScreen
<1>1. CASE disc' = disc
  BY <1>1 DEF VerifiedAsShown
<1>2. CASE disc'.phase # "verified"
  BY <1>2 DEF VerifiedAsShown
<1>3. CASE DisclosureClick
  BY <1>2, <1>3 DEF DisclosureClick
<1>8. ASSUME NEW limit \in Limits, DragLimit(limit) PROVE VerifiedAsShown'
  <2>1. disc'.phase = disc.phase
    BY <1>8 DEF DragLimit, SessionTypeOK
  <2> QED
    BY <1>8, <2>1 DEF VerifiedAsShown
<1>4. CASE ProveDisclosure
  <2>1. CASE disc' = Disclosed("verified", disc.commitment) /\ disc.asked >= CapOf[Secret] /\ Secret = disc.commitment
    <3>1. Secret = active.account
      BY KeystoreFields DEF Secret, SessionTypeOK, ActiveKeystoreFits, KeystoreOf
    <3>2. view'.policy # NoValue => view'.policy = Secret
      BY <3>1 DEF ShownInv
    <3> QED
      BY <2>1, <3>2 DEF VerifiedAsShown, Disclosed
  <2>2. CASE disc' = Disclosed("cannotprove", NoValue) \/ disc' = Disclosed("error", NoValue)
    BY <1>2, <2>2 DEF Disclosed
  <2> QED
    BY <1>4, <2>1, <2>2 DEF ProveDisclosure, VerifyDisclosure
<1>5. Creates \/ Enters \/ Restores \/ UNCHANGED sessionVars => disc' = disc
  BY CreatesLeaves, RestoresLeaves DEF sessionVars, Enters, EnterCreatedAccount, SwitchToDemo, SwitchAccount, ImportKeystore
<1>6. Visit => disc'.phase # "verified"
  BY VisitFits, FreshTypes
<1>7. \/ LoadReads \/ LoadShows \/ LoadActivity \/ Reload \/ LateWrite
      \/ \E a \in AnAccount : OldLoadEnds(a)
      \/ \E what \in {"balance", "policy"} : LateRead(what)
      => disc' = disc
  BY DEF LoadReads, LoadShows, SacBalance, ReadPolicy, LoadActivity, Reload, OldLoadEnds, LateRead, LateWrite
<1> QED
  BY <1>1, <1>2, <1>3, <1>4, <1>5, <1>6, <1>7, <1>8, SessionSteps DEF Looks

LEMMA SessionInits ==
  SessionInit => SessionTypeOK /\ ActiveKeystoreFits /\ SavedInv /\ LoadInv /\ ShownInv
<1> SUFFICES ASSUME SessionInit
             PROVE  SessionTypeOK /\ ActiveKeystoreFits /\ SavedInv /\ LoadInv /\ ShownInv
  OBVIOUS
<1>1. SessionTypeOK
  BY SessionAssumption, FreshTypes DEF SessionInit, SessionTypeOK, OptAccount, Demo, AnAccount
<1>2. ActiveKeystoreFits
  BY DEF SessionInit, ActiveKeystoreFits
<1>3. SavedInv
  BY DEF SessionInit, SavedInv, ReportedMeansRecoverable
<1>4. LoadInv /\ ShownInv
  BY FreshTypes DEF SessionInit, LoadInv, ShownInv
<1> QED
  BY <1>1, <1>2, <1>3, <1>4

\* What is built is the policy of an allowlist.
BuiltInv == built # NoValue => \E list \in Allowlists : built = NewPolicy(list)

LEMMA BuiltStep == BuiltInv /\ [SessionNext]_sessionVars => BuiltInv'
<1> SUFFICES ASSUME BuiltInv, [SessionNext]_sessionVars PROVE BuiltInv'
  OBVIOUS
<1>1. CASE UNCHANGED built
  BY <1>1 DEF BuiltInv
<1>2. CASE built' = NoValue
  BY <1>2 DEF BuiltInv
<1>3. CASE \E list \in Allowlists : CreateClick(list)
  BY <1>3 DEF CreateClick, BuiltInv
<1>4. CASE \/ ConnectWallet \/ DeployThrows \/ DeploySend \/ DeployPolled \/ SaveKeystore
           \/ \E n \in Creation : DeployTaken(n)
  BY <1>1, <1>2, <1>4 DEF ConnectWallet, DeployThrows, DeploySend, DeployPolled, SaveKeystore,
     DeployTaken, createVars
<1>5. CASE Enters
  BY <1>1, <1>5 DEF Enters, EnterCreatedAccount, SwitchToDemo, SwitchAccount, ImportKeystore, createVars
<1>6. CASE Restores
  BY <1>1, <1>6 DEF Restores, ImportThrows, createVars
<1>7. CASE Visit
  BY <1>2, <1>7 DEF Visit
<1>8. CASE Looks \/ UNCHANGED sessionVars
  BY <1>1, <1>8, LooksLeaves DEF sessionVars, createVars
<1> QED
  BY <1>3, <1>4, <1>5, <1>6, <1>7, <1>8, SessionSteps DEF Creates

\* The trees of any allowlist agree, and so do the scripts'.
LEMMA ListsAgree == BuiltInv => TreesAgree
<1> SUFFICES ASSUME NEW list \in Allowlists, built = NewPolicy(list) PROVE TreesAgree
  BY DEF BuiltInv, TreesAgree
<1>1. built.list = list /\ built.policy = BuildPolicy(list)
  BY DEF NewPolicy
<1>2. IsList(list)
  BY SessionAssumption DEF IsList, IsRow
<1>3. BuildPolicy(list).root = FullRoot(list) /\ Provable(BuildPolicy(list))
  BY <1>2, BuiltPolicyIsRight
<1>4. \A i \in 0 .. Leaves - 1 : Provable(ComputePolicy(list[1], i))
  BY ScriptPolicyIsRight
<1> QED
  BY <1>1, <1>3, <1>4 DEF TreesAgree

-----------------------------------------------------------------------------
(* Theorems.                                                               *)

\* Every keystore there is, wherever it is stored, is one that a creation made
\* (app.js 233-261, create.js 29-70), and what is active is an account with at most one of them.
THEOREM SessionTypes == SessionSpec => []SessionTypeOK
<1> QED
  BY SessionInits, SessionTypesStep, PTL DEF SessionSpec

\* After any history of creations, switches, imports and restored visits the
\* open keystore is the active account's (chain.js 13-16, app.js 262-303).
THEOREM SessionKeystoreFits == SessionSpec => []ActiveKeystoreFits
<1> QED
  BY SessionInits, FitsStep, SessionTypes, PTL DEF SessionSpec

\* An account that runCreate reported live is deployed and its keystore was
\* downloaded, whenever the page was closed and whatever was thrown meanwhile.
THEOREM SessionRecoverable == SessionSpec => []ReportedMeansRecoverable
<1>1. SavedInv => ReportedMeansRecoverable
  BY DEF SavedInv
<1> QED
  BY <1>1, SessionInits, SavedStep, SessionTypes, PTL DEF SessionSpec

\* What loadChain and runAdmin read is only shown in the view it was read for (the
\* captured L of app.js 63, and the object whose policy line 212 assigns): the policy
\* and the payments that are shown are the active account's, and a balance that is
\* not came from refreshBalances.
THEOREM SessionLoads == SessionSpec => LoadsStayInTheirView
<1>1. SessionTypeOK /\ LoadInv /\ ShownInv /\ [SessionNext]_sessionVars => [StaysInView]_sessionVars
  BY ViewStep
<1>2. LoadsStayInTheirView <=> [][StaysInView]_sessionVars
  BY PTL DEF LoadsStayInTheirView, StaysInView
<1> QED
  BY <1>1, <1>2, SessionInits, LoadStep, ShownStep, SessionTypes, PTL DEF SessionSpec

\* On the disclosure screen, for any caps and limits: no proof that ends, no drag of
\* the slider while it is being made, no switch and no other step makes what is shown
\* as verified untrue, but for a drag after the verdict and another policy that is shown.
THEOREM SessionVerdictStaysTrue == SessionSpec => VerdictStaysTrue
<1>1. SessionTypeOK /\ ActiveKeystoreFits /\ ShownInv /\ [SessionNext]_sessionVars
        => [VerifiedAsShown /\ ~VerifiedAsShown' =>
              \/ disc.phase = "verified" /\ disc'.limit # disc.limit
              \/ view'.policy # view.policy]_sessionVars
  BY DisclosureStep
<1> QED
  BY <1>1, SessionInits, LoadStep, ShownStep, SessionTypes, SessionKeystoreFits, PTL
  DEF SessionSpec, VerdictStaysTrue

\* Whatever allowlist an account is created for, and however deep the trees are:
\* the root that is committed to is the root of the full tree, every member's path
\* leads to it from that member's leaf alone, and so it is with the scripts' tree.
THEOREM SessionTreesAgree == SessionSpec => []TreesAgree
<1>1. SessionInit => BuiltInv
  BY DEF SessionInit, BuiltInv
<1> QED
  BY <1>1, BuiltStep, ListsAgree, PTL DEF SessionSpec

-----------------------------------------------------------------------------
(***************************************************************************)
(* The prover's worker.                                                    *)
(***************************************************************************)

\* Ids, jobs and messages are those of calls that were posted: the bounds by
\* seq of prover.js 40-45.
THEOREM PoolTypes == Spec => []TypeOK
<1>1. ASSUME Init PROVE TypeOK
  <2> USE <1>1 DEF Init
  <2>1. handle \in BOOLEAN /\ broken \in BOOLEAN
    OBVIOUS
  <2>2. /\ seq \in Nat
        /\ worker \in {"none", "loading", "up", "failed", "terminated"}
        /\ place \in [Request -> {"idle", "waiting", "inline", "done"}]
        /\ id \in [Request -> 0..seq]
    OBVIOUS
  <2>3. jobs \subseteq 1..seq /\ mail \subseteq [id : 1..seq, ok : BOOLEAN]
    OBVIOUS
  <2>4. outcome \in [Request -> [kind : {"none", "proof", "error", "prove_timeout"}, of : 0..seq]]
    OBVIOUS
  <2> QED
    BY <2>1, <2>2, <2>3, <2>4 DEF TypeOK
<1>2. TypeOK /\ [Next]_vars => TypeOK'
  <2> SUFFICES ASSUME TypeOK, [Next]_vars PROVE TypeOK'
    OBVIOUS
  <2> USE DEF TypeOK
  <2>1. ASSUME NEW r \in Request, Start(r) PROVE TypeOK'
    <3>1. CASE GoInline(r)
      BY <2>1, <3>1 DEF GoInline
    <3>2. CASE Post(r) /\ UNCHANGED <<handle, worker>>
      BY <2>1, <3>2 DEF Post
    <3>3. CASE Post(r) /\ handle' = TRUE /\ worker' = "loading"
      BY <2>1, <3>3 DEF Post
    <3> QED
      BY <2>1, <3>1, <3>2, <3>3 DEF Start
  <2>2. ASSUME NEW r \in Request, Timeout(r) PROVE TypeOK'
    <3> USE <2>2 DEF Timeout
    <3>1. (handle \in BOOLEAN /\ broken \in BOOLEAN)'
      OBVIOUS
    <3>2. worker' \in {"none", "loading", "up", "failed", "terminated"}
      OBVIOUS
    <3>3. seq' \in Nat /\ jobs' \subseteq 1..seq' /\ UNCHANGED <<seq, mail, id>>
      OBVIOUS
    <3>4. (/\ place \in [Request -> {"idle", "waiting", "inline", "done"}]
           /\ outcome \in [Request -> [kind : {"none", "proof", "error", "prove_timeout"},
                                       of : 0..seq]])'
      BY DEF Resolve
    <3> QED
      BY <3>1, <3>2, <3>3, <3>4
  <2>3. ASSUME NEW r \in Request, InlineEnds(r) PROVE TypeOK'
    BY <2>3 DEF InlineEnds, Resolve
  <2>4. CASE ScriptLoads \/ ScriptFails
    BY <2>4 DEF ScriptLoads, ScriptFails
  <2>5. ASSUME NEW i \in jobs, WorkerAnswers(i) PROVE TypeOK'
    <3>1. PICK good \in BOOLEAN : mail' = mail \cup {[id |-> i, ok |-> good]}
      BY <2>5 DEF WorkerAnswers
    <3> QED
      BY <2>5, <3>1 DEF WorkerAnswers
  <2>6. ASSUME NEW m \in mail, Deliver(m) PROVE TypeOK'
    <3>1. m.id \in 0..seq
      OBVIOUS
    <3>2. CASE UNCHANGED <<place, outcome>>
      BY <2>6, <3>2 DEF Deliver
    <3>3. ASSUME NEW r \in Request, Resolve(r, IF m.ok THEN "proof" ELSE "error", m.id)
          PROVE TypeOK'
      BY <2>6, <3>1, <3>3 DEF Deliver, Resolve
    <3> QED
      BY <2>6, <3>2, <3>3 DEF Deliver
  <2>7. CASE UNCHANGED vars
    BY <2>7 DEF vars
  <2> QED
    BY <2>1, <2>2, <2>3, <2>4, <2>5, <2>6, <2>7 DEF Next
<1> QED
  BY <1>1, <1>2, PTL DEF Spec

-----------------------------------------------------------------------------
\* A call that has not started, or that runs inline, has posted nothing; and a
\* proof is settled under the id its call still has.
PostedInv ==
  /\ \A r \in Request : place[r] = "idle" => id[r] = 0 /\ outcome[r].kind = "none"
  /\ NoDoubleRun
  /\ OwnProof

\* The invariant that OwnProof and NoDoubleRun need: an id is given once, when a
\* call is posted, and never to a call that goes inline (prover.js 36-57).
THEOREM PostedInvariant == Spec => []PostedInv
<1>1. Init => PostedInv
  BY DEF Init, PostedInv, NoDoubleRun, OwnProof
<1>2. TypeOK /\ PostedInv /\ [Next]_vars => PostedInv'
  <2> SUFFICES ASSUME TypeOK, PostedInv, [Next]_vars PROVE PostedInv'
    OBVIOUS
  <2> USE DEF TypeOK, PostedInv, NoDoubleRun, OwnProof
  <2>1. ASSUME NEW r \in Request, Start(r) PROVE PostedInv'
    <3>1. CASE GoInline(r)
      BY <2>1, <3>1 DEF Start, GoInline
    <3>2. CASE Post(r)
      BY <2>1, <3>2 DEF Start, Post
    <3> QED
      BY <2>1, <3>1, <3>2 DEF Start
  <2>2. ASSUME NEW r \in Request, Timeout(r) PROVE PostedInv'
    BY <2>2 DEF Timeout, Resolve
  <2>3. ASSUME NEW r \in Request, InlineEnds(r) PROVE PostedInv'
    BY <2>3 DEF InlineEnds, Resolve
  <2>4. CASE ScriptLoads \/ ScriptFails
    BY <2>4 DEF ScriptLoads, ScriptFails
  <2>5. ASSUME NEW i \in jobs, WorkerAnswers(i) PROVE PostedInv'
    BY <2>5 DEF WorkerAnswers
  <2>6. ASSUME NEW m \in mail, Deliver(m) PROVE PostedInv'
    <3>1. CASE UNCHANGED <<place, outcome>>
      BY <2>6, <3>1 DEF Deliver
    <3>2. ASSUME NEW r \in Request, id[r] = m.id,
                 Resolve(r, IF m.ok THEN "proof" ELSE "error", m.id)
          PROVE PostedInv'
      <4>1. outcome'[r].of = id'[r] /\ place'[r] = "done"
        BY <2>6, <3>2 DEF Deliver, Resolve
      <4>2. \A s \in Request \ {r} : outcome'[s] = outcome[s] /\ place'[s] = place[s]
        BY <3>2 DEF Resolve
      <4>3. id' = id
        BY <2>6 DEF Deliver
      <4> QED
        BY <4>1, <4>2, <4>3
    <3> QED
      BY <2>6, <3>1, <3>2 DEF Deliver
  <2>7. CASE UNCHANGED vars
    BY <2>7 DEF vars
  <2> QED
    BY <2>1, <2>2, <2>3, <2>4, <2>5, <2>6, <2>7 DEF Next
<1> QED
  BY <1>1, <1>2, PoolTypes, PTL DEF Spec

\* However many calls share the worker, and however its answers come, a caller
\* gets the proof of its own input (prover.js 43).
COROLLARY CallersGetTheirProof == Spec => []OwnProof
<1>1. PostedInv => OwnProof
  BY DEF PostedInv
<1> QED
  BY <1>1, PostedInvariant, PTL

\* No proof is computed twice (prover.js 48-57).
COROLLARY ProvedOnce == Spec => []NoDoubleRun
<1>1. PostedInv => NoDoubleRun
  BY DEF PostedInv
<1> QED
  BY <1>1, PostedInvariant, PTL
=============================================================================
