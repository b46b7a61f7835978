------------------------ MODULE PaymentScriptsProofs ------------------------
(***************************************************************************)
(* No card of the deck and no attack of a script pays, and none gets past  *)
(* the gate it is made for, for any account, any number of runs, scripts   *)
(* and replays, and whatever governance, other payments and deposits do.   *)
(***************************************************************************)
EXTENDS PaymentScripts, TLAPS

Attacks == DOMAIN expect

\* What the account has to be for the deck's payloads to be attacks: the demo's
\* token, and never the policy of the old-policy card, also not staged.
WorldOK ==
  /\ now \in Ledger
  /\ conf \in Conf /\ conf.token = UsdcSac
  /\ epochSpt \in Int
  /\ pol # WrongCommitment
  /\ pendRot # NoRotation => pendRot.commitment # WrongCommitment

\* An entry that was crafted, at some time, for a mode of the deck.
CraftedFor(m, e) ==
  \E n \in Nonce, until \in Ledger : e = EntryFor(m, n, until, e.contexts)

\* An attack that the network may hold: the transfer of its mode, with such an entry.
IsAttack(calls, e) == \E m \in Attacks : calls = CallsOf(m) /\ CraftedFor(m, e)

-----------------------------------------------------------------------------
(* The verdicts.                                                           *)

LEMMA AttacksAre == Attacks = {"malleability", "noncelift", "oldpolicy", "wrongtoken", "redirect"}
  BY DEF Attacks, expect

LEMMA CraftedNow ==
  ASSUME WorldOK, NEW m, NEW n \in Nonce, NEW calls
  PROVE  CraftedFor(m, Crafted(m, n, calls)) /\ Crafted(m, n, calls).contexts = calls
<1>1. SatAdd(now, Life) \in Ledger
  BY BoundsAssumption, DeckAssumption DEF WorldOK, SatAdd, Smaller, Ledger
<1>2. EntryFor(m, n, SatAdd(now, Life), calls).contexts = calls
  BY DEF EntryFor
<1> QED
  BY <1>1, <1>2 DEF Crafted, CraftedFor

\* What the gates read of a crafted entry.
LEMMA CraftedFields ==
  ASSUME NEW m, NEW e, CraftedFor(m, e)
  PROVE  /\ e.sig.count = N_PUBLIC /\ e.sig.amount = Amt /\ e.sig.dest = DestField[Payee]
         /\ e.sig.commitment = (IF m = "oldpolicy" THEN WrongCommitment ELSE Secret.commitment)
         /\ e.sig.root = Secret.root
         /\ e.sig.genuine = (m # "malleability")
         /\ \E n \in Nonce, until \in Ledger :
              /\ e.nonce = IF m = "noncelift" THEN n + 1 ELSE n
              /\ e.expires = until
              /\ e.sig.hi = Payload(n, until, e.contexts).hi
              /\ e.sig.lo = Payload(n, until, e.contexts).lo
  BY DEF CraftedFor, EntryFor

\* The context of an attack that has matched its entry.
LEMMA CallFields ==
  ASSUME NEW m
  PROVE  /\ Len(CallsOf(m)) = 1
         /\ CallsOf(m)[1].kind = "Contract" /\ CallsOf(m)[1].fn = "transfer"
         /\ CallsOf(m)[1].contract = (IF m = "wrongtoken" THEN XlmSac ELSE UsdcSac)
         /\ CallsOf(m)[1].from = Self
         /\ CallsOf(m)[1].to = (IF m = "redirect" THEN Attacker ELSE Payee)
         /\ CallsOf(m)[1].amount = Amt
  BY DEF CallsOf, Transfer

\* No gate but its own is needed to stop an attack: whatever state the account is
\* in, frozen or not, rotated or not, in whichever window (lib.rs 356-478).
LEMMA AttackNeverOk ==
  ASSUME WorldOK, NEW m \in Attacks, NEW e, CraftedFor(m, e)
  PROVE  EntryVerdict(CallsOf(m), e) # "Ok"
<1> DEFINE c == CallOf(e)
           x == CallsOf(m)[1]
<1> SUFFICES ASSUME EntryVerdict(CallsOf(m), e) = "Ok" PROVE FALSE
  OBVIOUS
<1>1. e.contexts = CallsOf(m) /\ AuthVerdict(c) = "Ok"
  BY DEF EntryVerdict
<1>2. c.sig = e.sig /\ c.contexts = CallsOf(m) /\ c.payload = Payload(e.nonce, e.expires, CallsOf(m))
  BY <1>1 DEF CallOf
<1> HIDE DEF c
<1>3. BindingVerdict(c) = "Ok" /\ ContextVerdict(x, c.sig) = "Ok" /\ Groth16Verify(c.sig)
  BY <1>1, <1>2 DEF AuthVerdict
<1>4. CASE m = "malleability"
  BY <1>2, <1>3, <1>4, CraftedFields DEF Groth16Verify
<1>5. CASE m = "noncelift"
  <2>1. CallsOf(m) = ValidCalls
    BY <1>5 DEF CallsOf, ValidCalls
  <2>2. PICK n \in Nonce, until \in Ledger :
          /\ e.nonce = n + 1 /\ e.expires = until
          /\ e.sig.hi = Payload(n, until, ValidCalls).hi
          /\ e.sig.lo = Payload(n, until, ValidCalls).lo
    BY <1>1, <1>5, <2>1, CraftedFields
  <2>3. c.payload.hi = c.sig.hi /\ c.payload.lo = c.sig.lo
    BY <1>3 DEF BindingVerdict
  <2> QED
    BY <1>2, <2>1, <2>2, <2>3, DeckAssumption
<1>6. CASE m = "oldpolicy"
  <2>1. c.sig.commitment = pol
    BY <1>3 DEF BindingVerdict
  <2> QED
    BY <1>2, <1>6, <2>1, CraftedFields DEF WorldOK
<1>7. CASE m = "wrongtoken"
  <2>1. x.contract = conf.token
    BY <1>3 DEF ContextVerdict, TokenPinned
  <2> QED
    BY <1>7, <2>1, CallFields, DeckAssumption DEF WorldOK
<1>8. CASE m = "redirect"
  <2>1. DestField[x.to] = c.sig.dest
    BY <1>3 DEF ContextVerdict
  <2>2. DestField[Attacker] = DestField[Payee]
    BY <1>2, <1>8, <2>1, CallFields, CraftedFields
  <2> QED
    BY <2>2, DestFieldInjective, DeckAssumption
<1> QED
  BY <1>4, <1>5, <1>6, <1>7, <1>8, AttacksAre

\* How far an entry gets that the host admits, while the keystore's policy is in
\* force: an attack to its gate, a payment past them all (lib.rs 356-478).
LEMMA CraftedVerdict ==
  ASSUME WorldOK, NEW m \in Attacks \cup {"valid"}, NEW e, CraftedFor(m, e), HostAdmits(CallsOf(m), e),
         ~frozen, [commitment |-> pol, root |-> root] = Secret
  PROVE  EntryVerdict(CallsOf(m), e) =
           IF m \in {"valid", "malleability"} /\ SpentSoFar + Amt > conf.epochCap THEN "EpochCapExceeded"
           ELSE IF m = "valid" THEN "Ok" ELSE Gate[m]
<1> DEFINE c == CallOf(e)
           x == CallsOf(m)[1]
<1>0. e.contexts = CallsOf(m) /\ now <= e.expires /\ e.nonce \notin consumed
  BY DEF HostAdmits
<1>1. c.sig = e.sig /\ c.contexts = CallsOf(m) /\ c.payload = Payload(e.nonce, e.expires, CallsOf(m))
  BY <1>0 DEF CallOf
<1>2. EntryVerdict(CallsOf(m), e) = AuthVerdict(c)
  <2>1. now \in Int /\ e.expires \in Int /\ ~(now > e.expires)
    BY <1>0, CraftedFields DEF WorldOK, Ledger
  <2> QED
    BY <1>0, <2>1 DEF EntryVerdict
<1> HIDE DEF c
<1>3. /\ ~frozen /\ c.sig.count = N_PUBLIC
      /\ pol = Secret.commitment /\ root = Secret.root
  BY <1>1, CraftedFields
<1>4. m # "oldpolicy" => c.sig.commitment = pol
  BY <1>1, <1>3, CraftedFields
<1>5. c.sig.root = root
  BY <1>1, <1>3, CraftedFields
<1>6. CASE m = "oldpolicy"
  <2>1. c.sig.commitment # pol
    BY <1>1, <1>6, CraftedFields DEF WorldOK
  <2>2. BindingVerdict(c) = "BadPolicyBinding"
    BY <1>3, <2>1 DEF BindingVerdict
  <2> QED
    BY <1>2, <1>6, <2>2 DEF AuthVerdict, Gate
<1>7. CASE m = "noncelift"
  <2>1. CallsOf(m) = ValidCalls
    BY <1>7 DEF CallsOf, ValidCalls
  <2>2. PICK n \in Nonce, until \in Ledger :
          /\ e.nonce = n + 1 /\ e.expires = until
          /\ e.sig.hi = Payload(n, until, ValidCalls).hi
          /\ e.sig.lo = Payload(n, until, ValidCalls).lo
    BY <1>0, <1>7, <2>1, CraftedFields
  <2>3. c.payload.hi # c.sig.hi \/ c.payload.lo # c.sig.lo
    BY <1>1, <2>1, <2>2, DeckAssumption
  <2>4. BindingVerdict(c) = "BadSigPayload"
    BY <1>3, <1>4, <1>5, <1>7, <2>3 DEF BindingVerdict
  <2> QED
    BY <1>2, <1>7, <2>4 DEF AuthVerdict, Gate
<1>8. CASE m \notin {"oldpolicy", "noncelift"}
  <2>1. PICK n \in Nonce, until \in Ledger :
          /\ e.nonce = n /\ e.expires = until
          /\ e.sig.hi = Payload(n, until, e.contexts).hi
          /\ e.sig.lo = Payload(n, until, e.contexts).lo
    BY <1>8, CraftedFields
  <2>2. c.payload.hi = c.sig.hi /\ c.payload.lo = c.sig.lo
    BY <1>0, <1>1, <2>1
  <2>3. Len(c.contexts) = 1
    BY <1>1, CallFields
  <2>4. BindingVerdict(c) = "Ok"
    BY <1>3, <1>4, <1>5, <1>8, <2>2, <2>3 DEF BindingVerdict
  <2>5. c.contexts[1] = x
    BY <1>1
  <2>6. /\ x.kind = "Contract" /\ x.fn = "transfer" /\ x.from = Self /\ x.amount = 1
        /\ x.contract = (IF m = "wrongtoken" THEN XlmSac ELSE UsdcSac)
        /\ x.to = (IF m = "redirect" THEN Attacker ELSE Payee)
    BY CallFields DEF Amt
  <2>7. c.sig.amount = 1 /\ c.sig.dest = DestField[Payee] /\ c.sig.genuine = (m # "malleability")
    BY <1>1, CraftedFields DEF Amt
  <2>8. /\ x.from # NoValue /\ x.to # NoValue /\ x.amount # NoValue
        /\ Self # NoValue
    BY <2>6, DataAssumption, DeckAssumption
  <2>9. ~(x.amount >= AmountLimit)
    BY <2>6, BoundsAssumption DEF WorldOK, Conf
  <2> HIDE DEF x
  <2>10. CASE m = "wrongtoken"
    <3>1. ContextVerdict(x, c.sig) = "BadTokenBinding"
      BY <2>6, <2>10, DeckAssumption DEF ContextVerdict, TokenPinned, WorldOK
    <3> QED
      BY <1>2, <2>4, <2>5, <2>10, <3>1 DEF AuthVerdict, Gate
  <2>11. CASE m = "redirect"
    <3>1. DestField[x.to] # c.sig.dest
      BY <2>6, <2>7, <2>11, DestFieldInjective, DeckAssumption
    <3>2. ContextVerdict(x, c.sig) = "BadDestBinding"
      BY <2>6, <2>7, <2>8, <2>9, <2>11, <3>1 DEF ContextVerdict, TokenPinned, WorldOK
    <3> QED
      BY <1>2, <2>4, <2>5, <2>11, <3>2 DEF AuthVerdict, Gate
  <2>12. CASE m \in {"valid", "malleability"}
    <3>1. ContextVerdict(x, c.sig) = "Ok"
      BY <2>6, <2>7, <2>8, <2>9, <2>12 DEF ContextVerdict, TokenPinned, WorldOK
    <3>2. /\ SpentSoFar + c.contexts[1].amount = SpentSoFar + Amt
      BY <2>5, <2>6 DEF Amt
    <3>3. Groth16Verify(c.sig) <=> m = "valid"
      <4>1. CASE m = "malleability"
        BY <2>7, <4>1 DEF Groth16Verify
      <4>2. CASE m = "valid"
        <5>1. c.sig.commitment = Secret.commitment /\ c.sig.root = Secret.root
          BY <1>1, <4>2, CraftedFields
        <5>2. c.sig.amount \in 0 .. CapOf[Secret.commitment]
          <6>1. CapOf[Secret.commitment] \in Int /\ Amt <= CapOf[Secret.commitment]
            BY DeckAssumption, DataAssumption, BoundsAssumption DEF Policy
          <6> QED
            BY <2>7, <6>1 DEF Amt
        <5>3. PolicyRelation(c.sig)
          BY <2>7, <5>1, <5>2, DeckAssumption DEF PolicyRelation
        <5>4. c.sig.count + 1 = conf.icLen
          BY <1>3 DEF WorldOK, Conf, N_PUBLIC
        <5> QED
          BY <2>7, <4>2, <5>3, <5>4 DEF Groth16Verify
      <4> QED
        BY <2>12, <4>1, <4>2
    <3> QED
      BY <1>2, <2>4, <2>5, <2>12, <3>1, <3>2, <3>3 DEF AuthVerdict, Gate
  <2> QED
    BY <1>8, <2>10, <2>11, <2>12, AttacksAre
<1> QED
  BY <1>6, <1>7, <1>8

\* What stops an attack that the host admits, in whatever state the account is
\* (lib.rs 356-478, SECURITY.md 70-80).
LEMMA GateOfAttack ==
  ASSUME WorldOK, NEW m \in Attacks, NEW e, CraftedFor(m, e), HostAdmits(CallsOf(m), e)
  PROVE  EntryVerdict(CallsOf(m), e) = StoppedBy(m)
<1> DEFINE c == CallOf(e)
<1>1. /\ c.sig = e.sig
      /\ EntryVerdict(CallsOf(m), e) = AuthVerdict(c)
  <2>1. now \in Int /\ e.expires \in Int /\ ~(now > e.expires)
    BY CraftedFields DEF HostAdmits, WorldOK, Ledger
  <2> QED
    BY <2>1 DEF EntryVerdict, HostAdmits, CallOf
<1> HIDE DEF c
<1>2. CASE frozen
  BY <1>1, <1>2 DEF AuthVerdict, BindingVerdict, StoppedBy
<1>3. CASE ~frozen /\ [commitment |-> pol, root |-> root] # Secret
  <2>1. /\ c.sig.count = N_PUBLIC /\ c.sig.root = Secret.root
        /\ c.sig.commitment = (IF m = "oldpolicy" THEN WrongCommitment ELSE Secret.commitment)
    BY <1>1, CraftedFields
  <2>2. c.sig.commitment # pol \/ c.sig.root # root
    <3>1. Secret = [commitment |-> Secret.commitment, root |-> Secret.root]
      BY DeckAssumption DEF Policy
    <3> QED
      BY <1>3, <2>1, <3>1 DEF WorldOK
  <2>3. BindingVerdict(c) = "BadPolicyBinding"
    BY <1>3, <2>1, <2>2 DEF BindingVerdict
  <2> QED
    BY <1>1, <1>3, <2>3 DEF AuthVerdict, StoppedBy
<1>4. CASE ~frozen /\ [commitment |-> pol, root |-> root] = Secret
  <2>1. m # "valid" /\ m \in Attacks \cup {"valid"}
    BY AttacksAre
  <2> QED
    BY <1>4, <2>1, CraftedVerdict DEF StoppedBy
<1> QED
  BY <1>2, <1>3, <1>4

\* The entry of an honest payment.
PaymentEntry(e) == CraftedFor("valid", e) /\ e.contexts = ValidCalls

\* It is refused only if it was used, while nothing else speaks against it.
LEMMA PaymentPasses ==
  ASSUME WorldOK, NEW e, PaymentEntry(e), Healthy, now <= e.expires, e.nonce \notin consumed
  PROVE  EntryVerdict(ValidCalls, e) = "Ok"
<1>1. CallsOf("valid") = ValidCalls
  BY DEF CallsOf, ValidCalls
<1>2. HostAdmits(CallsOf("valid"), e)
  BY <1>1 DEF HostAdmits, PaymentEntry
<1>3. ~(SpentSoFar + Amt > conf.epochCap)
  <2>1. SpentSoFar \in Int /\ conf.epochCap \in Int
    BY DEF WorldOK, Conf, SpentSoFar
  <2> QED
    BY <2>1 DEF Healthy, Amt
<1> QED
  BY <1>1, <1>2, <1>3, CraftedVerdict DEF Healthy, PaymentEntry

-----------------------------------------------------------------------------
(* The world.                                                              *)

\* An authorized call adds a number to the counter, and changes no policy.
LEMMA AuthKeepsWorld ==
  ASSUME WorldOK, NEW c, CheckAuth(c)
  PROVE  WorldOK'
<1> DEFINE x == c.contexts[1]
<1>1. ContextVerdict(x, c.sig) = "Ok" /\ Groth16Verify(c.sig)
  BY DEF CheckAuth, AuthVerdict
<1>2. x.amount \in Int
  BY <1>1 DEF ContextVerdict, Groth16Verify, PolicyRelation
<1>3. SpentSoFar \in Int
  BY DEF WorldOK, SpentSoFar
<1>4. /\ UNCHANGED <<now, conf, pol, pendRot>>
      /\ epochSpt' = SpentSoFar + x.amount
  BY DEF CheckAuth
<1> HIDE DEF x
<1> QED
  BY <1>2, <1>3, <1>4 DEF WorldOK

LEMMA WorldInit == HostInit => WorldOK
<1> SUFFICES ASSUME HostInit PROVE WorldOK
  OBVIOUS
<1>1. Init
  BY DEF HostInit
<1>2. PICK a \in ConstructorArgs : Init!(a)
  BY <1>1 DEF Init
<1>3. a \in ConstructorArg /\ a.token = UsdcSac /\ a.commitment # WrongCommitment
  BY InputAssumption, DeckAssumption
<1>4. /\ a.icLen = N_PUBLIC + 1
      /\ a.epochLedgers # 0
      /\ a.epochCap > 0
      /\ a.epochCap < AmountLimit
      /\ a.rotationDelay # 0
  BY <1>2, <1>3, BoundsAssumption DEF ConstructorVerdict, ConstructorArg
<1>5. conf \in Conf /\ conf.token = UsdcSac
  BY <1>2, <1>3, <1>4, BoundsAssumption DEF ConstructorArg, Conf
<1> QED
  BY <1>2, <1>3, <1>5 DEF WorldOK

\* Governance stages and executes only what is proposed.
LEMMA HostKeepsWorld == WorldOK /\ HostNext => WorldOK'
<1> SUFFICES ASSUME WorldOK, HostNext PROVE WorldOK'
  OBVIOUS
<1>1. CASE CloseLedger
  BY <1>1, BoundsAssumption DEF CloseLedger, storage, WorldOK, Ledger
<1>2. ASSUME NEW by \in Address, NEW p \in Proposals, ProposeRotation(by, p.commitment, p.root)
      PROVE  WorldOK'
  <2>1. p.commitment # WrongCommitment
    BY DeckAssumption
  <2>2. pendRot'.commitment = p.commitment /\ UNCHANGED <<now, conf, pol, epochSpt>>
    BY <1>2 DEF ProposeRotation
  <2> QED
    BY <2>1, <2>2 DEF WorldOK
<1>3. ASSUME NEW by \in Address, ExecuteRotation(by) PROVE WorldOK'
  BY <1>3 DEF ExecuteRotation, ExecuteVerdict, WorldOK
<1>4. ASSUME NEW by \in Address, CancelRotation(by) PROVE WorldOK'
  BY <1>4 DEF CancelRotation, WorldOK
<1>5. ASSUME NEW by \in Address, Freeze(by) \/ Unfreeze(by) PROVE WorldOK'
  BY <1>5 DEF Freeze, Unfreeze, SetFrozen, WorldOK
<1>6. ASSUME NEW t \in Asset, NEW a \in Deposits, Deposit(t, a) PROVE WorldOK'
  BY <1>6 DEF Deposit, vars, storage, WorldOK
<1>7. ASSUME NEW calls \in CallLists, NEW e \in Entries, Submit(calls, e) PROVE WorldOK'
  BY <1>7, AuthKeepsWorld DEF Submit
<1> QED
  BY <1>1, <1>2, <1>3, <1>4, <1>5, <1>6, <1>7 DEF HostNext, World, Govern

LEMMA RestKeepsWorld == WorldOK /\ UNCHANGED vars => WorldOK'
  BY DEF vars, storage, WorldOK

-----------------------------------------------------------------------------
(* The deck.                                                               *)

Working == {"footprint", "simulate", "send"}

\* A run that is under way is of a card, and has crafted the entry of that card
\* before it asks the relayer; so has all that the network holds.
DeckInv ==
  /\ DOMAIN pc = Run /\ DOMAIN mode = Run /\ DOMAIN entry = Run /\ DOMAIN measured = Run
  /\ \A r \in Run : pc[r] \notin {"idle", "over"} => mode[r] \in Mode
  /\ \A r \in Run : pc[r] \in Working => CraftedFor(mode[r], entry[r])
  /\ \A tx \in sent : IsAttack(tx.calls, tx.entry)
  /\ ledger \in [Run -> [1 .. 2 -> {"NOT_FOUND", "FAILED"}]]

LEMMA DeckInitOK == DeckInit => WorldOK /\ DeckInv
<1> SUFFICES ASSUME DeckInit PROVE WorldOK /\ DeckInv
  OBVIOUS
<1>1. WorldOK
  BY WorldInit DEF DeckInit
<1>2. DeckInv
  BY DEF DeckInit, DeckInv, Working
<1> QED
  BY <1>1, <1>2

\* The network refuses whatever attack it takes.
LEMMA TakenAttackFails ==
  ASSUME WorldOK, DeckInv, NEW tx \in sent, Take(tx)
  PROVE  /\ ledger' = [ledger EXCEPT ![tx.run][tx.attempt] = "FAILED"]
         /\ UNCHANGED <<vars, hostVars>>
<1>1. EntryVerdict(tx.calls, tx.entry) # "Ok"
  BY AttackNeverOk DEF DeckInv, IsAttack
<1> QED
  BY <1>1 DEF Take

LEMMA AttackTx ==
  ASSUME DeckInv, NEW r \in Run, pc[r] = "send"
  PROVE  IsAttack(Tx(r).calls, Tx(r).entry)
<1>1. mode[r] \in Attacks /\ CraftedFor(mode[r], entry[r])
  BY DeckAssumption DEF DeckInv, Working, Attacks
<1> QED
  BY <1>1 DEF Tx, IsAttack

LEMMA RunKeeps ==
  ASSUME WorldOK, DeckInv, NEW r \in Run, RunStep(r) \/ (\E m \in Mode : Click(r, m))
  PROVE  DeckInv' /\ UNCHANGED <<vars, hostVars>>
<1> USE DEF DeckInv, Working
<1>1. ASSUME NEW m \in Mode, Click(r, m) PROVE DeckInv' /\ UNCHANGED <<vars, hostVars>>
  <2>1. /\ mode' = [mode EXCEPT ![r] = m]
        /\ \/ pc' = [pc EXCEPT ![r] = "probe"]
           \/ pc' = [pc EXCEPT ![r] = "craft"]
           \/ pc' = [pc EXCEPT ![r] = "over"]
        /\ UNCHANGED <<vars, hostVars, entry, measured, sent, ledger>>
    BY <1>1 DEF Click, Proceed, GoTo, netVars
  <2> QED
    BY <2>1
<1>2. CASE Probed(r)
  <2>1. /\ mode' = mode
        /\ pc' = [pc EXCEPT ![r] = "craft"] \/ pc' = [pc EXCEPT ![r] = "over"]
        /\ pc[r] = "probe"
        /\ UNCHANGED <<vars, hostVars, entry, measured, sent, ledger>>
    BY <1>2 DEF Probed, Proceed, GoTo, netVars
  <2> QED
    BY <2>1
<1>3. ASSUME Fails(r), UNCHANGED <<vars, hostVars, mode, ledger>>,
             pc[r] \in {"craft", "footprint", "simulate", "send", "settle"},
             \A tx \in sent' : IsAttack(tx.calls, tx.entry)
      PROVE  DeckInv' /\ UNCHANGED <<vars, hostVars>>
  <2>1. /\ pc' = [pc EXCEPT ![r] = "craft"] \/ pc' = [pc EXCEPT ![r] = "over"]
        /\ entry' = [entry EXCEPT ![r] = NoValue] /\ measured' = [measured EXCEPT ![r] = NoValue]
    BY <1>3 DEF Fails, Forget, GoTo
  <2> QED
    BY <1>3, <2>1
<1>4. CASE Craft(r)
  <2>1. CASE Fails(r)
    BY <1>3, <1>4, <2>1 DEF Craft, netVars
  <2>2. CASE ~Fails(r)
    <3>1. PICK n \in Nonce :
            entry' = [entry EXCEPT ![r] = Crafted(mode[r], n, SignedCalls(mode[r]))]
      BY <1>4, <2>2 DEF Craft
    <3>2. CraftedFor(mode[r], entry'[r])
      BY <3>1, CraftedNow
    <3>3. /\ pc[r] = "craft" /\ pc' = [pc EXCEPT ![r] = "footprint"]
          /\ UNCHANGED <<vars, hostVars, mode, measured, sent, ledger>>
      BY <1>4, <2>2 DEF Craft, GoTo, netVars
    <3>4. \A q \in Run \ {r} : entry'[q] = entry[q]
      BY <3>1
    <3>5. DOMAIN entry' = Run
      BY <3>1
    <3> QED
      BY <3>2, <3>3, <3>4, <3>5
  <2> QED
    BY <2>1, <2>2
<1>5. CASE Footprint(r)
  <2>1. CASE Fails(r)
    BY <1>3, <1>5, <2>1 DEF Footprint, netVars
  <2>2. CASE ~Fails(r)
    BY <1>5, <2>2 DEF Footprint, GoTo, netVars
  <2> QED
    BY <2>1, <2>2
<1>6. CASE Simulate(r)
  BY <1>6 DEF Simulate, GoTo, netVars
<1>7. CASE Send(r)
  <2>1. IsAttack(Tx(r).calls, Tx(r).entry)
    BY <1>7, AttackTx DEF Send
  <2>2. sent' \subseteq sent \cup {Tx(r)}
    BY <1>7 DEF Send
  <2> QED
    BY <1>7, <2>1, <2>2 DEF Send, GoTo
<1>8. CASE Settle(r)
  BY <1>8 DEF Settle, GoTo, Forget, netVars
<1>9. CASE Throws(r)
  <2>1. \A tx \in sent' : IsAttack(tx.calls, tx.entry)
    <3>1. pc[r] = "send" => IsAttack(Tx(r).calls, Tx(r).entry)
      BY AttackTx
    <3>2. sent' \subseteq IF pc[r] = "send" THEN sent \cup {Tx(r)} ELSE sent
      BY <1>9 DEF Throws
    <3> QED
      BY <3>1, <3>2
  <2> QED
    BY <1>3, <1>9, <2>1 DEF Throws
<1> QED
  BY <1>1, <1>2, <1>4, <1>5, <1>6, <1>7, <1>8, <1>9 DEF RunStep

\* A step of the deck, of the network or of the world.
LEMMA DeckKeeps == WorldOK /\ DeckInv /\ DeckNext => WorldOK' /\ DeckInv'
<1> SUFFICES ASSUME WorldOK, DeckInv, DeckNext PROVE WorldOK' /\ DeckInv'
  OBVIOUS
<1>1. CASE HostNext /\ UNCHANGED <<trustline, pageVars, netVars>>
  <2>1. DeckInv'
    BY <1>1 DEF DeckInv, pageVars, netVars
  <2> QED
    BY <1>1, <2>1, HostKeepsWorld
<1>2. ASSUME NEW r \in Run, RunStep(r) \/ (\E m \in Mode : Click(r, m))
      PROVE  WorldOK' /\ DeckInv'
  BY <1>2, RunKeeps, RestKeepsWorld
<1>3. ASSUME NEW m \in Mode, ResetDeck(m) PROVE WorldOK' /\ DeckInv'
  <2>1. UNCHANGED <<vars, pc, mode, entry, measured, sent, ledger>>
    BY <1>3 DEF ResetDeck, netVars
  <2> QED
    BY <2>1, RestKeepsWorld DEF DeckInv
<1>4. ASSUME NEW tx \in sent, Take(tx) PROVE WorldOK' /\ DeckInv'
  <2>1. ledger' = [ledger EXCEPT ![tx.run][tx.attempt] = "FAILED"] /\ UNCHANGED vars
    BY <1>4, TakenAttackFails
  <2>2. ledger' \in [Run -> [1 .. 2 -> {"NOT_FOUND", "FAILED"}]]
    BY <2>1 DEF DeckInv
  <2>3. UNCHANGED <<pc, mode, entry, measured>> /\ sent' = sent \ {tx}
    BY <1>4 DEF Take, pageVars
  <2> QED
    BY <2>1, <2>2, <2>3, RestKeepsWorld DEF DeckInv
<1>5. ASSUME NEW tx \in sent, Lose(tx) PROVE WorldOK' /\ DeckInv'
  <2>1. UNCHANGED <<vars, pc, mode, entry, measured, ledger>> /\ sent' = sent \ {tx}
    BY <1>5 DEF Lose, pageVars
  <2> QED
    BY <2>1, RestKeepsWorld DEF DeckInv
<1> QED
  BY <1>1, <1>2, <1>3, <1>4, <1>5 DEF DeckNext

-----------------------------------------------------------------------------
(* The scripts.                                                            *)

\* What the steps of the scripts are.
PlanStep ==
  [act : {"pay"},
   mode : {"valid", "fresh_nonce", "wrong_policy", "bitflip", "swap_ac", "redirect"}]
  \cup [act : {"probe"},
        mode : {"swap_ac", "fresh_nonce", "wrong_policy", "wrong_token", "redirect"}]
  \cup [act : {"tool", "attempt"}, mode : {"valid", "overcap", "redirect"}]
  \cup [act : {"backstop", "submit"}, mode : {"redirect"}]
  \cup [act : {"file", "payFrom", "replay"}, mode : {"valid"}]

\* The plan of a process ends with what it does now, or is empty.
Active == {"rehearse", "simulate", "send", "poll"}

\* What has an entry pays honestly, or is an attack whose entry was crafted for it.
StepEntryOK(step, e) ==
  /\ step.mode # "overcap"
  /\ step.mode # "valid" => CraftedFor(Card[step.mode], e)
  /\ step.act = "probe" => e.contexts = CallsMade(step)
  /\ step.act \in {"pay", "replay"} /\ step.mode = "valid" => PaymentEntry(e)

TxOK(tx) ==
  /\ tx.mode = "valid" => tx.calls = ValidCalls
  /\ tx.mode # "valid" => IsAttack(tx.calls, tx.entry)
  /\ tx.by \in Replay => tx.mode = "valid" /\ PaymentEntry(tx.entry)

PaidOK(r) == r.status = "SUCCESS" => r.tx.mode = "valid" /\ r.tx.calls = ValidCalls

ScriptInv ==
  /\ DOMAIN phase = Process /\ DOMAIN auth = Process /\ DOMAIN said = Process
  /\ plan \in [Process -> Seq(PlanStep)]
  /\ \A s \in Process : phase[s] \in Active => plan[s] # << >>
  /\ \A s \in Process :
       phase[s] \in {"simulate", "send"} => StepEntryOK(Head(plan[s]), auth[s])
  /\ \A tx \in posted : TxOK(tx)
  /\ \A r \in results : PaidOK(r)
  /\ lastAuth # NoValue => PaymentEntry(lastAuth)
  /\ \A s \in Replay : phase[s] \in Active => plan[s] = <<Step("replay", "valid")>>

\* The plans that are run consist of such steps, and of one at least.
LEMMA PlansAre ==
  ASSUME NEW p \in Plan
  PROVE  p \in Seq(PlanStep) /\ p # << >>
<1> DEFINE Good(q) == q \in Seq(PlanStep) /\ q # << >>
<1>1. \A a, b \in PlanStep : Good(<<a>>) /\ Good(<<a, b>>)
  OBVIOUS
<1>2. \A q, t : Good(q) /\ Good(t) => Good(q \o t)
  OBVIOUS
<1>3. Good(ProbePlan)
  BY DEF ProbePlan, Step, PlanStep
<1> HIDE DEF Good
<1>4. \A q \in PayPlans : Good(q)
  <2>1. \A m \in {"valid", "fresh_nonce", "wrong_policy", "bitflip", "swap_ac", "redirect"} :
          Step("pay", m) \in PlanStep
    BY DEF Step, PlanStep
  <2> QED
    BY <1>1, <2>1 DEF PayPlans
<1>5. Good(<<Step("submit", "redirect")>>) /\ Good(<<Step("file", "valid")>>)
        /\ Good(<<Step("payFrom", "valid")>>)
  <2>1. {Step("submit", "redirect"), Step("file", "valid"), Step("payFrom", "valid")} \subseteq PlanStep
    BY DEF Step, PlanStep
  <2> QED
    BY <1>1, <2>1
<1>6. \A q \in AgentPlans : Good(q)
  <2> DEFINE bought == {<<Step("tool", m)>> : m \in {"valid", "overcap"}}
             asked == {<<Step("attempt", m), Step("backstop", "redirect")>> :
                         m \in {"valid", "overcap", "redirect"}}
  <2>1. \A m \in {"valid", "overcap", "redirect"} :
          {Step("tool", m), Step("attempt", m), Step("backstop", "redirect")} \subseteq PlanStep
    BY DEF Step, PlanStep
  <2>2. \A q \in bought : Good(q)
    BY <1>1, <2>1
  <2>3. \A q \in asked : Good(q)
    BY <1>1, <2>1
  <2>4. AgentPlans = bought \cup asked \cup {x \o y : x \in bought, y \in asked}
    BY DEF AgentPlans
  <2> HIDE DEF bought, asked
  <2>5. ASSUME NEW x \in bought, NEW y \in asked PROVE Good(x \o y)
    BY <1>2, <2>2, <2>3
  <2>6. ASSUME NEW q \in {x \o y : x \in bought, y \in asked} PROVE Good(q)
    <3>1. PICK x \in bought, y \in asked : q = x \o y
      OBVIOUS
    <3> QED
      BY <2>5, <3>1
  <2> QED
    BY <2>2, <2>3, <2>4, <2>6
<1>7. p \in PayPlans \cup AgentPlans \cup
            {ProbePlan, <<Step("submit", "redirect")>>, <<Step("file", "valid")>>,
             <<Step("payFrom", "valid")>>}
  BY ScriptAssumption DEF Plans
<1>8. Good(p)
  BY <1>3, <1>4, <1>5, <1>6, <1>7
<1> QED
  BY <1>8 DEF Good

\* The modes of the steps, and the cards they amount to.
LEMMA StepModes ==
  ASSUME NEW step \in PlanStep
  PROVE  /\ step.mode \notin {"valid", "overcap"} => Card[step.mode] \in Attacks
         /\ step.mode = "valid" => CallsMade(step) = ValidCalls
         /\ step.mode = "overcap" => step.act \in {"tool", "attempt"}
         /\ step.act = "probe" => step.mode \notin {"valid", "overcap"}
<1>1. step.mode \notin {"valid", "overcap"} => Card[step.mode] \in Attacks
  BY AttacksAre DEF PlanStep, Card
<1>2. step.mode = "valid" => CallsMade(step) = ValidCalls
  BY DEF CallsMade, Card, CallsOf, ValidCalls
<1> QED
  BY <1>1, <1>2 DEF PlanStep

LEMMA HeadStep ==
  ASSUME ScriptInv, NEW s \in Process, phase[s] \in Active
  PROVE  Head(plan[s]) \in PlanStep /\ Tail(plan[s]) \in Seq(PlanStep)
  BY DEF ScriptInv

\* Nothing comes after the only step of a plan.
LEMMA OneStep ==
  ASSUME NEW step
  PROVE  Tail(<<step>>) = << >>
  OBVIOUS

\* How a step ends: the next one begins, or the program is over.
LEMMA StepEnds ==
  ASSUME ScriptInv, NEW s \in Process, phase[s] \in Active, NEW w, EndStep(s, w),
         UNCHANGED <<results, lastAuth>>, \A tx \in posted' : TxOK(tx)
  PROVE  ScriptInv'
<1> DEFINE rest == IF Ends(Head(plan[s]), w) THEN << >> ELSE Tail(plan[s])
<1>0. rest \in Seq(PlanStep)
  BY HeadStep
<1>1. /\ plan' = [plan EXCEPT ![s] = rest]
      /\ phase' = [phase EXCEPT ![s] = IF rest = << >> THEN "over" ELSE "rehearse"]
  BY DEF EndStep, Enter
<1> HIDE DEF rest
<1>2. DOMAIN auth' = Process /\ DOMAIN said' = Process
  BY DEF ScriptInv, EndStep
<1>3. \A q \in Process \ {s} : plan'[q] = plan[q] /\ phase'[q] = phase[q] /\ auth'[q] = auth[q]
  BY <1>1 DEF ScriptInv, EndStep
<1>4. plan' \in [Process -> Seq(PlanStep)] /\ DOMAIN phase' = Process
  BY <1>0, <1>1 DEF ScriptInv
<1>5. plan'[s] = rest /\ phase'[s] = IF rest = << >> THEN "over" ELSE "rehearse"
  BY <1>1 DEF ScriptInv
<1>6. \A q \in Process : phase'[q] \in Active => plan'[q] # << >>
  BY <1>3, <1>5 DEF ScriptInv, Active
<1>7. \A q \in Process :
        phase'[q] \in {"simulate", "send"} => StepEntryOK(Head(plan'[q]), auth'[q])
  BY <1>3, <1>5 DEF ScriptInv
<1>8. (\A r \in results : PaidOK(r))'
  BY DEF ScriptInv, PaidOK
<1>9. \A q \in Replay : phase'[q] \in Active => plan'[q] = <<Step("replay", "valid")>>
  <2>1. s \in Replay => rest = << >>
    <3>1. s \in Replay => Tail(plan[s]) = << >>
      <4>1. s \in Replay => plan[s] = <<Step("replay", "valid")>>
        BY DEF ScriptInv
      <4>2. Tail(<<Step("replay", "valid")>>) = << >>
        BY OneStep
      <4> QED
        BY <4>1, <4>2, Zenon
    <3> QED
      BY <3>1 DEF rest
  <2>2. "over" \notin Active
    BY DEF Active
  <2> QED
    BY <1>3, <1>5, <2>1, <2>2 DEF ScriptInv, Process
<1> QED
  BY <1>2, <1>4, <1>6, <1>7, <1>8, <1>9 DEF ScriptInv

LEMMA ScriptPosts ==
  ASSUME ScriptInv, NEW s \in Process, phase[s] = "send"
  PROVE  TxOK(ScriptTx(s))
<1> DEFINE step == Head(plan[s])
<1>1. step \in PlanStep
  BY HeadStep DEF Active
<1>2. StepEntryOK(step, auth[s])
  BY DEF ScriptInv
<1>3. /\ ScriptTx(s).mode = step.mode /\ ScriptTx(s).calls = CallsMade(step)
      /\ ScriptTx(s).entry = auth[s] /\ ScriptTx(s).by = s
  BY DEF ScriptTx
<1>6. s \in Replay => step.act = "replay" /\ step.mode = "valid"
  BY DEF ScriptInv, Active, Step
<1>7. s \in Replay => step.mode = "valid" /\ PaymentEntry(auth[s])
  BY <1>2, <1>6 DEF StepEntryOK
<1> HIDE DEF step
<1>4. CASE step.mode = "valid"
  BY <1>1, <1>3, <1>4, <1>7, StepModes DEF TxOK
<1>5. CASE step.mode # "valid"
  <2>1. Card[step.mode] \in Attacks /\ CraftedFor(Card[step.mode], auth[s])
    BY <1>1, <1>2, <1>5, StepModes DEF StepEntryOK
  <2>2. ScriptTx(s).calls = CallsOf(Card[step.mode])
    BY <1>3 DEF CallsMade
  <2> QED
    BY <1>3, <1>5, <1>7, <2>1, <2>2 DEF TxOK, IsAttack
<1> QED
  BY <1>4, <1>5

\* What an entry is made of once its step was rehearsed.
LEMMA RehearsedEntry ==
  ASSUME WorldOK, NEW step \in PlanStep, NEW n \in Nonce, NEW e \in Entered(step, n),
         step.act \notin {"tool", "attempt"} \/ step.mode = "valid"
  PROVE  StepEntryOK(step, e)
<1>1. step.mode # "overcap"
  BY StepModes
<1>2. CASE step.act = "file"
  BY <1>1, <1>2 DEF StepEntryOK, PlanStep
<1>3. CASE step.act # "file"
  <2>1. e = Crafted(Card[step.mode], n, Signed(step))
    BY <1>3 DEF Entered
  <2>2. CraftedFor(Card[step.mode], e) /\ e.contexts = Signed(step)
    BY <2>1, CraftedNow
  <2>3. step.act \in {"probe", "pay", "replay"} => Signed(step) = CallsMade(step)
    BY DEF Signed
  <2>4. step.act \in {"pay", "replay"} /\ step.mode = "valid" => PaymentEntry(e)
    <3>1. step.mode = "valid" => CraftedFor("valid", e) /\ CallsMade(step) = ValidCalls
      BY <2>2, StepModes DEF Card
    <3> QED
      BY <2>2, <2>3, <3>1 DEF PaymentEntry
  <2> QED
    BY <1>1, <2>2, <2>3, <2>4 DEF StepEntryOK
<1> QED
  BY <1>2, <1>3

LEMMA ProcessKeeps ==
  ASSUME WorldOK, ScriptInv, NEW s \in Process, ProcessStep(s), UNCHANGED <<vars, hostVars>>
  PROVE  ScriptInv'
\* A process moves on within its step.
<1>2. ASSUME plan' = plan, UNCHANGED <<results, posted>>,
             DOMAIN auth' = Process, DOMAIN said' = Process,
             NEW w \in Active, Enter(s, w), phase[s] \in Active,
             w \in {"simulate", "send"} => StepEntryOK(Head(plan[s]), auth'[s]),
             \A q \in Process \ {s} : auth'[q] = auth[q],
             lastAuth' = lastAuth \/ PaymentEntry(lastAuth')
      PROVE  ScriptInv'
  <2>1. DOMAIN phase' = Process /\ phase'[s] = w /\ \A q \in Process \ {s} : phase'[q] = phase[q]
    BY <1>2 DEF Enter, ScriptInv
  <2>2. \A r \in results' : PaidOK(r)'
    BY <1>2 DEF ScriptInv, PaidOK
  <2>3. \A q \in Process : phase'[q] \in Active => plan'[q] # << >>
    BY <1>2, <2>1 DEF ScriptInv
  <2>4. \A q \in Process :
          phase'[q] \in {"simulate", "send"} => StepEntryOK(Head(plan'[q]), auth'[q])
    BY <1>2, <2>1 DEF ScriptInv
  <2>5. \A q \in Replay : phase'[q] \in Active => plan'[q] = <<Step("replay", "valid")>>
    BY <1>2, <2>1 DEF ScriptInv, Process
  <2> QED
    BY <1>2, <2>1, <2>2, <2>3, <2>4, <2>5 DEF ScriptInv
<1>3. ASSUME NEW w, EndStep(s, w), phase[s] \in Active, UNCHANGED <<results, posted, lastAuth>>
      PROVE  ScriptInv'
  BY <1>3, StepEnds DEF ScriptInv
<1>4. CASE Rehearse(s)
  <2> DEFINE step == Head(plan[s])
  <2>1. phase[s] \in Active /\ UNCHANGED <<posted, results, lastAuth>>
    BY <1>4 DEF Rehearse, Active
  <2>2. CASE \E w : EndStep(s, w)
    BY <1>3, <2>1, <2>2
  <2>3. CASE ~\E w : EndStep(s, w)
    <3>1. /\ step.act \notin {"tool", "attempt"} \/ step.mode = "valid"
          /\ \E n \in Nonce : \E e \in Entered(step, n) : auth' = [auth EXCEPT ![s] = e]
          /\ said' = [said EXCEPT ![s] = NoValue]
          /\ Enter(s, IF Borrows(step) THEN "send" ELSE "simulate")
          /\ plan' = plan
      BY <1>4, <2>3 DEF Rehearse
    <3>2a. PICK n \in Nonce : \E e \in Entered(step, n) : auth' = [auth EXCEPT ![s] = e]
      BY <3>1
    <3>2. PICK e \in Entered(step, n) : auth' = [auth EXCEPT ![s] = e]
      BY <3>2a
    <3>3. step \in PlanStep
      BY <2>1, HeadStep
    <3>4. StepEntryOK(step, e)
      BY <3>1, <3>2, <3>3, RehearsedEntry
    <3>5. /\ auth'[s] = e /\ DOMAIN auth' = Process /\ DOMAIN said' = Process
          /\ \A q \in Process \ {s} : auth'[q] = auth[q]
      BY <3>1, <3>2 DEF ScriptInv
    <3> HIDE DEF step
    <3>6. CASE Borrows(step)
      <4>1. Enter(s, "send") /\ "send" \in Active
        BY <3>1, <3>6 DEF Active
      <4> QED
        BY <1>2, <2>1, <3>1, <3>4, <3>5, <4>1 DEF step
    <3>7. CASE ~Borrows(step)
      <4>1. Enter(s, "simulate") /\ "simulate" \in Active
        BY <3>1, <3>7 DEF Active
      <4> QED
        BY <1>2, <2>1, <3>1, <3>4, <3>5, <4>1 DEF step
    <3> QED
      BY <3>6, <3>7
  <2> QED
    BY <2>2, <2>3
<1>5. CASE SimulateSigned(s)
  <2>1. phase[s] = "simulate" /\ phase[s] \in Active /\ "send" \in Active /\ UNCHANGED <<posted, results>>
    BY <1>5 DEF SimulateSigned, Active
  <2> DEFINE step == Head(plan[s])
  <2>2. CASE \E w : EndStep(s, w) /\ lastAuth' = lastAuth
    BY <1>3, <2>1, <2>2
  <2>3. CASE ~\E w : EndStep(s, w) /\ lastAuth' = lastAuth
    <3>1. /\ Enter(s, "send") /\ UNCHANGED <<plan, auth, said>>
          /\ EntryVerdict(CallsMade(step), auth[s]) = "Ok"
          /\ lastAuth' = IF step.act = "pay" THEN auth[s] ELSE lastAuth
      BY <1>5, <2>3 DEF SimulateSigned, Simulated
    <3>4. lastAuth' = lastAuth \/ PaymentEntry(lastAuth')
      <4>1. step \in PlanStep /\ StepEntryOK(step, auth[s])
        BY <2>1, HeadStep DEF ScriptInv
      <4> HIDE DEF step
      <4>2. ASSUME step.act = "pay" PROVE PaymentEntry(auth[s])
        <5>1. step.mode # "overcap"
          BY <4>1 DEF StepEntryOK
        <5>2. step.mode = "valid"
          <6> SUFFICES ASSUME step.mode # "valid" PROVE FALSE
            OBVIOUS
          <6>1. Card[step.mode] \in Attacks /\ CraftedFor(Card[step.mode], auth[s])
            BY <4>1, <5>1, StepModes DEF StepEntryOK
          <6> QED
            BY <3>1, <6>1, AttackNeverOk DEF CallsMade
        <5> QED
          BY <4>1, <4>2, <5>2 DEF StepEntryOK
      <4> QED
        BY <3>1, <4>2
    <3>2. StepEntryOK(Head(plan[s]), auth'[s])
      BY <2>1, <3>1 DEF ScriptInv
    <3>3. DOMAIN auth' = Process /\ DOMAIN said' = Process
      BY <3>1 DEF ScriptInv
    <3> HIDE DEF step
    <3> QED
      BY <1>2, <2>1, <3>1, <3>2, <3>3, <3>4
  <2> QED
    BY <2>2, <2>3
<1>6. CASE SendScript(s)
  <2>1. /\ phase[s] = "send" /\ phase' = [phase EXCEPT ![s] = "poll"]
        /\ posted' \subseteq posted \cup {ScriptTx(s)}
        /\ UNCHANGED <<plan, auth, said, results, lastAuth>>
    BY <1>6 DEF SendScript, Enter
  <2>2. \A tx \in posted' : TxOK(tx)
    BY <2>1, ScriptPosts DEF ScriptInv
  <2>3. \A r \in results' : PaidOK(r)'
    BY <2>1 DEF ScriptInv, PaidOK
  <2>4. phase'[s] = "poll" /\ \A q \in Process \ {s} : phase'[q] = phase[q]
    BY <2>1 DEF ScriptInv
  <2>5. \A q \in Process : phase'[q] \in Active => phase[q] \in Active
    BY <2>1, <2>4 DEF Active
  <2>6. \A q \in Process : phase'[q] \in {"simulate", "send"} => phase[q] \in {"simulate", "send"}
    BY <2>4
  <2>7. DOMAIN phase' = Process
    BY <2>1 DEF ScriptInv
  <2>8. \A q \in Replay : phase'[q] \in Active => plan'[q] = <<Step("replay", "valid")>>
    BY <2>1, <2>5 DEF ScriptInv, Process
  <2> QED
    BY <2>1, <2>2, <2>3, <2>5, <2>6, <2>7, <2>8 DEF ScriptInv
<1>7. CASE Poll(s)
  BY <1>3, <1>7 DEF Poll, Active
<1>8. CASE Crashes(s)
  <2>1. \A tx \in posted' : TxOK(tx)
    <3>1. phase[s] = "send" => TxOK(ScriptTx(s))
      BY ScriptPosts
    <3>2. posted' \subseteq IF phase[s] = "send" THEN posted \cup {ScriptTx(s)} ELSE posted
      BY <1>8 DEF Crashes
    <3> QED
      BY <3>1, <3>2 DEF ScriptInv
  <2>2. phase[s] \in Active /\ EndStep(s, "threw") /\ UNCHANGED <<results, lastAuth>>
    BY <1>8 DEF Crashes, Active
  <2> QED
    BY <2>1, <2>2, StepEnds
<1> QED
  BY <1>4, <1>5, <1>6, <1>7, <1>8 DEF ProcessStep
\* A process begins, with a plan of the scripts or with the entry it replays.
LEMMA BeginKeeps ==
  ASSUME ScriptInv, NEW s \in Process, NEW p \in Seq(PlanStep), p # << >>,
         phase[s] = "idle", plan' = [plan EXCEPT ![s] = p],
         NEW w \in {"rehearse", "simulate"}, Enter(s, w),
         DOMAIN auth' = Process, \A q \in Process \ {s} : auth'[q] = auth[q],
         w = "simulate" => StepEntryOK(Head(p), auth'[s]),
         s \in Replay => p = <<Step("replay", "valid")>>,
         UNCHANGED <<said, posted, results, lastAuth>>
  PROVE  ScriptInv'
<1>1. /\ DOMAIN phase' = Process /\ phase'[s] = w
      /\ \A q \in Process \ {s} : phase'[q] = phase[q]
  BY DEF Enter, ScriptInv
<1>2. /\ plan' \in [Process -> Seq(PlanStep)] /\ plan'[s] = p
      /\ \A q \in Process \ {s} : plan'[q] = plan[q]
  BY DEF ScriptInv
<1>3. \A r \in results' : PaidOK(r)'
  BY DEF ScriptInv, PaidOK
<1>4. \A q \in Replay : phase'[q] \in Active => plan'[q] = <<Step("replay", "valid")>>
  BY <1>1, <1>2 DEF ScriptInv, Process
<1> QED
  BY <1>1, <1>2, <1>3, <1>4 DEF ScriptInv

\* A transfer that was taken settles only if it is the honest one.
LEMMA TakeScriptKeeps ==
  ASSUME WorldOK, ScriptInv, NEW tx \in posted, TakeScript(tx), UNCHANGED procVars
  PROVE  WorldOK' /\ ScriptInv'
<1>1. UNCHANGED <<plan, phase, auth, said, lastAuth>> /\ posted' = posted \ {tx} /\ TxOK(tx)
  BY DEF TakeScript, procVars, ScriptInv
<1>2. ASSUME results' = results \cup {[tx |-> tx, status |-> "FAILED"]}, UNCHANGED <<vars, hostVars>>
      PROVE  WorldOK' /\ ScriptInv'
  <2> DEFINE new == [tx |-> tx, status |-> "FAILED"]
  <2>1. new.status # "SUCCESS"
    OBVIOUS
  <2> HIDE DEF new
  <2>2. \A r \in results' : PaidOK(r)'
    BY <1>2, <2>1 DEF ScriptInv, PaidOK, new
  <2> QED
    BY <1>1, <1>2, <2>2, RestKeepsWorld DEF ScriptInv
<1>3. ASSUME EntryVerdict(tx.calls, tx.entry) = "Ok", Submit(tx.calls, tx.entry),
             results' = results \cup {[tx |-> tx, status |-> "SUCCESS"]}
      PROVE  WorldOK' /\ ScriptInv'
  <2> DEFINE new == [tx |-> tx, status |-> "SUCCESS"]
  <2>1. WorldOK'
    BY <1>3, AuthKeepsWorld DEF Submit
  <2>2. tx.mode = "valid" /\ tx.calls = ValidCalls
    BY <1>1, <1>3, AttackNeverOk DEF TxOK, IsAttack
  <2>4. new.tx = tx /\ new.status = "SUCCESS"
    OBVIOUS
  <2> HIDE DEF new
  <2>5. results' = results \cup {new}
    BY <1>3 DEF new
  <2>6. \A r \in results' : PaidOK(r)'
    BY <2>2, <2>4, <2>5 DEF ScriptInv, PaidOK
  <2> QED
    BY <1>1, <2>1, <2>6 DEF ScriptInv
<1> QED
  BY <1>2, <1>3 DEF TakeScript

LEMMA WorldKeepsScripts ==
  ASSUME ScriptInv, UNCHANGED scriptVars
  PROVE  ScriptInv'
<1>1. UNCHANGED <<plan, phase, auth, said, lastAuth, posted, results>>
  BY DEF scriptVars, procVars
<1>2. \A r \in results' : PaidOK(r)'
  BY <1>1 DEF ScriptInv, PaidOK
<1> QED
  BY <1>1, <1>2 DEF ScriptInv

LEMMA ScriptsKeep == WorldOK /\ ScriptInv /\ ScriptNext => WorldOK' /\ ScriptInv'
<1> SUFFICES ASSUME WorldOK, ScriptInv, ScriptNext PROVE WorldOK' /\ ScriptInv'
  OBVIOUS
<1>1. ASSUME NEW s \in Script, NEW p \in Plan, Begin(s, p), UNCHANGED <<vars, hostVars>>
      PROVE  WorldOK' /\ ScriptInv'
  <2>1. s \in Process /\ p \in Seq(PlanStep) /\ p # << >>
    BY PlansAre DEF Process
  <2>2. DOMAIN auth' = Process /\ \A q \in Process \ {s} : auth'[q] = auth[q]
    BY <1>1 DEF Begin, ScriptInv
  <2>3. ScriptInv'
    BY <1>1, <2>1, <2>2, BeginKeeps, ScriptAssumption DEF Begin
  <2> QED
    BY <1>1, <2>3, RestKeepsWorld
<1>2. ASSUME NEW s \in Replay, BeginReplay(s), UNCHANGED <<vars, hostVars>>
      PROVE  WorldOK' /\ ScriptInv'
  <2> DEFINE step == Step("replay", "valid")
  <2>1. step \in PlanStep /\ s \in Process
    BY DEF Step, PlanStep, Process
  <2>2. step.mode = "valid" /\ step.act = "replay"
    BY DEF Step
  <2>3. /\ phase[s] = "idle" /\ plan' = [plan EXCEPT ![s] = <<step>>]
        /\ auth' = [auth EXCEPT ![s] = lastAuth]
        /\ Enter(s, "simulate")
        /\ UNCHANGED <<said, posted, results, lastAuth>>
        /\ lastAuth # NoValue /\ step = Step("replay", "valid")
    BY <1>2 DEF BeginReplay
  <2> HIDE DEF step
  <2>4. <<step>> \in Seq(PlanStep) /\ <<step>> # << >> /\ Head(<<step>>) = step
    BY <2>1
  <2>5. StepEntryOK(step, auth'[s])
    <3>1. auth'[s] = lastAuth /\ PaymentEntry(lastAuth)
      BY <2>1, <2>3 DEF ScriptInv
    <3> QED
      BY <2>2, <3>1 DEF StepEntryOK
  <2>6. DOMAIN auth' = Process /\ \A q \in Process \ {s} : auth'[q] = auth[q]
    BY <2>3 DEF ScriptInv
  <2>7. ScriptInv'
    BY <2>1, <2>3, <2>4, <2>5, <2>6, BeginKeeps
  <2> QED
    BY <1>2, <2>7, RestKeepsWorld
<1>3. ASSUME NEW s \in Process, ProcessStep(s), UNCHANGED <<vars, hostVars>>
      PROVE  WorldOK' /\ ScriptInv'
  BY <1>3, ProcessKeeps, RestKeepsWorld
<1>4. ASSUME NEW tx \in posted, TakeScript(tx), UNCHANGED procVars
      PROVE  WorldOK' /\ ScriptInv'
  BY <1>4, TakeScriptKeeps
<1>5. ASSUME NEW tx \in posted, LoseScript(tx), UNCHANGED procVars
      PROVE  WorldOK' /\ ScriptInv'
  <2>1. UNCHANGED <<plan, phase, auth, said, lastAuth, results>> /\ posted' = posted \ {tx}
    BY <1>5 DEF LoseScript, procVars
  <2>2. ScriptInv'
    <3>1. \A r \in results' : PaidOK(r)'
      BY <2>1 DEF ScriptInv, PaidOK
    <3> QED
      BY <2>1, <3>1 DEF ScriptInv
  <2> QED
    BY <1>5, <2>2, RestKeepsWorld DEF LoseScript
<1>6. CASE HostNext /\ UNCHANGED scriptVars
  BY <1>6, HostKeepsWorld, WorldKeepsScripts
<1> QED
  BY <1>1, <1>2, <1>3, <1>4, <1>5, <1>6 DEF ScriptNext

-----------------------------------------------------------------------------
(* Together.                                                               *)

PaymentsInv == WorldOK /\ DeckInv /\ ScriptInv

LEMMA ScriptsInit == ScriptInit => ScriptInv
<1> SUFFICES ASSUME ScriptInit PROVE ScriptInv
  OBVIOUS
<1>1. plan \in [Process -> Seq(PlanStep)]
  BY DEF ScriptInit
<1> QED
  BY <1>1, ScriptAssumption DEF ScriptInit, ScriptInv, Active, Process

LEMMA PaymentsStep ==
  PaymentsInv /\ [DeckStep \/ ScriptsStep]_<<deckVars, scriptVars>> => PaymentsInv'
<1> SUFFICES ASSUME PaymentsInv, [DeckStep \/ ScriptsStep]_<<deckVars, scriptVars>>
             PROVE  PaymentsInv'
  OBVIOUS
<1>1. CASE DeckStep
  BY <1>1, DeckKeeps, WorldKeepsScripts DEF DeckStep, PaymentsInv
<1>2. CASE ScriptsStep
  <2>1. WorldOK' /\ ScriptInv'
    BY <1>2, ScriptsKeep DEF ScriptsStep, PaymentsInv
  <2>2. DeckInv'
    BY <1>2 DEF ScriptsStep, PaymentsInv, DeckInv, pageVars, netVars
  <2> QED
    BY <2>1, <2>2 DEF PaymentsInv
<1>3. CASE UNCHANGED <<deckVars, scriptVars>>
  <2>1. UNCHANGED <<vars, hostVars, pageVars, netVars, scriptVars>>
    BY <1>3 DEF deckVars
  <2>2. DeckInv'
    BY <2>1 DEF PaymentsInv, DeckInv, pageVars, netVars
  <2>3. ScriptInv'
    BY <2>1, WorldKeepsScripts DEF PaymentsInv
  <2> QED
    BY <2>1, <2>2, <2>3, RestKeepsWorld DEF PaymentsInv
<1> QED
  BY <1>1, <1>2, <1>3

\* The invariant that the attacks' theorems rest on: whatever the deck or a script
\* signs for an attack carries its tampering with it, wherever it is on its way
\* (attacks.js 27-68, pay_p1.mjs), and no such entry passes __check_auth.
THEOREM PaymentsInvariant == PaymentsSpec => []PaymentsInv
<1>1. PaymentsInit => PaymentsInv
  BY DeckInitOK, ScriptsInit DEF PaymentsInit, PaymentsInv
<1> QED
  BY <1>1, PaymentsStep, PTL DEF PaymentsSpec

\* No attack of a card or a script pays (app.js 184-186, agent_server.mjs 135),
\* whatever the admin does, in whichever budget window, however often it is sent.
THEOREM AttacksPayNothing == PaymentsSpec => []AttacksNeverPay
<1>1. PaymentsInv => AttacksNeverPay
  <2> SUFFICES ASSUME PaymentsInv PROVE AttacksNeverPay
    OBVIOUS
  <2>1. AttackNeverPays
    BY DEF PaymentsInv, DeckInv, AttackNeverPays
  <2> QED
    BY <2>1 DEF PaymentsInv, ScriptInv, PaidOK, AttacksNeverPay
<1> QED
  BY <1>1, PaymentsInvariant, PTL

\* A refused replay ends in its second simulation.
LEMMA ReplayEnds ==
  ASSUME ScriptInv, ScriptNext, NEW s \in Replay,
         phase[s] = "simulate", phase'[s] = "over", said'[s] = "rejected"
  PROVE  ~(EntryVerdict(ValidCalls, auth[s]) = "Ok" /\ Pays(ValidCalls))
<1>1. s \in Process /\ DOMAIN said = Process /\ DOMAIN phase = Process
  BY DEF Process, ScriptInv
<1>2. ASSUME NEW q \in Process, ProcessStep(q) PROVE SimulateSigned(s)
  <2>1. q # s => phase'[s] = phase[s]
    BY <1>1, <1>2 DEF ProcessStep, Rehearse, SimulateSigned, SendScript, Poll, Crashes, EndStep, Enter
  <2>2. q = s
    BY <2>1
  <2>3. Crashes(s) => said'[s] = "threw"
    BY <1>1 DEF Crashes, EndStep
  <2> QED
    BY <1>2, <2>2, <2>3 DEF ProcessStep, Rehearse, SendScript, Poll
<1>3. ASSUME NEW q \in Script, NEW p \in Plan, Begin(q, p) PROVE phase'[s] = phase[s]
  BY <1>3, ScriptAssumption DEF Begin, Enter
<1>4. ASSUME NEW q \in Replay, BeginReplay(q) PROVE phase'[s] = phase[s] \/ phase'[s] = "simulate"
  BY <1>1, <1>4 DEF BeginReplay, Enter
<1>5. SimulateSigned(s)
  BY <1>2, <1>3, <1>4 DEF ScriptNext, procVars, scriptVars
<1>6. Head(plan[s]) = Step("replay", "valid")
  BY DEF ScriptInv, Active
<1>7. CallsMade(Head(plan[s])) = ValidCalls /\ Head(plan[s]).act = "replay"
  BY <1>6 DEF Step, CallsMade, Card, CallsOf, ValidCalls
<1>8. CASE ~(EntryVerdict(ValidCalls, auth[s]) = "Ok" /\ Pays(ValidCalls))
  BY <1>8
<1>9. CASE EntryVerdict(ValidCalls, auth[s]) = "Ok" /\ Pays(ValidCalls)
  <2>1. Enter(s, "send")
    BY <1>5, <1>7, <1>9 DEF SimulateSigned, Simulated
  <2> QED
    BY <1>1, <2>1 DEF Enter
<1> QED
  BY <1>8, <1>9

\* The network fails what it takes for the reasons the simulation has.
LEMMA FailedTakes ==
  ASSUME ScriptInv, ScriptNext, NEW r \in results' \ results, r.tx.by \in Replay, r.status = "FAILED"
  PROVE  /\ r.tx.calls = ValidCalls /\ PaymentEntry(r.tx.entry)
         /\ ~(EntryVerdict(ValidCalls, r.tx.entry) = "Ok" /\ Pays(ValidCalls))
<1>1. PICK tx \in posted : TakeScript(tx)
  BY DEF ScriptNext, Begin, BeginReplay, ProcessStep, Rehearse, SimulateSigned, SendScript, Poll,
         Crashes, LoseScript, scriptVars
<1>2. r \in {[tx |-> tx, status |-> "SUCCESS"], [tx |-> tx, status |-> "FAILED"]}
  BY <1>1 DEF TakeScript
<1>3. r.tx = tx /\ r = [tx |-> tx, status |-> "FAILED"]
  BY <1>2
<1>4. ~(EntryVerdict(tx.calls, tx.entry) = "Ok" /\ Pays(tx.calls))
  BY <1>1, <1>3 DEF TakeScript
<1>5. tx.calls = ValidCalls /\ PaymentEntry(tx.entry)
  BY <1>3 DEF ScriptInv, TxOK
<1> QED
  BY <1>3, <1>4, <1>5

\* What replay_same.mjs prints of a refusal (19-22) is true of an account that would
\* have paid: the entry that pay_p1.mjs left behind has been used, by a payment or a
\* replay that settled, and by nothing that failed or was lost.
THEOREM RefusedReplaysWerePaid == PaymentsSpec => RejectedReplayMeansPaid
<1> DEFINE Refused ==
             /\ \A s \in Replay :
                  /\ phase[s] = "simulate" /\ phase'[s] = "over" /\ said'[s] = "rejected"
                  /\ WouldPay(auth[s])
                  => auth[s].nonce \in consumed
             /\ \A r \in results' \ results :
                  /\ r.tx.by \in Replay /\ r.status = "FAILED"
                  /\ WouldPay(r.tx.entry)
                  => r.tx.entry.nonce \in consumed
<1>1. ASSUME PaymentsInv, [DeckStep \/ ScriptsStep]_<<deckVars, scriptVars>>
      PROVE  Refused
  <2>1. ASSUME NEW s \in Replay, phase[s] = "simulate", phase'[s] = "over", said'[s] = "rejected",
               WouldPay(auth[s])
        PROVE  auth[s].nonce \in consumed
    <3>1. ScriptNext
      BY <1>1, <2>1 DEF DeckStep, ScriptsStep, scriptVars, procVars
    <3>2. ~(EntryVerdict(ValidCalls, auth[s]) = "Ok" /\ Pays(ValidCalls))
      BY <1>1, <2>1, <3>1, ReplayEnds DEF PaymentsInv
    <3>3. s \in Process /\ Head(plan[s]) = Step("replay", "valid") /\ StepEntryOK(Head(plan[s]), auth[s])
      BY <1>1, <2>1 DEF PaymentsInv, ScriptInv, Active, Process
    <3>4. PaymentEntry(auth[s])
      BY <3>3 DEF StepEntryOK, Step
    <3> QED
      BY <1>1, <2>1, <3>2, <3>4, PaymentPasses DEF WouldPay, PaymentsInv
  <2>2. ASSUME NEW r \in results' \ results, r.tx.by \in Replay, r.status = "FAILED", WouldPay(r.tx.entry)
        PROVE  r.tx.entry.nonce \in consumed
    <3>1. ScriptNext
      BY <1>1, <2>2 DEF DeckStep, ScriptsStep, scriptVars, procVars
    <3>2. /\ PaymentEntry(r.tx.entry)
          /\ ~(EntryVerdict(ValidCalls, r.tx.entry) = "Ok" /\ Pays(ValidCalls))
      BY <1>1, <2>2, <3>1, FailedTakes DEF PaymentsInv
    <3> QED
      BY <1>1, <2>2, <3>2, PaymentPasses DEF WouldPay, PaymentsInv
  <2> QED
    BY <2>1, <2>2
<1> QED
  BY <1>1, PaymentsInvariant, PTL DEF PaymentsSpec, RejectedReplayMeansPaid

-----------------------------------------------------------------------------
(* The gates.                                                              *)

\* A run leaves its simulation for the submission with the verdict alone.
LEMMA DeckMeasures ==
  ASSUME DeckInv, DeckNext, NEW r \in Run, pc[r] = "simulate", pc'[r] = "send"
  PROVE  measured'[r] = EntryVerdict(CallsOf(mode[r]), entry[r])
<1> USE DEF DeckInv
<1>1. ASSUME NEW q \in Run, RunStep(q) PROVE q = r /\ Simulate(r)
  <2>1. ASSUME NEW w \in {"craft", "footprint", "settle", "over"}, GoTo(q, w) PROVE FALSE
    BY <2>1 DEF GoTo
  <2>2. Probed(q) => GoTo(q, "craft") \/ GoTo(q, "over")
    BY DEF Probed, Proceed
  <2>3. Fails(q) => GoTo(q, "craft") \/ GoTo(q, "over")
    BY DEF Fails
  <2>4. Craft(q) => GoTo(q, "footprint") \/ Fails(q)
    BY DEF Craft
  <2>5. Footprint(q) => pc[q] = "footprint" /\ (GoTo(q, "simulate") \/ Fails(q))
    BY DEF Footprint
  <2>6. Send(q) => GoTo(q, "settle")
    BY DEF Send
  <2>7. Settle(q) => GoTo(q, "over")
    BY DEF Settle
  <2>8. Throws(q) => Fails(q)
    BY DEF Throws
  <2>9. ~(pc[q] = "footprint" /\ GoTo(q, "simulate"))
    BY DEF GoTo
  <2>10. Simulate(q)
    BY <1>1, <2>1, <2>2, <2>3, <2>4, <2>5, <2>6, <2>7, <2>8, <2>9 DEF RunStep
  <2>11. q = r
    BY <2>10 DEF Simulate, GoTo
  <2> QED
    BY <2>10, <2>11
<1>2. ASSUME NEW q \in Run, NEW m \in Mode, Click(q, m) PROVE FALSE
  <2>1. GoTo(q, "probe") \/ GoTo(q, "craft") \/ GoTo(q, "over")
    BY <1>2 DEF Click, Proceed
  <2> QED
    BY <2>1 DEF GoTo
<1>3. pc' # pc
  OBVIOUS
<1>4. PICK q \in Run : RunStep(q)
  BY <1>2, <1>3 DEF DeckNext, pageVars, ResetDeck, Take, Lose
<1>5. Simulate(r)
  BY <1>1, <1>4
<1> QED
  BY <1>5 DEF Simulate

\* A probe ends its step with what the simulation says.
LEMMA ProbeSays ==
  ASSUME ScriptInv, ScriptNext, NEW s \in Script,
         phase[s] = "simulate", Head(plan[s]).act = "probe", said'[s] \notin {"threw", said[s]}
  PROVE  said'[s] = EntryVerdict(CallsMade(Head(plan[s])), auth[s])
<1>1. s \in Process /\ DOMAIN said = Process
  BY DEF Process, ScriptInv
<1>2. ASSUME NEW q \in Process, ProcessStep(q) PROVE q = s /\ SimulateSigned(s)
  <2>1. q # s => said'[s] = said[s]
    BY <1>1, <1>2 DEF ProcessStep, Rehearse, SimulateSigned, SendScript, Poll, Crashes, EndStep
  <2>2. q = s
    BY <2>1
  <2>3. Crashes(s) => said'[s] = "threw"
    BY <1>1 DEF Crashes, EndStep
  <2> QED
    BY <1>2, <2>2, <2>3 DEF ProcessStep, Rehearse, SendScript, Poll
<1>3. SimulateSigned(s)
  BY <1>2 DEF ScriptNext, Begin, BeginReplay, procVars, scriptVars
<1>4. EndStep(s, EntryVerdict(CallsMade(Head(plan[s])), auth[s]))
  BY <1>3 DEF SimulateSigned, Simulated
<1> QED
  BY <1>1, <1>4 DEF EndStep

\* In every state that governance, payments and deposits bring the account to, each
\* payload of the deck and each attack of the probe that the host admits is stopped
\* by the gate it is made for (SECURITY.md 70-80), or by the freeze, the rotation or
\* the budget that come before it (lib.rs 356-478).
THEOREM GatesHold == PaymentsSpec => EveryGateHolds
<1> DEFINE Probe(s) ==
             LET step == Head(plan[s])
             IN  /\ phase[s] = "simulate" /\ step.act = "probe"
                 /\ said'[s] \notin {"threw", said[s]}
                 => IF HostAdmits(CallsMade(step), auth[s])
                    THEN said'[s] = StoppedBy(Card[step.mode])
                    ELSE ~IsCode(said'[s])
           Gates == CardIsStopped /\ \A s \in Script : Probe(s)
<1>1. ASSUME PaymentsInv, [DeckStep \/ ScriptsStep]_<<deckVars, scriptVars>>
      PROVE  Gates
  <2>1. ASSUME NEW m \in Attacks, NEW e, CraftedFor(m, e)
        PROVE  IF HostAdmits(CallsOf(m), e)
               THEN EntryVerdict(CallsOf(m), e) = StoppedBy(m)
               ELSE ~IsCode(EntryVerdict(CallsOf(m), e))
    <3>1. CASE HostAdmits(CallsOf(m), e)
      BY <1>1, <2>1, <3>1, GateOfAttack DEF PaymentsInv
    <3>2. CASE ~HostAdmits(CallsOf(m), e)
      <4>1. now \in Int /\ e.expires \in Int
        BY <1>1, <2>1, CraftedFields DEF PaymentsInv, WorldOK, Ledger
      <4>2. EntryVerdict(CallsOf(m), e) \in {"InvalidAction", "Expired", "ExistingValue"}
        BY <3>2, <4>1 DEF HostAdmits, EntryVerdict
      <4> QED
        BY <3>2, <4>2 DEF IsCode
    <3> QED
      BY <3>1, <3>2
  <2>2. CardIsStopped
    <3> SUFFICES ASSUME NEW r \in Run, Measures(r)
                 PROVE  IF HostAdmits(CallsOf(mode[r]), entry[r])
                        THEN measured'[r] = StoppedBy(mode[r])
                        ELSE ~IsCode(measured'[r])
      BY DEF CardIsStopped
    <3>1. DeckNext
      BY <1>1 DEF DeckStep, ScriptsStep, deckVars, pageVars, Measures
    <3>2. mode[r] \in Attacks /\ CraftedFor(mode[r], entry[r])
      BY <1>1, DeckAssumption DEF PaymentsInv, DeckInv, Working, Attacks, Measures
    <3>3. measured'[r] = EntryVerdict(CallsOf(mode[r]), entry[r])
      BY <1>1, <3>1, DeckMeasures DEF PaymentsInv, DeckInv, Measures
    <3> QED
      BY <2>1, <3>2, <3>3
  <2>3. ASSUME NEW s \in Script PROVE Probe(s)
    <3> DEFINE step == Head(plan[s])
               m == Card[step.mode]
    <3> SUFFICES ASSUME phase[s] = "simulate", step.act = "probe",
                        said'[s] \notin {"threw", said[s]}
                 PROVE  IF HostAdmits(CallsMade(step), auth[s])
                        THEN said'[s] = StoppedBy(m)
                        ELSE ~IsCode(said'[s])
      OBVIOUS
    <3>1. ScriptNext
      BY <1>1 DEF DeckStep, ScriptsStep, scriptVars, procVars
    <3>2. said'[s] = EntryVerdict(CallsMade(step), auth[s])
      BY <1>1, <3>1, ProbeSays DEF PaymentsInv
    <3>3. s \in Process /\ step \in PlanStep /\ StepEntryOK(step, auth[s])
      BY <1>1, HeadStep DEF PaymentsInv, ScriptInv, Process, Active
    <3>4. m \in Attacks /\ CraftedFor(m, auth[s]) /\ CallsMade(step) = CallsOf(m)
      BY <3>3, StepModes DEF StepEntryOK, CallsMade
    <3> HIDE DEF step, m
    <3> QED
      BY <2>1, <3>2, <3>4
  <2> QED
    BY <2>2, <2>3
<1> QED
  BY <1>1, PaymentsInvariant, PTL DEF PaymentsSpec, EveryGateHolds
=============================================================================
