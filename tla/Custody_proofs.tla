--------------------------- MODULE Custody_proofs ---------------------------
(***************************************************************************)
(* The custody service, for any number of wallets, operators, callers and  *)
(* requests, any quorum, delays and policy, whatever crashes and whichever *)
(* answers of the signer are lost: types, what a decision rests on, which  *)
(* payments are made, that no wallet is paid more than it has, that its    *)
(* deposits stay within its limit, that the ledger agrees with the chain,  *)
(* and that a frozen vault was frozen for a reason.                        *)
(***************************************************************************)
EXTENDS Custody, Sums, SequenceTheorems, TLAPS

USE CustodyAssumption, NoneAssumption, ComplianceAssumption

----------------------------------------------------------------------------
(* The decisions *)

\* The least of a set of naturals is one of them and below all of them.
LEMMA MinOfNaturals ==
  ASSUME NEW S, S \subseteq Nat, S # {}
  PROVE  Min(S) \in S /\ \A x \in S : Min(S) <= x
<1>1. PICK least \in S : \A y \in S : ~(<<y, least>> \in OpToRel(<, Nat))
  BY NatLessThanWellFounded, WFMin
<1>2. \A y \in S : least <= y
  <2> SUFFICES ASSUME NEW y \in S, y < least PROVE FALSE
    OBVIOUS
  <2>1. <<y, least>> \in OpToRel(<, Nat)
    BY DEF OpToRel
  <2> QED
    BY <1>1, <2>1
<1> QED
  BY <1>2 DEF Min

\* The items a decision is made on are items that were recorded.
LEMMA LatestIsRecorded ==
  ASSUME NEW items \in Seq(Item)
  PROVE  LatestEvidence(items) \subseteq Item
BY DEF LatestEvidence

\* When nothing denies, the decision lasts until the first of its items ages
\* or expires, and until then nothing would deny.
LEMMA DecisionLasts ==
  ASSUME NEW latest \in SUBSET Item, NEW t \in Nat, EvidenceReasons(latest, t) = {}
  PROVE  Decision(latest, t) \in Decisions /\ Lasts(Decision(latest, t))
<1> DEFINE expiry == DecisionExpiry(latest, t)
           active == {item \in latest : ActiveEvidence(item, t)}
           ends == {t + DecisionTtl} \cup {EffectiveEvidenceExpiry(item) : item \in active}
<1>1. \A item \in latest : ActiveEvidence(item, t)
  <2> SUFFICES ASSUME NEW item \in latest, ~ActiveEvidence(item, t) PROVE FALSE
    OBVIOUS
  <2>1. <<item.kind, "not active">> \in EvidenceReasons(latest, t)
    BY DEF EvidenceReasons
  <2> QED
    BY <2>1
<1>2. ASSUME NEW item \in Item
      PROVE  /\ EffectiveEvidenceExpiry(item) \in Nat
             /\ EffectiveEvidenceExpiry(item) <= item.expiresAt
             /\ EffectiveEvidenceExpiry(item) <= item.observedAt + MaxAge[item.kind]
  <2>1. item.expiresAt \in Nat /\ item.observedAt + MaxAge[item.kind] \in Nat
    BY DEF Item
  <2> DEFINE S == {item.expiresAt, item.observedAt + MaxAge[item.kind]}
  <2>2. Min(S) \in S /\ \A x \in S : Min(S) <= x
    BY <2>1, MinOfNaturals
  <2>3. EffectiveEvidenceExpiry(item) = Min(S)
    BY DEF EffectiveEvidenceExpiry
  <2> QED
    BY <2>1, <2>2, <2>3
<1>3. ends \subseteq Nat /\ ends # {}
  BY <1>2
<1>4. expiry \in Nat /\ \A x \in ends : expiry <= x
  BY <1>3, MinOfNaturals DEF DecisionExpiry
<1> HIDE DEF expiry, ends
<1>5. ASSUME NEW u \in t..(expiry - 1), NEW item \in latest
      PROVE  ActiveEvidence(item, u)
  <2>1. ActiveEvidence(item, t) /\ item \in Item
    BY <1>1
  <2>2. EffectiveEvidenceExpiry(item) \in ends
    BY <1>1 DEF ends
  <2>3. expiry <= EffectiveEvidenceExpiry(item)
    BY <1>4, <2>2
  <2>4. /\ item.observedAt \in Nat /\ item.expiresAt \in Nat /\ MaxAge[item.kind] \in Nat
        /\ EffectiveEvidenceExpiry(item) \in Nat
    BY <1>2, <2>1 DEF Item
  <2>5. u < item.expiresAt /\ u < item.observedAt + MaxAge[item.kind]
    BY <1>2, <1>4, <2>1, <2>3, <2>4
  <2> QED
    BY <2>1, <2>4, <2>5, <1>4 DEF ActiveEvidence
<1>6. \A u \in t..(expiry - 1) : EvidenceReasons(latest, u) = {}
  <2> SUFFICES ASSUME NEW u \in t..(expiry - 1) PROVE EvidenceReasons(latest, u) = {}
    OBVIOUS
  <2>1. {x \in latest : ~ActiveEvidence(x, u)} = {}
    BY <1>5
  <2>2. EvidenceReasons(latest, u) \subseteq EvidenceReasons(latest, t)
    BY <2>1 DEF EvidenceReasons
  <2> QED
    BY <2>2
<1>7. Decision(latest, t) = [evidence |-> latest, decidedAt |-> t, expiresAt |-> expiry]
  BY DEF Decision, expiry
<1> QED
  BY <1>4, <1>6, <1>7 DEF Lasts, Decisions

\* What evaluateEligibility keeps for an eligible wallet.
LEMMA EligibleDecision ==
  ASSUME TypeOK, NEW w \in Wallets, NEW product, NEW amount, Eligible(w, product, amount)
  PROVE  LET decision == Decision(LatestEvidence(evidence[w]), now)
         IN  decision \in Decisions /\ Lasts(decision)
<1>1. LatestEvidence(evidence[w]) \in SUBSET Item /\ now \in Nat
  BY LatestIsRecorded DEF TypeOK
<1>2. EvidenceReasons(LatestEvidence(evidence[w]), now) = {}
  BY DEF Eligible, Reasons
<1> QED
  BY <1>1, <1>2, DecisionLasts

----------------------------------------------------------------------------
(* Types *)

LEMMA GotoMoves ==
  ASSUME TypeOK, NEW c \in Callers, NEW state, Goto(c, state)
  PROVE  /\ callers' = [d \in Callers |-> callers'[d]]
         /\ callers'[c] = state
         /\ \A d \in Callers \ {c} : callers'[d] = callers[d]
<1>1. DOMAIN callers = Callers
  BY DEF TypeOK
<1> QED
  BY <1>1 DEF Goto, TypeOK

LEMMA GotoTyped ==
  ASSUME TypeOK, NEW c \in Callers, NEW state, Goto(c, state), CallOK(state)
  PROVE  callers' = [d \in Callers |-> callers'[d]] /\ \A d \in Callers : CallOK(callers'[d])
BY ZenonT(60), GotoMoves DEF TypeOK

LEMMA IdleTyped == CallOK(Idle)
BY DEF CallOK, Idle, Asking, Paying

\* What createWithdrawalRequest and the operators write into a request.
LEMMA RequestUpdated ==
  ASSUME NEW q \in Request, NEW s \in {"held", "approved", "submitting", "submitted", "finalized", "rejected"},
         NEW n \in Nat, NEW decided \in [Operators -> {"none", "approve", "reject"}]
  PROVE  /\ [q EXCEPT !.status = s] \in Request
         /\ [q EXCEPT !.status = s, !.attempts = n] \in Request
         /\ [q EXCEPT !.approvals = decided] \in Request
BY DEF Request

\* The transactions over a request: its state, and everything else of it.
LEMMA StatusChanges ==
  ASSUME TypeOK, NEW r \in Requests, requests[r] # None,
         NEW s \in {"held", "approved", "submitting", "submitted", "finalized", "rejected"},
         requests' = [requests EXCEPT ![r].status = s]
  PROVE  /\ requests' \in [Requests -> Request \cup {None}]
         /\ requests'[r] \in Request /\ requests'[r].status = s
         /\ requests'[r].wallet = requests[r].wallet
         /\ requests'[r].earliest = requests[r].earliest
         /\ requests'[r].approvals = requests[r].approvals
         /\ requests'[r].decision = requests[r].decision
         /\ \A x \in Requests \ {r} : requests'[x] = requests[x]
<1>1. requests[r] \in Request
  BY DEF TypeOK
<1>2. requests'[r] = [requests[r] EXCEPT !.status = s]
  BY DEF TypeOK
<1>3. requests'[r] \in Request
  BY <1>1, <1>2 DEF Request
<1> QED
  BY <1>1, <1>2, <1>3 DEF TypeOK, Request

\* Every decision that is kept, or that a caller holds, lasts.
DecisionsInv ==
    /\ EligibleLasts
    /\ \A c \in Callers : callers[c].pc \in Asking => Lasts(callers[c].decision)

\* A change of state changes no decision.
LEMMA StatusKeepsDecisions ==
  ASSUME TypeOK, DecisionsInv, NEW r \in Requests, requests[r] # None,
         NEW s \in {"held", "approved", "submitting", "submitted", "finalized", "rejected"},
         requests' = [requests EXCEPT ![r].status = s]
  PROVE  /\ requests' \in [Requests -> Request \cup {None}]
         /\ \A x \in Requests : requests'[x] # None => Lasts(requests'[x].decision)
<1>1. /\ requests' \in [Requests -> Request \cup {None}]
      /\ requests'[r].decision = requests[r].decision
      /\ \A x \in Requests \ {r} : requests'[x] = requests[x]
  BY StatusChanges
<1>2. \A x \in Requests : requests[x] # None => Lasts(requests[x].decision)
  BY DEF DecisionsInv, EligibleLasts
<1> QED
  BY <1>1, <1>2

LEMMA SequenceOf ==
  ASSUME NEW S, NEW n \in Nat, NEW f \in [1..n -> S] PROVE f \in Seq(S)
BY SeqDef

LEMMA DrawnAreRequests == \A w : Drawn(w) \subseteq Requests
BY DEF Drawn, Unfinished, Debited, WithStatus

LEMMA HoldsRead ==
  ASSUME NEW key, NEW wallet, NEW amount, NEW bal, NEW saw, NEW decision, NEW more
  PROVE  LET next == [[pc |-> "holds", key |-> key, wallet |-> wallet, amount |-> amount,
                       balance |-> bal, saw |-> saw, decision |-> decision]
                         EXCEPT !.pc = "request", !.saw = @ \cup more]
         IN  /\ next.pc = "request" /\ next.key = key /\ next.wallet = wallet
             /\ next.amount = amount /\ next.saw = saw \cup more /\ next.decision = decision
OBVIOUS

\* What a caller submits was requested.
PayingMade ==
    \A c \in Callers : callers[c].pc \in Paying => requests[callers[c].key] # None

LEMMA InitTyped == Init => TypeOK /\ DecisionsInv
<1> SUFFICES ASSUME Init PROVE TypeOK /\ DecisionsInv
  OBVIOUS
<1> DEFINE first == {[kind |-> kind, status |-> "pass", flags |-> {},
                      observedAt |-> 0, expiresAt |-> MaxTime + 1] : kind \in Kinds}
<1>1. first \subseteq Item
  BY DEF Item
<1>2. IsFiniteSet(first)
  <2> DEFINE f == [kind \in Kinds |->
                     [kind |-> kind, status |-> "pass", flags |-> {},
                      observedAt |-> 0, expiresAt |-> MaxTime + 1]]
  <2>1. f \in Surjection(Kinds, first)
    BY DEF Surjection
  <2> HIDE DEF f, first
  <2> QED
    BY <2>1, FS_Surjection
<1>3. Cardinality(first) \in Nat /\ ExistsBijection(1..Cardinality(first), first)
  BY <1>2, FS_CardinalityType
<1>4. PICK f \in [1..Cardinality(first) -> first] : IsInjective(f)
  <2>1. PICK g \in Bijection(1..Cardinality(first), first) : TRUE
    BY <1>3 DEF ExistsBijection
  <2> QED
    BY <2>1 DEF Bijection, Injection, IsInjective
<1>5. SetToSeq(first) \in [1..Cardinality(first) -> first]
  BY <1>4 DEF SetToSeq
<1>6. SetToSeq(first) \in Seq(Item)
  <2>1. SetToSeq(first) \in [1..Cardinality(first) -> Item]
    BY <1>1, <1>5
  <2> HIDE DEF first
  <2> QED
    BY <1>3, <2>1, SequenceOf
<1>7. evidence = [w \in Wallets |-> SetToSeq(first)]
  BY DEF Init
<1> HIDE DEF first
<1>8. evidence \in [Wallets -> Seq(Item)]
  BY <1>6, <1>7
<1>9. callers = [c \in Callers |-> Idle] /\ Idle.pc \notin Asking
  BY DEF Init, Idle, Asking
<1>10. callers = [c \in Callers |-> callers[c]] /\ \A c \in Callers : CallOK(callers[c])
  BY <1>9, IdleTyped
<1>11. DecisionsInv
  BY <1>9 DEF Init, DecisionsInv, EligibleLasts
<1>12. /\ now \in Nat /\ operations \in Nat /\ balance \in [Wallets -> Int]
       /\ vault \in {"active", "deposits_paused", "frozen"}
       /\ paid \subseteq Requests /\ lost \subseteq Requests
  BY DEF Init
<1>13. /\ intents \in [Intents -> Intent \cup {None}]
       /\ requests \in [Requests -> Request \cup {None}]
       /\ transfers \in [Signatures ->
             [wallet : Wallets, sent : DepositAmounts, received : Nat] \cup {None}]
  BY DEF Init
<1> QED
  BY <1>8, <1>10, <1>11, <1>12, <1>13 DEF TypeOK

LEMMA NextTyped ==
  ASSUME TypeOK, DecisionsInv, PayingMade, [Next]_vars PROVE TypeOK' /\ DecisionsInv'
<1>a. ASSUME NEW c \in Callers, NEW state, Goto(c, state), CallOK(state),
             state.pc \in Asking => Lasts(state.decision)
      PROVE  /\ callers' = [d \in Callers |-> callers'[d]]
             /\ \A d \in Callers : CallOK(callers'[d])
             /\ \A d \in Callers : callers'[d].pc \in Asking => Lasts(callers'[d].decision)
  BY <1>a, GotoTyped, GotoMoves DEF DecisionsInv
<1>b. CallOK(Idle) /\ Idle.pc \notin Asking
  BY IdleTyped DEF Idle, Asking
<1>1. ASSUME NEW c \in Callers, NEW i \in Intents, NEW w \in Wallets,
             NEW amount \in DepositAmounts, EvaluateDeposit(c, i, w, amount)
      PROVE  TypeOK' /\ DecisionsInv'
  <2> DEFINE decision == Decision(LatestEvidence(evidence[w]), now)
  <2>1. decision \in Decisions /\ Lasts(decision)
    BY <1>1, EligibleDecision DEF EvaluateDeposit
  <2>2. PICK minimum \in Minimums :
           Goto(c, [pc |-> "intent", key |-> i, wallet |-> w, expected |-> amount,
                    minimum |-> minimum, seen |-> Credited(w), decision |-> decision])
    BY <1>1 DEF EvaluateDeposit
  <2> DEFINE state == [pc |-> "intent", key |-> i, wallet |-> w, expected |-> amount,
                       minimum |-> minimum, seen |-> Credited(w), decision |-> decision]
  <2>3. CallOK(state) /\ Lasts(state.decision)
    BY <2>1 DEF CallOK, Asking, Paying, Credited
  <2> HIDE DEF state, decision
  <2>4. Goto(c, state)
    BY <2>2 DEF state
  <2>5. operations' \in Nat
    BY <1>1 DEF EvaluateDeposit, Begin, TypeOK
  <2>6. UNCHANGED <<now, evidence, intents, requests, balance, transfers, paid, vault, lost>>
    BY <1>1 DEF EvaluateDeposit
  <2> QED
    BY <1>a, <2>3, <2>4, <2>5, <2>6 DEF TypeOK, DecisionsInv, EligibleLasts
<1>2. ASSUME NEW c \in Callers, InsertIntent(c) PROVE TypeOK' /\ DecisionsInv'
  <2> DEFINE asked == callers[c]
             new == [status |-> "created", wallet |-> asked.wallet,
                     expected |-> asked.expected, minimum |-> asked.minimum,
                     seen |-> asked.seen, decision |-> asked.decision,
                     expiresAt |-> now + IntentTtl, signature |-> None]
  <2>a. asked.pc = "intent" /\ CallOK(asked) /\ Lasts(asked.decision)
    BY <1>2 DEF InsertIntent, At, TypeOK, Asking, DecisionsInv
  <2>b. now + IntentTtl \in Nat
    BY DEF TypeOK
  <2>1. asked.key \in Intents /\ new \in Intent /\ new.decision = asked.decision
        /\ Lasts(asked.decision)
    BY <2>a, <2>b DEF CallOK, Asking, Intent
  <2>2. intents' = IF intents[asked.key] # None THEN intents
                   ELSE [intents EXCEPT ![asked.key] = new]
    BY <1>2 DEF InsertIntent
  <2> HIDE DEF new
  <2>3. /\ intents' \in [Intents -> Intent \cup {None}]
        /\ \A j \in Intents : intents'[j] # None => Lasts(intents'[j].decision)
    BY <2>1, <2>2 DEF TypeOK, DecisionsInv, EligibleLasts
  <2> QED
    BY <1>2, <1>a, <1>b, <2>3 DEF InsertIntent, TypeOK, DecisionsInv, EligibleLasts
<1>3. ASSUME NEW s \in Signatures, NEW w \in Wallets, Transfer(s, w)
      PROVE  TypeOK' /\ DecisionsInv'
  <2>1. PICK sent \in DepositAmounts : \E received \in 1..sent :
           transfers' = [transfers EXCEPT ![s] =
                           [wallet |-> w, sent |-> sent, received |-> received]]
    BY <1>3 DEF Transfer
  <2>2. PICK received \in 1..sent :
           transfers' = [transfers EXCEPT ![s] =
                           [wallet |-> w, sent |-> sent, received |-> received]]
    BY <2>1
  <2>3. received \in Nat
    OBVIOUS
  <2>4. transfers' \in [Signatures ->
           [wallet : Wallets, sent : DepositAmounts, received : Nat] \cup {None}]
    BY <2>2, <2>3 DEF TypeOK
  <2> QED
    BY <1>3, <2>4 DEF Transfer, TypeOK, DecisionsInv, EligibleLasts
<1>4. ASSUME NEW i \in Intents, NEW s \in Signatures, CreditFinalizedDeposit(i, s)
      PROVE  TypeOK' /\ DecisionsInv'
  <2>1. intents[i] \in Intent /\ transfers[s].received \in Nat
    BY <1>4 DEF CreditFinalizedDeposit, TypeOK, Matches
  <2>2. /\ intents'[i] \in Intent /\ intents'[i].decision = intents[i].decision
        /\ intents' \in [Intents -> Intent \cup {None}]
        /\ \A j \in Intents \ {i} : intents'[j] = intents[j]
    BY <1>4, <2>1 DEF CreditFinalizedDeposit, TypeOK, Intent
  <2>3. balance' \in [Wallets -> Int]
    BY SMTT(60), <1>4, <2>1 DEF CreditFinalizedDeposit, TypeOK, Intent
  <2> QED
    BY <1>4, <2>2, <2>3 DEF CreditFinalizedDeposit, TypeOK, DecisionsInv, EligibleLasts
<1>5. ASSUME NEW c \in Callers, NEW r \in Requests, NEW w \in Wallets,
             NEW amount \in WithdrawalAmounts, ReadBalance(c, r, w, amount)
      PROVE  TypeOK' /\ DecisionsInv'
  <2> DEFINE decision == Decision(LatestEvidence(evidence[w]), now)
             state == [pc |-> "holds", key |-> r, wallet |-> w, amount |-> amount,
                       balance |-> balance[w], saw |-> Debited(w),
                       decision |-> decision]
  <2>1. decision \in Decisions /\ Lasts(decision)
    BY <1>5, EligibleDecision DEF ReadBalance
  <2>2. CallOK(state) /\ Lasts(state.decision)
    BY <2>1 DEF CallOK, Asking, Paying, Debited, WithStatus
  <2>3. Goto(c, state)
    BY <1>5 DEF ReadBalance
  <2> HIDE DEF state, decision
  <2>4. operations' \in Nat
    BY <1>5 DEF ReadBalance, Begin, TypeOK
  <2>5. UNCHANGED <<now, evidence, intents, requests, balance, transfers, paid, vault, lost>>
    BY <1>5 DEF ReadBalance
  <2> QED
    BY <1>a, <2>2, <2>3, <2>4, <2>5 DEF TypeOK, DecisionsInv, EligibleLasts
<1>6. ASSUME NEW c \in Callers, ReadHolds(c) PROVE TypeOK' /\ DecisionsInv'
  <2> DEFINE call == callers[c]
             seen == call.saw \cup Unfinished(call.wallet)
             state == [call EXCEPT !.pc = "request", !.saw = @ \cup Unfinished(call.wallet)]
  <2>1. call.pc = "holds" /\ CallOK(call) /\ Lasts(call.decision)
    BY <1>6 DEF ReadHolds, At, TypeOK, DecisionsInv, Asking
  <2>2. /\ state.pc = "request" /\ state.key = call.key /\ state.wallet = call.wallet
        /\ state.amount = call.amount /\ state.saw = seen /\ state.decision = call.decision
    <3>1. PICK key, wallet, amount, bal, saw, decision :
             call = [pc |-> "holds", key |-> key, wallet |-> wallet, amount |-> amount,
                     balance |-> bal, saw |-> saw, decision |-> decision]
      BY <2>1 DEF CallOK
    <3> QED
      BY <3>1, HoldsRead
  <2>3. CallOK(state) /\ Lasts(state.decision)
    <3>1. seen \subseteq Requests
      BY <2>1 DEF CallOK, Unfinished, WithStatus
    <3> QED
      BY <2>1, <2>2, <3>1 DEF CallOK, Asking, Paying
  <2> HIDE DEF state
  <2>4. Goto(c, Idle) \/ Goto(c, state)
    BY <1>6 DEF ReadHolds, state
  <2> QED
    BY <1>6, <1>a, <1>b, <2>3, <2>4 DEF ReadHolds, TypeOK, DecisionsInv, EligibleLasts
<1>7. ASSUME NEW c \in Callers, InsertRequest(c) PROVE TypeOK' /\ DecisionsInv'
  <2> DEFINE asked == callers[c]
             new == [status |-> "held", wallet |-> asked.wallet,
                     amount |-> asked.amount, unseen |-> Drawn(asked.wallet) \ asked.saw,
                     decision |-> asked.decision, attempts |-> 0,
                     earliest |-> now + CoolingOff,
                     approvals |-> [o \in Operators |-> "none"]]
  <2>1. asked.key \in Requests /\ new \in Request /\ new.decision = asked.decision
        /\ Lasts(asked.decision)
    BY SMTT(60), <1>7, DrawnAreRequests DEF InsertRequest, At, TypeOK, CallOK, Asking, DecisionsInv, Request
  <2>2. requests' = IF requests[asked.key] # None THEN requests
                    ELSE [requests EXCEPT ![asked.key] = new]
    BY <1>7 DEF InsertRequest
  <2> HIDE DEF new
  <2>3. /\ requests' \in [Requests -> Request \cup {None}]
        /\ \A x \in Requests : requests'[x] # None => Lasts(requests'[x].decision)
    BY <2>1, <2>2 DEF TypeOK, DecisionsInv, EligibleLasts
  <2> QED
    BY <1>7, <1>a, <1>b, <2>3 DEF InsertRequest, TypeOK, DecisionsInv, EligibleLasts
<1>8. ASSUME NEW r \in Requests, NEW o \in Operators, NEW decision \in {"approve", "reject"},
             ApproveWithdrawal(r, o, decision)
      PROVE  TypeOK' /\ DecisionsInv'
  <2>1. requests[r] \in Request
    BY <1>8 DEF ApproveWithdrawal, MayDecide, TypeOK
  <2> DEFINE decided == [requests[r] EXCEPT !.approvals[o] = decision]
  <2>2. decided \in Request /\ decided.decision = requests[r].decision
    BY <2>1 DEF Request
  <2>3. PICK s \in {"rejected", "approved", "held"} :
           requests' = [requests EXCEPT ![r] = [decided EXCEPT !.status = s]]
    BY <1>8 DEF ApproveWithdrawal
  <2> HIDE DEF decided
  <2>4. [decided EXCEPT !.status = s] \in Request
        /\ [decided EXCEPT !.status = s].decision = requests[r].decision
    BY <2>2 DEF Request
  <2>5. /\ requests' \in [Requests -> Request \cup {None}]
        /\ \A x \in Requests : requests'[x] # None => Lasts(requests'[x].decision)
    BY <2>1, <2>3, <2>4 DEF TypeOK, DecisionsInv, EligibleLasts
  <2> QED
    BY <1>8, <2>5 DEF ApproveWithdrawal, TypeOK, DecisionsInv, EligibleLasts
<1>9. ASSUME NEW c \in Callers, NEW r \in Requests, ClaimSubmission(c, r)
      PROVE  TypeOK' /\ DecisionsInv'
  <2>1. requests[r] \in Request
    BY <1>9 DEF ClaimSubmission, TypeOK
  <2> DEFINE q == [requests[r] EXCEPT !.status = "submitting", !.attempts = @ + 1]
             state == [pc |-> "pay", key |-> r]
  <2>2. q \in Request /\ q.decision = requests[r].decision
    <3>1. requests[r].attempts + 1 \in Nat
      BY <2>1 DEF Request
    <3> QED
      BY <2>1, <3>1 DEF Request
  <2>3. requests' = [requests EXCEPT ![r] = q]
    BY <1>9 DEF ClaimSubmission, TypeOK
  <2> HIDE DEF q
  <2>4. /\ requests' \in [Requests -> Request \cup {None}]
        /\ \A x \in Requests : requests'[x] # None => Lasts(requests'[x].decision)
    BY <2>1, <2>2, <2>3 DEF TypeOK, DecisionsInv, EligibleLasts
  <2>5. CallOK(state) /\ state.pc \notin Asking /\ Goto(c, state)
    BY <1>9 DEF ClaimSubmission, CallOK, Asking, Paying
  <2> HIDE DEF state
  <2>6. operations' \in Nat
    BY <1>9 DEF ClaimSubmission, Begin, TypeOK
  <2> QED
    BY <1>9, <1>a, <2>4, <2>5, <2>6 DEF ClaimSubmission, TypeOK, DecisionsInv, EligibleLasts
<1>10. ASSUME NEW c \in Callers, Pay(c) PROVE TypeOK' /\ DecisionsInv'
  <2>1. PICK pc \in {"paid", "refused"} : Goto(c, [pc |-> pc, key |-> callers[c].key])
    BY <1>10 DEF Pay
  <2> DEFINE state == [pc |-> pc, key |-> callers[c].key]
  <2>2. callers[c].key \in Requests
    BY <1>10 DEF Pay, At, TypeOK, CallOK, Paying
  <2>3. CallOK(state) /\ state.pc \notin Asking
    BY <2>2 DEF CallOK, Asking, Paying
  <2>4. paid' \subseteq Requests /\ lost' \subseteq Requests
    BY <1>10, <2>2 DEF Pay, TypeOK
  <2> HIDE DEF state
  <2>5. Goto(c, state)
    BY <2>1 DEF state
  <2> QED
    BY <1>10, <1>a, <2>3, <2>4, <2>5 DEF Pay, TypeOK, DecisionsInv, EligibleLasts
<1>11. ASSUME NEW c \in Callers, RecordSubmission(c) PROVE TypeOK' /\ DecisionsInv'
  <2>1. PICK r \in Requests : r = callers[c].key /\ requests[r] # None
    BY <1>11 DEF RecordSubmission, At, TypeOK, CallOK, Paying, PayingMade
  <2>2. /\ requests' \in [Requests -> Request \cup {None}]
        /\ \A x \in Requests : requests'[x] # None => Lasts(requests'[x].decision)
    <3>1. CASE requests' = requests
      BY <3>1 DEF TypeOK, DecisionsInv, EligibleLasts
    <3>2. ASSUME NEW s \in {"submitted", "approved"}, requests' = [requests EXCEPT ![r].status = s]
          PROVE  /\ requests' \in [Requests -> Request \cup {None}]
                 /\ \A x \in Requests : requests'[x] # None => Lasts(requests'[x].decision)
      BY <2>1, <3>2, StatusKeepsDecisions
    <3> QED
      BY <1>11, <2>1, <3>1, <3>2 DEF RecordSubmission
  <2> QED
    BY <1>11, <1>a, <1>b, <2>2 DEF RecordSubmission, TypeOK, DecisionsInv, EligibleLasts
<1>12. ASSUME NEW r \in Requests, FinalizeWithdrawal(r) PROVE TypeOK' /\ DecisionsInv'
  <2>1. requests[r] # None /\ requests' = [requests EXCEPT ![r].status = "finalized"]
    BY <1>12 DEF FinalizeWithdrawal
  <2>2. /\ requests' \in [Requests -> Request \cup {None}]
        /\ \A x \in Requests : requests'[x] # None => Lasts(requests'[x].decision)
    <3> DEFINE s == "finalized"
    <3>1. requests' = [requests EXCEPT ![r].status = s]
      BY <2>1
    <3>2. s \in {"held", "approved", "submitting", "submitted", "finalized", "rejected"}
      OBVIOUS
    <3> HIDE DEF s
    <3> QED
      BY <2>1, <3>1, <3>2, StatusKeepsDecisions
  <2>3. balance' \in [Wallets -> Int]
    BY <1>12, <2>1 DEF FinalizeWithdrawal, TypeOK, Request
  <2> QED
    BY <1>12, <2>2, <2>3 DEF FinalizeWithdrawal, TypeOK, DecisionsInv, EligibleLasts
<1>13. ASSUME NEW c \in Callers, ReadChain(c) PROVE TypeOK' /\ DecisionsInv'
  <2> DEFINE state == [pc |-> "reconcile", chain |-> ChainBalance,
                       credited |-> AllCredited]
  <2>1. CallOK(state) /\ state.pc \notin Asking /\ Goto(c, state)
    BY <1>13 DEF ReadChain, CallOK, Asking, Paying
  <2> HIDE DEF state
  <2>2. operations' \in Nat
    BY <1>13 DEF ReadChain, Begin, TypeOK
  <2> QED
    BY <1>13, <1>a, <2>1, <2>2 DEF ReadChain, TypeOK, DecisionsInv, EligibleLasts
<1>14. ASSUME NEW c \in Callers, ReconcileVault(c) PROVE TypeOK' /\ DecisionsInv'
  BY <1>14, <1>a, <1>b DEF ReconcileVault, TypeOK, DecisionsInv, EligibleLasts
<1>15. ASSUME NEW c \in Callers, Crash(c) PROVE TypeOK' /\ DecisionsInv'
  BY <1>15, <1>a, <1>b DEF Crash, TypeOK, DecisionsInv, EligibleLasts
<1>16. ASSUME NEW w \in Wallets, RecordEvidence(w) PROVE TypeOK' /\ DecisionsInv'
  <2>1. PICK report \in Reports, observedAt \in 0..now, expiresAt \in (now + 1)..(MaxTime + 1) :
           evidence' = [evidence EXCEPT ![w] = Append(@,
                [kind |-> report.kind, status |-> report.status, flags |-> report.flags,
                 observedAt |-> observedAt, expiresAt |-> expiresAt])]
    BY <1>16 DEF RecordEvidence
  <2> DEFINE item == [kind |-> report.kind, status |-> report.status, flags |-> report.flags,
                      observedAt |-> observedAt, expiresAt |-> expiresAt]
  <2>2. item \in Item
    BY DEF Item, TypeOK
  <2> HIDE DEF item
  <2>3. evidence' \in [Wallets -> Seq(Item)]
    BY <2>1, <2>2 DEF TypeOK, item
  <2> QED
    BY <1>16, <2>3 DEF RecordEvidence, TypeOK, DecisionsInv, EligibleLasts
<1>17. CASE Tick
  BY <1>17 DEF Tick, TypeOK, DecisionsInv, EligibleLasts
<1>18. CASE UNCHANGED vars
  BY <1>18 DEF vars, TypeOK, DecisionsInv, EligibleLasts
<1> QED
  BY <1>1, <1>2, <1>3, <1>4, <1>5, <1>6, <1>7, <1>8, <1>9, <1>10, <1>11, <1>12, <1>13,
     <1>14, <1>15, <1>16, <1>17, <1>18 DEF Next, CallerStep

----------------------------------------------------------------------------
(* Payments *)

\* Nobody approves its own request, and past the approval there is a quorum.
Sound(q) ==
    q # None =>
        /\ q.wallet \notin Approvals(q)
        /\ q.status \in {"approved", "submitting", "submitted", "finalized"} =>
              Cardinality(Approvals(q)) >= Quorum

\* A request is submitted by one caller at a time, after its cooling off; when
\* it was paid before, the answer had been lost.
SubmitsAlone(c) ==
    LET r == callers[c].key
    IN  callers[c].pc \in Paying =>
            /\ requests[r].status = "submitting" /\ requests[r].earliest <= now
            /\ callers[c].pc # "paid" /\ r \in paid => r \in lost
            /\ \A d \in Callers \ {c} : callers[d].pc \in Paying => callers[d].key # r

Due(r) ==
    /\ requests[r] # None
    /\ Cardinality(Approvals(requests[r])) >= Quorum
    /\ requests[r].earliest <= now
    /\ requests[r].status \in {"submitting", "submitted", "finalized"} \/ r \in lost

PaymentsInv ==
    /\ PayingMade
    /\ \A c \in Callers : SubmitsAlone(c)
    /\ \A r \in Requests : Sound(requests[r])
    /\ \A r \in paid : Due(r)

\* A caller that takes a step, or ends one, without paying or changing requests.
LEMMA OtherStep ==
  ASSUME TypeOK, PaymentsInv, NEW c \in Callers,
         \A d \in Callers \ {c} : callers'[d] = callers[d],
         callers'[c].pc \notin Paying \/ callers'[c] = callers[c],
         UNCHANGED <<requests, paid, lost>>, now' \in Nat, now' >= now
  PROVE  PaymentsInv'
<1>1. PayingMade'
  BY DEF PaymentsInv, PayingMade
<1>2. \A r \in Requests : requests[r] # None => requests[r].earliest \in Nat
  BY DEF TypeOK, Request
<1>3. ASSUME NEW d \in Callers PROVE SubmitsAlone(d)'
  <2>1. CASE callers'[d].pc \in Paying
    <3>1. callers'[d] = callers[d] /\ SubmitsAlone(d)
      BY <2>1 DEF PaymentsInv
    <3>2. callers[d].key \in Requests /\ requests[callers[d].key] # None
      BY <2>1, <3>1 DEF PaymentsInv, PayingMade, TypeOK, CallOK
    <3>3. requests[callers[d].key].earliest <= now'
      BY <1>2, <2>1, <3>1, <3>2 DEF SubmitsAlone, TypeOK
    <3> QED
      BY <2>1, <3>1, <3>2, <3>3 DEF SubmitsAlone
  <2> QED
    BY <2>1 DEF SubmitsAlone
<1>4. \A r \in Requests : Sound(requests[r])'
  BY DEF PaymentsInv, Sound, Approvals
<1>5. ASSUME NEW r \in paid PROVE Due(r)'
  <2>1. Due(r) /\ r \in Requests
    BY DEF PaymentsInv, TypeOK
  <2>2. requests[r].earliest <= now'
    BY <1>2, <2>1 DEF Due, TypeOK
  <2> QED
    BY <2>1, <2>2 DEF Due, Approvals
<1> QED
  BY <1>1, <1>3, <1>4, <1>5 DEF PaymentsInv

LEMMA NotSubmitted ==
  ASSUME TypeOK, PaymentsInv, NEW r \in Requests,
         requests[r] = None \/ requests[r].status # "submitting"
  PROVE  \A d \in Callers : callers[d].pc \in Paying => callers[d].key # r
BY DEF PaymentsInv, PayingMade, SubmitsAlone

\* A request changes that no caller submits after the step.
LEMMA RequestStep ==
  ASSUME TypeOK, PaymentsInv, NEW r \in Requests,
         UNCHANGED <<paid, lost, now>>,
         \A d \in Callers : callers'[d].pc \in Paying =>
             callers'[d] = callers[d] /\ callers[d].key # r,
         \A x \in Requests \ {r} : requests'[x] = requests[x],
         requests'[r] # None, Sound(requests'[r]),
         r \in paid => Due(r)'
  PROVE  PaymentsInv'
<1>1. ASSUME NEW d \in Callers, callers'[d].pc \in Paying
      PROVE  /\ callers'[d] = callers[d] /\ callers[d].key \in Requests \ {r}
             /\ requests'[callers[d].key] = requests[callers[d].key]
             /\ requests[callers[d].key] # None /\ SubmitsAlone(d)
  BY <1>1 DEF PaymentsInv, PayingMade, TypeOK, CallOK
<1>2. PayingMade'
  BY <1>1 DEF PayingMade
<1>3. \A d \in Callers : SubmitsAlone(d)'
  BY <1>1 DEF SubmitsAlone
<1>4. \A x \in Requests : Sound(requests[x])'
  <2>1. \A x \in Requests : Sound(requests'[x])
    BY DEF PaymentsInv
  <2> QED
    BY <2>1 DEF Sound, Approvals
<1>5. ASSUME NEW x \in paid, x # r PROVE Due(x)'
  <2>1. Due(x) /\ x \in Requests /\ requests'[x] = requests[x]
    BY <1>5 DEF PaymentsInv, TypeOK
  <2> QED
    BY <2>1 DEF Due, Approvals
<1> QED
  BY <1>2, <1>3, <1>4, <1>5 DEF PaymentsInv

\* A decision of an operator takes no approval away.
LEMMA ApprovalsGrow ==
  ASSUME NEW q \in Request, NEW o \in Operators, NEW decision \in {"approve", "reject"},
         q.approvals[o] \in {"none", decision}, NEW new \in Request,
         new.approvals = [q.approvals EXCEPT ![o] = decision]
  PROVE  /\ Approvals(q) \subseteq Approvals(new)
         /\ Approvals(new) \subseteq Approvals(q) \cup {o}
         /\ Cardinality(Approvals(new)) >= Cardinality(Approvals(q))
<1>1. q.approvals \in [Operators -> {"none", "approve", "reject"}]
  BY DEF Request
<1>2. /\ Approvals(q) \subseteq Approvals(new)
      /\ Approvals(new) \subseteq Approvals(q) \cup {o}
  BY <1>1 DEF Approvals
<1>3. IsFiniteSet(Approvals(new))
  BY FS_Subset DEF Approvals
<1>4. Cardinality(Approvals(q)) <= Cardinality(Approvals(new))
      /\ Cardinality(Approvals(q)) \in Nat /\ Cardinality(Approvals(new)) \in Nat
  BY <1>2, <1>3, FS_Subset, FS_CardinalityType
<1> QED
  BY <1>2, <1>4

LEMMA NextPayments ==
  ASSUME TypeOK, DecisionsInv, PaymentsInv, [Next]_vars, TypeOK' PROVE PaymentsInv'
<1>n. now \in Nat /\ now >= now
  BY DEF TypeOK
<1>i. Idle.pc \notin Paying
  BY DEF Idle, Paying
<1>1. ASSUME NEW c \in Callers, NEW state, Goto(c, state), state.pc \notin Paying,
             UNCHANGED <<requests, paid, lost, now>>
      PROVE  PaymentsInv'
  BY <1>1, <1>n, GotoMoves, OtherStep
<1>2. ASSUME NEW c \in Callers, NEW i \in Intents, NEW w \in Wallets,
             NEW amount \in DepositAmounts, EvaluateDeposit(c, i, w, amount)
      PROVE  PaymentsInv'
  <2>1. PICK minimum \in Minimums :
           Goto(c, [pc |-> "intent", key |-> i, wallet |-> w, expected |-> amount,
                    minimum |-> minimum, seen |-> Credited(w),
                    decision |-> Decision(LatestEvidence(evidence[w]), now)])
    BY <1>2 DEF EvaluateDeposit
  <2>2. PICK state : state.pc = "intent" /\ Goto(c, state)
    BY <2>1
  <2> QED
    BY <1>1, <1>2, <2>2 DEF EvaluateDeposit, Paying
<1>3. ASSUME NEW c \in Callers, InsertIntent(c) PROVE PaymentsInv'
  BY <1>1, <1>3, <1>i DEF InsertIntent
<1>4. ASSUME NEW c \in Callers, NEW r \in Requests, NEW w \in Wallets,
             NEW amount \in WithdrawalAmounts, ReadBalance(c, r, w, amount)
      PROVE  PaymentsInv'
  <2>1. PICK state : state.pc = "holds" /\ Goto(c, state)
    BY <1>4 DEF ReadBalance
  <2> QED
    BY <1>1, <1>4, <2>1 DEF ReadBalance, Paying
<1>5. ASSUME NEW c \in Callers, ReadHolds(c) PROVE PaymentsInv'
  <2>1. callers[c].pc = "holds" /\ CallOK(callers[c])
    BY <1>5 DEF ReadHolds, At, TypeOK
  <2>2. PICK key, wallet, amount, bal, saw, decision :
           callers[c] = [pc |-> "holds", key |-> key, wallet |-> wallet, amount |-> amount,
                         balance |-> bal, saw |-> saw, decision |-> decision]
    BY <2>1 DEF CallOK
  <2>3. PICK state : (state = Idle \/ state.pc = "request") /\ Goto(c, state)
    BY <1>5, <2>2, HoldsRead DEF ReadHolds
  <2> QED
    BY <1>1, <1>5, <1>i, <2>3 DEF ReadHolds, Paying
<1>6. ASSUME NEW c \in Callers, InsertRequest(c) PROVE PaymentsInv'
  <2> DEFINE asked == callers[c]
             new == [status |-> "held", wallet |-> asked.wallet,
                     amount |-> asked.amount, unseen |-> Drawn(asked.wallet) \ asked.saw,
                     decision |-> asked.decision, attempts |-> 0,
                     earliest |-> now + CoolingOff,
                     approvals |-> [o \in Operators |-> "none"]]
  <2>1. asked.key \in Requests
    BY <1>6 DEF InsertRequest, At, TypeOK, CallOK
  <2>2. CASE requests[asked.key] # None
    BY <1>1, <1>6, <1>i, <2>2 DEF InsertRequest
  <2>3. CASE requests[asked.key] = None
    <3>1. requests' = [requests EXCEPT ![asked.key] = new]
      BY <1>6, <2>3 DEF InsertRequest
    <3>2. new.status = "held" /\ Approvals(new) = {}
      BY DEF Approvals
    <3> HIDE DEF new
    <3>3. requests'[asked.key] = new /\ \A x \in Requests \ {asked.key} : requests'[x] = requests[x]
      BY <2>1, <3>1 DEF TypeOK
    <3>4. new # None
      BY SMTT(60), <1>6, <2>1, <3>3, DrawnAreRequests DEF InsertRequest, At, TypeOK, CallOK, Asking, Request, new
    <3>5. Sound(requests'[asked.key])
      BY <3>2, <3>3 DEF Sound
    <3>6. asked.key \notin paid
      BY <2>3 DEF PaymentsInv, Due
    <3>7. \A d \in Callers : callers'[d].pc \in Paying =>
              callers'[d] = callers[d] /\ callers[d].key # asked.key
      BY <1>6, <1>i, <2>1, <2>3, GotoMoves, NotSubmitted DEF InsertRequest
    <3> QED
      BY <1>6, <2>1, <3>3, <3>4, <3>5, <3>6, <3>7, RequestStep DEF InsertRequest
  <2> QED
    BY <2>2, <2>3
<1>7. ASSUME NEW r \in Requests, NEW o \in Operators, NEW decision \in {"approve", "reject"},
             ApproveWithdrawal(r, o, decision)
      PROVE  PaymentsInv'
  <2> DEFINE q == requests[r]
             decided == [q EXCEPT !.approvals[o] = decision]
             status == IF decision = "reject" THEN "rejected"
                       ELSE IF Cardinality(Approvals(decided)) >= Quorum THEN "approved" ELSE "held"
             new == [decided EXCEPT !.status = status]
  <2>1. /\ q \in Request /\ q # None /\ q.wallet # o /\ q.status \in {"held", "approved"}
        /\ q.approvals[o] \in {"none", decision}
        /\ requests' = [requests EXCEPT ![r] = new]
    BY <1>7 DEF ApproveWithdrawal, MayDecide, TypeOK
  <2>2. /\ decided \in Request /\ decided.wallet = q.wallet /\ decided.earliest = q.earliest
        /\ decided.approvals = [q.approvals EXCEPT ![o] = decision]
    BY <2>1 DEF Request
  <2>3. /\ status \in {"rejected", "approved", "held"}
        /\ status = "approved" => Cardinality(Approvals(decided)) >= Quorum
    OBVIOUS
  <2> HIDE DEF decided, status
  <2>4. /\ new \in Request /\ new.wallet = q.wallet /\ new.earliest = q.earliest
        /\ new.approvals = decided.approvals /\ new.status = status
    <3>1. status \in {"held", "approved", "submitting", "submitted", "finalized", "rejected"}
      BY <2>3
    <3>2. decided \in Request
      BY <2>2
    <3>3. new \in Request /\ new.status = status /\ new.wallet = decided.wallet
          /\ new.earliest = decided.earliest /\ new.approvals = decided.approvals
      BY <3>1, <3>2 DEF Request
    <3> QED
      BY <2>2, <3>3
  <2> HIDE DEF new
  <2>5. Approvals(new) = Approvals(decided)
    BY <2>4 DEF Approvals
  <2>6. /\ Approvals(new) \subseteq Approvals(q) \cup {o}
        /\ Cardinality(Approvals(new)) >= Cardinality(Approvals(q))
    BY ZenonT(60), <2>1, <2>2, <2>4, ApprovalsGrow
  <2>7. requests'[r] = new /\ \A x \in Requests \ {r} : requests'[x] = requests[x]
    BY <2>1 DEF TypeOK
  <2>8. Sound(new)
    <3>1. q.wallet \notin Approvals(q)
      BY <2>1 DEF PaymentsInv, Sound
    <3>2. new.wallet \notin Approvals(new)
      BY <2>1, <2>4, <2>6, <3>1
    <3>3. new.status \in {"rejected", "held"} \/ Cardinality(Approvals(new)) >= Quorum
      BY <2>3, <2>4, <2>5
    <3>4. new.status \in {"approved", "submitting", "submitted", "finalized"} =>
             Cardinality(Approvals(new)) >= Quorum
      BY <3>3
    <3> QED
      BY <3>2, <3>4 DEF Sound
  <2>9. r \in paid => Due(r)'
    <3> SUFFICES ASSUME r \in paid PROVE Due(r)'
      OBVIOUS
    <3>1. Due(r)
      BY DEF PaymentsInv
    <3>2. r \in lost /\ Cardinality(Approvals(q)) >= Quorum /\ q.earliest <= now
      BY <2>1, <3>1 DEF Due
    <3>3. IsFiniteSet(Approvals(q)) /\ IsFiniteSet(Approvals(new))
      BY FS_Subset DEF Approvals
    <3>4. Cardinality(Approvals(new)) >= Quorum
      BY <2>6, <3>2, <3>3, FS_CardinalityType
    <3>5. requests'[r] # None /\ Cardinality(Approvals(requests'[r])) >= Quorum
          /\ requests'[r].earliest <= now /\ now' = now /\ lost' = lost
      BY <1>7, <2>4, <2>7, <3>2, <3>4 DEF ApproveWithdrawal
    <3> QED
      BY <3>2, <3>5 DEF Due, Approvals
  <2>10. \A d \in Callers : callers'[d].pc \in Paying =>
              callers'[d] = callers[d] /\ callers[d].key # r
    BY <1>7, <2>1, NotSubmitted DEF ApproveWithdrawal
  <2>11. requests'[r] # None
    BY <2>4, <2>7
  <2> QED
    BY <1>7, <2>7, <2>8, <2>9, <2>10, <2>11, RequestStep DEF ApproveWithdrawal
<1>8. ASSUME NEW c \in Callers, NEW r \in Requests, ClaimSubmission(c, r) PROVE PaymentsInv'
  <2>1. /\ requests[r] \in Request /\ requests[r].status = "approved"
        /\ requests[r].earliest <= now
    BY <1>8 DEF ClaimSubmission, TypeOK
  <2> DEFINE q == [requests[r] EXCEPT !.status = "submitting", !.attempts = @ + 1]
  <2>2. /\ q \in Request /\ q.status = "submitting" /\ q.earliest = requests[r].earliest
        /\ q.wallet = requests[r].wallet /\ q.approvals = requests[r].approvals
    <3>1. requests[r].attempts + 1 \in Nat
      BY <2>1 DEF Request
    <3> QED
      BY <2>1, <3>1 DEF Request
  <2>3. requests' = [requests EXCEPT ![r] = q]
    BY <1>8 DEF ClaimSubmission, TypeOK
  <2> HIDE DEF q
  <2>4. requests'[r] = q /\ \A x \in Requests \ {r} : requests'[x] = requests[x]
    BY <2>3 DEF TypeOK
  <2>5. Sound(requests'[r]) /\ Approvals(q) = Approvals(requests[r])
        /\ Cardinality(Approvals(q)) >= Quorum
    BY <2>1, <2>2, <2>4 DEF PaymentsInv, Sound, Approvals
  <2>6. callers'[c].pc = "pay" /\ callers'[c].key = r
        /\ \A d \in Callers \ {c} : callers'[d] = callers[d]
    BY <1>8, GotoMoves DEF ClaimSubmission
  <2>7. \A d \in Callers : callers[d].pc \in Paying => callers[d].key # r
    BY <2>1, NotSubmitted
  <2>8. UNCHANGED <<paid, lost, now>>
    BY <1>8 DEF ClaimSubmission
  <2>9. r \in paid => r \in lost
    BY <2>1 DEF PaymentsInv, Due
  <2>10. requests'[r] # None
    BY <2>2, <2>4
  <2>11. ASSUME NEW d \in Callers \ {c}, callers'[d].pc \in Paying
         PROVE  /\ callers[d].key \in Requests \ {r} /\ callers'[d] = callers[d]
                /\ requests'[callers[d].key] = requests[callers[d].key]
                /\ requests[callers[d].key] # None /\ SubmitsAlone(d)
    BY <2>4, <2>6, <2>7, <2>11 DEF PaymentsInv, PayingMade, TypeOK, CallOK
  <2>12. PayingMade'
    BY <2>6, <2>10, <2>11 DEF PayingMade
  <2>13. \A d \in Callers : SubmitsAlone(d)'
    BY <2>1, <2>2, <2>4, <2>6, <2>8, <2>9, <2>11 DEF SubmitsAlone
  <2>14. \A x \in Requests : Sound(requests[x])'
    <3>1. \A x \in Requests : Sound(requests'[x])
      BY <2>4, <2>5 DEF PaymentsInv
    <3> QED
      BY <3>1 DEF Sound, Approvals
  <2>15. ASSUME NEW x \in paid PROVE Due(x)'
    <3>1. Due(x) /\ x \in Requests
      BY DEF PaymentsInv, TypeOK
    <3>2. CASE x = r
      BY <2>1, <2>2, <2>4, <2>5, <2>8, <2>10, <3>2 DEF Due, Approvals
    <3>3. CASE x # r
      BY <2>4, <2>8, <3>1, <3>3 DEF Due, Approvals
    <3> QED
      BY <3>2, <3>3
  <2> QED
    BY <2>8, <2>12, <2>13, <2>14, <2>15 DEF PaymentsInv
<1>9. ASSUME NEW c \in Callers, Pay(c) PROVE PaymentsInv'
  <2>1. PICK r \in Requests :
           /\ r = callers[c].key /\ callers[c].pc = "pay"
           /\ requests[r] # None /\ SubmitsAlone(c)
    BY <1>9 DEF Pay, At, PaymentsInv, PayingMade, TypeOK, CallOK, Paying
  <2>2. /\ callers'[c].key = r /\ callers'[c].pc \in {"paid", "refused"}
        /\ \A d \in Callers \ {c} : callers'[d] = callers[d]
        /\ callers'[c].pc # "paid" /\ r \in paid' => r \in lost'
        /\ paid \subseteq paid' /\ paid' \subseteq paid \cup {r}
        /\ lost \subseteq lost'
    <3>1. PICK pc \in {"paid", "refused"} :
             /\ Goto(c, [pc |-> pc, key |-> r])
             /\ \/ pc = "paid" /\ paid' = paid \cup {r} /\ lost' = lost
                \/ pc = "refused" /\ paid' = paid \cup {r} /\ lost' = lost \cup {r}
                \/ pc = "refused" /\ paid' = paid /\ lost' = lost
      BY <1>9, <2>1 DEF Pay
    <3>2. r \in paid => r \in lost
      BY <2>1 DEF SubmitsAlone, Paying
    <3> QED
      BY <3>1, <3>2, GotoMoves
  <2>3. requests' = requests /\ now' = now
    BY <1>9 DEF Pay
  <2>4. PayingMade'
    BY <2>1, <2>2, <2>3 DEF PaymentsInv, PayingMade
  <2>5. ASSUME NEW d \in Callers PROVE SubmitsAlone(d)'
    <3>1. CASE d = c
      BY <2>1, <2>2, <2>3, <3>1 DEF SubmitsAlone, Paying
    <3>2. CASE d # c
      <4>1. callers[d].pc \in Paying => callers[d].key # r
        BY <2>1, <3>2 DEF SubmitsAlone, Paying
      <4>2. SubmitsAlone(d)
        BY DEF PaymentsInv
      <4> QED
        BY <2>1, <2>2, <2>3, <3>2, <4>1, <4>2 DEF SubmitsAlone
    <3> QED
      BY <3>1, <3>2
  <2>6. \A x \in Requests : Sound(requests[x])'
    BY <2>3 DEF PaymentsInv, Sound, Approvals
  <2>7. Due(r)'
    BY <2>1, <2>3 DEF PaymentsInv, SubmitsAlone, Paying, Sound, Due, Approvals
  <2>8. ASSUME NEW x \in paid PROVE Due(x)'
    BY <2>2, <2>3 DEF PaymentsInv, Due, Approvals
  <2> QED
    BY <2>2, <2>4, <2>5, <2>6, <2>7, <2>8 DEF PaymentsInv
<1>10. ASSUME NEW c \in Callers, RecordSubmission(c) PROVE PaymentsInv'
  <2>1. PICK r \in Requests :
           /\ r = callers[c].key /\ callers[c].pc \in {"paid", "refused"}
           /\ requests[r] # None /\ requests[r].status = "submitting" /\ SubmitsAlone(c)
    BY <1>10 DEF RecordSubmission, At, PaymentsInv, PayingMade, SubmitsAlone, TypeOK, CallOK, Paying
  <2>2. PICK s \in {"submitted", "approved"} :
           /\ requests' = [requests EXCEPT ![r].status = s]
           /\ s = "submitted" <=> callers[c].pc = "paid"
    BY <1>10, <2>1 DEF RecordSubmission, At
  <2>3. /\ requests'[r] \in Request /\ requests'[r].status = s
        /\ requests'[r].wallet = requests[r].wallet
        /\ requests'[r].earliest = requests[r].earliest
        /\ requests'[r].approvals = requests[r].approvals
        /\ \A x \in Requests \ {r} : requests'[x] = requests[x]
    BY ZenonT(60), <2>1, <2>2, StatusChanges
  <2>4. Sound(requests'[r]) /\ Cardinality(Approvals(requests'[r])) >= Quorum
    BY <2>1, <2>3 DEF PaymentsInv, Sound, Approvals
  <2>5. UNCHANGED <<paid, lost, now>>
    BY <1>10 DEF RecordSubmission
  <2>6. r \in paid => Due(r)'
    <3>1. s = "submitted" \/ (r \in paid => r \in lost)
      BY <2>1, <2>2 DEF SubmitsAlone, Paying
    <3>2. requests'[r] # None /\ requests'[r].earliest <= now
      BY <2>1, <2>3 DEF SubmitsAlone, Paying
    <3> QED
      BY <2>3, <2>4, <2>5, <3>1, <3>2 DEF Due, Approvals
  <2>7. \A d \in Callers : callers'[d].pc \in Paying =>
              callers'[d] = callers[d] /\ callers[d].key # r
    BY <1>10, <1>i, <2>1, GotoMoves DEF RecordSubmission, SubmitsAlone, Paying
  <2>8. requests'[r] # None
    BY <2>3
  <2> QED
    BY <2>3, <2>4, <2>5, <2>6, <2>7, <2>8, RequestStep
<1>11. ASSUME NEW r \in Requests, FinalizeWithdrawal(r) PROVE PaymentsInv'
  <2> DEFINE s == "finalized"
  <2>1. /\ requests[r] # None /\ requests[r].status = "submitted"
        /\ requests' = [requests EXCEPT ![r].status = s]
        /\ UNCHANGED <<paid, lost, now, callers>>
    BY <1>11 DEF FinalizeWithdrawal
  <2>2. s \in {"held", "approved", "submitting", "submitted", "finalized", "rejected"}
        /\ s \in {"submitting", "submitted", "finalized"}
    OBVIOUS
  <2> HIDE DEF s
  <2>3. /\ requests'[r] \in Request /\ requests'[r].status = s
        /\ requests'[r].wallet = requests[r].wallet
        /\ requests'[r].earliest = requests[r].earliest
        /\ requests'[r].approvals = requests[r].approvals
        /\ \A x \in Requests \ {r} : requests'[x] = requests[x]
    BY <2>1, <2>2, StatusChanges
  <2>4. Sound(requests'[r]) /\ Cardinality(Approvals(requests'[r])) >= Quorum
    BY <2>1, <2>3 DEF PaymentsInv, Sound, Approvals
  <2>5. r \in paid => Due(r)'
    BY <2>1, <2>2, <2>3, <2>4 DEF PaymentsInv, Due, Approvals
  <2>6. \A d \in Callers : callers'[d].pc \in Paying =>
              callers'[d] = callers[d] /\ callers[d].key # r
    BY <2>1, NotSubmitted
  <2>7. requests'[r] # None
    BY <2>3
  <2> QED
    BY <2>1, <2>3, <2>4, <2>5, <2>6, <2>7, RequestStep
<1>12. ASSUME NEW c \in Callers, ReadChain(c) PROVE PaymentsInv'
  <2>1. PICK state : state.pc = "reconcile" /\ Goto(c, state)
    BY <1>12 DEF ReadChain
  <2> QED
    BY <1>1, <1>12, <2>1 DEF ReadChain, Paying
<1>13. ASSUME NEW c \in Callers, ReconcileVault(c) PROVE PaymentsInv'
  BY <1>1, <1>13, <1>i DEF ReconcileVault
<1>14. ASSUME NEW c \in Callers, Crash(c) PROVE PaymentsInv'
  BY <1>1, <1>14, <1>i DEF Crash
<1>15. ASSUME UNCHANGED <<requests, callers, paid, lost>>, now' \in Nat, now' >= now
       PROVE  PaymentsInv'
  <2>1. \A r \in Requests : requests[r] # None => requests[r].earliest \in Nat
    BY DEF TypeOK, Request
  <2>2. \A c \in Callers : SubmitsAlone(c)'
    BY <1>15, <2>1 DEF PaymentsInv, PayingMade, SubmitsAlone, TypeOK, CallOK
  <2>3. \A r \in paid : Due(r)'
    <3> SUFFICES ASSUME NEW r \in paid PROVE Due(r)'
      BY <1>15
    <3>1. Due(r) /\ r \in Requests
      BY DEF PaymentsInv, TypeOK
    <3>2. requests[r].earliest <= now'
      BY <1>n, <1>15, <2>1, <3>1 DEF Due
    <3> QED
      BY <1>15, <3>1, <3>2 DEF Due, Approvals
  <2>4. PayingMade' /\ \A r \in Requests : Sound(requests[r])'
    BY <1>15 DEF PaymentsInv, PayingMade, Sound, Approvals
  <2> QED
    BY <1>15, <2>2, <2>3, <2>4 DEF PaymentsInv
<1>16. ASSUME NEW i \in Intents, NEW s \in Signatures, CreditFinalizedDeposit(i, s)
       PROVE  PaymentsInv'
  BY <1>n, <1>15, <1>16 DEF CreditFinalizedDeposit
<1>17. ASSUME NEW w \in Wallets, RecordEvidence(w) PROVE PaymentsInv'
  BY <1>n, <1>15, <1>17 DEF RecordEvidence
<1>18. ASSUME NEW s \in Signatures, NEW w \in Wallets, Transfer(s, w) PROVE PaymentsInv'
  BY <1>n, <1>15, <1>18 DEF Transfer
<1>19. CASE Tick
  BY <1>15, <1>19 DEF Tick, TypeOK
<1>20. CASE UNCHANGED vars
  BY <1>n, <1>15, <1>20 DEF vars
<1> QED
  BY <1>2, <1>3, <1>4, <1>5, <1>6, <1>7, <1>8, <1>9, <1>10, <1>11, <1>12, <1>13, <1>14,
     <1>16, <1>17, <1>18, <1>19, <1>20 DEF Next, CallerStep

----------------------------------------------------------------------------
(* How the requests change *)

Live == {"held", "approved", "submitting", "submitted"}
Existing == {r \in Requests : requests[r] # None}

\* The terms of a request never change.
SameTerms(r) ==
    /\ requests[r] \in Request /\ requests'[r] \in Request
    /\ requests'[r].wallet = requests[r].wallet
    /\ requests'[r].amount = requests[r].amount
    /\ requests'[r].unseen = requests[r].unseen
    /\ \A x \in Requests \ {r} : requests'[x] = requests[x]

Moved(r) ==
    SameTerms(r) /\ requests[r].status \in Live /\ requests'[r].status \in Live \cup {"rejected"}

Finished(r) ==
    SameTerms(r) /\ requests[r].status = "submitted" /\ requests'[r].status = "finalized"

\* A request is made, on the terms its caller holds.
Made(c, r) ==
    /\ At(c, "request") /\ callers[c].key = r
    /\ requests[r] = None /\ requests'[r] \in Request
    /\ requests'[r].status = "held" /\ requests'[r].wallet = callers[c].wallet
    /\ requests'[r].amount = callers[c].amount
    /\ requests'[r].unseen = Drawn(callers[c].wallet) \ callers[c].saw
    /\ \A x \in Requests \ {r} : requests'[x] = requests[x]

LEMMA StatusMoves ==
  ASSUME TypeOK, NEW r \in Requests, requests[r] # None,
         NEW s \in {"held", "approved", "submitting", "submitted", "finalized", "rejected"},
         requests' = [requests EXCEPT ![r].status = s]
  PROVE  SameTerms(r) /\ requests'[r].status = s
<1>1. requests[r] \in Request
  BY DEF TypeOK
<1>2. requests'[r] = [requests[r] EXCEPT !.status = s]
      /\ \A x \in Requests \ {r} : requests'[x] = requests[x]
  BY DEF TypeOK
<1>3. [requests[r] EXCEPT !.status = s] \in Request
  BY <1>1 DEF Request
<1>4. /\ [requests[r] EXCEPT !.status = s].wallet = requests[r].wallet
      /\ [requests[r] EXCEPT !.status = s].amount = requests[r].amount
      /\ [requests[r] EXCEPT !.status = s].unseen = requests[r].unseen
      /\ [requests[r] EXCEPT !.status = s].status = s
  BY <1>1 DEF Request
<1> QED
  BY <1>1, <1>2, <1>3, <1>4 DEF SameTerms

LEMMA ApproveMoves ==
  ASSUME TypeOK, NEW r \in Requests, NEW o \in Operators, NEW decision \in {"approve", "reject"},
         ApproveWithdrawal(r, o, decision)
  PROVE  Moved(r)
<1>1. /\ requests[r] \in Request /\ requests[r].status \in {"held", "approved"}
      /\ requests[r].approvals \in [Operators -> {"none", "approve", "reject"}]
  BY DEF ApproveWithdrawal, MayDecide, TypeOK, Request
<1> DEFINE q == requests[r]
           decided == [q EXCEPT !.approvals[o] = decision]
<1>2. PICK s \in {"rejected", "approved", "held"} :
         requests' = [requests EXCEPT ![r] = [decided EXCEPT !.status = s]]
  BY DEF ApproveWithdrawal
<1>3. /\ decided \in Request /\ decided.wallet = q.wallet
      /\ decided.amount = q.amount /\ decided.unseen = q.unseen
  BY <1>1 DEF Request
<1> HIDE DEF decided
<1>4. /\ [decided EXCEPT !.status = s] \in Request
      /\ [decided EXCEPT !.status = s].wallet = q.wallet
      /\ [decided EXCEPT !.status = s].amount = q.amount
      /\ [decided EXCEPT !.status = s].unseen = q.unseen
      /\ [decided EXCEPT !.status = s].status = s
  BY <1>3 DEF Request
<1>5. requests'[r] = [decided EXCEPT !.status = s]
      /\ \A x \in Requests \ {r} : requests'[x] = requests[x]
  BY <1>2 DEF TypeOK
<1> QED
  BY <1>1, <1>4, <1>5 DEF Moved, SameTerms, Live

LEMMA ClaimMoves ==
  ASSUME TypeOK, NEW c \in Callers, NEW r \in Requests, ClaimSubmission(c, r)
  PROVE  Moved(r)
<1>1. /\ requests[r] \in Request /\ requests[r].status = "approved"
      /\ requests[r].attempts + 1 \in Nat
  BY DEF ClaimSubmission, TypeOK, Request
<1> DEFINE q == [requests[r] EXCEPT !.status = "submitting", !.attempts = @ + 1]
<1>2. /\ q \in Request /\ q.wallet = requests[r].wallet /\ q.amount = requests[r].amount
      /\ q.unseen = requests[r].unseen /\ q.status = "submitting"
  BY <1>1 DEF Request
<1>3. requests'[r] = q /\ \A x \in Requests \ {r} : requests'[x] = requests[x]
  BY DEF ClaimSubmission, TypeOK
<1> HIDE DEF q
<1> QED
  BY <1>1, <1>2, <1>3 DEF Moved, SameTerms, Live

LEMMA RecordMoves ==
  ASSUME TypeOK, PaymentsInv, NEW c \in Callers, RecordSubmission(c)
  PROVE  \E r \in Requests : Moved(r)
<1>1. PICK r \in Requests :
         /\ r = callers[c].key /\ requests[r] # None /\ requests[r].status = "submitting"
  BY DEF RecordSubmission, At, PaymentsInv, PayingMade, SubmitsAlone, TypeOK, CallOK, Paying
<1>2. PICK s \in {"submitted", "approved"} : requests' = [requests EXCEPT ![r].status = s]
  BY <1>1 DEF RecordSubmission
<1>3. SameTerms(r) /\ requests'[r].status = s
  BY <1>1, <1>2, StatusMoves
<1> QED
  BY <1>1, <1>3 DEF Moved, Live

LEMMA FinalizeFinishes ==
  ASSUME TypeOK, NEW r \in Requests, FinalizeWithdrawal(r)
  PROVE  Finished(r)
<1> DEFINE s == "finalized"
<1>1. /\ requests[r] # None /\ requests[r].status = "submitted"
      /\ requests' = [requests EXCEPT ![r].status = s]
  BY DEF FinalizeWithdrawal
<1>2. s \in {"held", "approved", "submitting", "submitted", "finalized", "rejected"}
  OBVIOUS
<1> HIDE DEF s
<1>3. SameTerms(r) /\ requests'[r].status = s
  BY <1>1, <1>2, StatusMoves
<1> QED
  BY <1>1, <1>3 DEF Finished, s

LEMMA InsertMakes ==
  ASSUME TypeOK, NEW c \in Callers, InsertRequest(c)
  PROVE  UNCHANGED requests \/ \E r \in Requests : Made(c, r)
<1> DEFINE asked == callers[c]
           new == [status |-> "held", wallet |-> asked.wallet,
                   amount |-> asked.amount, unseen |-> Drawn(asked.wallet) \ asked.saw,
                   decision |-> asked.decision, attempts |-> 0,
                   earliest |-> now + CoolingOff,
                   approvals |-> [o \in Operators |-> "none"]]
<1>1. asked.key \in Requests /\ new \in Request
  BY SMTT(60), DrawnAreRequests DEF InsertRequest, At, TypeOK, CallOK, Asking, Request
<1>2. CASE requests[asked.key] = None
  <2>1. requests' = [requests EXCEPT ![asked.key] = new]
    BY <1>2 DEF InsertRequest
  <2>2. /\ new.status = "held" /\ new.wallet = asked.wallet /\ new.amount = asked.amount
        /\ new.unseen = Drawn(asked.wallet) \ asked.saw
    OBVIOUS
  <2> HIDE DEF new
  <2>3. requests'[asked.key] = new /\ \A x \in Requests \ {asked.key} : requests'[x] = requests[x]
    BY <1>1, <2>1 DEF TypeOK
  <2> QED
    BY <1>1, <1>2, <2>2, <2>3 DEF Made, InsertRequest
<1> QED
  BY <1>1, <1>2 DEF InsertRequest

\* What the sums are over.
LEMMA AmountTyped ==
  ASSUME TypeOK
  PROVE  /\ Amount \in [Requests -> Nat]
         /\ \A S \in SUBSET Requests :
               /\ IsFiniteSet(S) /\ SumFunctionOnSet(Amount, S) \in Nat
               /\ \A x \in S : Amount[x] \in Nat /\ Amount[x] \in Int
<1>1. Amount \in [Requests -> Nat]
  BY DEF TypeOK, Request, Amount
<1>2. ASSUME NEW S \in SUBSET Requests
      PROVE  IsFiniteSet(S) /\ SumFunctionOnSet(Amount, S) \in Nat
  <2>1. IsFiniteSet(S) /\ \A x \in S : Amount[x] \in Nat
    BY <1>1, FS_Subset
  <2> QED
    BY <2>1, SumNatural
<1>3. \A S \in SUBSET Requests : \A x \in S : Amount[x] \in Nat /\ Amount[x] \in Int
  BY <1>1
<1> QED
  BY <1>1, <1>2, <1>3

LEMMA SameViews ==
  ASSUME UNCHANGED requests
  PROVE  /\ Amount' = Amount /\ Existing' = Existing
         /\ \A w : Unfinished(w)' = Unfinished(w) /\ Debited(w)' = Debited(w)
BY DEF Amount, Existing, Unfinished, Debited, WithStatus

LEMMA MovedViews ==
  ASSUME TypeOK, NEW r \in Requests, Moved(r)
  PROVE  /\ Amount' = Amount /\ Existing' = Existing
         /\ \A w : Unfinished(w)' \subseteq Unfinished(w) /\ Debited(w)' = Debited(w)
<1>1. /\ requests[r] # None /\ requests'[r] # None
      /\ requests'[r].wallet = requests[r].wallet /\ requests'[r].amount = requests[r].amount
      /\ requests[r].status \in Live /\ requests'[r].status \in Live \cup {"rejected"}
      /\ \A x \in Requests \ {r} : requests'[x] = requests[x]
  BY DEF Moved, SameTerms
<1>2. Amount' = Amount /\ Existing' = Existing
  BY <1>1 DEF Amount, Existing
<1>3. ASSUME NEW w PROVE Unfinished(w)' \subseteq Unfinished(w) /\ Debited(w)' = Debited(w)
  BY <1>1 DEF Unfinished, Debited, WithStatus, Live
<1> QED
  BY <1>2, <1>3

LEMMA FinishedViews ==
  ASSUME TypeOK, NEW r \in Requests, Finished(r)
  PROVE  /\ Amount' = Amount /\ Existing' = Existing
         /\ Amount[r] = requests[r].amount /\ requests[r].wallet \in Wallets
         /\ \A w : /\ r \notin Unfinished(w)' /\ r \notin Debited(w)
                   /\ w = requests[r].wallet =>
                        /\ Unfinished(w) = Unfinished(w)' \cup {r}
                        /\ Debited(w)' = Debited(w) \cup {r}
                   /\ w # requests[r].wallet =>
                        /\ Unfinished(w)' = Unfinished(w) /\ Debited(w)' = Debited(w)
<1>1. /\ requests[r] # None /\ requests'[r] # None
      /\ requests[r].wallet \in Wallets
      /\ requests'[r].wallet = requests[r].wallet /\ requests'[r].amount = requests[r].amount
      /\ requests[r].status = "submitted" /\ requests'[r].status = "finalized"
      /\ \A x \in Requests \ {r} : requests'[x] = requests[x]
  BY DEF Finished, SameTerms, Request
<1>2. Amount' = Amount /\ Existing' = Existing /\ Amount[r] = requests[r].amount
  BY <1>1 DEF Amount, Existing
<1>3. ASSUME NEW w
      PROVE  /\ r \notin Unfinished(w)' /\ r \notin Debited(w)
             /\ w = requests[r].wallet =>
                  /\ Unfinished(w) = Unfinished(w)' \cup {r}
                  /\ Debited(w)' = Debited(w) \cup {r}
             /\ w # requests[r].wallet =>
                  /\ Unfinished(w)' = Unfinished(w) /\ Debited(w)' = Debited(w)
  BY <1>1 DEF Unfinished, Debited, WithStatus
<1> QED
  BY <1>1, <1>2, <1>3

LEMMA MadeViews ==
  ASSUME TypeOK, NEW c \in Callers, NEW r \in Requests, Made(c, r)
  PROVE  /\ \A x \in Requests \ {r} : Amount'[x] = Amount[x]
         /\ Amount'[r] = callers[c].amount
         /\ Existing' = Existing \cup {r} /\ r \notin Existing
         /\ \A w : /\ Debited(w)' = Debited(w) /\ r \notin Unfinished(w) /\ r \notin Debited(w)
                   /\ w = callers[c].wallet => Unfinished(w)' = Unfinished(w) \cup {r}
                   /\ w # callers[c].wallet => Unfinished(w)' = Unfinished(w)
<1>1. /\ requests[r] = None /\ requests'[r] # None
      /\ requests'[r].wallet = callers[c].wallet /\ requests'[r].amount = callers[c].amount
      /\ requests'[r].status = "held"
      /\ \A x \in Requests \ {r} : requests'[x] = requests[x]
  BY DEF Made
<1>2. /\ \A x \in Requests \ {r} : Amount'[x] = Amount[x]
      /\ Amount'[r] = callers[c].amount
      /\ Existing' = Existing \cup {r} /\ r \notin Existing
  BY <1>1 DEF Amount, Existing
<1>3. ASSUME NEW w
      PROVE  /\ Debited(w)' = Debited(w) /\ r \notin Unfinished(w) /\ r \notin Debited(w)
             /\ w = callers[c].wallet => Unfinished(w)' = Unfinished(w) \cup {r}
             /\ w # callers[c].wallet => Unfinished(w)' = Unfinished(w)
  BY <1>1 DEF Unfinished, Debited, WithStatus
<1> QED
  BY <1>2, <1>3

----------------------------------------------------------------------------
(* The holds *)

\* What a caller read still covers what it asks for, but for the withdrawals
\* debited since that it did not see.
ReadCovers(c) ==
    LET call == callers[c]
        w == call.wallet
        overlooked == SumFunctionOnSet(Amount, Debited(w) \ call.saw)
    IN  /\ call.pc = "holds" =>
              /\ call.balance \in Int /\ call.saw \subseteq Debited(w)
              /\ call.balance <= balance[w] + overlooked
        /\ call.pc = "request" =>
              /\ call.saw \subseteq Existing
              /\ SumFunctionOnSet(Amount, Unfinished(w) \cap call.saw) + call.amount
                    <= balance[w] + overlooked

\* Part of what is held is covered, but for what a single request overlooked of
\* it and of what was debited.
Covered(w, part) ==
    LET keys == part \cup Debited(w)
        held == SumFunctionOnSet(Amount, part)
    IN  \/ held <= balance[w]
        \/ \E r \in keys :
              held <= balance[w] + SumFunctionOnSet(Amount, requests[r].unseen \cap keys)

\* NoOverdraft for every part of the unfinished requests: a rejection leaves a
\* part, and takes what was rejected from what the others overlooked.
HoldsInv ==
    /\ \A w \in Wallets : \A part \in SUBSET Unfinished(w) : Covered(w, part)
    /\ \A c \in Callers : ReadCovers(c)

LEMMA UnfinishedAreRequests ==
  \A w : /\ Unfinished(w) \subseteq Requests /\ Unfinished(w) \subseteq Existing
         /\ Debited(w) \subseteq Requests /\ Debited(w) \subseteq Existing
         /\ Unfinished(w) \cap Debited(w) = {}
BY DEF Unfinished, Debited, WithStatus, Existing

\* Nothing is asked for or debited; deposits may be credited.
LEMMA HoldsStay ==
  ASSUME TypeOK, TypeOK', HoldsInv, UNCHANGED requests,
         \A w \in Wallets : balance[w] <= balance'[w],
         NEW d \in Callers, callers'[d] = callers[d]
  PROVE  ReadCovers(d)'
<1>1. /\ Amount' = Amount /\ Existing' = Existing
      /\ \A w : Unfinished(w)' = Unfinished(w) /\ Debited(w)' = Debited(w)
  BY SameViews
<1>2. CASE callers[d].pc \in {"holds", "request"}
  <2>1. PICK w, saw : w = callers[d].wallet /\ saw = callers[d].saw /\ w \in Wallets
    BY <1>2 DEF TypeOK, CallOK, Asking
  <2> DEFINE overlooked == SumFunctionOnSet(Amount, Debited(w) \ saw)
             known == SumFunctionOnSet(Amount, Unfinished(w) \cap saw)
  <2>2. overlooked \in Int /\ known \in Int
    BY UnfinishedAreRequests, AmountTyped
  <2>3. balance[w] \in Int /\ balance'[w] \in Int /\ balance[w] <= balance'[w]
    BY <2>1 DEF TypeOK
  <2>4. ReadCovers(d)
    BY DEF HoldsInv
  <2>5. CASE callers[d].pc = "holds"
    <3>1. PICK read : read = callers[d].balance
      OBVIOUS
    <3>2. read \in Int /\ saw \subseteq Debited(w) /\ read <= balance[w] + overlooked
      BY <2>1, <2>4, <2>5, <3>1 DEF ReadCovers
    <3>3. read <= balance'[w] + overlooked
      <4> HIDE DEF overlooked, known
      <4> QED
        BY <2>2, <2>3, <3>2
    <3> QED
      BY <1>1, <2>1, <2>5, <3>1, <3>2, <3>3 DEF ReadCovers
  <2>6. CASE callers[d].pc = "request"
    <3>1. PICK amount : amount = callers[d].amount /\ amount \in Nat
      BY <2>6 DEF TypeOK, CallOK
    <3>2. saw \subseteq Existing /\ known + amount <= balance[w] + overlooked
      BY <2>1, <2>4, <2>6, <3>1 DEF ReadCovers
    <3>3. known + amount <= balance'[w] + overlooked
      <4> HIDE DEF overlooked, known
      <4> QED
        BY <2>2, <2>3, <3>1, <3>2
    <3> QED
      BY <1>1, <2>1, <2>6, <3>1, <3>2, <3>3 DEF ReadCovers
  <2> QED
    BY <1>2, <2>5, <2>6
<1> QED
  BY <1>2 DEF ReadCovers

LEMMA CoveredStays ==
  ASSUME TypeOK, TypeOK', HoldsInv, UNCHANGED requests,
         \A w \in Wallets : balance[w] <= balance'[w]
  PROVE  \A w \in Wallets : \A part \in SUBSET Unfinished(w)' : Covered(w, part)'
<1>1. /\ Amount' = Amount
      /\ \A w : Unfinished(w)' = Unfinished(w) /\ Debited(w)' = Debited(w)
  BY SameViews
<1> SUFFICES ASSUME NEW w \in Wallets, NEW part \in SUBSET Unfinished(w)'
             PROVE  Covered(w, part)'
  OBVIOUS
<1> DEFINE keys == part \cup Debited(w)
           held == SumFunctionOnSet(Amount, part)
           unseen(r) == SumFunctionOnSet(Amount, requests[r].unseen \cap keys)
<1>2. /\ held \in Int /\ \A r : unseen(r) \in Int
      /\ balance[w] \in Int /\ balance'[w] \in Int /\ balance[w] <= balance'[w]
  <2>1. part \in SUBSET Requests /\ \A r : requests[r].unseen \cap keys \in SUBSET Requests
    BY <1>1, UnfinishedAreRequests
  <2>2. \A S \in SUBSET Requests : SumFunctionOnSet(Amount, S) \in Int
    BY AmountTyped
  <2>3. balance[w] \in Int /\ balance'[w] \in Int /\ balance[w] <= balance'[w]
    BY DEF TypeOK
  <2>4. \A r : unseen(r) \in Int
    BY <2>1, <2>2
  <2> QED
    BY <2>1, <2>2, <2>3, <2>4
<1>3. \/ held <= balance[w]
      \/ \E r \in keys : held <= balance[w] + unseen(r)
  BY <1>1 DEF HoldsInv, Covered
<1>4. \/ held <= balance'[w]
      \/ \E r \in keys : held <= balance'[w] + unseen(r)
  <2> HIDE DEF keys, held, unseen
  <2> QED
    BY <1>2, <1>3
<1> QED
  BY <1>1, <1>4 DEF Covered

\* The balance is read.
LEMMA BalanceRead ==
  ASSUME TypeOK, TypeOK', HoldsInv, NEW c \in Callers, NEW r \in Requests, NEW w \in Wallets,
         NEW amount \in WithdrawalAmounts, ReadBalance(c, r, w, amount)
  PROVE  HoldsInv'
<1>1. /\ callers'[c].pc = "holds" /\ callers'[c].wallet = w
      /\ callers'[c].balance = balance[w] /\ callers'[c].saw = Debited(w)
      /\ \A d \in Callers \ {c} : callers'[d] = callers[d]
  BY GotoMoves DEF ReadBalance
<1>2. UNCHANGED <<requests, balance>> /\ \A x \in Wallets : balance[x] \in Int
  BY DEF ReadBalance, TypeOK
<1>3. \A x \in Wallets : balance[x] <= balance'[x]
  BY <1>2
<1>4. Debited(w)' = Debited(w) /\ Amount' = Amount
  BY <1>2, SameViews
<1>5. balance'[w] \in Int /\ balance'[w] <= balance'[w] + SumFunctionOnSet(Amount, Debited(w) \ Debited(w))
  <2>1. SumFunctionOnSet(Amount, Debited(w) \ Debited(w)) \in Nat
    BY UnfinishedAreRequests, AmountTyped
  <2> QED
    BY <1>2, <2>1
<1>6. ReadCovers(c)'
  BY <1>1, <1>2, <1>4, <1>5 DEF ReadCovers
<1>7. \A d \in Callers \ {c} : ReadCovers(d)'
  BY <1>1, <1>2, <1>3, HoldsStay
<1> QED
  BY <1>2, <1>3, <1>6, <1>7, CoveredStays DEF HoldsInv

\* The holds are read: a caller that goes on asks for no more than is left.
LEMMA HoldsReadCover ==
  ASSUME TypeOK, TypeOK', HoldsInv, NEW c \in Callers, ReadHolds(c)
  PROVE  HoldsInv'
<1> DEFINE call == callers[c]
<1>0. PICK w \in Wallets : w = call.wallet
  BY DEF ReadHolds, At, TypeOK, CallOK, Asking
<1> DEFINE next == [call EXCEPT !.pc = "request", !.saw = @ \cup Unfinished(w)]
<1>1. call.pc = "holds" /\ w = call.wallet /\ call.amount \in Nat /\ CallOK(call)
  BY <1>0 DEF ReadHolds, At, TypeOK, CallOK, Asking
<1>2. UNCHANGED <<requests, balance>> /\ \A x \in Wallets : balance[x] \in Int
  BY DEF ReadHolds, TypeOK
<1>3. \A x \in Wallets : balance[x] <= balance'[x]
  BY <1>2
<1>4. /\ next.pc = "request" /\ next.wallet = w /\ next.amount = call.amount
      /\ next.saw = call.saw \cup Unfinished(w)
  <2>1. PICK key, wallet, amount, bal, saw, decision :
           call = [pc |-> "holds", key |-> key, wallet |-> wallet, amount |-> amount,
                   balance |-> bal, saw |-> saw, decision |-> decision]
    BY <1>1 DEF CallOK
  <2> QED
    BY <1>1, <2>1, HoldsRead
<1> HIDE DEF next
<1>5. /\ \A d \in Callers \ {c} : callers'[d] = callers[d]
      /\ \/ callers'[c] = Idle
         \/ callers'[c] = next /\ ~(call.balance - Held(w) < call.amount)
  <2>1. Goto(c, IF call.balance - Held(w) < call.amount THEN Idle ELSE next)
    BY <1>1 DEF ReadHolds, next
  <2> QED
    BY <2>1, GotoMoves
<1>6. ReadCovers(c)'
  <2>1. CASE callers'[c] = Idle
    BY <2>1 DEF ReadCovers, Idle
  <2>2. CASE callers'[c] = next /\ ~(call.balance - Held(w) < call.amount)
    <3> DEFINE overlooked == SumFunctionOnSet(Amount, Debited(w) \ call.saw)
    <3>1. /\ Amount' = Amount /\ Existing' = Existing
          /\ Unfinished(w)' = Unfinished(w) /\ Debited(w)' = Debited(w)
      BY <1>2, SameViews
    <3>2. /\ call.balance \in Int /\ call.saw \subseteq Debited(w)
          /\ call.balance <= balance[w] + overlooked
      BY <1>1 DEF HoldsInv, ReadCovers
    <3>3. next.saw \subseteq Existing
      BY <1>4, <3>2, UnfinishedAreRequests
    <3>4. /\ Unfinished(w) \cap next.saw = Unfinished(w)
          /\ Debited(w) \ next.saw = Debited(w) \ call.saw
      BY <1>4, UnfinishedAreRequests
    <3>5. Held(w) \in Int /\ overlooked \in Int
      BY UnfinishedAreRequests, AmountTyped DEF Held
    <3>6. Held(w) + call.amount <= balance[w] + overlooked
      <4> HIDE DEF overlooked
      <4> QED
        BY <1>1, <1>2, <2>2, <3>2, <3>5
    <3> QED
      BY <1>2, <1>4, <2>2, <3>1, <3>3, <3>4, <3>6 DEF ReadCovers, Held
  <2> QED
    BY <1>5, <2>1, <2>2
<1>7. \A d \in Callers \ {c} : ReadCovers(d)'
  BY <1>2, <1>3, <1>5, HoldsStay
<1> QED
  BY <1>2, <1>3, <1>6, <1>7, CoveredStays DEF HoldsInv

\* A request is made.  What it overlooked is what its caller did not see.
LEMMA MadeCovered ==
  ASSUME TypeOK, TypeOK', HoldsInv, NEW c \in Callers, NEW r \in Requests, Made(c, r),
         UNCHANGED balance, callers'[c] = Idle,
         \A d \in Callers \ {c} : callers'[d] = callers[d]
  PROVE  HoldsInv'
<1>0. PICK own \in Wallets, saw \in SUBSET Existing, amount \in Nat :
         /\ own = callers[c].wallet /\ saw = callers[c].saw /\ amount = callers[c].amount
         /\ SumFunctionOnSet(Amount, Unfinished(own) \cap saw) + amount
               <= balance[own] + SumFunctionOnSet(Amount, Debited(own) \ saw)
  BY DEF Made, At, TypeOK, CallOK, Asking, HoldsInv, ReadCovers
<1>1. /\ \A x \in Requests \ {r} : Amount'[x] = Amount[x]
      /\ Amount'[r] = amount
      /\ Existing' = Existing \cup {r} /\ r \notin Existing
      /\ \A w : /\ Debited(w)' = Debited(w) /\ r \notin Unfinished(w) /\ r \notin Debited(w)
                /\ w = own => Unfinished(w)' = Unfinished(w) \cup {r}
                /\ w # own => Unfinished(w)' = Unfinished(w)
  BY <1>0, MadeViews
<1>2. /\ \A x \in Requests \ {r} : requests'[x] = requests[x]
      /\ requests'[r].unseen = Drawn(own) \ saw
  BY <1>0 DEF Made
<1>4. ASSUME NEW S \in SUBSET Requests, r \notin S
      PROVE  /\ SumFunctionOnSet(Amount', S) = SumFunctionOnSet(Amount, S)
             /\ SumFunctionOnSet(Amount, S) \in Int
  <2>1. IsFiniteSet(S) /\ SumFunctionOnSet(Amount, S) \in Nat
    BY AmountTyped
  <2>2. \A x \in S : Amount'[x] = Amount[x]
    BY <1>1, <1>4
  <2> QED
    BY <2>1, <2>2, SumSame
<1>5. ASSUME NEW w \in Wallets, NEW part \in SUBSET Unfinished(w)'
      PROVE  Covered(w, part)'
  <2> DEFINE keys == part \cup Debited(w)
  <2>0. /\ Unfinished(w) \subseteq Requests /\ Debited(w) \subseteq Requests
        /\ Unfinished(w) \cap Debited(w) = {} /\ balance[w] \in Int /\ balance' = balance
    BY UnfinishedAreRequests DEF TypeOK
  <2>1. CASE r \notin part
    <3>1. part \in SUBSET Unfinished(w) /\ r \notin keys /\ keys \in SUBSET Requests
      BY <1>1, <2>0, <2>1
    <3>2. Covered(w, part)
      BY <3>1 DEF HoldsInv
    <3>3. SumFunctionOnSet(Amount', part) = SumFunctionOnSet(Amount, part)
      BY <1>4, <2>1, <3>1
    <3>4. \A x \in keys : SumFunctionOnSet(Amount', requests'[x].unseen \cap keys)
                            = SumFunctionOnSet(Amount, requests[x].unseen \cap keys)
      <4> SUFFICES ASSUME NEW x \in keys
                   PROVE  SumFunctionOnSet(Amount', requests'[x].unseen \cap keys)
                            = SumFunctionOnSet(Amount, requests[x].unseen \cap keys)
        OBVIOUS
      <4>1. PICK S : S = requests[x].unseen \cap keys
        OBVIOUS
      <4>2. S \in SUBSET Requests /\ r \notin S /\ requests'[x] = requests[x]
        BY <1>2, <3>1, <4>1
      <4> QED
        BY <1>4, <4>1, <4>2
    <3> QED
      BY <1>1, <2>0, <3>2, <3>3, <3>4 DEF Covered
  <2>2. CASE r \in part
    <3> DEFINE rest == part \ {r}
               known == rest \cap saw
               unknown == rest \ saw
               debited == Debited(w) \ saw
    <3>1. w = own /\ rest \in SUBSET Unfinished(w) /\ rest \in SUBSET Requests
      BY <1>1, <2>0, <2>2
    <3>2. /\ known \in SUBSET Requests /\ unknown \in SUBSET Requests
          /\ debited \in SUBSET Requests /\ r \notin rest
          /\ known \cup unknown = rest /\ known \cap unknown = {}
          /\ unknown \cap debited = {} /\ unknown \cup debited \in SUBSET Requests
          /\ r \notin unknown \cup debited
      BY <1>1, <2>0, <3>1
    <3>3. requests'[r].unseen \cap keys = unknown \cup debited
      BY <1>1, <1>2, <2>2, <3>1 DEF Drawn
    <3>4. PICK all, k, u, o, rs :
             /\ all = SumFunctionOnSet(Amount, Unfinished(w) \cap saw)
             /\ k = SumFunctionOnSet(Amount, known) /\ u = SumFunctionOnSet(Amount, unknown)
             /\ o = SumFunctionOnSet(Amount, debited) /\ rs = SumFunctionOnSet(Amount, rest)
      OBVIOUS
    <3>5. all \in Int /\ k \in Int /\ u \in Int /\ o \in Int /\ rs \in Int
      <4>1. Unfinished(w) \cap saw \in SUBSET Requests
        BY <2>0
      <4> HIDE DEF rest, known, unknown, debited
      <4> QED
        BY <3>1, <3>2, <3>4, <4>1, AmountTyped
    <3>6. k <= all
      <4>1. known \in SUBSET (Unfinished(w) \cap saw) /\ Unfinished(w) \cap saw \in SUBSET Requests
        BY <2>0, <3>1
      <4> HIDE DEF known
      <4>2. IsFiniteSet(Unfinished(w) \cap saw) /\ \A x \in Unfinished(w) \cap saw : Amount[x] \in Nat
        BY <4>1, AmountTyped
      <4> QED
        BY <3>4, <4>1, <4>2, SumOfPart
    <3>7. rs = k + u
      <4> HIDE DEF known, unknown, rest
      <4>1. /\ IsFiniteSet(known) /\ IsFiniteSet(unknown)
            /\ \A x \in known \cup unknown : Amount[x] \in Int
        BY <3>2, AmountTyped
      <4> QED
        BY <3>2, <3>4, <4>1, SumUnion
    <3>8. SumFunctionOnSet(Amount', unknown \cup debited) = u + o
      <4> HIDE DEF unknown, debited
      <4>1. /\ IsFiniteSet(unknown) /\ IsFiniteSet(debited)
            /\ \A x \in unknown \cup debited : Amount[x] \in Int
        BY <3>2, AmountTyped
      <4>2. SumFunctionOnSet(Amount, unknown \cup debited) = u + o
        BY <3>2, <3>4, <4>1, SumUnion
      <4> QED
        BY <1>4, <3>2, <4>2
    <3>9. SumFunctionOnSet(Amount', part) = amount + rs
      <4>1. part \in SUBSET Requests
        BY <2>2, <3>1
      <4>2. IsFiniteSet(part) /\ \A x \in part : Amount'[x] \in Int
        <5>1. part \in SUBSET Requests => IsFiniteSet(part) /\ \A x \in part : Amount'[x] \in Int
          BY FS_Subset, AmountTyped, <1>0, <1>1
        <5> QED
          BY <4>1, <5>1
      <4>3. SumFunctionOnSet(Amount', part) = Amount'[r] + SumFunctionOnSet(Amount', part \ {r})
        BY <2>2, <4>2, SumRemove
      <4>4. SumFunctionOnSet(Amount', rest) = rs
        BY <1>4, <3>1, <3>2, <3>4
      <4> QED
        BY <1>1, <4>3, <4>4
    <3>10. all + amount <= balance[w] + o
      BY <1>0, <3>1, <3>4
    <3>11. SumFunctionOnSet(Amount', part)
             <= balance'[w] + SumFunctionOnSet(Amount', requests'[r].unseen \cap keys)
      <4>1. amount + rs <= balance[w] + (u + o)
        BY <1>0, <2>0, <3>5, <3>6, <3>7, <3>10
      <4> QED
        BY <2>0, <3>3, <3>8, <3>9, <4>1
    <3> QED
      BY <1>1, <2>2, <3>11 DEF Covered
  <2> QED
    BY <2>1, <2>2
<1>6. ASSUME NEW d \in Callers \ {c} PROVE ReadCovers(d)'
  <2>1. callers'[d] = callers[d] /\ ReadCovers(d)
    BY DEF HoldsInv
  <2>2. PICK w, seen : w = callers[d].wallet /\ seen = callers[d].saw
    OBVIOUS
  <2>3. /\ Debited(w)' = Debited(w)
        /\ SumFunctionOnSet(Amount', Debited(w)' \ seen) = SumFunctionOnSet(Amount, Debited(w) \ seen)
    <3>1. Debited(w)' = Debited(w) /\ Debited(w) \ seen \in SUBSET Requests /\ r \notin Debited(w) \ seen
      BY <1>1, UnfinishedAreRequests
    <3> QED
      BY <1>4, <3>1
  <2>4. CASE callers[d].pc = "holds"
    BY <2>1, <2>2, <2>3, <2>4 DEF ReadCovers
  <2>5. CASE callers[d].pc = "request"
    <3>1. seen \subseteq Existing /\ seen \subseteq Existing'
      BY <1>1, <2>1, <2>2, <2>5 DEF ReadCovers
    <3>2. Unfinished(w)' \cap seen = Unfinished(w) \cap seen
      BY <1>1, <3>1
    <3>3. Unfinished(w) \cap seen \in SUBSET Requests /\ r \notin Unfinished(w) \cap seen
      BY <1>1, UnfinishedAreRequests
    <3>4. SumFunctionOnSet(Amount', Unfinished(w)' \cap seen)
            = SumFunctionOnSet(Amount, Unfinished(w) \cap seen)
      BY <1>4, <3>2, <3>3
    <3> QED
      BY <2>1, <2>2, <2>3, <2>5, <3>1, <3>4 DEF ReadCovers
  <2> QED
    BY <2>1, <2>4, <2>5 DEF ReadCovers
<1>7. ReadCovers(c)'
  BY DEF ReadCovers, Idle
<1> QED
  BY <1>5, <1>6, <1>7 DEF HoldsInv

\* A status moves: what is held can only shrink.
LEMMA MovedCovered ==
  ASSUME TypeOK, TypeOK', HoldsInv, NEW r \in Requests, Moved(r), UNCHANGED balance,
         \A d \in Callers : callers'[d] = callers[d] \/ callers'[d].pc \notin {"holds", "request"}
  PROVE  HoldsInv'
<1>1. /\ Amount' = Amount /\ Existing' = Existing
      /\ \A w : Unfinished(w)' \subseteq Unfinished(w) /\ Debited(w)' = Debited(w)
  BY MovedViews
<1>2. \A x \in Requests : requests'[x].unseen = requests[x].unseen
  BY DEF Moved, SameTerms
<1>3. ASSUME NEW w \in Wallets, NEW part \in SUBSET Unfinished(w)'
      PROVE  Covered(w, part)'
  <2>1. part \in SUBSET Unfinished(w) /\ part \cup Debited(w) \subseteq Requests
    BY <1>1, UnfinishedAreRequests
  <2>2. Covered(w, part)
    BY <2>1 DEF HoldsInv
  <2>3. \A x \in part \cup Debited(w) : requests'[x].unseen = requests[x].unseen
    BY <1>2, <2>1
  <2> QED
    BY <1>1, <2>2, <2>3 DEF Covered
<1>4. ASSUME NEW d \in Callers PROVE ReadCovers(d)'
  <2>1. CASE callers'[d] = callers[d] /\ callers[d].pc = "holds"
    <3>1. PICK w : w = callers[d].wallet
      OBVIOUS
    <3>2. Debited(w)' = Debited(w) /\ ReadCovers(d)
      BY <1>1 DEF HoldsInv
    <3> QED
      BY <1>1, <2>1, <3>1, <3>2 DEF ReadCovers
  <2>2. CASE callers'[d] = callers[d] /\ callers[d].pc = "request"
    <3>1. PICK w, seen, amount :
             /\ w = callers[d].wallet /\ seen = callers[d].saw /\ amount = callers[d].amount
             /\ w \in Wallets /\ amount \in Nat
      BY <2>2 DEF TypeOK, CallOK, Asking
    <3>2. Debited(w)' = Debited(w) /\ Unfinished(w)' \cap seen \in SUBSET (Unfinished(w) \cap seen)
      BY <1>1
    <3>3. ReadCovers(d)
      BY DEF HoldsInv
    <3> DEFINE then == Unfinished(w)' \cap seen
               before == Unfinished(w) \cap seen
               overlooked == SumFunctionOnSet(Amount, Debited(w) \ seen)
    <3>4. /\ SumFunctionOnSet(Amount, then) <= SumFunctionOnSet(Amount, before)
          /\ SumFunctionOnSet(Amount, then) \in Int /\ SumFunctionOnSet(Amount, before) \in Int
      <4>1. before \in SUBSET Requests /\ then \in SUBSET before /\ then \in SUBSET Requests
        BY <3>2, UnfinishedAreRequests
      <4> HIDE DEF then, before
      <4>2. IsFiniteSet(before) /\ \A x \in before : Amount[x] \in Nat
        BY <4>1, AmountTyped
      <4>3. SumFunctionOnSet(Amount, then) \in Int /\ SumFunctionOnSet(Amount, before) \in Int
        BY <4>1, AmountTyped
      <4> QED
        BY <4>1, <4>2, <4>3, SumOfPart
    <3>5. /\ seen \subseteq Existing
          /\ SumFunctionOnSet(Amount, before) + amount <= balance[w] + overlooked
      BY <2>2, <3>1, <3>3 DEF ReadCovers
    <3>6. balance[w] \in Int /\ balance' = balance /\ overlooked \in Int
      BY <3>1, UnfinishedAreRequests, AmountTyped DEF TypeOK
    <3>7. SumFunctionOnSet(Amount, then) + amount <= balance[w] + overlooked
      <4> HIDE DEF then, before, overlooked
      <4> QED
        BY <3>1, <3>4, <3>5, <3>6
    <3> QED
      BY <1>1, <2>2, <3>1, <3>2, <3>5, <3>6, <3>7 DEF ReadCovers
  <2> QED
    BY <2>1, <2>2 DEF ReadCovers
<1> QED
  BY <1>3, <1>4 DEF HoldsInv

\* A withdrawal is debited: what was held for it is taken from the balance.
LEMMA FinishedCovered ==
  ASSUME TypeOK, TypeOK', HoldsInv, NEW r \in Requests, Finished(r),
         balance' = [balance EXCEPT ![requests[r].wallet] = @ - requests[r].amount],
         UNCHANGED callers
  PROVE  HoldsInv'
<1>0. PICK own \in Wallets : own = requests[r].wallet
  BY FinishedViews
<1>1. /\ Amount' = Amount /\ Existing' = Existing /\ Amount[r] = requests[r].amount
      /\ \A w : /\ r \notin Unfinished(w)' /\ r \notin Debited(w)
                /\ w = own => /\ Unfinished(w) = Unfinished(w)' \cup {r}
                              /\ Debited(w)' = Debited(w) \cup {r}
                /\ w # own => Unfinished(w)' = Unfinished(w) /\ Debited(w)' = Debited(w)
  BY <1>0, FinishedViews
<1>2. \A x \in Requests : requests'[x].unseen = requests[x].unseen
  BY DEF Finished, SameTerms
<1>3. /\ Amount[r] \in Int /\ \A w \in Wallets : balance[w] \in Int
      /\ balance'[own] = balance[own] - Amount[r]
      /\ \A w \in Wallets \ {own} : balance'[w] = balance[w]
  BY <1>0, <1>1, AmountTyped DEF TypeOK
\* The sum over a part of what is left, and with r.
<1>4. ASSUME NEW S \in SUBSET Requests, r \notin S
      PROVE  /\ SumFunctionOnSet(Amount, S \cup {r}) = Amount[r] + SumFunctionOnSet(Amount, S)
             /\ SumFunctionOnSet(Amount, S) \in Int
  <2>1. IsFiniteSet(S) /\ SumFunctionOnSet(Amount, S) \in Nat /\ \A x \in S : Amount[x] \in Int
    BY AmountTyped
  <2> QED
    BY <1>3, <1>4, <2>1, SumAdd
<1>5. ASSUME NEW w \in Wallets, NEW part \in SUBSET Unfinished(w)'
      PROVE  Covered(w, part)'
  <2> DEFINE keys == part \cup Debited(w)'
             unseen(x) == SumFunctionOnSet(Amount, requests[x].unseen \cap keys)
             held == SumFunctionOnSet(Amount, part)
  <2>1. keys \subseteq Requests /\ part \in SUBSET Requests /\ r \notin part
    BY <1>1, UnfinishedAreRequests
  <2>2. \A x \in keys : /\ requests'[x].unseen = requests[x].unseen
                        /\ unseen(x) \in Int
    BY <1>2, <2>1, AmountTyped
  <2>3. \/ held <= balance'[w]
        \/ \E x \in keys : held <= balance'[w] + unseen(x)
    <3>1. CASE w = own
      <4>1. part \cup {r} \in SUBSET Unfinished(w) /\ (part \cup {r}) \cup Debited(w) = keys
        BY <1>1, <3>1
      <4>2. Covered(w, part \cup {r})
        BY <4>1 DEF HoldsInv
      <4>3. \/ SumFunctionOnSet(Amount, part \cup {r}) <= balance[w]
            \/ \E x \in keys : SumFunctionOnSet(Amount, part \cup {r}) <= balance[w] + unseen(x)
        BY <4>1, <4>2 DEF Covered
      <4>4. SumFunctionOnSet(Amount, part \cup {r}) = Amount[r] + held /\ held \in Int
        BY <1>4, <2>1
      <4>5. balance'[w] = balance[w] - Amount[r] /\ balance[w] \in Int /\ Amount[r] \in Int
        BY <1>3, <3>1
      <4> HIDE DEF keys, unseen, held
      <4>6. CASE SumFunctionOnSet(Amount, part \cup {r}) <= balance[w]
        BY <4>4, <4>5, <4>6
      <4>7. ASSUME NEW x \in keys, SumFunctionOnSet(Amount, part \cup {r}) <= balance[w] + unseen(x)
            PROVE  held <= balance'[w] + unseen(x)
        <5>1. unseen(x) \in Int
          BY <2>2
        <5> QED
          BY <4>4, <4>5, <4>7, <5>1
      <4> QED
        BY <4>3, <4>6, <4>7
    <3>2. CASE w # own
      <4>1. part \in SUBSET Unfinished(w) /\ part \cup Debited(w) = keys /\ balance'[w] = balance[w]
        BY <1>1, <1>3, <3>2
      <4>2. Covered(w, part)
        BY <4>1 DEF HoldsInv
      <4> QED
        BY <4>1, <4>2 DEF Covered
    <3> QED
      BY <3>1, <3>2
  <2> QED
    BY <1>1, <2>2, <2>3 DEF Covered
<1>6. ASSUME NEW d \in Callers PROVE ReadCovers(d)'
  <2>0. callers' = callers /\ ReadCovers(d)
    BY DEF HoldsInv
  <2>1. CASE callers[d].pc \in {"holds", "request"}
    <3>1. PICK w, saw : w = callers[d].wallet /\ saw = callers[d].saw /\ w \in Wallets
      BY <2>1 DEF TypeOK, CallOK, Asking
    <3>2. PICK overlooked, then :
             /\ overlooked = SumFunctionOnSet(Amount, Debited(w) \ saw)
             /\ then = SumFunctionOnSet(Amount, Debited(w)' \ saw)
             /\ overlooked \in Int /\ then \in Int
      <4>1. Debited(w) \ saw \in SUBSET Requests /\ Debited(w)' \ saw \in SUBSET Requests
        BY <1>1, UnfinishedAreRequests
      <4> QED
        BY <4>1, AmountTyped
    <3>3. /\ balance[w] \in Int /\ balance'[w] \in Int
          /\ w = own /\ r \notin saw => balance'[w] + then = balance[w] + overlooked
          /\ w = own /\ r \in saw => balance'[w] + then + Amount[r] = balance[w] + overlooked
          /\ w # own => balance'[w] = balance[w] /\ then = overlooked
      <4>1. balance[w] \in Int /\ balance'[w] \in Int
        BY <3>1 DEF TypeOK
      <4>2. CASE w = own /\ r \notin saw
        <5>1. /\ Debited(w)' \ saw = (Debited(w) \ saw) \cup {r}
              /\ r \notin Debited(w) \ saw /\ Debited(w) \ saw \in SUBSET Requests
          BY <1>1, <4>2, UnfinishedAreRequests
        <5>2. then = Amount[r] + overlooked
          BY <1>4, <3>2, <5>1
        <5> QED
          BY <1>3, <3>2, <4>1, <4>2, <5>2
      <4>3. CASE w = own /\ r \in saw
        <5>1. Debited(w)' \ saw = Debited(w) \ saw
          BY <1>1, <4>3
        <5>2. then = overlooked
          BY <3>2, <5>1
        <5>3. balance'[w] = balance[w] - Amount[r]
          BY <1>3, <4>3
        <5> QED
          BY <1>3, <3>2, <4>1, <4>3, <5>2, <5>3
      <4>4. CASE w # own
        BY <1>1, <1>3, <3>1, <3>2, <4>1, <4>4
      <4> QED
        BY <4>1, <4>2, <4>3, <4>4
    <3>4. CASE callers[d].pc = "holds"
      <4>1. PICK read : read = callers[d].balance
        OBVIOUS
      <4>2. read \in Int /\ saw \subseteq Debited(w) /\ read <= balance[w] + overlooked
        BY <2>0, <3>1, <3>2, <3>4, <4>1 DEF ReadCovers
      <4>3. saw \subseteq Debited(w)' /\ r \notin saw
        BY <1>1, <4>2
      <4>4. read <= balance'[w] + then
        BY <3>2, <3>3, <4>2, <4>3
      <4> QED
        BY <1>1, <2>0, <3>1, <3>2, <3>4, <4>1, <4>2, <4>3, <4>4 DEF ReadCovers
    <3>5. CASE callers[d].pc = "request"
      <4>1. PICK amount : amount = callers[d].amount /\ amount \in Nat
        BY <3>5 DEF TypeOK, CallOK
      <4>2. PICK before, after :
               /\ before = SumFunctionOnSet(Amount, Unfinished(w) \cap saw)
               /\ after = SumFunctionOnSet(Amount, Unfinished(w)' \cap saw)
               /\ before \in Int /\ after \in Int
        <5>1. Unfinished(w) \cap saw \in SUBSET Requests /\ Unfinished(w)' \cap saw \in SUBSET Requests
          BY <1>1, UnfinishedAreRequests
        <5> QED
          BY <5>1, AmountTyped
      <4>3. saw \subseteq Existing /\ before + amount <= balance[w] + overlooked
        BY <2>0, <3>1, <3>2, <3>5, <4>1, <4>2 DEF ReadCovers
      <4>4. /\ w = own /\ r \in saw => before = Amount[r] + after
            /\ ~(w = own /\ r \in saw) => before = after
        <5>1. CASE w = own /\ r \in saw
          <6>1. /\ Unfinished(w) \cap saw = (Unfinished(w)' \cap saw) \cup {r}
                /\ r \notin Unfinished(w)' \cap saw /\ Unfinished(w)' \cap saw \in SUBSET Requests
            BY <1>1, <5>1, UnfinishedAreRequests
          <6> QED
            BY <1>4, <4>2, <5>1, <6>1
        <5>2. CASE ~(w = own /\ r \in saw)
          <6>1. Unfinished(w)' \cap saw = Unfinished(w) \cap saw
            BY <1>1, <5>2
          <6> QED
            BY <4>2, <5>2, <6>1
        <5> QED
          BY <5>1, <5>2
      <4>5. after + amount <= balance'[w] + then
        BY <1>3, <3>2, <3>3, <4>1, <4>2, <4>3, <4>4
      <4> QED
        BY <1>1, <2>0, <3>1, <3>2, <3>5, <4>1, <4>2, <4>3, <4>5 DEF ReadCovers
    <3> QED
      BY <2>1, <3>4, <3>5
  <2> QED
    BY <2>0, <2>1 DEF ReadCovers
<1> QED
  BY <1>5, <1>6 DEF HoldsInv

LEMMA NextHolds ==
  ASSUME TypeOK, TypeOK', PaymentsInv, HoldsInv, [Next]_vars PROVE HoldsInv'
<1>a. ASSUME UNCHANGED requests, \A w \in Wallets : balance[w] <= balance'[w],
             \A d \in Callers : callers'[d] = callers[d] \/ callers'[d].pc \notin {"holds", "request"}
      PROVE  HoldsInv'
  <2>1. ASSUME NEW d \in Callers PROVE ReadCovers(d)'
    <3>1. CASE callers'[d] = callers[d]
      BY <1>a, <3>1, HoldsStay
    <3> QED
      BY <1>a, <3>1 DEF ReadCovers
  <2> QED
    BY <1>a, <2>1, CoveredStays DEF HoldsInv
<1>b. balance' = balance => \A w \in Wallets : balance[w] <= balance'[w]
  BY DEF TypeOK
<1>c. ASSUME NEW c \in Callers, NEW state, Goto(c, state), state.pc \notin {"holds", "request"}
      PROVE  \A d \in Callers : callers'[d] = callers[d] \/ callers'[d].pc \notin {"holds", "request"}
  BY <1>c, GotoMoves
<1>d. Idle.pc \notin {"holds", "request"}
  BY DEF Idle
<1>1. ASSUME NEW c \in Callers, NEW i \in Intents, NEW w \in Wallets,
             NEW amount \in DepositAmounts, EvaluateDeposit(c, i, w, amount)
      PROVE  HoldsInv'
  <2>1. PICK minimum \in Minimums :
           Goto(c, [pc |-> "intent", key |-> i, wallet |-> w, expected |-> amount,
                    minimum |-> minimum, seen |-> Credited(w),
                    decision |-> Decision(LatestEvidence(evidence[w]), now)])
    BY <1>1 DEF EvaluateDeposit
  <2>2. PICK state : state.pc = "intent" /\ Goto(c, state)
    BY <2>1
  <2> QED
    BY <1>1, <1>a, <1>b, <1>c, <2>2 DEF EvaluateDeposit
<1>2. ASSUME NEW c \in Callers, NEW r \in Requests, NEW w \in Wallets,
             NEW amount \in WithdrawalAmounts, ReadBalance(c, r, w, amount)
      PROVE  HoldsInv'
  BY <1>2, BalanceRead
<1>3. ASSUME NEW c \in Callers, InsertIntent(c) \/ ReconcileVault(c) \/ Crash(c) PROVE HoldsInv'
  <2>1. Goto(c, Idle) /\ UNCHANGED <<requests, balance>>
    BY <1>3 DEF InsertIntent, ReconcileVault, Crash
  <2> QED
    BY <1>a, <1>b, <1>c, <1>d, <2>1
<1>4. ASSUME NEW c \in Callers, ReadHolds(c) PROVE HoldsInv'
  BY <1>4, HoldsReadCover
<1>5. ASSUME NEW c \in Callers, InsertRequest(c) PROVE HoldsInv'
  <2>1. Goto(c, Idle) /\ UNCHANGED balance
    BY <1>5 DEF InsertRequest
  <2>2. CASE UNCHANGED requests
    BY <1>a, <1>b, <1>c, <1>d, <2>1, <2>2
  <2>3. ASSUME NEW r \in Requests, Made(c, r) PROVE HoldsInv'
    BY <2>1, <2>3, GotoMoves, MadeCovered
  <2> QED
    BY <1>5, <2>2, <2>3, InsertMakes
<1>6. ASSUME NEW c \in Callers, NEW r \in Requests, ClaimSubmission(c, r) PROVE HoldsInv'
  <2>1. PICK state : state.pc = "pay" /\ Goto(c, state)
    BY <1>6 DEF ClaimSubmission
  <2>2. Moved(r) /\ UNCHANGED balance
    BY <1>6, ClaimMoves DEF ClaimSubmission
  <2> QED
    BY <1>c, <2>1, <2>2, MovedCovered
<1>7. ASSUME NEW c \in Callers, Pay(c) PROVE HoldsInv'
  <2>1. PICK state : state.pc \in {"paid", "refused"} /\ Goto(c, state)
    <3>1. \E pc \in {"paid", "refused"} : Goto(c, [pc |-> pc, key |-> callers[c].key])
      BY <1>7 DEF Pay
    <3> QED
      BY <3>1
  <2>2. UNCHANGED <<requests, balance>>
    BY <1>7 DEF Pay
  <2> QED
    BY <1>a, <1>b, <1>c, <2>1, <2>2
<1>8. ASSUME NEW c \in Callers, RecordSubmission(c) PROVE HoldsInv'
  <2>1. PICK r \in Requests : Moved(r)
    BY <1>8, RecordMoves
  <2>2. Goto(c, Idle) /\ UNCHANGED balance
    BY <1>8 DEF RecordSubmission
  <2> QED
    BY <1>c, <1>d, <2>1, <2>2, MovedCovered
<1>9. ASSUME NEW c \in Callers, ReadChain(c) PROVE HoldsInv'
  <2>1. PICK state : state.pc = "reconcile" /\ Goto(c, state)
    BY <1>9 DEF ReadChain
  <2>2. UNCHANGED <<requests, balance>>
    BY <1>9 DEF ReadChain
  <2> QED
    BY <1>a, <1>b, <1>c, <2>1, <2>2
<1>10. ASSUME NEW i \in Intents, NEW s \in Signatures, CreditFinalizedDeposit(i, s)
       PROVE  HoldsInv'
  <2>1. /\ balance' = [balance EXCEPT ![intents[i].wallet] = @ + transfers[s].received]
        /\ transfers[s].received \in Nat /\ UNCHANGED <<requests, callers>>
    BY <1>10 DEF CreditFinalizedDeposit, TypeOK
  <2>2. \A w \in Wallets : balance[w] <= balance'[w]
    <3> DEFINE owner == intents[i].wallet
               more == transfers[s].received
    <3>1. balance' = [balance EXCEPT ![owner] = @ + more] /\ more \in Nat
      BY <2>1
    <3> HIDE DEF owner, more
    <3>2. balance \in [Wallets -> Int]
      BY DEF TypeOK
    <3> QED
      BY <3>1, <3>2
  <2> QED
    BY <1>a, <2>1, <2>2
<1>11. ASSUME NEW r \in Requests, NEW o \in Operators, NEW decision \in {"approve", "reject"},
              ApproveWithdrawal(r, o, decision)
       PROVE  HoldsInv'
  <2>1. Moved(r) /\ UNCHANGED <<balance, callers>>
    BY <1>11, ApproveMoves DEF ApproveWithdrawal
  <2> QED
    BY <2>1, MovedCovered
<1>12. ASSUME NEW r \in Requests, FinalizeWithdrawal(r) PROVE HoldsInv'
  <2>1. /\ Finished(r) /\ UNCHANGED callers
        /\ balance' = [balance EXCEPT ![requests[r].wallet] = @ - requests[r].amount]
    BY <1>12, FinalizeFinishes DEF FinalizeWithdrawal
  <2> QED
    BY <2>1, FinishedCovered
<1>13. ASSUME UNCHANGED <<requests, balance, callers>> PROVE HoldsInv'
  BY <1>13, <1>a, <1>b
<1>14. ASSUME NEW w \in Wallets, RecordEvidence(w) PROVE HoldsInv'
  BY <1>13, <1>14 DEF RecordEvidence
<1>15. ASSUME NEW s \in Signatures, NEW w \in Wallets, Transfer(s, w) PROVE HoldsInv'
  BY <1>13, <1>15 DEF Transfer
<1>16. CASE Tick \/ UNCHANGED vars
  BY <1>13, <1>16 DEF Tick, vars
<1> QED
  BY <1>1, <1>2, <1>3, <1>4, <1>5, <1>6, <1>7, <1>8, <1>9, <1>10, <1>11, <1>12, <1>14,
     <1>15, <1>16 DEF Next, CallerStep

----------------------------------------------------------------------------
(* The ledger *)

AllDebited == UNION {Debited(w) : w \in Wallets}
SignaturesOf(S) == {intents[i].signature : i \in S}

\* What the chain held when it was read is no less than what the deposits
\* credited by then brought, less all that has left the vault since.
ChainReadCovers(c) ==
    callers[c].pc = "reconcile" =>
        /\ callers[c].credited \subseteq AllCredited
        /\ callers[c].chain \in Int
        /\ SumFunctionOnSet(Received, SignaturesOf(callers[c].credited))
              - SumFunctionOnSet(Amount, paid) <= callers[c].chain

\* The balances are what was credited less what was debited: every transfer
\* once, every payment once, and only payments that were made.
LedgerInv ==
    /\ \A i \in AllCredited :
          intents[i].signature \in Signatures /\ transfers[intents[i].signature] # None
    /\ AllDebited \subseteq paid
    /\ Liability = SumFunctionOnSet(Received, SignaturesOf(AllCredited))
                     - SumFunctionOnSet(Amount, AllDebited)
    /\ \A c \in Callers : ChainReadCovers(c)

LEMMA ReceivedTyped ==
  ASSUME TypeOK
  PROVE  /\ Received \in [Signatures -> Nat]
         /\ \A S \in SUBSET Signatures :
               /\ IsFiniteSet(S) /\ SumFunctionOnSet(Received, S) \in Nat
               /\ \A x \in S : Received[x] \in Nat /\ Received[x] \in Int
<1>1. Received \in [Signatures -> Nat]
  <2>1. \A s \in Signatures : transfers[s] # None => transfers[s].received \in Nat
    BY DEF TypeOK
  <2> QED
    BY <2>1 DEF Received
<1>2. ASSUME NEW S \in SUBSET Signatures
      PROVE  IsFiniteSet(S) /\ SumFunctionOnSet(Received, S) \in Nat
  <2>1. IsFiniteSet(S) /\ \A x \in S : Received[x] \in Nat
    BY <1>1, FS_Subset
  <2> QED
    BY <2>1, SumNatural
<1>3. \A S \in SUBSET Signatures : \A x \in S : Received[x] \in Nat /\ Received[x] \in Int
  BY <1>1
<1> QED
  BY <1>1, <1>2, <1>3

LEMMA LiabilityTyped ==
  ASSUME TypeOK
  PROVE  /\ Liability = SumFunctionOnSet(balance, Wallets) /\ Liability \in Int
         /\ \A w \in Wallets : balance[w] \in Int
<1>1. DOMAIN balance = Wallets /\ \A w \in Wallets : balance[w] \in Int
  BY DEF TypeOK
<1>2. SumFunctionOnSet(balance, Wallets) \in Int
  BY <1>1, SumType
<1> QED
  BY <1>1, <1>2 DEF Liability, SumFunction

\* One balance changes by an amount.
LEMMA LiabilityMoves ==
  ASSUME TypeOK, TypeOK', NEW w \in Wallets, NEW n \in Int,
         balance' = [balance EXCEPT ![w] = @ + n]
  PROVE  Liability' = Liability + n
<1>1. /\ Liability = SumFunctionOnSet(balance, Wallets) /\ Liability \in Int
      /\ \A x \in Wallets : balance[x] \in Int
  BY LiabilityTyped
<1>2. Liability' = SumFunctionOnSet(balance', Wallets) /\ \A x \in Wallets : balance'[x] \in Int
  <2>1. DOMAIN balance' = Wallets /\ \A x \in Wallets : balance'[x] \in Int
    BY DEF TypeOK
  <2> QED
    BY <2>1 DEF Liability, SumFunction
<1>3. balance'[w] = balance[w] + n /\ \A x \in Wallets \ {w} : balance'[x] = balance[x]
  BY DEF TypeOK
<1>4. PICK g : g = balance'
  OBVIOUS
<1>5. SumFunctionOnSet(g, Wallets) = SumFunctionOnSet(balance, Wallets) - balance[w] + g[w]
  <2>1. /\ IsFiniteSet(Wallets) /\ \A x \in Wallets : balance[x] \in Int /\ g[x] \in Int
        /\ \A x \in Wallets \ {w} : g[x] = balance[x]
    BY <1>1, <1>2, <1>3, <1>4
  <2> QED
    BY <2>1, SumUpdate
<1> QED
  BY <1>1, <1>2, <1>3, <1>4, <1>5

LEMMA CreditedSigned ==
  ASSUME TypeOK, LedgerInv, NEW S, S \subseteq AllCredited
  PROVE  /\ SignaturesOf(S) \subseteq SignaturesOf(AllCredited)
         /\ SignaturesOf(S) \in SUBSET Signatures
BY DEF LedgerInv, SignaturesOf

LEMMA DebitedWerePaid ==
  ASSUME TypeOK, PaymentsInv, LedgerInv
  PROVE  /\ paid \in SUBSET Requests /\ AllDebited \in SUBSET Requests
         /\ paid \subseteq Existing /\ AllDebited \in SUBSET paid
<1>1. \A r \in paid : requests[r] # None
  BY DEF PaymentsInv, Due
<1> QED
  BY <1>1 DEF TypeOK, LedgerInv, Existing

\* Nothing is credited or debited; payments may be made.
LEMMA LedgerStays ==
  ASSUME TypeOK, TypeOK', PaymentsInv, LedgerInv,
         AllCredited' = AllCredited, \A i \in AllCredited : intents'[i] = intents[i],
         UNCHANGED <<transfers, balance>>, AllDebited' = AllDebited,
         \A x \in Existing : Amount'[x] = Amount[x],
         \A x \in paid' : Amount'[x] = Amount[x], paid \subseteq paid',
         \A d \in Callers : callers'[d] = callers[d] \/ callers'[d].pc # "reconcile"
  PROVE  LedgerInv'
<1>1. Received' = Received /\ Liability' = Liability
  BY DEF Received, Liability
<1>2. \A S : S \subseteq AllCredited => SignaturesOf(S)' = SignaturesOf(S)
  BY DEF SignaturesOf
<1>3. PICK all : all = AllCredited
  OBVIOUS
<1>4. SignaturesOf(AllCredited)' = SignaturesOf(AllCredited)
  BY DEF SignaturesOf
<1>5. /\ paid \in SUBSET Requests /\ AllDebited \in SUBSET Requests /\ paid' \in SUBSET Requests
      /\ paid \subseteq Existing /\ AllDebited \in SUBSET paid
  BY DebitedWerePaid DEF TypeOK
<1>6. SumFunctionOnSet(Amount', AllDebited) = SumFunctionOnSet(Amount, AllDebited)
  BY <1>5, AmountTyped, SumSame
<1>7. /\ SumFunctionOnSet(Amount', paid') = SumFunctionOnSet(Amount, paid')
      /\ SumFunctionOnSet(Amount, paid) <= SumFunctionOnSet(Amount, paid')
      /\ SumFunctionOnSet(Amount, paid) \in Int /\ SumFunctionOnSet(Amount, paid') \in Int
  <2>1. PICK then : then = paid' /\ paid \in SUBSET then /\ then \in SUBSET Requests
    BY <1>5
  <2>2. IsFiniteSet(then) /\ \A x \in then : Amount[x] \in Nat
    BY <2>1, AmountTyped
  <2>3. SumFunctionOnSet(Amount, paid) <= SumFunctionOnSet(Amount, then)
    BY <2>1, <2>2, SumOfPart
  <2>4. SumFunctionOnSet(Amount', then) = SumFunctionOnSet(Amount, then)
    BY <2>1, <2>2, SumSame
  <2>5. SumFunctionOnSet(Amount, paid) \in Nat /\ SumFunctionOnSet(Amount, then) \in Nat
    BY <1>5, <2>1, AmountTyped
  <2> QED
    BY <2>1, <2>3, <2>4, <2>5
<1>8. ASSUME NEW d \in Callers, callers'[d] = callers[d], callers[d].pc = "reconcile"
      PROVE  ChainReadCovers(d)'
  <2>1. PICK credited, chain : credited = callers[d].credited /\ chain = callers[d].chain
    OBVIOUS
  <2>2. /\ credited \subseteq AllCredited /\ chain \in Int
        /\ SumFunctionOnSet(Received, SignaturesOf(credited)) - SumFunctionOnSet(Amount, paid) <= chain
    BY <1>8, <2>1 DEF LedgerInv, ChainReadCovers
  <2>3. SignaturesOf(credited)' = SignaturesOf(credited)
        /\ SumFunctionOnSet(Received, SignaturesOf(credited)) \in Int
    BY <1>2, <2>2, CreditedSigned, ReceivedTyped
  <2>4. SumFunctionOnSet(Received, SignaturesOf(credited)) - SumFunctionOnSet(Amount, paid') <= chain
    BY <1>7, <2>2, <2>3
  <2> QED
    BY <1>1, <1>7, <1>8, <2>1, <2>2, <2>3, <2>4 DEF ChainReadCovers, SignaturesOf
<1>9. \A d \in Callers : ChainReadCovers(d)'
  BY <1>8 DEF ChainReadCovers
<1>10. \A i \in AllCredited' :
          intents'[i].signature \in Signatures /\ transfers'[intents'[i].signature] # None
  BY DEF LedgerInv
<1>11. AllDebited' \subseteq paid'
  BY <1>5
<1>12. Liability' = SumFunctionOnSet(Received', SignaturesOf(AllCredited)')
                      - SumFunctionOnSet(Amount', AllDebited')
  BY <1>1, <1>4, <1>6 DEF LedgerInv
<1> QED
  BY <1>9, <1>10, <1>11, <1>12 DEF LedgerInv

LEMMA InsertKeepsCredited ==
  ASSUME TypeOK, TypeOK', NEW c \in Callers, InsertIntent(c)
  PROVE  /\ AllCredited' = AllCredited /\ \A i \in AllCredited : intents'[i] = intents[i]
         /\ \A w : Credited(w)' = Credited(w)
         /\ \A i \in Intents : intents[i] # None => intents'[i] = intents[i]
<1> DEFINE asked == callers[c]
           new == [status |-> "created", wallet |-> asked.wallet,
                   expected |-> asked.expected, minimum |-> asked.minimum,
                   seen |-> asked.seen, decision |-> asked.decision,
                   expiresAt |-> now + IntentTtl, signature |-> None]
<1>1. asked.key \in Intents /\ new.status = "created"
  BY DEF InsertIntent, At, TypeOK, CallOK
<1>2. intents' = IF intents[asked.key] # None THEN intents
                 ELSE [intents EXCEPT ![asked.key] = new]
  BY DEF InsertIntent
<1> HIDE DEF new
<1>3. /\ \A i \in Intents : intents[i] # None => intents'[i] = intents[i]
      /\ \A i \in Intents : intents'[i] = intents[i] \/ (intents[i] = None /\ intents'[i].status = "created")
  BY <1>1, <1>2 DEF TypeOK
<1>4. \A w : Credited(w)' = Credited(w)
  BY <1>3 DEF Credited
<1>5. AllCredited' = AllCredited
  BY <1>4 DEF AllCredited
<1> QED
  BY <1>3, <1>4, <1>5 DEF AllCredited, Credited

\* A transfer that is credited was made, and not credited before.
LEMMA CreditAddsOne ==
  ASSUME TypeOK, TypeOK', NEW i \in Intents, NEW s \in Signatures, CreditFinalizedDeposit(i, s)
  PROVE  /\ intents[i] \in Intent /\ i \notin AllCredited
         /\ AllCredited' = AllCredited \cup {i} /\ \A j \in AllCredited : intents'[j] = intents[j]
         /\ intents'[i].signature = s /\ transfers[s] # None
         /\ s \notin SignaturesOf(AllCredited)
         /\ \A w : w = intents[i].wallet => Credited(w)' = Credited(w) \cup {i}
         /\ \A w : w # intents[i].wallet => Credited(w)' = Credited(w)
         /\ intents'[i].seen = intents[i].seen /\ intents'[i].expected = intents[i].expected
         /\ intents'[i].wallet = intents[i].wallet /\ intents'[i] # None
         /\ \A j \in Intents \ {i} : intents'[j] = intents[j]
<1>1. /\ intents[i] \in Intent /\ intents[i].status = "created" /\ transfers[s] # None
      /\ \A j \in Intents : intents[j] # None => intents[j].signature # s
      /\ intents' = [intents EXCEPT ![i] = [intents[i] EXCEPT !.status = "credited", !.signature = s]]
  BY DEF CreditFinalizedDeposit, TypeOK, Unobserved
<1> DEFINE q == [intents[i] EXCEPT !.status = "credited", !.signature = s]
<1>2. /\ q \in Intent /\ q.status = "credited" /\ q.signature = s /\ q.wallet = intents[i].wallet
      /\ q.seen = intents[i].seen /\ q.expected = intents[i].expected
  BY <1>1 DEF Intent
<1>3. intents'[i] = q /\ \A j \in Intents \ {i} : intents'[j] = intents[j]
  BY <1>1 DEF TypeOK
<1> HIDE DEF q
<1>4. i \notin AllCredited /\ AllCredited \subseteq Intents
  BY <1>1 DEF AllCredited, Credited
<1>5. ASSUME NEW w
      PROVE  /\ w = intents[i].wallet => Credited(w)' = Credited(w) \cup {i}
             /\ w # intents[i].wallet => Credited(w)' = Credited(w)
  <2>1. /\ intents'[i] # None /\ intents'[i].status = "credited"
        /\ intents'[i].wallet = intents[i].wallet
    BY <1>2, <1>3
  <2>2. i \notin Credited(w) /\ Credited(w) \subseteq Intents
    BY <1>1 DEF Credited
  <2>3. \A j \in Intents \ {i} : j \in Credited(w)' <=> j \in Credited(w)
    BY <1>3 DEF Credited
  <2>4. i \in Credited(w)' <=> intents[i].wallet = w
    BY <2>1 DEF Credited
  <2>5. Credited(w)' \subseteq Intents
    BY DEF Credited
  <2>6. PICK old, new : old = Credited(w) /\ new = Credited(w)'
    OBVIOUS
  <2>7. /\ intents[i].wallet = w => new = old \cup {i}
        /\ intents[i].wallet # w => new = old
    BY <2>2, <2>3, <2>4, <2>5, <2>6
  <2> QED
    BY <2>6, <2>7
<1>6. AllCredited' = AllCredited \cup {i}
  <2>1. intents[i].wallet \in Wallets
    BY <1>1 DEF Intent
  <2> QED
    BY <1>5, <2>1 DEF AllCredited
<1>7. s \notin SignaturesOf(AllCredited)
  BY <1>1 DEF SignaturesOf, AllCredited, Credited
<1> QED
  BY <1>1, <1>2, <1>3, <1>4, <1>5, <1>6, <1>7

LEMMA TransferKeepsLedger ==
  ASSUME TypeOK, TypeOK', PaymentsInv, LedgerInv,
         NEW s \in Signatures, NEW w \in Wallets, Transfer(s, w)
  PROVE  LedgerInv'
<1>1. /\ transfers[s] = None /\ \A x \in Signatures \ {s} : transfers'[x] = transfers[x]
      /\ UNCHANGED <<intents, requests, balance, paid, callers>>
  BY DEF Transfer, TypeOK
<1>2. /\ AllCredited' = AllCredited /\ AllDebited' = AllDebited /\ Amount' = Amount
      /\ Liability' = Liability /\ \A S : SignaturesOf(S)' = SignaturesOf(S)
  BY <1>1 DEF AllCredited, Credited, AllDebited, Debited, WithStatus, Amount, Liability, SignaturesOf
<1>3. \A S : S \subseteq AllCredited => s \notin SignaturesOf(S)
  BY <1>1 DEF LedgerInv, SignaturesOf
<1>4. ASSUME NEW S, S \subseteq AllCredited
      PROVE  SumFunctionOnSet(Received', SignaturesOf(S)) = SumFunctionOnSet(Received, SignaturesOf(S))
  <2>1. PICK T : T = SignaturesOf(S) /\ T \in SUBSET Signatures /\ s \notin T
    BY <1>3, <1>4, CreditedSigned
  <2>2. \A x \in T : Received'[x] = Received[x]
    BY <1>1, <2>1 DEF Received
  <2>3. IsFiniteSet(T)
    BY <2>1, ReceivedTyped
  <2> QED
    BY <2>1, <2>2, <2>3, SumSame
<1>5. ASSUME NEW d \in Callers PROVE ChainReadCovers(d)'
  <2>1. PICK credited : credited = callers[d].credited
    OBVIOUS
  <2>2. ChainReadCovers(d)
    BY DEF LedgerInv
  <2> QED
    BY <1>1, <1>2, <1>4, <2>1, <2>2 DEF ChainReadCovers
<1>6. \A i \in AllCredited' :
          intents'[i].signature \in Signatures /\ transfers'[intents'[i].signature] # None
  BY <1>1, <1>2 DEF LedgerInv
<1>7. PICK all : all = AllCredited /\ SignaturesOf(AllCredited)' = SignaturesOf(all)
  BY <1>1, <1>2 DEF SignaturesOf
<1>8. Liability' = SumFunctionOnSet(Received', SignaturesOf(AllCredited)')
                     - SumFunctionOnSet(Amount', AllDebited')
  BY <1>2, <1>4, <1>7 DEF LedgerInv
<1> QED
  BY <1>1, <1>2, <1>5, <1>6, <1>8 DEF LedgerInv

LEMMA CreditKeepsLedger ==
  ASSUME TypeOK, TypeOK', PaymentsInv, LedgerInv,
         NEW i \in Intents, NEW s \in Signatures, CreditFinalizedDeposit(i, s)
  PROVE  LedgerInv'
<1>0. UNCHANGED <<requests, transfers, paid, callers>>
  BY DEF CreditFinalizedDeposit
<1>1. /\ intents[i] \in Intent /\ i \notin AllCredited
      /\ AllCredited' = AllCredited \cup {i} /\ \A j \in AllCredited : intents'[j] = intents[j]
      /\ intents'[i].signature = s /\ transfers[s] # None
      /\ s \notin SignaturesOf(AllCredited)
  BY CreditAddsOne
<1>2. /\ Received' = Received /\ AllDebited' = AllDebited /\ Amount' = Amount
      /\ Received[s] = transfers[s].received
  BY <1>0, <1>1 DEF Received, AllDebited, Debited, WithStatus, Amount
<1>3. SignaturesOf(AllCredited)' = SignaturesOf(AllCredited) \cup {s}
  BY <1>1 DEF SignaturesOf
<1>4. \A S : S \subseteq AllCredited => SignaturesOf(S)' = SignaturesOf(S)
  BY <1>1 DEF SignaturesOf
<1>5. Liability' = Liability + Received[s]
  <2>1. PICK w \in Wallets, n \in Int : w = intents[i].wallet /\ n = Received[s]
    BY <1>1, ReceivedTyped DEF Intent
  <2>2. balance' = [balance EXCEPT ![w] = @ + n]
    BY <1>2, <2>1 DEF CreditFinalizedDeposit
  <2> QED
    BY <2>1, <2>2, LiabilityMoves
<1>6. SumFunctionOnSet(Received, SignaturesOf(AllCredited) \cup {s})
        = Received[s] + SumFunctionOnSet(Received, SignaturesOf(AllCredited))
  <2>1. /\ IsFiniteSet(SignaturesOf(AllCredited)) /\ Received[s] \in Int
        /\ \A x \in SignaturesOf(AllCredited) : Received[x] \in Int
    BY CreditedSigned, ReceivedTyped
  <2> QED
    BY <1>1, <2>1, SumAdd
<1>7. /\ Liability \in Int /\ Received[s] \in Int
      /\ SumFunctionOnSet(Received, SignaturesOf(AllCredited)) \in Int
      /\ SumFunctionOnSet(Amount, AllDebited) \in Int
  BY LiabilityTyped, ReceivedTyped, CreditedSigned, DebitedWerePaid, AmountTyped
<1>8. Liability' = SumFunctionOnSet(Received', SignaturesOf(AllCredited)')
                     - SumFunctionOnSet(Amount', AllDebited')
  <2>1. Liability = SumFunctionOnSet(Received, SignaturesOf(AllCredited))
                      - SumFunctionOnSet(Amount, AllDebited)
    BY DEF LedgerInv
  <2> QED
    BY <1>2, <1>3, <1>5, <1>6, <1>7, <2>1
<1>9. ASSUME NEW d \in Callers PROVE ChainReadCovers(d)'
  <2>1. PICK credited : credited = callers[d].credited
    OBVIOUS
  <2>2. ChainReadCovers(d)
    BY DEF LedgerInv
  <2> QED
    BY <1>0, <1>1, <1>2, <1>4, <2>1, <2>2 DEF ChainReadCovers
<1>10. \A j \in AllCredited' :
          intents'[j].signature \in Signatures /\ transfers'[intents'[j].signature] # None
  BY <1>0, <1>1 DEF LedgerInv
<1> QED
  BY <1>0, <1>2, <1>8, <1>9, <1>10 DEF LedgerInv

LEMMA DebitKeepsLedger ==
  ASSUME TypeOK, TypeOK', PaymentsInv, LedgerInv, NEW r \in Requests, FinalizeWithdrawal(r)
  PROVE  LedgerInv'
<1>0. UNCHANGED <<intents, transfers, paid, callers>> /\ r \in paid
  BY DEF FinalizeWithdrawal
<1>1. /\ Amount' = Amount /\ Amount[r] = requests[r].amount
      /\ requests[r].wallet \in Wallets
      /\ \A w : /\ r \notin Debited(w)
                /\ w = requests[r].wallet => Debited(w)' = Debited(w) \cup {r}
                /\ w # requests[r].wallet => Debited(w)' = Debited(w)
  BY FinalizeFinishes, FinishedViews
<1>2. AllDebited' = AllDebited \cup {r} /\ r \notin AllDebited
  BY <1>1 DEF AllDebited
<1>3. /\ AllCredited' = AllCredited /\ Received' = Received
      /\ \A S : SignaturesOf(S)' = SignaturesOf(S)
      /\ SignaturesOf(AllCredited)' = SignaturesOf(AllCredited)
  BY <1>0 DEF AllCredited, Credited, Received, SignaturesOf
<1>4. Liability' = Liability - Amount[r]
  <2>1. PICK w \in Wallets, n \in Int : w = requests[r].wallet /\ n = 0 - Amount[r]
    BY <1>1, AmountTyped
  <2>2. balance' = [balance EXCEPT ![w] = @ - Amount[r]]
    BY <1>1, <2>1 DEF FinalizeWithdrawal
  <2>3. balance' = [balance EXCEPT ![w] = @ + n]
    <3>1. balance[w] \in Int /\ Amount[r] \in Int
      BY AmountTyped DEF TypeOK
    <3>2. balance[w] - Amount[r] = balance[w] + n
      BY <2>1, <3>1
    <3> QED
      BY <2>2, <3>2
  <2>4. Liability' = Liability + n
    BY <2>3, LiabilityMoves
  <2> QED
    BY <2>1, <2>4, LiabilityTyped, AmountTyped
<1>5. /\ SumFunctionOnSet(Amount, AllDebited \cup {r}) = Amount[r] + SumFunctionOnSet(Amount, AllDebited)
      /\ SumFunctionOnSet(Amount, AllDebited) \in Int /\ Amount[r] \in Int
  <2>1. /\ IsFiniteSet(AllDebited) /\ SumFunctionOnSet(Amount, AllDebited) \in Nat
        /\ \A x \in AllDebited : Amount[x] \in Int
    BY DebitedWerePaid, AmountTyped
  <2>2. Amount[r] \in Int
    BY AmountTyped
  <2> QED
    BY <1>2, <2>1, <2>2, SumAdd
<1>6. Liability' = SumFunctionOnSet(Received', SignaturesOf(AllCredited)')
                     - SumFunctionOnSet(Amount', AllDebited')
  <2>1. Liability = SumFunctionOnSet(Received, SignaturesOf(AllCredited))
                      - SumFunctionOnSet(Amount, AllDebited)
    BY DEF LedgerInv
  <2>2. SumFunctionOnSet(Received, SignaturesOf(AllCredited)) \in Int
    BY CreditedSigned, ReceivedTyped
  <2> QED
    BY <1>1, <1>2, <1>3, <1>4, <1>5, <2>1, <2>2
<1>7. ASSUME NEW d \in Callers PROVE ChainReadCovers(d)'
  <2>1. PICK credited : credited = callers[d].credited
    OBVIOUS
  <2>2. ChainReadCovers(d)
    BY DEF LedgerInv
  <2> QED
    BY <1>0, <1>1, <1>3, <2>1, <2>2 DEF ChainReadCovers
<1>8. \A i \in AllCredited' :
          intents'[i].signature \in Signatures /\ transfers'[intents'[i].signature] # None
  BY <1>0, <1>3 DEF LedgerInv
<1>9. AllDebited' \subseteq paid'
  BY <1>0, <1>2 DEF LedgerInv
<1> QED
  BY <1>6, <1>7, <1>8, <1>9 DEF LedgerInv

\* The chain is read: what it holds is all that was received less all that left.
LEMMA ChainReadKeepsLedger ==
  ASSUME TypeOK, TypeOK', PaymentsInv, LedgerInv, NEW c \in Callers, ReadChain(c)
  PROVE  LedgerInv'
<1>0. UNCHANGED <<intents, requests, balance, transfers, paid>>
  BY DEF ReadChain
<1>1. /\ callers'[c].pc = "reconcile" /\ callers'[c].chain = ChainBalance
      /\ callers'[c].credited = AllCredited
      /\ \A d \in Callers \ {c} : callers'[d] = callers[d]
  BY GotoMoves DEF ReadChain
<1>2. /\ AllCredited' = AllCredited /\ Received' = Received /\ Amount' = Amount
      /\ AllDebited' = AllDebited /\ Liability' = Liability
      /\ \A S : SignaturesOf(S)' = SignaturesOf(S)
      /\ SignaturesOf(AllCredited)' = SignaturesOf(AllCredited)
  BY <1>0 DEF AllCredited, Credited, Received, SignaturesOf, Amount, AllDebited, Debited,
              WithStatus, Liability
<1>3. DOMAIN Received = Signatures
  BY DEF Received
<1>4. SumFunctionOnSet(Received, SignaturesOf(AllCredited)) <= SumFunctionOnSet(Received, Signatures)
  <2>1. IsFiniteSet(Signatures) /\ \A x \in Signatures : Received[x] \in Nat
    BY ReceivedTyped
  <2> QED
    BY <2>1, CreditedSigned, SumOfPart
<1>5. /\ SumFunctionOnSet(Received, SignaturesOf(AllCredited)) \in Int
      /\ SumFunctionOnSet(Received, Signatures) \in Int
      /\ SumFunctionOnSet(Amount, paid) \in Int
  BY CreditedSigned, ReceivedTyped, DebitedWerePaid, AmountTyped
<1>6. /\ ChainBalance \in Int
      /\ SumFunctionOnSet(Received, SignaturesOf(AllCredited)) - SumFunctionOnSet(Amount, paid)
           <= ChainBalance
  BY <1>3, <1>4, <1>5 DEF ChainBalance, SumFunction
<1>7. ChainReadCovers(c)'
  BY <1>0, <1>1, <1>2, <1>6 DEF ChainReadCovers, SignaturesOf
<1>8. ASSUME NEW d \in Callers \ {c} PROVE ChainReadCovers(d)'
  <2>1. PICK credited : credited = callers[d].credited
    OBVIOUS
  <2>2. ChainReadCovers(d)
    BY DEF LedgerInv
  <2> QED
    BY <1>0, <1>1, <1>2, <2>1, <2>2 DEF ChainReadCovers
<1> QED
  BY <1>0, <1>2, <1>7, <1>8 DEF LedgerInv

LEMMA NextLedger ==
  ASSUME TypeOK, TypeOK', PaymentsInv, LedgerInv, [Next]_vars PROVE LedgerInv'
<1>a. UNCHANGED intents => AllCredited' = AllCredited /\ \A i \in AllCredited : intents'[i] = intents[i]
  BY DEF AllCredited, Credited
<1>b. UNCHANGED requests => AllDebited' = AllDebited /\ Amount' = Amount
  BY DEF AllDebited, Debited, WithStatus, Amount
<1>c. ASSUME NEW c \in Callers, NEW state, Goto(c, state), state.pc # "reconcile"
      PROVE  \A d \in Callers : callers'[d] = callers[d] \/ callers'[d].pc # "reconcile"
  BY <1>c, GotoMoves
<1>d. Idle.pc # "reconcile"
  BY DEF Idle
<1>e. ASSUME UNCHANGED <<intents, requests, balance, transfers>>, paid \subseteq paid',
             \A d \in Callers : callers'[d] = callers[d] \/ callers'[d].pc # "reconcile"
      PROVE  LedgerInv'
  BY <1>a, <1>b, <1>e, LedgerStays
<1>f. ASSUME NEW r \in Requests, Moved(r), UNCHANGED <<intents, balance, transfers, paid>>,
             \A d \in Callers : callers'[d] = callers[d] \/ callers'[d].pc # "reconcile"
      PROVE  LedgerInv'
  <2>1. Amount' = Amount /\ AllDebited' = AllDebited
    BY <1>f, MovedViews DEF AllDebited
  <2> QED
    BY <1>a, <1>f, <2>1, LedgerStays
<1>1. ASSUME NEW c \in Callers, NEW i \in Intents, NEW w \in Wallets,
             NEW amount \in DepositAmounts, EvaluateDeposit(c, i, w, amount)
      PROVE  LedgerInv'
  <2>1. PICK minimum \in Minimums :
           Goto(c, [pc |-> "intent", key |-> i, wallet |-> w, expected |-> amount,
                    minimum |-> minimum, seen |-> Credited(w),
                    decision |-> Decision(LatestEvidence(evidence[w]), now)])
    BY <1>1 DEF EvaluateDeposit
  <2>2. PICK state : state.pc = "intent" /\ Goto(c, state)
    BY <2>1
  <2> QED
    BY <1>1, <1>c, <1>e, <2>2 DEF EvaluateDeposit
<1>2. ASSUME NEW c \in Callers, NEW r \in Requests, NEW w \in Wallets,
             NEW amount \in WithdrawalAmounts, ReadBalance(c, r, w, amount)
      PROVE  LedgerInv'
  <2>1. PICK state : state.pc = "holds" /\ Goto(c, state)
    BY <1>2 DEF ReadBalance
  <2> QED
    BY <1>2, <1>c, <1>e, <2>1 DEF ReadBalance
<1>3. ASSUME NEW c \in Callers, InsertIntent(c) PROVE LedgerInv'
  <2>1. /\ Goto(c, Idle) /\ UNCHANGED <<requests, balance, transfers, paid>>
    BY <1>3 DEF InsertIntent
  <2>2. AllCredited' = AllCredited /\ \A i \in AllCredited : intents'[i] = intents[i]
    BY <1>3, InsertKeepsCredited
  <2> QED
    BY <1>b, <1>c, <1>d, <2>1, <2>2, LedgerStays
<1>4. ASSUME NEW c \in Callers, ReadHolds(c) PROVE LedgerInv'
  <2>1. callers[c].pc = "holds" /\ CallOK(callers[c])
    BY <1>4 DEF ReadHolds, At, TypeOK
  <2>2. PICK key, wallet, amount, bal, saw, decision :
           callers[c] = [pc |-> "holds", key |-> key, wallet |-> wallet, amount |-> amount,
                         balance |-> bal, saw |-> saw, decision |-> decision]
    BY <2>1 DEF CallOK
  <2>3. PICK state : (state = Idle \/ state.pc = "request") /\ Goto(c, state)
    BY <1>4, <2>2, HoldsRead DEF ReadHolds
  <2> QED
    BY <1>4, <1>c, <1>d, <1>e, <2>3 DEF ReadHolds
<1>5. ASSUME NEW c \in Callers, InsertRequest(c) PROVE LedgerInv'
  <2>1. Goto(c, Idle) /\ UNCHANGED <<intents, balance, transfers, paid>>
    BY <1>5 DEF InsertRequest
  <2>2. CASE UNCHANGED requests
    BY <1>c, <1>d, <1>e, <2>1, <2>2
  <2>3. ASSUME NEW r \in Requests, Made(c, r) PROVE LedgerInv'
    <3>1. /\ \A x \in Requests \ {r} : Amount'[x] = Amount[x]
          /\ r \notin Existing /\ \A w : Debited(w)' = Debited(w)
      BY <2>3, MadeViews
    <3>2. AllDebited' = AllDebited
      BY <3>1 DEF AllDebited
    <3>3. Existing \subseteq Requests \ {r} /\ paid \subseteq Existing
      BY <3>1, DebitedWerePaid DEF Existing
    <3> QED
      BY <1>a, <1>c, <1>d, <2>1, <3>1, <3>2, <3>3, LedgerStays
  <2> QED
    BY <1>5, <2>2, <2>3, InsertMakes
<1>6. ASSUME NEW c \in Callers, NEW r \in Requests, ClaimSubmission(c, r) PROVE LedgerInv'
  <2>1. PICK state : state.pc = "pay" /\ Goto(c, state)
    BY <1>6 DEF ClaimSubmission
  <2>2. Moved(r) /\ UNCHANGED <<intents, balance, transfers, paid>>
    BY <1>6, ClaimMoves DEF ClaimSubmission
  <2> QED
    BY <1>c, <1>f, <2>1, <2>2
<1>7. ASSUME NEW c \in Callers, Pay(c) PROVE LedgerInv'
  <2>1. PICK state : state.pc \in {"paid", "refused"} /\ Goto(c, state)
    <3>1. \E pc \in {"paid", "refused"} : Goto(c, [pc |-> pc, key |-> callers[c].key])
      BY <1>7 DEF Pay
    <3> QED
      BY <3>1
  <2>2. UNCHANGED <<intents, requests, balance, transfers>> /\ paid \subseteq paid'
    BY <1>7 DEF Pay
  <2> QED
    BY <1>c, <1>e, <2>1, <2>2
<1>8. ASSUME NEW c \in Callers, RecordSubmission(c) PROVE LedgerInv'
  <2>1. PICK r \in Requests : Moved(r)
    BY <1>8, RecordMoves
  <2>2. Goto(c, Idle) /\ UNCHANGED <<intents, balance, transfers, paid>>
    BY <1>8 DEF RecordSubmission
  <2> QED
    BY <1>c, <1>d, <1>f, <2>1, <2>2
<1>9. ASSUME NEW c \in Callers, ReadChain(c) PROVE LedgerInv'
  BY <1>9, ChainReadKeepsLedger
<1>10. ASSUME NEW c \in Callers, ReconcileVault(c) \/ Crash(c) PROVE LedgerInv'
  <2>1. Goto(c, Idle) /\ UNCHANGED <<intents, requests, balance, transfers, paid>>
    BY <1>10 DEF ReconcileVault, Crash
  <2> QED
    BY <1>c, <1>d, <1>e, <2>1
<1>11. ASSUME NEW i \in Intents, NEW s \in Signatures, CreditFinalizedDeposit(i, s)
       PROVE  LedgerInv'
  BY <1>11, CreditKeepsLedger
<1>12. ASSUME NEW r \in Requests, NEW o \in Operators, NEW decision \in {"approve", "reject"},
              ApproveWithdrawal(r, o, decision)
       PROVE  LedgerInv'
  <2>1. Moved(r) /\ UNCHANGED <<intents, balance, transfers, paid, callers>>
    BY <1>12, ApproveMoves DEF ApproveWithdrawal
  <2> QED
    BY <1>f, <2>1
<1>13. ASSUME NEW r \in Requests, FinalizeWithdrawal(r) PROVE LedgerInv'
  BY <1>13, DebitKeepsLedger
<1>14. ASSUME UNCHANGED <<intents, requests, balance, transfers, paid, callers>> PROVE LedgerInv'
  BY <1>14, <1>e
<1>15. ASSUME NEW w \in Wallets, RecordEvidence(w) PROVE LedgerInv'
  BY <1>14, <1>15 DEF RecordEvidence
<1>16. ASSUME NEW s \in Signatures, NEW w \in Wallets, Transfer(s, w) PROVE LedgerInv'
  BY <1>16, TransferKeepsLedger
<1>17. CASE Tick \/ UNCHANGED vars
  BY <1>14, <1>17 DEF Tick, vars
<1> QED
  BY <1>1, <1>2, <1>3, <1>4, <1>5, <1>6, <1>7, <1>8, <1>9, <1>10, <1>11, <1>12, <1>13, <1>15,
     <1>16, <1>17 DEF Next, CallerStep

----------------------------------------------------------------------------
(* The deposit limit *)

\* What was decided: with the deposits credited by then, still within the limit.
Allowed(w, seen, expected) ==
    /\ seen \subseteq Credited(w)
    /\ SumFunctionOnSet(Expected, seen) + expected <= Controls[w].depositLimit

LimitInv ==
    /\ DepositLimitKept
    /\ \A i \in Intents : intents[i] # None =>
          Allowed(intents[i].wallet, intents[i].seen, intents[i].expected)
    /\ \A c \in Callers : callers[c].pc = "intent" =>
          Allowed(callers[c].wallet, callers[c].seen, callers[c].expected)

LEMMA ExpectedTyped ==
  ASSUME TypeOK
  PROVE  /\ Expected \in [Intents -> Nat]
         /\ \A S \in SUBSET Intents :
               /\ IsFiniteSet(S) /\ SumFunctionOnSet(Expected, S) \in Nat
               /\ \A x \in S : Expected[x] \in Nat /\ Expected[x] \in Int
<1>1. Expected \in [Intents -> Nat]
  BY DEF TypeOK, Intent, Expected
<1>2. ASSUME NEW S \in SUBSET Intents
      PROVE  IsFiniteSet(S) /\ SumFunctionOnSet(Expected, S) \in Nat
  <2>1. IsFiniteSet(S) /\ \A x \in S : Expected[x] \in Nat
    BY <1>1, FS_Subset
  <2> QED
    BY <2>1, SumNatural
<1>3. \A S \in SUBSET Intents : \A x \in S : Expected[x] \in Nat /\ Expected[x] \in Int
  BY <1>1
<1> QED
  BY <1>1, <1>2, <1>3

LEMMA CreditedAreIntents ==
  \A w : Credited(w) \in SUBSET Intents /\ \A i \in Credited(w) : intents[i] # None
BY DEF Credited

\* What was allowed stays allowed: deposits are only ever credited, and what is
\* expected of them does not change.
LEMMA AllowedStays ==
  ASSUME TypeOK, NEW w, Credited(w) \subseteq Credited(w)',
         \A i \in Credited(w) : Expected'[i] = Expected[i],
         NEW seen, NEW expected, Allowed(w, seen, expected)
  PROVE  /\ seen \subseteq Credited(w)'
         /\ SumFunctionOnSet(Expected', seen) + expected <= Controls[w].depositLimit
<1>1. seen \in SUBSET Intents /\ seen \subseteq Credited(w)
  BY CreditedAreIntents DEF Allowed
<1>2. IsFiniteSet(seen)
  BY <1>1, ExpectedTyped
<1>3. SumFunctionOnSet(Expected', seen) = SumFunctionOnSet(Expected, seen)
  BY <1>1, <1>2, SumSame
<1> QED
  BY <1>1, <1>3 DEF Allowed

LEMMA CallersAllowed ==
  ASSUME TypeOK, LimitInv, \A w : Credited(w) \subseteq Credited(w)',
         \A w : \A i \in Credited(w) : Expected'[i] = Expected[i],
         \A d \in Callers : callers'[d] = callers[d] \/ callers'[d].pc # "intent"
  PROVE  \A d \in Callers : callers'[d].pc = "intent" =>
            Allowed(callers[d].wallet, callers[d].seen, callers[d].expected)'
<1> SUFFICES ASSUME NEW d \in Callers, callers'[d].pc = "intent"
             PROVE  Allowed(callers[d].wallet, callers[d].seen, callers[d].expected)'
  OBVIOUS
<1>1. PICK w, seen, expected :
         /\ w = callers[d].wallet /\ seen = callers[d].seen /\ expected = callers[d].expected
         /\ callers'[d] = callers[d]
  OBVIOUS
<1>2. Allowed(w, seen, expected)
  BY <1>1 DEF LimitInv
<1>3. /\ seen \subseteq Credited(w)'
      /\ SumFunctionOnSet(Expected', seen) + expected <= Controls[w].depositLimit
  BY <1>2, AllowedStays
<1> QED
  BY <1>1, <1>3 DEF Allowed

\* The intents do not change.
LEMMA LimitStays ==
  ASSUME TypeOK, LimitInv, UNCHANGED intents,
         \A d \in Callers : \/ callers'[d] = callers[d]
                            \/ callers'[d].pc # "intent"
                            \/ Allowed(callers'[d].wallet, callers'[d].seen, callers'[d].expected)
  PROVE  LimitInv'
<1>1. Expected' = Expected /\ \A w : Credited(w)' = Credited(w)
  BY DEF Expected, Credited
<1>2. \A w, seen, expected : Allowed(w, seen, expected)' = Allowed(w, seen, expected)
  BY <1>1 DEF Allowed
<1>3. DepositLimitKept'
  BY <1>1 DEF LimitInv, DepositLimitKept, Serial
<1>4. \A i \in Intents : intents'[i] # None =>
          Allowed(intents[i].wallet, intents[i].seen, intents[i].expected)'
  <2> SUFFICES ASSUME NEW i \in Intents, intents'[i] # None
               PROVE  Allowed(intents[i].wallet, intents[i].seen, intents[i].expected)'
    OBVIOUS
  <2>1. PICK w, seen, expected :
           w = intents[i].wallet /\ seen = intents[i].seen /\ expected = intents[i].expected
    OBVIOUS
  <2>2. Allowed(w, seen, expected)'
    BY <1>2, <2>1 DEF LimitInv
  <2> QED
    BY <2>1, <2>2 DEF Allowed
<1>5. ASSUME NEW d \in Callers, callers'[d].pc = "intent"
      PROVE  Allowed(callers[d].wallet, callers[d].seen, callers[d].expected)'
  <2>1. PICK w, seen, expected :
           /\ w = callers'[d].wallet /\ seen = callers'[d].seen /\ expected = callers'[d].expected
           /\ Allowed(w, seen, expected)
    BY <1>5 DEF LimitInv
  <2>2. Allowed(w, seen, expected)'
    BY <1>2, <2>1
  <2> QED
    BY <2>1, <2>2 DEF Allowed
<1> QED
  BY <1>3, <1>4, <1>5 DEF LimitInv

LEMMA DecidedWithinLimit ==
  ASSUME TypeOK, LimitInv, NEW c \in Callers, NEW i \in Intents, NEW w \in Wallets,
         NEW amount \in DepositAmounts, EvaluateDeposit(c, i, w, amount)
  PROVE  LimitInv'
<1>1. PICK minimum \in Minimums :
         Goto(c, [pc |-> "intent", key |-> i, wallet |-> w, expected |-> amount,
                  minimum |-> minimum, seen |-> Credited(w),
                  decision |-> Decision(LatestEvidence(evidence[w]), now)])
  BY DEF EvaluateDeposit
<1> DEFINE state == [pc |-> "intent", key |-> i, wallet |-> w, expected |-> amount,
                     minimum |-> minimum, seen |-> Credited(w),
                     decision |-> Decision(LatestEvidence(evidence[w]), now)]
<1>2. state.wallet = w /\ state.expected = amount /\ state.seen = Credited(w)
  OBVIOUS
<1> HIDE DEF state
<1>3. callers'[c] = state /\ \A d \in Callers \ {c} : callers'[d] = callers[d]
  BY <1>1, GotoMoves DEF state
<1>4. ~(Used(w) + amount > Controls[w].depositLimit)
  BY DEF EvaluateDeposit, Eligible, Reasons
<1>5. Used(w) \in Int /\ amount \in Int /\ Controls[w].depositLimit \in Int
  BY CreditedAreIntents, ExpectedTyped DEF Used
<1>6. Allowed(w, Credited(w), amount)
  BY <1>4, <1>5 DEF Allowed, Used
<1>7. UNCHANGED intents
  BY DEF EvaluateDeposit
<1> QED
  BY <1>2, <1>3, <1>6, <1>7, LimitStays

LEMMA InsertedWithinLimit ==
  ASSUME TypeOK, TypeOK', LimitInv, NEW c \in Callers, InsertIntent(c)
  PROVE  LimitInv'
<1>1. /\ \A w : Credited(w)' = Credited(w)
      /\ \A i \in Intents : intents[i] # None => intents'[i] = intents[i]
  BY InsertKeepsCredited
<1>2. \A w : \A i \in Credited(w) : Expected'[i] = Expected[i]
  BY <1>1, CreditedAreIntents DEF Expected
<1>3. \A w, seen, expected : Allowed(w, seen, expected) => Allowed(w, seen, expected)'
  BY <1>1, <1>2, AllowedStays DEF Allowed
<1>4. \A d \in Callers : callers'[d] = callers[d] \/ callers'[d].pc # "intent"
  BY GotoMoves DEF InsertIntent, Idle
<1>5. \A d \in Callers : callers'[d].pc = "intent" =>
         Allowed(callers[d].wallet, callers[d].seen, callers[d].expected)'
  BY <1>1, <1>2, <1>4, CallersAllowed
<1>6. ASSUME NEW w \in Wallets,
             Serial(Credited(w), LAMBDA x, y : y \in intents'[x].seen)
      PROVE  SumFunctionOnSet(Expected', Credited(w)) <= Controls[w].depositLimit
  <2>1. Serial(Credited(w), LAMBDA x, y : y \in intents[x].seen)
    BY <1>1, <1>6, CreditedAreIntents DEF Serial
  <2>2. SumFunctionOnSet(Expected, Credited(w)) <= Controls[w].depositLimit
    BY <2>1 DEF LimitInv, DepositLimitKept
  <2>3. SumFunctionOnSet(Expected', Credited(w)) = SumFunctionOnSet(Expected, Credited(w))
    BY <1>2, CreditedAreIntents, ExpectedTyped, SumSame
  <2> QED
    BY <2>2, <2>3
<1>7. DepositLimitKept'
  BY <1>1, <1>6 DEF DepositLimitKept, Serial
<1>8. ASSUME NEW i \in Intents, intents'[i] # None
      PROVE  Allowed(intents[i].wallet, intents[i].seen, intents[i].expected)'
  <2>1. PICK w, seen, expected :
           w = intents'[i].wallet /\ seen = intents'[i].seen /\ expected = intents'[i].expected
    OBVIOUS
  <2>2. Allowed(w, seen, expected)
    <3>1. CASE intents[i] # None
      BY <1>1, <2>1, <3>1 DEF LimitInv
    <3>2. CASE intents[i] = None
      <4> DEFINE new == [status |-> "created", wallet |-> callers[c].wallet,
                         expected |-> callers[c].expected, minimum |-> callers[c].minimum,
                         seen |-> callers[c].seen, decision |-> callers[c].decision,
                         expiresAt |-> now + IntentTtl, signature |-> None]
      <4>1. /\ callers[c].pc = "intent"
            /\ intents' = IF intents[callers[c].key] # None THEN intents
                          ELSE [intents EXCEPT ![callers[c].key] = new]
        BY DEF InsertIntent, At
      <4>2. /\ new.wallet = callers[c].wallet /\ new.seen = callers[c].seen
            /\ new.expected = callers[c].expected
        OBVIOUS
      <4> HIDE DEF new
      <4>3. intents'[i] = new
        BY <1>8, <3>2, <4>1 DEF TypeOK
      <4> QED
        BY <2>1, <4>1, <4>2, <4>3 DEF LimitInv
    <3> QED
      BY <3>1, <3>2
  <2>3. Allowed(w, seen, expected)'
    BY <1>3, <2>2
  <2> QED
    BY <2>1, <2>3 DEF Allowed
<1> QED
  BY <1>5, <1>7, <1>8 DEF LimitInv

\* A deposit is credited after every deposit its decision did not count was
\* decided: those that are Serial with it were counted.
LEMMA CreditedWithinLimit ==
  ASSUME TypeOK, TypeOK', LimitInv, NEW i \in Intents, NEW s \in Signatures,
         CreditFinalizedDeposit(i, s)
  PROVE  LimitInv'
<1>1. PICK own \in Wallets, credited \in SUBSET Intents :
         own = intents[i].wallet /\ credited = Credited(own)
  BY CreditAddsOne, CreditedAreIntents DEF Intent
<1>2. /\ intents[i] # None /\ i \notin AllCredited
      /\ Credited(own)' = credited \cup {i}
      /\ \A w : w # own => Credited(w)' = Credited(w)
      /\ intents'[i].seen = intents[i].seen /\ intents'[i].expected = intents[i].expected
      /\ intents'[i].wallet = intents[i].wallet /\ intents'[i] # None
      /\ \A j \in Intents \ {i} : intents'[j] = intents[j]
  BY <1>1, CreditAddsOne
<1>3. i \notin credited
  BY <1>1, <1>2 DEF AllCredited
<1>4. Expected' = Expected
  BY <1>2 DEF Expected
<1>5. \A w : Credited(w) \subseteq Credited(w)'
  BY <1>1, <1>2
<1>6. \A w, seen, expected : Allowed(w, seen, expected) => Allowed(w, seen, expected)'
  BY <1>4, <1>5 DEF Allowed
<1>7. \A d \in Callers : callers'[d].pc = "intent" =>
         Allowed(callers[d].wallet, callers[d].seen, callers[d].expected)'
  <2>1. callers' = callers
    BY DEF CreditFinalizedDeposit
  <2> QED
    BY <1>4, <1>5, <2>1, CallersAllowed
<1>8. ASSUME NEW j \in Intents, intents'[j] # None
      PROVE  Allowed(intents[j].wallet, intents[j].seen, intents[j].expected)'
  <2>1. PICK w, seen, expected :
           w = intents'[j].wallet /\ seen = intents'[j].seen /\ expected = intents'[j].expected
    OBVIOUS
  <2>2. Allowed(w, seen, expected)
    BY <1>2, <1>8, <2>1 DEF LimitInv
  <2>3. Allowed(w, seen, expected)'
    BY <1>6, <2>2
  <2> QED
    BY <2>1, <2>3 DEF Allowed
<1>9. ASSUME NEW w \in Wallets, NEW now1, now1 = Credited(w)',
             \A x, y \in now1 : x = y \/ y \in intents'[x].seen \/ x \in intents'[y].seen
      PROVE  SumFunctionOnSet(Expected, now1) <= Controls[w].depositLimit
  <2>1. CASE w # own
    <3>1. /\ now1 = Credited(w) /\ i \notin now1 /\ now1 \subseteq Intents
      BY <1>2, <1>9, <2>1, CreditedAreIntents DEF AllCredited
    <3>2. Serial(Credited(w), LAMBDA x, y : y \in intents[x].seen)
      BY <1>2, <1>9, <3>1 DEF Serial
    <3> QED
      BY <3>1, <3>2 DEF LimitInv, DepositLimitKept
  <2>2. CASE w = own
    <3>1. now1 = credited \cup {i}
      BY <1>2, <1>9, <2>2
    <3>2. PICK seen, expected : seen = intents[i].seen /\ expected = intents[i].expected
      OBVIOUS
    <3>3. Allowed(own, seen, expected)
      BY <1>1, <1>2, <3>2 DEF LimitInv
    <3>4. seen \subseteq credited /\ SumFunctionOnSet(Expected, seen) + expected <= Controls[own].depositLimit
      BY <1>1, <3>3 DEF Allowed
    <3>5. \A j \in credited : j \in seen
      <4> SUFFICES ASSUME NEW j \in credited PROVE j \in seen
        OBVIOUS
      <4>1. j # i /\ intents'[j] = intents[j] /\ intents[j] # None /\ intents[j].wallet = own
        BY <1>1, <1>2, <1>3 DEF Credited
      <4>2. j \in intents'[i].seen \/ i \in intents'[j].seen
        BY <1>9, <3>1, <4>1
      <4>3. intents[j].seen \subseteq credited
        BY <1>1, <4>1 DEF LimitInv, Allowed
      <4> QED
        BY <1>2, <1>3, <3>2, <4>1, <4>2, <4>3
    <3>6. seen = credited
      BY <3>4, <3>5
    <3>7. SumFunctionOnSet(Expected, credited \cup {i}) = Expected[i] + SumFunctionOnSet(Expected, credited)
      <4>1. IsFiniteSet(credited) /\ Expected[i] \in Int /\ \A x \in credited : Expected[x] \in Int
        BY ExpectedTyped
      <4> QED
        BY <1>3, <4>1, SumAdd
    <3>8. /\ Expected[i] = expected /\ Expected[i] \in Int
          /\ SumFunctionOnSet(Expected, credited) \in Int
      BY <1>2, <3>2, ExpectedTyped DEF Expected
    <3> QED
      BY <2>2, <3>1, <3>4, <3>6, <3>7, <3>8
  <2> QED
    BY <2>1, <2>2
<1>10. DepositLimitKept'
  BY <1>4, <1>9 DEF DepositLimitKept, Serial
<1> QED
  BY <1>7, <1>8, <1>10 DEF LimitInv

LEMMA NextLimit ==
  ASSUME TypeOK, TypeOK', LimitInv, [Next]_vars
  PROVE  LimitInv'
<1>a. ASSUME NEW c \in Callers, NEW state, Goto(c, state), state.pc # "intent", UNCHANGED intents
      PROVE  LimitInv'
  <2>1. \A d \in Callers : callers'[d] = callers[d] \/ callers'[d].pc # "intent"
    BY <1>a, GotoMoves
  <2> QED
    BY <1>a, <2>1, LimitStays
<1>b. ASSUME UNCHANGED <<intents, callers>> PROVE LimitInv'
  BY <1>b, LimitStays
<1>1. ASSUME NEW c \in Callers, NEW i \in Intents, NEW w \in Wallets, NEW amount \in DepositAmounts,
             EvaluateDeposit(c, i, w, amount)
      PROVE  LimitInv'
  BY <1>1, DecidedWithinLimit
<1>2. ASSUME NEW c \in Callers, NEW r \in Requests, NEW w \in Wallets,
             NEW amount \in WithdrawalAmounts, ReadBalance(c, r, w, amount)
      PROVE  LimitInv'
  <2>1. PICK state : state.pc = "holds" /\ Goto(c, state)
    BY <1>2 DEF ReadBalance
  <2> QED
    BY <1>a, <1>2, <2>1 DEF ReadBalance
<1>3. ASSUME NEW c \in Callers, InsertIntent(c) PROVE LimitInv'
  BY <1>3, InsertedWithinLimit
<1>4. ASSUME NEW c \in Callers, ReadHolds(c) PROVE LimitInv'
  <2>1. callers[c].pc = "holds" /\ CallOK(callers[c])
    BY <1>4 DEF ReadHolds, At, TypeOK
  <2>2. PICK key, wallet, amount, bal, saw, decision :
           callers[c] = [pc |-> "holds", key |-> key, wallet |-> wallet, amount |-> amount,
                         balance |-> bal, saw |-> saw, decision |-> decision]
    BY <2>1 DEF CallOK
  <2>3. PICK state : (state = Idle \/ state.pc = "request") /\ Goto(c, state)
    BY <1>4, <2>2, HoldsRead DEF ReadHolds
  <2>4. Idle.pc # "intent"
    BY DEF Idle
  <2> QED
    BY <1>a, <1>4, <2>3, <2>4 DEF ReadHolds
<1>5. ASSUME NEW c \in Callers, NEW r \in Requests, ClaimSubmission(c, r) PROVE LimitInv'
  <2>1. PICK state : state.pc = "pay" /\ Goto(c, state)
    BY <1>5 DEF ClaimSubmission
  <2> QED
    BY <1>a, <1>5, <2>1 DEF ClaimSubmission
<1>6. ASSUME NEW c \in Callers, Pay(c) PROVE LimitInv'
  <2>1. PICK state : state.pc \in {"paid", "refused"} /\ Goto(c, state)
    <3>1. \E pc \in {"paid", "refused"} : Goto(c, [pc |-> pc, key |-> callers[c].key])
      BY <1>6 DEF Pay
    <3> QED
      BY <3>1
  <2> QED
    BY <1>a, <1>6, <2>1 DEF Pay
<1>7. ASSUME NEW c \in Callers, ReadChain(c) PROVE LimitInv'
  <2>1. PICK state : state.pc = "reconcile" /\ Goto(c, state)
    BY <1>7 DEF ReadChain
  <2> QED
    BY <1>a, <1>7, <2>1 DEF ReadChain
<1>8. ASSUME NEW c \in Callers,
             InsertRequest(c) \/ RecordSubmission(c) \/ ReconcileVault(c) \/ Crash(c)
      PROVE  LimitInv'
  <2>1. Goto(c, Idle) /\ UNCHANGED intents
    BY <1>8 DEF InsertRequest, RecordSubmission, ReconcileVault, Crash
  <2>2. Idle.pc # "intent"
    BY DEF Idle
  <2> QED
    BY <1>a, <2>1, <2>2
<1>9. ASSUME NEW i \in Intents, NEW s \in Signatures, CreditFinalizedDeposit(i, s)
      PROVE  LimitInv'
  BY <1>9, CreditedWithinLimit
<1>10. ASSUME NEW r \in Requests, NEW o \in Operators, NEW decision \in {"approve", "reject"},
              ApproveWithdrawal(r, o, decision)
       PROVE  LimitInv'
  BY <1>b, <1>10 DEF ApproveWithdrawal
<1>11. ASSUME NEW r \in Requests, FinalizeWithdrawal(r) PROVE LimitInv'
  BY <1>b, <1>11 DEF FinalizeWithdrawal
<1>12. ASSUME NEW w \in Wallets, RecordEvidence(w) \/ \E s \in Signatures : Transfer(s, w)
       PROVE  LimitInv'
  BY <1>b, <1>12 DEF RecordEvidence, Transfer
<1>13. CASE Tick \/ UNCHANGED vars
  BY <1>b, <1>13 DEF Tick, vars
<1> QED
  BY <1>1, <1>2, <1>3, <1>4, <1>5, <1>6, <1>7, <1>8, <1>9, <1>10, <1>11, <1>12, <1>13
     DEF Next, CallerStep

----------------------------------------------------------------------------
(* The theorems *)

Inv == TypeOK /\ DecisionsInv /\ PaymentsInv /\ HoldsInv /\ LedgerInv /\ LimitInv

\* At first nothing is there to add up.
LEMMA InitSums ==
  ASSUME Init
  PROVE  HoldsInv /\ LedgerInv /\ LimitInv
<1>1. TypeOK
  BY InitTyped
<1>2. /\ \A r \in Requests : requests[r] = None
      /\ \A i \in Intents : intents[i] = None
      /\ \A w \in Wallets : balance[w] = 0
      /\ \A c \in Callers : callers[c] = Idle
      /\ paid = {}
  BY DEF Init
<1>3. /\ Existing = {} /\ \A w : Unfinished(w) = {} /\ Debited(w) = {} /\ Credited(w) = {}
  BY <1>2 DEF Existing, Unfinished, Debited, WithStatus, Credited
<1>4. AllCredited = {} /\ AllDebited = {} /\ SignaturesOf({}) = {}
  BY <1>3 DEF AllCredited, AllDebited, SignaturesOf
<1>5. Idle.pc = "idle"
  BY DEF Idle
<1>6. Liability = 0
  BY <1>1, <1>2, LiabilityTyped, SumZero
<1>7. \A f : SumFunctionOnSet(f, {}) = 0
  BY SumEmpty
<1>8. HoldsInv
  <2>1. \A w \in Wallets : \A part \in SUBSET Unfinished(w) : Covered(w, part)
    <3> SUFFICES ASSUME NEW w \in Wallets, NEW part \in SUBSET Unfinished(w)
                 PROVE  SumFunctionOnSet(Amount, part) <= balance[w]
      BY DEF Covered
    <3>1. part = {}
      BY <1>3
    <3> QED
      BY <1>2, <1>7, <3>1
  <2>2. \A c \in Callers : ReadCovers(c)
    BY <1>2, <1>5 DEF ReadCovers
  <2> QED
    BY <1>3, <2>1, <2>2 DEF HoldsInv
<1>9. LedgerInv
  <2>1. \A c \in Callers : ChainReadCovers(c)
    BY <1>2, <1>5 DEF ChainReadCovers
  <2>2. Liability = SumFunctionOnSet(Received, {}) - SumFunctionOnSet(Amount, {})
    BY <1>6, <1>7
  <2> QED
    BY <1>4, <2>1, <2>2 DEF LedgerInv
<1>10. LimitInv
  <2>1. \A w \in Wallets : SumFunctionOnSet(Expected, Credited(w)) <= Controls[w].depositLimit
    BY <1>3, <1>7, CustodyAssumption
  <2> QED
    BY <1>2, <1>5, <2>1 DEF LimitInv, DepositLimitKept
<1> QED
  BY <1>8, <1>9, <1>10

LEMMA InitInv == Init => Inv
<1> SUFFICES ASSUME Init PROVE Inv
  OBVIOUS
<1>1. TypeOK /\ DecisionsInv
  BY InitTyped
<1>2. \A c \in Callers : callers[c].pc \notin Paying
  BY DEF Init, Idle, Paying
<1>3. paid = {} /\ \A r \in Requests : requests[r] = None
  BY DEF Init
<1>4. PaymentsInv
  BY <1>2, <1>3 DEF PaymentsInv, PayingMade, SubmitsAlone, Sound
<1> QED
  BY <1>1, <1>4, InitSums DEF Inv

LEMMA NextInv == Inv /\ [Next]_vars => Inv'
<1> SUFFICES ASSUME Inv, [Next]_vars PROVE Inv'
  OBVIOUS
<1>1. TypeOK' /\ DecisionsInv'
  BY NextTyped DEF Inv, PaymentsInv
<1>2. PaymentsInv'
  BY <1>1, NextPayments DEF Inv
<1>3. HoldsInv'
  BY <1>1, NextHolds DEF Inv
<1>4. LedgerInv'
  BY <1>1, <1>2, NextLedger DEF Inv
<1>5. LimitInv'
  BY <1>1, NextLimit DEF Inv
<1> QED
  BY <1>1, <1>2, <1>3, <1>4, <1>5 DEF Inv

LEMMA InductiveInv == Spec => []Inv
<1> QED
  BY InitInv, NextInv, PTL DEF Spec

\* The records of the ledger and the callers keep their types.
THEOREM TypeCorrect == Spec => []TypeOK
<1>1. Inv => TypeOK
  BY DEF Inv
<1> QED
  BY <1>1, InductiveInv, PTL

\* As long as a decision is in force its evidence would decide the same, for
\* every policy, and whatever is recorded afterwards.
THEOREM DecisionsLast == Spec => []EligibleLasts
<1>1. Inv => EligibleLasts
  BY DEF Inv, DecisionsInv
<1> QED
  BY <1>1, InductiveInv, PTL

\* Every payment is of a request that a quorum of operators other than its
\* owner approved and whose cooling off is over; and only a lost answer of the
\* signer lets a paid request be anything but submitting, submitted or final.
THEOREM PaymentsAreDue == Spec => []PaidIsDue
<1>1. Inv => PaidIsDue
  <2> SUFFICES ASSUME Inv, NEW r \in paid
               PROVE  /\ Cardinality(Approvals(requests[r]) \ {requests[r].wallet}) >= Quorum
                      /\ requests[r].earliest <= now
                      /\ requests[r].status \in {"submitting", "submitted", "finalized"} \/ r \in lost
    BY DEF PaidIsDue
  <2>1. Due(r) /\ Sound(requests[r])
    BY DEF Inv, PaymentsInv, TypeOK
  <2>2. Approvals(requests[r]) \ {requests[r].wallet} = Approvals(requests[r])
    BY <2>1 DEF Due, Sound
  <2> QED
    BY <2>1, <2>2 DEF Due
<1> QED
  BY <1>1, InductiveInv, PTL

\* The vault and the ledger differ by the transfers nobody was credited with and
\* the payments not debited yet, for any history of retries, races and crashes:
\* no transfer is credited twice and no payment debited twice.
THEOREM LedgerReconciles == Spec => []LedgerMatchesChain
<1>1. Inv => LedgerMatchesChain
  <2> SUFFICES ASSUME Inv PROVE LedgerMatchesChain
    OBVIOUS
  <2> DEFINE credited == SignaturesOf(AllCredited)
  <2>1. TypeOK /\ PaymentsInv /\ LedgerInv
    BY DEF Inv
  <2>2. credited \in SUBSET Signatures /\ AllDebited \in SUBSET paid /\ paid \in SUBSET Requests
    BY <2>1, CreditedSigned, DebitedWerePaid
  <2>3. SumFunctionOnSet(Received, Signatures)
          = SumFunctionOnSet(Received, credited) + SumFunctionOnSet(Received, Signatures \ credited)
    <3>1. /\ credited \cup (Signatures \ credited) = Signatures
          /\ credited \cap (Signatures \ credited) = {}
          /\ IsFiniteSet(credited) /\ IsFiniteSet(Signatures \ credited)
          /\ \A x \in credited \cup (Signatures \ credited) : Received[x] \in Int
      BY <2>1, <2>2, ReceivedTyped
    <3> QED
      BY <3>1, SumUnion
  <2>4. SumFunctionOnSet(Amount, paid)
          = SumFunctionOnSet(Amount, AllDebited) + SumFunctionOnSet(Amount, paid \ AllDebited)
    <3>1. /\ AllDebited \cup (paid \ AllDebited) = paid
          /\ AllDebited \cap (paid \ AllDebited) = {}
          /\ IsFiniteSet(AllDebited) /\ IsFiniteSet(paid \ AllDebited)
          /\ \A x \in AllDebited \cup (paid \ AllDebited) : Amount[x] \in Int
      BY <2>1, <2>2, AmountTyped
    <3> QED
      BY <3>1, SumUnion
  <2>5. ChainBalance = SumFunctionOnSet(Received, Signatures) - SumFunctionOnSet(Amount, paid)
    <3>1. DOMAIN Received = Signatures
      BY DEF Received
    <3> QED
      BY <3>1 DEF ChainBalance, SumFunction
  <2>6. Liability = SumFunctionOnSet(Received, credited) - SumFunctionOnSet(Amount, AllDebited)
    BY <2>1 DEF LedgerInv
  <2>7. /\ SumFunctionOnSet(Received, credited) \in Int
        /\ SumFunctionOnSet(Received, Signatures \ credited) \in Int
        /\ SumFunctionOnSet(Amount, AllDebited) \in Int
        /\ SumFunctionOnSet(Amount, paid \ AllDebited) \in Int
    <3>1. Signatures \ credited \in SUBSET Signatures /\ paid \ AllDebited \in SUBSET Requests
      BY <2>2
    <3> QED
      BY <2>1, <2>2, <3>1, ReceivedTyped, AmountTyped
  <2>8. Liability = ChainBalance - SumFunctionOnSet(Received, Signatures \ credited)
                                 + SumFunctionOnSet(Amount, paid \ AllDebited)
    BY <2>3, <2>4, <2>5, <2>6, <2>7
  <2> QED
    BY <2>8 DEF LedgerMatchesChain, SignaturesOf, AllDebited
<1> QED
  BY <1>1, InductiveInv, PTL

\* What is held of any wallet is covered but for what a single request overlooked:
\* for any number of wallets, callers and requests, however their queries, the
\* inserts and the debits interleave.
THEOREM NoWalletOverdrawn == Spec => []NoOverdraft
<1>1. Inv => NoOverdraft
  <2> SUFFICES ASSUME Inv, NEW w \in Wallets
               PROVE  LET held == SumFunctionOnSet(Amount, Unfinished(w))
                      IN  \/ held <= balance[w]
                          \/ \E r \in Drawn(w) : held <= balance[w]
                                + SumFunctionOnSet(Amount, requests[r].unseen \cap Drawn(w))
    BY DEF NoOverdraft
  <2>1. Covered(w, Unfinished(w))
    BY DEF Inv, HoldsInv
  <2> QED
    BY <2>1 DEF Covered, Drawn
<1> QED
  BY <1>1, InductiveInv, PTL

\* The deposit limit is kept by deposits of which every two were decided one
\* after the other was credited, for any number of them and any limit.
THEOREM DepositsWithinLimit == Spec => []DepositLimitKept
<1>1. Inv => DepositLimitKept
  BY DEF Inv, LimitInv
<1> QED
  BY <1>1, InductiveInv, PTL

\* A reconciliation that finds less on chain than the ledger owes has read the
\* chain before a deposit was credited, or finds a payment not debited yet.
LEMMA ShortfallHasCause ==
  ASSUME Inv, NEW c \in Callers, At(c, "reconcile"),
         ~(Liability <= callers[c].chain)
  PROVE  \/ \E r \in paid : requests[r].status # "finalized"
         \/ callers[c].credited # AllCredited
<1> SUFFICES ASSUME \A r \in paid : requests[r].status = "finalized",
                    callers[c].credited = AllCredited
             PROVE  FALSE
  OBVIOUS
<1>1. TypeOK /\ PaymentsInv /\ LedgerInv
  BY DEF Inv
<1>2. /\ paid \in SUBSET Requests /\ AllDebited \subseteq paid /\ paid \subseteq Existing
  BY <1>1, DebitedWerePaid
<1>3. paid \subseteq AllDebited
  <2> SUFFICES ASSUME NEW r \in paid PROVE r \in Debited(requests[r].wallet) /\ requests[r].wallet \in Wallets
    BY DEF AllDebited
  <2>1. r \in Requests /\ requests[r] # None /\ requests[r] \in Request
    BY <1>1, <1>2 DEF Existing, TypeOK
  <2> QED
    BY <2>1 DEF Debited, WithStatus, Request
<1>4. AllDebited = paid
  BY <1>2, <1>3
<1>5. SumFunctionOnSet(Received, SignaturesOf(AllCredited)) - SumFunctionOnSet(Amount, paid)
         <= callers[c].chain
  BY <1>1 DEF LedgerInv, ChainReadCovers, At
<1>6. Liability = SumFunctionOnSet(Received, SignaturesOf(AllCredited)) - SumFunctionOnSet(Amount, paid)
  BY <1>1, <1>4 DEF LedgerInv
<1> QED
  BY <1>5, <1>6

\* The vault is frozen only for one of these two causes, for any number of
\* deposits, withdrawals and reconciliations at once.
THEOREM FrozenForCause == Spec => FreezeHasCause
<1>1. ASSUME Inv, [Next]_vars, vault' # vault
      PROVE  \/ \E r \in paid : requests[r].status # "finalized"
             \/ \E c \in Callers : At(c, "reconcile") /\ callers[c].credited # AllCredited
  <2>1. PICK c \in Callers : ReconcileVault(c)
    BY ZenonT(60), <1>1
       DEF Next, CallerStep, vars, EvaluateDeposit, ReadBalance, InsertIntent, ReadHolds,
                InsertRequest, ClaimSubmission, Pay, RecordSubmission, ReadChain, Crash,
                CreditFinalizedDeposit, ApproveWithdrawal, FinalizeWithdrawal, RecordEvidence,
                Transfer, Tick
  <2>2. At(c, "reconcile") /\ callers[c].chain < Liability
    BY <1>1, <2>1 DEF ReconcileVault, Shortfall
  <2>3. callers[c].chain \in Int /\ Liability \in Int
    BY <1>1, <2>2, LiabilityTyped DEF Inv, LedgerInv, ChainReadCovers, At
  <2> QED
    BY SMTT(60), <1>1, <2>2, <2>3, ShortfallHasCause
<1>2. ASSUME Inv, [Next]_vars
      PROVE  [vault' # vault =>
                 \/ \E r \in paid : requests[r].status # "finalized"
                 \/ \E c \in Callers :
                       /\ At(c, "reconcile")
                       /\ callers[c].credited # AllCredited]_vars
  BY <1>1, <1>2
<1> QED
  BY <1>2, InductiveInv, PTL DEF Spec, FreezeHasCause
============================================================================
