------------------------------ MODULE Custody ------------------------------
(***************************************************************************)
(* The custody ledger of real-value deposits and withdrawals               *)
(* (settlement/custody-service.js) between the finalised chain, the        *)
(* eligibility decisions and the operators.  Callers run the operations    *)
(* that take several steps; one that takes effect in a single transaction  *)
(* is one action.  Nothing in src/ calls the service yet, so any operation *)
(* may be called at any time, and retried with the same key.               *)
(*                                                                         *)
(* One vault of one mint, whose profile stays as pinned; escrow sessions,  *)
(* which no operation here changes, are left out of its liabilities.       *)
(***************************************************************************)
EXTENDS Integers, Sequences, SequencesExt, FiniteSets, FiniteSetsExt, Functions, Compliance

CONSTANTS
    Wallets, Operators,   \* an operator may be the owner of a request
    Intents, Requests,    \* the idempotency keys of deposits and withdrawals
    Signatures,           \* of the transfers to the vault
    Callers,
    DepositAmounts, WithdrawalAmounts,
    Minimums,             \* the least credits that depositors accept
    Quorum, CoolingOff, IntentTtl, Controls,
    Reports,              \* the evidence that providers report: kind, status, flags
    MaxAttempts,          \* 100 in the schema of the table
    None,
    MaxTime, MaxEvidence, MaxLost,
    MaxOperations         \* that callers begin

ASSUME CustodyAssumption ==
    /\ Quorum \in 2..9 /\ CoolingOff \in Nat /\ IntentTtl \in Nat \ {0}
    /\ DepositAmounts \cup WithdrawalAmounts \cup Minimums \subseteq Nat \ {0}
    /\ MaxAttempts \in Nat /\ MaxTime \in Nat
    /\ IsFiniteSet(Wallets) /\ IsFiniteSet(Operators)
    /\ IsFiniteSet(Intents) /\ IsFiniteSet(Requests) /\ IsFiniteSet(Signatures)
    /\ \A w \in Wallets : Controls[w].depositLimit \in Nat
    /\ \A report \in Reports : report.kind \in Kinds

\* What the records hold.
Item == [kind : Kinds, status : {"pass"} \cup {report.status : report \in Reports},
         flags : SUBSET UNION {report.flags : report \in Reports},
         observedAt : Nat, expiresAt : Nat]
Decisions == [evidence : SUBSET Item, decidedAt : Nat, expiresAt : Nat]
Intent == [status : {"created", "credited"}, wallet : Wallets, expected : DepositAmounts,
           minimum : Minimums, seen : SUBSET Intents, decision : Decisions,
           expiresAt : Nat, signature : Signatures \cup {None}]
Request == [status : {"held", "approved", "submitting", "submitted", "finalized", "rejected"},
            wallet : Wallets, amount : WithdrawalAmounts, unseen : SUBSET Requests,
            decision : Decisions, attempts : Nat, earliest : Nat,
            approvals : [Operators -> {"none", "approve", "reject"}]]

ASSUME NoneAssumption == None \notin Intent /\ None \notin Request

VARIABLES
    now,
    evidence,         \* of each wallet, in the order it was recorded
    intents, requests,
    balance,          \* of each wallet: the entries of its player account
    transfers,        \* finalised on chain, to the vault
    paid,             \* finalised on chain: the withdrawals that left the vault
    vault,            \* its status
    callers,
    operations,
    lost              \* the withdrawals whose answer of the signer was lost (history)

vars == <<now, evidence, intents, requests, balance, transfers, paid, vault, callers, operations, lost>>

Idle == [pc |-> "idle"]
At(c, pc) == callers[c].pc = pc
Begin(c) == At(c, "idle") /\ operations < MaxOperations /\ operations' = operations + 1
Goto(c, state) == callers' = [callers EXCEPT ![c] = state]

----------------------------------------------------------------------------
(* What is read *)

Credited(w) ==
    {i \in Intents : intents[i] # None /\ intents[i].wallet = w /\ intents[i].status = "credited"}

AllCredited == UNION {Credited(w) : w \in Wallets}
Expected == [i \in Intents |-> IF intents[i] = None THEN 0 ELSE intents[i].expected]

\* mutant: the deposits of intents whose time is over are not counted
UsedInTime(w) == SumFunctionOnSet(Expected, {i \in Credited(w) : now < intents[i].expiresAt})
Used(w) == SumFunctionOnSet(Expected, Credited(w))

WithStatus(w, statuses) ==
    {r \in Requests : requests[r] # None /\ requests[r].wallet = w /\ requests[r].status \in statuses}
Unfinished(w) == WithStatus(w, {"held", "approved", "submitting", "submitted"})
Debited(w) == WithStatus(w, {"finalized"})
Amount == [r \in Requests |-> IF requests[r] = None THEN 0 ELSE requests[r].amount]

Drawn(w) == Unfinished(w) \cup Debited(w)

\* mutant: what is being paid is not held any more
HeldUntilSubmitted(w) == SumFunctionOnSet(Amount, WithStatus(w, {"held", "approved"}))
Held(w) == SumFunctionOnSet(Amount, Unfinished(w))

Received == [s \in Signatures |-> IF transfers[s] = None THEN 0 ELSE transfers[s].received]
ChainBalance == SumFunction(Received) - SumFunctionOnSet(Amount, paid)
Liability == SumFunction(balance)

\* evaluateEligibility
Eligible(w, product, amount) ==
    Reasons(LatestEvidence(evidence[w]), product, Controls[w], amount, Used(w), now) = {}

----------------------------------------------------------------------------
(* Deposits *)

\* createDepositIntent: the decision, the vault.
EvaluateDeposit(c, i, w, amount) ==
    /\ Begin(c) /\ Eligible(w, "deposit", amount) /\ vault = "active"
    /\ \E minimum \in {m \in Minimums : m <= amount} :
          Goto(c, [pc |-> "intent", key |-> i, wallet |-> w, expected |-> amount,
                   minimum |-> minimum, seen |-> Credited(w),
                   decision |-> Decision(LatestEvidence(evidence[w]), now)])
    /\ UNCHANGED <<now, evidence, intents, requests, balance, transfers, paid, vault, lost>>

\* createDepositIntent: the insert; a key that is there is answered, or refused.
InsertIntent(c) ==
    LET asked == callers[c]
    IN  /\ At(c, "intent")
        /\ intents' = IF intents[asked.key] # None THEN intents
                      ELSE [intents EXCEPT ![asked.key] =
                              [status |-> "created", wallet |-> asked.wallet,
                               expected |-> asked.expected, minimum |-> asked.minimum,
                               seen |-> asked.seen, decision |-> asked.decision,
                               expiresAt |-> now + IntentTtl, signature |-> None]]
        /\ Goto(c, Idle)
        /\ UNCHANGED <<now, evidence, requests, balance, transfers, paid, vault, operations, lost>>

\* A player transfers to the vault; the mint may keep a fee.
Transfer(s, w) ==
    /\ transfers[s] = None
    /\ \E sent \in DepositAmounts : \E received \in 1..sent :
          transfers' = [transfers EXCEPT ![s] =
                          [wallet |-> w, sent |-> sent, received |-> received]]
    /\ UNCHANGED <<now, evidence, intents, requests, balance, paid, vault, callers, operations, lost>>

\* validateFinalizedTransfer, of a deposit
Matches(transfer, intent) ==
    /\ transfer.wallet = intent.wallet
    /\ transfer.sent = intent.expected
    /\ transfer.received \in intent.minimum..intent.expected

\* mutant: a transfer is observed once for an intent
UnobservedByIntent(i, s) == intents[i].signature # s
\* UNIQUE (chain_id, chain_signature, instruction_index)
Unobserved(i, s) == \A j \in Intents : intents[j] # None => intents[j].signature # s

CreditFinalizedDeposit(i, s) ==
    /\ intents[i] # None /\ transfers[s] # None
    /\ Matches(transfers[s], intents[i])
    /\ intents[i].status = "created" /\ now < intents[i].expiresAt
    /\ Unobserved(i, s)
    /\ intents' = [intents EXCEPT ![i].status = "credited", ![i].signature = s]
    /\ balance' = [balance EXCEPT ![intents[i].wallet] = @ + transfers[s].received]
    /\ UNCHANGED <<now, evidence, requests, transfers, paid, vault, callers, operations, lost>>

----------------------------------------------------------------------------
(* Withdrawals *)

\* createWithdrawalRequest: the decision, the vault, the balance.
ReadBalance(c, r, w, amount) ==
    /\ Begin(c) /\ Eligible(w, "withdrawal", amount)
    /\ vault \in {"active", "deposits_paused"}
    /\ Goto(c, [pc |-> "holds", key |-> r, wallet |-> w, amount |-> amount,
                balance |-> balance[w], saw |-> Debited(w),
                decision |-> Decision(LatestEvidence(evidence[w]), now)])
    /\ UNCHANGED <<now, evidence, intents, requests, balance, transfers, paid, vault, lost>>

\* The holds, in a query of their own.
ReadHolds(c) ==
    /\ At(c, "holds")
    /\ Goto(c, IF callers[c].balance - Held(callers[c].wallet) < callers[c].amount THEN Idle
               ELSE [callers[c] EXCEPT !.pc = "request",
                                       !.saw = @ \cup Unfinished(callers[c].wallet)])
    /\ UNCHANGED <<now, evidence, intents, requests, balance, transfers, paid, vault, operations, lost>>

\* The insert; nothing is read again.  History: what neither query showed was
\* made since the second one, or finalised between the two.
InsertRequest(c) ==
    LET asked == callers[c]
    IN  /\ At(c, "request")
        /\ requests' = IF requests[asked.key] # None THEN requests
                       ELSE [requests EXCEPT ![asked.key] =
                               [status |-> "held", wallet |-> asked.wallet,
                                amount |-> asked.amount, unseen |-> Drawn(asked.wallet) \ asked.saw,
                                decision |-> asked.decision, attempts |-> 0,
                                earliest |-> now + CoolingOff,
                                approvals |-> [o \in Operators |-> "none"]]]
        /\ Goto(c, Idle)
        /\ UNCHANGED <<now, evidence, intents, balance, transfers, paid, vault, operations, lost>>

Approvals(request) == {o \in Operators : request.approvals[o] = "approve"}

\* mutant: also while it is being submitted
MayDecideLate(r, o) ==
    /\ requests[r] # None /\ requests[r].wallet # o
    /\ requests[r].status \in {"held", "approved", "submitting"}
MayDecide(r, o) ==
    /\ requests[r] # None /\ requests[r].wallet # o
    /\ requests[r].status \in {"held", "approved"}

\* approveWithdrawal: an operator decides once.
ApproveWithdrawal(r, o, decision) ==
    /\ MayDecide(r, o)
    /\ requests[r].approvals[o] \in {"none", decision}
    /\ LET decided == [requests[r] EXCEPT !.approvals[o] = decision]
       IN  requests' = [requests EXCEPT ![r] = [decided EXCEPT !.status =
              IF decision = "reject" THEN "rejected"
              ELSE IF Cardinality(Approvals(decided)) >= Quorum THEN "approved" ELSE "held"]]
    /\ UNCHANGED <<now, evidence, intents, balance, transfers, paid, vault, callers, operations, lost>>

\* submitWithdrawal: the transaction that claims the request.
ClaimSubmission(c, r) ==
    /\ Begin(c)
    /\ requests[r] # None /\ requests[r].status = "approved" /\ requests[r].earliest <= now
    /\ requests[r].attempts < MaxAttempts
    /\ requests' = [requests EXCEPT ![r].status = "submitting", ![r].attempts = @ + 1]
    /\ Goto(c, [pc |-> "pay", key |-> r])
    /\ UNCHANGED <<now, evidence, intents, balance, transfers, paid, vault, lost>>

\* submitWithdrawal: the signer, which pays a key once; its answer may be an
\* error, and the payment made nevertheless.
Pay(c) ==
    LET r == callers[c].key
    IN  /\ At(c, "pay")
        /\ \/ paid' = paid \cup {r} /\ Goto(c, [pc |-> "paid", key |-> r]) /\ UNCHANGED lost
           \/ /\ Cardinality(lost) < MaxLost
              /\ paid' = paid \cup {r} /\ lost' = lost \cup {r}
              /\ Goto(c, [pc |-> "refused", key |-> r])
           \/ Goto(c, [pc |-> "refused", key |-> r]) /\ UNCHANGED <<paid, lost>>
        /\ UNCHANGED <<now, evidence, intents, requests, balance, transfers, vault, operations>>

\* submitWithdrawal: the answer, or the error, is recorded.
RecordSubmission(c) ==
    LET r == callers[c].key
    IN  /\ At(c, "paid") \/ At(c, "refused")
        /\ requests' = IF requests[r].status # "submitting" THEN requests
                       ELSE [requests EXCEPT ![r].status =
                               IF At(c, "paid") THEN "submitted" ELSE "approved"]
        /\ Goto(c, Idle)
        /\ UNCHANGED <<now, evidence, intents, balance, transfers, paid, vault, operations, lost>>

FinalizeWithdrawal(r) ==
    /\ requests[r] # None /\ requests[r].status = "submitted" /\ r \in paid
    /\ requests' = [requests EXCEPT ![r].status = "finalized"]
    /\ balance' = [balance EXCEPT ![requests[r].wallet] = @ - requests[r].amount]
    /\ UNCHANGED <<now, evidence, intents, transfers, paid, vault, callers, operations, lost>>

----------------------------------------------------------------------------
(* Reconciliation *)

\* reconcileVault: the chain, then the ledger and the holds.
ReadChain(c) ==
    /\ Begin(c)
    /\ Goto(c, [pc |-> "reconcile", chain |-> ChainBalance,
                credited |-> AllCredited])
    /\ UNCHANGED <<now, evidence, intents, requests, balance, transfers, paid, vault, lost>>

\* mutant: the holds are owed once more
ShortfallOfHolds(chain, player, pending) == pending <= player /\ chain < player + pending
\* reconcileCustody; it throws on more holds than liabilities
Shortfall(chain, player, pending) == pending <= player /\ chain < player

ReconcileVault(c) ==
    LET pending == SumFunction([w \in Wallets |-> Held(w)])
    IN  /\ At(c, "reconcile")
        /\ vault' = IF Shortfall(callers[c].chain, Liability, pending) THEN "frozen" ELSE vault
        /\ Goto(c, Idle)
        /\ UNCHANGED <<now, evidence, intents, requests, balance, transfers, paid, operations, lost>>

----------------------------------------------------------------------------
(* Evidence, time and crashes *)

\* recordEvidence: of an observation made now or before.
RecordEvidence(w) ==
    /\ Len(evidence[w]) < MaxEvidence
    /\ \E report \in Reports, observedAt \in 0..now, expiresAt \in (now + 1)..(MaxTime + 1) :
          evidence' = [evidence EXCEPT ![w] = Append(@,
                [kind |-> report.kind, status |-> report.status, flags |-> report.flags,
                 observedAt |-> observedAt, expiresAt |-> expiresAt])]
    /\ UNCHANGED <<now, intents, requests, balance, transfers, paid, vault, callers, operations, lost>>

Tick ==
    /\ now < MaxTime /\ now' = now + 1
    /\ UNCHANGED <<evidence, intents, requests, balance, transfers, paid, vault, callers, operations, lost>>

\* A process ends between two steps: nothing resumes what it did.
Crash(c) ==
    /\ ~At(c, "idle") /\ Goto(c, Idle)
    /\ UNCHANGED <<now, evidence, intents, requests, balance, transfers, paid, vault, operations, lost>>

----------------------------------------------------------------------------

\* Every wallet was found eligible when time begins.
Init ==
    /\ now = 0
    /\ evidence = [w \in Wallets |->
          SetToSeq({[kind |-> kind, status |-> "pass", flags |-> {},
                     observedAt |-> 0, expiresAt |-> MaxTime + 1] : kind \in Kinds})]
    /\ intents = [i \in Intents |-> None]
    /\ requests = [r \in Requests |-> None]
    /\ balance = [w \in Wallets |-> 0]
    /\ transfers = [s \in Signatures |-> None]
    /\ paid = {}
    /\ vault = "active"
    /\ callers = [c \in Callers |-> Idle]
    /\ operations = 0
    /\ lost = {}

CallerStep(c) ==
    \/ \E i \in Intents, w \in Wallets, amount \in DepositAmounts :
          EvaluateDeposit(c, i, w, amount)
    \/ \E r \in Requests, w \in Wallets, amount \in WithdrawalAmounts :
          ReadBalance(c, r, w, amount)
    \/ InsertIntent(c) \/ ReadHolds(c) \/ InsertRequest(c)
    \/ \E r \in Requests : ClaimSubmission(c, r)
    \/ Pay(c) \/ RecordSubmission(c)
    \/ ReadChain(c) \/ ReconcileVault(c) \/ Crash(c)

Next ==
    \/ \E c \in Callers : CallerStep(c)
    \/ \E i \in Intents, s \in Signatures : CreditFinalizedDeposit(i, s)
    \/ \E r \in Requests, o \in Operators, decision \in {"approve", "reject"} :
          ApproveWithdrawal(r, o, decision)
    \/ \E r \in Requests : FinalizeWithdrawal(r)
    \/ \E w \in Wallets : RecordEvidence(w) \/ \E s \in Signatures : Transfer(s, w)
    \/ Tick

Spec == Init /\ [][Next]_vars

----------------------------------------------------------------------------
(* Properties *)

Asking == {"intent", "holds", "request"}
Paying == {"pay", "paid", "refused"}
CallOK(call) ==
    /\ call.pc \in Asking => call.wallet \in Wallets /\ call.decision \in Decisions
    /\ call.pc = "intent" =>
          /\ call.key \in Intents /\ call.expected \in DepositAmounts
          /\ call.minimum \in Minimums /\ call.seen \subseteq Intents
    /\ call.pc \in {"holds", "request"} =>
          /\ call.key \in Requests /\ call.amount \in WithdrawalAmounts
          /\ call.saw \subseteq Requests
    /\ call.pc = "holds" =>
          call = [pc |-> "holds", key |-> call.key, wallet |-> call.wallet,
                  amount |-> call.amount, balance |-> call.balance, saw |-> call.saw,
                  decision |-> call.decision]
    /\ call.pc \in Paying => call.key \in Requests

TypeOK ==
    /\ now \in Nat
    /\ evidence \in [Wallets -> Seq(Item)]
    /\ intents \in [Intents -> Intent \cup {None}]
    /\ requests \in [Requests -> Request \cup {None}]
    /\ balance \in [Wallets -> Int]
    /\ transfers \in [Signatures ->
           [wallet : Wallets, sent : DepositAmounts, received : Nat] \cup {None}]
    /\ paid \subseteq Requests /\ lost \subseteq Requests
    /\ vault \in {"active", "deposits_paused", "frozen"}
    /\ callers = [c \in Callers |-> callers[c]]
    /\ \A c \in Callers : CallOK(callers[c])
    /\ operations \in Nat

\* Safety: the vault and the ledger differ by the transfers that no intent was
\* credited with and the payments that were not debited yet, whatever was
\* retried, raced or crashed: nothing is credited or debited twice.
LedgerMatchesChain ==
    LET credited == {intents[i].signature : i \in AllCredited}
        debited == UNION {Debited(w) : w \in Wallets}
    IN  Liability = ChainBalance - SumFunctionOnSet(Received, Signatures \ credited)
                                 + SumFunctionOnSet(Amount, paid \ debited)

\* Safety: balance and holds are read in two queries, outside the transaction
\* that inserts the hold, and yet a wallet holds no more than it has and what a
\* single request overlooked: of requests of its wallet made between its second
\* query and its insert, or finalised between its two queries.  Overdrafts do
\* not add up, and one that overlooked nothing overdraws nothing.
NoOverdraft ==
    \A w \in Wallets :
        LET held == SumFunctionOnSet(Amount, Unfinished(w))
        IN  \/ held <= balance[w]
            \/ \E r \in Drawn(w) :
                  held <= balance[w] + SumFunctionOnSet(Amount, requests[r].unseen \cap Drawn(w))

\* Deposits that took each other into account, one way at least.
Serial(keys, Sees(_, _)) == \A x, y \in keys : x = y \/ Sees(x, y) \/ Sees(y, x)

\* Safety: what is credited stays within the deposit limit of the player -
\* unless a deposit was decided while another was not credited yet, since the
\* limit counts credited deposits alone.
DepositLimitKept ==
    \A w \in Wallets :
        Serial(Credited(w), LAMBDA x, y : y \in intents[x].seen)
            => SumFunctionOnSet(Expected, Credited(w)) <= Controls[w].depositLimit

\* Safety: a payment is of a request that a quorum of other operators approved,
\* and that nobody can reject any more - unless the signer's answer was lost,
\* for then submitWithdrawal takes the request back to approved.
PaidIsDue ==
    \A r \in paid :
        /\ Cardinality(Approvals(requests[r]) \ {requests[r].wallet}) >= Quorum
        /\ requests[r].earliest <= now
        /\ requests[r].status \in {"submitting", "submitted", "finalized"} \/ r \in lost

\* Action: the vault is frozen only on account of a payment that is not debited
\* yet, or of a deposit credited between the reads of the chain and the ledger.
FreezeHasCause ==
    [][vault' # vault =>
        \/ \E r \in paid : requests[r].status # "finalized"
        \/ \E c \in Callers :
              /\ At(c, "reconcile")
              /\ callers[c].credited # AllCredited]_vars

\* Safety: while an eligibility decision is in force the evidence it was made
\* on would decide the same: it expires with the first item to age or expire.
EligibleLasts ==
    /\ \A i \in Intents : intents[i] # None => Lasts(intents[i].decision)
    /\ \A r \in Requests : requests[r] # None => Lasts(requests[r].decision)
============================================================================
