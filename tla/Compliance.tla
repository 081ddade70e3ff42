----------------------------- MODULE Compliance -----------------------------
(***************************************************************************)
(* Real-value eligibility: compliance/policy.js decides from the latest    *)
(* evidence of every kind, and compliance/service.js keeps the decision.   *)
(* The attributes of an item (age, country, sanctions, ...) matter by the  *)
(* reasons for which they would deny, its flags.                           *)
(***************************************************************************)
EXTENDS Integers, Sequences, FiniteSets, FiniteSetsExt

CONSTANTS
    Kinds,            \* the kinds of evidence a decision requires
    MaxAge,           \* of an item of each kind: the policy's, or the cap of the kind
    DecisionTtl

ASSUME ComplianceAssumption ==
    IsFiniteSet(Kinds) /\ MaxAge \in [Kinds -> Nat \ {0}] /\ DecisionTtl \in Nat \ {0}

\* Of the items in the order they were recorded, the latest observed of each kind.
LatestEvidence(items) ==
    LET Supersedes(j, i) == /\ items[j].kind = items[i].kind
                            /\ \/ items[j].observedAt > items[i].observedAt
                               \/ items[j].observedAt = items[i].observedAt /\ j > i
    IN  {items[i] : i \in {k \in DOMAIN items : ~\E j \in DOMAIN items : Supersedes(j, k)}}

ActiveEvidence(item, now) ==
    /\ item.status = "pass"
    /\ item.observedAt <= now /\ now < item.expiresAt
    /\ now - item.observedAt < MaxAge[item.kind]

EffectiveEvidenceExpiry(item) == Min({item.expiresAt, item.observedAt + MaxAge[item.kind]})

\* The reasons of the evidence to deny at a time.
EvidenceReasons(latest, now) ==
    {<<kind, "missing">> : kind \in Kinds \ {item.kind : item \in latest}}
    \cup {<<item.kind, "not active">> : item \in {x \in latest : ~ActiveEvidence(x, now)}}
    \cup UNION {item.flags : item \in latest}

\* evaluateCompliance.  A player's own exclusion and limit concern what goes in.
Reasons(latest, product, controls, amount, used, now) ==
    EvidenceReasons(latest, now)
    \cup (IF product = "deposit" /\ controls.selfExcludedUntil > now
          THEN {<<"player", "self excluded">>} ELSE {})
    \cup (IF product = "deposit" /\ used + amount > controls.depositLimit
          THEN {<<"player", "deposit limit">>} ELSE {})

\* mutant: the maximum age of the evidence is forgotten
DecisionExpiryUncapped(latest, now) ==
    Min({now + DecisionTtl} \cup {item.expiresAt : item \in {x \in latest : ActiveEvidence(x, now)}})
DecisionExpiry(latest, now) ==
    Min({now + DecisionTtl}
        \cup {EffectiveEvidenceExpiry(item) : item \in {x \in latest : ActiveEvidence(x, now)}})

\* The decision kept for an eligible wallet.
Decision(latest, now) ==
    [evidence |-> latest, decidedAt |-> now, expiresAt |-> DecisionExpiry(latest, now)]

\* While a decision is in force its evidence would not deny.
Lasts(decision) ==
    \A t \in decision.decidedAt..(decision.expiresAt - 1) :
        EvidenceReasons(decision.evidence, t) = {}
============================================================================
