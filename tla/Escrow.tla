------------------------------- MODULE Escrow -------------------------------
(***************************************************************************)
(* The Token-2022 escrow program of                                        *)
(* settlement/programs/xpoker_escrow/src/lib.rs: one session, its vault,   *)
(* and the deposit and claim records of its players.  Instructions are     *)
(* executed one at a time by the chain; any of them may be submitted by    *)
(* anybody at any slot.                                                    *)
(*                                                                         *)
(* A settlement root is modelled by the leaves it commits to, an amount    *)
(* for every payee (0 for no leaf); a Merkle proof is the knowledge of     *)
(* one's leaf.  The program never sees the sum of the leaves.              *)
(***************************************************************************)
EXTENDS Integers, FiniteSets, Functions

CONSTANTS
    Players,            \* those who deposit or are paid, the rake account included
    Authorities,
    NoAuthority,        \* Pubkey::default()
    MinClaimDelay, MaxClaimDelay, MaxRefundDelay,
    MaxU64,
    SessionIdReused,    \* whether the id of a closed session is used again
    Amounts,            \* bound on one deposit
    Roots,              \* bound on the settlement roots
    MaxDonation,        \* bound on the direct transfers to the vault
    MaxSlot             \* bound on the clock and on the deadlines

ASSUME AccountsAssumption == IsFiniteSet(Players) /\ NoAuthority \notin Authorities
ASSUME DelaysAssumption ==
    /\ MinClaimDelay \in Nat \ {0}
    /\ MaxClaimDelay \in Nat
    /\ MaxRefundDelay \in Nat
    /\ MaxU64 \in Nat
ASSUME InstanceAssumption ==
    /\ SessionIdReused \in BOOLEAN
    /\ Amounts \subseteq Nat \ {0}
    /\ Roots \subseteq [Players -> Nat]
    /\ MaxDonation \in Nat
    /\ MaxSlot \in Nat

VARIABLES
    slot,
    status,
    authority, pendingAuthority,
    settlementRoot,
    totalDeposited, totalReleased,
    refundAfter, claimAfter,
    vault,          \* the balance of the vault
    depositAmount,  \* the deposit record of each player, 0 where there is none
    refunded,       \* its flag
    claimed,        \* the players with a claim record
    paidIn,         \* what each player deposited in the session in progress (history)
    paidOut,        \* what each player received from it (history)
    sessions        \* sessions opened so far (history)

records == <<depositAmount, refunded, claimed>>
totals == <<totalDeposited, totalReleased>>
deadlines == <<refundAfter, claimAfter>>
roles == <<authority, pendingAuthority>>
history == <<paidIn, paidOut, sessions>>
vars == <<slot, status, roles, settlementRoot, totals, deadlines, vault, records, history>>

\* The session account is there from initialize_session to close_session.
Statuses == {"None", "Open", "Locked", "Settling", "Refunding"}
Nothing == [p \in Players |-> 0]

----------------------------------------------------------------------------
(* The instructions *)

InitializeSession(a, deadline) ==
    /\ status = "None"
    /\ sessions = 0 \/ SessionIdReused
    /\ deadline > slot /\ deadline - slot <= MaxRefundDelay
    /\ status' = "Open"
    /\ authority' = a
    /\ pendingAuthority' = NoAuthority
    /\ settlementRoot' = Nothing
    /\ totalDeposited' = 0 /\ totalReleased' = 0
    /\ refundAfter' = deadline /\ claimAfter' = 0
    /\ vault' = 0
    /\ paidIn' = Nothing /\ paidOut' = Nothing
    /\ sessions' = sessions + 1
    /\ UNCHANGED <<slot, records>>

\* mutant: a second deposit replaces the record of the first
DepositReplaced(p, credited) ==
    /\ status = "Open"
    /\ slot < refundAfter
    /\ totalDeposited + credited <= MaxU64
    /\ vault' = vault + credited
    /\ depositAmount' = [depositAmount EXCEPT ![p] = credited]
    /\ totalDeposited' = totalDeposited + credited
    /\ paidIn' = [paidIn EXCEPT ![p] = @ + credited]
    /\ UNCHANGED <<slot, status, roles, settlementRoot, totalReleased, deadlines,
                   refunded, claimed, paidOut, sessions>>
\* What is credited is what the vault received: a token may take a fee.
Deposit(p, credited) ==
    /\ status = "Open"
    /\ slot < refundAfter
    /\ depositAmount[p] + credited <= MaxU64
    /\ totalDeposited + credited <= MaxU64
    /\ vault' = vault + credited
    /\ depositAmount' = [depositAmount EXCEPT ![p] = @ + credited]
    /\ totalDeposited' = totalDeposited + credited
    /\ paidIn' = [paidIn EXCEPT ![p] = @ + credited]
    /\ UNCHANGED <<slot, status, roles, settlementRoot, totalReleased, deadlines,
                   refunded, claimed, paidOut, sessions>>

LockSession ==
    /\ status = "Open"
    /\ slot < refundAfter
    /\ totalDeposited > 0
    /\ status' = "Locked"
    /\ UNCHANGED <<slot, roles, settlementRoot, totals, deadlines, vault, records, history>>

CommitSettlement(root, totalPayout, opens) ==
    /\ status = "Locked"
    /\ totalPayout = totalDeposited
    /\ slot < refundAfter
    /\ opens - slot \in MinClaimDelay..MaxClaimDelay
    /\ status' = "Settling"
    /\ settlementRoot' = root
    /\ claimAfter' = opens
    /\ UNCHANGED <<slot, roles, totals, refundAfter, vault, records, history>>

\* mutant: the total is not checked, the root is trusted to conserve
ReleaseUnchecked(p, amount) ==
    /\ amount <= vault
    /\ totalReleased' = totalReleased + amount
    /\ vault' = vault - amount
    /\ paidOut' = [paidOut EXCEPT ![p] = @ + amount]
\* The end of claim_payout and claim_refund: the total, then the transfer.
Release(p, amount) ==
    /\ totalReleased + amount <= totalDeposited
    /\ amount <= vault
    /\ totalReleased' = totalReleased + amount
    /\ vault' = vault - amount
    /\ paidOut' = [paidOut EXCEPT ![p] = @ + amount]

ClaimPayout(p) ==
    /\ status = "Settling"
    /\ settlementRoot[p] > 0
    /\ slot >= claimAfter
    /\ p \notin claimed
    /\ Release(p, settlementRoot[p])
    /\ claimed' = claimed \cup {p}
    /\ UNCHANGED <<slot, status, roles, settlementRoot, totalDeposited, deadlines,
                   depositAmount, refunded, paidIn, sessions>>

\* mutant: the deadline only counts while the session is open
RefundAllowedOnlyOpen(isAuthority) ==
    \/ status = "Open" /\ (isAuthority \/ slot >= refundAfter)
    \/ status = "Locked" /\ isAuthority
    \/ status = "Settling" /\ isAuthority /\ slot < claimAfter
RefundAllowed(isAuthority) ==
    \/ status \in {"Open", "Locked"} /\ (isAuthority \/ slot >= refundAfter)
    \/ status = "Settling" /\ isAuthority /\ slot < claimAfter

\* The caller is the authority, or anybody.
BeginRefund(isAuthority) ==
    /\ RefundAllowed(isAuthority)
    /\ totalReleased = 0
    /\ status' = "Refunding"
    /\ UNCHANGED <<slot, roles, settlementRoot, totals, deadlines, vault, records, history>>

\* mutant: the record is not marked
ClaimRefundUnmarked(p) ==
    /\ status = "Refunding"
    /\ ~refunded[p]
    /\ depositAmount[p] > 0
    /\ Release(p, depositAmount[p])
    /\ UNCHANGED <<slot, status, roles, settlementRoot, totalDeposited, deadlines,
                   records, paidIn, sessions>>
ClaimRefund(p) ==
    /\ status = "Refunding"
    /\ ~refunded[p]
    /\ depositAmount[p] > 0
    /\ Release(p, depositAmount[p])
    /\ refunded' = [refunded EXCEPT ![p] = TRUE]
    /\ UNCHANGED <<slot, status, roles, settlementRoot, totalDeposited, deadlines,
                   depositAmount, claimed, paidIn, sessions>>

ProposeAuthority(a) ==
    /\ status = "Open"
    /\ a # authority
    /\ pendingAuthority' = a
    /\ UNCHANGED <<slot, status, authority, settlementRoot, totals, deadlines, vault,
                   records, history>>

AcceptAuthority ==
    /\ status = "Open"
    /\ pendingAuthority \in Authorities
    /\ authority' = pendingAuthority
    /\ pendingAuthority' = NoAuthority
    /\ UNCHANGED <<slot, status, settlementRoot, totals, deadlines, vault, records, history>>

\* The session and the vault are closed, the records of the players stay.  The
\* fields of a closed account are nobody's: they are reset for readability.
CloseSession ==
    /\ status \in {"Settling", "Refunding"}
    /\ totalReleased = totalDeposited
    /\ status' = "None"
    /\ authority' = NoAuthority /\ pendingAuthority' = NoAuthority
    /\ settlementRoot' = Nothing
    /\ refundAfter' = 0 /\ claimAfter' = 0
    /\ vault' = 0     \* a surplus goes to the authority
    /\ UNCHANGED <<slot, totals, records, history>>

\* Anybody may transfer tokens to the vault without the program.
Donate ==
    /\ status # "None"
    /\ vault < totalDeposited - totalReleased + MaxDonation
    /\ vault' = vault + 1
    /\ UNCHANGED <<slot, status, roles, settlementRoot, totals, deadlines, records, history>>

NextSlot ==
    /\ slot < MaxSlot
    /\ slot' = slot + 1
    /\ UNCHANGED <<status, roles, settlementRoot, totals, deadlines, vault, records, history>>

----------------------------------------------------------------------------

Init ==
    /\ slot = 0
    /\ status = "None"
    /\ authority = NoAuthority /\ pendingAuthority = NoAuthority
    /\ settlementRoot = Nothing
    /\ totalDeposited = 0 /\ totalReleased = 0
    /\ refundAfter = 0 /\ claimAfter = 0
    /\ vault = 0
    /\ depositAmount = Nothing
    /\ refunded = [p \in Players |-> FALSE]
    /\ claimed = {}
    /\ paidIn = Nothing /\ paidOut = Nothing
    /\ sessions = 0

AuthorityStep ==
    \/ LockSession
    \/ \E root \in Roots, opens \in 0..MaxSlot : CommitSettlement(root, totalDeposited, opens)
    \/ BeginRefund(TRUE)
    \/ \E a \in Authorities : ProposeAuthority(a)
    \/ AcceptAuthority
    \/ CloseSession

PlayerStep ==
    \/ \E p \in Players, credited \in Amounts : Deposit(p, credited)
    \/ BeginRefund(FALSE)
    \/ \E p \in Players : ClaimPayout(p) \/ ClaimRefund(p)

Next ==
    \/ \E a \in Authorities, deadline \in 0..MaxSlot : InitializeSession(a, deadline)
    \/ AuthorityStep
    \/ PlayerStep
    \/ Donate
    \/ NextSlot

Spec == Init /\ [][Next]_vars

\* The chain makes slots, a player asks for the refund once the deadline has
\* passed, and claims what is due to it; nothing is expected of the authority.
Fairness ==
    /\ WF_vars(NextSlot)
    /\ WF_vars(BeginRefund(FALSE))
    /\ \A p \in Players : WF_vars(ClaimPayout(p)) /\ WF_vars(ClaimRefund(p))
FairSpec == Spec /\ Fairness

----------------------------------------------------------------------------
(* Properties *)

TypeOK ==
    /\ slot \in Nat
    /\ status \in Statuses
    /\ authority \in Authorities \cup {NoAuthority}
    /\ pendingAuthority \in Authorities \cup {NoAuthority}
    /\ settlementRoot \in [Players -> Nat]
    /\ totalDeposited \in 0..MaxU64 /\ totalReleased \in 0..MaxU64
    /\ refundAfter \in Nat /\ claimAfter \in Nat
    /\ vault \in Nat
    /\ depositAmount \in [Players -> 0..MaxU64]
    /\ refunded \in [Players -> BOOLEAN]
    /\ claimed \subseteq Players
    /\ paidIn \in [Players -> Nat]
    /\ paidOut \in [Players -> Nat]
    /\ sessions \in Nat

\* Whatever root is committed, and in whatever order the players come, the
\* vault holds what is still owed: it never releases more than was deposited.
VaultSolvent ==
    /\ totalReleased <= totalDeposited
    /\ status # "None" => vault >= totalDeposited - totalReleased

\* A player gets out of a session either nothing yet, or its leaf once, or its
\* own deposit once: never both, and never anything before the claims open.
PaidOnce ==
    \A p \in Players :
        \/ paidOut[p] = 0
        \/ /\ status \in {"Settling", "None"}
           /\ p \in claimed /\ slot >= claimAfter
           /\ status = "Settling" => paidOut[p] = settlementRoot[p]
        \/ /\ status \in {"Refunding", "None"}
           /\ refunded[p]
           /\ paidOut[p] = paidIn[p]

\* While a session is refunding, the deposits not yet returned are exactly what
\* the vault owes: no refund can fail, and the last one lets the session close.
RefundsCover ==
    status = "Refunding" =>
        /\ totalDeposited - totalReleased =
               SumFunctionOnSet(depositAmount, {p \in Players : ~refunded[p]})
        /\ \A p \in Players : paidOut[p] = (IF refunded[p] THEN paidIn[p] ELSE 0)

\* Whatever the authority does, a player that asks gets its deposit back or,
\* from a root that conserves, its payout: "no unbounded authority lock".
MoneyComesOut ==
    \A p \in Players :
        paidIn[p] > 0 ~>
            \/ paidOut[p] = paidIn[p]
            \/ /\ status = "Settling"
               /\ \/ paidOut[p] = settlementRoot[p]
                  \/ SumFunction(settlementRoot) # totalDeposited
            \/ status = "None"
============================================================================
