--------------------------- MODULE Escrow_proofs ---------------------------
(***************************************************************************)
(* The escrow program, for any number of players and authorities, any      *)
(* delays, deposits, roots and deadlines: types and solvency whether or not *)
(* the ids of closed sessions are used again, payouts and refunds where    *)
(* they are not.                                                           *)
(***************************************************************************)
EXTENDS Escrow, Sums, TLAPS

USE AccountsAssumption, DelaysAssumption, InstanceAssumption

\* The type invariant needs the totals to be ordered: a release keeps
\* totalReleased under MaxU64 because it stays under totalDeposited.
Inv == TypeOK /\ VaultSolvent

LEMMA InitInv == Init => Inv
  BY DEF Init, Inv, TypeOK, VaultSolvent, Nothing, Statuses

LEMMA NextInv == Inv /\ [Next]_vars => Inv'
<1> SUFFICES ASSUME Inv, [Next]_vars PROVE Inv'
  OBVIOUS
<1> USE DEF Inv, TypeOK, VaultSolvent, Statuses, roles, totals, deadlines, records, history
<1>1. ASSUME NEW a \in Authorities, NEW deadline \in 0..MaxSlot,
             InitializeSession(a, deadline)
      PROVE Inv'
  BY <1>1 DEF InitializeSession, Nothing
<1>2. ASSUME NEW p \in Players, NEW credited \in Amounts, Deposit(p, credited)
      PROVE Inv'
  BY <1>2 DEF Deposit
<1>3. CASE LockSession
  BY <1>3 DEF LockSession
<1>4. ASSUME NEW root \in Roots, NEW opens \in 0..MaxSlot,
             CommitSettlement(root, totalDeposited, opens)
      PROVE Inv'
  BY <1>4 DEF CommitSettlement
<1>5. ASSUME NEW p \in Players, ClaimPayout(p)
      PROVE Inv'
  BY <1>5 DEF ClaimPayout, Release
<1>6. ASSUME NEW isAuthority \in BOOLEAN, BeginRefund(isAuthority)
      PROVE Inv'
  BY <1>6 DEF BeginRefund, RefundAllowed
<1>7. ASSUME NEW p \in Players, ClaimRefund(p)
      PROVE Inv'
  BY <1>7 DEF ClaimRefund, Release
<1>8. ASSUME NEW a \in Authorities, ProposeAuthority(a)
      PROVE Inv'
  BY <1>8 DEF ProposeAuthority
<1>9. CASE AcceptAuthority
  BY <1>9 DEF AcceptAuthority
<1>10. CASE CloseSession
  BY <1>10 DEF CloseSession, Nothing
<1>11. CASE Donate
  BY <1>11 DEF Donate
<1>12. CASE NextSlot
  BY <1>12 DEF NextSlot
<1>13. CASE UNCHANGED vars
  BY <1>13 DEF vars
<1> QED
  BY <1>1, <1>2, <1>3, <1>4, <1>5, <1>6, <1>7, <1>8, <1>9, <1>10, <1>11, <1>12, <1>13
     DEF Next, AuthorityStep, PlayerStep

LEMMA InductiveInv == Spec => []Inv
  BY InitInv, NextInv, PTL DEF Spec

\* The records of the program keep their types: no counter leaves u64.
THEOREM TypeCorrect == Spec => []TypeOK
  BY InductiveInv, PTL DEF Inv

\* The vault always holds what is still owed, for every root a settlement
\* authority may commit to and every order of claims.
THEOREM Solvency == Spec => []VaultSolvent
  BY InductiveInv, PTL DEF Inv

----------------------------------------------------------------------------
(* Nobody is paid twice, when the ids of closed sessions are not used again *)

\* How the records of the players follow the stage of the session.  That a
\* payout releases something is what keeps a refund from starting after one.
RecordsFollow ==
    /\ sessions = 0 => status = "None" /\ paidIn = Nothing
    /\ depositAmount = paidIn
    /\ claimed # {} => totalReleased > 0
    /\ status \in {"Open", "Locked"} =>
           /\ claimed = {}
           /\ \A p \in Players : ~refunded[p] /\ paidOut[p] = 0
    /\ status = "Settling" =>
           /\ claimed # {} => slot >= claimAfter
           /\ \A p \in Players :
                  ~refunded[p] /\ paidOut[p] = (IF p \in claimed THEN settlementRoot[p] ELSE 0)
    /\ status = "Refunding" =>
           /\ claimed = {}
           /\ \A p \in Players : paidOut[p] = (IF refunded[p] THEN paidIn[p] ELSE 0)
    /\ status = "None" =>
           /\ claimAfter = 0
           /\ sessions = 0 => claimed = {} /\ \A p \in Players : ~refunded[p] /\ paidOut[p] = 0
           /\ \A p \in Players :
                  \/ paidOut[p] = 0
                  \/ p \in claimed
                  \/ refunded[p] /\ paidOut[p] = paidIn[p]

LEMMA RecordsFollowNext ==
  ASSUME ~SessionIdReused, Inv, RecordsFollow, [Next]_vars PROVE RecordsFollow'
<1> USE DEF Inv, TypeOK, RecordsFollow, Statuses, roles, totals, deadlines, records, history
<1>1. ASSUME NEW a \in Authorities, NEW deadline \in 0..MaxSlot,
             InitializeSession(a, deadline)
      PROVE RecordsFollow'
  BY <1>1 DEF InitializeSession, Nothing
<1>2. ASSUME NEW p \in Players, NEW credited \in Amounts, Deposit(p, credited)
      PROVE RecordsFollow'
  BY <1>2 DEF Deposit
<1>3. CASE LockSession
  BY <1>3 DEF LockSession
<1>4. ASSUME NEW root \in Roots, NEW opens \in 0..MaxSlot,
             CommitSettlement(root, totalDeposited, opens)
      PROVE RecordsFollow'
  BY <1>4 DEF CommitSettlement
<1>5. ASSUME NEW p \in Players, ClaimPayout(p)
      PROVE RecordsFollow'
  BY <1>5 DEF ClaimPayout, Release
<1>6. ASSUME NEW isAuthority \in BOOLEAN, BeginRefund(isAuthority)
      PROVE RecordsFollow'
  BY <1>6 DEF BeginRefund, RefundAllowed
<1>7. ASSUME NEW p \in Players, ClaimRefund(p)
      PROVE RecordsFollow'
  BY <1>7 DEF ClaimRefund, Release
<1>8. ASSUME NEW a \in Authorities, ProposeAuthority(a)
      PROVE RecordsFollow'
  BY <1>8 DEF ProposeAuthority
<1>9. CASE AcceptAuthority
  BY <1>9 DEF AcceptAuthority
<1>10. CASE CloseSession
  BY <1>10 DEF CloseSession
<1>11. CASE Donate
  BY <1>11 DEF Donate
<1>12. CASE NextSlot
  BY <1>12 DEF NextSlot
<1>13. CASE UNCHANGED vars
  BY <1>13 DEF vars
<1> QED
  BY <1>1, <1>2, <1>3, <1>4, <1>5, <1>6, <1>7, <1>8, <1>9, <1>10, <1>11, <1>12, <1>13
     DEF Next, AuthorityStep, PlayerStep

LEMMA InductiveRecords ==
  ASSUME ~SessionIdReused PROVE Spec => []RecordsFollow
<1>1. Init => RecordsFollow
  BY DEF Init, RecordsFollow, Nothing
<1>2. Inv /\ RecordsFollow /\ [Next]_vars => RecordsFollow'
  BY RecordsFollowNext
<1> QED
  BY <1>1, <1>2, InductiveInv, PTL DEF Spec

\* A player gets its leaf once or its deposit once, never both.
THEOREM NobodyPaidTwice ==
  ASSUME ~SessionIdReused PROVE Spec => []PaidOnce
<1>1. Inv /\ RecordsFollow => PaidOnce
  BY DEF Inv, TypeOK, RecordsFollow, PaidOnce, Statuses
<1> QED
  BY <1>1, InductiveInv, InductiveRecords, PTL

----------------------------------------------------------------------------
(* Every refund can be paid, when the ids of closed sessions are not reused *)

Unrefunded == {p \in Players : ~refunded[p]}

\* The total of a session is the sum of the records of its players, and stays
\* it less what was refunded.  The second conjunct is the first one as long as
\* nothing was refunded, for a refund starts before anything was released.
DepositsInv ==
    /\ status \in {"Open", "Locked", "Settling"} =>
           totalDeposited = SumFunctionOnSet(depositAmount, Players)
    /\ status = "Refunding" =>
           totalDeposited - totalReleased = SumFunctionOnSet(depositAmount, Unrefunded)

LEMMA DepositsInvNext ==
  ASSUME ~SessionIdReused, Inv, RecordsFollow, DepositsInv, [Next]_vars PROVE DepositsInv'
<1> DEFINE Total(S) == SumFunctionOnSet(depositAmount, S)
<1>0. /\ depositAmount \in [Players -> Nat] /\ IsFiniteSet(Players) /\ IsFiniteSet(Unrefunded)
      /\ \A x \in Players : depositAmount[x] \in Int
      /\ Total(Players) \in Int
  <2>1. depositAmount \in [Players -> Nat] /\ IsFiniteSet(Unrefunded)
    BY FS_Subset DEF Inv, TypeOK, Unrefunded
  <2>2. \A x \in Players : depositAmount[x] \in Int
    BY <2>1
  <2> QED
    BY <2>1, <2>2, SumType
<1>1. ASSUME NEW a \in Authorities, NEW deadline \in 0..MaxSlot,
             InitializeSession(a, deadline)
      PROVE DepositsInv'
  <2>1. depositAmount' = Nothing /\ totalDeposited' = 0 /\ status' = "Open"
    BY <1>1 DEF InitializeSession, RecordsFollow, records
  <2>2. SumFunctionOnSet(Nothing, Players) = 0
    BY SumZero DEF Nothing
  <2> QED
    BY <2>1, <2>2 DEF DepositsInv
<1>2. ASSUME NEW p \in Players, NEW credited \in Amounts, Deposit(p, credited)
      PROVE DepositsInv'
  <2>1. /\ depositAmount' = [depositAmount EXCEPT ![p] = @ + credited]
        /\ totalDeposited' = totalDeposited + credited
        /\ status = "Open" /\ status' = "Open" /\ credited \in Int
    BY <1>2 DEF Deposit
  <2> DEFINE g == [depositAmount EXCEPT ![p] = @ + credited]
  <2>2. /\ \A x \in Players : depositAmount[x] \in Int /\ g[x] \in Int
        /\ \A x \in Players \ {p} : g[x] = depositAmount[x]
        /\ g[p] = depositAmount[p] + credited
    BY <1>0, <2>1
  <2> HIDE DEF g
  <2>3. SumFunctionOnSet(g, Players) = Total(Players) - depositAmount[p] + g[p]
    BY <2>2, SumUpdate
  <2>4. SumFunctionOnSet(g, Players) = Total(Players) + credited
    BY <1>0, <2>1, <2>2, <2>3
  <2>5. totalDeposited = Total(Players) /\ depositAmount' = g
    BY <2>1 DEF DepositsInv, g
  <2> QED
    BY <2>1, <2>4, <2>5 DEF DepositsInv
<1>3. ASSUME UNCHANGED <<depositAmount, totalDeposited, status>>, status # "Refunding"
      PROVE  DepositsInv'
  BY <1>3 DEF DepositsInv
<1>4. ASSUME UNCHANGED <<depositAmount, refunded, totals, status>> PROVE DepositsInv'
  BY <1>4 DEF DepositsInv, Unrefunded, totals
<1>5. CASE LockSession
  BY <1>5 DEF LockSession, DepositsInv, records, totals
<1>6. ASSUME NEW root \in Roots, NEW opens \in 0..MaxSlot,
             CommitSettlement(root, totalDeposited, opens)
      PROVE DepositsInv'
  BY <1>6 DEF CommitSettlement, DepositsInv, records, totals
<1>7. ASSUME NEW p \in Players, ClaimPayout(p)
      PROVE DepositsInv'
  BY <1>3, <1>7 DEF ClaimPayout
<1>8. ASSUME NEW isAuthority \in BOOLEAN, BeginRefund(isAuthority)
      PROVE DepositsInv'
  <2>1. /\ status \in {"Open", "Locked", "Settling"} /\ totalReleased = 0
        /\ status' = "Refunding"
        /\ UNCHANGED <<depositAmount, refunded, totalDeposited, totalReleased>>
    BY <1>8 DEF BeginRefund, RefundAllowed, records, totals
  <2>2. Unrefunded' = Players
    BY <2>1 DEF RecordsFollow, Unrefunded
  <2>3. totalDeposited' - totalReleased' = Total(Players)
    BY <1>0, <2>1 DEF DepositsInv
  <2> QED
    BY <2>1, <2>2, <2>3 DEF DepositsInv
<1>9. ASSUME NEW p \in Players, ClaimRefund(p)
      PROVE DepositsInv'
  <2>1. /\ status = "Refunding" /\ status' = "Refunding" /\ ~refunded[p]
        /\ totalReleased' = totalReleased + depositAmount[p]
        /\ refunded' = [refunded EXCEPT ![p] = TRUE]
        /\ UNCHANGED <<depositAmount, totalDeposited>>
    BY <1>9 DEF ClaimRefund, Release
  <2>2. p \in Unrefunded /\ Unrefunded' = Unrefunded \ {p}
    BY <2>1 DEF Inv, TypeOK, Unrefunded
  <2>3. /\ Total(Unrefunded) = depositAmount[p] + Total(Unrefunded \ {p})
        /\ Total(Unrefunded \ {p}) \in Int
    <3>1. IsFiniteSet(Unrefunded \ {p}) /\ \A x \in Unrefunded : depositAmount[x] \in Int
      BY <1>0, FS_Subset DEF Unrefunded
    <3> QED
      BY <1>0, <2>2, <3>1, SumRemove, SumType
  <2>4. /\ totalDeposited \in Int /\ totalReleased \in Int /\ depositAmount[p] \in Int
        /\ totalDeposited - totalReleased = Total(Unrefunded)
    BY <1>0, <2>1 DEF DepositsInv, Inv, TypeOK
  <2>5. totalDeposited - (totalReleased + depositAmount[p]) = Total(Unrefunded \ {p})
    <3> HIDE DEF Total
    <3> QED
      BY <2>3, <2>4
  <2> QED
    BY <2>1, <2>2, <2>5 DEF DepositsInv
<1>10. CASE CloseSession
  BY <1>10 DEF CloseSession, DepositsInv
<1>11. ASSUME NEW a \in Authorities, ProposeAuthority(a)
       PROVE DepositsInv'
  BY <1>4, <1>11 DEF ProposeAuthority, records
<1>12. CASE AcceptAuthority \/ Donate \/ NextSlot
  BY <1>4, <1>12 DEF AcceptAuthority, Donate, NextSlot, records
<1>13. CASE UNCHANGED vars
  BY <1>4, <1>13 DEF vars, records
<1> QED
  BY <1>1, <1>2, <1>5, <1>6, <1>7, <1>8, <1>9, <1>10, <1>11, <1>12, <1>13
     DEF Next, AuthorityStep, PlayerStep

\* While a session refunds, the vault owes exactly the deposits not returned:
\* no refund is ever refused by the totals, and the last one lets it close.
THEOREM RefundsAreCovered ==
  ASSUME ~SessionIdReused PROVE Spec => []RefundsCover
<1>1. Init => DepositsInv
  BY DEF Init, DepositsInv
<1>2. Inv /\ RecordsFollow /\ DepositsInv /\ [Next]_vars => DepositsInv'
  BY DepositsInvNext
<1>3. RecordsFollow /\ DepositsInv => RefundsCover
  BY DEF RecordsFollow, DepositsInv, RefundsCover, Unrefunded
<1> QED
  BY <1>1, <1>2, <1>3, InductiveInv, InductiveRecords, PTL DEF Spec
============================================================================
