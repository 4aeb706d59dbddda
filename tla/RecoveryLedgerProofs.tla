------------------------ MODULE RecoveryLedgerProofs ------------------------
(***************************************************************************)
(* The recovery ledger, for every finite set of replicas, every set of     *)
(* amounts, every cap and every allocation of it.                          *)
(*                                                                         *)
(* Escrow is signed: its total is that of what is available minus that of  *)
(* what is owed, and a call that moves one replica's escrow, across zero   *)
(* or not, moves that difference by the same amount (UpdateEscrow).  With  *)
(* guarded reclaims, authority in circulation and stranded authority then  *)
(* add up to the cap at every moment.                                      *)
(***************************************************************************)
EXTENDS RecoveryLedger, SumsProofs

\* Reclaims bring back no more than was stranded.
Guarded == FALSE \notin SafeFlags

\* Charges stay within the escrow.
Strict == TRUE \notin OverspendFlags

-----------------------------------------------------------------------------
(* Type correctness.                                                       *)

LEMMA InitTypeOK == Init => TypeOK
  BY ConstantsOK DEF Init, TypeOK

\* Every step keeps the types.
LEMMA NextTypeOK == TypeOK /\ [Next]_vars => TypeOK'
<1> SUFFICES ASSUME TypeOK, [Next]_vars PROVE TypeOK'
  OBVIOUS
<1> USE ConstantsOK DEF TypeOK
<1>1. ASSUME NEW r \in Replicas, NEW amount \in Amounts, NEW overspend \in OverspendFlags,
             Charge(r, amount, overspend)
      PROVE  TypeOK'
  BY <1>1 DEF Charge
<1>2. ASSUME NEW r \in Replicas, NEW amount \in Amounts, Lose(r, amount)
      PROVE  TypeOK'
  BY <1>2 DEF Lose, Strand
<1>3. ASSUME NEW r \in Replicas, NEW amount \in Amounts, NEW safe \in SafeFlags,
             Reclaim(r, amount, safe)
      PROVE  TypeOK'
  <2>1. amount \in Nat /\ safe \in BOOLEAN
    OBVIOUS
  <2>2. escrow' \in [Replicas -> Int] /\ spent' \in [Replicas -> Nat]
    BY <1>3, <2>1 DEF Reclaim
  <2>3. stranded' \in Nat
    BY <1>3, <2>1 DEF Reclaim, WasStranded
  <2> QED
    BY <2>2, <2>3
<1>4. CASE UNCHANGED vars
  BY <1>4 DEF vars
<1> QED
  BY <1>1, <1>2, <1>3, <1>4 DEF Next

\* Type correctness in every configuration: whichever flags the callers pass,
\* spent and stranded authority never go below zero.
THEOREM TypeCorrect == Spec => []TypeOK
  BY InitTypeOK, NextTypeOK, PTL DEF Spec

-----------------------------------------------------------------------------
(* The totals.                                                             *)

\* The totals are totals of natural numbers, and the signed one an integer.
LEMMA TotalsType ==
  ASSUME TypeOK
  PROVE  /\ NatOn(Available, Replicas) /\ NatOn(Overdraft, Replicas)
         /\ SumOver(Available, Replicas) \in Nat /\ SumOver(Overdraft, Replicas) \in Nat
         /\ NatOn(spent, Replicas) /\ TotalSpent \in Nat
         /\ TotalEscrow \in Int
<1>1. /\ NatOn(Available, Replicas) /\ NatOn(Overdraft, Replicas)
      /\ NatOn(spent, Replicas)
  BY DEF TypeOK, NatOn, Available, Overdraft
<1>2. /\ SumOver(Available, Replicas) \in Nat /\ SumOver(Overdraft, Replicas) \in Nat
      /\ TotalSpent \in Nat
  BY <1>1, SumType, ConstantsOK DEF TotalSpent
<1> QED
  BY <1>1, <1>2 DEF TotalEscrow

\* The same of the totals after a step.
LEMMA NextTotalsType ==
  ASSUME TypeOK'
  PROVE  /\ SumOver(Available', Replicas) \in Nat /\ SumOver(Overdraft', Replicas) \in Nat
         /\ TotalSpent' \in Nat /\ TotalEscrow' \in Int
<1>1. /\ NatOn(Available', Replicas) /\ NatOn(Overdraft', Replicas)
      /\ NatOn(spent', Replicas)
  BY DEF TypeOK, NatOn, Available, Overdraft
<1>2. /\ SumOver(Available', Replicas) \in Nat /\ SumOver(Overdraft', Replicas) \in Nat
      /\ SumOver(spent', Replicas) \in Nat
  BY <1>1, SumType, ConstantsOK
<1> QED
  BY <1>2 DEF TotalSpent, TotalEscrow

\* The signed total of escrow follows the escrow of the one replica that
\* changes, below zero and across it.
LEMMA UpdateEscrow ==
  ASSUME TypeOK, TypeOK', NEW r \in Replicas,
         \A s \in Replicas \ {r} : escrow'[s] = escrow[s]
  PROVE  TotalEscrow' = TotalEscrow - escrow[r] + escrow'[r]
<1>1. IsFiniteSet(Replicas)
  BY ConstantsOK
<1>2. /\ NatOn(Available, Replicas) /\ NatOn(Overdraft, Replicas)
      /\ NatOn(Available', Replicas) /\ NatOn(Overdraft', Replicas)
  BY DEF TypeOK, NatOn, Available, Overdraft
<1>3. \A s \in Replicas \ {r} : Available'[s] = Available[s] /\ Overdraft'[s] = Overdraft[s]
  BY DEF Available, Overdraft
<1>4. SumOver(Available', Replicas) = SumOver(Available, Replicas) - Available[r] + Available'[r]
  BY <1>1, <1>2, <1>3, SumUpdate
<1>5. SumOver(Overdraft', Replicas) = SumOver(Overdraft, Replicas) - Overdraft[r] + Overdraft'[r]
  BY <1>1, <1>2, <1>3, SumUpdate
<1>6. Available[r] - Overdraft[r] = escrow[r] /\ Available'[r] - Overdraft'[r] = escrow'[r]
  BY DEF TypeOK, Available, Overdraft
<1>7. /\ SumOver(Available, Replicas) \in Nat /\ SumOver(Overdraft, Replicas) \in Nat
      /\ Available[r] \in Nat /\ Available'[r] \in Nat
      /\ Overdraft[r] \in Nat /\ Overdraft'[r] \in Nat
      /\ escrow[r] \in Int /\ escrow'[r] \in Int
  BY <1>2, TotalsType DEF NatOn, TypeOK
<1> QED
  BY <1>4, <1>5, <1>6, <1>7 DEF TotalEscrow

\* The total spent follows the spent of the one replica that changes.
LEMMA UpdateSpent ==
  ASSUME TypeOK, TypeOK', NEW r \in Replicas,
         \A s \in Replicas \ {r} : spent'[s] = spent[s]
  PROVE  TotalSpent' = TotalSpent - spent[r] + spent'[r]
<1>1. NatOn(spent, Replicas) /\ NatOn(spent', Replicas)
  BY DEF TypeOK, NatOn
<1> QED
  BY <1>1, SumUpdate, ConstantsOK DEF TotalSpent

\* Genesis: the whole cap circulates.
LEMMA InitAccounted == Init => AuthorityAccounted
<1> SUFFICES ASSUME Init PROVE AuthorityAccounted
  OBVIOUS
<1>1. \A r \in Replicas : spent[r] = 0
  BY DEF Init
<1>2. \A r \in Replicas : Overdraft[r] = 0 /\ Available[r] = InitEscrow[r]
  BY ConstantsOK DEF Init, Overdraft, Available
<1>3. TotalSpent = 0 /\ SumOver(Overdraft, Replicas) = 0
  BY <1>1, <1>2, SumZero DEF TotalSpent
<1>4. SumOver(Available, Replicas) = CAP
  BY <1>2, SumAgree, ConstantsOK
<1> QED
  BY <1>3, <1>4, ConstantsOK DEF Init, AuthorityAccounted, SignedA, TotalEscrow

\* A charge moves authority within circulation, a loss out of it, and a
\* guarded reclaim back into it.
LEMMA AccountedStep ==
  ASSUME Guarded, TypeOK, [Next]_vars
  PROVE  SignedA' + stranded' = SignedA + stranded
<1>0. TypeOK' /\ Amounts \subseteq Nat /\ stranded \in Nat
      /\ TotalSpent \in Nat /\ TotalEscrow \in Int
      /\ escrow \in [Replicas -> Int] /\ spent \in [Replicas -> Nat]
  BY NextTypeOK, ConstantsOK, TotalsType DEF TypeOK
<1>1. ASSUME NEW r \in Replicas, NEW amount \in Amounts, NEW overspend \in OverspendFlags,
             Charge(r, amount, overspend)
      PROVE  SignedA' + stranded' = SignedA + stranded
  <2>1. /\ amount \in Nat /\ escrow[r] \in Int /\ spent[r] \in Nat
        /\ escrow'[r] = escrow[r] - amount /\ spent'[r] = spent[r] + amount
        /\ \A s \in Replicas \ {r} : escrow'[s] = escrow[s] /\ spent'[s] = spent[s]
        /\ stranded' = stranded
    BY <1>0, <1>1 DEF Charge
  <2>2. TotalEscrow' = TotalEscrow - escrow[r] + (escrow[r] - amount)
    BY <1>0, <2>1, UpdateEscrow
  <2>3. TotalSpent' = TotalSpent - spent[r] + (spent[r] + amount)
    BY <1>0, <2>1, UpdateSpent
  <2> QED
    BY <1>0, <2>1, <2>2, <2>3 DEF SignedA
<1>2. ASSUME NEW r \in Replicas, NEW amount \in Amounts, Lose(r, amount)
      PROVE  SignedA' + stranded' = SignedA + stranded
  <2>1. /\ amount \in Nat /\ escrow[r] \in Int
        /\ escrow'[r] = escrow[r] - amount
        /\ \A s \in Replicas \ {r} : escrow'[s] = escrow[s]
        /\ stranded' = stranded + amount /\ spent' = spent
    BY <1>0, <1>2 DEF Lose, Strand
  <2>2. TotalEscrow' = TotalEscrow - escrow[r] + (escrow[r] - amount)
    BY <1>0, <2>1, UpdateEscrow
  <2>3. TotalSpent' = TotalSpent
    BY <2>1 DEF TotalSpent
  <2> QED
    BY <1>0, <2>1, <2>2, <2>3 DEF SignedA
<1>3. ASSUME NEW r \in Replicas, NEW amount \in Amounts, NEW safe \in SafeFlags,
             Reclaim(r, amount, safe)
      PROVE  SignedA' + stranded' = SignedA + stranded
  <2>1. safe = TRUE
    BY ConstantsOK DEF Guarded
  <2>2. /\ amount \in Nat /\ escrow[r] \in Int
        /\ escrow'[r] = escrow[r] + amount
        /\ \A s \in Replicas \ {r} : escrow'[s] = escrow[s]
        /\ stranded' = stranded - amount /\ spent' = spent
    BY <1>0, <1>3, <2>1 DEF Reclaim
  <2>3. TotalEscrow' = TotalEscrow - escrow[r] + (escrow[r] + amount)
    BY <1>0, <2>2, UpdateEscrow
  <2>4. TotalSpent' = TotalSpent
    BY <2>2 DEF TotalSpent
  <2> QED
    BY <1>0, <2>2, <2>3, <2>4 DEF SignedA
<1>4. CASE UNCHANGED vars
  BY <1>4 DEF vars, SignedA, TotalSpent, TotalEscrow, Available, Overdraft
<1> QED
  BY <1>1, <1>2, <1>3, <1>4 DEF Next

\* With guarded reclaims, authority in circulation and stranded authority are
\* together the cap, whatever was overspent, lost and reclaimed.
THEOREM NothingMinted == ASSUME Guarded PROVE Spec => []AuthorityAccounted
<1>1. TypeOK /\ AuthorityAccounted /\ [Next]_vars => AuthorityAccounted'
  BY AccountedStep DEF AuthorityAccounted
<1> QED
  BY <1>1, InitAccounted, TypeCorrect, PTL DEF Spec

\* The lemma behind WF: where no replica owes, the authority accounted for
\* bounds what was spent.
LEMMA SolvencyBounds == ASSUME TypeOK, AuthorityAccounted PROVE SolventIsSafe
<1> SUFFICES ASSUME WF PROVE Safety
  BY DEF SolventIsSafe
<1>1. \A r \in Replicas : Overdraft[r] = 0
  BY DEF WF, TypeOK, Overdraft
<1>2. SumOver(Overdraft, Replicas) = 0
  BY <1>1, SumZero
<1>3. SumOver(Available, Replicas) \in Nat /\ TotalSpent \in Nat /\ stranded \in Nat
      /\ CAP \in Nat
  BY TotalsType, ConstantsOK DEF TypeOK
<1> QED
  BY <1>2, <1>3 DEF AuthorityAccounted, SignedA, TotalEscrow, Safety

\* A ledger that overdrew is within the cap again as soon as no replica owes.
THEOREM SolventLedgerSafe == ASSUME Guarded PROVE Spec => []SolventIsSafe
<1>1. TypeOK /\ AuthorityAccounted => SolventIsSafe
  BY SolvencyBounds
<1> QED
  BY <1>1, TypeCorrect, NothingMinted, PTL

\* Callers that neither overspend nor reclaim without the guard never leave
\* the cap: WF is kept, and with it safety, through every loss and recovery.
THEOREM StrictLedgerSafe == ASSUME Guarded, Strict PROVE Spec => [](WF /\ Safety)
<1>1. Init => WF
  BY ConstantsOK DEF Init, WF
<1>2. TypeOK /\ WF /\ [Next]_vars => WF'
  <2> SUFFICES ASSUME TypeOK, WF, [Next]_vars PROVE WF'
    OBVIOUS
  <2> USE ConstantsOK DEF TypeOK, WF
  <2>1. ASSUME NEW r \in Replicas, NEW amount \in Amounts,
               NEW overspend \in OverspendFlags, Charge(r, amount, overspend)
        PROVE  WF'
    <3>1. amount <= escrow[r]
      BY <2>1 DEF Charge, Affordable, Strict
    <3> QED
      BY <2>1, <3>1 DEF Charge
  <2>2. ASSUME NEW r \in Replicas, NEW amount \in Amounts, Lose(r, amount)
        PROVE  WF'
    BY <2>2 DEF Lose, Affordable
  <2>3. ASSUME NEW r \in Replicas, NEW amount \in Amounts, NEW safe \in SafeFlags,
               Reclaim(r, amount, safe)
        PROVE  WF'
    BY <2>3 DEF Reclaim
  <2>4. CASE UNCHANGED vars
    BY <2>4 DEF vars
  <2> QED
    BY <2>1, <2>2, <2>3, <2>4 DEF Next
<1>3. WF /\ SolventIsSafe => WF /\ Safety
  BY DEF SolventIsSafe
<1> QED
  BY <1>1, <1>2, <1>3, TypeCorrect, SolventLedgerSafe, PTL DEF Spec

-----------------------------------------------------------------------------
(* The two certificates of safety (recovery.py:15, SCOPE.md:134).          *)

\* What the floored quantity counts: the spent and the available, which is the
\* signed quantity without the debts.
LEMMA FlooredIsSigned ==
  ASSUME TypeOK
  PROVE  FlooredA = SignedA + SumOver(Overdraft, Replicas)
  BY TotalsType DEF FlooredA, SignedA, TotalEscrow

\* Where either certificate holds, the floored quantity is within the cap.
Certified == BoundFloored \/ (BoundSigned /\ WF)

LEMMA CertifiedIsFloored == ASSUME TypeOK, Certified PROVE BoundFloored
<1>1. WF => SumOver(Overdraft, Replicas) = 0
  <2>1. WF => \A r \in Replicas : Overdraft[r] = 0
    BY DEF WF, TypeOK, Overdraft
  <2> QED
    BY <2>1, SumZero
<1>2. TotalSpent \in Nat /\ TotalEscrow \in Int
  BY TotalsType
<1> QED
  BY <1>1, <1>2, FlooredIsSigned DEF Certified, BoundSigned, BoundFloored, SignedA

\* The total available follows the escrow of the one replica that changes.
LEMMA UpdateAvailable ==
  ASSUME TypeOK, TypeOK', NEW r \in Replicas,
         \A s \in Replicas \ {r} : escrow'[s] = escrow[s]
  PROVE  SumOver(Available', Replicas) = SumOver(Available, Replicas) - Available[r] + Available'[r]
<1>1. NatOn(Available, Replicas) /\ NatOn(Available', Replicas)
  BY DEF TypeOK, NatOn, Available
<1>2. \A s \in Replicas \ {r} : Available'[s] = Available[s]
  BY DEF Available
<1> QED
  BY <1>1, <1>2, SumUpdate, ConstantsOK

\* A charge past the escrow, and a reclaim, guarded or not.
Overspends ==
  \E r \in Replicas, amount \in Amounts : amount > escrow[r] /\ Charge(r, amount, TRUE)
Reclaims ==
  \E r \in Replicas, amount \in Amounts, safe \in SafeFlags : Reclaim(r, amount, safe)

\* A charge moves authority within circulation, also past the escrow.
LEMMA ChargeConserves ==
  ASSUME TypeOK, TypeOK', NEW r \in Replicas, NEW amount \in Amounts,
         NEW overspend \in OverspendFlags, Charge(r, amount, overspend)
  PROVE  SignedA' = SignedA
<1>1. /\ amount \in Nat /\ escrow[r] \in Int /\ spent[r] \in Nat
      /\ escrow'[r] = escrow[r] - amount /\ spent'[r] = spent[r] + amount
      /\ \A s \in Replicas \ {r} : escrow'[s] = escrow[s] /\ spent'[s] = spent[s]
  BY ConstantsOK DEF Charge, TypeOK
<1>2. TotalEscrow' = TotalEscrow - escrow[r] + (escrow[r] - amount)
  BY <1>1, UpdateEscrow
<1>3. TotalSpent' = TotalSpent - spent[r] + (spent[r] + amount)
  BY <1>1, UpdateSpent
<1>4. TotalSpent \in Nat /\ TotalEscrow \in Int
  BY TotalsType
<1> QED
  BY <1>1, <1>2, <1>3, <1>4 DEF SignedA

\* A charge within the escrow moves the floored quantity nowhere and leaves no
\* debt where there was none.
LEMMA ChargeWithinEscrow ==
  ASSUME TypeOK, TypeOK', NEW r \in Replicas, NEW amount \in Amounts,
         NEW overspend \in OverspendFlags, Charge(r, amount, overspend), ~Overspends
  PROVE  FlooredA' = FlooredA /\ (WF => WF')
<1>1. /\ amount \in Nat /\ escrow[r] \in Int /\ spent[r] \in Nat
      /\ escrow'[r] = escrow[r] - amount /\ spent'[r] = spent[r] + amount
      /\ \A s \in Replicas \ {r} : escrow'[s] = escrow[s] /\ spent'[s] = spent[s]
  BY ConstantsOK DEF Charge, TypeOK
<1>2. amount <= escrow[r]
  <2>1. Charge(r, amount, TRUE)
    BY DEF Charge
  <2>2. ~(amount > escrow[r])
    BY <2>1 DEF Overspends
  <2> QED
    BY <1>1, <2>2
<1>3. Available[r] = escrow[r] /\ Available'[r] = escrow[r] - amount
  BY <1>1, <1>2 DEF Available
<1>4. TotalSpent' = TotalSpent - spent[r] + (spent[r] + amount)
  BY <1>1, UpdateSpent
<1>5. TotalSpent \in Nat /\ SumOver(Available, Replicas) \in Nat
  BY TotalsType
<1>6. SumOver(Available', Replicas) = SumOver(Available, Replicas) - amount
  BY <1>1, <1>3, <1>5, UpdateAvailable
<1>7. WF => WF'
  BY <1>1, <1>2 DEF WF
<1> QED
  BY <1>1, <1>4, <1>5, <1>6, <1>7 DEF FlooredA

\* A loss takes its amount out of both quantities, and leaves no debt where
\* there was none.
LEMMA LossWithinEscrow ==
  ASSUME TypeOK, TypeOK', NEW r \in Replicas, NEW amount \in Amounts, Lose(r, amount)
  PROVE  FlooredA' <= FlooredA /\ SignedA' <= SignedA /\ (WF => WF')
<1>1. /\ amount \in Nat /\ escrow[r] \in Int /\ amount <= escrow[r]
      /\ escrow'[r] = escrow[r] - amount /\ spent' = spent
      /\ \A s \in Replicas \ {r} : escrow'[s] = escrow[s]
  BY ConstantsOK DEF Lose, Affordable, TypeOK
<1>2. Available[r] = escrow[r] /\ Available'[r] = escrow[r] - amount
  BY <1>1 DEF Available
<1>3. /\ SumOver(Available', Replicas) = SumOver(Available, Replicas) - amount
      /\ TotalEscrow' = TotalEscrow - amount
  BY <1>1, <1>2, TotalsType, UpdateAvailable, UpdateEscrow
<1>4. TotalSpent' = TotalSpent
  BY <1>1 DEF TotalSpent
<1>5. TotalSpent \in Nat /\ SumOver(Available, Replicas) \in Nat /\ TotalEscrow \in Int
  BY TotalsType
<1>6. WF => WF'
  BY <1>1 DEF WF
<1> QED
  BY <1>1, <1>3, <1>4, <1>5, <1>6 DEF FlooredA, SignedA

\* What the calls may do to the certificates, in every configuration, also
\* where callers overspend and mint.  Signed authority is created by reclaims
\* only, so an overdraft leaves no trace in it; the floored quantity grows by
\* overdrafts as well; solvency is lost by overdrafts only; and from a state
\* that either certificate vouches for, no call but an overdraft, minting
\* reclaims included, leads above the cap.  (The classes of SCOPE.md:165-171.)
THEOREM CertificatesAreLostByOverspending ==
  Spec => [][/\ SignedA' > SignedA => Reclaims
             /\ FlooredA' > FlooredA => Overspends \/ Reclaims
             /\ WF /\ ~WF' => Overspends
             /\ Certified /\ ~Safety' => Overspends]_vars
<1> DEFINE Allowed == /\ SignedA' > SignedA => Reclaims
                      /\ FlooredA' > FlooredA => Overspends \/ Reclaims
                      /\ WF /\ ~WF' => Overspends
                      /\ Certified /\ ~Safety' => Overspends
<1>1. ASSUME TypeOK, TypeOK', [Next]_vars PROVE [Allowed]_vars
  <2>1. /\ TotalSpent \in Nat /\ TotalSpent' \in Nat /\ CAP \in Nat
        /\ SumOver(Available, Replicas) \in Nat /\ SumOver(Available', Replicas) \in Nat
        /\ TotalEscrow \in Int /\ TotalEscrow' \in Int
    BY <1>1, TotalsType, NextTotalsType, ConstantsOK
  <2>2. /\ SignedA \in Int /\ SignedA' \in Int /\ FlooredA \in Nat /\ FlooredA' \in Nat
        /\ TotalSpent <= FlooredA /\ TotalSpent' <= FlooredA'
    BY <2>1 DEF SignedA, FlooredA
  <2>3. Certified => FlooredA <= CAP
    BY <1>1, CertifiedIsFloored DEF BoundFloored
  <2>4. ASSUME NEW r \in Replicas, NEW amount \in Amounts, NEW overspend \in OverspendFlags,
               Charge(r, amount, overspend), ~Overspends
        PROVE  Allowed
    <3>1. FlooredA' = FlooredA /\ SignedA' = SignedA /\ (WF => WF')
      BY <1>1, <2>4, ChargeWithinEscrow, ChargeConserves
    <3> QED
      BY <2>1, <2>2, <2>3, <3>1 DEF Safety
  <2>5. ASSUME NEW r \in Replicas, NEW amount \in Amounts, Lose(r, amount)
        PROVE  Allowed
    <3>1. FlooredA' <= FlooredA /\ SignedA' <= SignedA /\ (WF => WF')
      BY <1>1, <2>5, LossWithinEscrow
    <3> QED
      BY <2>1, <2>2, <2>3, <3>1 DEF Safety
  <2>6. ASSUME NEW r \in Replicas, NEW amount \in Amounts, NEW safe \in SafeFlags,
               Reclaim(r, amount, safe)
        PROVE  Allowed
    <3>1. Reclaims
      BY <2>6 DEF Reclaims
    <3>2. WF => WF'
      BY <1>1, <2>6, ConstantsOK DEF Reclaim, WF, TypeOK
    <3>3. TotalSpent' = TotalSpent
      BY <2>6 DEF Reclaim, TotalSpent
    <3> QED
      BY <2>1, <2>2, <2>3, <3>1, <3>2, <3>3 DEF Safety
  <2>7. ASSUME NEW r \in Replicas, NEW amount \in Amounts, NEW overspend \in OverspendFlags,
               Charge(r, amount, overspend), Overspends
        PROVE  Allowed
    <3>1. SignedA' = SignedA
      BY <1>1, <2>7, ChargeConserves
    <3> QED
      BY <2>2, <2>7, <3>1
  <2> QED
    BY <1>1, <2>4, <2>5, <2>6, <2>7 DEF Next
<1> QED
  BY <1>1, TypeCorrect, PTL DEF Spec

\* How the certificates differ: with guarded reclaims the signed bound always
\* holds, so it says nothing of an overdraft, and the floored one fails exactly
\* while the replicas owe more than was stranded.
THEOREM FlooredBoundSeesDebt ==
  ASSUME Guarded
  PROVE  Spec => [](BoundSigned /\ (BoundFloored <=> SumOver(Overdraft, Replicas) <= stranded))
<1>1. ASSUME TypeOK, AuthorityAccounted
      PROVE  BoundSigned /\ (BoundFloored <=> SumOver(Overdraft, Replicas) <= stranded)
  <2>1. /\ SumOver(Overdraft, Replicas) \in Nat /\ stranded \in Nat /\ CAP \in Nat
        /\ TotalSpent \in Nat /\ TotalEscrow \in Int
    BY <1>1, TotalsType, ConstantsOK DEF TypeOK
  <2>2. SignedA \in Int /\ SignedA + stranded = CAP
    BY <1>1, <2>1 DEF AuthorityAccounted, SignedA
  <2> QED
    BY <1>1, <2>1, <2>2, FlooredIsSigned DEF BoundSigned, BoundFloored
<1> QED
  BY <1>1, TypeCorrect, NothingMinted, PTL
=============================================================================
