--------------------------- MODULE RecoveryLedger ---------------------------
(***************************************************************************)
(* impl/recovery.py: the ledger that keeps apart safety, non-creation,     *)
(* conservation and well-formedness.  Authority in circulation is the      *)
(* signed sum of spent and escrow; what is lost is stranded, outside it,   *)
(* and a reclaim brings it back.  charge and reclaim have a flag per call: *)
(* an overspending charge drives escrow below zero, an unsafe reclaim      *)
(* mints.  Which flags the callers pass is a constant.                     *)
(*                                                                         *)
(* A refused call changes nothing and is a stutter.                        *)
(***************************************************************************)
EXTENDS Sums

CONSTANTS
  Replicas, Amounts, CAP, InitEscrow,
  OverspendFlags,  \* values of allow_overspend that the callers pass
  SafeFlags,       \* values of safe that the callers pass
  MaxDebt          \* bound on the overdraft of one replica

ASSUME ConstantsOK ==
  /\ IsFiniteSet(Replicas)
  /\ Amounts \subseteq Nat
  /\ CAP \in Nat /\ MaxDebt \in Nat
  /\ InitEscrow \in [Replicas -> Nat]
  /\ SumOver(InitEscrow, Replicas) = CAP
  /\ OverspendFlags \subseteq BOOLEAN /\ SafeFlags \subseteq BOOLEAN

VARIABLES escrow, spent, stranded
vars == <<escrow, spent, stranded>>

-----------------------------------------------------------------------------
(* The quantities.  Escrow may be negative, so its sum is that of what is  *)
(* available minus that of what is owed.                                   *)

Available   == [r \in Replicas |-> IF escrow[r] >= 0 THEN escrow[r] ELSE 0]
Overdraft   == [r \in Replicas |-> IF escrow[r] < 0 THEN 0 - escrow[r] ELSE 0]
TotalSpent  == SumOver(spent, Replicas)
TotalEscrow == SumOver(Available, Replicas) - SumOver(Overdraft, Replicas)
SignedA     == TotalSpent + TotalEscrow
FlooredA    == TotalSpent + SumOver(Available, Replicas)
WF          == \A r \in Replicas : escrow[r] >= 0
Safety      == TotalSpent <= CAP
BoundSigned  == SignedA <= CAP
BoundFloored == FlooredA <= CAP

-----------------------------------------------------------------------------
(* Seeded faults, each of a definition below with the same parameters; no  *)
(* action uses them.                                                       *)

UnboundedReclaim(amount) == TRUE
StrandedTwice(amount)    == stranded + 2 * amount

-----------------------------------------------------------------------------
(* Pieces of the operations.                                               *)

\* charge, lose: a <= self.escrow[r]
Affordable(r, amount) == amount <= escrow[r]

\* reclaim: only what was stranded
WasStranded(amount) == amount <= stranded

\* lose: self.stranded += a
Strand(amount) == stranded + amount

Init ==
  /\ escrow = InitEscrow
  /\ spent = [r \in Replicas |-> 0]
  /\ stranded = 0

\* charge(r, a, allow_overspend) answered True.
Charge(r, amount, overspend) ==
  /\ overspend \/ Affordable(r, amount)
  /\ escrow[r] - amount >= 0 - MaxDebt
  /\ escrow' = [escrow EXCEPT ![r] = escrow[r] - amount]
  /\ spent' = [spent EXCEPT ![r] = spent[r] + amount]
  /\ UNCHANGED stranded

\* lose(r, a) answered True: escrow leaves circulation.
Lose(r, amount) ==
  /\ Affordable(r, amount)
  /\ escrow' = [escrow EXCEPT ![r] = escrow[r] - amount]
  /\ stranded' = Strand(amount)
  /\ UNCHANGED spent

\* reclaim(r, a, safe) answered True: stranded authority circulates again.
Reclaim(r, amount, safe) ==
  /\ safe => WasStranded(amount)
  /\ escrow' = [escrow EXCEPT ![r] = escrow[r] + amount]
  /\ stranded' = IF safe THEN stranded - amount ELSE stranded
  /\ UNCHANGED spent

Next ==
  \/ \E r \in Replicas, amount \in Amounts, overspend \in OverspendFlags :
       Charge(r, amount, overspend)
  \/ \E r \in Replicas, amount \in Amounts : Lose(r, amount)
  \/ \E r \in Replicas, amount \in Amounts, safe \in SafeFlags :
       Reclaim(r, amount, safe)

Spec == Init /\ [][Next]_vars

-----------------------------------------------------------------------------
(* Properties.                                                             *)

\* Every variable has its type; nothing is reclaimed that was not stranded.
TypeOK ==
  /\ escrow \in [Replicas -> Int] /\ spent \in [Replicas -> Nat]
  /\ stranded \in Nat

\* With guarded reclaims nothing is minted, overdrafts or not: authority in
\* circulation and stranded authority together are always the cap.
AuthorityAccounted == SignedA + stranded = CAP

\* What WF is worth: a ledger that overdrew and was refilled is safe again as
\* soon as no replica owes, also when the refill came from authority that
\* another replica had stranded.
SolventIsSafe == WF => Safety
=============================================================================
