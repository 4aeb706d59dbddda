--------------------------- MODULE EscrowService ----------------------------
(***************************************************************************)
(* impl/escrow.py: the reference service.  One object holds the escrow and *)
(* the spent budget of all replicas, one dictionary of authorised charges, *)
(* one of sent transfers and one set of received ids, so idempotency is    *)
(* global: a charge id or transfer id is spent wherever it is used first.  *)
(*                                                                         *)
(* A refused call (insufficient escrow, known id, duplicate delivery)      *)
(* changes nothing and is a stutter.  net is a list in the code; its ids   *)
(* are distinct (send_transfer refuses a known one) and its order is never *)
(* looked at, so a set carries the same information.                       *)
(***************************************************************************)
EXTENDS Sums

CONSTANTS
  Replicas, Genesis,  \* the replicas; the one that starts with the cap
  Opids, Tids,        \* charge ids and transfer ids the callers use
  Amounts,            \* amounts the callers ask for
  CAP                 \* the global budget

ASSUME ConstantsOK ==
  /\ IsFiniteSet(Replicas) /\ Genesis \in Replicas
  /\ Amounts \subseteq Nat     \* assert amount >= 0
  /\ CAP \in Nat               \* assert cap >= 0

VARIABLES
  escrow, spent,  \* per replica
  applied,        \* dict: id of an authorised charge -> its amount
  sent,           \* dict: id of a debited transfer -> [dst, amount]
  recvd,          \* ids credited at their destination
  net,            \* messages that may (still, again) be delivered
  chargeCount     \* per charge id: how often the debit path ran

vars == <<escrow, spent, applied, sent, recvd, net, chargeCount>>

Messages == [dst : Replicas, amount : Amounts, tid : Tids]

-----------------------------------------------------------------------------
(* The conserved quantity.                                                 *)

TotalEscrow == SumOver(escrow, Replicas)
TotalSpent  == SumOver(spent, Replicas)
InTransit   == DOMAIN sent \ recvd
Owed        == [t \in DOMAIN sent |-> sent[t].amount]
InFlight    == SumOver(Owed, InTransit)
Quantity    == TotalSpent + TotalEscrow + InFlight

-----------------------------------------------------------------------------
(* Seeded faults, each of a definition below with the same parameters; no  *)
(* action uses them.                                                       *)

UncheckedCharge(opid)     == TRUE
UncheckedSend(tid)        == TRUE
UncheckedDelivery(m)      == TRUE
UnlimitedDebit(r, amount) == TRUE

-----------------------------------------------------------------------------
(* Pieces of the operations.                                               *)

NotApplied(opid)      == opid \notin DOMAIN applied
NotSent(tid)          == tid \notin DOMAIN sent
NotReceived(m)        == m.tid \notin recvd
Affordable(r, amount) == amount <= escrow[r]

-----------------------------------------------------------------------------
Init ==
  /\ escrow = [r \in Replicas |-> IF r = Genesis THEN CAP ELSE 0]
  /\ spent = [r \in Replicas |-> 0]
  /\ applied = EmptyDict /\ sent = EmptyDict
  /\ recvd = {} /\ net = {}
  /\ chargeCount = [o \in Opids |-> 0]

\* What an authorised charge, a new transfer and a credit change.
Debit(r, amount, opid) ==
  /\ escrow' = [escrow EXCEPT ![r] = escrow[r] - amount]
  /\ spent' = [spent EXCEPT ![r] = spent[r] + amount]
  /\ applied' = Put(applied, opid, amount)
  /\ chargeCount' = [chargeCount EXCEPT ![opid] = chargeCount[opid] + 1]
  /\ UNCHANGED <<sent, recvd, net>>

Emit(src, dst, amount, tid) ==
  /\ escrow' = [escrow EXCEPT ![src] = escrow[src] - amount]
  /\ sent' = Put(sent, tid, [dst |-> dst, amount |-> amount])
  /\ net' = net \cup {[dst |-> dst, amount |-> amount, tid |-> tid]}
  /\ UNCHANGED <<spent, applied, recvd, chargeCount>>

Credit(m) ==
  /\ escrow' = [escrow EXCEPT ![m.dst] = escrow[m.dst] + m.amount]
  /\ recvd' = recvd \cup {m.tid}
  /\ UNCHANGED <<spent, applied, sent, net, chargeCount>>

\* charge(replica, amount, opid): authorised now.  (A known opid is answered
\* True without a state change, whatever replica and amount it comes with.)
Charge(r, amount, opid) ==
  NotApplied(opid) /\ Affordable(r, amount) /\ Debit(r, amount, opid)

\* send_transfer(src, dst, amount, tid): debit and put in flight.
SendTransfer(src, dst, amount, tid) ==
  NotSent(tid) /\ Affordable(src, amount) /\ Emit(src, dst, amount, tid)

\* deliver(idx): credit; the message is retained.
Deliver(m) == NotReceived(m) /\ Credit(m)

\* drop(idx): the message is lost, the transfer stays in sent.
Drop(m) ==
  /\ net' = net \ {m}
  /\ UNCHANGED <<escrow, spent, applied, sent, recvd, chargeCount>>

Next ==
  \/ \E r \in Replicas, amount \in Amounts, opid \in Opids :
       Charge(r, amount, opid)
  \/ \E src, dst \in Replicas, amount \in Amounts, tid \in Tids :
       SendTransfer(src, dst, amount, tid)
  \/ \E m \in net : Deliver(m)
  \/ \E m \in net : Drop(m)

Spec == Init /\ [][Next]_vars

-----------------------------------------------------------------------------
(* Properties.                                                             *)

\* Every variable has its type; balances never go negative (WF).
TypeOK ==
  /\ escrow \in [Replicas -> Nat] /\ spent \in [Replicas -> Nat]
  /\ DOMAIN applied \subseteq Opids /\ applied \in [DOMAIN applied -> Amounts]
  /\ DOMAIN sent \subseteq Tids
  /\ sent \in [DOMAIN sent -> [dst : Replicas, amount : Amounts]]
  /\ IsFiniteSet(DOMAIN sent)
  /\ recvd \subseteq DOMAIN sent
  /\ net \subseteq Messages
  /\ chargeCount \in [Opids -> Nat]

\* _check() never raises: nothing is created and nothing is lost, a dropped
\* message included (its amount stays in flight for ever), and the cap holds.
CheckPasses == Quantity = CAP /\ TotalSpent <= CAP

\* What is spent is exactly what was authorised, each charge id once: no
\* request is debited twice, at another replica included, and none is
\* authorised without a debit.
SpentIsAuthorised == TotalSpent = SumOver(applied, DOMAIN applied)

\* per_request_ok(): the debit path ran at most once per charge id.
PerRequestOk == \A o \in Opids : chargeCount[o] <= 1

\* Every message that can still be delivered carries what its id was debited
\* for, to the replica it was debited for.
MessagesBacked ==
  \A m \in net : /\ m.tid \in DOMAIN sent
                 /\ sent[m.tid] = [dst |-> m.dst, amount |-> m.amount]

\* The reference service implements the ledger of rights.
Rights == INSTANCE RightsLedger WITH
            held    <- [r \in Replicas |-> escrow[r] + spent[r]],
            used    <- spent,
            transit <- [t \in InTransit |-> sent[t].amount],
            opened  <- DOMAIN sent
ImplementsRightsLedger == Rights!RSpec

\* Each operation that has an effect is a transition that spec_model.py
\* explores: ids are used up in step, and a message is worth what the
\* explorer looks up for its id.
Explored == INSTANCE SpecModel WITH
              Cids    <- Opids,
              applied <- DOMAIN applied,
              sentT   <- DOMAIN sent,
              net     <- {<<m.dst, m.tid>> : m \in net},
              amtOf   <- [t \in Tids |-> IF t \in DOMAIN sent THEN sent[t].amount ELSE 0]
ImplementsSpecModel == Explored!SSpec
=============================================================================
