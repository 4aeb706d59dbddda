------------------------------ MODULE Cluster -------------------------------
(***************************************************************************)
(* impl/distributed.py: replicas that keep their own dictionaries, and an  *)
(* unreliable network that reorders, duplicates and loses messages.        *)
(*                                                                         *)
(* Idempotency is per replica: applied, issued and recvd are dictionaries  *)
(* of one replica, and both transfer checks can be switched off.  What ids *)
(* mean is up to the callers, so the transfers they may ask for are a      *)
(* constant: UniqueTids says that an id names one transfer, which the      *)
(* tests bind by TID_IDENTITY and which an id collision breaks.  Which     *)
(* charge ids reach which replica is the callers' choice as well.          *)
(*                                                                         *)
(* A refused call changes nothing and is a stutter.  Messages are retained *)
(* when delivered, and a sender that is not idempotent puts an equal       *)
(* message on the network again, so net counts the copies of each; their   *)
(* order in the code's list is never looked at.                            *)
(***************************************************************************)
EXTENDS Sums

CONSTANTS
  Replicas,            \* names of the replicas
  Opids,               \* charge ids the callers use
  Presented,           \* per replica: those of them that reach it
  Amounts,             \* amounts of the charges
  Transfers,           \* calls of issue: records [src, dst, amount, tid]
  CAP,                 \* the global budget
  InitEscrow,          \* escrow given to each replica by the constructor
  SenderIdempotent,    \* flag: a re-issue of a known id is refused
  ReceiverIdempotent,  \* flag: a second credit of a known id is refused
  MaxCopies            \* bound on the copies of a message on the network

Tids == {m.tid : m \in Transfers}

ASSUME ConstantsOK ==
  /\ IsFiniteSet(Replicas)
  /\ Presented \in [Replicas -> SUBSET Opids]
  /\ Amounts \subseteq Nat                       \* assert amount >= 0
  /\ \A m \in Transfers : m = [src |-> m.src, dst |-> m.dst,
                               amount |-> m.amount, tid |-> m.tid]
  /\ \A m \in Transfers : {m.src, m.dst} \subseteq Replicas /\ m.amount \in Nat
  /\ CAP \in Nat
  /\ InitEscrow \in [Replicas -> Nat]
  /\ SenderIdempotent \in BOOLEAN
  /\ ReceiverIdempotent \in BOOLEAN
  /\ MaxCopies \in Nat

\* Correct genesis (SCOPE.md, assumption 1); the constructor does not test it.
ASSUME GenesisIsCap == SumOver(InitEscrow, Replicas) = CAP

\* Globally-unique transfer ids (SCOPE.md, conservation-only assumption 7).
UniqueTids == \A m, n \in Transfers : m.tid = n.tid => m = n

VARIABLES
  escrow, spent,  \* per replica
  applied,        \* per replica, dict: id of a charge -> its amount
  chargeCount,    \* per replica and charge id: how often it was debited
  issued,         \* per replica: ids it debited (the code's amounts are not read)
  recvd,          \* per replica: ids it credited
  net,            \* copies of each message on the network
  tidAmount,      \* dict: id -> nominal amount, of the first issue
  receivedTids    \* ids credited anywhere

balances == <<escrow, spent>>
charges  == <<applied, chargeCount>>
vars     == <<escrow, spent, applied, chargeCount, issued, recvd, net,
              tidAmount, receivedTids>>

-----------------------------------------------------------------------------
(* The conserved quantity.                                                 *)

TotalEscrow == SumOver(escrow, Replicas)
TotalSpent  == SumOver(spent, Replicas)
InTransit   == DOMAIN tidAmount \ receivedTids
InFlight    == SumOver(tidAmount, InTransit)
Quantity    == TotalSpent + TotalEscrow + InFlight

-----------------------------------------------------------------------------
(* Seeded faults, each of a definition below with the same parameters; no  *)
(* action uses them.                                                       *)

UncheckedCharge(r, opid)  == TRUE
UnlimitedDebit(r, amount) == TRUE
UncheckedIssue(m)         == TRUE
UncheckedCredit(m)        == TRUE
UnrecordedReceipt(m)      == receivedTids

-----------------------------------------------------------------------------
(* Pieces of the handlers.                                                 *)

\* Replica.charge: opid in self.applied is answered without a debit
NotApplied(r, opid) == opid \notin DOMAIN applied[r]

\* Replica.charge, Replica.issue: amount <= self.escrow
Affordable(r, amount) == amount <= escrow[r]

\* Replica.issue: the sender's dedup
MayIssue(m) == SenderIdempotent => m.tid \notin issued[m.src]

\* Replica.receive: the receiver's dedup
MayCredit(m) == ReceiverIdempotent => m.tid \notin recvd[m.dst]

\* Replica.receive: self.escrow += msg.amount
CreditAmount(m) == m.amount

\* Cluster.issue: self.tid_amount.setdefault(tid, amount)
NominalAmount(m) == SetDefault(tidAmount, m.tid, m.amount)

\* Cluster.deliver: self.received_tids.add(msg.tid)
RecordReceipt(m) == receivedTids \cup {m.tid}

-----------------------------------------------------------------------------
Init ==
  /\ escrow = InitEscrow
  /\ spent = [r \in Replicas |-> 0]
  /\ applied = [r \in Replicas |-> EmptyDict]
  /\ chargeCount = [r \in Replicas |-> [o \in Opids |-> 0]]
  /\ issued = [r \in Replicas |-> {}]
  /\ recvd = [r \in Replicas |-> {}]
  /\ net = [m \in Transfers |-> 0]
  /\ tidAmount = EmptyDict
  /\ receivedTids = {}

\* Replica.charge: what an authorised charge changes
Debit(r, amount, opid) ==
  /\ escrow' = [escrow EXCEPT ![r] = escrow[r] - amount]
  /\ spent' = [spent EXCEPT ![r] = spent[r] + amount]
  /\ applied' = [applied EXCEPT ![r] = Put(applied[r], opid, amount)]
  /\ chargeCount' = [chargeCount EXCEPT ![r][opid] = chargeCount[r][opid] + 1]
  /\ UNCHANGED <<issued, recvd, net, tidAmount, receivedTids>>

\* charge(name, amount, opid), authorised now.
Charge(r, amount, opid) ==
  /\ NotApplied(r, opid)
  /\ Affordable(r, amount)
  /\ Debit(r, amount, opid)

\* issue(src, dst, amount, tid) that debits and emits, a retry included.
Issue(m) ==
  /\ MayIssue(m)
  /\ Affordable(m.src, m.amount)
  /\ net[m] < MaxCopies
  /\ escrow' = [escrow EXCEPT ![m.src] = escrow[m.src] - m.amount]
  /\ issued' = [issued EXCEPT ![m.src] = issued[m.src] \cup {m.tid}]
  /\ tidAmount' = NominalAmount(m)
  /\ net' = [net EXCEPT ![m] = net[m] + 1]
  /\ UNCHANGED <<spent, charges, recvd, receivedTids>>

\* deliver(idx) that credits; the message is retained.
Deliver(m) ==
  /\ net[m] > 0
  /\ MayCredit(m)
  /\ escrow' = [escrow EXCEPT ![m.dst] = escrow[m.dst] + CreditAmount(m)]
  /\ recvd' = [recvd EXCEPT ![m.dst] = recvd[m.dst] \cup {m.tid}]
  /\ receivedTids' = RecordReceipt(m)
  /\ UNCHANGED <<spent, charges, issued, net, tidAmount>>

\* drop(idx): one copy is lost, its nominal amount stays in flight.
Drop(m) ==
  /\ net[m] > 0
  /\ net' = [net EXCEPT ![m] = net[m] - 1]
  /\ UNCHANGED <<balances, charges, issued, recvd, tidAmount, receivedTids>>

Next ==
  \/ \E r \in Replicas, amount \in Amounts : \E opid \in Presented[r] :
       Charge(r, amount, opid)
  \/ \E m \in Transfers : Issue(m)
  \/ \E m \in Transfers : Deliver(m)
  \/ \E m \in Transfers : Drop(m)

Spec == Init /\ [][Next]_vars

-----------------------------------------------------------------------------
(* Properties.                                                             *)

\* Every variable has its type; balances never go negative (WF).
TypeOK ==
  /\ escrow \in [Replicas -> Nat] /\ spent \in [Replicas -> Nat]
  /\ DOMAIN applied = Replicas
  /\ \A r \in Replicas : /\ DOMAIN applied[r] \subseteq Opids
                         /\ applied[r] \in [DOMAIN applied[r] -> Nat]
  /\ chargeCount \in [Replicas -> [Opids -> Nat]]
  /\ issued \in [Replicas -> SUBSET Tids]
  /\ recvd \in [Replicas -> SUBSET Tids]
  /\ net \in [Transfers -> 0 .. MaxCopies]
  /\ DOMAIN tidAmount \subseteq Tids /\ tidAmount \in [DOMAIN tidAmount -> Nat]
  /\ receivedTids \subseteq Tids

\* conserved(): with unique ids and both idempotencies nothing is lost, a
\* dropped message included.
Conserved == Quantity = CAP

\* What a replica spent is exactly what it authorised, each of its charge ids
\* once.
SpentIsAuthorised ==
  \A r \in Replicas : spent[r] = SumOver(applied[r], DOMAIN applied[r])

\* per_request_ok(): no replica debits a charge id twice.
PerRequestOk == \A r \in Replicas, o \in Opids : chargeCount[r][o] <= 1

\* received_tids is the union of the replicas' recvd, which inflight() takes
\* for granted, and only issued ids are in it.
ReceiptsAgree ==
  /\ receivedTids = UNION {recvd[r] : r \in Replicas}
  /\ receivedTids \subseteq DOMAIN tidAmount

\* With unique ids the cluster implements the ledger of rights, whether its
\* senders are idempotent or not (a second debit is a loss at the sender).
Rights == INSTANCE RightsLedger WITH
            held    <- [r \in Replicas |-> escrow[r] + spent[r]],
            used    <- spent,
            transit <- [t \in InTransit |-> tidAmount[t]],
            opened  <- DOMAIN tidAmount
ImplementsRightsLedger == Rights!RSpec

\* Each operation that has an effect is a transition that spec_model.py
\* explores, with unique transfer ids, both idempotencies, and callers that
\* present a charge id to one replica only.
Explored == INSTANCE SpecModel WITH
              Cids    <- Opids,
              Amounts <- Amounts \cup {m.amount : m \in Transfers},
              applied <- UNION {DOMAIN applied[r] : r \in Replicas},
              sentT   <- DOMAIN tidAmount,
              recvd   <- receivedTids,
              net     <- {<<m.dst, m.tid>> : m \in {n \in Transfers : net[n] > 0}},
              amtOf   <- [t \in Tids |-> IF t \in DOMAIN tidAmount THEN tidAmount[t] ELSE 0]
ImplementsSpecModel == Explored!SSpec

-----------------------------------------------------------------------------
(* Claims of the repository that the code does not keep.                   *)

\* A charge id is debited at most once (SCOPE.md, assumption 5), in the
\* cluster as in the reference service and the model.
ChargedOnce ==
  \A r, s \in Replicas : r # s => DOMAIN applied[r] \cap DOMAIN applied[s] = {}

\* Transfers that share an id are credited once (SCOPE.md, assumption 7).
CollisionCreditedOnce ==
  \A r, s \in Replicas : r # s => recvd[r] \cap recvd[s] = {}
=============================================================================
