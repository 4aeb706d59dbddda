--------------------------- MODULE DurableCluster ---------------------------
(***************************************************************************)
(* impl/durable.py: replicas with a volatile and a durable image of their  *)
(* state, exchanging transfers over a network that survives crashes.       *)
(*                                                                         *)
(* Every replica crashes and persists on its own.  A message stays in      *)
(* sentMsgs after it is delivered, so Deliver on it again is duplication,  *)
(* Deliver after a Crash is retransmission, and the order of Delivers is   *)
(* reordering.  A refused call (a charge or a debit beyond the escrow, a   *)
(* known id, a duplicate delivery) changes nothing and is a stutter.       *)
(*                                                                         *)
(* sentMsgs is a list in the code.  No two of its messages have the same   *)
(* id (issue refuses a known one) and no operation looks at their order,   *)
(* so a set carries the same information.                                  *)
(***************************************************************************)
EXTENDS Sums

CONSTANTS
  Replicas,                \* names of the replicas
  Tids,                    \* transfer ids the callers may use
  Amounts,                 \* amounts the callers may ask for
  CAP,                     \* the global budget
  InitEscrow,              \* escrow given to each replica by the constructor
  DebitDurableBeforeSend,  \* flag: write-ahead debit
  RecvdDurable             \* flag: the dedup set survives a crash

ASSUME ConstantsOK ==
  /\ IsFiniteSet(Replicas)
  /\ Amounts \subseteq Nat
  /\ CAP \in Nat
  /\ InitEscrow \in [Replicas -> Nat]
  /\ DebitDurableBeforeSend \in BOOLEAN
  /\ RecvdDurable \in BOOLEAN

\* Correct genesis (SCOPE.md, assumption 1); the constructor does not test it.
ASSUME GenesisWithinCap == SumOver(InitEscrow, Replicas) <= CAP

VARIABLES
  escrow, spent, recvd,     \* volatile: per replica
  dEscrow, dSpent, dRecvd,  \* durable: per replica
  sentMsgs,                 \* messages that may (still, again) be delivered
  amtOf                     \* amount of every id ever issued

volatile == <<escrow, spent, recvd>>
durable  == <<dEscrow, dSpent, dRecvd>>
network  == <<sentMsgs, amtOf>>
vars     == <<escrow, spent, recvd, dEscrow, dSpent, dRecvd, sentMsgs, amtOf>>

Messages    == [dst : Replicas, tid : Tids]
Disciplined == DebitDurableBeforeSend /\ RecvdDurable

-----------------------------------------------------------------------------
(* The conserved quantity.                                                 *)

TotalEscrow == SumOver(escrow, Replicas)
TotalSpent  == SumOver(spent, Replicas)
Credited    == UNION {recvd[r] : r \in Replicas}
InTransit   == {m.tid : m \in sentMsgs} \ Credited
InFlight    == SumOver(amtOf, InTransit)
Quantity    == TotalSpent + TotalEscrow + InFlight

-----------------------------------------------------------------------------
(* Seeded faults, each of a definition below with the same parameters; no  *)
(* action uses them.                                                       *)

UnlimitedDebit(r, amount)    == TRUE
IdReusableInTransit(tid)     == tid \notin Credited
AlwaysCredited(m)            == TRUE
LazyDebit(src, amount)       == dEscrow
ForgottenCredits(r)          == {}
SpentKeptInCrash(r)          == spent
SpentLostInCrash(r)          == [spent EXCEPT ![r] = 0]
SpentAddedInPersist(r)       == [dSpent EXCEPT ![r] = dSpent[r] + spent[r]]

-----------------------------------------------------------------------------
(* Pieces of the handlers.                                                 *)

\* charge, debit_for_send: amount <= self.escrow
Affordable(r, amount) == amount <= escrow[r]

\* issue: tid in self.amtOf is refused
FreshId(tid) == tid \notin DOMAIN amtOf

\* credit: tid in self.recvd is refused
NotCredited(m) == m.tid \notin recvd[m.dst]

\* debit_for_send: the write-ahead of the debit
DurableDebit(src, amount) ==
  IF DebitDurableBeforeSend
    THEN [dEscrow EXCEPT ![src] = escrow[src] - amount]
    ELSE dEscrow

\* credit: the credited balance is written through whatever the flags
DurableCredit(m) == [dEscrow EXCEPT ![m.dst] = escrow[m.dst] + amtOf[m.tid]]

\* persist: the durable spent that is written
PersistedSpent(r) == [dSpent EXCEPT ![r] = spent[r]]

\* crash: the dedup set, and the spent, that a restarted replica comes back with
RestoredRecvd(r) == IF RecvdDurable THEN dRecvd[r] ELSE {}
RestoredSpent(r) == [spent EXCEPT ![r] = dSpent[r]]

-----------------------------------------------------------------------------
Init ==
  /\ escrow = InitEscrow /\ dEscrow = InitEscrow
  /\ spent  = [r \in Replicas |-> 0] /\ dSpent = [r \in Replicas |-> 0]
  /\ recvd  = [r \in Replicas |-> {}] /\ dRecvd = [r \in Replicas |-> {}]
  /\ sentMsgs = {}
  /\ amtOf = EmptyDict

\* charge(name, amount) answered True: volatile state only.
Charge(r, amount) ==
  /\ Affordable(r, amount)
  /\ escrow' = [escrow EXCEPT ![r] = escrow[r] - amount]
  /\ spent'  = [spent EXCEPT ![r] = spent[r] + amount]
  /\ UNCHANGED <<recvd, durable, network>>

\* issue(src, dst, amount, tid) answered True: debit, then emit.
Issue(src, dst, amount, tid) ==
  /\ FreshId(tid)
  /\ Affordable(src, amount)
  /\ escrow'   = [escrow EXCEPT ![src] = escrow[src] - amount]
  /\ dEscrow'  = DurableDebit(src, amount)
  /\ amtOf'    = Put(amtOf, tid, amount)
  /\ sentMsgs' = sentMsgs \cup {[dst |-> dst, tid |-> tid]}
  /\ UNCHANGED <<spent, recvd, dSpent, dRecvd>>

\* deliver(idx) answered True: the message is retained.
Deliver(m) ==
  /\ NotCredited(m)
  /\ escrow'  = [escrow EXCEPT ![m.dst] = escrow[m.dst] + amtOf[m.tid]]
  /\ recvd'   = [recvd EXCEPT ![m.dst] = recvd[m.dst] \cup {m.tid}]
  /\ dEscrow' = DurableCredit(m)
  /\ dRecvd'  = IF RecvdDurable
                  THEN [dRecvd EXCEPT ![m.dst] = recvd[m.dst] \cup {m.tid}]
                  ELSE dRecvd
  /\ UNCHANGED <<spent, dSpent, network>>

\* drop(idx): the message is gone for good, its id stays known.
Drop(m) ==
  /\ sentMsgs' = sentMsgs \ {m}
  /\ UNCHANGED <<volatile, durable, amtOf>>

\* persist(name): checkpoint.
Persist(r) ==
  /\ dEscrow' = [dEscrow EXCEPT ![r] = escrow[r]]
  /\ dSpent'  = PersistedSpent(r)
  /\ dRecvd'  = IF RecvdDurable THEN [dRecvd EXCEPT ![r] = recvd[r]] ELSE dRecvd
  /\ UNCHANGED <<volatile, network>>

\* crash(name): what was not durable is lost; the network is not touched.
Crash(r) ==
  /\ escrow' = [escrow EXCEPT ![r] = dEscrow[r]]
  /\ spent'  = RestoredSpent(r)
  /\ recvd'  = [recvd EXCEPT ![r] = RestoredRecvd(r)]
  /\ UNCHANGED <<durable, network>>

Next ==
  \/ \E r \in Replicas, amount \in Amounts : Charge(r, amount)
  \/ \E src, dst \in Replicas, amount \in Amounts, tid \in Tids :
       Issue(src, dst, amount, tid)
  \/ \E m \in sentMsgs : Deliver(m)
  \/ \E m \in sentMsgs : Drop(m)
  \/ \E r \in Replicas : Persist(r)
  \/ \E r \in Replicas : Crash(r)

Spec == Init /\ [][Next]_vars

-----------------------------------------------------------------------------
(* Properties.                                                             *)

\* Every variable has its type; balances never go negative (WF).
TypeOK ==
  /\ escrow \in [Replicas -> Nat] /\ dEscrow \in [Replicas -> Nat]
  /\ spent \in [Replicas -> Nat]  /\ dSpent \in [Replicas -> Nat]
  /\ recvd \in [Replicas -> SUBSET Tids] /\ dRecvd \in [Replicas -> SUBSET Tids]
  /\ sentMsgs \subseteq Messages
  /\ DOMAIN amtOf \subseteq Tids /\ IsFiniteSet(DOMAIN amtOf)
  /\ amtOf \in [DOMAIN amtOf -> Nat]

\* safety_le(): budget in existence never exceeds the cap.
SafetyLe == Quantity <= CAP

\* The cap theorem: what the replicas record as spent never exceeds the cap,
\* whatever is duplicated, reordered, lost, crashed or retransmitted.  It
\* follows from SafetyLe.
Safety == TotalSpent <= CAP

\* If the replicas of C crashed now, each alone, what would exist after the
\* restart is still within the cap: the durable images are at every moment
\* compatible with the volatile images of the others and with the network.
\* (crash() may hit any replica between any two steps.)
AfterCrashOf(C) ==
  LET holding  == [r \in Replicas |-> IF r \in C THEN dEscrow[r] + dSpent[r]
                                                 ELSE escrow[r] + spent[r]]
      credited == UNION {IF r \in C THEN RestoredRecvd(r) ELSE recvd[r] : r \in Replicas}
  IN  SumOver(holding, Replicas)
        + SumOver(amtOf, {m.tid : m \in sentMsgs} \ credited)
CrashCutSafe == \A C \in SUBSET Replicas : AfterCrashOf(C) <= CAP

\* No transfer is credited at two replicas, and only issued ones are credited.
CreditedOnce ==
  /\ \A r, s \in Replicas : r # s => recvd[r] \cap recvd[s] = {}
  /\ Credited \subseteq DOMAIN amtOf

\* No step, recovery included, creates budget (SCOPE.md: Non-creation).
NonCreation == [][Quantity' <= Quantity]_vars

\* A credit, once given, is remembered: no crash makes a replica ready to
\* credit the same transfer again.
CreditKept == [][\A r \in Replicas : recvd[r] \subseteq recvd'[r]]_vars

\* What persist() recorded as spent is never un-recorded: neither the
\* volatile nor the durable spent falls below it, credits and sends between
\* the persist and the crash included (they write d_escrow, not d_spent).
PersistedSpendKept ==
  [][\A r \in Replicas : dSpent[r] <= dSpent'[r] /\ dSpent[r] <= spent'[r]]_vars

\* A replica's holding grows in one way only: by the amount of a transfer
\* addressed to it that it has not credited before.  A crash gives nothing.
Holding(r) == escrow[r] + spent[r]
HoldingGrowsByCreditOnly ==
  [][\A r \in Replicas : Holding(r)' > Holding(r) =>
       \E m \in sentMsgs : /\ m.dst = r
                           /\ m.tid \in recvd'[r] \ Credited
                           /\ Holding(r)' = Holding(r) + amtOf[m.tid]]_vars

\* The disciplined cluster implements the ledger of rights.
Rights == INSTANCE RightsLedger WITH
            held    <- [r \in Replicas |-> escrow[r] + spent[r]],
            used    <- spent,
            transit <- [t \in InTransit |-> amtOf[t]],
            opened  <- DOMAIN amtOf
ImplementsRightsLedger == Rights!RSpec

-----------------------------------------------------------------------------
(* A claim of the repository that the code does not keep.                  *)

\* A dropped message's right stays represented as in flight: drop leaves the
\* quantity unchanged (ARCHITECTURE.md, MODEL-CORRESPONDENCE.md, SCOPE.md).
DropKeepsRight == [][\A m \in sentMsgs : Drop(m) => Quantity' = Quantity]_vars
=============================================================================
