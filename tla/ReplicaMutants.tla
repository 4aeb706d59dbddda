--------------------------- MODULE ReplicaMutants ---------------------------
(***************************************************************************)
(* impl/mutation_distributed.py: replicas of Cluster that lost one guard.  *)
(* RecvNoDedup.receive and IssueNoDedup.issue are what the code of Replica *)
(* does with the flag switched off; the two charge mutants leave out one   *)
(* test of charge.  Escrow can become negative, so the totals are signed.  *)
(***************************************************************************)
EXTENDS Cluster, Suites

VARIABLES
  row,    \* the row of the suite that is run: class, trace, expected verdict
  place,  \* calls of row.trace made so far, or Off
  asked   \* history: the transfers that were debited

mvars == <<vars, row, place, asked>>

NoSenderDedup   == INSTANCE Cluster WITH SenderIdempotent <- FALSE
NoReceiverDedup == INSTANCE Cluster WITH ReceiverIdempotent <- FALSE

-----------------------------------------------------------------------------
(* The suite.                                                              *)

ABOne == [src |-> "a", dst |-> "b", amount |-> 1, tid |-> "t1"]

MUTANTS == {
  [cls |-> "RecvNoDedup", expected |-> "cap-safety",
   trace |-> <<IssueCall(ABOne), DeliverCall(ABOne), DeliverCall(ABOne)>>],
  [cls |-> "IssueNoDedup", expected |-> "conservation-only",
   trace |-> <<IssueCall(ABOne), IssueCall(ABOne)>>],
  [cls |-> "ChargeNoGuard", expected |-> "cap-safety",
   trace |-> <<ChargeCall("a", 2, "o0"), ChargeCall("a", 2, "o1"),
               ChargeCall("a", 2, "o2"), ChargeCall("a", 2, "o3")>>],
  [cls |-> "ChargeNoIdemp", expected |-> "per-request-only",
   trace |-> <<ChargeCall("a", 1, "o1"), ChargeCall("a", 1, "o1")>>]}

SignedEscrow   == SignedSum(escrow, Replicas)
SignedQuantity == TotalSpent + SignedEscrow + InFlight

\* classify(c)
Classify ==
  IF TotalSpent > CAP \/ SignedQuantity > CAP THEN "cap-safety"
  ELSE IF SignedQuantity # CAP THEN "conservation-only"
  ELSE IF ~PerRequestOk THEN "per-request-only"
  ELSE IF \E r \in Replicas : escrow[r] < 0 THEN "well-formedness"
  ELSE "SURVIVED"

-----------------------------------------------------------------------------
(* Seeded faults, each of a definition below with the same parameters; no  *)
(* action uses them.                                                       *)

AcceptsAsUndamaged(m) == MayIssue(m) /\ Affordable(m.src, m.amount)

-----------------------------------------------------------------------------
(* The methods of the class that is run: the tests it has left, and what a *)
(* call that passes them changes.                                          *)

\* charge: ChargeNoIdemp debits a known id, ChargeNoGuard past the escrow.
AcceptsCharge(r, amount, opid) ==
  /\ row.cls = "ChargeNoIdemp" \/ NotApplied(r, opid)
  /\ row.cls = "ChargeNoGuard" \/ Affordable(r, amount)

\* issue: IssueNoDedup debits a known id.
AcceptsIssue(m) ==
  /\ row.cls = "IssueNoDedup" \/ MayIssue(m)
  /\ Affordable(m.src, m.amount)

\* receive: RecvNoDedup credits every time.
AcceptsReceive(m) == row.cls = "RecvNoDedup" \/ MayCredit(m)

DebitAndEmit(m) == NoSenderDedup!Issue(m)
Credit(m)       == NoReceiverDedup!Deliver(m)

MInit ==
  /\ Init
  /\ row \in MUTANTS \cup Controls(MUTANTS, "Replica")
  /\ place = 0 /\ asked = {}

\* The file's trace is run to its end; elsewhere nothing is asked of a
\* cluster any more that has already created budget.
Going == place \in 0 .. Len(row.trace) - 1 \/ Classify # "cap-safety"

\* A call that has an effect, or is refused.
Call(record, accepted, Effect) ==
  /\ Going
  /\ IF accepted THEN Effect ELSE UNCHANGED vars
  /\ place' = Advance(place, row.trace, record)
  /\ UNCHANGED row

MNext ==
  \/ \E r \in Replicas, amount \in Amounts : \E opid \in Presented[r] :
       /\ Call(ChargeCall(r, amount, opid), AcceptsCharge(r, amount, opid),
               Debit(r, amount, opid))
       /\ UNCHANGED asked
  \/ \E m \in Transfers :
       /\ net[m] < MaxCopies
       /\ Call(IssueCall(m), AcceptsIssue(m), DebitAndEmit(m))
       /\ asked' = IF AcceptsIssue(m) THEN asked \cup {m} ELSE asked
  \/ \E m \in {n \in Transfers : net[n] > 0} :
       /\ \/ Call(DeliverCall(m), AcceptsReceive(m), Credit(m))
          \/ Call(DropCall(m), TRUE, Drop(m))
       /\ UNCHANGED asked

MSpec == MInit /\ [][MNext]_mvars

-----------------------------------------------------------------------------
(* Properties.                                                             *)

\* On the file's trace each class gets the verdict the file expects, and the
\* undamaged replica survives all of them.
SuiteVerdict == place = Len(row.trace) => Classify = row.expected

\* The verdict is not owed to the trace: no sequence of calls brings out of a
\* class anything graver than the file says, except that ids which name two
\* transfers can lose budget in any class.
UniqueSoFar == \A m, n \in asked : m.tid = n.tid => m = n
NeverWorse ==
  \/ AtLeast(row.expected, Classify)
  \/ ~UniqueSoFar /\ Classify = "conservation-only"

\* While ids are unique, budget is created by one thing only, a credit that the
\* receiver gave before, and destroyed by one thing only, a debit that the
\* sender made before: by the amount of the transfer in both cases.
BudgetMovesByFaultOnly ==
  [][UniqueSoFar' =>
       /\ SignedQuantity' > SignedQuantity =>
            \E m \in Transfers : /\ row.cls = "RecvNoDedup" /\ m.tid \in recvd[m.dst]
                                 /\ SignedQuantity' = SignedQuantity + m.amount
       /\ SignedQuantity' < SignedQuantity =>
            \E m \in Transfers : /\ row.cls = "IssueNoDedup" /\ m.tid \in issued[m.src]
                                 /\ SignedQuantity' = SignedQuantity - m.amount]_mvars
=============================================================================
