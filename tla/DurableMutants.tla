--------------------------- MODULE DurableMutants ---------------------------
(***************************************************************************)
(* impl/mutation_durable.py: crash/recovery clusters that lost a           *)
(* discipline, or destroy more at a crash.  NoWriteAhead.debit_for_send,   *)
(* VolatileRecvd.credit and VolatileRecvd.crash are what the code of       *)
(* DurableReplica does with the flag switched off.  VolatileRecvd.persist  *)
(* is inherited and writes a durable dedup set that its crash never reads. *)
(***************************************************************************)
EXTENDS DurableCluster, Suites

VARIABLES
  row,    \* the row of the suite that is run: class, trace, expected verdict
  place   \* calls of row.trace made so far, or Off

mvars == <<vars, row, place>>

NoDebitWriteAhead == INSTANCE DurableCluster WITH DebitDurableBeforeSend <- FALSE
NoDedupDurable    == INSTANCE DurableCluster WITH RecvdDurable <- FALSE

-----------------------------------------------------------------------------
(* The suite.                                                              *)

Transfer(src, dst, amount, tid) ==
  [src |-> src, dst |-> dst, amount |-> amount, tid |-> tid]

ABOne  == IssueCall(Transfer("a", "b", 1, "t1"))
ToB    == DeliverCall([dst |-> "b", tid |-> "t1"])

MUTANTS == {
  [cls |-> "NoWriteAhead", expected |-> "cap-safety",
   trace |-> <<ABOne, CrashCall("a")>>],
  [cls |-> "VolatileRecvd", expected |-> "cap-safety",
   trace |-> <<ABOne, ToB, CrashCall("b"), ToB>>],
  [cls |-> "CrashDropsInflightCluster", expected |-> "conservation-only",
   trace |-> <<ABOne, CrashCall("b")>>]}

\* classify(c)
Classify ==
  IF TotalSpent > CAP \/ Quantity > CAP THEN "cap-safety"
  ELSE IF Quantity # CAP THEN "conservation-only"
  ELSE "SURVIVED"

-----------------------------------------------------------------------------
(* Seeded faults, each of a definition below with the same parameters; no  *)
(* action uses them.                                                       *)

OrdinaryCrash(r) == Crash(r)

-----------------------------------------------------------------------------
(* The methods of the damaged classes, when they have an effect, and those *)
(* of the class that is run.  What is refused is the same in every class.  *)

NoWriteAhead(m)       == NoDebitWriteAhead!Issue(m.src, m.dst, m.amount, m.tid)
VolatileRecvd(m)      == NoDedupDurable!Deliver(m)
VolatileRecvdCrash(r) == NoDedupDurable!Crash(r)

\* CrashDropsInflightCluster.crash: the messages to r are gone as well.
CrashDropsInflight(r) ==
  /\ escrow' = [escrow EXCEPT ![r] = dEscrow[r]]
  /\ spent'  = RestoredSpent(r)
  /\ recvd'  = [recvd EXCEPT ![r] = RestoredRecvd(r)]
  /\ sentMsgs' = {m \in sentMsgs : m.dst # r}
  /\ UNCHANGED <<durable, amtOf>>

MutIssue(m) ==
  IF row.cls = "NoWriteAhead" THEN NoWriteAhead(m)
                              ELSE Issue(m.src, m.dst, m.amount, m.tid)

MutDeliver(m) == IF row.cls = "VolatileRecvd" THEN VolatileRecvd(m) ELSE Deliver(m)

MutCrash(r) ==
  CASE row.cls = "VolatileRecvd"             -> VolatileRecvdCrash(r)
    [] row.cls = "CrashDropsInflightCluster" -> CrashDropsInflight(r)
    [] OTHER                                 -> Crash(r)

MInit ==
  /\ Init
  /\ row \in MUTANTS \cup Controls(MUTANTS, "DurableReplica")
  /\ place = 0

\* The file's trace is run to its end; elsewhere nothing is asked of a
\* cluster any more that has already created budget.
Going == place \in 0 .. Len(row.trace) - 1 \/ Classify # "cap-safety"

\* A call that has an effect, or is refused.
Call(record, accepted, Effect) ==
  /\ Going
  /\ IF accepted THEN Effect ELSE UNCHANGED vars
  /\ place' = Advance(place, row.trace, record)
  /\ UNCHANGED row

MNext ==
  \/ \E r \in Replicas, amount \in Amounts :
       Call(ChargeCall(r, amount, "none"), Affordable(r, amount), Charge(r, amount))
  \/ \E src, dst \in Replicas, amount \in Amounts, tid \in Tids :
       LET m == Transfer(src, dst, amount, tid)
       IN  Call(IssueCall(m), FreshId(tid) /\ Affordable(src, amount), MutIssue(m))
  \/ \E m \in sentMsgs : \/ Call(DeliverCall(m), NotCredited(m), MutDeliver(m))
                         \/ Call(DropCall(m), TRUE, Drop(m))
  \/ \E r \in Replicas : \/ Call(PersistCall(r), TRUE, Persist(r))
                         \/ Call(CrashCall(r), TRUE, MutCrash(r))

MSpec == MInit /\ [][MNext]_mvars

-----------------------------------------------------------------------------
(* Properties.                                                             *)

\* On the file's trace each class gets the verdict the file expects, and the
\* undamaged cluster survives all of them.
SuiteVerdict == place = Len(row.trace) => Classify = row.expected

\* Destruction is safe: on no sequence of calls does a crash that also loses
\* messages, or the undamaged cluster, end up above the cap.
DestructionIsSafe ==
  row.cls \in {"CrashDropsInflightCluster", "DurableReplica"} => Classify # "cap-safety"

\* The damage shows at a crash and at no other call: only a crash creates
\* budget, and only in the classes that lost a discipline.  (The second
\* credit, or the send, that the lost discipline should have prevented moves
\* budget that the crash has already created.)
OnlyCrashCreates ==
  [][Quantity' > Quantity =>
       /\ row.cls \in {"NoWriteAhead", "VolatileRecvd"}
       /\ \E r \in Replicas : MutCrash(r)]_mvars
=============================================================================
