-------------------------- MODULE ReferenceMutants --------------------------
(***************************************************************************)
(* impl/mutation_check.py: reference services that lost a guard or a       *)
(* debit.  Each of their operations still ends in the strict _check, which *)
(* raises after the dictionaries were changed and ends the sequence of     *)
(* calls.  MutNoChargeGuard leaves out both tests of charge.               *)
(*                                                                         *)
(* Calls are for amounts above zero, as in the suite (AmountsAboveZero): a *)
(* transfer of zero that is sent again with another amount would move      *)
(* nothing that _check counts.                                             *)
(***************************************************************************)
EXTENDS EscrowService, Suites

AmountsAboveZero == 0 \notin Amounts

VARIABLES
  row,    \* the row of the suite that is run: class, trace, expected killer
  place,  \* calls of row.trace made so far, or Off
  raised  \* _check raised InvariantViolation

mvars == <<vars, row, place, raised>>

-----------------------------------------------------------------------------
(* Seeded faults, each of a definition below with the same parameters; no  *)
(* action uses them.                                                       *)

AcceptsAsUndamaged(r, amount, opid) == NotApplied(opid) /\ Affordable(r, amount)
BoundCheck == Quantity <= CAP /\ TotalSpent <= CAP

-----------------------------------------------------------------------------
(* The suite.  The file prints each killer; which one it expects is said   *)
(* at its head.                                                            *)

Transfer(src, dst, amount, tid) ==
  [src |-> src, dst |-> dst, amount |-> amount, tid |-> tid]

SendABOne == IssueCall(Transfer("a", "b", 1, "t1"))
ToB       == DeliverCall([dst |-> "b", amount |-> 1, tid |-> "t1"])
COne      == ChargeCall("a", 1, "op1")

MUTANTS == {
  [cls |-> "MutNoDeliverDedup", expected |-> "invariant", trace |-> <<SendABOne, ToB, ToB>>],
  [cls |-> "MutNoChargeGuard", expected |-> "invariant",
   trace |-> <<ChargeCall("b", 1, "op1")>>],
  [cls |-> "MutNoSendDebit", expected |-> "invariant", trace |-> <<SendABOne>>],
  [cls |-> "MutNoChargeIdemp", expected |-> "per-request", trace |-> <<COne, COne>>],
  [cls |-> "MutNoSendIdemp", expected |-> "invariant", trace |-> <<SendABOne, SendABOne>>]}

\* _check(): all four of its tests (totals count what is not negative).
StrictCheck ==
  /\ \A r \in Replicas : escrow[r] >= 0 /\ spent[r] >= 0
  /\ Quantity = CAP
  /\ TotalSpent <= CAP

\* run(): what kills the class.
Killer ==
  IF raised THEN "invariant"
  ELSE IF ~PerRequestOk THEN "per-request"
  ELSE "SURVIVED"

-----------------------------------------------------------------------------
(* The methods of the class that is run: the tests it has left, and what a *)
(* call that passes them changes.                                          *)

\* charge: MutNoChargeGuard authorises everything, MutNoChargeIdemp what is
\* within the escrow.
AcceptsCharge(r, amount, opid) ==
  /\ row.cls \in {"MutNoChargeGuard", "MutNoChargeIdemp"} \/ NotApplied(opid)
  /\ row.cls = "MutNoChargeGuard" \/ Affordable(r, amount)

\* send_transfer: MutNoSendIdemp sends an id again, MutNoSendDebit what it
\* does not have.
AcceptsSend(m) ==
  /\ row.cls = "MutNoSendIdemp" \/ NotSent(m.tid)
  /\ row.cls = "MutNoSendDebit" \/ Affordable(m.src, m.amount)

\* deliver: MutNoDeliverDedup credits every time.
AcceptsDelivery(m) == row.cls = "MutNoDeliverDedup" \/ NotReceived(m)

\* MutNoSendDebit.send_transfer: the message is emitted, nothing is debited.
EmitUndebited(m) ==
  /\ sent' = Put(sent, m.tid, [dst |-> m.dst, amount |-> m.amount])
  /\ net' = net \cup {[dst |-> m.dst, amount |-> m.amount, tid |-> m.tid]}
  /\ UNCHANGED <<escrow, spent, applied, recvd, chargeCount>>

MutSend(m) ==
  IF row.cls = "MutNoSendDebit" THEN EmitUndebited(m)
                                ELSE Emit(m.src, m.dst, m.amount, m.tid)

MInit ==
  /\ Init
  /\ row \in MUTANTS \cup Controls(MUTANTS, "EscrowService")
  /\ place = 0 /\ raised = FALSE

\* A call that has an effect and is checked, or is refused.
Call(record, accepted, Effect) ==
  /\ ~raised
  /\ IF accepted THEN Effect /\ raised' = ~StrictCheck' ELSE UNCHANGED <<vars, raised>>
  /\ place' = Advance(place, row.trace, record)
  /\ UNCHANGED row

MNext ==
  \/ \E r \in Replicas, amount \in Amounts, opid \in Opids :
       Call(ChargeCall(r, amount, opid), AcceptsCharge(r, amount, opid),
            Debit(r, amount, opid))
  \/ \E src, dst \in Replicas, amount \in Amounts, tid \in Tids :
       LET m == Transfer(src, dst, amount, tid)
       IN  Call(IssueCall(m), AcceptsSend(m), MutSend(m))
  \/ \E m \in net : \/ Call(DeliverCall(m), AcceptsDelivery(m), Credit(m))
                    \/ Call(DropCall(m), TRUE, Drop(m))

MSpec == MInit /\ [][MNext]_mvars

-----------------------------------------------------------------------------
(* Properties.                                                             *)

\* On the file's trace each damaged class is killed, by what the file says,
\* and the undamaged service by nothing.
SuiteVerdict == place = Len(row.trace) => Killer = row.expected

\* The strict check is exact but for requests: in every damaged class and
\* after any sequence of calls it lets a call pass if and only if the call did
\* what the undamaged service could have done, or debited again, within the
\* escrow, a charge id that was debited before.
ChargedAgain ==
  \E r \in Replicas, amount \in Amounts, opid \in DOMAIN applied :
    Affordable(r, amount) /\ Debit(r, amount, opid)
CheckIsExact == [][~raised' <=> [Next]_vars \/ ChargedAgain]_mvars
=============================================================================
