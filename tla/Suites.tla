------------------------------- MODULE Suites -------------------------------
(***************************************************************************)
(* What the mutation suites share (impl/mutation_check.py,                 *)
(* mutation_distributed.py, mutation_durable.py).  A suite runs damaged    *)
(* classes, each on a fixed trace of calls, and classifies what became of  *)
(* the budget.  The modules that extend this one run every damaged class,  *)
(* and the undamaged one as a control, on every sequence of calls.  place  *)
(* says how much of the file's trace a sequence has followed so far.       *)
(***************************************************************************)
EXTENDS Integers, Sequences

\* The sequence of calls is not a prefix of the file's trace.
Off == -1

Advance(place, trace, call) ==
  IF place \in 0 .. Len(trace) - 1 /\ trace[place + 1] = call THEN place + 1 ELSE Off

\* What classify() can return, the least grave first.
VERDICTS == <<"SURVIVED", "well-formedness", "per-request-only",
              "conservation-only", "cap-safety">>

\* v is graver than w, or the same.
AtLeast(v, w) ==
  \E i, j \in DOMAIN VERDICTS : VERDICTS[i] = v /\ VERDICTS[j] = w /\ i >= j

ChargeCall(r, amount, opid) ==
  [op |-> "charge", at |-> r, amount |-> amount, opid |-> opid]
IssueCall(m) == [op |-> "issue", transfer |-> m]
DeliverCall(m) == [op |-> "deliver", msg |-> m]
DropCall(m)    == [op |-> "drop", msg |-> m]
PersistCall(r) == [op |-> "persist", at |-> r]
CrashCall(r)   == [op |-> "crash", at |-> r]

\* The control rows of a suite: the undamaged class survives every trace.
Controls(MUTANTS, undamaged) ==
  {[cls |-> undamaged, trace |-> m.trace, expected |-> "SURVIVED"] : m \in MUTANTS}
=============================================================================
