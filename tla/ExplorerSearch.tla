--------------------------- MODULE ExplorerSearch ---------------------------
(***************************************************************************)
(* impl/spec_model.py, the search: explore() takes a state from the front  *)
(* of its queue, tests it, and goes through its successors, appending the  *)
(* ones not seen yet.  A state of SpecModel is a record here.  One pass of *)
(* a loop, outer or inner, is one step; nothing runs beside it.            *)
(*                                                                         *)
(* The code goes through frozensets, whose order is not specified: Look    *)
(* may take any successor (XNext).  TLC checks one of the orders           *)
(* (FirstNext), for the proofs it does not matter which.  CAP is a         *)
(* constant of the file; the search is run for every cap of Caps.          *)
(***************************************************************************)
EXTENDS Sums, SequencesExt

CONSTANTS
  REPLICAS,  \* sequence: the first is the genesis
  CIDS, TIDS, AMOUNTS,
  Caps,          \* budgets for which the search is run
  FileCap,       \* the budget of the file, its CAP
  TLC_DISTINCT   \* number of states the file expects with FileCap

ASSUME SearchOK ==
  /\ REPLICAS \in Seq(ToSet(REPLICAS)) /\ Len(REPLICAS) > 0
  /\ AMOUNTS \subseteq Nat /\ Caps \subseteq Nat
  /\ FileCap \in Nat /\ TLC_DISTINCT \in Nat

VARIABLES
  cap,         \* the budget of this search
  seen,        \* states found so far
  q,           \* of these, the ones not yet visited, in order
  todo,        \* successors of the visited state that were not looked at yet
  violations   \* visited states that failed a test

xvars == <<cap, seen, q, todo, violations>>

Members == ToSet(REPLICAS)

-----------------------------------------------------------------------------
(* States of the model that is explored.                                   *)

init_state ==
  [escrow |-> [r \in Members |-> IF r = Head(REPLICAS) THEN cap ELSE 0],
   spent |-> [r \in Members |-> 0], net |-> {}, applied |-> {}, sentT |-> {},
   recvd |-> {}, amtOf |-> [t \in TIDS |-> 0]]

inflight(s) == SumOver(s.amtOf, s.sentT \ s.recvd)
quantity(s) == SumOver(s.spent, Members) + SumOver(s.escrow, Members) + inflight(s)

affordable(s, r) == {a \in AMOUNTS : a <= s.escrow[r]}

\* What s becomes by a charge, a first send, a receipt and a loss.
charged(s, r, cid, a) ==
  [escrow |-> [s.escrow EXCEPT ![r] = s.escrow[r] - a],
   spent |-> [s.spent EXCEPT ![r] = s.spent[r] + a], net |-> s.net,
   applied |-> s.applied \cup {cid}, sentT |-> s.sentT, recvd |-> s.recvd,
   amtOf |-> s.amtOf]

sent(s, i, j, t, a) ==
  [escrow |-> [s.escrow EXCEPT ![i] = s.escrow[i] - a], spent |-> s.spent,
   net |-> s.net \cup {<<j, t>>}, applied |-> s.applied, sentT |-> s.sentT \cup {t},
   recvd |-> s.recvd, amtOf |-> [s.amtOf EXCEPT ![t] = a]]

received(s, m) ==
  [escrow |-> [s.escrow EXCEPT ![m[1]] = s.escrow[m[1]] + s.amtOf[m[2]]],
   spent |-> s.spent, net |-> s.net, applied |-> s.applied, sentT |-> s.sentT,
   recvd |-> s.recvd \cup {m[2]}, amtOf |-> s.amtOf]

dropped(s, m) ==
  [escrow |-> s.escrow, spent |-> s.spent, net |-> s.net \ {m}, applied |-> s.applied,
   sentT |-> s.sentT, recvd |-> s.recvd, amtOf |-> s.amtOf]

-----------------------------------------------------------------------------
(* Seeded faults, each of a definition below with the same parameters; no  *)
(* action uses them.                                                       *)

UnpoppedQueue    == q
BoundedQueue(s)  == IF Len(q) < 4 THEN Append(q, s) ELSE Append(Tail(q), s)
NoDrops(s)       == {}
RepeatedRecvs(s) == {received(s, m) : m \in s.net}

-----------------------------------------------------------------------------
Charges(s) ==
  UNION {{charged(s, r, cid, a) : cid \in CIDS \ s.applied, a \in affordable(s, r)} :
           r \in Members}
Sends(s) ==
  UNION {{sent(s, i, j, t, a) :
            j \in Members, t \in TIDS \ s.sentT, a \in affordable(s, i)} : i \in Members}
Recvs(s) == {received(s, m) : m \in {n \in s.net : n[2] \notin s.recvd}}
Drops(s) == {dropped(s, m) : m \in s.net}

successors(s) == Charges(s) \cup Sends(s) \cup Recvs(s) \cup Drops(s)

\* The tests made on every state that is visited.
Fails(s) ==
  \/ ~(SumOver(s.spent, Members) <= cap)
  \/ ~(quantity(s) <= cap)
  \/ quantity(s) # cap

-----------------------------------------------------------------------------
(* The search.                                                             *)

\* q.popleft(): what remains.
PoppedQueue == Tail(q)

\* q.append(s)
Appended(s) == Append(q, s)

XInit ==
  /\ cap \in Caps
  /\ seen = {init_state} /\ q = <<init_state>>
  /\ todo = {}
  /\ violations = {}

Visit ==
  /\ todo = {} /\ q # <<>>
  /\ q' = PoppedQueue
  /\ violations' = IF Fails(Head(q)) THEN violations \cup {Head(q)} ELSE violations
  /\ todo' = successors(Head(q))
  /\ UNCHANGED <<cap, seen>>

Look(s) ==
  /\ todo' = todo \ {s}
  /\ seen' = seen \cup {s}
  /\ q' = IF s \in seen THEN q ELSE Appended(s)
  /\ UNCHANGED <<cap, violations>>

\* The search, whichever order its loops go through sets in.
XNext == Visit \/ \E s \in todo : Look(s)
XSpec == XInit /\ [][XNext]_xvars

\* The same in one order.  The loops run by themselves until the queue is empty.
FirstNext == Visit \/ (todo # {} /\ Look(CHOOSE s \in todo : TRUE))
FirstSpec == XInit /\ [][FirstNext]_xvars /\ WF_xvars(FirstNext)

-----------------------------------------------------------------------------
(* Properties.                                                             *)

Done == todo = {} /\ q = <<>>

\* The search ends: its states are finitely many and none is queued twice.
Terminates == <>Done

\* What was seen and is not queued any more has all its successors seen or
\* about to be looked at, so that at the end everything reachable was seen;
\* and what is queued was seen.
NothingMissed ==
  /\ ToSet(q) \subseteq seen
  /\ \A s \in seen \ ToSet(q) : successors(s) \subseteq seen \cup todo

\* run() finds the invariants to hold: no state makes a test of the loop fail.
NoViolations == violations = {}

\* run() finds the number of states that TLC reported for the repository's
\* model, with the budget of the file.
CountAgrees == Done /\ cap = FileCap => Cardinality(seen) = TLC_DISTINCT
=============================================================================
