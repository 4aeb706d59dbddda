------------------------------ MODULE Harness -------------------------------
(***************************************************************************)
(* impl/fault_harness.py: the hostile driver of the crash/recovery         *)
(* cluster.  Its simple rules make one call.  Its composite rules make     *)
(* several in a loop (a storm of deliveries, repeated crashes of one       *)
(* replica, crashes of all, a retried send); their remaining calls are in  *)
(* todo and run one at a time.  No rule begins before the last has ended.  *)
(*                                                                         *)
(* The ids are t0, t1, ... in the code and 0, 1, ... here; a refused send  *)
(* uses its id up.  The answers of charge are dropped by the driver; the   *)
(* clients that would receive them are those of DurableClients.            *)
(***************************************************************************)
EXTENDS DurableClients, SequencesExt

CONSTANTS
  Names,     \* sequence: the order in which crash_all goes through Replicas
  MaxStorm,  \* bound on the deliveries of a storm (6 in the code)
  MaxRepeat  \* bound on the repeated crashes of one replica (4 in the code)

ASSUME HarnessOK ==
  /\ Names \in Seq(Replicas) /\ ToSet(Names) = Replicas /\ IsInjective(Names)
  /\ Tids \subseteq Nat
  /\ MaxStorm \in Nat /\ MaxRepeat \in Nat

VARIABLES
  transfers,  \* dict: id -> the arguments of the issue that succeeded
  nextTid,    \* number of the next fresh id
  todo,       \* calls the composite rule has still to make
  begun       \* history: the cluster when that rule began, and its calls

hvars == <<cvars, transfers, nextTid, todo, begun>>

Idle == todo = <<>>

NoRule == [rule |-> "none"]

DeliverCall(m) == [op |-> "deliver", msg |-> m]
CrashCall(r)   == [op |-> "crash", at |-> r]
IssueCall(tid) == [op |-> "issue", tid |-> tid]

-----------------------------------------------------------------------------
HInit ==
  /\ CInit
  /\ transfers = EmptyDict
  /\ nextTid = 0
  /\ todo = <<>> /\ begun = NoRule

\* A rule that is one call of the cluster.
Simple(Call) ==
  /\ Idle
  /\ Call
  /\ UNCHANGED <<transfers, nextTid, todo, begun>>

\* issue_fresh
IssueFresh(src, dst, amount) ==
  /\ Idle
  /\ nextTid \in Tids
  /\ nextTid' = nextTid + 1
  /\ IF Affordable(src, amount)
       THEN /\ Issue(src, dst, amount, nextTid)
            /\ transfers' = Put(transfers, nextTid,
                                [src |-> src, dst |-> dst, amount |-> amount])
       ELSE UNCHANGED <<vars, transfers>>
  /\ UNCHANGED <<granted, crashes, todo, begun>>

\* A composite rule begins: its calls are drawn, none is made yet.
Begin(name, calls) ==
  /\ Idle
  /\ todo' = calls
  /\ begun' = [rule |-> name, calls |-> ToSet(calls),
               escrow |-> escrow, spent |-> spent, recvd |-> recvd,
               dEscrow |-> dEscrow, dSpent |-> dSpent, dRecvd |-> dRecvd,
               sentMsgs |-> sentMsgs, amtOf |-> amtOf]
  /\ UNCHANGED <<cvars, transfers, nextTid>>

\* issue_retry: an issue that succeeded is asked for again.
IssueRetry(tid) == Begin("issue_retry", <<IssueCall(tid)>>)

\* deliver_storm: deliveries of messages present now, with repetitions.
DeliverStorm(n) ==
  \E storm \in [1 .. n -> sentMsgs] :
    Begin("deliver_storm", [k \in 1 .. n |-> DeliverCall(storm[k])])

\* crash_repeat and crash_all, while the crashes they make are in the bound.
CrashRepeat(r, n) ==
  /\ crashes + n <= MaxCrashes
  /\ Begin("crash_repeat", [k \in 1 .. n |-> CrashCall(r)])

CrashAll ==
  /\ crashes + Len(Names) <= MaxCrashes
  /\ Begin("crash_all", [k \in DOMAIN Names |-> CrashCall(Names[k])])

\* One call of a composite rule; the cluster may refuse it.
Make(call) ==
  CASE call.op = "deliver" ->
         /\ IF NotCredited(call.msg) THEN Deliver(call.msg) ELSE UNCHANGED vars
         /\ UNCHANGED <<granted, crashes>>
    [] call.op = "crash" ->
         CountedCrash(call.at)
    [] call.op = "issue" ->
         LET t == transfers[call.tid]
         IN  /\ IF FreshId(call.tid) /\ Affordable(t.src, t.amount)
                  THEN Issue(t.src, t.dst, t.amount, call.tid)
                  ELSE UNCHANGED vars
             /\ UNCHANGED <<granted, crashes>>

Continue ==
  /\ ~Idle
  /\ Make(Head(todo))
  /\ todo' = Tail(todo)
  /\ begun' = IF Len(todo) = 1 THEN NoRule ELSE begun
  /\ UNCHANGED <<transfers, nextTid>>

HNext ==
  \/ \E r \in Replicas, amount \in Amounts : Simple(ClientCharge(r, amount))
  \/ \E src, dst \in Replicas, amount \in Amounts : IssueFresh(src, dst, amount)
  \/ \E tid \in DOMAIN transfers : IssueRetry(tid)
  \/ \E m \in sentMsgs : Simple(Deliver(m) /\ UNCHANGED <<granted, crashes>>)
  \/ \E n \in 2 .. MaxStorm : DeliverStorm(n)
  \/ \E m \in sentMsgs : Simple(Drop(m) /\ UNCHANGED <<granted, crashes>>)
  \/ \E r \in Replicas : Simple(Persist(r) /\ UNCHANGED <<granted, crashes>>)
  \/ \E r \in Replicas : Simple(CountedCrash(r))
  \/ \E r \in Replicas, n \in 2 .. MaxRepeat : CrashRepeat(r, n)
  \/ CrashAll
  \/ Continue

HSpec == HInit /\ [][HNext]_hvars

-----------------------------------------------------------------------------
(* Properties: what a composite rule has done when it ends, against the    *)
(* cluster as it was when the rule began.                                  *)

Ends(rules) == ~Idle /\ begun.rule \in rules /\ todo' = <<>>

\* A storm credits each message it touched at most once, and not at all where
\* it had been credited before, whatever the repetitions and the order.
StormTargets(r) == {c.msg.tid : c \in {d \in begun.calls : d.msg.dst = r}}
StormCreditsOnce ==
  [][Ends({"deliver_storm"}) =>
       /\ \A r \in Replicas :
            /\ recvd'[r] = begun.recvd[r] \cup StormTargets(r)
            /\ escrow'[r] = begun.escrow[r]
                              + SumOver(amtOf, StormTargets(r) \ begun.recvd[r])
       /\ spent' = begun.spent /\ sentMsgs' = begun.sentMsgs]_hvars

\* Crashes in a loop are one simultaneous crash: every replica they hit is
\* back at its own durable image of before the loop, no other replica, no
\* durable image and no message is touched.
Hit == {c.at : c \in begun.calls}
Crashed(image, current) ==
  [r \in Replicas |-> IF r \in Hit THEN image[r] ELSE current[r]]
CrashesAreSimultaneous ==
  [][Ends({"crash_repeat", "crash_all"}) =>
       /\ escrow' = Crashed(begun.dEscrow, begun.escrow)
       /\ spent'  = Crashed(begun.dSpent, begun.spent)
       /\ recvd'  = Crashed(begun.dRecvd, begun.recvd)
       /\ durable' = <<begun.dEscrow, begun.dSpent, begun.dRecvd>>
       /\ network' = <<begun.sentMsgs, begun.amtOf>>]_hvars
=============================================================================
