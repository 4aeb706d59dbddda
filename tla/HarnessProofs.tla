--------------------------- MODULE HarnessProofs ----------------------------
(***************************************************************************)
(* The clients of the crash/recovery cluster and its hostile driver, for   *)
(* every set of replicas, ids and amounts, every cap, and storms and       *)
(* crash loops of every length.                                            *)
(*                                                                         *)
(* The driver's steps are steps of the clients' specification, and those   *)
(* are steps of the cluster's, so what DurableClusterProofs proves holds   *)
(* under the driver.  The first of these needs an invariant: a call that a *)
(* composite rule has still to make was drawn from an earlier state, and   *)
(* must still be a call the cluster would be asked for (CallsCurrent).     *)
(*                                                                         *)
(* What a loop does as a whole is proved from what it has done so far:     *)
(* StormSoFar and CrashesSoFar relate the cluster to the cluster as it was *)
(* when the loop began and to the calls still in todo.                     *)
(***************************************************************************)
EXTENDS Harness, DurableClusterProofs, SequenceTheorems

-----------------------------------------------------------------------------
(* The clients.                                                            *)

ClientTypes == granted \in [Replicas -> Nat] /\ crashes \in Nat

\* Inductive for every configuration.
ClientInv == TypeInv /\ ClientTypes /\ SpentIsGranted

\* What was authorised and is no longer recorded was lost in a crash, and no
\* crash loses more than the cap.  Inductive for the disciplined cluster;
\* GrantedWithinCrashes alone is not, for it does not bound what a charge
\* after a crash may add.
ForgottenWithinCrashes == TotalGranted <= TotalSpent + crashes * CAP

\* A step of the clients is a step of the cluster.
LEMMA ClientStep == [CNext]_cvars => [Next]_vars
  BY DEF CNext, ClientCharge, CountedCrash, ClusterStep, Next, cvars

\* What a step of the clients does to the totals they have been promised.
LEMMA ClientTypesStep ==
  ASSUME TypeInv, ClientTypes, [CNext]_cvars
  PROVE  ClientTypes'
<1> USE DEF ClientTypes
<1>1. ASSUME NEW r \in Replicas, NEW amount \in Amounts, ClientCharge(r, amount)
      PROVE  ClientTypes'
  BY <1>1, ConstantsOK DEF ClientCharge
<1>2. ASSUME NEW r \in Replicas, CountedCrash(r)
      PROVE  ClientTypes'
  BY <1>2 DEF CountedCrash
<1>3. CASE UNCHANGED <<granted, crashes>>
  BY <1>3
<1> QED
  BY <1>1, <1>2, <1>3 DEF CNext, ClusterStep, cvars

\* Spent is recorded only with a charge that is answered True; a checkpoint
\* copies it and a crash goes back to such a copy.
LEMMA NextClientInv == ClientInv /\ [CNext]_cvars => ClientInv'
<1> SUFFICES ASSUME ClientInv, [CNext]_cvars PROVE ClientInv'
  OBVIOUS
<1>1. TypeInv' /\ ClientTypes'
  BY ClientStep, NextTypeInv, ClientTypesStep DEF ClientInv
<1>2. /\ spent \in [Replicas -> Nat] /\ dSpent \in [Replicas -> Nat]
      /\ granted \in [Replicas -> Nat] /\ Amounts \subseteq Nat
      /\ SpentIsGranted
  BY ConstantsOK DEF ClientInv, ClientTypes, TypeInv, TypeOK
<1>3. ASSUME NEW r \in Replicas, NEW amount \in Amounts, ClientCharge(r, amount)
      PROVE  SpentIsGranted'
  BY <1>2, <1>3 DEF SpentIsGranted, ClientCharge, Charge, durable
<1>4. ASSUME NEW r \in Replicas, CountedCrash(r)
      PROVE  SpentIsGranted'
  BY <1>2, <1>4 DEF SpentIsGranted, CountedCrash, Crash, RestoredSpent, durable
<1>5. ASSUME NEW r \in Replicas, Persist(r), granted' = granted
      PROVE  SpentIsGranted'
  BY <1>2, <1>5 DEF SpentIsGranted, Persist, PersistedSpent, volatile
<1>6. ASSUME UNCHANGED <<spent, dSpent, granted>>
      PROVE  SpentIsGranted'
  BY <1>2, <1>6 DEF SpentIsGranted
<1>7. \/ \E r \in Replicas, amount \in Amounts : ClientCharge(r, amount)
      \/ \E r \in Replicas : CountedCrash(r)
      \/ \E r \in Replicas : Persist(r) /\ granted' = granted
      \/ UNCHANGED <<spent, dSpent, granted>>
  BY DEF CNext, ClusterStep, Issue, Deliver, Drop, volatile, durable, cvars, vars
<1>8. SpentIsGranted'
  BY <1>3, <1>4, <1>5, <1>6, <1>7
<1> QED
  BY <1>1, <1>8 DEF ClientInv

\* The clients start with nothing promised.
LEMMA InitClientInv == CInit => ClientInv
<1> SUFFICES ASSUME CInit PROVE ClientInv
  OBVIOUS
<1>1. TypeInv
  BY InitTypeInv DEF CInit
<1>2. ClientTypes /\ SpentIsGranted
  BY DEF CInit, Init, ClientTypes, SpentIsGranted
<1> QED
  BY <1>1, <1>2 DEF ClientInv

\* The invariant of the clients.
LEMMA ClientInvariance == CSpec => []ClientInv
  BY InitClientInv, NextClientInv, PTL DEF CSpec

\* The clients add no behaviour to the cluster: everything proved of Spec
\* holds under them.
THEOREM ClientsImplementCluster == CSpec => Spec
<1>1. CInit => Init
  BY DEF CInit
<1> QED
  BY <1>1, ClientStep, PTL DEF CSpec, Spec

\* In every configuration no replica records, or comes back from a crash
\* with, more spent than charge() answered True to its clients.
THEOREM SpentWasGranted == CSpec => []SpentIsGranted
<1>1. ClientInv => SpentIsGranted
  BY DEF ClientInv
<1> QED
  BY <1>1, ClientInvariance, PTL

\* The two totals are natural numbers.
LEMMA GrantedTotals ==
  ASSUME ClientInv
  PROVE  TotalGranted \in Nat /\ TotalSpent \in Nat /\ crashes \in Nat /\ CAP \in Nat
<1>1. NatOn(granted, Replicas)
  BY DEF ClientInv, ClientTypes, NatOn
<1> QED
  BY <1>1, SumType, TotalsType, ConstantsOK DEF TotalGranted, ClientInv, ClientTypes

\* One more crash is worth one more cap.
LEMMA OneMoreCap ==
  ASSUME NEW n \in Nat, NEW c \in Nat
  PROVE  (n + 1) * c = n * c + c /\ (1 + n) * c = n * c + c /\ n * c \in Nat
  OBVIOUS

\* What is forgotten in one crash is within one cap.
LEMMA CapForgotten ==
  ASSUME NEW g \in Nat, NEW before \in Nat, NEW after \in Nat,
         NEW p \in Nat, NEW c \in Nat, before <= c, g <= before + p
  PROVE  g <= after + (p + c)
  OBVIOUS

\* A charge raises what is authorised and what is recorded alike; a crash
\* takes back at most everything that is recorded, which is within the cap.
LEMMA ForgottenStep ==
  ASSUME ClientInv, DurableInv, ForgottenWithinCrashes, [CNext]_cvars
  PROVE  ForgottenWithinCrashes'
<1>0. ClientInv'
  BY NextClientInv
<1>1. /\ TotalGranted \in Nat /\ TotalSpent \in Nat /\ crashes \in Nat /\ CAP \in Nat
      /\ TotalSpent <= CAP
  <2>1. TotalSpent <= CAP
    BY TotalsType, ConstantsOK DEF DurableInv, SafetyLe, Quantity
  <2> QED
    BY <2>1, GrantedTotals
<1>2. TotalSpent' \in Nat
  BY <1>0, TotalsTypeAfter DEF ClientInv
<1>3. ASSUME NEW r \in Replicas, NEW amount \in Amounts, ClientCharge(r, amount)
      PROVE  ForgottenWithinCrashes'
  <2>1. /\ amount \in Nat /\ granted[r] \in Nat /\ spent[r] \in Nat
        /\ granted'[r] = granted[r] + amount /\ spent'[r] = spent[r] + amount
        /\ \A s \in Replicas \ {r} : granted'[s] = granted[s] /\ spent'[s] = spent[s]
    BY <1>3, ConstantsOK DEF ClientCharge, Charge, ClientInv, ClientTypes, TypeInv, TypeOK
  <2>2. NatOn(granted, Replicas) /\ NatOn(granted', Replicas)
    BY <1>0 DEF ClientInv, ClientTypes, NatOn
  <2>3. TotalGranted' = TotalGranted - granted[r] + (granted[r] + amount)
    BY <2>1, <2>2, SumUpdate, ConstantsOK DEF TotalGranted
  <2>4. TotalSpent' = TotalSpent - spent[r] + (spent[r] + amount)
    BY <1>0, <2>1, UpdateTotals DEF ClientInv
  <2>5. crashes' = crashes
    BY <1>3 DEF ClientCharge
  <2>6. crashes' * CAP = crashes * CAP /\ crashes * CAP \in Nat
    BY <1>1, <2>5, OneMoreCap
  <2>7. /\ TotalGranted' = TotalGranted + amount
        /\ TotalSpent' = TotalSpent + amount
    BY <1>1, <2>1, <2>3, <2>4
  <2> QED
    BY <1>1, <2>1, <2>6, <2>7 DEF ForgottenWithinCrashes
<1>4. ASSUME NEW r \in Replicas, CountedCrash(r)
      PROVE  ForgottenWithinCrashes'
  <2>1. TotalGranted' = TotalGranted /\ crashes' = crashes + 1
    BY <1>4 DEF CountedCrash, TotalGranted
  <2>2. (crashes + 1) * CAP = crashes * CAP + CAP /\ crashes * CAP \in Nat
    BY <1>1, OneMoreCap
  <2>3. crashes' * CAP = crashes * CAP + CAP
    BY <2>1, <2>2
  <2>4. TotalGranted <= TotalSpent + crashes * CAP
    BY DEF ForgottenWithinCrashes
  <2>5. TotalGranted <= TotalSpent' + (crashes * CAP + CAP)
    BY <1>1, <1>2, <2>2, <2>4, CapForgotten
  <2> QED
    BY <2>1, <2>3, <2>5 DEF ForgottenWithinCrashes
<1>5. CASE UNCHANGED <<spent, granted, crashes>>
  BY <1>5 DEF ForgottenWithinCrashes, TotalGranted, TotalSpent
<1> QED
  BY <1>3, <1>4, <1>5
  DEF CNext, ClusterStep, Issue, Deliver, Drop, Persist, volatile, durable, cvars, vars

\* With both disciplines, what is authorised to clients, the charges that
\* crashes reverted included, is within one cap per crash and one more.  The
\* README's stronger claim (one cap, whatever crashes) is refuted by a run.
THEOREM AuthorisedWithinCrashes ==
  ASSUME Disciplined PROVE CSpec => []GrantedWithinCrashes
<1> DEFINE Inv == ClientInv /\ DurableInv /\ ForgottenWithinCrashes
<1>1. CInit => Inv
  <2> SUFFICES ASSUME CInit PROVE Inv
    OBVIOUS
  <2>1. ClientInv /\ DurableInv
    BY InitClientInv, InitDurableInv DEF CInit
  <2>2. TotalGranted = 0
    <3>1. \A r \in Replicas : granted[r] = 0
      BY DEF CInit
    <3> QED
      BY <3>1, SumZero DEF TotalGranted
  <2>3. crashes * CAP \in Nat
    BY <2>1, GrantedTotals, OneMoreCap
  <2> QED
    BY <2>1, <2>2, <2>3, GrantedTotals DEF ForgottenWithinCrashes
<1>2. Inv /\ [CNext]_cvars => Inv'
  BY NextClientInv, ClientStep, NextDurableInv, ForgottenStep
<1>3. Inv => GrantedWithinCrashes
  <2> SUFFICES ASSUME Inv PROVE GrantedWithinCrashes
    OBVIOUS
  <2>1. TotalSpent <= CAP
    BY TotalsType, ConstantsOK DEF DurableInv, SafetyLe, Quantity
  <2>2. (1 + crashes) * CAP = crashes * CAP + CAP /\ crashes * CAP \in Nat
    BY GrantedTotals, OneMoreCap
  <2> QED
    BY <2>1, <2>2, GrantedTotals DEF ForgottenWithinCrashes, GrantedWithinCrashes
<1> QED
  BY <1>1, <1>2, <1>3, PTL DEF CSpec

-----------------------------------------------------------------------------
(* The driver.                                                             *)

\* What the loop of a composite rule may still ask the cluster: to deliver a
\* message that is there, to crash a replica, to issue an id that is known.
Calls == {DeliverCall(m) : m \in sentMsgs}
           \cup {CrashCall(r) : r \in Replicas}
           \cup {IssueCall(t) : t \in DOMAIN amtOf}

\* The calls a loop has drawn are still such calls, and the driver remembers
\* only issues that the cluster knows.
CallsCurrent == todo \in Seq(Calls) /\ DOMAIN transfers \subseteq DOMAIN amtOf

\* A replica restarts with its durable dedup set: without the discipline
\* none is ever written.
RestoredIsDurable == \A r \in Replicas : RestoredRecvd(r) = dRecvd[r]

\* A storm has so far credited what it delivered, nothing that it will not
\* deliver, and each transfer for its amount, once.
StormSoFar ==
  /\ ToSet(todo) \subseteq begun.calls
  /\ begun.calls \subseteq {DeliverCall(m) : m \in sentMsgs}
  /\ begun.escrow \in [Replicas -> Nat]
  /\ \A c \in begun.calls \ ToSet(todo) : c.msg.tid \in recvd[c.msg.dst]
  /\ \A r \in Replicas :
       /\ begun.recvd[r] \subseteq recvd[r]
       /\ recvd[r] \subseteq begun.recvd[r] \cup StormTargets(r)
       /\ escrow[r] = begun.escrow[r] + SumOver(amtOf, recvd[r] \ begun.recvd[r])
  /\ spent = begun.spent /\ sentMsgs = begun.sentMsgs

\* The volatile state of a replica is the given one.
StateIs(r, e, s, c) == escrow[r] = e[r] /\ spent[r] = s[r] /\ recvd[r] = c[r]

\* A loop of crashes has so far put the replicas it crashed back at their
\* durable images and left those it will not crash as they were.
CrashesSoFar ==
  /\ ToSet(todo) \subseteq begun.calls
  /\ begun.calls \subseteq {CrashCall(r) : r \in Replicas}
  /\ \A c \in begun.calls \ ToSet(todo) :
       StateIs(c.at, begun.dEscrow, begun.dSpent, begun.dRecvd)
  /\ \A r \in Replicas \ Hit :
       StateIs(r, begun.escrow, begun.spent, begun.recvd)
  /\ durable = <<begun.dEscrow, begun.dSpent, begun.dRecvd>>
  /\ network = <<begun.sentMsgs, begun.amtOf>>

LoopsSoFar ==
  ~Idle => /\ begun.rule = "deliver_storm" => StormSoFar
           /\ begun.rule \in {"crash_repeat", "crash_all"} => CrashesSoFar

\* Inductive for every configuration.
DriverInv == TypeInv /\ CallsCurrent /\ RestoredIsDurable /\ LoopsSoFar

-----------------------------------------------------------------------------
(* One call of a loop.                                                     *)

\* The next call, and what is left.
LEMMA NextCall ==
  ASSUME CallsCurrent, ~Idle
  PROVE  /\ Head(todo) \in Calls /\ Tail(todo) \in Seq(Calls)
         /\ ToSet(todo) = {Head(todo)} \cup ToSet(Tail(todo))
         /\ Tail(todo) = <<>> <=> Len(todo) = 1
<1>1. todo \in Seq(Calls) /\ todo # <<>>
  BY DEF CallsCurrent, Idle
<1>2. /\ Head(todo) \in Calls /\ Tail(todo) \in Seq(Calls)
      /\ Len(Tail(todo)) = Len(todo) - 1
      /\ \A i \in 1 .. Len(Tail(todo)) : Tail(todo)[i] = todo[i + 1]
  BY <1>1, HeadTailProperties
<1>3. /\ Len(todo) \in Nat \ {0} /\ DOMAIN todo = 1 .. Len(todo)
      /\ DOMAIN Tail(todo) = 1 .. Len(Tail(todo)) /\ Head(todo) = todo[1]
  BY <1>1, <1>2, LenProperties, EmptySeq
<1>4. ToSet(todo) = {todo[i] : i \in 1 .. Len(todo)}
      /\ ToSet(Tail(todo)) = {todo[i + 1] : i \in 1 .. Len(todo) - 1}
  BY <1>2, <1>3 DEF ToSet
<1>5. ASSUME NEW i \in 1 .. Len(todo)
      PROVE  i = 1 \/ \E j \in 1 .. Len(todo) - 1 : i = j + 1
  <2>1. i # 1 => i - 1 \in 1 .. Len(todo) - 1 /\ i = (i - 1) + 1
    BY <1>3
  <2> QED
    BY <2>1
<1>6. 1 \in 1 .. Len(todo) /\ \A j \in 1 .. Len(todo) - 1 : j + 1 \in 1 .. Len(todo)
  BY <1>3
<1>7. ToSet(todo) = {Head(todo)} \cup ToSet(Tail(todo))
  BY <1>3, <1>4, <1>5, <1>6
<1>8. Tail(todo) = <<>> <=> Len(todo) = 1
  BY <1>2, <1>3, EmptySeq
<1> QED
  BY <1>2, <1>7, <1>8

\* Calls of different kinds differ.
LEMMA CallKinds ==
  /\ \A m : DeliverCall(m).op = "deliver" /\ DeliverCall(m).msg = m
  /\ \A r : CrashCall(r).op = "crash" /\ CrashCall(r).at = r
  /\ \A t : IssueCall(t).op = "issue" /\ IssueCall(t).tid = t
  BY DEF DeliverCall, CrashCall, IssueCall

\* What a loop's step does to the cluster: a delivery of a message that is
\* there, refused if it was credited; a crash of a replica; or, for a retried
\* send, nothing, because the id is known.
LEMMA MadeCall ==
  ASSUME CallsCurrent, Continue
  PROVE  \/ \E m \in sentMsgs :
              /\ Head(todo) = DeliverCall(m)
              /\ Deliver(m) \/ (~NotCredited(m) /\ UNCHANGED vars)
              /\ UNCHANGED <<granted, crashes>>
         \/ \E r \in Replicas : Head(todo) = CrashCall(r) /\ CountedCrash(r)
         \/ /\ Head(todo) \in {IssueCall(t) : t \in DOMAIN amtOf}
            /\ UNCHANGED cvars
<1>1. Head(todo) \in Calls /\ Make(Head(todo))
  BY NextCall DEF Continue
<1>2. ASSUME NEW m \in sentMsgs, Head(todo) = DeliverCall(m)
      PROVE  /\ Deliver(m) \/ (~NotCredited(m) /\ UNCHANGED vars)
             /\ UNCHANGED <<granted, crashes>>
  <2>1. Head(todo).op = "deliver" /\ Head(todo).msg = m
    BY <1>2, CallKinds
  <2> QED
    BY <1>1, <2>1 DEF Make
<1>3. ASSUME NEW r \in Replicas, Head(todo) = CrashCall(r)
      PROVE  CountedCrash(r)
  <2>1. Head(todo).op = "crash" /\ Head(todo).at = r
    BY <1>3, CallKinds
  <2> QED
    BY <1>1, <2>1 DEF Make
<1>4. ASSUME NEW t \in DOMAIN amtOf, Head(todo) = IssueCall(t)
      PROVE  UNCHANGED cvars
  <2>1. Head(todo).op = "issue" /\ Head(todo).tid = t
    BY <1>4, CallKinds
  <2> QED
    BY <1>1, <2>1 DEF Make, FreshId, cvars
<1> QED
  BY <1>1, <1>2, <1>3, <1>4 DEF Calls

\* A loop never touches the network, and each of its calls is a step of the
\* clients.
LEMMA LoopStep ==
  ASSUME CallsCurrent, Continue
  PROVE  [CNext]_cvars /\ sentMsgs' = sentMsgs /\ amtOf' = amtOf
<1>1. CASE \E m \in sentMsgs : /\ Deliver(m) \/ (~NotCredited(m) /\ UNCHANGED vars)
                               /\ UNCHANGED <<granted, crashes>>
  BY <1>1 DEF CNext, ClusterStep, Deliver, network, vars, cvars
<1>2. CASE \E r \in Replicas : CountedCrash(r)
  BY <1>2 DEF CNext, CountedCrash, Crash, network
<1>3. CASE UNCHANGED cvars
  BY <1>3 DEF cvars, vars
<1> QED
  BY <1>1, <1>2, <1>3, MadeCall

-----------------------------------------------------------------------------
(* The driver's rules.                                                     *)

\* A composite rule begins with calls the cluster could be asked for now.
Begins ==
  \/ \E tid \in DOMAIN transfers : IssueRetry(tid)
  \/ \E n \in 2 .. MaxStorm : DeliverStorm(n)
  \/ \E r \in Replicas, n \in 2 .. MaxRepeat : CrashRepeat(r, n)
  \/ CrashAll

\* A rule that is one call is a step of the clients.
LEMMA RuleKinds ==
  ASSUME [HNext]_hvars
  PROVE  \/ /\ Idle /\ UNCHANGED <<todo, begun>>
            /\ [CNext]_cvars
            /\ DOMAIN transfers' \subseteq DOMAIN transfers \cup DOMAIN amtOf'
         \/ Begins
         \/ Continue
         \/ UNCHANGED hvars
<1> DEFINE OneCall ==
             /\ Idle /\ UNCHANGED <<todo, begun>>
             /\ [CNext]_cvars
             /\ DOMAIN transfers' \subseteq DOMAIN transfers \cup DOMAIN amtOf'
<1>1. ASSUME NEW r \in Replicas, NEW amount \in Amounts,
             Simple(ClientCharge(r, amount))
      PROVE  OneCall
  BY <1>1 DEF Simple, CNext
<1>2. ASSUME NEW src \in Replicas, NEW dst \in Replicas, NEW amount \in Amounts,
             IssueFresh(src, dst, amount)
      PROVE  OneCall
  <2>1. CASE Affordable(src, amount)
    <3>1. Issue(src, dst, amount, nextTid) /\ nextTid \in Tids
          /\ UNCHANGED <<granted, crashes, todo, begun>> /\ Idle
          /\ transfers' = Put(transfers, nextTid,
                              [src |-> src, dst |-> dst, amount |-> amount])
      BY <1>2, <2>1 DEF IssueFresh
    <3>2. DOMAIN transfers' = DOMAIN transfers \cup {nextTid}
      BY <3>1 DEF Put
    <3>3. nextTid \in DOMAIN amtOf'
      BY <3>1 DEF Issue, Put
    <3>4. CNext
      BY <3>1 DEF CNext, ClusterStep
    <3> QED
      BY <3>1, <3>2, <3>3, <3>4
  <2>2. CASE ~Affordable(src, amount)
    BY <1>2, <2>2 DEF IssueFresh, cvars
  <2> QED
    BY <2>1, <2>2
<1>3. ASSUME NEW m \in sentMsgs,
             \/ Simple(Deliver(m) /\ UNCHANGED <<granted, crashes>>)
             \/ Simple(Drop(m) /\ UNCHANGED <<granted, crashes>>)
      PROVE  OneCall
  BY <1>3 DEF Simple, CNext, ClusterStep
<1>4. ASSUME NEW r \in Replicas,
             \/ Simple(Persist(r) /\ UNCHANGED <<granted, crashes>>)
             \/ Simple(CountedCrash(r))
      PROVE  OneCall
  BY <1>4 DEF Simple, CNext, ClusterStep
<1> QED
  <2> HIDE DEF OneCall
  <2>1. OneCall \/ Begins \/ Continue \/ UNCHANGED hvars
    BY <1>1, <1>2, <1>3, <1>4 DEF HNext, Begins
  <2> QED
    BY <2>1 DEF OneCall

\* What a beginning rule draws.
LEMMA DrawnCalls ==
  ASSUME CallsCurrent, Begins
  PROVE  /\ Idle /\ UNCHANGED <<cvars, transfers, nextTid>>
         /\ todo' \in Seq(Calls)
         /\ begun' = [rule |-> begun'.rule, calls |-> ToSet(todo'),
                      escrow |-> escrow, spent |-> spent, recvd |-> recvd,
                      dEscrow |-> dEscrow, dSpent |-> dSpent, dRecvd |-> dRecvd,
                      sentMsgs |-> sentMsgs, amtOf |-> amtOf]
         /\ begun'.rule = "deliver_storm" =>
              ToSet(todo') \subseteq {DeliverCall(m) : m \in sentMsgs}
         /\ begun'.rule \in {"crash_repeat", "crash_all"} =>
              ToSet(todo') \subseteq {CrashCall(r) : r \in Replicas}
<1>1. ASSUME NEW name, NEW calls, Begin(name, calls)
      PROVE  /\ Idle /\ UNCHANGED <<cvars, transfers, nextTid>>
             /\ todo' = calls /\ begun'.rule = name
             /\ begun' = [rule |-> begun'.rule, calls |-> ToSet(todo'),
                          escrow |-> escrow, spent |-> spent, recvd |-> recvd,
                          dEscrow |-> dEscrow, dSpent |-> dSpent, dRecvd |-> dRecvd,
                          sentMsgs |-> sentMsgs, amtOf |-> amtOf]
  BY <1>1 DEF Begin
<1>2. ASSUME NEW n \in Nat, NEW calls \in [1 .. n -> Calls]
      PROVE  calls \in Seq(Calls) /\ ToSet(calls) = {calls[i] : i \in 1 .. n}
  BY <1>2 DEF ToSet
<1>3. ASSUME NEW tid \in DOMAIN transfers, IssueRetry(tid)
      PROVE  todo' \in Seq(Calls) /\ begun'.rule = "issue_retry"
  <2>1. IssueCall(tid) \in Calls
    BY DEF CallsCurrent, Calls
  <2>2. Begin("issue_retry", <<IssueCall(tid)>>)
    BY <1>3 DEF IssueRetry
  <2>3. todo' = <<IssueCall(tid)>> /\ begun'.rule = "issue_retry"
    BY <1>1, <2>2
  <2>4. \A c \in Calls : <<c>> \in Seq(Calls)
    OBVIOUS
  <2> QED
    BY <2>1, <2>3, <2>4
<1>4. ASSUME NEW n \in 2 .. MaxStorm, DeliverStorm(n)
      PROVE  /\ todo' \in Seq(Calls) /\ begun'.rule = "deliver_storm"
             /\ ToSet(todo') \subseteq {DeliverCall(m) : m \in sentMsgs}
  <2>1. PICK storm \in [1 .. n -> sentMsgs] :
          Begin("deliver_storm", [k \in 1 .. n |-> DeliverCall(storm[k])])
    BY <1>4 DEF DeliverStorm
  <2> DEFINE calls == [k \in 1 .. n |-> DeliverCall(storm[k])]
  <2>2. n \in Nat
    BY HarnessOK
  <2>3. calls \in [1 .. n -> Calls]
    BY DEF Calls
  <2>4. \A k \in 1 .. n : calls[k] \in {DeliverCall(m) : m \in sentMsgs}
    OBVIOUS
  <2>5. Begin("deliver_storm", calls)
    BY <2>1
  <2> HIDE DEF calls
  <2>6. todo' = calls /\ begun'.rule = "deliver_storm"
    BY <1>1, <2>5
  <2> QED
    BY <1>2, <2>2, <2>3, <2>4, <2>6
<1>5. ASSUME NEW r \in Replicas, NEW n \in 2 .. MaxRepeat, CrashRepeat(r, n)
      PROVE  /\ todo' \in Seq(Calls) /\ begun'.rule = "crash_repeat"
             /\ ToSet(todo') \subseteq {CrashCall(s) : s \in Replicas}
  <2> DEFINE calls == [k \in 1 .. n |-> CrashCall(r)]
  <2>1. Begin("crash_repeat", calls)
    BY <1>5 DEF CrashRepeat
  <2>2. n \in Nat
    BY HarnessOK
  <2>3. calls \in [1 .. n -> Calls]
    BY DEF Calls
  <2>4. \A k \in 1 .. n : calls[k] \in {CrashCall(s) : s \in Replicas}
    OBVIOUS
  <2> HIDE DEF calls
  <2>5. todo' = calls /\ begun'.rule = "crash_repeat"
    BY <1>1, <2>1
  <2> QED
    BY <1>2, <2>2, <2>3, <2>4, <2>5
<1>6. ASSUME CrashAll
      PROVE  /\ todo' \in Seq(Calls) /\ begun'.rule = "crash_all"
             /\ ToSet(todo') \subseteq {CrashCall(s) : s \in Replicas}
  <2> DEFINE n == Len(Names)
             calls == [k \in 1 .. n |-> CrashCall(Names[k])]
  <2>1. n \in Nat /\ DOMAIN Names = 1 .. n /\ Names \in [1 .. n -> Replicas]
    BY HarnessOK, LenProperties
  <2>2. Begin("crash_all", calls)
    BY <1>6, <2>1 DEF CrashAll
  <2>3. calls \in [1 .. n -> Calls]
    BY <2>1 DEF Calls
  <2>4. \A k \in 1 .. n : calls[k] \in {CrashCall(s) : s \in Replicas}
    BY <2>1
  <2> HIDE DEF calls
  <2>5. todo' = calls /\ begun'.rule = "crash_all"
    BY <1>1, <2>2
  <2> QED
    BY <1>2, <2>1, <2>3, <2>4, <2>5
<1>7. \E name, calls : Begin(name, calls)
  BY DEF Begins, IssueRetry, DeliverStorm, CrashRepeat, CrashAll
<1> QED
  BY <1>1, <1>3, <1>4, <1>5, <1>6, <1>7 DEF Begins

-----------------------------------------------------------------------------
(* The driver's calls stay current, so its steps are the clients'.         *)

\* Every step of the driver is a step of the clients.
LEMMA DriverStep ==
  ASSUME CallsCurrent, [HNext]_hvars
  PROVE  [CNext]_cvars
<1>1. Begins => UNCHANGED cvars
  BY DrawnCalls
<1>2. Continue => [CNext]_cvars
  BY LoopStep
<1>3. UNCHANGED hvars => UNCHANGED cvars
  BY DEF hvars
<1> QED
  BY <1>1, <1>2, <1>3, RuleKinds

\* An id that was issued stays known.
LEMMA KnownStaysKnown ==
  ASSUME [Next]_vars
  PROVE  DOMAIN amtOf \subseteq DOMAIN amtOf'
<1>1. CASE amtOf' = amtOf
  BY <1>1
<1>2. CASE \E src, dst \in Replicas, amount \in Amounts, tid \in Tids :
             Issue(src, dst, amount, tid)
  BY <1>2 DEF Issue, Put
<1> QED
  BY <1>1, <1>2
  DEF Next, Charge, Deliver, Drop, Persist, Crash, network, vars

\* Messages leave the network, and are forgotten by no one else, only
\* between rules.
LEMMA CallsStayCurrent ==
  ASSUME CallsCurrent, [HNext]_hvars
  PROVE  CallsCurrent'
<1>1. DOMAIN amtOf \subseteq DOMAIN amtOf'
  BY DriverStep, ClientStep, KnownStaysKnown
<1>2. CASE /\ Idle /\ UNCHANGED <<todo, begun>>
           /\ DOMAIN transfers' \subseteq DOMAIN transfers \cup DOMAIN amtOf'
  <2>1. todo' \in Seq(Calls')
    BY <1>2, EmptySeq DEF Idle
  <2> QED
    BY <1>1, <1>2, <2>1 DEF CallsCurrent
<1>3. CASE Begins
  <2>1. sentMsgs' = sentMsgs /\ amtOf' = amtOf /\ transfers' = transfers
    BY <1>3, DrawnCalls DEF cvars, vars
  <2>2. Calls' = Calls
    BY <2>1 DEF Calls, DeliverCall, CrashCall, IssueCall
  <2> QED
    BY <1>3, <2>1, <2>2, DrawnCalls DEF CallsCurrent
<1>4. CASE Continue
  <2>1. sentMsgs' = sentMsgs /\ amtOf' = amtOf
    BY <1>4, LoopStep
  <2>2. Calls' = Calls
    BY <2>1 DEF Calls, DeliverCall, CrashCall, IssueCall
  <2>3. todo' = Tail(todo) /\ transfers' = transfers /\ ~Idle
    BY <1>4 DEF Continue
  <2> QED
    BY <2>1, <2>2, <2>3, NextCall DEF CallsCurrent
<1>5. CASE UNCHANGED hvars
  BY <1>5 DEF hvars, cvars, vars, CallsCurrent, Calls, DeliverCall, CrashCall, IssueCall
<1> QED
  BY <1>2, <1>3, <1>4, <1>5, RuleKinds

\* Without the discipline no dedup set is ever written; with it, the durable
\* one is what a crash restores.
LEMMA RestoredStep ==
  ASSUME RestoredIsDurable, [Next]_vars
  PROVE  RestoredIsDurable'
<1>1. CASE RecvdDurable
  BY <1>1 DEF RestoredIsDurable, RestoredRecvd
<1>2. CASE ~RecvdDurable
  <2>1. dRecvd' = dRecvd
    BY <1>2 DEF Next, Charge, Issue, Deliver, Drop, Persist, Crash, durable, vars
  <2> QED
    BY <1>2, <2>1 DEF RestoredIsDurable, RestoredRecvd
<1> QED
  BY <1>1, <1>2

\* The driver begins with nothing to do.
LEMMA InitDriver == HInit => TypeInv /\ CallsCurrent /\ RestoredIsDurable /\ Idle
<1> SUFFICES ASSUME HInit
             PROVE  TypeInv /\ CallsCurrent /\ RestoredIsDurable /\ Idle
  OBVIOUS
<1>1. TypeInv
  BY InitTypeInv DEF HInit, CInit
<1>2. todo = <<>> /\ DOMAIN transfers = {}
  BY EmptyDictType DEF HInit
<1>3. RestoredIsDurable
  BY DEF HInit, CInit, Init, RestoredIsDurable, RestoredRecvd
<1> QED
  BY <1>1, <1>2, <1>3, EmptySeq DEF CallsCurrent, Idle

\* Whatever the driver does, its clients could have done: what is proved of
\* them, and of the cluster, holds under every mix of faults it composes, a
\* retried send included, which is refused because its id is known.
THEOREM DriverImplementsClients == HSpec => CSpec
<1>1. HInit => CInit /\ CallsCurrent
  BY InitDriver DEF HInit
<1>2. CallsCurrent /\ [HNext]_hvars => CallsCurrent' /\ [CNext]_cvars
  BY CallsStayCurrent, DriverStep
<1> QED
  BY <1>1, <1>2, PTL DEF HSpec, CSpec

\* The certificate the driver checks after every rule: no escrow is negative,
\* the budget in existence is within the cap, and so is what is spent.  It is
\* never violated, with both disciplines on, not even inside a loop.
THEOREM CertificateHolds ==
  ASSUME Disciplined PROVE HSpec => [](TypeOK /\ SafetyLe /\ Safety)
  BY DriverImplementsClients, ClientsImplementCluster, TypeCorrect,
     BudgetWithinCap, SpentWithinCap, PTL

-----------------------------------------------------------------------------
(* Storms.                                                                 *)

\* A storm's targets at r are issued ids.
LEMMA TargetsAreIssued ==
  ASSUME TypeInv, StormSoFar, NEW r \in Replicas
  PROVE  StormTargets(r) \subseteq DOMAIN amtOf
<1>1. ASSUME NEW c \in begun.calls
      PROVE  c.msg.tid \in DOMAIN amtOf
  <2>1. PICK m \in sentMsgs : c = DeliverCall(m)
    BY <1>1 DEF StormSoFar
  <2>2. m.tid \in DOMAIN amtOf
    BY DEF TypeInv, Network
  <2> QED
    BY <2>1, <2>2, CallKinds
<1> QED
  BY <1>1 DEF StormTargets

\* The next delivery of a storm.
LEMMA StormStep ==
  ASSUME TypeInv, CallsCurrent, StormSoFar, Continue
  PROVE  /\ \A c \in begun.calls \ ToSet(Tail(todo)) : c.msg.tid \in recvd'[c.msg.dst]
         /\ \A r \in Replicas :
              /\ begun.recvd[r] \subseteq recvd'[r]
              /\ recvd'[r] \subseteq begun.recvd[r] \cup StormTargets(r)
              /\ escrow'[r] = begun.escrow[r] + SumOver(amtOf, recvd'[r] \ begun.recvd[r])
         /\ spent' = begun.spent /\ sentMsgs' = begun.sentMsgs
         /\ amtOf' = amtOf /\ ToSet(Tail(todo)) \subseteq begun.calls
<1>0. /\ Head(todo) \in begun.calls
      /\ ToSet(todo) = {Head(todo)} \cup ToSet(Tail(todo))
      /\ ToSet(Tail(todo)) \subseteq begun.calls
  BY NextCall DEF Continue, StormSoFar
<1>1. PICK m \in sentMsgs : Head(todo) = DeliverCall(m)
  BY <1>0 DEF StormSoFar
<1>2. Deliver(m) \/ (~NotCredited(m) /\ UNCHANGED vars)
  <2>1. \A r : Head(todo) # CrashCall(r) /\ Head(todo) # IssueCall(r)
    <3>1. Head(todo).op = "deliver" /\ Head(todo).msg = m
      BY <1>1, CallKinds
    <3> QED
      BY <3>1, CallKinds
  <2>2. PICK n \in sentMsgs : /\ Head(todo) = DeliverCall(n)
                              /\ Deliver(n) \/ (~NotCredited(n) /\ UNCHANGED vars)
    BY <2>1, MadeCall
  <2>3. n = m
    BY <1>1, <2>2, CallKinds
  <2> QED
    BY <2>2, <2>3
<1>3. /\ m.dst \in Replicas /\ m.tid \in DOMAIN amtOf /\ amtOf[m.tid] \in Nat
      /\ escrow \in [Replicas -> Nat] /\ recvd \in [Replicas -> SUBSET Tids]
      /\ amtOf \in [DOMAIN amtOf -> Nat] /\ IsFiniteSet(DOMAIN amtOf)
  BY DEF TypeInv, TypeOK, Network, Messages
<1>4. m.tid \in StormTargets(m.dst)
  BY <1>0, <1>1, CallKinds DEF StormTargets
<1>5. \A c \in begun.calls \ ToSet(Tail(todo)) :
        c \in begun.calls \ ToSet(todo) \/ (c.msg = m)
  BY <1>0, <1>1, CallKinds
<1>6. spent' = begun.spent /\ sentMsgs' = begun.sentMsgs /\ amtOf' = amtOf
  BY <1>2 DEF Deliver, network, vars, StormSoFar
<1>7. CASE UNCHANGED vars /\ ~NotCredited(m)
  <2>1. recvd' = recvd /\ escrow' = escrow /\ m.tid \in recvd[m.dst]
    BY <1>7 DEF vars, NotCredited
  <2>2. \A c \in begun.calls \ ToSet(Tail(todo)) : c.msg.tid \in recvd'[c.msg.dst]
    BY <1>5, <2>1 DEF StormSoFar
  <2> QED
    BY <1>0, <1>6, <2>1, <2>2 DEF StormSoFar
<1>8. CASE Deliver(m)
  <2>1. /\ m.tid \notin recvd[m.dst]
        /\ escrow'[m.dst] = escrow[m.dst] + amtOf[m.tid]
        /\ recvd'[m.dst] = recvd[m.dst] \cup {m.tid}
        /\ \A r \in Replicas \ {m.dst} : escrow'[r] = escrow[r] /\ recvd'[r] = recvd[r]
    BY <1>3, <1>8 DEF Deliver, NotCredited
  <2>2. \A r \in Replicas : recvd[r] \subseteq recvd'[r]
    BY <2>1
  <2>3. ASSUME NEW c \in begun.calls \ ToSet(Tail(todo))
        PROVE  c.msg.tid \in recvd'[c.msg.dst]
    <3>1. CASE c.msg = m
      BY <2>1, <3>1
    <3>2. CASE c \in begun.calls \ ToSet(todo)
      <4>1. c.msg.tid \in recvd[c.msg.dst] /\ c.msg.dst \in Replicas
        BY <3>2, CallKinds DEF StormSoFar, TypeInv, TypeOK, Messages
      <4> QED
        BY <2>2, <4>1
    <3> QED
      BY <1>5, <3>1, <3>2
  <2>4. ASSUME NEW r \in Replicas
        PROVE  /\ begun.recvd[r] \subseteq recvd'[r]
               /\ recvd'[r] \subseteq begun.recvd[r] \cup StormTargets(r)
               /\ escrow'[r] = begun.escrow[r] + SumOver(amtOf, recvd'[r] \ begun.recvd[r])
    <3>1. /\ begun.recvd[r] \subseteq recvd[r]
          /\ recvd[r] \subseteq begun.recvd[r] \cup StormTargets(r)
          /\ escrow[r] = begun.escrow[r] + SumOver(amtOf, recvd[r] \ begun.recvd[r])
          /\ begun.escrow[r] \in Nat
      BY DEF StormSoFar
    <3>2. CASE r # m.dst
      BY <2>1, <3>1, <3>2
    <3>3. CASE r = m.dst
      <4> DEFINE new == recvd[r] \ begun.recvd[r]
      <4>1. recvd'[r] \ begun.recvd[r] = new \cup {m.tid} /\ m.tid \notin new
        BY <2>1, <3>1, <3>3
      <4>2. new \cup {m.tid} \subseteq DOMAIN amtOf
        BY <1>3, <3>1, TargetsAreIssued
      <4>3. /\ IsFiniteSet(new) /\ NatOn(amtOf, new)
            /\ NatOn(amtOf, new \cup {m.tid})
        BY <1>3, <4>2, FS_Subset DEF NatOn
      <4>4. SumOver(amtOf, new \cup {m.tid}) = SumOver(amtOf, new) + amtOf[m.tid]
        BY <4>1, <4>3, SumAdd
      <4>5. SumOver(amtOf, new) \in Nat
        BY <4>3, SumType
      <4>6. escrow'[r] = begun.escrow[r] + SumOver(amtOf, new) + amtOf[m.tid]
        BY <2>1, <3>1, <3>3
      <4>7. escrow'[r] = begun.escrow[r] + SumOver(amtOf, new \cup {m.tid})
        BY <1>3, <3>1, <4>4, <4>5, <4>6
      <4> HIDE DEF new
      <4>8. escrow'[r] = begun.escrow[r] + SumOver(amtOf, recvd'[r] \ begun.recvd[r])
        BY <4>1, <4>7
      <4>9. recvd'[r] \subseteq begun.recvd[r] \cup StormTargets(r)
        BY <1>4, <2>1, <3>1, <3>3
      <4> QED
        BY <2>2, <3>1, <4>8, <4>9
    <3> QED
      BY <3>2, <3>3
  <2> QED
    BY <1>0, <1>6, <2>3, <2>4
<1> QED
  BY <1>2, <1>7, <1>8

-----------------------------------------------------------------------------
(* Loops of crashes.                                                       *)

\* The next crash of a loop.
LEMMA CrashStep ==
  ASSUME TypeInv, CallsCurrent, RestoredIsDurable, CrashesSoFar, Continue
  PROVE  /\ \A c \in begun.calls \ ToSet(Tail(todo)) :
              /\ escrow'[c.at] = begun.dEscrow[c.at] /\ spent'[c.at] = begun.dSpent[c.at]
              /\ recvd'[c.at] = begun.dRecvd[c.at]
         /\ \A r \in Replicas \ Hit :
              /\ escrow'[r] = begun.escrow[r] /\ spent'[r] = begun.spent[r]
              /\ recvd'[r] = begun.recvd[r]
         /\ durable' = <<begun.dEscrow, begun.dSpent, begun.dRecvd>>
         /\ network' = <<begun.sentMsgs, begun.amtOf>>
         /\ ToSet(Tail(todo)) \subseteq begun.calls
<1>0. /\ Head(todo) \in begun.calls
      /\ ToSet(todo) = {Head(todo)} \cup ToSet(Tail(todo))
      /\ ToSet(Tail(todo)) \subseteq begun.calls
  BY NextCall DEF Continue, CrashesSoFar
<1>1. PICK q \in Replicas : Head(todo) = CrashCall(q)
  BY <1>0 DEF CrashesSoFar
<1>2. Crash(q)
  <2>1. \A r : Head(todo) # DeliverCall(r) /\ Head(todo) # IssueCall(r)
    <3>1. Head(todo).op = "crash"
      BY <1>1, CallKinds
    <3> QED
      BY <3>1, CallKinds
  <2>2. PICK s \in Replicas : Head(todo) = CrashCall(s) /\ CountedCrash(s)
    BY <2>1, MadeCall
  <2>3. s = q
    BY <1>1, <2>2, CallKinds
  <2> QED
    BY <2>2, <2>3 DEF CountedCrash
<1>3. q \in Hit
  BY <1>0, <1>1, CallKinds DEF Hit
<1>4. /\ escrow'[q] = dEscrow[q] /\ spent'[q] = dSpent[q] /\ recvd'[q] = dRecvd[q]
      /\ \A r \in Replicas \ {q} : /\ escrow'[r] = escrow[r] /\ spent'[r] = spent[r]
                                   /\ recvd'[r] = recvd[r]
  BY <1>2 DEF Crash, RestoredSpent, RestoredIsDurable, TypeInv, TypeOK
<1>5. /\ dEscrow = begun.dEscrow /\ dSpent = begun.dSpent /\ dRecvd = begun.dRecvd
      /\ durable' = durable /\ network' = network
  BY <1>2 DEF Crash, CrashesSoFar, durable
<1>6. ASSUME NEW c \in begun.calls \ ToSet(Tail(todo))
      PROVE  /\ escrow'[c.at] = begun.dEscrow[c.at] /\ spent'[c.at] = begun.dSpent[c.at]
             /\ recvd'[c.at] = begun.dRecvd[c.at]
  <2>1. c.at \in Replicas
    BY CallKinds DEF CrashesSoFar
  <2>2. CASE c.at = q
    BY <1>4, <1>5, <2>2
  <2>3. CASE c.at # q
    <3>1. c \in begun.calls \ ToSet(todo)
      BY <1>0, <1>1, <2>3, CallKinds
    <3> QED
      BY <1>4, <2>1, <2>3, <3>1 DEF CrashesSoFar, StateIs
  <2> QED
    BY <2>2, <2>3
<1>7. ASSUME NEW r \in Replicas \ Hit
      PROVE  /\ escrow'[r] = begun.escrow[r] /\ spent'[r] = begun.spent[r]
             /\ recvd'[r] = begun.recvd[r]
  BY <1>3, <1>4 DEF CrashesSoFar, StateIs
<1> QED
  BY <1>0, <1>5, <1>6, <1>7 DEF CrashesSoFar

-----------------------------------------------------------------------------
(* The loops, from their beginning to their end.                           *)

\* A loop that has just begun has done nothing.
LEMMA LoopsBegin ==
  ASSUME TypeInv, CallsCurrent, Begins
  PROVE  LoopsSoFar'
<1>1. /\ UNCHANGED vars
      /\ begun'.calls = ToSet(todo') /\ begun'.escrow = escrow
      /\ begun'.spent = spent /\ begun'.recvd = recvd
      /\ begun'.dEscrow = dEscrow /\ begun'.dSpent = dSpent /\ begun'.dRecvd = dRecvd
      /\ begun'.sentMsgs = sentMsgs /\ begun'.amtOf = amtOf
  BY DrawnCalls DEF cvars
<1>2. ASSUME begun'.rule = "deliver_storm"
      PROVE  StormSoFar'
  <2>1. begun'.calls \subseteq {DeliverCall(m) : m \in sentMsgs'}
    BY <1>1, <1>2, DrawnCalls DEF vars
  <2>2. begun'.escrow \in [Replicas -> Nat]
    BY <1>1 DEF TypeInv, TypeOK
  <2>3. ASSUME NEW r \in Replicas
        PROVE  escrow'[r] = begun'.escrow[r] + SumOver(amtOf', recvd'[r] \ begun'.recvd[r])
    <3>1. recvd'[r] \ begun'.recvd[r] = {}
      BY <1>1 DEF vars
    <3>2. SumOver(amtOf', recvd'[r] \ begun'.recvd[r]) = 0
      BY <3>1, SumEmpty
    <3>3. escrow'[r] = begun'.escrow[r] /\ escrow'[r] \in Nat
      BY <1>1 DEF vars, TypeInv, TypeOK
    <3> QED
      BY <3>2, <3>3
  <2> QED
    BY <1>1, <2>1, <2>2, <2>3 DEF StormSoFar, vars, DeliverCall
<1>3. ASSUME begun'.rule \in {"crash_repeat", "crash_all"}
      PROVE  CrashesSoFar'
  <2>1. begun'.calls \subseteq {CrashCall(r) : r \in Replicas}
    BY <1>1, <1>3, DrawnCalls
  <2> QED
    BY <1>1, <2>1 DEF CrashesSoFar, StateIs, vars, durable, network, CrashCall
<1> QED
  BY <1>2, <1>3 DEF LoopsSoFar

\* A loop that has a call left has done what it has done.
LEMMA LoopsContinue ==
  ASSUME TypeInv, CallsCurrent, RestoredIsDurable, LoopsSoFar, Continue
  PROVE  LoopsSoFar'
<1> SUFFICES ASSUME todo' # <<>>
             PROVE  LoopsSoFar'
  BY DEF LoopsSoFar, Idle
<1>1. ~Idle /\ todo' = Tail(todo) /\ begun' = begun
  BY NextCall DEF Continue
<1>2. ASSUME begun.rule = "deliver_storm"
      PROVE  StormSoFar'
  <2>1. StormSoFar
    BY <1>1, <1>2 DEF LoopsSoFar
  <2>2. \A r : StormTargets(r)' = StormTargets(r)
    BY <1>1 DEF StormTargets
  <2>3. sentMsgs' = sentMsgs
    BY LoopStep
  <2>4. begun.calls \subseteq {DeliverCall(m) : m \in sentMsgs}'
    BY <2>1, <2>3 DEF StormSoFar, DeliverCall
  <2> QED
    BY <1>1, <2>1, <2>2, <2>4, StormStep DEF StormSoFar
<1>3. ASSUME begun.rule \in {"crash_repeat", "crash_all"}
      PROVE  CrashesSoFar'
  <2>1. CrashesSoFar
    BY <1>1, <1>3 DEF LoopsSoFar
  <2>2. Hit' = Hit
    BY <1>1 DEF Hit
  <2> QED
    BY <1>1, <2>1, <2>2, CrashStep DEF CrashesSoFar, StateIs, CrashCall
<1> QED
  BY <1>1, <1>2, <1>3 DEF LoopsSoFar

\* Every step of the driver keeps the invariant.
LEMMA NextDriverInv == DriverInv /\ [HNext]_hvars => DriverInv'
<1> SUFFICES ASSUME DriverInv, [HNext]_hvars PROVE DriverInv'
  OBVIOUS
<1> USE DEF DriverInv
<1>1. TypeInv' /\ CallsCurrent' /\ RestoredIsDurable'
  BY CallsStayCurrent, DriverStep, ClientStep, NextTypeInv, RestoredStep
<1>2. CASE Idle /\ UNCHANGED <<todo, begun>>
  BY <1>1, <1>2 DEF LoopsSoFar, Idle
<1>3. CASE Begins
  BY <1>1, <1>3, LoopsBegin
<1>4. CASE Continue
  BY <1>1, <1>4, LoopsContinue
<1>5. CASE UNCHANGED hvars
  BY <1>1, <1>5
  DEF hvars, cvars, vars, LoopsSoFar, StormSoFar, CrashesSoFar, StormTargets,
      Hit, StateIs, Idle, durable, network, DeliverCall, CrashCall
<1> QED
  BY <1>2, <1>3, <1>4, <1>5, RuleKinds

\* The invariant of the driver.
LEMMA DriverInvariance == HSpec => []DriverInv
<1>1. HInit => DriverInv
  BY InitDriver DEF DriverInv, LoopsSoFar
<1> QED
  BY <1>1, NextDriverInv, PTL DEF HSpec

\* Only the last call of a loop ends it.
LEMMA LastCall ==
  ASSUME DriverInv, [HNext]_hvars, ~Idle, todo' = <<>>
  PROVE  Continue /\ Tail(todo) = <<>> /\ ToSet(Tail(todo)) = {}
<1>1. ~Begins /\ ~UNCHANGED hvars
  BY DrawnCalls DEF DriverInv, Idle, hvars
<1>2. Continue
  BY <1>1, RuleKinds
<1> QED
  BY <1>2 DEF Continue, ToSet

\* In every configuration a storm of deliveries, of any length, with any
\* repetitions and in any order, has credited each message it touched once,
\* and not at all where it had been credited before the storm.
THEOREM StormsCreditOnce == HSpec => StormCreditsOnce
<1>1. ASSUME DriverInv, [HNext]_hvars, Ends({"deliver_storm"})
      PROVE  /\ \A r \in Replicas :
                  /\ recvd'[r] = begun.recvd[r] \cup StormTargets(r)
                  /\ escrow'[r] = begun.escrow[r]
                                    + SumOver(amtOf, StormTargets(r) \ begun.recvd[r])
             /\ spent' = begun.spent /\ sentMsgs' = begun.sentMsgs
  <2>1. Continue /\ ToSet(Tail(todo)) = {} /\ StormSoFar /\ TypeInv /\ CallsCurrent
    BY <1>1, LastCall DEF Ends, DriverInv, LoopsSoFar
  <2>2. ASSUME NEW r \in Replicas
        PROVE  /\ recvd'[r] = begun.recvd[r] \cup StormTargets(r)
               /\ escrow'[r] = begun.escrow[r]
                                 + SumOver(amtOf, StormTargets(r) \ begun.recvd[r])
    <3>1. StormTargets(r) \subseteq recvd'[r]
      BY <2>1, StormStep DEF StormTargets
    <3>2. recvd'[r] = begun.recvd[r] \cup StormTargets(r)
      BY <2>1, <3>1, StormStep
    <3>3. recvd'[r] \ begun.recvd[r] = StormTargets(r) \ begun.recvd[r]
      BY <3>2
    <3>4. escrow'[r] = begun.escrow[r] + SumOver(amtOf, recvd'[r] \ begun.recvd[r])
      BY <2>1, StormStep
    <3> QED
      BY <3>2, <3>3, <3>4
  <2> QED
    BY <2>1, <2>2, StormStep
<1> QED
  BY <1>1, DriverInvariance, PTL DEF HSpec, StormCreditsOnce

\* In every configuration crashing replicas one after the other, one of them
\* repeatedly or all in turn, is crashing them at once: each is back at its
\* own image of before the loop, and nothing else is touched.
THEOREM CrashLoopsAreSimultaneous == HSpec => CrashesAreSimultaneous
<1>1. ASSUME DriverInv, [HNext]_hvars, Ends({"crash_repeat", "crash_all"})
      PROVE  /\ escrow' = Crashed(begun.dEscrow, begun.escrow)
             /\ spent'  = Crashed(begun.dSpent, begun.spent)
             /\ recvd'  = Crashed(begun.dRecvd, begun.recvd)
             /\ durable' = <<begun.dEscrow, begun.dSpent, begun.dRecvd>>
             /\ network' = <<begun.sentMsgs, begun.amtOf>>
  <2>1. /\ Continue /\ ToSet(Tail(todo)) = {} /\ CrashesSoFar
        /\ TypeInv /\ CallsCurrent /\ RestoredIsDurable
    BY <1>1, LastCall DEF Ends, DriverInv, LoopsSoFar
  <2>2. TypeInv'
    BY <1>1, NextDriverInv DEF DriverInv
  <2>3. \A r \in Hit : /\ escrow'[r] = begun.dEscrow[r] /\ spent'[r] = begun.dSpent[r]
                       /\ recvd'[r] = begun.dRecvd[r]
    BY <2>1, CrashStep DEF Hit
  <2>4. \A r \in Replicas \ Hit : /\ escrow'[r] = begun.escrow[r]
                                  /\ spent'[r] = begun.spent[r]
                                  /\ recvd'[r] = begun.recvd[r]
    BY <2>1, CrashStep
  <2>5. /\ escrow' = [r \in Replicas |-> escrow'[r]]
        /\ spent' = [r \in Replicas |-> spent'[r]]
        /\ recvd' = [r \in Replicas |-> recvd'[r]]
    BY <2>2 DEF TypeInv, TypeOK
  <2> QED
    BY <2>1, <2>3, <2>4, <2>5, CrashStep DEF Crashed
<1> QED
  BY <1>1, DriverInvariance, PTL DEF HSpec, CrashesAreSimultaneous
=============================================================================
