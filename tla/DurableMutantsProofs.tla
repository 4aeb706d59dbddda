------------------------ MODULE DurableMutantsProofs ------------------------
(***************************************************************************)
(* The damaged classes of mutation_durable.py, on every sequence of calls, *)
(* for every set of replicas, ids and amounts, every cap and every genesis *)
(* within it: which damage creates budget, and when.  The suite itself     *)
(* runs each class on one trace of at most four calls.                     *)
(*                                                                         *)
(* Two invariants carry the argument.  Whatever the class lost, a transfer *)
(* is remembered, volatile or durable, at its receiver only (Remembering), *)
(* so every call that is not a crash moves budget and creates none.  The   *)
(* class that only destroys keeps the whole invariant of the disciplined   *)
(* cluster, because that invariant survives the loss of messages.          *)
(*                                                                         *)
(* The last part is the suite itself: with the amounts and ids it uses, in *)
(* whatever instance, each class gets its verdict when its trace is done.  *)
(***************************************************************************)
EXTENDS DurableMutants, DurableClusterProofs

Classes == {"NoWriteAhead", "VolatileRecvd", "CrashDropsInflightCluster", "DurableReplica"}

\* The classes whose disciplines are both intact.
Intact == row.cls \in {"CrashDropsInflightCluster", "DurableReplica"}

\* What a replica remembers having credited, in either image.
Remembered(r) == recvd[r] \cup dRecvd[r]

\* It was issued, it is remembered nowhere else, and if its message is still
\* there it was addressed to the replica.
Remembering ==
  /\ \A r \in Replicas : Remembered(r) \subseteq DOMAIN amtOf
  /\ \A r, s \in Replicas : r # s => Remembered(r) \cap Remembered(s) = {}
  /\ \A m \in sentMsgs, r \in Replicas : m.tid \in Remembered(r) => r = m.dst

\* Inductive, when the configuration of the file's clusters is disciplined.
SuiteInv ==
  /\ TypeInv
  /\ Remembering
  /\ row.cls \in Classes
  /\ Intact => DurableInv

-----------------------------------------------------------------------------
(* The calls of the classes.                                               *)

\* issue, with or without the write-ahead.
ClassIssue(src, dst, amount, tid) ==
  /\ IssueMoves(src, dst, amount, tid)
  /\ dEscrow' \in {[dEscrow EXCEPT ![src] = escrow[src] - amount], dEscrow}
  /\ UNCHANGED <<dSpent, dRecvd>>
  /\ IF row.cls = "NoWriteAhead" THEN dEscrow' = dEscrow ELSE Issue(src, dst, amount, tid)
  /\ Intact => Issue(src, dst, amount, tid)

\* deliver, with or without a durable dedup set.
ClassDeliver(m) ==
  /\ DeliverMoves(m)
  /\ dEscrow' = DurableCredit(m)
  /\ dRecvd' \in {[dRecvd EXCEPT ![m.dst] = recvd[m.dst] \cup {m.tid}], dRecvd}
  /\ dSpent' = dSpent
  /\ Intact => Deliver(m)

\* crash, with or without the dedup set, with or without the messages to r.
ClassCrash(r) ==
  /\ escrow' = [escrow EXCEPT ![r] = dEscrow[r]]
  /\ spent' = RestoredSpent(r)
  /\ \E kept \in {dRecvd[r], {}} : recvd' = [recvd EXCEPT ![r] = kept]
  /\ sentMsgs' \subseteq sentMsgs /\ amtOf' = amtOf
  /\ UNCHANGED durable
  /\ row.cls = "VolatileRecvd" => recvd' = [recvd EXCEPT ![r] = {}] /\ sentMsgs' = sentMsgs
  /\ Intact => CrashMoves(r)

\* Every class issues in one of these ways.
LEMMA IssuesOfClasses ==
  ASSUME NEW src, NEW dst, NEW amount, NEW tid, MutIssue(Transfer(src, dst, amount, tid))
  PROVE  ClassIssue(src, dst, amount, tid)
<1>0. /\ Transfer(src, dst, amount, tid).src = src
      /\ Transfer(src, dst, amount, tid).dst = dst
      /\ Transfer(src, dst, amount, tid).amount = amount
      /\ Transfer(src, dst, amount, tid).tid = tid
  BY DEF Transfer
<1>1. CASE row.cls = "NoWriteAhead"
  <2>1. NoDebitWriteAhead!Issue(src, dst, amount, tid)
    BY <1>0, <1>1 DEF MutIssue, NoWriteAhead
  <2>2. /\ FreshId(tid) /\ Affordable(src, amount)
        /\ escrow' = [escrow EXCEPT ![src] = escrow[src] - amount]
        /\ dEscrow' = dEscrow
        /\ amtOf' = Put(amtOf, tid, amount)
        /\ sentMsgs' = sentMsgs \cup {[dst |-> dst, tid |-> tid]}
        /\ UNCHANGED <<spent, recvd, dSpent, dRecvd>>
    BY <2>1 DEF NoDebitWriteAhead!Issue, NoDebitWriteAhead!FreshId,
       NoDebitWriteAhead!Affordable, NoDebitWriteAhead!DurableDebit,
       NoDebitWriteAhead!Put, FreshId, Affordable, Put
  <2>3. ~Intact
    BY <1>1 DEF Intact
  <2> QED
    BY <1>1, <2>2, <2>3 DEF ClassIssue, IssueMoves
<1>2. CASE row.cls # "NoWriteAhead"
  <2>1. Issue(src, dst, amount, tid)
    BY <1>0, <1>2 DEF MutIssue
  <2> QED
    BY <1>2, <2>1, Moves DEF Issue, DurableDebit, ClassIssue
<1> QED
  BY <1>1, <1>2

\* Every class delivers in one of these ways.
LEMMA DeliveriesOfClasses ==
  ASSUME NEW m, MutDeliver(m)
  PROVE  ClassDeliver(m)
<1>1. CASE row.cls = "VolatileRecvd"
  <2>1. NoDedupDurable!Deliver(m)
    BY <1>1 DEF MutDeliver, VolatileRecvd
  <2>2. DeliverMoves(m) /\ dEscrow' = DurableCredit(m) /\ UNCHANGED <<dRecvd, dSpent>>
    BY <2>1 DEF NoDedupDurable!Deliver, NoDedupDurable!NotCredited,
       NoDedupDurable!DurableCredit, NoDedupDurable!network,
       DeliverMoves, NotCredited, DurableCredit, network
  <2>3. ~Intact
    BY <1>1 DEF Intact
  <2> QED
    BY <2>2, <2>3 DEF ClassDeliver
<1>2. CASE row.cls # "VolatileRecvd"
  <2>1. Deliver(m)
    BY <1>2 DEF MutDeliver
  <2> QED
    BY <2>1, Moves DEF Deliver, ClassDeliver
<1> QED
  BY <1>1, <1>2

\* Every class crashes in one of these ways.
LEMMA CrashesOfClasses ==
  ASSUME row.cls \in Classes, NEW r, MutCrash(r)
  PROVE  ClassCrash(r)
<1>1. CASE row.cls = "VolatileRecvd"
  <2>1. NoDedupDurable!Crash(r)
    BY <1>1 DEF MutCrash, VolatileRecvdCrash
  <2>2. /\ escrow' = [escrow EXCEPT ![r] = dEscrow[r]] /\ spent' = RestoredSpent(r)
        /\ recvd' = [recvd EXCEPT ![r] = {}]
        /\ UNCHANGED <<durable, network>>
    BY <2>1 DEF NoDedupDurable!Crash, NoDedupDurable!RestoredRecvd,
       NoDedupDurable!RestoredSpent, NoDedupDurable!durable, NoDedupDurable!network,
       RestoredSpent, durable, network
  <2>3. ~Intact
    BY <1>1 DEF Intact
  <2> QED
    BY <2>2, <2>3 DEF ClassCrash, network
<1>2. CASE row.cls = "CrashDropsInflightCluster"
  <2>1. CrashDropsInflight(r)
    BY <1>2 DEF MutCrash
  <2>2. CrashMoves(r) /\ UNCHANGED durable
    BY <2>1 DEF CrashDropsInflight, CrashMoves
  <2> QED
    BY <1>2, <2>2 DEF CrashMoves, RestoredRecvd, ClassCrash
<1>3. CASE row.cls \in {"NoWriteAhead", "DurableReplica"}
  <2>1. Crash(r)
    BY <1>3 DEF MutCrash
  <2>2. CrashMoves(r) /\ UNCHANGED durable
    BY <2>1, Moves DEF Crash
  <2> QED
    BY <1>3, <2>2 DEF CrashMoves, RestoredRecvd, ClassCrash
<1> QED
  BY <1>1, <1>2, <1>3 DEF Classes

\* A call has its effect or, where it is refused, none.
LEMMA CallEffect ==
  ASSUME NEW ACTION Effect, NEW record, NEW STATE accepted, Call(record, accepted, Effect)
  PROVE  (Effect \/ UNCHANGED vars) /\ row' = row
  BY Zenon DEF Call

\* The steps of the suite.
LEMMA SuiteSteps ==
  ASSUME row.cls \in Classes, [MNext]_mvars
  PROVE  /\ row' = row
         /\ \/ \E r \in Replicas, amount \in Amounts : Charge(r, amount)
            \/ \E src, dst \in Replicas, amount \in Amounts, tid \in Tids :
                 ClassIssue(src, dst, amount, tid)
            \/ \E m \in sentMsgs : ClassDeliver(m)
            \/ \E m \in sentMsgs : Drop(m)
            \/ \E r \in Replicas : Persist(r)
            \/ \E r \in Replicas : MutCrash(r) /\ ClassCrash(r)
            \/ UNCHANGED vars
<1>1. CASE UNCHANGED mvars
  BY <1>1 DEF mvars
<1>2. CASE MNext
  <2>1. row' = row
    BY <1>2, CallEffect DEF MNext, Call
  <2>2. \/ \E r \in Replicas, amount \in Amounts : Charge(r, amount)
        \/ \E src, dst \in Replicas, amount \in Amounts, tid \in Tids :
             MutIssue(Transfer(src, dst, amount, tid))
        \/ \E m \in sentMsgs : MutDeliver(m)
        \/ \E m \in sentMsgs : Drop(m)
        \/ \E r \in Replicas : Persist(r)
        \/ \E r \in Replicas : MutCrash(r)
        \/ UNCHANGED vars
    BY <1>2 DEF MNext, Call
  <2> QED
    BY <2>1, <2>2, IssuesOfClasses, DeliveriesOfClasses, CrashesOfClasses
<1> QED
  BY <1>1, <1>2

-----------------------------------------------------------------------------
(* What every class keeps.                                                 *)

\* Types, and one message per id.
LEMMA ClassTypes ==
  ASSUME TypeInv, row.cls \in Classes, [MNext]_mvars
  PROVE  TypeInv'
<1> USE ConstantsOK
<1>1. ASSUME NEW src \in Replicas, NEW dst \in Replicas, NEW amount \in Amounts,
             NEW tid \in Tids, ClassIssue(src, dst, amount, tid)
      PROVE  TypeInv'
  <2> DEFINE msg == [dst |-> dst, tid |-> tid]
  <2>1. amount \in Nat /\ tid \notin DOMAIN amtOf /\ amtOf' = Put(amtOf, tid, amount)
    BY <1>1 DEF ClassIssue, IssueMoves, FreshId
  <2>2. amtOf \in [DOMAIN amtOf -> Nat] /\ IsFiniteSet(DOMAIN amtOf)
    BY DEF TypeInv, TypeOK
  <2>3. DOMAIN amtOf' = DOMAIN amtOf \cup {tid} /\ IsFiniteSet(DOMAIN amtOf')
    BY <2>1, <2>2, PutEntry
  <2>4. amtOf' \in [DOMAIN amtOf' -> Nat]
    BY <2>1, <2>2, <2>3 DEF Put
  <2>5. sentMsgs' = sentMsgs \cup {msg} /\ msg \in Messages
    BY <1>1 DEF ClassIssue, IssueMoves, Messages
  <2>6. Network'
    BY <2>1, <2>3, <2>5 DEF TypeInv, Network
  <2>7. escrow[src] - amount \in Nat
    BY <1>1, <2>1 DEF ClassIssue, IssueMoves, Affordable, TypeInv, TypeOK
  <2>8. escrow' \in [Replicas -> Nat] /\ dEscrow' \in [Replicas -> Nat]
    BY <1>1, <2>7 DEF ClassIssue, IssueMoves, TypeInv, TypeOK
  <2> QED
    BY <1>1, <2>3, <2>4, <2>5, <2>6, <2>8 DEF ClassIssue, IssueMoves, TypeInv, TypeOK
<1>2. ASSUME NEW m \in sentMsgs, ClassDeliver(m)
      PROVE  TypeInv'
  <2>1. m.dst \in Replicas /\ m.tid \in Tids /\ amtOf[m.tid] \in Nat
    BY DEF TypeInv, TypeOK, Network, Messages
  <2>2. escrow' \in [Replicas -> Nat] /\ dEscrow' \in [Replicas -> Nat]
    BY <1>2, <2>1 DEF ClassDeliver, DeliverMoves, DurableCredit, TypeInv, TypeOK
  <2>3. recvd' \in [Replicas -> SUBSET Tids] /\ dRecvd' \in [Replicas -> SUBSET Tids]
    BY <1>2, <2>1 DEF ClassDeliver, DeliverMoves, TypeInv, TypeOK
  <2> QED
    BY <1>2, <2>2, <2>3
    DEF ClassDeliver, DeliverMoves, network, TypeInv, TypeOK, Network
<1>3. ASSUME NEW r \in Replicas, ClassCrash(r)
      PROVE  TypeInv'
  <2>1. escrow' \in [Replicas -> Nat] /\ spent' \in [Replicas -> Nat]
    BY <1>3 DEF ClassCrash, RestoredSpent, TypeInv, TypeOK
  <2>2. recvd' \in [Replicas -> SUBSET Tids]
    BY <1>3 DEF ClassCrash, TypeInv, TypeOK
  <2> QED
    BY <1>3, <2>1, <2>2 DEF ClassCrash, durable, TypeInv, TypeOK, Network
<1>4. [Next]_vars => TypeInv'
  BY NextTypeInv
<1> QED
  BY <1>1, <1>2, <1>3, <1>4, SuiteSteps DEF Next

\* The memory of credits.
LEMMA ClassMemory ==
  ASSUME TypeInv, Remembering, row.cls \in Classes, [MNext]_mvars
  PROVE  Remembering'
<1>0. recvd \in [Replicas -> SUBSET Tids] /\ dRecvd \in [Replicas -> SUBSET Tids]
  BY DEF TypeInv, TypeOK
<1>1. ASSUME NEW src \in Replicas, NEW dst \in Replicas, NEW amount \in Amounts,
             NEW tid \in Tids, ClassIssue(src, dst, amount, tid)
      PROVE  Remembering'
  <2>1. /\ \A r : Remembered(r)' = Remembered(r)
        /\ DOMAIN amtOf' = DOMAIN amtOf \cup {tid} /\ tid \notin DOMAIN amtOf
        /\ sentMsgs' = sentMsgs \cup {[dst |-> dst, tid |-> tid]}
    BY <1>1 DEF ClassIssue, IssueMoves, FreshId, Put, Remembered
  <2>2. \A r \in Replicas : tid \notin Remembered(r)
    BY <2>1 DEF Remembering
  <2>3. \A m \in sentMsgs', r \in Replicas : m.tid \in Remembered(r) => r = m.dst
    BY <2>1, <2>2 DEF Remembering
  <2> QED
    BY <2>1, <2>3 DEF Remembering
<1>2. ASSUME NEW m \in sentMsgs, ClassDeliver(m)
      PROVE  Remembering'
  <2>1. m.dst \in Replicas /\ m.tid \in DOMAIN amtOf
        /\ \A n \in sentMsgs : n.tid = m.tid => n = m
    BY DEF TypeInv, TypeOK, Network, Messages
  <2>2. /\ Remembered(m.dst)' \subseteq Remembered(m.dst) \cup {m.tid}
        /\ \A r \in Replicas \ {m.dst} : Remembered(r)' = Remembered(r)
        /\ sentMsgs' = sentMsgs /\ amtOf' = amtOf
    <3>1. /\ recvd'[m.dst] = recvd[m.dst] \cup {m.tid}
          /\ \A r \in Replicas \ {m.dst} : recvd'[r] = recvd[r]
          /\ sentMsgs' = sentMsgs /\ amtOf' = amtOf
      BY <1>0, <1>2, <2>1 DEF ClassDeliver, DeliverMoves, network
    <3>2. /\ dRecvd'[m.dst] \in {recvd[m.dst] \cup {m.tid}, dRecvd[m.dst]}
          /\ \A r \in Replicas \ {m.dst} : dRecvd'[r] = dRecvd[r]
      BY <1>0, <1>2, <2>1 DEF ClassDeliver
    <3>3. recvd'[m.dst] \cup dRecvd'[m.dst]
            \subseteq recvd[m.dst] \cup dRecvd[m.dst] \cup {m.tid}
      BY <3>1, <3>2
    <3> QED
      BY <3>1, <3>2, <3>3 DEF Remembered
  <2>3. \A r \in Replicas \ {m.dst} : m.tid \notin Remembered(r)
    BY DEF Remembering
  <2> QED
    BY <2>1, <2>2, <2>3 DEF Remembering
<1>3. ASSUME \A r \in Replicas : Remembered(r)' \subseteq Remembered(r),
             sentMsgs' \subseteq sentMsgs, amtOf' = amtOf
      PROVE  Remembering'
  BY <1>3 DEF Remembering
<1>4. ASSUME NEW q \in Replicas, ClassCrash(q)
      PROVE  Remembering'
  <2>1. PICK kept \in {dRecvd[q], {}} : recvd' = [recvd EXCEPT ![q] = kept]
    BY <1>4 DEF ClassCrash
  <2>2. \A r \in Replicas : Remembered(r)' \subseteq Remembered(r)
    BY <1>0, <1>4, <2>1 DEF ClassCrash, durable, Remembered
  <2> QED
    BY <1>3, <1>4, <2>2 DEF ClassCrash
<1>5. ASSUME NEW q \in Replicas, Persist(q)
      PROVE  Remembering'
  <2>1. recvd' = recvd /\ sentMsgs' = sentMsgs /\ amtOf' = amtOf
    BY <1>5 DEF Persist, volatile, network
  <2>2. \A r \in Replicas : dRecvd'[r] \in {dRecvd[r], recvd[r]}
    BY <1>0, <1>5 DEF Persist
  <2>3. \A r \in Replicas : Remembered(r)' \subseteq Remembered(r)
    BY <2>1, <2>2 DEF Remembered
  <2> QED
    BY <1>3, <2>1, <2>3
<1>6. ASSUME NEW r \in Replicas, NEW amount \in Amounts, Charge(r, amount)
      PROVE  Remembering'
  BY <1>3, <1>6 DEF Charge, durable, network, Remembered
<1>7. ASSUME NEW m \in sentMsgs, Drop(m)
      PROVE  Remembering'
  BY <1>3, <1>7 DEF Drop, volatile, durable, Remembered
<1>8. CASE UNCHANGED vars
  BY <1>3, <1>8 DEF vars, Remembered
<1> QED
  BY <1>1, <1>2, <1>4, <1>5, <1>6, <1>7, <1>8, SuiteSteps

\* Credits are given at the receiver and once, in every class.
LEMMA MemoryMakesCreditsRight == TypeInv /\ Remembering => CreditsRight
  BY DEF Remembering, Remembered, CreditsRight, CreditedAtDst, CreditedOnce, Credited

-----------------------------------------------------------------------------
(* The classes whose disciplines are intact.                               *)

\* Losing messages in a crash costs the disciplined cluster nothing of its
\* invariant.
LEMMA DestructiveCrash ==
  ASSUME Disciplined, DurableInv, TypeInv', NEW r \in Replicas,
         CrashMoves(r), UNCHANGED durable
  PROVE  DurableInv'
<1>0. /\ escrow \in [Replicas -> Nat] /\ dEscrow \in [Replicas -> Nat]
      /\ spent \in [Replicas -> Nat]  /\ dSpent \in [Replicas -> Nat]
  BY DEF DurableInv, TypeInv, TypeOK
<1>1. recvd' = recvd /\ dRecvd' = dRecvd /\ amtOf' = amtOf /\ sentMsgs' \subseteq sentMsgs
  BY DEF CrashMoves, RestoredRecvd, Disciplined, DurableInv, DedupDurable, TypeInv,
         TypeOK, durable
<1>2. CreditedAtDst' /\ CreditedOnce' /\ DedupDurable'
  BY <1>1 DEF DurableInv, CreditedAtDst, CreditedOnce, Credited, DedupDurable
<1>3. Lag'
  BY <1>0 DEF DurableInv, Lag, CrashMoves, RestoredSpent, durable
<1>4. SafetyLe'
  <2>1. Quantity' <= Quantity /\ Quantity <= CAP
    BY CrashQuantity DEF DurableInv, SafetyLe
  <2>2. Quantity \in Nat /\ Quantity' \in Nat /\ CAP \in Nat
    BY TotalsType, TotalsTypeAfter, ConstantsOK DEF Quantity, DurableInv
  <2> QED
    BY <2>1, <2>2 DEF SafetyLe
<1> QED
  BY <1>2, <1>3, <1>4 DEF DurableInv

\* Every step of every class keeps the invariant.
LEMMA NextSuiteInv ==
  ASSUME Disciplined
  PROVE  SuiteInv /\ [MNext]_mvars => SuiteInv'
<1> SUFFICES ASSUME SuiteInv, [MNext]_mvars PROVE SuiteInv'
  OBVIOUS
<1>1. row' = row /\ TypeInv' /\ Remembering'
  BY SuiteSteps, ClassTypes, ClassMemory DEF SuiteInv
<1>2. ASSUME Intact PROVE DurableInv'
  <2>1. DurableInv /\ row.cls \in Classes
    BY <1>2 DEF SuiteInv
  <2>2. ASSUME NEW r \in Replicas, ClassCrash(r)
        PROVE  DurableInv'
    <3>1. CrashMoves(r) /\ UNCHANGED durable
      BY <1>2, <2>2 DEF ClassCrash
    <3> QED
      BY <1>1, <2>1, <3>1, DestructiveCrash
  <2>3. [Next]_vars \/ \E r \in Replicas : ClassCrash(r)
    BY <1>2, <2>1, SuiteSteps DEF ClassIssue, ClassDeliver, Next
  <2> QED
    BY <2>1, <2>2, <2>3, NextDurableInv
<1> QED
  BY <1>1, <1>2 DEF SuiteInv, Intact

\* Each class starts as the undamaged cluster does.
LEMMA InitSuiteInv == MInit => SuiteInv
<1> SUFFICES ASSUME MInit PROVE SuiteInv
  OBVIOUS
<1>1. DurableInv
  BY InitDurableInv DEF MInit
<1>2. Remembering
  BY DEF MInit, Init, Remembering, Remembered
<1>3. row.cls \in Classes
  <2>1. \A m \in MUTANTS : m.cls \in Classes
    BY DEF MUTANTS, Classes
  <2>2. \A m \in Controls(MUTANTS, "DurableReplica") : m.cls = "DurableReplica"
    BY DEF Controls
  <2> QED
    BY <2>1, <2>2 DEF MInit, Classes
<1> QED
  BY <1>1, <1>2, <1>3 DEF SuiteInv, DurableInv

\* The invariant of the suite.
LEMMA SuiteInvariance == ASSUME Disciplined PROVE MSpec => []SuiteInv
  BY InitSuiteInv, NextSuiteInv, PTL DEF MSpec

-----------------------------------------------------------------------------
(* The theorems.                                                           *)

\* Destruction is safe: the crash that also loses the messages to the replica
\* never brings a cluster above the cap, and neither does the undamaged one,
\* however long the sequence of calls.
THEOREM DestructionNeverCreates ==
  ASSUME Disciplined PROVE MSpec => []DestructionIsSafe
<1>1. SuiteInv => DestructionIsSafe
  <2> SUFFICES ASSUME SuiteInv, Intact PROVE Classify # "cap-safety"
    BY DEF DestructionIsSafe, Intact
  <2>1. Quantity <= CAP /\ TotalSpent <= CAP
    BY TotalsType, ConstantsOK DEF SuiteInv, DurableInv, SafetyLe, Quantity
  <2>2. ~(TotalSpent > CAP \/ Quantity > CAP)
    BY <2>1, TotalsType, ConstantsOK DEF SuiteInv, Quantity
  <2> QED
    BY <2>2 DEF Classify
<1> QED
  BY <1>1, SuiteInvariance, PTL

\* No class, not even the one that forgets its dedup set in a crash, credits
\* a transfer at two replicas or credits one that was not issued.
THEOREM ClassesCreditOnce == ASSUME Disciplined PROVE MSpec => []CreditedOnce
<1>1. SuiteInv => CreditedOnce
  BY MemoryMakesCreditsRight DEF SuiteInv, CreditsRight
<1> QED
  BY <1>1, SuiteInvariance, PTL

\* Budget is created by nothing but a crash of a class that lost a
\* discipline: the issue without write-ahead and the second credit only move
\* what such a crash had created.
THEOREM DamageShowsAtCrashes == ASSUME Disciplined PROVE MSpec => OnlyCrashCreates
<1> DEFINE Blame == Quantity' > Quantity =>
                      /\ row.cls \in {"NoWriteAhead", "VolatileRecvd"}
                      /\ \E r \in Replicas : MutCrash(r)
<1>1. ASSUME SuiteInv, [MNext]_mvars
      PROVE  Blame
  <2>0. /\ TypeInv /\ TypeInv' /\ row.cls \in Classes /\ CreditsRight
        /\ Quantity \in Nat /\ Quantity' \in Nat
    <3>1. TypeInv /\ TypeInv' /\ row.cls \in Classes /\ CreditsRight
      BY <1>1, NextSuiteInv, MemoryMakesCreditsRight DEF SuiteInv
    <3> QED
      BY <3>1, TotalsType, TotalsTypeAfter DEF Quantity
  <2>1. ASSUME NEW r \in Replicas, NEW amount \in Amounts, Charge(r, amount)
        PROVE  Quantity' <= Quantity
    BY <2>0, <2>1, ChargeQuantity
  <2>2. ASSUME NEW src \in Replicas, NEW dst \in Replicas, NEW amount \in Amounts,
               NEW tid \in Tids, ClassIssue(src, dst, amount, tid)
        PROVE  Quantity' <= Quantity
    BY <2>0, <2>2, IssueQuantity DEF ClassIssue
  <2>3. ASSUME NEW m \in sentMsgs, ClassDeliver(m)
        PROVE  Quantity' <= Quantity
    BY <2>0, <2>3, DeliverQuantity DEF ClassDeliver
  <2>4. ASSUME NEW m \in sentMsgs, Drop(m)
        PROVE  Quantity' <= Quantity
    BY <2>0, <2>4, DropQuantity
  <2>5. ASSUME \/ UNCHANGED vars
               \/ \E r \in Replicas : Persist(r)
        PROVE  Quantity' <= Quantity
    <3>1. UNCHANGED <<escrow, spent, recvd, sentMsgs, amtOf>>
      BY <2>5 DEF Persist, volatile, network, vars
    <3>2. Quantity' = Quantity
      BY <3>1 DEF Quantity, TotalEscrow, TotalSpent, InFlight, InTransit, Credited
    <3> QED
      BY <2>0, <3>2
  <2>6. ASSUME NEW r \in Replicas, ClassCrash(r), Intact
        PROVE  Quantity' <= Quantity
    <3>1. CrashMoves(r) /\ DurableInv
      BY <1>1, <2>6 DEF ClassCrash, SuiteInv
    <3> QED
      BY <2>0, <3>1, CrashQuantity
  <2>7. Quantity' <= Quantity => ~(Quantity' > Quantity)
    BY <2>0
  <2>8. Intact \/ row.cls \in {"NoWriteAhead", "VolatileRecvd"}
    BY <2>0 DEF Intact, Classes
  <2> QED
    BY <1>1, <2>0, <2>1, <2>2, <2>3, <2>4, <2>5, <2>6, <2>7, <2>8, SuiteSteps
<1>2. SuiteInv /\ [MNext]_mvars => [Blame]_mvars
  BY <1>1
<1> QED
  BY <1>2, SuiteInvariance, PTL DEF MSpec, OnlyCrashCreates

-----------------------------------------------------------------------------
(* The verdicts of the suite.  What happened so far on the file's trace    *)
(* says that the next call is accepted, and what it does to the budget.    *)

\* What the traces need of DurableCluster({"a": 2, "b": 0}, cap=2): the genesis
\* is the whole cap and the first replica can pay for the one transfer.
SuiteGenesis == SumOver(InitEscrow, Replicas) = CAP /\ InitEscrow["a"] >= 1

\* The message of the traces.
Parcel == [dst |-> "b", tid |-> "t1"]

\* Nothing would be lost in a crash.
Mirrored == dEscrow = escrow /\ dSpent = spent /\ dRecvd = recvd

\* The message is on its way, and nobody credited anything.
OnItsWay == sentMsgs = {Parcel} /\ amtOf["t1"] = 1 /\ \A r \in Replicas : recvd[r] = {}

\* What the file's trace has done to each class.
TraceSoFar ==
  /\ row.cls = "NoWriteAhead" =>
       IF place = 1
         THEN /\ dSpent = spent /\ dRecvd = recvd /\ dEscrow["a"] = escrow["a"] + 1
              /\ Quantity = CAP
         ELSE Quantity = CAP + 1
  /\ row.cls = "VolatileRecvd" =>
       /\ dEscrow = escrow /\ dSpent = spent
       /\ sentMsgs = {Parcel} /\ amtOf["t1"] = 1
       /\ place \in 1 .. 3 => recvd["b"] = IF place = 2 THEN {"t1"} ELSE {}
       /\ Quantity = IF place >= 3 THEN CAP + 1 ELSE CAP
  /\ row.cls = "CrashDropsInflightCluster" =>
       IF place = 1 THEN Mirrored /\ OnItsWay /\ Quantity = CAP ELSE Quantity = CAP - 1
  /\ row.cls = "DurableReplica" => Mirrored /\ Quantity = CAP

\* Inductive, with SuiteInv.
VerdictInv ==
  /\ SuiteInv
  /\ row \in MUTANTS \cup Controls(MUTANTS, "DurableReplica")
  /\ place \in Int
  /\ place = 0 => Init
  /\ place >= 1 => TraceSoFar

\* The rows of the suite, one by one.
LEMMA SuiteRows ==
  ASSUME NEW x \in MUTANTS \cup Controls(MUTANTS, "DurableReplica")
  PROVE  /\ \/ x.cls = "DurableReplica" /\ x.expected = "SURVIVED"
            \/ /\ x.cls = "NoWriteAhead" /\ x.expected = "cap-safety"
               /\ x.trace = <<ABOne, CrashCall("a")>>
            \/ /\ x.cls = "VolatileRecvd" /\ x.expected = "cap-safety"
               /\ x.trace = <<ABOne, ToB, CrashCall("b"), ToB>>
            \/ /\ x.cls = "CrashDropsInflightCluster" /\ x.expected = "conservation-only"
               /\ x.trace = <<ABOne, CrashCall("b")>>
         /\ \/ x.trace = <<ABOne, CrashCall("a")>>
            \/ x.trace = <<ABOne, ToB, CrashCall("b"), ToB>>
            \/ x.trace = <<ABOne, CrashCall("b")>>
<1>1. CASE x \in MUTANTS
  BY <1>1 DEF MUTANTS
<1>2. CASE x \in Controls(MUTANTS, "DurableReplica")
  <2>1. PICK m \in MUTANTS :
          x = [cls |-> "DurableReplica", trace |-> m.trace, expected |-> "SURVIVED"]
    BY <1>2 DEF Controls
  <2>2. x.cls = "DurableReplica" /\ x.expected = "SURVIVED" /\ x.trace = m.trace
    BY <2>1
  <2>3. \/ m.trace = <<ABOne, CrashCall("a")>>
        \/ m.trace = <<ABOne, ToB, CrashCall("b"), ToB>>
        \/ m.trace = <<ABOne, CrashCall("b")>>
    BY DEF MUTANTS
  <2> QED
    BY <2>2, <2>3
<1> QED
  BY <1>1, <1>2

\* Every trace starts with the transfer; then there are deliveries and crashes.
LEMMA TraceCalls ==
  ASSUME NEW x \in MUTANTS \cup Controls(MUTANTS, "DurableReplica")
  PROVE  /\ x.trace[1] = ABOne /\ Len(x.trace) \in {2, 4}
         /\ \A i \in 2 .. Len(x.trace) : x.trace[i] \in {ToB, CrashCall("a"), CrashCall("b")}
<1>1. CASE x.trace = <<ABOne, CrashCall("a")>>
  BY <1>1
<1>2. CASE x.trace = <<ABOne, CrashCall("b")>>
  BY <1>2
<1>3. CASE x.trace = <<ABOne, ToB, CrashCall("b"), ToB>>
  <2>1. Len(x.trace) = 4 /\ x.trace[1] = ABOne
    BY <1>3
  <2>2. x.trace[2] = ToB /\ x.trace[3] = CrashCall("b") /\ x.trace[4] = ToB
    BY <1>3
  <2>3. \A i \in 2 .. 4 : i = 2 \/ i = 3 \/ i = 4
    OBVIOUS
  <2> QED
    BY <2>1, <2>2, <2>3
<1> QED
  BY <1>1, <1>2, <1>3, SuiteRows

\* Which call it was is read off the trace.
LEMMA CallKinds ==
  /\ \A r, amount, opid : ChargeCall(r, amount, opid).op = "charge"
  /\ \A m : IssueCall(m).op = "issue" /\ IssueCall(m).transfer = m
  /\ \A m : DeliverCall(m).op = "deliver" /\ DeliverCall(m).msg = m
  /\ \A m : DropCall(m).op = "drop"
  /\ \A r : PersistCall(r).op = "persist"
  /\ \A r : CrashCall(r).op = "crash" /\ CrashCall(r).at = r
<1>1. \A r, amount, opid : ChargeCall(r, amount, opid).op = "charge"
  BY DEF ChargeCall
<1>2. \A m : /\ IssueCall(m).op = "issue" /\ IssueCall(m).transfer = m
             /\ DeliverCall(m).op = "deliver" /\ DeliverCall(m).msg = m
             /\ DropCall(m).op = "drop"
  BY DEF IssueCall, DeliverCall, DropCall
<1>3. \A r : PersistCall(r).op = "persist" /\ CrashCall(r).op = "crash" /\ CrashCall(r).at = r
  BY DEF PersistCall, CrashCall
<1> QED
  BY <1>1, <1>2, <1>3

\* A call is accepted, or refused.
Answered(accepted, Effect) ==
  (accepted /\ Effect) \/ (~accepted /\ UNCHANGED vars)

\* A sequence of calls that is still on the trace has just made its next call.
OnTheWay ==
  /\ place' = place + 1 /\ place >= 0 /\ place + 1 \in 1 .. Len(row.trace)
  /\ row' = row

LEMMA NextOnTrace ==
  ASSUME NEW record, NEW STATE accepted, NEW ACTION Effect,
         Call(record, accepted, Effect), place \in Int, place' >= 1
  PROVE  OnTheWay /\ row.trace[place + 1] = record /\ Answered(accepted, Effect)
  BY DEF Call, Advance, Off, OnTheWay, Answered

LEMMA CallOnTrace ==
  ASSUME MNext, place \in Int, place' >= 1
  PROVE  /\ OnTheWay
         /\ \/ \E r, amount : row.trace[place + 1] = ChargeCall(r, amount, "none")
            \/ \E src, dst \in Replicas, amount \in Amounts, tid \in Tids :
                 /\ row.trace[place + 1] = IssueCall(Transfer(src, dst, amount, tid))
                 /\ Answered(FreshId(tid) /\ Affordable(src, amount),
                             MutIssue(Transfer(src, dst, amount, tid)))
            \/ \E m \in sentMsgs : /\ row.trace[place + 1] = DeliverCall(m)
                                   /\ Answered(NotCredited(m), MutDeliver(m))
            \/ \E m : row.trace[place + 1] = DropCall(m)
            \/ \E r : row.trace[place + 1] = PersistCall(r)
            \/ \E r \in Replicas : row.trace[place + 1] = CrashCall(r) /\ MutCrash(r)
<1>1. ASSUME NEW r, NEW amount,
             Call(ChargeCall(r, amount, "none"), Affordable(r, amount), Charge(r, amount))
      PROVE  OnTheWay /\ row.trace[place + 1] = ChargeCall(r, amount, "none")
  BY <1>1, NextOnTrace
<1>2. ASSUME NEW src, NEW amount, NEW tid, NEW m,
             Call(IssueCall(m), FreshId(tid) /\ Affordable(src, amount), MutIssue(m))
      PROVE  /\ OnTheWay /\ row.trace[place + 1] = IssueCall(m)
             /\ Answered(FreshId(tid) /\ Affordable(src, amount), MutIssue(m))
  BY <1>2, NextOnTrace
<1>3. ASSUME NEW m, Call(DeliverCall(m), NotCredited(m), MutDeliver(m))
      PROVE  /\ OnTheWay /\ row.trace[place + 1] = DeliverCall(m)
             /\ Answered(NotCredited(m), MutDeliver(m))
  BY <1>3, NextOnTrace
<1>4. ASSUME NEW m, Call(DropCall(m), TRUE, Drop(m))
      PROVE  OnTheWay /\ row.trace[place + 1] = DropCall(m)
  BY <1>4, NextOnTrace
<1>5. ASSUME NEW r, Call(PersistCall(r), TRUE, Persist(r))
      PROVE  OnTheWay /\ row.trace[place + 1] = PersistCall(r)
  BY <1>5, NextOnTrace
<1>6. ASSUME NEW r, Call(CrashCall(r), TRUE, MutCrash(r))
      PROVE  OnTheWay /\ row.trace[place + 1] = CrashCall(r) /\ MutCrash(r)
  <2>1. /\ OnTheWay /\ row.trace[place + 1] = CrashCall(r)
        /\ Answered(TRUE, MutCrash(r))
    BY <1>6, NextOnTrace
  <2> QED
    BY <2>1 DEF Answered
<1> QED
  BY <1>1, <1>2, <1>3, <1>4, <1>5, <1>6 DEF MNext

LEMMA DeliveryMade ==
  ASSUME MNext, place \in Int, place' >= 1,
         place + 1 \in 1 .. Len(row.trace) => row.trace[place + 1] = ToB
  PROVE  Parcel \in sentMsgs /\ Answered(NotCredited(Parcel), MutDeliver(Parcel))
<1>1. OnTheWay /\ row.trace[place + 1] = DeliverCall(Parcel)
  BY CallOnTrace DEF OnTheWay, ToB, Parcel
<1>2. \E n \in sentMsgs : /\ row.trace[place + 1] = DeliverCall(n)
                          /\ Answered(NotCredited(n), MutDeliver(n))
  BY <1>1, CallOnTrace, CallKinds
<1>3. \A n : DeliverCall(Parcel) = DeliverCall(n) => n = Parcel
  BY CallKinds
<1> QED
  BY <1>1, <1>2, <1>3

LEMMA CrashMade ==
  ASSUME MNext, place \in Int, place' >= 1, NEW r,
         place + 1 \in 1 .. Len(row.trace) => row.trace[place + 1] = CrashCall(r)
  PROVE  r \in Replicas /\ MutCrash(r)
<1>1. OnTheWay /\ row.trace[place + 1] = CrashCall(r)
  BY CallOnTrace DEF OnTheWay
<1>2. \E s \in Replicas : row.trace[place + 1] = CrashCall(s) /\ MutCrash(s)
  BY <1>1, CallOnTrace, CallKinds
<1>3. \A s : CrashCall(r) = CrashCall(s) => s = r
  BY CallKinds
<1> QED
  BY <1>1, <1>2, <1>3

\* What the verdict invariant says of a call on the trace.
LEMMA Underway ==
  ASSUME Disciplined, VerdictInv, MNext, place' >= 1
  PROVE  /\ OnTheWay /\ place \in Nat /\ CAP \in Nat
         /\ SuiteInv /\ SuiteInv' /\ row.cls \in Classes
         /\ TypeInv /\ TypeInv' /\ CreditsRight
<1>1. OnTheWay /\ place \in Nat
  BY CallOnTrace DEF VerdictInv, OnTheWay
<1>2. SuiteInv /\ SuiteInv'
  BY NextSuiteInv DEF VerdictInv
<1> QED
  BY <1>1, <1>2, MemoryMakesCreditsRight, ConstantsOK DEF SuiteInv

\* The transfer of the traces: the class without the write-ahead still has its
\* amount in the durable image, every other image is the current one.
LEMMA FirstIssue ==
  ASSUME Disciplined, SuiteGenesis, VerdictInv, MNext, place' >= 1, place = 0
  PROVE  /\ "a" \in Replicas /\ "b" \in Replicas
         /\ OnItsWay' /\ Quantity' = CAP
         /\ dSpent' = spent' /\ dRecvd' = recvd'
         /\ IF row.cls = "NoWriteAhead" THEN dEscrow'["a"] = escrow'["a"] + 1
                                        ELSE dEscrow' = escrow'
<1>1. row.trace[1] = IssueCall(Transfer("a", "b", 1, "t1"))
  BY TraceCalls DEF VerdictInv, ABOne
<1>2. /\ "a" \in Replicas /\ "b" \in Replicas /\ 1 \in Amounts /\ "t1" \in Tids
      /\ Answered(FreshId("t1") /\ Affordable("a", 1), MutIssue(Transfer("a", "b", 1, "t1")))
  <2>1. \E src, dst \in Replicas, amount \in Amounts, tid \in Tids :
          /\ row.trace[place + 1] = IssueCall(Transfer(src, dst, amount, tid))
          /\ Answered(FreshId(tid) /\ Affordable(src, amount),
                      MutIssue(Transfer(src, dst, amount, tid)))
    BY <1>1, CallOnTrace, CallKinds DEF VerdictInv
  <2>2. \A src, dst, amount, tid :
          IssueCall(Transfer("a", "b", 1, "t1")) = IssueCall(Transfer(src, dst, amount, tid))
            => src = "a" /\ dst = "b" /\ amount = 1 /\ tid = "t1"
    <3>1. \A src, dst, amount, tid :
            Transfer("a", "b", 1, "t1") = Transfer(src, dst, amount, tid)
              => src = "a" /\ dst = "b" /\ amount = 1 /\ tid = "t1"
      BY DEF Transfer
    <3>2. \A m, n : IssueCall(m) = IssueCall(n) => m = n
      BY CallKinds
    <3> QED
      BY <3>1, <3>2
  <2> QED
    BY <1>1, <2>1, <2>2
<1>3. /\ Init /\ DOMAIN amtOf = {} /\ escrow["a"] = InitEscrow["a"] /\ escrow["a"] \in Nat
      /\ escrow["a"] >= 1 /\ escrow \in [Replicas -> Nat]
  BY <1>2, EmptyDictType, ConstantsOK DEF VerdictInv, Init, SuiteGenesis
<1>4. FreshId("t1") /\ Affordable("a", 1)
  BY <1>3 DEF FreshId, Affordable
<1>5. ClassIssue("a", "b", 1, "t1")
  BY <1>2, <1>4, IssuesOfClasses DEF Answered
<1>6. IssueMoves("a", "b", 1, "t1") /\ UNCHANGED <<dSpent, dRecvd>>
  BY <1>5 DEF ClassIssue
<1>7. Quantity = CAP
  <2>1. TotalSpent = 0
    BY <1>3, SumZero DEF Init, TotalSpent
  <2>2. InTransit = {}
    BY <1>3 DEF Init, InTransit
  <2>3. InFlight = 0
    BY <2>2, SumEmpty DEF InFlight
  <2> QED
    BY <1>3, <2>1, <2>3, Underway DEF Init, TotalEscrow, SuiteGenesis, Quantity
<1>8. Quantity' = CAP
  BY <1>2, <1>6, <1>7, Underway, IssueQuantity
<1>9. OnItsWay' /\ dSpent' = spent' /\ dRecvd' = recvd'
  <2>1. sentMsgs' = {Parcel} /\ recvd' = recvd /\ spent' = spent
    BY <1>3, <1>6 DEF IssueMoves, Init, Parcel
  <2>2. amtOf'["t1"] = 1
    BY <1>6 DEF IssueMoves, Put
  <2> QED
    BY <1>3, <1>6, <2>1, <2>2 DEF OnItsWay, Init
<1>10. CASE row.cls = "NoWriteAhead"
  <2>1. dEscrow' = dEscrow /\ escrow'["a"] = escrow["a"] - 1
    BY <1>2, <1>3, <1>5, <1>6, <1>10 DEF ClassIssue, IssueMoves
  <2> QED
    BY <1>2, <1>3, <1>8, <1>9, <1>10, <2>1 DEF Init
<1>11. CASE row.cls # "NoWriteAhead"
  <2>1. Issue("a", "b", 1, "t1")
    BY <1>5, <1>11 DEF ClassIssue
  <2>2. dEscrow' = escrow'
    BY <1>3, <2>1 DEF Issue, DurableDebit, Disciplined, Init
  <2> QED
    BY <1>2, <1>8, <1>9, <1>11, <2>2
<1> QED
  BY <1>10, <1>11

\* A crash of a replica whose durable image is the current one.
LEMMA CrashOfMirrored ==
  ASSUME TypeInv, NEW r \in Replicas, dEscrow[r] = escrow[r], dSpent = spent,
         escrow' = [escrow EXCEPT ![r] = dEscrow[r]], spent' = RestoredSpent(r)
  PROVE  escrow' = escrow /\ spent' = spent
  BY DEF RestoredSpent, TypeInv, TypeOK

\* The class without the write-ahead gets the amount back in the crash, which
\* its message carries too.
LEMMA NoWriteAheadStep ==
  ASSUME Disciplined, SuiteGenesis, VerdictInv, MNext, place' >= 1, row.cls = "NoWriteAhead"
  PROVE  TraceSoFar'
<1>1. row.trace = <<ABOne, CrashCall("a")>> /\ place \in Int
  BY SuiteRows DEF VerdictInv
<1>2. OnTheWay /\ place \in {0, 1}
  BY <1>1, Underway DEF OnTheWay
<1>3. CASE place = 0
  <2>1. /\ dSpent' = spent' /\ dRecvd' = recvd' /\ dEscrow'["a"] = escrow'["a"] + 1
        /\ Quantity' = CAP
    BY <1>3, FirstIssue
  <2> QED
    BY <1>2, <1>3, <2>1 DEF OnTheWay, TraceSoFar
<1>4. CASE place = 1
  <2>1. /\ dSpent = spent /\ dRecvd = recvd /\ dEscrow["a"] = escrow["a"] + 1
        /\ Quantity = CAP
    BY <1>4 DEF VerdictInv, TraceSoFar
  <2>2. "a" \in Replicas /\ MutCrash("a")
    BY <1>1, <1>4, CrashMade
  <2>3. Crash("a")
    BY <2>2 DEF MutCrash
  <2>4. /\ escrow'["a"] = escrow["a"] + 1 /\ escrow["a"] \in Nat
        /\ \A r \in Replicas \ {"a"} : escrow'[r] = escrow[r]
        /\ spent' = spent /\ recvd' = recvd /\ sentMsgs' = sentMsgs /\ amtOf' = amtOf
    BY <2>1, <2>2, <2>3, Underway
       DEF Crash, RestoredSpent, RestoredRecvd, Disciplined, network, TypeInv, TypeOK
  <2>5. TotalEscrow' = TotalEscrow - escrow["a"] + (escrow["a"] + 1)
    BY <2>2, <2>4, Underway, UpdateTotals
  <2>6. TotalSpent' = TotalSpent /\ InFlight' = InFlight
    BY <2>4 DEF TotalSpent, InFlight, InTransit, Credited
  <2>7. TotalEscrow \in Nat /\ TotalSpent \in Nat /\ InFlight \in Nat
    BY Underway, TotalsType
  <2>8. Quantity' = CAP + 1
    BY <2>1, <2>4, <2>5, <2>6, <2>7 DEF Quantity
  <2> QED
    BY <1>2, <1>4, <2>8 DEF OnTheWay, TraceSoFar
<1> QED
  BY <1>2, <1>3, <1>4

\* The class that forgets its dedup set: after the crash the message it had
\* credited is in flight again.
LEMMA VolatileRecvdStep ==
  ASSUME Disciplined, SuiteGenesis, VerdictInv, MNext, place' >= 1, row.cls = "VolatileRecvd"
  PROVE  TraceSoFar'
<1>0. Parcel.dst = "b" /\ Parcel.tid = "t1"
  BY DEF Parcel
<1>1. row.trace = <<ABOne, ToB, CrashCall("b"), ToB>> /\ place \in Int
  BY SuiteRows DEF VerdictInv
<1>2. OnTheWay /\ place \in {0, 1, 2, 3}
  BY <1>1, Underway DEF OnTheWay
<1>3. CASE place = 0
  <2>1. /\ dSpent' = spent' /\ dEscrow' = escrow' /\ OnItsWay' /\ "b" \in Replicas
        /\ Quantity' = CAP
    BY <1>3, FirstIssue
  <2> QED
    BY <1>2, <1>3, <2>1 DEF OnTheWay, TraceSoFar, OnItsWay
<1>4. CASE place \in {1, 3}
  <2>1. /\ dEscrow = escrow /\ dSpent = spent /\ sentMsgs = {Parcel} /\ amtOf["t1"] = 1
        /\ recvd["b"] = {} /\ Quantity = IF place = 3 THEN CAP + 1 ELSE CAP
    BY <1>4 DEF VerdictInv, TraceSoFar
  <2>2. Parcel \in sentMsgs /\ Answered(NotCredited(Parcel), MutDeliver(Parcel))
    BY <1>1, <1>4, DeliveryMade
  <2>3. ClassDeliver(Parcel)
    BY <1>0, <2>1, <2>2, DeliveriesOfClasses DEF Answered, NotCredited
  <2>4. DeliverMoves(Parcel) /\ dEscrow' = DurableCredit(Parcel) /\ dSpent' = dSpent
    BY <2>3 DEF ClassDeliver
  <2>5. Quantity' = Quantity
    BY <2>2, <2>4, Underway, DeliverQuantity
  <2>6. "b" \in Replicas
    BY <1>0, <2>2, Underway DEF TypeInv, TypeOK, Messages
  <2>7. dEscrow' = escrow' /\ dSpent' = spent' /\ sentMsgs' = sentMsgs /\ amtOf' = amtOf
    BY <2>1, <2>4 DEF DeliverMoves, DurableCredit, network
  <2>8. recvd'["b"] = {"t1"}
    BY <1>0, <2>1, <2>4, <2>6, Underway DEF DeliverMoves, TypeInv, TypeOK
  <2> QED
    BY <1>2, <1>4, <2>1, <2>5, <2>7, <2>8 DEF OnTheWay, TraceSoFar
<1>5. CASE place = 2
  <2>1. /\ dEscrow = escrow /\ dSpent = spent /\ sentMsgs = {Parcel} /\ amtOf["t1"] = 1
        /\ recvd["b"] = {"t1"} /\ Quantity = CAP
    BY <1>5 DEF VerdictInv, TraceSoFar
  <2>2. "b" \in Replicas /\ MutCrash("b")
    BY <1>1, <1>5, CrashMade
  <2>3. ClassCrash("b")
    BY <2>2, Underway, CrashesOfClasses
  <2>4. /\ recvd' = [recvd EXCEPT !["b"] = {}] /\ sentMsgs' = sentMsgs /\ amtOf' = amtOf
        /\ UNCHANGED durable
    BY <2>3 DEF ClassCrash
  <2>5. escrow' = escrow /\ spent' = spent
    BY <2>1, <2>2, <2>3, Underway, CrashOfMirrored DEF ClassCrash
  <2>6. "t1" \notin InTransit /\ InTransit' = InTransit \cup {"t1"}
    <3>1. recvd \in [Replicas -> SUBSET Tids]
      BY Underway DEF TypeInv, TypeOK
    <3>2. /\ recvd'["b"] = {}
          /\ \A r \in Replicas \ {"b"} : recvd'[r] = recvd[r] /\ "t1" \notin recvd[r]
      BY <2>1, <2>2, <2>4, <3>1, Underway DEF CreditsRight, CreditedOnce
    <3>3. Credited' = Credited \ {"t1"} /\ "t1" \in Credited
      BY <2>1, <2>2, <3>2 DEF Credited
    <3>4. {m.tid : m \in sentMsgs} = {"t1"}
      BY <1>0, <2>1
    <3> QED
      BY <2>4, <3>3, <3>4 DEF InTransit
  <2>7. InFlight' = InFlight + 1
    <3>1. "t1" \in DOMAIN amtOf /\ amtOf \in [DOMAIN amtOf -> Nat]
      BY <1>0, <2>1, Underway DEF TypeInv, TypeOK, Network
    <3>2. IsFiniteSet(InTransit) /\ NatOn(amtOf, InTransit \cup {"t1"})
      BY <3>1, Underway, TotalsType DEF NatOn
    <3>3. SumOver(amtOf, InTransit \cup {"t1"}) = SumOver(amtOf, InTransit) + amtOf["t1"]
      BY <2>6, <3>2, SumAdd
    <3> QED
      BY <2>1, <2>4, <2>6, <3>3 DEF InFlight
  <2>8. TotalEscrow' = TotalEscrow /\ TotalSpent' = TotalSpent
    BY <2>5 DEF TotalEscrow, TotalSpent
  <2>9. Quantity' = CAP + 1
    BY <2>1, <2>7, <2>8, Underway, TotalsType DEF Quantity
  <2>10. recvd'["b"] = {} /\ dEscrow' = escrow' /\ dSpent' = spent'
    BY <2>1, <2>2, <2>4, <2>5, Underway DEF durable, TypeInv, TypeOK
  <2> QED
    BY <1>2, <1>5, <2>1, <2>4, <2>9, <2>10 DEF OnTheWay, TraceSoFar
<1> QED
  BY <1>2, <1>3, <1>4, <1>5

\* The class whose crash takes the messages along destroys what was in flight.
LEMMA CrashDropsInflightStep ==
  ASSUME Disciplined, SuiteGenesis, VerdictInv, MNext, place' >= 1,
         row.cls = "CrashDropsInflightCluster"
  PROVE  TraceSoFar'
<1>0. Parcel.dst = "b" /\ Parcel.tid = "t1"
  BY DEF Parcel
<1>1. row.trace = <<ABOne, CrashCall("b")>> /\ place \in Int
  BY SuiteRows DEF VerdictInv
<1>2. OnTheWay /\ place \in {0, 1}
  BY <1>1, Underway DEF OnTheWay
<1>3. CASE place = 0
  <2>1. dSpent' = spent' /\ dRecvd' = recvd' /\ dEscrow' = escrow' /\ OnItsWay' /\ Quantity' = CAP
    BY <1>3, FirstIssue
  <2> QED
    BY <1>2, <1>3, <2>1 DEF OnTheWay, TraceSoFar, Mirrored
<1>4. CASE place = 1
  <2>1. /\ dEscrow = escrow /\ dSpent = spent /\ dRecvd = recvd
        /\ sentMsgs = {Parcel} /\ amtOf["t1"] = 1
        /\ \A r \in Replicas : recvd[r] = {}
        /\ Quantity = CAP
    BY <1>4 DEF VerdictInv, TraceSoFar, Mirrored, OnItsWay
  <2>2. "b" \in Replicas /\ MutCrash("b")
    BY <1>1, <1>4, CrashMade
  <2>3. CrashDropsInflight("b")
    BY <2>2 DEF MutCrash
  <2>4. escrow' = escrow /\ spent' = spent
    BY <2>1, <2>2, <2>3, Underway, CrashOfMirrored DEF CrashDropsInflight
  <2>5. InTransit = {"t1"} /\ InTransit' = {} /\ amtOf' = amtOf
    <3>1. sentMsgs' = {} /\ amtOf' = amtOf
      BY <1>0, <2>1, <2>3 DEF CrashDropsInflight
    <3>2. Credited = {} /\ {m.tid : m \in sentMsgs} = {"t1"}
      BY <1>0, <2>1 DEF Credited
    <3> QED
      BY <3>1, <3>2 DEF InTransit
  <2>6. InFlight = 1 /\ InFlight' = 0
    <3>1. InFlight = SumOver(amtOf, InTransit \ {"t1"}) + 1
      <4>1. IsFiniteSet(InTransit) /\ NatOn(amtOf, InTransit) /\ "t1" \in InTransit
        BY <2>5, Underway, TotalsType
      <4> QED
        BY <2>1, <4>1, SumRemove DEF InFlight
    <3>2. InTransit \ {"t1"} = {}
      BY <2>5
    <3>3. SumOver(amtOf, InTransit \ {"t1"}) = 0
      BY <3>2, SumEmpty
    <3>4. InFlight' = 0
      BY <2>5, SumEmpty DEF InFlight
    <3> QED
      BY <3>1, <3>3, <3>4
  <2>7. TotalEscrow' = TotalEscrow /\ TotalSpent' = TotalSpent
    BY <2>4 DEF TotalEscrow, TotalSpent
  <2>8. Quantity' = CAP - 1
    BY <2>1, <2>6, <2>7, Underway, TotalsType DEF Quantity
  <2> QED
    BY <1>2, <1>4, <2>8 DEF OnTheWay, TraceSoFar
<1> QED
  BY <1>2, <1>3, <1>4

\* The undamaged cluster has nothing to lose in the crashes of the traces.
LEMMA ControlStep ==
  ASSUME Disciplined, SuiteGenesis, VerdictInv, MNext, place' >= 1, row.cls = "DurableReplica"
  PROVE  TraceSoFar'
<1>1. OnTheWay /\ (place = 0 \/ place \in 1 .. Len(row.trace) - 1) /\ place \in Int
  <2>1. Len(row.trace) \in {2, 4}
    BY TraceCalls DEF VerdictInv
  <2> QED
    BY <2>1, Underway DEF OnTheWay
<1>2. CASE place = 0
  <2>1. dSpent' = spent' /\ dRecvd' = recvd' /\ dEscrow' = escrow' /\ Quantity' = CAP
    BY <1>2, FirstIssue
  <2> QED
    BY <1>1, <2>1 DEF OnTheWay, TraceSoFar, Mirrored
<1>3. CASE place \in 1 .. Len(row.trace) - 1
  <2>1. Mirrored /\ Quantity = CAP
    BY <1>3 DEF VerdictInv, TraceSoFar
  <2>2. row.trace[place + 1] \in {ToB, CrashCall("a"), CrashCall("b")}
    <3>1. Len(row.trace) \in {2, 4}
      BY TraceCalls DEF VerdictInv
    <3>2. place + 1 \in 2 .. Len(row.trace)
      BY <1>3, <3>1
    <3> QED
      BY <3>2, TraceCalls DEF VerdictInv
  <2>3. CASE row.trace[place + 1] = ToB
    <3>1. Parcel \in sentMsgs /\ Answered(NotCredited(Parcel), MutDeliver(Parcel))
      BY <1>1, <2>3, DeliveryMade
    <3>2. CASE UNCHANGED vars
      <4>1. Mirrored' /\ Quantity' = Quantity
        BY <2>1, <3>2 DEF vars, Mirrored, Quantity, TotalEscrow, TotalSpent, InFlight, InTransit,
                          Credited
      <4> QED
        BY <1>1, <2>1, <4>1 DEF OnTheWay, TraceSoFar
    <3>3. CASE MutDeliver(Parcel)
      <4>1. Deliver(Parcel)
        BY <3>3 DEF MutDeliver
      <4>2. Quantity' = Quantity
        BY <3>1, <4>1, Moves, Underway, DeliverQuantity
      <4>3. Mirrored'
        BY <2>1, <4>1 DEF Deliver, DurableCredit, Disciplined, Mirrored
      <4> QED
        BY <1>1, <2>1, <4>2, <4>3 DEF OnTheWay, TraceSoFar
    <3> QED
      BY <3>1, <3>2, <3>3 DEF Answered
  <2>4. ASSUME NEW r, row.trace[place + 1] = CrashCall(r)
        PROVE  TraceSoFar'
    <3>1. r \in Replicas /\ MutCrash(r)
      BY <1>1, <2>4, CrashMade
    <3>2. Crash(r)
      BY <3>1 DEF MutCrash
    <3>3. escrow' = escrow /\ spent' = spent
      BY <2>1, <3>1, <3>2, Underway, CrashOfMirrored DEF Crash, Mirrored
    <3>4. recvd' = recvd /\ UNCHANGED <<durable, network>>
      BY <2>1, <3>1, <3>2, Underway
         DEF Crash, RestoredRecvd, Disciplined, Mirrored, TypeInv, TypeOK
    <3>5. Mirrored' /\ Quantity' = Quantity
      BY <2>1, <3>3, <3>4 DEF durable, network, Mirrored, Quantity, TotalEscrow, TotalSpent,
                              InFlight, InTransit, Credited
    <3> QED
      BY <1>1, <2>1, <3>5 DEF OnTheWay, TraceSoFar
  <2> QED
    BY <2>2, <2>3, <2>4
<1> QED
  BY <1>1, <1>2, <1>3

\* Every row starts with the state of the constructor.
LEMMA InitVerdictInv == MInit => VerdictInv
  BY InitSuiteInv DEF MInit, VerdictInv

\* Every call keeps what the traces have done so far.
LEMMA NextVerdictInv ==
  ASSUME Disciplined, SuiteGenesis
  PROVE  VerdictInv /\ [MNext]_mvars => VerdictInv'
<1> SUFFICES ASSUME VerdictInv, [MNext]_mvars PROVE VerdictInv'
  OBVIOUS
<1>0. SuiteInv'
  BY NextSuiteInv DEF VerdictInv
<1>1. CASE MNext
  <2>1. row' = row /\ place' \in Int /\ place' # 0
    BY <1>1 DEF MNext, Call, Advance, Off, VerdictInv
  <2>2. ASSUME place' >= 1 PROVE TraceSoFar'
    <3>1. row.cls \in Classes
      BY DEF VerdictInv, SuiteInv
    <3> QED
      BY <1>1, <2>2, <3>1, NoWriteAheadStep, VolatileRecvdStep, CrashDropsInflightStep, ControlStep
         DEF Classes
  <2> QED
    BY <1>0, <2>1, <2>2 DEF VerdictInv
<1>2. CASE UNCHANGED mvars
  <2>1. UNCHANGED <<escrow, spent, recvd, dEscrow, dSpent, dRecvd, sentMsgs, amtOf, row, place>>
    BY <1>2 DEF mvars, vars
  <2>2. (Init <=> Init') /\ (TraceSoFar <=> TraceSoFar')
    BY <2>1 DEF Init, TraceSoFar, Mirrored, OnItsWay, Quantity, TotalEscrow, TotalSpent, InFlight,
                InTransit, Credited
  <2> QED
    BY <1>0, <2>1, <2>2 DEF VerdictInv
<1> QED
  BY <1>1, <1>2

\* At the end of its trace a class has the verdict the file expects.
LEMMA VerdictOfTrace ==
  ASSUME VerdictInv, place = Len(row.trace)
  PROVE  Classify = row.expected
<1>1. /\ TraceSoFar /\ row.cls \in Classes /\ CAP \in Nat
      /\ TotalSpent \in Nat /\ TotalEscrow \in Nat /\ InFlight \in Nat
      /\ (Quantity <= CAP => TotalSpent <= CAP)
  <2>1. Len(row.trace) \in {2, 4}
    BY TraceCalls DEF VerdictInv
  <2>2. TraceSoFar
    BY <2>1 DEF VerdictInv
  <2> QED
    BY <2>2, TotalsType, ConstantsOK DEF VerdictInv, SuiteInv, Quantity
<1>2. CASE row.cls = "NoWriteAhead"
  <2>1. row.trace = <<ABOne, CrashCall("a")>> /\ row.expected = "cap-safety"
    BY <1>2, SuiteRows DEF VerdictInv
  <2>2. place = 2
    BY <2>1
  <2>3. Quantity > CAP
    BY <1>1, <1>2, <2>2 DEF TraceSoFar
  <2> QED
    BY <2>1, <2>3 DEF Classify
<1>3. CASE row.cls = "VolatileRecvd"
  <2>1. row.trace = <<ABOne, ToB, CrashCall("b"), ToB>> /\ row.expected = "cap-safety"
    BY <1>3, SuiteRows DEF VerdictInv
  <2>2. place = 4
    BY <2>1
  <2>3. Quantity > CAP
    BY <1>1, <1>3, <2>2 DEF TraceSoFar
  <2> QED
    BY <2>1, <2>3 DEF Classify
<1>4. CASE row.cls = "CrashDropsInflightCluster"
  <2>1. row.trace = <<ABOne, CrashCall("b")>> /\ row.expected = "conservation-only"
    BY <1>4, SuiteRows DEF VerdictInv
  <2>2. place = 2
    BY <2>1
  <2>3. Quantity = CAP - 1
    BY <1>1, <1>4, <2>2 DEF TraceSoFar
  <2> QED
    BY <1>1, <2>1, <2>3 DEF Classify
<1>5. CASE row.cls = "DurableReplica"
  <2>1. row.expected = "SURVIVED"
    BY <1>5, SuiteRows DEF VerdictInv
  <2>2. Quantity = CAP
    BY <1>1, <1>5 DEF TraceSoFar
  <2> QED
    BY <1>1, <2>1, <2>2 DEF Classify
<1> QED
  BY <1>1, <1>2, <1>3, <1>4, <1>5 DEF Classes

\* On the file's traces every damaged class shows the damage the file says and
\* the undamaged cluster survives: for every cap that is given out at the
\* start, whatever other replicas, ids and amounts there are.
THEOREM DurableSuiteVerdict ==
  ASSUME Disciplined, SuiteGenesis
  PROVE  MSpec => []SuiteVerdict
<1>1. VerdictInv => SuiteVerdict
  BY VerdictOfTrace DEF SuiteVerdict
<1> QED
  BY <1>1, InitVerdictInv, NextVerdictInv, PTL DEF MSpec
=============================================================================
