------------------------ MODULE DurableClusterProofs ------------------------
(***************************************************************************)
(* Type correctness of DurableCluster for every configuration, and the     *)
(* safety of the disciplined one, for every finite set of replicas, every  *)
(* set of transfer ids and amounts, every cap and every genesis within it. *)
(* Each replica crashes on its own.                                        *)
(*                                                                         *)
(* SafetyLe alone is not inductive.  A crash replaces what a replica holds *)
(* by its durable image, so the image must never be worth more (Lag), and  *)
(* the image's spent must never be more than the spent (Lag), or a credit, *)
(* which writes the durable escrow only, would make it worth more.  A      *)
(* crash must not un-credit (DedupDurable).  A delivery moves an amount    *)
(* that is in transit only if its transfer was credited nowhere else,      *)
(* which needs that ids name one message (Network) and that what was       *)
(* credited was credited where that message says (CreditedAtDst).          *)
(***************************************************************************)
EXTENDS DurableCluster, SumsProofs

\* The messages carry issued ids, one message per id.
Network ==
  /\ \A m \in sentMsgs : m.tid \in DOMAIN amtOf
  /\ \A m, n \in sentMsgs : m.tid = n.tid => m = n

\* A transfer that can still be delivered was credited at its receiver only.
CreditedAtDst ==
  \A m \in sentMsgs, r \in Replicas : m.tid \in recvd[r] => r = m.dst

\* The dedup set that survives a crash is the current one.
DedupDurable == dRecvd = recvd

\* The durable image of a replica is worth no more than its current state,
\* and records no more spent.
Lag ==
  \A r \in Replicas : /\ dSpent[r] <= spent[r]
                      /\ dEscrow[r] + dSpent[r] <= escrow[r] + spent[r]

\* Inductive for every configuration.
TypeInv == TypeOK /\ Network

\* Inductive for the disciplined configuration.
DurableInv ==
  /\ TypeInv
  /\ CreditedAtDst
  /\ CreditedOnce
  /\ DedupDurable
  /\ Lag
  /\ SafetyLe

-----------------------------------------------------------------------------
(* Type correctness.                                                       *)

\* The initial state has the right types and an empty network.
LEMMA InitTypeInv == Init => TypeInv
  BY ConstantsOK, EmptyDictType DEF Init, TypeInv, TypeOK, Network

\* Every step keeps the types and one message per id.
LEMMA NextTypeInv == TypeInv /\ [Next]_vars => TypeInv'
<1> SUFFICES ASSUME TypeInv, [Next]_vars PROVE TypeInv'
  OBVIOUS
<1> USE ConstantsOK
<1>1. ASSUME NEW r \in Replicas, NEW amount \in Amounts, Charge(r, amount)
      PROVE  TypeInv'
  BY <1>1 DEF TypeInv, TypeOK, Network, Charge, Affordable, durable, network
<1>2. ASSUME NEW src \in Replicas, NEW dst \in Replicas, NEW amount \in Amounts,
             NEW tid \in Tids, Issue(src, dst, amount, tid)
      PROVE  TypeInv'
  <2> DEFINE msg == [dst |-> dst, tid |-> tid]
  <2>1. amount \in Nat /\ tid \notin DOMAIN amtOf /\ amtOf' = Put(amtOf, tid, amount)
    BY <1>2 DEF Issue, FreshId
  <2>2. /\ DOMAIN amtOf' = DOMAIN amtOf \cup {tid}
        /\ IsFiniteSet(DOMAIN amtOf')
        /\ amtOf' \in [DOMAIN amtOf' -> Nat]
    <3>1. amtOf \in [DOMAIN amtOf -> Nat] /\ IsFiniteSet(DOMAIN amtOf)
      BY DEF TypeInv, TypeOK
    <3>2. DOMAIN amtOf' = DOMAIN amtOf \cup {tid} /\ IsFiniteSet(DOMAIN amtOf')
      BY <2>1, <3>1, PutEntry
    <3>3. amtOf' \in [DOMAIN amtOf' -> Nat]
      BY <2>1, <3>1 DEF Put
    <3> QED
      BY <3>2, <3>3
  <2>3. sentMsgs' = sentMsgs \cup {msg} /\ msg \in Messages
    BY <1>2 DEF Issue, Messages
  <2>4. Network'
    BY <2>1, <2>2, <2>3 DEF TypeInv, Network
  <2>5. escrow' \in [Replicas -> Nat] /\ dEscrow' \in [Replicas -> Nat]
    BY <1>2, <2>1 DEF Issue, Affordable, DurableDebit, TypeInv, TypeOK
  <2> QED
    BY <1>2, <2>2, <2>3, <2>4, <2>5 DEF Issue, TypeInv, TypeOK
<1>3. ASSUME NEW m \in sentMsgs, Deliver(m)
      PROVE  TypeInv'
  <2>1. m.dst \in Replicas /\ m.tid \in Tids /\ amtOf[m.tid] \in Nat
    BY DEF TypeInv, TypeOK, Network, Messages
  <2> QED
    BY <1>3, <2>1 DEF Deliver, DurableCredit, TypeInv, TypeOK, Network, network
<1>4. ASSUME NEW m \in sentMsgs, Drop(m)
      PROVE  TypeInv'
  BY <1>4 DEF Drop, TypeInv, TypeOK, Network, volatile, durable
<1>5. ASSUME NEW r \in Replicas, Persist(r)
      PROVE  TypeInv'
  BY <1>5 DEF Persist, PersistedSpent, TypeInv, TypeOK, Network, volatile, network
<1>6. ASSUME NEW r \in Replicas, Crash(r)
      PROVE  TypeInv'
  BY <1>6 DEF Crash, RestoredSpent, RestoredRecvd, TypeInv, TypeOK, Network,
              durable, network
<1>7. CASE UNCHANGED vars
  BY <1>7 DEF vars, TypeInv, TypeOK, Network
<1> QED
  BY <1>1, <1>2, <1>3, <1>4, <1>5, <1>6, <1>7 DEF Next

\* Type correctness, negative balances excluded, in every configuration:
\* whatever crashes and whichever disciplines are off, no escrow is overdrawn.
THEOREM TypeCorrect == Spec => []TypeOK
<1>1. TypeInv => TypeOK
  BY DEF TypeInv
<1> QED
  BY <1>1, InitTypeInv, NextTypeInv, PTL DEF Spec

-----------------------------------------------------------------------------
(* The conserved quantity.                                                 *)

\* The three totals are totals of natural numbers over finite sets.
LEMMA TotalsType ==
  ASSUME TypeInv
  PROVE  /\ IsFiniteSet(InTransit) /\ NatOn(amtOf, InTransit)
         /\ InTransit \subseteq DOMAIN amtOf
         /\ TotalEscrow \in Nat /\ TotalSpent \in Nat /\ InFlight \in Nat
<1> USE ConstantsOK
<1>1. InTransit \in SUBSET DOMAIN amtOf
  BY DEF InTransit, TypeInv, Network
<1>2. IsFiniteSet(InTransit) /\ NatOn(amtOf, InTransit)
  BY <1>1, FS_Subset DEF TypeInv, TypeOK, NatOn
<1>3. NatOn(escrow, Replicas) /\ NatOn(spent, Replicas)
  BY DEF TypeInv, TypeOK, NatOn
<1> QED
  BY <1>1, <1>2, <1>3, SumType DEF TotalEscrow, TotalSpent, InFlight

\* They still are after a step.
LEMMA TotalsTypeAfter ==
  ASSUME TypeInv'
  PROVE  TotalEscrow' \in Nat /\ TotalSpent' \in Nat /\ InFlight' \in Nat
<1>1. InTransit' \in SUBSET (DOMAIN amtOf)'
  BY DEF InTransit, TypeInv, Network
<1>2. IsFiniteSet(InTransit') /\ NatOn(amtOf', InTransit')
  BY <1>1, FS_Subset DEF TypeInv, TypeOK, NatOn
<1>3. NatOn(escrow', Replicas) /\ NatOn(spent', Replicas)
  BY DEF TypeInv, TypeOK, NatOn
<1> QED
  BY <1>2, <1>3, ConstantsOK, SumType DEF TotalEscrow, TotalSpent, InFlight

\* A step that changes the escrow, or the spent, of one replica changes the
\* total by that difference.
LEMMA UpdateTotals ==
  ASSUME TypeInv, TypeInv', NEW r \in Replicas
  PROVE  /\ (\A s \in Replicas \ {r} : escrow'[s] = escrow[s]) =>
              TotalEscrow' = TotalEscrow - escrow[r] + escrow'[r]
         /\ (\A s \in Replicas \ {r} : spent'[s] = spent[s]) =>
              TotalSpent' = TotalSpent - spent[r] + spent'[r]
<1>1. IsFiniteSet(Replicas)
  BY ConstantsOK
<1>2. /\ NatOn(escrow, Replicas) /\ NatOn(escrow', Replicas)
      /\ NatOn(spent, Replicas) /\ NatOn(spent', Replicas)
  BY DEF TypeInv, TypeOK, NatOn
<1>3. ASSUME \A s \in Replicas \ {r} : escrow'[s] = escrow[s]
      PROVE  TotalEscrow' = TotalEscrow - escrow[r] + escrow'[r]
  BY <1>1, <1>2, <1>3, SumUpdate DEF TotalEscrow
<1>4. ASSUME \A s \in Replicas \ {r} : spent'[s] = spent[s]
      PROVE  TotalSpent' = TotalSpent - spent[r] + spent'[r]
  BY <1>1, <1>2, <1>4, SumUpdate DEF TotalSpent
<1> QED
  BY <1>3, <1>4

\* charge moves budget from escrow to spent.
LEMMA ChargeQuantity ==
  ASSUME TypeInv, TypeInv', NEW r \in Replicas, NEW amount \in Amounts,
         Charge(r, amount)
  PROVE  Quantity' = Quantity
<1>1. /\ amount \in Nat /\ escrow[r] \in Nat /\ spent[r] \in Nat
      /\ escrow'[r] = escrow[r] - amount /\ spent'[r] = spent[r] + amount
      /\ \A s \in Replicas \ {r} : escrow'[s] = escrow[s] /\ spent'[s] = spent[s]
  BY ConstantsOK DEF Charge, TypeInv, TypeOK
<1>2. TotalEscrow' = TotalEscrow - escrow[r] + (escrow[r] - amount)
  BY <1>1, UpdateTotals
<1>3. TotalSpent' = TotalSpent - spent[r] + (spent[r] + amount)
  BY <1>1, UpdateTotals
<1>4. InFlight' = InFlight
  BY DEF Charge, InFlight, InTransit, Credited, network
<1> QED
  BY <1>1, <1>2, <1>3, <1>4, TotalsType DEF Quantity

\* What issue and deliver do outside the durable images, on which no total
\* depends.
IssueMoves(src, dst, amount, tid) ==
  /\ FreshId(tid) /\ Affordable(src, amount)
  /\ escrow' = [escrow EXCEPT ![src] = escrow[src] - amount]
  /\ amtOf' = Put(amtOf, tid, amount)
  /\ sentMsgs' = sentMsgs \cup {[dst |-> dst, tid |-> tid]}
  /\ UNCHANGED <<spent, recvd>>

DeliverMoves(m) ==
  /\ NotCredited(m)
  /\ escrow' = [escrow EXCEPT ![m.dst] = escrow[m.dst] + amtOf[m.tid]]
  /\ recvd' = [recvd EXCEPT ![m.dst] = recvd[m.dst] \cup {m.tid}]
  /\ UNCHANGED <<spent, network>>

\* A crash, which messages may not survive either.
CrashMoves(r) ==
  /\ escrow' = [escrow EXCEPT ![r] = dEscrow[r]]
  /\ spent' = RestoredSpent(r)
  /\ recvd' = [recvd EXCEPT ![r] = RestoredRecvd(r)]
  /\ sentMsgs' \subseteq sentMsgs /\ amtOf' = amtOf

\* What the totals need of the invariant when a transfer moves.
CreditsRight == TypeInv /\ CreditedAtDst /\ CreditedOnce

\* The handlers do these things.
LEMMA Moves ==
  /\ DurableInv => CreditsRight
  /\ \A src, dst, amount, tid :
       Issue(src, dst, amount, tid) => IssueMoves(src, dst, amount, tid)
  /\ \A m : Deliver(m) => DeliverMoves(m)
  /\ \A r : Crash(r) => CrashMoves(r)
  BY DEF DurableInv, CreditsRight, Issue, IssueMoves, Deliver, DeliverMoves,
         Crash, CrashMoves, network

\* A new transfer is in transit.
LEMMA IssueInTransit ==
  ASSUME CreditsRight,
         NEW src \in Replicas, NEW dst \in Replicas, NEW amount \in Amounts,
         NEW tid \in Tids, IssueMoves(src, dst, amount, tid)
  PROVE  tid \notin InTransit /\ InTransit' = InTransit \cup {tid}
<1>1. tid \notin DOMAIN amtOf /\ tid \notin Credited /\ tid \notin InTransit
  BY DEF IssueMoves, FreshId, CreditsRight, CreditedOnce, TypeInv, Network, InTransit
<1>2. Credited' = Credited
  BY DEF IssueMoves, Credited
<1>3. sentMsgs' = sentMsgs \cup {[dst |-> dst, tid |-> tid]}
  BY DEF IssueMoves
<1>4. {m.tid : m \in sentMsgs'} = {m.tid : m \in sentMsgs} \cup {tid}
  <2>1. [dst |-> dst, tid |-> tid].tid = tid
    OBVIOUS
  <2> QED
    BY <1>3, <2>1, Zenon
<1> QED
  BY <1>1, <1>2, <1>4 DEF InTransit

\* A transfer that is credited was in transit and no longer is.
LEMMA DeliverInTransit ==
  ASSUME CreditsRight, NEW m \in sentMsgs, DeliverMoves(m)
  PROVE  m.tid \in InTransit /\ InTransit' = InTransit \ {m.tid}
<1>1. m.dst \in Replicas
  BY DEF CreditsRight, TypeInv, TypeOK, Messages
<1>2. m.tid \in InTransit
  BY DEF DeliverMoves, NotCredited, CreditsRight, CreditedAtDst, InTransit, Credited
<1>3. Credited' = Credited \cup {m.tid}
  BY <1>1 DEF DeliverMoves, Credited, CreditsRight, TypeInv, TypeOK
<1> QED
  BY <1>2, <1>3 DEF InTransit, DeliverMoves, network

\* issue moves budget from escrow to the network.
LEMMA IssueQuantity ==
  ASSUME CreditsRight, TypeInv',
         NEW src \in Replicas, NEW dst \in Replicas, NEW amount \in Amounts,
         NEW tid \in Tids, IssueMoves(src, dst, amount, tid)
  PROVE  Quantity' = Quantity
<1>1. /\ amount \in Nat /\ escrow[src] \in Nat
      /\ escrow'[src] = escrow[src] - amount
      /\ \A s \in Replicas \ {src} : escrow'[s] = escrow[s]
  BY ConstantsOK DEF IssueMoves, CreditsRight, TypeInv, TypeOK
<1>2. TotalEscrow' = TotalEscrow - escrow[src] + (escrow[src] - amount)
  BY <1>1, UpdateTotals DEF CreditsRight
<1>3. tid \notin InTransit /\ InTransit' = InTransit \cup {tid}
  BY IssueInTransit
<1>4. tid \notin DOMAIN amtOf /\ amtOf' = Put(amtOf, tid, amount)
  BY DEF IssueMoves, FreshId
<1>5. InFlight' = InFlight + amount
  <2>1. amtOf \in [DOMAIN amtOf -> Nat] /\ InTransit \in SUBSET DOMAIN amtOf
    BY TotalsType DEF CreditsRight, TypeInv, TypeOK
  <2>2. SumOver(Put(amtOf, tid, amount), InTransit \cup {tid})
          = SumOver(amtOf, InTransit) + amount
    BY <1>1, <1>4, <2>1, SumPut, TotalsType DEF CreditsRight
  <2> QED
    BY <1>3, <1>4, <2>2 DEF InFlight
<1>6. TotalSpent' = TotalSpent
  BY DEF IssueMoves, TotalSpent
<1> QED
  BY <1>1, <1>2, <1>5, <1>6, TotalsType DEF Quantity, CreditsRight

\* deliver moves the whole amount of a transfer from the network to escrow,
\* and no duplicate of it does so again.
LEMMA DeliverQuantity ==
  ASSUME CreditsRight, TypeInv', NEW m \in sentMsgs, DeliverMoves(m)
  PROVE  Quantity' = Quantity
<1>1. /\ m.dst \in Replicas /\ m.tid \in DOMAIN amtOf /\ amtOf[m.tid] \in Nat
      /\ escrow[m.dst] \in Nat
      /\ escrow'[m.dst] = escrow[m.dst] + amtOf[m.tid]
      /\ \A s \in Replicas \ {m.dst} : escrow'[s] = escrow[s]
  BY DEF DeliverMoves, CreditsRight, TypeInv, TypeOK, Network, Messages
<1>2. TotalEscrow' = TotalEscrow - escrow[m.dst] + (escrow[m.dst] + amtOf[m.tid])
  BY <1>1, UpdateTotals DEF CreditsRight
<1>3. m.tid \in InTransit /\ InTransit' = InTransit \ {m.tid}
  BY DeliverInTransit
<1>4. amtOf' = amtOf
  BY DEF DeliverMoves, network
<1>5. InFlight = SumOver(amtOf, InTransit \ {m.tid}) + amtOf[m.tid]
  BY <1>3, SumRemove, TotalsType DEF InFlight, CreditsRight
<1>6. InFlight' = SumOver(amtOf, InTransit \ {m.tid})
  BY <1>3, <1>4 DEF InFlight
<1>7. IsFiniteSet(InTransit \ {m.tid}) /\ NatOn(amtOf, InTransit \ {m.tid})
  BY FS_RemoveElement, TotalsType DEF NatOn, CreditsRight
<1>8. InFlight' \in Nat
  BY <1>6, <1>7, SumType
<1>9. TotalSpent' = TotalSpent
  BY DEF DeliverMoves, TotalSpent
<1> QED
  BY <1>1, <1>2, <1>5, <1>6, <1>8, <1>9, TotalsType DEF Quantity, CreditsRight

\* drop destroys the budget in flight if the message was not credited yet.
LEMMA DropQuantity ==
  ASSUME TypeInv, NEW m \in sentMsgs, Drop(m)
  PROVE  Quantity' <= Quantity
<1>1. InTransit' \in SUBSET InTransit /\ amtOf' = amtOf
  BY DEF Drop, volatile, InTransit, Credited
<1>2. InFlight' <= InFlight /\ InFlight' \in Nat
  BY <1>1, SumSubset, SumType, TotalsType DEF InFlight
<1>3. TotalEscrow' = TotalEscrow /\ TotalSpent' = TotalSpent
  BY DEF Drop, volatile, TotalEscrow, TotalSpent
<1> QED
  BY <1>2, <1>3, TotalsType DEF Quantity

\* A crash of a disciplined replica destroys the charges and undurable
\* balances since its last checkpoint, and creates nothing: the debit of
\* every message in the network is in the durable image already.
LEMMA CrashQuantity ==
  ASSUME Disciplined, DurableInv, TypeInv', NEW r \in Replicas, CrashMoves(r)
  PROVE  Quantity' <= Quantity
<1>1. /\ escrow[r] \in Nat /\ spent[r] \in Nat
      /\ dEscrow[r] \in Nat /\ dSpent[r] \in Nat
      /\ escrow'[r] = dEscrow[r] /\ spent'[r] = dSpent[r]
      /\ \A s \in Replicas \ {r} : escrow'[s] = escrow[s] /\ spent'[s] = spent[s]
  BY DEF CrashMoves, RestoredSpent, DurableInv, TypeInv, TypeOK
<1>2. TotalEscrow' = TotalEscrow - escrow[r] + dEscrow[r]
  BY <1>1, UpdateTotals DEF DurableInv
<1>3. TotalSpent' = TotalSpent - spent[r] + dSpent[r]
  BY <1>1, UpdateTotals DEF DurableInv
<1>4. recvd' = recvd
  BY DEF CrashMoves, RestoredRecvd, Disciplined, DurableInv, DedupDurable, TypeInv, TypeOK
<1>5. InFlight' <= InFlight /\ InFlight' \in Nat
  <2>1. InTransit' \in SUBSET InTransit /\ amtOf' = amtOf
    BY <1>4 DEF CrashMoves, InTransit, Credited
  <2> QED
    BY <2>1, SumSubset, SumType, TotalsType DEF InFlight, DurableInv
<1>6. dEscrow[r] + dSpent[r] <= escrow[r] + spent[r]
  BY DEF DurableInv, Lag
<1> QED
  BY <1>1, <1>2, <1>3, <1>5, <1>6, TotalsType DEF Quantity, DurableInv

\* No step creates budget.
LEMMA QuantityStep ==
  ASSUME Disciplined
  PROVE  DurableInv /\ [Next]_vars => Quantity' <= Quantity
<1> SUFFICES ASSUME DurableInv, [Next]_vars PROVE Quantity' <= Quantity
  OBVIOUS
<1>0. Quantity \in Nat /\ TypeInv /\ TypeInv'
  BY TotalsType, NextTypeInv DEF Quantity, DurableInv
<1>1. ASSUME NEW r \in Replicas, NEW amount \in Amounts, Charge(r, amount)
      PROVE  Quantity' <= Quantity
  BY <1>0, <1>1, ChargeQuantity
<1>2. ASSUME NEW src \in Replicas, NEW dst \in Replicas, NEW amount \in Amounts,
             NEW tid \in Tids, Issue(src, dst, amount, tid)
      PROVE  Quantity' <= Quantity
  BY <1>0, <1>2, Moves, IssueQuantity
<1>3. ASSUME NEW m \in sentMsgs, Deliver(m)
      PROVE  Quantity' <= Quantity
  BY <1>0, <1>3, Moves, DeliverQuantity
<1>4. ASSUME NEW m \in sentMsgs, Drop(m)
      PROVE  Quantity' <= Quantity
  BY <1>0, <1>4, DropQuantity
<1>5. ASSUME NEW r \in Replicas, Persist(r)
      PROVE  Quantity' <= Quantity
  <2>1. Quantity' = Quantity
    BY <1>5 DEF Persist, volatile, network, Quantity, TotalEscrow, TotalSpent,
                InFlight, InTransit, Credited
  <2> QED
    BY <1>0, <2>1
<1>6. ASSUME NEW r \in Replicas, Crash(r)
      PROVE  Quantity' <= Quantity
  BY <1>0, <1>6, Moves, CrashQuantity
<1>7. CASE UNCHANGED vars
  <2>1. Quantity' = Quantity
    BY <1>7 DEF vars, Quantity, TotalEscrow, TotalSpent, InFlight, InTransit, Credited
  <2> QED
    BY <1>0, <2>1
<1> QED
  BY <1>1, <1>2, <1>3, <1>4, <1>5, <1>6, <1>7 DEF Next

-----------------------------------------------------------------------------
(* The inductive invariant.                                                *)

\* Genesis is within the cap and every durable image is current.
LEMMA InitDurableInv == Init => DurableInv
<1> SUFFICES ASSUME Init PROVE DurableInv
  OBVIOUS
<1>1. TypeInv
  BY InitTypeInv
<1>2. CreditedAtDst /\ CreditedOnce /\ DedupDurable
  BY DEF Init, CreditedAtDst, CreditedOnce, Credited, DedupDurable
<1>3. Lag
  BY ConstantsOK DEF Init, Lag
<1>4. SafetyLe
  <2>1. \A r \in Replicas : spent[r] = 0
    BY DEF Init
  <2>2. TotalSpent = 0
    BY <2>1, SumZero, ConstantsOK DEF TotalSpent
  <2>3. InFlight = 0
    BY SumEmpty DEF Init, InFlight, InTransit
  <2>4. TotalEscrow = SumOver(InitEscrow, Replicas)
    BY DEF Init, TotalEscrow
  <2> QED
    BY <1>1, <2>2, <2>3, <2>4, GenesisWithinCap, TotalsType DEF SafetyLe, Quantity
<1> QED
  BY <1>1, <1>2, <1>3, <1>4 DEF DurableInv

\* Only the receiver of a message credits it, and only once.
LEMMA CreditsStep ==
  ASSUME Disciplined, DurableInv, [Next]_vars
  PROVE  CreditedAtDst' /\ CreditedOnce' /\ DedupDurable'
<1> USE DEF CreditedAtDst, CreditedOnce, DedupDurable
<1>1. ASSUME NEW r \in Replicas, NEW amount \in Amounts, Charge(r, amount)
      PROVE  CreditedAtDst' /\ CreditedOnce' /\ DedupDurable'
  BY <1>1 DEF DurableInv, Charge, Credited, durable, network
<1>2. ASSUME NEW src \in Replicas, NEW dst \in Replicas, NEW amount \in Amounts,
             NEW tid \in Tids, Issue(src, dst, amount, tid)
      PROVE  CreditedAtDst' /\ CreditedOnce' /\ DedupDurable'
  <2>1. recvd' = recvd /\ dRecvd' = dRecvd
        /\ sentMsgs' = sentMsgs \cup {[dst |-> dst, tid |-> tid]}
    BY <1>2 DEF Issue
  <2>2. \A r \in Replicas : tid \notin recvd[r]
    BY <1>2 DEF Issue, FreshId, DurableInv, Credited
  <2>3. CreditedAtDst'
    BY <2>1, <2>2 DEF DurableInv
  <2>4. DOMAIN amtOf \subseteq DOMAIN amtOf'
    BY <1>2 DEF Issue, Put
  <2>5. CreditedOnce' /\ DedupDurable'
    BY <2>1, <2>4 DEF DurableInv, Credited
  <2> QED
    BY <2>3, <2>5
<1>3. ASSUME NEW m \in sentMsgs, Deliver(m)
      PROVE  CreditedAtDst' /\ CreditedOnce' /\ DedupDurable'
  <2>1. m.dst \in Replicas /\ m.tid \in DOMAIN amtOf
    BY DEF DurableInv, TypeInv, TypeOK, Network, Messages
  <2>2. /\ recvd' = [recvd EXCEPT ![m.dst] = recvd[m.dst] \cup {m.tid}]
        /\ dRecvd' = [dRecvd EXCEPT ![m.dst] = recvd[m.dst] \cup {m.tid}]
        /\ sentMsgs' = sentMsgs /\ amtOf' = amtOf
    BY <1>3 DEF Deliver, Disciplined, network
  <2>3. recvd \in [Replicas -> SUBSET Tids]
    BY DEF DurableInv, TypeInv, TypeOK
  <2>4. /\ recvd'[m.dst] = recvd[m.dst] \cup {m.tid}
        /\ \A r \in Replicas \ {m.dst} : recvd'[r] = recvd[r]
    BY <2>1, <2>2, <2>3
  <2>5. \A n \in sentMsgs : n.tid = m.tid => n = m
    BY DEF DurableInv, TypeInv, Network
  <2>6. CreditedAtDst'
    BY <2>1, <2>2, <2>4, <2>5 DEF DurableInv
  <2>7. CreditedOnce'
    BY <2>1, <2>2, <2>4 DEF DurableInv, Credited
  <2>8. DedupDurable'
    BY <2>2 DEF DurableInv
  <2> QED
    BY <2>6, <2>7, <2>8
<1>4. ASSUME NEW m \in sentMsgs, Drop(m)
      PROVE  CreditedAtDst' /\ CreditedOnce' /\ DedupDurable'
  BY <1>4 DEF DurableInv, Drop, Credited, volatile, durable
<1>5. ASSUME NEW r \in Replicas, Persist(r)
      PROVE  CreditedAtDst' /\ CreditedOnce' /\ DedupDurable'
  <2>1. dRecvd' = dRecvd
    BY <1>5 DEF Persist, Disciplined, DurableInv, TypeInv, TypeOK
  <2> QED
    BY <1>5, <2>1 DEF DurableInv, Persist, Credited, volatile, network
<1>6. ASSUME NEW r \in Replicas, Crash(r)
      PROVE  CreditedAtDst' /\ CreditedOnce' /\ DedupDurable'
  <2>1. recvd' = recvd
    BY <1>6 DEF Crash, RestoredRecvd, Disciplined, DurableInv, TypeInv, TypeOK
  <2> QED
    BY <1>6, <2>1 DEF DurableInv, Crash, Credited, durable, network
<1>7. CASE UNCHANGED vars
  BY <1>7 DEF DurableInv, vars, Credited
<1> QED
  BY <1>1, <1>2, <1>3, <1>4, <1>5, <1>6, <1>7 DEF Next

\* No durable image is ever ahead of its replica: a debit is written ahead,
\* a credit is written through, and a charge moves escrow to spent.
LEMMA LagStep ==
  ASSUME Disciplined, DurableInv, [Next]_vars
  PROVE  Lag'
<1>0. /\ escrow \in [Replicas -> Nat] /\ dEscrow \in [Replicas -> Nat]
      /\ spent \in [Replicas -> Nat]  /\ dSpent \in [Replicas -> Nat]
      /\ Amounts \subseteq Nat /\ Lag
  BY ConstantsOK DEF DurableInv, TypeInv, TypeOK
<1>1. ASSUME NEW r \in Replicas, NEW amount \in Amounts, Charge(r, amount)
      PROVE  Lag'
  BY <1>0, <1>1 DEF Lag, Charge, Affordable, durable
<1>2. ASSUME NEW src \in Replicas, NEW dst \in Replicas, NEW amount \in Amounts,
             NEW tid \in Tids, Issue(src, dst, amount, tid)
      PROVE  Lag'
  BY <1>0, <1>2 DEF Lag, Issue, Affordable, DurableDebit, Disciplined
<1>3. ASSUME NEW m \in sentMsgs, Deliver(m)
      PROVE  Lag'
  <2>1. m.dst \in Replicas /\ amtOf[m.tid] \in Nat
    BY DEF DurableInv, TypeInv, TypeOK, Network, Messages
  <2> QED
    BY <1>0, <1>3, <2>1 DEF Lag, Deliver, DurableCredit
<1>4. ASSUME NEW m \in sentMsgs, Drop(m)
      PROVE  Lag'
  BY <1>0, <1>4 DEF Lag, Drop, volatile, durable
<1>5. ASSUME NEW r \in Replicas, Persist(r)
      PROVE  Lag'
  BY <1>0, <1>5 DEF Lag, Persist, PersistedSpent, volatile
<1>6. ASSUME NEW r \in Replicas, Crash(r)
      PROVE  Lag'
  BY <1>0, <1>6 DEF Lag, Crash, RestoredSpent, durable
<1>7. CASE UNCHANGED vars
  BY <1>0, <1>7 DEF Lag, vars
<1> QED
  BY <1>1, <1>2, <1>3, <1>4, <1>5, <1>6, <1>7 DEF Next

\* Every step of the disciplined cluster keeps the invariant.
LEMMA NextDurableInv ==
  ASSUME Disciplined
  PROVE  DurableInv /\ [Next]_vars => DurableInv'
<1> SUFFICES ASSUME DurableInv, [Next]_vars PROVE DurableInv'
  OBVIOUS
<1>1. TypeInv'
  BY NextTypeInv DEF DurableInv
<1>2. SafetyLe'
  <2>1. Quantity' <= Quantity /\ Quantity <= CAP
    BY QuantityStep DEF DurableInv, SafetyLe
  <2>2. Quantity \in Nat /\ Quantity' \in Nat /\ CAP \in Nat
    BY <1>1, TotalsType, TotalsTypeAfter, ConstantsOK DEF Quantity, DurableInv
  <2> QED
    BY <2>1, <2>2 DEF SafetyLe
<1> QED
  BY <1>1, <1>2, CreditsStep, LagStep DEF DurableInv

\* The invariant of the disciplined cluster.
LEMMA DurableInvariance == ASSUME Disciplined PROVE Spec => []DurableInv
  BY InitDurableInv, NextDurableInv, PTL DEF Spec

-----------------------------------------------------------------------------
(* The theorems.                                                           *)

\* safety_le(): with both disciplines, whatever is crashed, duplicated,
\* reordered, retransmitted or dropped, the budget in existence, spent, held
\* or in flight, never exceeds the cap.
THEOREM BudgetWithinCap == ASSUME Disciplined PROVE Spec => []SafetyLe
<1>1. DurableInv => SafetyLe
  BY DEF DurableInv
<1> QED
  BY <1>1, DurableInvariance, PTL

\* The cap theorem of the disciplined cluster: the replicas never record more
\* spent than the cap.
THEOREM SpentWithinCap == ASSUME Disciplined PROVE Spec => []Safety
<1>1. DurableInv => Safety
  <2> SUFFICES ASSUME DurableInv PROVE Safety
    OBVIOUS
  <2>1. TotalSpent \in Nat /\ TotalEscrow \in Nat /\ InFlight \in Nat /\ CAP \in Nat
    BY TotalsType, ConstantsOK DEF DurableInv
  <2> QED
    BY <2>1 DEF DurableInv, SafetyLe, Quantity, Safety
<1> QED
  BY <1>1, DurableInvariance, PTL

\* credit(): no transfer is credited at two replicas and none that was not
\* issued is credited, although every message can be delivered for ever.
THEOREM TransferCreditedOnce == ASSUME Disciplined PROVE Spec => []CreditedOnce
<1>1. DurableInv => CreditedOnce
  BY DEF DurableInv
<1> QED
  BY <1>1, DurableInvariance, PTL

\* No step of the disciplined cluster, recovery included, creates budget.
THEOREM NothingCreated == ASSUME Disciplined PROVE Spec => NonCreation
<1>1. DurableInv /\ [Next]_vars => [Quantity' <= Quantity]_vars
  BY QuantityStep
<1> QED
  BY <1>1, DurableInvariance, PTL DEF Spec, NonCreation

\* crash() cannot make a replica ready to credit a transfer again: what it
\* has credited stays in its dedup set.
THEOREM CreditRemembered == ASSUME Disciplined PROVE Spec => CreditKept
<1>1. DurableInv /\ [Next]_vars => [\A r \in Replicas : recvd[r] \subseteq recvd'[r]]_vars
  <2> SUFFICES ASSUME DurableInv, Next
               PROVE  \A r \in Replicas : recvd[r] \subseteq recvd'[r]
    BY DEF vars
  <2>1. recvd \in [Replicas -> SUBSET Tids] /\ dRecvd = recvd
    BY DEF DurableInv, DedupDurable, TypeInv, TypeOK
  <2>2. \/ recvd' = recvd
        \/ \E m \in sentMsgs : Deliver(m)
        \/ \E r \in Replicas : Crash(r)
    BY DEF Next, Charge, Issue, Drop, Persist, volatile
  <2>3. ASSUME NEW m \in sentMsgs, Deliver(m)
        PROVE  \A r \in Replicas : recvd[r] \subseteq recvd'[r]
    BY <2>1, <2>3 DEF Deliver
  <2>4. ASSUME NEW r \in Replicas, Crash(r)
        PROVE  recvd' = recvd
    BY <2>1, <2>4 DEF Crash, RestoredRecvd, Disciplined
  <2> QED
    BY <2>2, <2>3, <2>4
<1> QED
  BY <1>1, DurableInvariance, PTL DEF Spec, CreditKept

\* Whatever crashes at the same moment, each replica alone, the budget that
\* exists after the restart is within the cap.
THEOREM EveryCrashCutSafe == ASSUME Disciplined PROVE Spec => []CrashCutSafe
<1>1. DurableInv => CrashCutSafe
  <2> SUFFICES ASSUME DurableInv, NEW C \in SUBSET Replicas
               PROVE  AfterCrashOf(C) <= CAP
    BY DEF CrashCutSafe
  <2> DEFINE all   == [r \in Replicas |-> escrow[r] + spent[r]]
             holds == [r \in Replicas |-> IF r \in C THEN dEscrow[r] + dSpent[r]
                                                     ELSE escrow[r] + spent[r]]
             cred  == UNION {IF r \in C THEN RestoredRecvd(r) ELSE recvd[r] : r \in Replicas}
  <2>1. IsFiniteSet(Replicas) /\ CAP \in Nat
    BY ConstantsOK
  <2>2. /\ NatOn(escrow, Replicas) /\ NatOn(spent, Replicas)
        /\ NatOn(dEscrow, Replicas) /\ NatOn(dSpent, Replicas)
    BY DEF DurableInv, TypeInv, TypeOK, NatOn
  <2>3. SumOver(all, Replicas) = TotalEscrow + TotalSpent
    <3>1. \A r \in Replicas : all[r] = escrow[r] + spent[r]
      OBVIOUS
    <3> HIDE DEF all
    <3> QED
      BY <2>1, <2>2, <3>1, SumPlus DEF TotalEscrow, TotalSpent
  <2>4. /\ NatOn(all, Replicas) /\ NatOn(holds, Replicas)
        /\ \A r \in Replicas : holds[r] <= all[r]
    BY <2>2 DEF NatOn, DurableInv, Lag
  <2>5. SumOver(holds, Replicas) <= SumOver(all, Replicas)
    <3> HIDE DEF all, holds
    <3> QED
      BY <2>1, <2>4, SumMonotone
  <2>6. cred = Credited
    <3>1. \A r \in Replicas : RestoredRecvd(r) = recvd[r]
      BY DEF RestoredRecvd, Disciplined, DurableInv, DedupDurable
    <3> QED
      BY <3>1 DEF Credited
  <2>7. AfterCrashOf(C) = SumOver(holds, Replicas) + InFlight
    BY <2>6 DEF AfterCrashOf, InFlight, InTransit
  <2>8. /\ SumOver(holds, Replicas) \in Nat
        /\ TotalEscrow \in Nat /\ TotalSpent \in Nat /\ InFlight \in Nat
    <3> HIDE DEF holds
    <3> QED
      BY <2>1, <2>4, SumType, TotalsType DEF DurableInv
  <2> HIDE DEF all, holds, cred
  <2> QED
    BY <2>1, <2>3, <2>5, <2>7, <2>8 DEF DurableInv, SafetyLe, Quantity
<1> QED
  BY <1>1, DurableInvariance, PTL

\* With both disciplines a replica's holding grows by the credit of a transfer
\* addressed to it that no replica had credited, and in no other way: neither
\* a checkpoint nor a recovery gives it anything.
THEOREM HoldingGrows == ASSUME Disciplined PROVE Spec => HoldingGrowsByCreditOnly
<1> DEFINE Explained(r) ==
             Holding(r)' > Holding(r) =>
               \E m \in sentMsgs : /\ m.dst = r
                                   /\ m.tid \in recvd'[r] \ Credited
                                   /\ Holding(r)' = Holding(r) + amtOf[m.tid]
<1>1. ASSUME DurableInv, Next, NEW r \in Replicas
      PROVE  Explained(r)
  <2>0. /\ escrow \in [Replicas -> Nat] /\ spent \in [Replicas -> Nat]
        /\ dEscrow \in [Replicas -> Nat] /\ dSpent \in [Replicas -> Nat]
        /\ recvd \in [Replicas -> SUBSET Tids] /\ Amounts \subseteq Nat
    BY <1>1, ConstantsOK DEF DurableInv, TypeInv, TypeOK
  <2>1. ASSUME NEW s \in Replicas, NEW amount \in Amounts, Charge(s, amount)
        PROVE  Holding(r)' <= Holding(r)
    BY <2>0, <2>1 DEF Charge, Holding
  <2>2. ASSUME NEW src \in Replicas, NEW dst \in Replicas, NEW amount \in Amounts,
               NEW tid \in Tids, Issue(src, dst, amount, tid)
        PROVE  Holding(r)' <= Holding(r)
    BY <2>0, <2>2 DEF Issue, Holding
  <2>3. ASSUME NEW m \in sentMsgs, Deliver(m)
        PROVE  Explained(r)
    <3>1. m.dst \in Replicas /\ amtOf[m.tid] \in Nat
      BY <1>1 DEF DurableInv, TypeInv, TypeOK, Network, Messages
    <3>2. /\ escrow' = [escrow EXCEPT ![m.dst] = escrow[m.dst] + amtOf[m.tid]]
          /\ recvd' = [recvd EXCEPT ![m.dst] = recvd[m.dst] \cup {m.tid}]
          /\ spent' = spent
      BY <2>3 DEF Deliver
    <3>3. m.tid \notin Credited
      BY <1>1, <2>3, Moves, DeliverInTransit DEF InTransit
    <3>4. CASE r = m.dst
      <4>1. m.tid \in recvd'[r] /\ Holding(r)' = Holding(r) + amtOf[m.tid]
        BY <2>0, <3>1, <3>2, <3>4 DEF Holding
      <4> QED
        BY <3>3, <3>4, <4>1
    <3>5. CASE r # m.dst
      <4>1. Holding(r)' = Holding(r)
        BY <2>0, <3>2, <3>5 DEF Holding
      <4> QED
        BY <2>0, <4>1 DEF Holding
    <3> QED
      BY <3>4, <3>5
  <2>4. ASSUME NEW m \in sentMsgs, Drop(m)
        PROVE  Holding(r)' <= Holding(r)
    BY <2>0, <2>4 DEF Drop, volatile, Holding
  <2>5. ASSUME NEW s \in Replicas, Persist(s)
        PROVE  Holding(r)' <= Holding(r)
    BY <2>0, <2>5 DEF Persist, volatile, Holding
  <2>6. ASSUME NEW s \in Replicas, Crash(s)
        PROVE  Holding(r)' <= Holding(r)
    <3>1. dEscrow[s] + dSpent[s] <= escrow[s] + spent[s]
      BY <1>1 DEF DurableInv, Lag
    <3> QED
      BY <2>0, <2>6, <3>1 DEF Crash, RestoredSpent, Holding
  <2>7. Holding(r) \in Nat /\ Holding(r)' \in Nat
    <3>1. TypeInv'
      BY <1>1, NextTypeInv DEF DurableInv
    <3> QED
      BY <2>0, <3>1 DEF Holding, TypeInv, TypeOK
  <2>8. Holding(r)' <= Holding(r) => Explained(r)
    BY <2>7
  <2> HIDE DEF Explained
  <2> QED
    BY <1>1, <2>1, <2>2, <2>3, <2>4, <2>5, <2>6, <2>8 DEF Next
<1>2. DurableInv /\ [Next]_vars => [\A r \in Replicas : Explained(r)]_vars
  <2> HIDE DEF Explained
  <2> QED
    BY <1>1
<1> QED
  BY <1>2, DurableInvariance, PTL DEF Spec, HoldingGrowsByCreditOnly

-----------------------------------------------------------------------------
(* What holds whatever the flags.                                          *)

\* A replica never has more recorded as spent than it has spent.
SpentLag == \A r \in Replicas : dSpent[r] <= spent[r]

\* Only persist writes the durable spent, and it writes the current one.
LEMMA SpentLagInvariance == Spec => [](TypeInv /\ SpentLag)
<1>1. Init => SpentLag
  BY DEF Init, SpentLag
<1>2. TypeInv /\ SpentLag /\ [Next]_vars => SpentLag'
  <2> SUFFICES ASSUME TypeInv, SpentLag, [Next]_vars PROVE SpentLag'
    OBVIOUS
  <2>1. /\ spent \in [Replicas -> Nat] /\ dSpent \in [Replicas -> Nat]
        /\ Amounts \subseteq Nat
    BY ConstantsOK DEF TypeInv, TypeOK
  <2>2. ASSUME NEW r \in Replicas, NEW amount \in Amounts, Charge(r, amount)
        PROVE  SpentLag'
    BY <2>1, <2>2 DEF SpentLag, Charge, durable
  <2>3. ASSUME NEW r \in Replicas, Persist(r)
        PROVE  SpentLag'
    BY <2>1, <2>3 DEF SpentLag, Persist, PersistedSpent, volatile
  <2>4. ASSUME NEW r \in Replicas, Crash(r)
        PROVE  SpentLag'
    BY <2>1, <2>4 DEF SpentLag, Crash, RestoredSpent, durable
  <2>5. CASE UNCHANGED <<spent, dSpent>>
    BY <2>5 DEF SpentLag
  <2> QED
    BY <2>2, <2>3, <2>4, <2>5 DEF Next, Issue, Deliver, Drop, volatile, durable, vars
<1> QED
  BY <1>1, <1>2, InitTypeInv, NextTypeInv, PTL DEF Spec

\* In every configuration, what persist() recorded as spent survives every
\* crash: neither image of spent ever falls below it.
THEOREM PersistedSpendSurvives == Spec => PersistedSpendKept
<1>1. TypeInv /\ SpentLag /\ [Next]_vars
        => [\A r \in Replicas : dSpent[r] <= dSpent'[r] /\ dSpent[r] <= spent'[r]]_vars
  <2> SUFFICES ASSUME TypeInv, SpentLag, Next, NEW r \in Replicas
               PROVE  dSpent[r] <= dSpent'[r] /\ dSpent[r] <= spent'[r]
    BY DEF vars
  <2>1. /\ spent \in [Replicas -> Nat] /\ dSpent \in [Replicas -> Nat]
        /\ Amounts \subseteq Nat
        /\ dSpent[r] <= spent[r]
    BY ConstantsOK DEF TypeInv, TypeOK, SpentLag
  <2>2. ASSUME NEW s \in Replicas, NEW amount \in Amounts, Charge(s, amount)
        PROVE  dSpent' = dSpent /\ spent[r] <= spent'[r]
    BY <2>1, <2>2 DEF Charge, durable
  <2>3. ASSUME NEW s \in Replicas, Persist(s)
        PROVE  dSpent[r] <= dSpent'[r] /\ spent' = spent
    BY <2>1, <2>3 DEF Persist, PersistedSpent, volatile
  <2>4. ASSUME NEW s \in Replicas, Crash(s)
        PROVE  dSpent' = dSpent /\ dSpent[r] <= spent'[r]
    BY <2>1, <2>4 DEF Crash, RestoredSpent, durable
  <2>5. \/ UNCHANGED <<spent, dSpent>>
        \/ \E s \in Replicas, amount \in Amounts : Charge(s, amount)
        \/ \E s \in Replicas : Persist(s) \/ Crash(s)
    BY DEF Next, Issue, Deliver, Drop, volatile, durable
  <2>6. spent'[r] \in Int /\ dSpent'[r] \in Int
    <3>1. TypeInv'
      BY NextTypeInv
    <3> QED
      BY <3>1 DEF TypeInv, TypeOK
  <2> QED
    BY <2>1, <2>2, <2>3, <2>4, <2>5, <2>6
<1> QED
  BY <1>1, SpentLagInvariance, PTL DEF Spec, PersistedSpendKept

-----------------------------------------------------------------------------
(* The ledger of rights: each step of the disciplined cluster is a step of *)
(* it, or leaves it as it is.                                              *)
(*                                                                         *)
(*   charge, crash        a replica spends, or loses, what it holds        *)
(*   issue                rights enter a transfer that was never opened    *)
(*   deliver              the rights of an open transfer land, all of them *)
(*   drop                 the rights of an open transfer are lost; nothing *)
(*                        happens if the transfer had landed               *)
(*   persist              nothing                                          *)
(*                                                                         *)
(* A second delivery of a message is no step at all: credit refuses it.    *)


\* The ledger's state, as the refinement mapping computes it.
Held    == [r \in Replicas |-> escrow[r] + spent[r]]
Transit == [t \in InTransit |-> amtOf[t]]

\* The ledger's totals and dictionaries are those of the cluster.
LEMMA LedgerOperators ==
  ASSUME NEW f, NEW S, NEW k, NEW v
  PROVE  Rights!SumOver(f, S) = SumOver(f, S) /\ Rights!Put(f, k, v) = Put(f, k, v)
  BY DEF Rights!SumOver, Rights!Tokens, Rights!Pile, Rights!Cardinality, Rights!Put,
         SumOver, Tokens, Pile, Cardinality, Put

\* Genesis is a state the ledger may start in.
LEMMA InitRefines == Init => Rights!RInit
<1> SUFFICES ASSUME Init PROVE Rights!RInit
  OBVIOUS
<1>1. IsFiniteSet(Replicas) /\ InitEscrow \in [Replicas -> Nat]
  BY ConstantsOK
<1>2. Held = InitEscrow
  BY <1>1 DEF Init, Held
<1>3. InTransit = {} /\ DOMAIN amtOf = {}
  BY DEF Init, InTransit, EmptyDict
<1>4. Transit = [t \in {} |-> 0]
  BY <1>3 DEF Transit
<1>5. Held \in [Replicas -> Nat] /\ Rights!SumOver(Held, Replicas) <= CAP
  BY <1>1, <1>2, GenesisWithinCap, LedgerOperators
<1>6. spent = [r \in Replicas |-> 0]
  BY DEF Init
<1> QED
  BY <1>3, <1>4, <1>5, <1>6 DEF Held, Transit, Rights!RInit

\* charge: the replica turns a held right into a used one.
LEMMA ChargeRefines ==
  ASSUME DurableInv, NEW r \in Replicas, NEW amount \in Amounts, Charge(r, amount)
  PROVE  Rights!Local(r)
<1>1. /\ amount \in Nat
      /\ escrow \in [Replicas -> Nat] /\ spent \in [Replicas -> Nat]
      /\ escrow' = [escrow EXCEPT ![r] = escrow[r] - amount]
      /\ spent'  = [spent EXCEPT ![r] = spent[r] + amount]
      /\ amount <= escrow[r]
  BY ConstantsOK DEF Charge, Affordable, DurableInv, TypeInv, TypeOK
<1>2. Held' = Held
  BY <1>1 DEF Held
<1>3. Held[r] = escrow[r] + spent[r] /\ spent'[r] = spent[r] + amount
  BY <1>1 DEF Held
<1>4. /\ Held'[r] \in 0 .. Held[r]
      /\ spent'[r] \in 0 .. Held'[r]
  BY <1>1, <1>2, <1>3
<1>5. /\ Held' = [Held EXCEPT ![r] = Held'[r]]
      /\ spent' = [spent EXCEPT ![r] = spent'[r]]
  BY <1>1, <1>2 DEF Held
<1>6. Transit' = Transit /\ (DOMAIN amtOf)' = DOMAIN amtOf
  BY DEF Charge, Transit, InTransit, Credited, network
<1> QED
  BY <1>4, <1>5, <1>6 DEF Rights!Local, Held, Transit

\* crash: the replica comes back with no more than it held.
LEMMA CrashRefines ==
  ASSUME Disciplined, DurableInv, NEW r \in Replicas, Crash(r)
  PROVE  Rights!Local(r)
<1>1. /\ escrow \in [Replicas -> Nat] /\ spent \in [Replicas -> Nat]
      /\ dEscrow[r] \in Nat /\ dSpent[r] \in Nat
      /\ escrow' = [escrow EXCEPT ![r] = dEscrow[r]]
      /\ spent'  = [spent EXCEPT ![r] = dSpent[r]]
      /\ dEscrow[r] + dSpent[r] <= escrow[r] + spent[r]
  BY DEF Crash, RestoredSpent, DurableInv, TypeInv, TypeOK, Lag
<1>2. /\ Held'[r] = dEscrow[r] + dSpent[r] /\ Held[r] = escrow[r] + spent[r]
      /\ spent'[r] = dSpent[r]
  BY <1>1 DEF Held
<1>3. /\ Held'[r] \in 0 .. Held[r]
      /\ spent'[r] \in 0 .. Held'[r]
  BY <1>1, <1>2
<1>4. /\ Held' = [Held EXCEPT ![r] = Held'[r]]
      /\ spent' = [spent EXCEPT ![r] = spent'[r]]
  BY <1>1, <1>2 DEF Held
<1>5. recvd' = recvd
  BY DEF Crash, RestoredRecvd, Disciplined, DurableInv, DedupDurable, TypeInv, TypeOK
<1>6. Transit' = Transit /\ (DOMAIN amtOf)' = DOMAIN amtOf
  BY <1>5 DEF Crash, Transit, InTransit, Credited, network
<1> QED
  BY <1>3, <1>4, <1>6 DEF Rights!Local, Held, Transit

\* issue: rights leave the sender into a transfer that is new.
LEMMA IssueRefines ==
  ASSUME DurableInv,
         NEW src \in Replicas, NEW dst \in Replicas, NEW amount \in Amounts,
         NEW tid \in Tids, Issue(src, dst, amount, tid)
  PROVE  Rights!Open(src, tid)
<1>1. /\ amount \in Nat /\ amount <= escrow[src]
      /\ escrow \in [Replicas -> Nat] /\ spent \in [Replicas -> Nat]
      /\ escrow' = [escrow EXCEPT ![src] = escrow[src] - amount]
      /\ spent' = spent
      /\ tid \notin DOMAIN amtOf /\ amtOf' = Put(amtOf, tid, amount)
  BY ConstantsOK DEF Issue, Affordable, FreshId, DurableInv, TypeInv, TypeOK
<1>2. Held' = [Held EXCEPT ![src] = Held[src] - amount]
  <2>1. \A r \in Replicas : Held[r] = escrow[r] + spent[r]
                          /\ Held'[r] = escrow'[r] + spent[r]
    BY <1>1 DEF Held
  <2>2. Held'[src] = Held[src] - amount
    BY <1>1, <2>1
  <2>3. \A r \in Replicas \ {src} : Held'[r] = Held[r]
    BY <1>1, <2>1
  <2> QED
    BY <2>2, <2>3 DEF Held
<1>3. amount \in 0 .. Held[src] - spent[src]
  BY <1>1 DEF Held
<1>4. InTransit' = InTransit \cup {tid}
  BY Moves, IssueInTransit
<1>5. InTransit \subseteq DOMAIN amtOf
  BY TotalsType DEF DurableInv
<1>6. Transit' = Put(Transit, tid, amount)
  BY <1>1, <1>4, <1>5 DEF Transit, Put
<1>7. (DOMAIN amtOf)' = DOMAIN amtOf \cup {tid}
  BY <1>1 DEF Put
<1>8. Held' = [Held EXCEPT ![src] = Held[src] - amount]
      /\ Transit' = Rights!Put(Transit, tid, amount)
  BY <1>2, <1>6, LedgerOperators
<1> QED
  BY <1>1, <1>3, <1>7, <1>8 DEF Rights!Open, Held, Transit

\* deliver: the whole transfer lands at the receiver.
LEMMA DeliverRefines ==
  ASSUME DurableInv, NEW m \in sentMsgs, Deliver(m)
  PROVE  m.tid \in InTransit /\ m.dst \in Replicas /\ Rights!Land(m.dst, m.tid)
<1>1. /\ m.dst \in Replicas /\ amtOf[m.tid] \in Nat
      /\ escrow \in [Replicas -> Nat] /\ spent \in [Replicas -> Nat]
      /\ escrow' = [escrow EXCEPT ![m.dst] = escrow[m.dst] + amtOf[m.tid]]
      /\ spent' = spent /\ amtOf' = amtOf
  BY DEF Deliver, DurableInv, TypeInv, TypeOK, Network, Messages, network
<1>2. m.tid \in InTransit /\ InTransit' = InTransit \ {m.tid}
  BY Moves, DeliverInTransit
<1>3. Held' = [Held EXCEPT ![m.dst] = Held[m.dst] + Transit[m.tid]]
  BY <1>1, <1>2 DEF Held, Transit
<1>4. Transit' = [u \in DOMAIN Transit \ {m.tid} |-> Transit[u]]
  BY <1>1, <1>2 DEF Transit
<1> QED
  BY <1>1, <1>2, <1>3, <1>4 DEF Rights!Land, Held, Transit

\* drop: the transfer is lost, unless it has landed.
LEMMA DropRefines ==
  ASSUME DurableInv, NEW m \in sentMsgs, Drop(m)
  PROVE  \/ m.tid \in InTransit /\ Rights!Vanish(m.tid)
         \/ UNCHANGED <<Held, spent, Transit, DOMAIN amtOf>>
<1>1. /\ escrow' = escrow /\ spent' = spent /\ recvd' = recvd /\ amtOf' = amtOf
      /\ sentMsgs' = sentMsgs \ {m}
  BY DEF Drop, volatile
<1>2. Held' = Held
  BY <1>1 DEF Held
<1>3. InTransit' = InTransit \ {m.tid}
  <2>1. {n.tid : n \in sentMsgs \ {m}} = {n.tid : n \in sentMsgs} \ {m.tid}
    BY DEF DurableInv, TypeInv, Network
  <2> QED
    BY <1>1, <2>1 DEF InTransit, Credited
<1>4. CASE m.tid \in InTransit
  <2>1. Transit' = [u \in DOMAIN Transit \ {m.tid} |-> Transit[u]]
    BY <1>1, <1>3 DEF Transit
  <2> QED
    BY <1>1, <1>2, <1>4, <2>1 DEF Rights!Vanish, Held, Transit
<1>5. CASE m.tid \notin InTransit
  BY <1>1, <1>2, <1>3, <1>5 DEF Transit
<1> QED
  BY <1>4, <1>5

\* Every step of the cluster is a step of the ledger or leaves it as it is.
LEMMA NextRefines ==
  ASSUME Disciplined
  PROVE  DurableInv /\ [Next]_vars => [Rights!RNext]_(Rights!rvars)
<1> SUFFICES ASSUME DurableInv, [Next]_vars
             PROVE  Rights!RNext \/ UNCHANGED <<Held, spent, Transit, DOMAIN amtOf>>
  BY DEF Rights!rvars, Held, Transit
<1>0. DOMAIN Transit = InTransit
  BY DEF Transit
<1>1. ASSUME NEW r \in Replicas, NEW amount \in Amounts, Charge(r, amount)
      PROVE  Rights!RNext
  BY <1>1, ChargeRefines DEF Rights!RNext
<1>2. ASSUME NEW src \in Replicas, NEW dst \in Replicas, NEW amount \in Amounts,
             NEW tid \in Tids, Issue(src, dst, amount, tid)
      PROVE  Rights!RNext
  BY <1>2, IssueRefines DEF Rights!RNext
<1>3. ASSUME NEW m \in sentMsgs, Deliver(m)
      PROVE  Rights!RNext
  BY <1>0, <1>3, DeliverRefines DEF Rights!RNext, Transit
<1>4. ASSUME NEW m \in sentMsgs, Drop(m)
      PROVE  Rights!RNext \/ UNCHANGED <<Held, spent, Transit, DOMAIN amtOf>>
  BY <1>0, <1>4, DropRefines DEF Rights!RNext, Transit
<1>5. ASSUME NEW r \in Replicas, Persist(r)
      PROVE  UNCHANGED <<Held, spent, Transit, DOMAIN amtOf>>
  BY <1>5 DEF Persist, volatile, network, Held, Transit, InTransit, Credited
<1>6. ASSUME NEW r \in Replicas, Crash(r)
      PROVE  Rights!RNext
  BY <1>6, CrashRefines DEF Rights!RNext
<1>7. CASE UNCHANGED vars
  BY <1>7 DEF vars, Held, Transit, InTransit, Credited
<1> QED
  BY <1>1, <1>2, <1>3, <1>4, <1>5, <1>6, <1>7 DEF Next

\* With both disciplines, impl/durable.py implements the ledger of rights:
\* crashes, duplicates, reorderings and losses included, it does nothing to
\* the budget that a ledger which cannot create rights could not do.
THEOREM ImplementsLedger == ASSUME Disciplined PROVE Spec => ImplementsRightsLedger
  BY InitRefines, NextRefines, DurableInvariance, PTL
     DEF Spec, ImplementsRightsLedger, Rights!RSpec
=============================================================================
