---------------------------- MODULE ClusterProofs ----------------------------
(***************************************************************************)
(* The message-passing cluster, for every finite set of replicas, every    *)
(* set of transfers, charge ids and amounts, and every allocation of the   *)
(* cap.                                                                    *)
(*                                                                         *)
(* What a replica keeps about itself agrees whatever ids and flags are     *)
(* used.  That budget is never created takes unique ids and a receiver     *)
(* that remembers its credits; that it is never lost either takes senders  *)
(* that remember their debits.  Neither is inductive alone: a credit moves *)
(* an amount that is in transit only if the amount in the message is the   *)
(* nominal one of its id (NominalIsAmount) and no other replica credited   *)
(* the id (CreditedAtDst); a debit opens a transfer only if an id that the *)
(* sender does not know is known to nobody (KnownAtSrc).                   *)
(*                                                                         *)
(* The last parts are about the damaged replicas of the mutation suite:    *)
(* what its verdict can be for each class on any sequence of calls, again  *)
(* with ids that collide, and what it is on the trace of the class.        *)
(***************************************************************************)
EXTENDS ReplicaMutants, SumsProofs

\* The dictionaries are finite.
DictsFinite ==
  /\ IsFiniteSet(DOMAIN tidAmount)
  /\ \A r \in Replicas : IsFiniteSet(DOMAIN applied[r])

\* Messages were debited by their sender, and debited ids have a nominal amount.
MessagesIssued ==
  /\ \A m \in Transfers : net[m] > 0 => m.tid \in issued[m.src]
  /\ \A r \in Replicas : issued[r] \subseteq DOMAIN tidAmount

\* A charge id was debited once if it is in the replica's applied, else never.
CountsApplied ==
  \A r \in Replicas, o \in Opids :
    chargeCount[r][o] = IF o \in DOMAIN applied[r] THEN 1 ELSE 0

\* Inductive for every configuration.
TypeInv ==
  /\ TypeOK
  /\ DictsFinite
  /\ MessagesIssued
  /\ CountsApplied
  /\ SpentIsAuthorised
  /\ ReceiptsAgree

\* The nominal amount of an id is the amount of the one transfer it names.
NominalIsAmount ==
  \A m \in Transfers : m.tid \in DOMAIN tidAmount => tidAmount[m.tid] = m.amount

\* A transfer is credited at its receiver only.
CreditedAtDst ==
  \A m \in Transfers, r \in Replicas : m.tid \in recvd[r] => r = m.dst

\* An id in use was debited by the sender of its transfer.
KnownAtSrc ==
  \A m \in Transfers : m.tid \in DOMAIN tidAmount => m.tid \in issued[m.src]

\* Inductive with unique ids, whatever the flags.
IdsInv == TypeInv /\ NominalIsAmount /\ CreditedAtDst /\ KnownAtSrc

-----------------------------------------------------------------------------
(* What holds for every configuration.                                     *)

\* A transfer call, taken apart.
LEMMA TransferType ==
  ASSUME NEW m \in Transfers
  PROVE  /\ m.src \in Replicas /\ m.dst \in Replicas
         /\ m.amount \in Nat /\ m.tid \in Tids
  BY ConstantsOK DEF Tids

\* The initial state is empty.
LEMMA InitTypeInv == Init => TypeInv
<1> SUFFICES ASSUME Init PROVE TypeInv
  OBVIOUS
<1> USE ConstantsOK
<1>1. DOMAIN EmptyDict = {} /\ IsFiniteSet(DOMAIN EmptyDict)
      /\ EmptyDict \in [DOMAIN EmptyDict -> Nat]
  BY EmptyDictType
<1>2. TypeOK
  BY <1>1 DEF Init, TypeOK
<1>3. DictsFinite /\ MessagesIssued /\ CountsApplied /\ ReceiptsAgree
  BY <1>1 DEF Init, DictsFinite, MessagesIssued, CountsApplied, ReceiptsAgree
<1>4. SpentIsAuthorised
  BY <1>1, SumEmpty DEF Init, SpentIsAuthorised
<1> QED
  BY <1>2, <1>3, <1>4 DEF TypeInv

\* A charge id enters the dictionary of the replica that debits it, with the
\* amount that it debits.
LEMMA ChargeTypeInv ==
  ASSUME TypeInv, NEW r \in Replicas, NEW amount \in Amounts,
         NEW opid \in Presented[r], Charge(r, amount, opid)
  PROVE  TypeInv'
<1> DEFINE book == Put(applied[r], opid, amount)
<1>1. /\ amount \in Nat /\ opid \in Opids /\ opid \notin DOMAIN applied[r]
      /\ amount <= escrow[r] /\ escrow[r] \in Nat /\ spent[r] \in Nat
  BY ConstantsOK DEF Charge, NotApplied, Affordable, TypeInv, TypeOK
<1>2. /\ escrow' = [escrow EXCEPT ![r] = escrow[r] - amount]
      /\ spent' = [spent EXCEPT ![r] = spent[r] + amount]
      /\ applied' = [applied EXCEPT ![r] = book]
      /\ chargeCount' = [chargeCount EXCEPT ![r][opid] = chargeCount[r][opid] + 1]
      /\ UNCHANGED <<issued, recvd, net, tidAmount, receivedTids>>
  BY DEF Charge, Debit
<1>3. /\ DOMAIN applied = Replicas
      /\ applied[r] \in [DOMAIN applied[r] -> Nat] /\ DOMAIN applied[r] \subseteq Opids
      /\ IsFiniteSet(DOMAIN applied[r])
  BY DEF TypeInv, TypeOK, DictsFinite
<1>4. DOMAIN book = DOMAIN applied[r] \cup {opid} /\ IsFiniteSet(DOMAIN book)
  BY <1>3, PutEntry
<1>5. book \in [DOMAIN book -> Nat]
  BY <1>1, <1>3 DEF Put
<1>6. /\ DOMAIN applied' = Replicas /\ applied'[r] = book
      /\ \A s \in Replicas \ {r} : applied'[s] = applied[s]
  BY <1>2, <1>3
<1> HIDE DEF book
<1>7. TypeOK'
  <2>1. escrow' \in [Replicas -> Nat] /\ spent' \in [Replicas -> Nat]
    BY <1>1, <1>2 DEF TypeInv, TypeOK
  <2>2. chargeCount' \in [Replicas -> [Opids -> Nat]]
    BY <1>1, <1>2 DEF TypeInv, TypeOK
  <2>3. \A s \in Replicas : /\ DOMAIN applied'[s] \subseteq Opids
                            /\ applied'[s] \in [DOMAIN applied'[s] -> Nat]
    BY <1>1, <1>3, <1>4, <1>5, <1>6 DEF TypeInv, TypeOK
  <2> QED
    BY <1>2, <1>6, <2>1, <2>2, <2>3 DEF TypeInv, TypeOK
<1>8. DictsFinite' /\ MessagesIssued' /\ ReceiptsAgree'
  BY <1>2, <1>4, <1>6 DEF TypeInv, DictsFinite, MessagesIssued, ReceiptsAgree
<1>9. CountsApplied'
  <2> SUFFICES ASSUME NEW s \in Replicas, NEW o \in Opids
               PROVE  chargeCount'[s][o] = IF o \in DOMAIN applied'[s] THEN 1 ELSE 0
    BY DEF CountsApplied
  <2>1. chargeCount[s][o] = IF o \in DOMAIN applied[s] THEN 1 ELSE 0
    BY DEF TypeInv, CountsApplied
  <2>2. chargeCount \in [Replicas -> [Opids -> Nat]]
    BY DEF TypeInv, TypeOK
  <2>3. CASE s = r /\ o = opid
    BY <1>1, <1>2, <1>4, <1>6, <2>1, <2>2, <2>3
  <2>4. CASE ~(s = r /\ o = opid)
    <3>1. chargeCount'[s][o] = chargeCount[s][o]
      BY <1>1, <1>2, <2>2, <2>4
    <3>2. o \in DOMAIN applied'[s] <=> o \in DOMAIN applied[s]
      BY <1>4, <1>6, <2>4
    <3> QED
      BY <2>1, <3>1, <3>2
  <2> QED
    BY <2>3, <2>4
<1>10. SpentIsAuthorised'
  <2>1. SumOver(book, DOMAIN applied[r] \cup {opid})
          = SumOver(applied[r], DOMAIN applied[r]) + amount
    BY <1>1, <1>3, SumPut DEF book
  <2>2. spent[r] = SumOver(applied[r], DOMAIN applied[r])
    BY DEF TypeInv, SpentIsAuthorised
  <2>3. /\ spent'[r] = spent[r] + amount
        /\ \A s \in Replicas \ {r} : spent'[s] = spent[s]
    BY <1>2 DEF TypeInv, TypeOK
  <2>4. spent'[r] = SumOver(applied'[r], DOMAIN applied'[r])
    BY <1>4, <1>6, <2>1, <2>2, <2>3
  <2>5. \A s \in Replicas \ {r} : spent'[s] = SumOver(applied'[s], DOMAIN applied'[s])
    BY <1>6, <2>3 DEF TypeInv, SpentIsAuthorised
  <2> QED
    BY <2>4, <2>5 DEF SpentIsAuthorised
<1> QED
  BY <1>7, <1>8, <1>9, <1>10 DEF TypeInv

\* The nominal amounts after an issue: the first one of an id stays.
LEMMA NominalAmountType ==
  ASSUME TypeInv, NEW m \in Transfers
  PROVE  /\ DOMAIN NominalAmount(m) = DOMAIN tidAmount \cup {m.tid}
         /\ IsFiniteSet(DOMAIN NominalAmount(m))
         /\ NominalAmount(m) \in [DOMAIN NominalAmount(m) -> Nat]
         /\ \A t \in DOMAIN tidAmount : NominalAmount(m)[t] = tidAmount[t]
         /\ m.tid \notin DOMAIN tidAmount =>
              /\ NominalAmount(m) = Put(tidAmount, m.tid, m.amount)
              /\ NominalAmount(m)[m.tid] = m.amount
<1>1. tidAmount \in [DOMAIN tidAmount -> Nat] /\ IsFiniteSet(DOMAIN tidAmount)
      /\ m.amount \in Nat
  BY TransferType DEF TypeInv, TypeOK, DictsFinite
<1>2. CASE m.tid \in DOMAIN tidAmount
  <2>1. NominalAmount(m) = tidAmount
    BY <1>2 DEF NominalAmount, SetDefault
  <2> QED
    BY <1>1, <1>2, <2>1
<1>3. CASE m.tid \notin DOMAIN tidAmount
  <2>1. NominalAmount(m) = Put(tidAmount, m.tid, m.amount)
    BY <1>3 DEF NominalAmount, SetDefault
  <2> DEFINE book == Put(tidAmount, m.tid, m.amount)
  <2>2. /\ DOMAIN book = DOMAIN tidAmount \cup {m.tid}
        /\ book[m.tid] = m.amount
        /\ \A t \in DOMAIN tidAmount \ {m.tid} : book[t] = tidAmount[t]
    BY DEF Put
  <2>4. IsFiniteSet(DOMAIN book)
    BY <1>1, <2>2, FS_AddElement
  <2>3. book \in [DOMAIN book -> Nat]
    BY <1>1 DEF Put
  <2> HIDE DEF book
  <2> QED
    BY <1>3, <2>1, <2>2, <2>3, <2>4 DEF book
<1> QED
  BY <1>2, <1>3

\* A debited id enters the sender's issued and has a nominal amount.
LEMMA IssueTypeInv ==
  ASSUME TypeInv, NEW m \in Transfers, Issue(m)
  PROVE  TypeInv'
<1>1. /\ m.src \in Replicas /\ m.amount \in Nat /\ m.tid \in Tids
      /\ m.amount <= escrow[m.src] /\ net[m] < MaxCopies
  BY TransferType DEF Issue, Affordable
<1>2. /\ escrow' = [escrow EXCEPT ![m.src] = escrow[m.src] - m.amount]
      /\ issued' = [issued EXCEPT ![m.src] = issued[m.src] \cup {m.tid}]
      /\ tidAmount' = NominalAmount(m)
      /\ net' = [net EXCEPT ![m] = net[m] + 1]
      /\ UNCHANGED <<spent, applied, chargeCount, recvd, receivedTids>>
  BY DEF Issue, charges
<1>3. /\ DOMAIN tidAmount' = DOMAIN tidAmount \cup {m.tid}
      /\ IsFiniteSet(DOMAIN tidAmount')
      /\ tidAmount' \in [DOMAIN tidAmount' -> Nat]
  BY <1>2, NominalAmountType
<1>4. TypeOK'
  <2>1. escrow' \in [Replicas -> Nat] /\ issued' \in [Replicas -> SUBSET Tids]
    BY <1>1, <1>2 DEF TypeInv, TypeOK
  <2>2. net' \in [Transfers -> 0 .. MaxCopies]
    BY <1>1, <1>2, ConstantsOK DEF TypeInv, TypeOK
  <2> QED
    BY <1>1, <1>2, <1>3, <2>1, <2>2 DEF TypeInv, TypeOK
<1>5. DictsFinite'
  BY <1>2, <1>3 DEF TypeInv, DictsFinite
<1>6. MessagesIssued'
  <2>1. issued \in [Replicas -> SUBSET Tids] /\ net \in [Transfers -> 0 .. MaxCopies]
    BY DEF TypeInv, TypeOK
  <2>2. \A r \in Replicas : issued[r] \subseteq issued'[r]
    BY <1>2, <2>1
  <2>3. \A r \in Replicas : issued'[r] \subseteq issued[r] \cup {m.tid}
    BY <1>2, <2>1
  <2>4. m.tid \in issued'[m.src]
    BY <1>1, <1>2, <2>1
  <2>5. \A n \in Transfers : n # m => net'[n] = net[n]
    BY <1>2, <2>1
  <2>6. \A n \in Transfers : net'[n] > 0 => n.tid \in issued'[n.src]
    BY <2>2, <2>4, <2>5, TransferType DEF TypeInv, MessagesIssued
  <2>7. \A r \in Replicas : issued'[r] \subseteq DOMAIN tidAmount'
    BY <1>3, <2>3 DEF TypeInv, MessagesIssued
  <2> QED
    BY <2>6, <2>7 DEF MessagesIssued
<1>7. CountsApplied' /\ SpentIsAuthorised' /\ ReceiptsAgree'
  BY <1>2, <1>3 DEF TypeInv, CountsApplied, SpentIsAuthorised, ReceiptsAgree
<1> QED
  BY <1>4, <1>5, <1>6, <1>7 DEF TypeInv

\* A credit is recorded at the receiver and in received_tids.
LEMMA DeliverTypeInv ==
  ASSUME TypeInv, NEW m \in Transfers, Deliver(m)
  PROVE  TypeInv'
<1>1. /\ m.dst \in Replicas /\ m.src \in Replicas /\ m.amount \in Nat
      /\ m.tid \in Tids /\ net[m] > 0
  BY TransferType DEF Deliver
<1>2. /\ escrow' = [escrow EXCEPT ![m.dst] = escrow[m.dst] + m.amount]
      /\ recvd' = [recvd EXCEPT ![m.dst] = recvd[m.dst] \cup {m.tid}]
      /\ receivedTids' = receivedTids \cup {m.tid}
      /\ UNCHANGED <<spent, applied, chargeCount, issued, net, tidAmount>>
  BY DEF Deliver, CreditAmount, RecordReceipt, charges
<1>3. TypeOK'
  BY <1>1, <1>2 DEF TypeInv, TypeOK
<1>4. DictsFinite' /\ MessagesIssued' /\ CountsApplied' /\ SpentIsAuthorised'
  BY <1>2 DEF TypeInv, DictsFinite, MessagesIssued, CountsApplied, SpentIsAuthorised
<1>5. ReceiptsAgree'
  <2>1. recvd \in [Replicas -> SUBSET Tids]
    BY DEF TypeInv, TypeOK
  <2>2. /\ recvd'[m.dst] = recvd[m.dst] \cup {m.tid}
        /\ \A r \in Replicas \ {m.dst} : recvd'[r] = recvd[r]
    BY <1>1, <1>2, <2>1
  <2>3. \A t : t \in UNION {recvd'[r] : r \in Replicas}
               <=> t \in UNION {recvd[r] : r \in Replicas} \/ t = m.tid
    BY <1>1, <2>2
  <2>4. m.tid \in DOMAIN tidAmount
    BY <1>1 DEF TypeInv, MessagesIssued
  <2>5. receivedTids' = UNION {recvd'[r] : r \in Replicas}
    <3>1. receivedTids = UNION {recvd[r] : r \in Replicas}
      BY DEF TypeInv, ReceiptsAgree
    <3> QED
      BY <1>2, <2>3, <3>1
  <2>6. receivedTids' \subseteq (DOMAIN tidAmount)'
    BY <1>2, <2>4 DEF TypeInv, ReceiptsAgree
  <2> QED
    BY <2>5, <2>6 DEF ReceiptsAgree
<1> QED
  BY <1>3, <1>4, <1>5 DEF TypeInv

\* Every step keeps the records in agreement.
LEMMA NextTypeInv == TypeInv /\ [Next]_vars => TypeInv'
<1> SUFFICES ASSUME TypeInv, [Next]_vars PROVE TypeInv'
  OBVIOUS
<1>1. ASSUME NEW m \in Transfers, Drop(m)
      PROVE  TypeInv'
  <2>1. /\ net' = [net EXCEPT ![m] = net[m] - 1] /\ net[m] > 0
        /\ UNCHANGED <<escrow, spent, applied, chargeCount, issued, recvd,
                       tidAmount, receivedTids>>
    BY <1>1 DEF Drop, balances, charges
  <2>2. net' \in [Transfers -> 0 .. MaxCopies]
        /\ \A n \in Transfers : net'[n] > 0 => net[n] > 0
    BY <2>1, ConstantsOK DEF TypeInv, TypeOK
  <2> QED
    BY <2>1, <2>2 DEF TypeInv, TypeOK, DictsFinite, MessagesIssued, CountsApplied,
                      SpentIsAuthorised, ReceiptsAgree
<1>2. CASE UNCHANGED vars
  BY <1>2 DEF vars, TypeInv, TypeOK, DictsFinite, MessagesIssued, CountsApplied,
              SpentIsAuthorised, ReceiptsAgree
<1> QED
  BY <1>1, <1>2, ChargeTypeInv, IssueTypeInv, DeliverTypeInv DEF Next

\* Type correctness, negative balances excluded, in every configuration: an
\* id collision or a missing dedup overdraws nobody.
THEOREM TypeCorrect == Spec => []TypeOK
<1>1. TypeInv => TypeOK
  BY DEF TypeInv
<1> QED
  BY <1>1, InitTypeInv, NextTypeInv, PTL DEF Spec

\* charge(): in every configuration a replica has spent exactly what it
\* authorised, each of its charge ids counted once.
THEOREM SpendIsAuthorised == Spec => []SpentIsAuthorised
<1>1. TypeInv => SpentIsAuthorised
  BY DEF TypeInv
<1> QED
  BY <1>1, InitTypeInv, NextTypeInv, PTL DEF Spec

\* per_request_ok(): in every configuration no replica debits an id twice.
THEOREM NoDoubleCharge == Spec => []PerRequestOk
<1>1. TypeInv => PerRequestOk
  BY DEF TypeInv, CountsApplied, PerRequestOk
<1> QED
  BY <1>1, InitTypeInv, NextTypeInv, PTL DEF Spec

\* inflight() reads received_tids: in every configuration it is what the
\* replicas credited, and only issued ids are in it.
THEOREM ReceiptsAreCredits == Spec => []ReceiptsAgree
<1>1. TypeInv => ReceiptsAgree
  BY DEF TypeInv
<1> QED
  BY <1>1, InitTypeInv, NextTypeInv, PTL DEF Spec

-----------------------------------------------------------------------------
(* Unique ids.                                                             *)

\* With unique ids, every step keeps what an id stands for.
LEMMA NextIdsInv ==
  ASSUME UniqueTids
  PROVE  IdsInv /\ [Next]_vars => IdsInv'
<1> SUFFICES ASSUME IdsInv, [Next]_vars PROVE IdsInv'
  OBVIOUS
<1> USE DEF NominalIsAmount, CreditedAtDst, KnownAtSrc
<1>0. TypeInv /\ TypeInv'
  BY NextTypeInv DEF IdsInv
<1>1. ASSUME NEW r \in Replicas, NEW amount \in Amounts, NEW opid \in Presented[r],
             Charge(r, amount, opid)
      PROVE  IdsInv'
  BY <1>0, <1>1 DEF Charge, Debit, IdsInv
<1>2. ASSUME NEW m \in Transfers, Issue(m)
      PROVE  IdsInv'
  <2>1. /\ issued' = [issued EXCEPT ![m.src] = issued[m.src] \cup {m.tid}]
        /\ tidAmount' = NominalAmount(m) /\ recvd' = recvd
    BY <1>2 DEF Issue
  <2>2. issued \in [Replicas -> SUBSET Tids] /\ m.src \in Replicas
    BY <1>0, TransferType DEF TypeInv, TypeOK
  <2>3. /\ DOMAIN tidAmount' = DOMAIN tidAmount \cup {m.tid}
        /\ \A t \in DOMAIN tidAmount : tidAmount'[t] = tidAmount[t]
        /\ m.tid \notin DOMAIN tidAmount => tidAmount'[m.tid] = m.amount
    BY <1>0, <2>1, NominalAmountType
  <2>4. \A n \in Transfers : n.tid \in DOMAIN tidAmount \/ n.tid # m.tid \/ n = m
    BY DEF UniqueTids
  <2>5. NominalIsAmount'
    BY <2>3, <2>4 DEF IdsInv
  <2>6. CreditedAtDst'
    BY <2>1 DEF IdsInv
  <2>7. KnownAtSrc'
    <3>1. \A r \in Replicas : issued[r] \subseteq issued'[r]
      BY <2>1, <2>2
    <3>2. m.tid \in issued'[m.src]
      BY <2>1, <2>2
    <3> QED
      BY <2>3, <2>4, <3>1, <3>2, TransferType DEF IdsInv
  <2> QED
    BY <1>0, <2>5, <2>6, <2>7 DEF IdsInv
<1>3. ASSUME NEW m \in Transfers, Deliver(m)
      PROVE  IdsInv'
  <2>1. /\ recvd' = [recvd EXCEPT ![m.dst] = recvd[m.dst] \cup {m.tid}]
        /\ tidAmount' = tidAmount /\ issued' = issued
    BY <1>3 DEF Deliver
  <2>2. recvd \in [Replicas -> SUBSET Tids] /\ m.dst \in Replicas
    BY <1>0, TransferType DEF TypeInv, TypeOK
  <2>3. /\ recvd'[m.dst] = recvd[m.dst] \cup {m.tid}
        /\ \A r \in Replicas \ {m.dst} : recvd'[r] = recvd[r]
    BY <2>1, <2>2
  <2>4. \A n \in Transfers : n.tid = m.tid => n = m
    BY DEF UniqueTids
  <2>5. CreditedAtDst'
    BY <2>2, <2>3, <2>4 DEF IdsInv
  <2> QED
    BY <1>0, <2>1, <2>5 DEF IdsInv
<1>4. ASSUME NEW m \in Transfers, Drop(m)
      PROVE  IdsInv'
  BY <1>0, <1>4 DEF Drop, IdsInv
<1>5. CASE UNCHANGED vars
  BY <1>0, <1>5 DEF vars, IdsInv
<1> QED
  BY <1>1, <1>2, <1>3, <1>4, <1>5 DEF Next

\* No id is known initially.
LEMMA InitIdsInv == Init => IdsInv
<1> SUFFICES ASSUME Init PROVE IdsInv
  OBVIOUS
<1>1. DOMAIN tidAmount = {} /\ \A r \in Replicas : recvd[r] = {}
  BY EmptyDictType DEF Init
<1> QED
  BY <1>1, InitTypeInv DEF IdsInv, NominalIsAmount, CreditedAtDst, KnownAtSrc

LEMMA IdsInvariance == ASSUME UniqueTids PROVE Spec => []IdsInv
  BY InitIdsInv, NextIdsInv, PTL DEF Spec

\* The three totals are totals of natural numbers over finite sets.
LEMMA TotalsType ==
  ASSUME TypeInv
  PROVE  /\ IsFiniteSet(InTransit) /\ NatOn(tidAmount, InTransit)
         /\ InTransit \in SUBSET DOMAIN tidAmount
         /\ TotalEscrow \in Nat /\ TotalSpent \in Nat /\ InFlight \in Nat
<1>1. InTransit \in SUBSET DOMAIN tidAmount
  BY DEF InTransit
<1>2. IsFiniteSet(InTransit) /\ NatOn(tidAmount, InTransit)
  BY <1>1, FS_Subset DEF TypeInv, TypeOK, DictsFinite, NatOn
<1>3. NatOn(escrow, Replicas) /\ NatOn(spent, Replicas)
  BY DEF TypeInv, TypeOK, NatOn
<1> QED
  BY <1>1, <1>2, <1>3, SumType, ConstantsOK DEF TotalEscrow, TotalSpent, InFlight

\* They still are after a step.
LEMMA TotalsTypeAfter ==
  ASSUME TypeInv'
  PROVE  TotalEscrow' \in Nat /\ TotalSpent' \in Nat /\ InFlight' \in Nat
<1>1. InTransit' \in SUBSET (DOMAIN tidAmount)'
  BY DEF InTransit
<1>2. IsFiniteSet(InTransit') /\ NatOn(tidAmount', InTransit')
  BY <1>1, FS_Subset DEF TypeInv, TypeOK, DictsFinite, NatOn
<1>3. NatOn(escrow', Replicas) /\ NatOn(spent', Replicas)
  BY DEF TypeInv, TypeOK, NatOn
<1> QED
  BY <1>2, <1>3, ConstantsOK, SumType DEF TotalEscrow, TotalSpent, InFlight

\* A step that changes the escrow, or the spent, of one replica changes the
\* total by that difference.
LEMMA UpdateTotals ==
  ASSUME TypeInv, TypeInv', NEW r \in Replicas
  PROVE  /\ (\A s \in Replicas \ {r} : escrow'[s] = escrow[s]) =>
              TotalEscrow' = TotalEscrow - escrow[r] + escrow'[r]
         /\ (\A s \in Replicas \ {r} : spent'[s] = spent[s]) =>
              TotalSpent' = TotalSpent - spent[r] + spent'[r]
<1>1. IsFiniteSet(Replicas)
  BY ConstantsOK
<1>2. /\ NatOn(escrow, Replicas) /\ NatOn(escrow', Replicas)
      /\ NatOn(spent, Replicas) /\ NatOn(spent', Replicas)
  BY DEF TypeInv, TypeOK, NatOn
<1>3. ASSUME \A s \in Replicas \ {r} : escrow'[s] = escrow[s]
      PROVE  TotalEscrow' = TotalEscrow - escrow[r] + escrow'[r]
  BY <1>1, <1>2, <1>3, SumUpdate DEF TotalEscrow
<1>4. ASSUME \A s \in Replicas \ {r} : spent'[s] = spent[s]
      PROVE  TotalSpent' = TotalSpent - spent[r] + spent'[r]
  BY <1>1, <1>2, <1>4, SumUpdate DEF TotalSpent
<1> QED
  BY <1>3, <1>4

\* The first issue of an id puts it in transit; a repeated one, of a sender
\* that is not idempotent, changes nothing on the way.
LEMMA IssueInTransit ==
  ASSUME TypeInv, NEW m \in Transfers, Issue(m)
  PROVE  IF m.tid \in DOMAIN tidAmount
           THEN tidAmount' = tidAmount /\ InTransit' = InTransit
           ELSE /\ tidAmount' = Put(tidAmount, m.tid, m.amount)
                /\ m.tid \notin InTransit
                /\ InTransit' = InTransit \cup {m.tid}
<1>1. receivedTids' = receivedTids /\ tidAmount' = NominalAmount(m)
  BY DEF Issue
<1>2. receivedTids \subseteq DOMAIN tidAmount
  BY DEF TypeInv, ReceiptsAgree
<1>3. CASE m.tid \in DOMAIN tidAmount
  BY <1>1, <1>3 DEF NominalAmount, SetDefault, InTransit
<1>4. CASE m.tid \notin DOMAIN tidAmount
  <2>1. tidAmount' = Put(tidAmount, m.tid, m.amount)
    BY <1>1, <1>4 DEF NominalAmount, SetDefault
  <2>2. DOMAIN tidAmount' = DOMAIN tidAmount \cup {m.tid}
    BY <2>1 DEF Put
  <2> QED
    BY <1>1, <1>2, <1>4, <2>1, <2>2 DEF InTransit
<1> QED
  BY <1>3, <1>4

\* What an idempotent receiver credits was in transit and no longer is.
LEMMA DeliverInTransit ==
  ASSUME ReceiverIdempotent, IdsInv, NEW m \in Transfers, Deliver(m)
  PROVE  /\ m.tid \in InTransit /\ InTransit' = InTransit \ {m.tid}
         /\ tidAmount' = tidAmount /\ tidAmount[m.tid] = m.amount
<1>1. m.tid \in DOMAIN tidAmount
  BY TransferType DEF Deliver, IdsInv, TypeInv, MessagesIssued
<1>2. m.tid \notin receivedTids
  BY DEF Deliver, MayCredit, IdsInv, CreditedAtDst, TypeInv, ReceiptsAgree
<1>3. tidAmount' = tidAmount /\ receivedTids' = receivedTids \cup {m.tid}
  BY DEF Deliver, RecordReceipt
<1> QED
  BY <1>1, <1>2, <1>3 DEF InTransit, IdsInv, NominalIsAmount

-----------------------------------------------------------------------------
(* The conserved quantity.                                                 *)

\* charge moves budget from escrow to spent.
LEMMA ChargeQuantity ==
  ASSUME TypeInv, TypeInv', NEW r \in Replicas, NEW amount \in Amounts,
         NEW opid \in Presented[r], Charge(r, amount, opid)
  PROVE  Quantity' = Quantity
<1>1. /\ amount \in Nat /\ escrow[r] \in Nat /\ spent[r] \in Nat
      /\ escrow'[r] = escrow[r] - amount /\ spent'[r] = spent[r] + amount
      /\ \A s \in Replicas \ {r} : escrow'[s] = escrow[s] /\ spent'[s] = spent[s]
  BY ConstantsOK DEF Charge, Debit, TypeInv, TypeOK
<1>2. TotalEscrow' = TotalEscrow - escrow[r] + (escrow[r] - amount)
  BY <1>1, UpdateTotals
<1>3. TotalSpent' = TotalSpent - spent[r] + (spent[r] + amount)
  BY <1>1, UpdateTotals
<1>4. InFlight' = InFlight
  BY DEF Charge, Debit, InFlight, InTransit
<1> QED
  BY <1>1, <1>2, <1>3, <1>4, TotalsType DEF Quantity

\* The first issue of an id moves budget from escrow to the network; a
\* repeated one destroys it.
LEMMA IssueQuantity ==
  ASSUME TypeInv, TypeInv', NEW m \in Transfers, Issue(m)
  PROVE  Quantity' = IF m.tid \in DOMAIN tidAmount THEN Quantity - m.amount ELSE Quantity
<1>1. /\ m.src \in Replicas /\ m.amount \in Nat /\ escrow[m.src] \in Nat
      /\ escrow'[m.src] = escrow[m.src] - m.amount
      /\ \A s \in Replicas \ {m.src} : escrow'[s] = escrow[s]
  BY TransferType DEF Issue, TypeInv, TypeOK
<1>2. TotalEscrow' = TotalEscrow - escrow[m.src] + (escrow[m.src] - m.amount)
  BY <1>1, UpdateTotals
<1>3. TotalSpent' = TotalSpent
  BY DEF Issue, TotalSpent
<1>4. CASE m.tid \in DOMAIN tidAmount
  <2>1. InFlight' = InFlight
    BY <1>4, IssueInTransit DEF InFlight
  <2> QED
    BY <1>1, <1>2, <1>3, <1>4, <2>1, TotalsType DEF Quantity
<1>5. CASE m.tid \notin DOMAIN tidAmount
  <2>1. tidAmount \in [DOMAIN tidAmount -> Nat]
    BY DEF TypeInv, TypeOK
  <2>2. SumOver(Put(tidAmount, m.tid, m.amount), InTransit \cup {m.tid})
          = SumOver(tidAmount, InTransit) + m.amount
    BY <1>1, <1>5, <2>1, SumPut, TotalsType
  <2>3. InFlight' = InFlight + m.amount
    BY <1>5, <2>2, IssueInTransit DEF InFlight
  <2> QED
    BY <1>1, <1>2, <1>3, <1>5, <2>3, TotalsType DEF Quantity
<1> QED
  BY <1>4, <1>5

\* A credit moves the nominal amount of its id from the network to escrow.
LEMMA DeliverQuantity ==
  ASSUME ReceiverIdempotent, IdsInv, TypeInv', NEW m \in Transfers, Deliver(m)
  PROVE  Quantity' = Quantity
<1>0. TypeInv
  BY DEF IdsInv
<1>1. /\ m.dst \in Replicas /\ m.amount \in Nat /\ escrow[m.dst] \in Nat
      /\ escrow'[m.dst] = escrow[m.dst] + m.amount
      /\ \A s \in Replicas \ {m.dst} : escrow'[s] = escrow[s]
  BY <1>0, TransferType DEF Deliver, CreditAmount, TypeInv, TypeOK
<1>2. TotalEscrow' = TotalEscrow - escrow[m.dst] + (escrow[m.dst] + m.amount)
  BY <1>0, <1>1, UpdateTotals
<1>3. /\ m.tid \in InTransit /\ InTransit' = InTransit \ {m.tid}
      /\ tidAmount' = tidAmount /\ tidAmount[m.tid] = m.amount
  BY DeliverInTransit
<1>4. InFlight = SumOver(tidAmount, InTransit \ {m.tid}) + m.amount
  BY <1>0, <1>3, SumRemove, TotalsType DEF InFlight
<1>5. InFlight' = SumOver(tidAmount, InTransit \ {m.tid})
  BY <1>3 DEF InFlight
<1>6. IsFiniteSet(InTransit \ {m.tid}) /\ NatOn(tidAmount, InTransit \ {m.tid})
  BY <1>0, FS_RemoveElement, TotalsType DEF NatOn
<1>7. InFlight' \in Nat
  BY <1>5, <1>6, SumType
<1>8. TotalSpent' = TotalSpent
  BY DEF Deliver, TotalSpent
<1> QED
  BY <1>0, <1>1, <1>2, <1>4, <1>5, <1>7, <1>8, TotalsType DEF Quantity

\* No step creates budget, and with idempotent senders none destroys it: a
\* dropped message's right stays in flight.
LEMMA QuantityStep ==
  ASSUME UniqueTids, ReceiverIdempotent, IdsInv, [Next]_vars
  PROVE  /\ Quantity' <= Quantity
         /\ SenderIdempotent => Quantity' = Quantity
<1>0. TypeInv /\ TypeInv' /\ Quantity \in Nat
  BY NextTypeInv, TotalsType DEF IdsInv, Quantity
<1>1. ASSUME NEW r \in Replicas, NEW amount \in Amounts, NEW opid \in Presented[r],
             Charge(r, amount, opid)
      PROVE  Quantity' = Quantity
  BY <1>0, <1>1, ChargeQuantity
<1>2. ASSUME NEW m \in Transfers, Issue(m)
      PROVE  Quantity' <= Quantity /\ (SenderIdempotent => Quantity' = Quantity)
  <2>1. SenderIdempotent => m.tid \notin DOMAIN tidAmount
    BY <1>2 DEF Issue, MayIssue, IdsInv, KnownAtSrc
  <2>2. m.amount \in Nat
    BY TransferType
  <2> QED
    BY <1>0, <1>2, <2>1, <2>2, IssueQuantity
<1>3. ASSUME NEW m \in Transfers, Deliver(m)
      PROVE  Quantity' = Quantity
  BY <1>0, <1>3, DeliverQuantity
<1>4. ASSUME NEW m \in Transfers, Drop(m)
      PROVE  Quantity' = Quantity
  BY <1>4 DEF Drop, balances, Quantity, TotalEscrow, TotalSpent, InFlight, InTransit
<1>5. CASE UNCHANGED vars
  <2>1. Quantity' = Quantity
    BY <1>5 DEF vars, Quantity, TotalEscrow, TotalSpent, InFlight, InTransit
  <2> QED
    BY <1>0, <2>1
<1> QED
  BY <1>0, <1>1, <1>2, <1>3, <1>4, <1>5 DEF Next

\* Genesis is the cap.
LEMMA InitConserved == Init => Conserved
<1> SUFFICES ASSUME Init PROVE Conserved
  OBVIOUS
<1>1. \A r \in Replicas : spent[r] = 0
  BY DEF Init
<1>2. TotalSpent = 0
  BY <1>1, SumZero DEF TotalSpent
<1>3. InTransit = {}
  BY EmptyDictType DEF Init, InTransit
<1>4. InFlight = 0
  BY <1>3, SumEmpty DEF InFlight
<1>5. TotalEscrow = CAP
  BY GenesisIsCap DEF Init, TotalEscrow
<1> QED
  BY <1>2, <1>4, <1>5, ConstantsOK DEF Conserved, Quantity

\* conserved(): with unique ids and both idempotencies, whatever is lost,
\* duplicated and reordered, spent, held and in-flight budget is the cap.
THEOREM BudgetConserved ==
  ASSUME UniqueTids, SenderIdempotent, ReceiverIdempotent
  PROVE  Spec => []Conserved
<1>1. IdsInv /\ Conserved /\ [Next]_vars => Conserved'
  BY QuantityStep DEF Conserved
<1> QED
  BY <1>1, InitConserved, IdsInvariance, PTL DEF Spec

\* The budget in existence is within the cap.
SafetyLe == Quantity <= CAP

\* Unique ids and an idempotent receiver are enough for safety: a sender that
\* debits a retry again, and so destroys budget, never lets more than the cap
\* exist.
THEOREM BudgetWithinCap ==
  ASSUME UniqueTids, ReceiverIdempotent
  PROVE  Spec => []SafetyLe
<1>1. Init => SafetyLe
  BY InitConserved, ConstantsOK DEF Conserved, SafetyLe
<1>2. IdsInv /\ SafetyLe /\ [Next]_vars => SafetyLe'
  <2> SUFFICES ASSUME IdsInv, SafetyLe, [Next]_vars PROVE SafetyLe'
    OBVIOUS
  <2>1. Quantity' <= Quantity
    BY QuantityStep
  <2>2. Quantity \in Nat /\ CAP \in Nat
    BY TotalsType, ConstantsOK DEF IdsInv, Quantity
  <2>3. Quantity' \in Int
    <3>1. IdsInv'
      BY NextIdsInv
    <3> QED
      BY <3>1, TotalsTypeAfter DEF IdsInv, Quantity
  <2> QED
    BY <2>1, <2>2, <2>3 DEF SafetyLe
<1> QED
  BY <1>1, <1>2, IdsInvariance, PTL DEF Spec

\* The replicas' recorded spending is within the cap.
Safety == TotalSpent <= CAP

\* The cap theorem of the message-passing cluster, senders that debit a retry
\* again included.
THEOREM SpentWithinCap ==
  ASSUME UniqueTids, ReceiverIdempotent
  PROVE  Spec => []Safety
<1>1. IdsInv /\ SafetyLe => Safety
  BY TotalsType, ConstantsOK DEF IdsInv, SafetyLe, Quantity, Safety
<1> QED
  BY <1>1, BudgetWithinCap, IdsInvariance, PTL

-----------------------------------------------------------------------------
(* The ledger of rights.                                                   *)

\* The ledger's state, as the refinement mapping computes it.
Held    == [r \in Replicas |-> escrow[r] + spent[r]]
Transit == [t \in InTransit |-> tidAmount[t]]

\* The ledger's totals and dictionaries are those of the cluster.
LEMMA LedgerOperators ==
  ASSUME NEW f, NEW S, NEW k, NEW v
  PROVE  Rights!SumOver(f, S) = SumOver(f, S) /\ Rights!Put(f, k, v) = Put(f, k, v)
  BY DEF Rights!SumOver, Rights!Tokens, Rights!Pile, Rights!Cardinality, Rights!Put,
         SumOver, Tokens, Pile, Cardinality, Put

\* Genesis is a state the ledger may start in.
LEMMA InitRefinesLedger == Init => Rights!RInit
<1> SUFFICES ASSUME Init PROVE Rights!RInit
  OBVIOUS
<1>1. IsFiniteSet(Replicas) /\ InitEscrow \in [Replicas -> Nat] /\ CAP \in Nat
  BY ConstantsOK
<1>2. Held = InitEscrow
  BY <1>1 DEF Init, Held
<1>3. InTransit = {} /\ DOMAIN tidAmount = {}
  BY EmptyDictType DEF Init, InTransit
<1>4. Transit = [t \in {} |-> 0]
  BY <1>3 DEF Transit
<1>5. Held \in [Replicas -> Nat] /\ Rights!SumOver(Held, Replicas) <= CAP
  BY <1>1, <1>2, GenesisIsCap, LedgerOperators
<1>6. spent = [r \in Replicas |-> 0]
  BY DEF Init
<1> QED
  BY <1>3, <1>4, <1>5, <1>6 DEF Held, Transit, Rights!RInit

\* charge: the replica turns a held right into a used one.
LEMMA ChargeRefinesLedger ==
  ASSUME IdsInv, NEW r \in Replicas, NEW amount \in Amounts,
         NEW opid \in Presented[r], Charge(r, amount, opid)
  PROVE  Rights!Local(r)
<1>1. /\ amount \in Nat
      /\ escrow \in [Replicas -> Nat] /\ spent \in [Replicas -> Nat]
      /\ escrow' = [escrow EXCEPT ![r] = escrow[r] - amount]
      /\ spent'  = [spent EXCEPT ![r] = spent[r] + amount]
      /\ amount <= escrow[r]
  BY ConstantsOK DEF Charge, Debit, Affordable, IdsInv, TypeInv, TypeOK
<1>2. Held' = Held
  BY <1>1 DEF Held
<1>3. Held[r] = escrow[r] + spent[r] /\ spent'[r] = spent[r] + amount
  BY <1>1 DEF Held
<1>4. Held'[r] \in 0 .. Held[r] /\ spent'[r] \in 0 .. Held'[r]
  BY <1>1, <1>2, <1>3
<1>5. /\ Held' = [Held EXCEPT ![r] = Held'[r]]
      /\ spent' = [spent EXCEPT ![r] = spent'[r]]
  BY <1>1, <1>2 DEF Held
<1>6. Transit' = Transit /\ (DOMAIN tidAmount)' = DOMAIN tidAmount
  BY DEF Charge, Debit, Transit, InTransit
<1> QED
  BY <1>4, <1>5, <1>6 DEF Rights!Local, Held, Transit

\* issue: rights leave the sender into a transfer that is new, or, when a
\* sender debits an id again, are lost at the sender.
LEMMA IssueRefinesLedger ==
  ASSUME IdsInv, NEW m \in Transfers, Issue(m)
  PROVE  Rights!Open(m.src, m.tid) \/ Rights!Local(m.src)
<1>1. /\ m.amount \in Nat /\ m.amount <= escrow[m.src] /\ m.src \in Replicas
      /\ escrow \in [Replicas -> Nat] /\ spent \in [Replicas -> Nat]
      /\ escrow' = [escrow EXCEPT ![m.src] = escrow[m.src] - m.amount]
      /\ spent' = spent
  BY TransferType DEF Issue, Affordable, IdsInv, TypeInv, TypeOK
<1>2. Held' = [Held EXCEPT ![m.src] = Held[m.src] - m.amount]
  <2>1. \A r \in Replicas : Held[r] = escrow[r] + spent[r]
                          /\ Held'[r] = escrow'[r] + spent[r]
    BY <1>1 DEF Held
  <2>2. Held'[m.src] = Held[m.src] - m.amount
    BY <1>1, <2>1
  <2>3. \A r \in Replicas \ {m.src} : Held'[r] = Held[r]
    BY <1>1, <2>1
  <2> QED
    BY <2>2, <2>3 DEF Held
<1>3. Held[m.src] = escrow[m.src] + spent[m.src]
  BY <1>1 DEF Held
<1>4. CASE m.tid \notin DOMAIN tidAmount
  <2>1. m.amount \in 0 .. Held[m.src] - spent[m.src]
    BY <1>1, <1>3
  <2>2. tidAmount' = Put(tidAmount, m.tid, m.amount) /\ InTransit' = InTransit \cup {m.tid}
    BY <1>4, IssueInTransit DEF IdsInv
  <2>3. InTransit \subseteq DOMAIN tidAmount
    BY DEF InTransit
  <2>4. Transit' = Rights!Put(Transit, m.tid, m.amount)
    <3>1. Transit' = Put(Transit, m.tid, m.amount)
      BY <1>4, <2>2, <2>3 DEF Transit, Put
    <3> QED
      BY <3>1, LedgerOperators
  <2>5. (DOMAIN tidAmount)' = DOMAIN tidAmount \cup {m.tid}
    BY <2>2 DEF Put
  <2> QED
    BY <1>1, <1>2, <1>4, <2>1, <2>4, <2>5 DEF Rights!Open, Held, Transit
<1>5. CASE m.tid \in DOMAIN tidAmount
  <2>1. Held'[m.src] \in 0 .. Held[m.src] /\ spent'[m.src] \in 0 .. Held'[m.src]
    BY <1>1, <1>2, <1>3 DEF Held
  <2>2. /\ Held' = [Held EXCEPT ![m.src] = Held'[m.src]]
        /\ spent' = [spent EXCEPT ![m.src] = spent'[m.src]]
    BY <1>1, <1>2 DEF Held
  <2>3. Transit' = Transit /\ (DOMAIN tidAmount)' = DOMAIN tidAmount
    BY <1>5, IssueInTransit DEF Transit, IdsInv
  <2> QED
    BY <2>1, <2>2, <2>3 DEF Rights!Local, Held, Transit
<1> QED
  BY <1>4, <1>5

\* deliver: the whole transfer lands at the receiver.
LEMMA DeliverRefinesLedger ==
  ASSUME ReceiverIdempotent, IdsInv, NEW m \in Transfers, Deliver(m)
  PROVE  m.tid \in InTransit /\ Rights!Land(m.dst, m.tid)
<1>1. /\ m.dst \in Replicas /\ m.amount \in Nat
      /\ escrow \in [Replicas -> Nat] /\ spent \in [Replicas -> Nat]
      /\ escrow' = [escrow EXCEPT ![m.dst] = escrow[m.dst] + m.amount]
      /\ spent' = spent
  BY TransferType DEF Deliver, CreditAmount, IdsInv, TypeInv, TypeOK
<1>2. /\ m.tid \in InTransit /\ InTransit' = InTransit \ {m.tid}
      /\ tidAmount' = tidAmount /\ tidAmount[m.tid] = m.amount
  BY DeliverInTransit
<1>3. Held' = [Held EXCEPT ![m.dst] = Held[m.dst] + Transit[m.tid]]
  BY <1>1, <1>2 DEF Held, Transit
<1>4. Transit' = [u \in DOMAIN Transit \ {m.tid} |-> Transit[u]]
  BY <1>2 DEF Transit
<1> QED
  BY <1>1, <1>2, <1>3, <1>4 DEF Rights!Land, Held, Transit

\* Every step of the cluster is a step of the ledger or leaves it as it is;
\* a drop leaves it as it is.
LEMMA NextRefinesLedger ==
  ASSUME ReceiverIdempotent
  PROVE  IdsInv /\ [Next]_vars => [Rights!RNext]_(Rights!rvars)
<1> SUFFICES ASSUME IdsInv, [Next]_vars
             PROVE  Rights!RNext \/ UNCHANGED <<Held, spent, Transit, DOMAIN tidAmount>>
  BY DEF Rights!rvars, Held, Transit
<1>0. DOMAIN Transit = InTransit
  BY DEF Transit
<1>1. ASSUME NEW r \in Replicas, NEW amount \in Amounts, NEW opid \in Presented[r],
             Charge(r, amount, opid)
      PROVE  Rights!RNext
  BY <1>1, ChargeRefinesLedger DEF Rights!RNext
<1>2. ASSUME NEW m \in Transfers, Issue(m)
      PROVE  Rights!RNext
  BY <1>2, IssueRefinesLedger, TransferType DEF Rights!RNext
<1>3. ASSUME NEW m \in Transfers, Deliver(m)
      PROVE  Rights!RNext
  BY <1>0, <1>3, DeliverRefinesLedger, TransferType DEF Rights!RNext, Transit
<1>4. ASSUME NEW m \in Transfers, Drop(m)
      PROVE  UNCHANGED <<Held, spent, Transit, DOMAIN tidAmount>>
  BY <1>4 DEF Drop, balances, Held, Transit, InTransit
<1>5. CASE UNCHANGED vars
  BY <1>5 DEF vars, Held, Transit, InTransit
<1> QED
  BY <1>1, <1>2, <1>3, <1>4, <1>5 DEF Next

\* With unique ids and receivers that remember their credits,
\* impl/distributed.py implements the ledger of rights: loss, duplication and
\* reordering do nothing to the budget that a ledger which cannot create
\* rights could not do.
THEOREM ImplementsLedger ==
  ASSUME UniqueTids, ReceiverIdempotent
  PROVE  Spec => ImplementsRightsLedger
  BY InitRefinesLedger, NextRefinesLedger, IdsInvariance, PTL
     DEF Spec, ImplementsRightsLedger, Rights!RSpec

-----------------------------------------------------------------------------
(* The transitions that spec_model.py explores.                            *)

\* The explored state, as the refinement mapping computes it.
Sendings == {<<m.dst, m.tid>> : m \in {n \in Transfers : net[n] > 0}}
Used     == UNION {DOMAIN applied[r] : r \in Replicas}
Nominal  == [t \in Tids |-> IF t \in DOMAIN tidAmount THEN tidAmount[t] ELSE 0]

\* The callers present a charge id to one replica only.
OneReplicaPerCharge ==
  \A r, s \in Replicas : r # s => Presented[r] \cap Presented[s] = {}

\* The whole cap starts at one replica.
OneGenesis ==
  \E genesis \in Replicas :
    InitEscrow = [r \in Replicas |-> IF r = genesis THEN CAP ELSE 0]

\* A replica applied only what was presented to it.
AppliedPresented == \A r \in Replicas : DOMAIN applied[r] \subseteq Presented[r]

LEMMA AppliedInvariance == Spec => []AppliedPresented
<1>1. Init => AppliedPresented
  BY EmptyDictType DEF Init, AppliedPresented
<1>2. TypeInv /\ AppliedPresented /\ [Next]_vars => AppliedPresented'
  <2> SUFFICES ASSUME TypeInv, AppliedPresented, [Next]_vars PROVE AppliedPresented'
    OBVIOUS
  <2>1. ASSUME NEW r \in Replicas, NEW amount \in Amounts, NEW opid \in Presented[r],
               Charge(r, amount, opid)
        PROVE  AppliedPresented'
    <3>1. /\ applied' = [applied EXCEPT ![r] = Put(applied[r], opid, amount)]
          /\ DOMAIN applied = Replicas
      BY <2>1 DEF Charge, Debit, TypeInv, TypeOK
    <3>2. DOMAIN applied'[r] = DOMAIN applied[r] \cup {opid}
      BY <3>1 DEF Put
    <3>3. \A s \in Replicas \ {r} : applied'[s] = applied[s]
      BY <3>1
    <3> QED
      BY <3>2, <3>3 DEF AppliedPresented
  <2>2. CASE UNCHANGED applied
    BY <2>2 DEF AppliedPresented
  <2> QED
    BY <2>1, <2>2 DEF Next, Issue, Deliver, Drop, charges, vars
<1> QED
  BY <1>1, <1>2, InitTypeInv, NextTypeInv, PTL DEF Spec

\* The whole cap at one replica is where the exploration starts.
LEMMA InitExplored == ASSUME OneGenesis PROVE Init => Explored!SInit
<1> SUFFICES ASSUME Init PROVE Explored!SInit
  OBVIOUS
<1>1. PICK genesis \in Replicas :
        InitEscrow = [r \in Replicas |-> IF r = genesis THEN CAP ELSE 0]
  BY DEF OneGenesis
<1>2. DOMAIN tidAmount = {} /\ receivedTids = {} /\ spent = [r \in Replicas |-> 0]
      /\ escrow = InitEscrow
  BY EmptyDictType DEF Init
<1>3. Sendings = {}
  BY DEF Init, Sendings
<1>4. Used = {}
  BY EmptyDictType DEF Init, Used
<1>5. Nominal = [t \in Tids |-> 0]
  BY <1>2 DEF Nominal
<1> QED
  BY <1>1, <1>2, <1>3, <1>4, <1>5 DEF Explored!SInit, Sendings, Used, Nominal

\* charge uses up an id that no replica had used.
LEMMA ChargeExplored ==
  ASSUME OneReplicaPerCharge, IdsInv, AppliedPresented,
         NEW r \in Replicas, NEW amount \in Amounts,
         NEW opid \in Presented[r], Charge(r, amount, opid)
  PROVE  Explored!Charge(r, opid, amount)
<1>1. /\ opid \notin DOMAIN applied[r] /\ amount <= escrow[r]
      /\ escrow' = [escrow EXCEPT ![r] = escrow[r] - amount]
      /\ spent' = [spent EXCEPT ![r] = spent[r] + amount]
      /\ applied' = [applied EXCEPT ![r] = Put(applied[r], opid, amount)]
      /\ UNCHANGED <<issued, recvd, net, tidAmount, receivedTids>>
  BY DEF Charge, Debit, NotApplied, Affordable
<1>2. opid \notin Used
  BY <1>1 DEF OneReplicaPerCharge, AppliedPresented, Used
<1>3. Used' = Used \cup {opid}
  <2>1. DOMAIN applied = Replicas
    BY DEF IdsInv, TypeInv, TypeOK
  <2>2. DOMAIN applied'[r] = DOMAIN applied[r] \cup {opid}
    BY <1>1, <2>1 DEF Put
  <2>3. \A s \in Replicas \ {r} : applied'[s] = applied[s]
    BY <1>1, <2>1
  <2>4. \A o : o \in Used' <=> o \in Used \/ o = opid
    BY <2>2, <2>3 DEF Used
  <2> QED
    BY <2>4
<1>4. Sendings' = Sendings /\ Nominal' = Nominal /\ (DOMAIN tidAmount)' = DOMAIN tidAmount
  BY <1>1 DEF Sendings, Nominal
<1> QED
  BY <1>1, <1>2, <1>3, <1>4 DEF Explored!Charge, Sendings, Used, Nominal

\* issue sends an id that nobody had sent.
LEMMA IssueExplored ==
  ASSUME SenderIdempotent, IdsInv, NEW m \in Transfers, Issue(m)
  PROVE  Explored!SendFirst(m.src, m.dst, m.tid, m.amount)
<1>1. /\ m.tid \notin DOMAIN tidAmount /\ m.amount <= escrow[m.src]
      /\ escrow' = [escrow EXCEPT ![m.src] = escrow[m.src] - m.amount]
      /\ net' = [net EXCEPT ![m] = net[m] + 1]
      /\ UNCHANGED <<spent, applied, receivedTids>>
  BY DEF Issue, MayIssue, Affordable, charges, IdsInv, KnownAtSrc
<1>2. tidAmount' = Put(tidAmount, m.tid, m.amount)
  BY <1>1, IssueInTransit DEF IdsInv
<1>3. (DOMAIN tidAmount)' = DOMAIN tidAmount \cup {m.tid}
  BY <1>2 DEF Put
<1>4. Nominal' = [Nominal EXCEPT ![m.tid] = m.amount]
  <2>1. m.tid \in Tids
    BY TransferType
  <2> QED
    BY <1>2, <2>1 DEF Nominal, Put
<1>5. Sendings' = Sendings \cup {<<m.dst, m.tid>>}
  <2>1. net \in [Transfers -> 0 .. MaxCopies]
    BY DEF IdsInv, TypeInv, TypeOK
  <2>2. net'[m] > 0 /\ \A n \in Transfers \ {m} : net'[n] = net[n]
    BY <1>1, <2>1, ConstantsOK
  <2>3. {n \in Transfers : net'[n] > 0} = {n \in Transfers : net[n] > 0} \cup {m}
    BY <2>2
  <2> QED
    BY <2>3 DEF Sendings
<1>6. Used' = Used
  BY <1>1 DEF Used
<1> QED
  BY <1>1, <1>3, <1>4, <1>5, <1>6 DEF Explored!SendFirst, Sendings, Used, Nominal

\* deliver credits the amount that was sent under the id.
LEMMA DeliverExplored ==
  ASSUME ReceiverIdempotent, IdsInv, NEW m \in Transfers, Deliver(m)
  PROVE  <<m.dst, m.tid>> \in Sendings /\ Explored!Recv(m.dst, m.tid)
<1>1. /\ net[m] > 0
      /\ escrow' = [escrow EXCEPT ![m.dst] = escrow[m.dst] + m.amount]
      /\ receivedTids' = receivedTids \cup {m.tid}
      /\ UNCHANGED <<spent, applied, net, tidAmount>>
  BY DEF Deliver, CreditAmount, RecordReceipt, charges
<1>2. m.tid \in DOMAIN tidAmount /\ m.tid \notin receivedTids /\ tidAmount[m.tid] = m.amount
  BY DeliverInTransit DEF InTransit
<1>3. Nominal[m.tid] = m.amount
  BY <1>2, TransferType DEF Nominal
<1>4. Sendings' = Sendings /\ Nominal' = Nominal /\ Used' = Used
      /\ (DOMAIN tidAmount)' = DOMAIN tidAmount
  BY <1>1 DEF Sendings, Nominal, Used
<1>5. <<m.dst, m.tid>> \in Sendings
  BY <1>1 DEF Sendings
<1> QED
  BY <1>1, <1>2, <1>3, <1>4, <1>5 DEF Explored!Recv, Sendings, Used, Nominal

\* drop removes a message, when its last copy goes.
LEMMA DropExplored ==
  ASSUME UniqueTids, IdsInv, NEW m \in Transfers, Drop(m)
  PROVE  /\ <<m.dst, m.tid>> \in Sendings
         /\ \/ Explored!Drop(<<m.dst, m.tid>>)
            \/ UNCHANGED <<escrow, spent, Sendings, Used, DOMAIN tidAmount,
                           receivedTids, Nominal>>
<1>1. /\ net[m] > 0 /\ net' = [net EXCEPT ![m] = net[m] - 1]
      /\ UNCHANGED <<escrow, spent, applied, tidAmount, receivedTids>>
  BY DEF Drop, balances, charges
<1>2. net \in [Transfers -> 0 .. MaxCopies]
  BY DEF IdsInv, TypeInv, TypeOK
<1>3. net'[m] = net[m] - 1 /\ \A n \in Transfers \ {m} : net'[n] = net[n]
  BY <1>1, <1>2
<1>4. Used' = Used /\ Nominal' = Nominal /\ (DOMAIN tidAmount)' = DOMAIN tidAmount
  BY <1>1 DEF Used, Nominal
<1>5. <<m.dst, m.tid>> \in Sendings
  BY <1>1 DEF Sendings
<1>6. CASE net[m] = 1
  <2>1. {n \in Transfers : net'[n] > 0} = {n \in Transfers : net[n] > 0} \ {m}
    BY <1>3, <1>6
  <2>2. \A n \in Transfers : <<n.dst, n.tid>> = <<m.dst, m.tid>> => n = m
    BY DEF UniqueTids
  <2>3. Sendings' = Sendings \ {<<m.dst, m.tid>>}
    BY <2>1, <2>2 DEF Sendings
  <2> QED
    BY <1>1, <1>4, <1>5, <2>3 DEF Explored!Drop, Sendings, Used, Nominal
<1>7. CASE net[m] # 1
  <2>1. net'[m] > 0
    BY <1>1, <1>2, <1>3, <1>7, ConstantsOK
  <2>2. {n \in Transfers : net'[n] > 0} = {n \in Transfers : net[n] > 0}
    BY <1>1, <1>3, <2>1
  <2>3. Sendings' = Sendings
    BY <2>2 DEF Sendings
  <2> QED
    BY <1>1, <1>4, <1>5, <2>3
<1> QED
  BY <1>6, <1>7

\* Every step of the cluster is explored, or leaves the explored state as it
\* is: a drop of one of several copies does.
LEMMA NextExplored ==
  ASSUME UniqueTids, SenderIdempotent, ReceiverIdempotent, OneReplicaPerCharge
  PROVE  IdsInv /\ AppliedPresented /\ [Next]_vars
           => [Explored!SNext]_(Explored!svars)
<1> SUFFICES ASSUME IdsInv, AppliedPresented, [Next]_vars
             PROVE  \/ Explored!SNext
                    \/ UNCHANGED <<escrow, spent, Sendings, Used, DOMAIN tidAmount,
                                   receivedTids, Nominal>>
  BY DEF Explored!svars, Sendings, Used, Nominal
<1>1. ASSUME NEW r \in Replicas, NEW amount \in Amounts, NEW opid \in Presented[r],
             Charge(r, amount, opid)
      PROVE  Explored!SNext
  <2>1. opid \in Opids
    BY ConstantsOK
  <2> QED
    BY <1>1, <2>1, ChargeExplored DEF Explored!SNext
<1>2. ASSUME NEW m \in Transfers, Issue(m)
      PROVE  Explored!SNext
  BY <1>2, IssueExplored, TransferType DEF Explored!SNext
<1>3. ASSUME NEW m \in Transfers, Deliver(m)
      PROVE  Explored!SNext
  <2>1. <<m.dst, m.tid>> \in Sendings /\ Explored!Recv(m.dst, m.tid)
    BY <1>3, DeliverExplored
  <2>2. <<m.dst, m.tid>>[1] = m.dst /\ <<m.dst, m.tid>>[2] = m.tid
    OBVIOUS
  <2> QED
    BY <2>1, <2>2 DEF Explored!SNext, Sendings
<1>4. ASSUME NEW m \in Transfers, Drop(m)
      PROVE  \/ Explored!SNext
             \/ UNCHANGED <<escrow, spent, Sendings, Used, DOMAIN tidAmount,
                            receivedTids, Nominal>>
  BY <1>4, DropExplored DEF Explored!SNext, Sendings
<1>5. CASE UNCHANGED vars
  BY <1>5 DEF vars, Sendings, Used, Nominal
<1> QED
  BY <1>1, <1>2, <1>3, <1>4, <1>5 DEF Next

\* With unique ids, both idempotencies, charge ids kept to one replica and the
\* cap allocated to one replica, every operation that impl/distributed.py
\* performs is a transition that spec_model.py explores: its verdict on the
\* transition system covers the cluster, for every size of it.
THEOREM OperationsAreExplored ==
  ASSUME UniqueTids, SenderIdempotent, ReceiverIdempotent,
         OneReplicaPerCharge, OneGenesis
  PROVE  Spec => ImplementsSpecModel
  BY InitExplored, NextExplored, IdsInvariance, AppliedInvariance, PTL
     DEF Spec, ImplementsSpecModel, Explored!SSpec

\* And the other way round, as the head of spec_model.py says ("exactly these
\* transitions"): from a state of the cluster, every transition that the file
\* explores with a call its callers make is the effect of that call, the records
\* of the replicas kept up.  The two therefore agree on what is refused, too.
\* (Only the loss of a message that has another copy is no transition.)
THEOREM TransitionsAreOperations ==
  ASSUME UniqueTids, SenderIdempotent, ReceiverIdempotent, OneReplicaPerCharge,
         MaxCopies > 0, IdsInv, AppliedPresented
  PROVE  /\ \A r \in Replicas, amount \in Amounts : \A opid \in Presented[r] :
              Charge(r, amount, opid) <=>
                /\ Explored!Charge(r, opid, amount)
                /\ applied' = [applied EXCEPT ![r] = Put(applied[r], opid, amount)]
                /\ chargeCount' =
                     [chargeCount EXCEPT ![r][opid] = chargeCount[r][opid] + 1]
                /\ UNCHANGED <<issued, recvd, net, tidAmount, receivedTids>>
         /\ \A m \in Transfers :
              Issue(m) <=>
                /\ Explored!SendFirst(m.src, m.dst, m.tid, m.amount)
                /\ issued' = [issued EXCEPT ![m.src] = issued[m.src] \cup {m.tid}]
                /\ tidAmount' = NominalAmount(m)
                /\ net' = [net EXCEPT ![m] = net[m] + 1]
                /\ UNCHANGED <<charges, recvd, receivedTids>>
         /\ \A m \in {n \in Transfers : net[n] > 0} :
              Deliver(m) <=>
                /\ Explored!Recv(m.dst, m.tid)
                /\ recvd' = [recvd EXCEPT ![m.dst] = recvd[m.dst] \cup {m.tid}]
                /\ UNCHANGED <<charges, issued, net, tidAmount>>
         /\ \A m \in {n \in Transfers : net[n] = 1} :
              Drop(m) <=>
                /\ Explored!Drop(<<m.dst, m.tid>>)
                /\ net' = [net EXCEPT ![m] = net[m] - 1]
                /\ UNCHANGED <<charges, issued, recvd, tidAmount, receivedTids>>
<1>1. ASSUME NEW r \in Replicas, NEW amount \in Amounts, NEW opid \in Presented[r]
      PROVE  Charge(r, amount, opid) <=>
               /\ Explored!Charge(r, opid, amount)
               /\ applied' = [applied EXCEPT ![r] = Put(applied[r], opid, amount)]
               /\ chargeCount' =
                    [chargeCount EXCEPT ![r][opid] = chargeCount[r][opid] + 1]
               /\ UNCHANGED <<issued, recvd, net, tidAmount, receivedTids>>
  <2>1. ASSUME Charge(r, amount, opid)
        PROVE  Explored!Charge(r, opid, amount)
    BY <2>1, ChargeExplored
  <2>2. ASSUME Explored!Charge(r, opid, amount)
        PROVE  /\ NotApplied(r, opid) /\ Affordable(r, amount)
               /\ escrow' = [escrow EXCEPT ![r] = escrow[r] - amount]
               /\ spent' = [spent EXCEPT ![r] = spent[r] + amount]
    BY <2>2 DEF Explored!Charge, NotApplied, Affordable
  <2> QED
    BY <2>1, <2>2 DEF Charge, Debit
<1>2. ASSUME NEW m \in Transfers
      PROVE  Issue(m) <=>
               /\ Explored!SendFirst(m.src, m.dst, m.tid, m.amount)
               /\ issued' = [issued EXCEPT ![m.src] = issued[m.src] \cup {m.tid}]
               /\ tidAmount' = NominalAmount(m)
               /\ net' = [net EXCEPT ![m] = net[m] + 1]
               /\ UNCHANGED <<charges, recvd, receivedTids>>
  <2>1. ASSUME Issue(m)
        PROVE  Explored!SendFirst(m.src, m.dst, m.tid, m.amount)
    BY <2>1, IssueExplored
  <2>2. ASSUME Explored!SendFirst(m.src, m.dst, m.tid, m.amount)
        PROVE  /\ MayIssue(m) /\ Affordable(m.src, m.amount) /\ net[m] < MaxCopies
               /\ escrow' = [escrow EXCEPT ![m.src] = escrow[m.src] - m.amount]
               /\ UNCHANGED spent
    <3>1. /\ m.tid \notin DOMAIN tidAmount /\ m.amount <= escrow[m.src]
          /\ escrow' = [escrow EXCEPT ![m.src] = escrow[m.src] - m.amount]
          /\ UNCHANGED spent
      BY <2>2 DEF Explored!SendFirst
    <3>2. m.tid \notin issued[m.src] /\ ~(net[m] > 0)
      BY <3>1, TransferType DEF IdsInv, TypeInv, MessagesIssued
    <3>3. net[m] < MaxCopies
      BY <3>2, ConstantsOK DEF IdsInv, TypeInv, TypeOK
    <3> QED
      BY <3>1, <3>2, <3>3 DEF MayIssue, Affordable
  <2> QED
    BY <2>1, <2>2 DEF Issue
<1>3. ASSUME NEW m \in Transfers, net[m] > 0
      PROVE  Deliver(m) <=>
               /\ Explored!Recv(m.dst, m.tid)
               /\ recvd' = [recvd EXCEPT ![m.dst] = recvd[m.dst] \cup {m.tid}]
               /\ UNCHANGED <<charges, issued, net, tidAmount>>
  <2>1. ASSUME Deliver(m)
        PROVE  Explored!Recv(m.dst, m.tid)
    BY <2>1, DeliverExplored
  <2>2. ASSUME Explored!Recv(m.dst, m.tid)
        PROVE  /\ MayCredit(m) /\ receivedTids' = RecordReceipt(m) /\ UNCHANGED spent
               /\ escrow' = [escrow EXCEPT ![m.dst] = escrow[m.dst] + CreditAmount(m)]
    <3>1. /\ m.tid \notin receivedTids /\ receivedTids' = receivedTids \cup {m.tid}
          /\ escrow' = [escrow EXCEPT ![m.dst] = escrow[m.dst] + Nominal[m.tid]]
          /\ UNCHANGED spent
      BY <2>2 DEF Explored!Recv, Nominal
    <3>2. m.tid \in Tids /\ m.tid \in DOMAIN tidAmount /\ tidAmount[m.tid] = m.amount
      BY <1>3, TransferType DEF IdsInv, TypeInv, MessagesIssued, NominalIsAmount
    <3>3. Nominal[m.tid] = m.amount
      BY <3>2 DEF Nominal
    <3>4. m.tid \notin recvd[m.dst]
      BY <3>1, TransferType DEF IdsInv, TypeInv, ReceiptsAgree
    <3> QED
      BY <3>1, <3>3, <3>4 DEF MayCredit, RecordReceipt, CreditAmount
  <2> QED
    BY <1>3, <2>1, <2>2 DEF Deliver
<1>4. ASSUME NEW m \in Transfers, net[m] = 1
      PROVE  Drop(m) <=>
               /\ Explored!Drop(<<m.dst, m.tid>>)
               /\ net' = [net EXCEPT ![m] = net[m] - 1]
               /\ UNCHANGED <<charges, issued, recvd, tidAmount, receivedTids>>
  <2>1. ASSUME Drop(m)
        PROVE  Explored!Drop(<<m.dst, m.tid>>)
    <3>1. /\ net' = [net EXCEPT ![m] = net[m] - 1]
          /\ UNCHANGED <<escrow, spent, applied, tidAmount, receivedTids>>
      BY <2>1 DEF Drop, balances, charges
    <3>2. net \in [Transfers -> 0 .. MaxCopies]
      BY DEF IdsInv, TypeInv, TypeOK
    <3>3. {n \in Transfers : net'[n] > 0} = {n \in Transfers : net[n] > 0} \ {m}
      BY <1>4, <3>1, <3>2
    <3>4. Sendings' = Sendings \ {<<m.dst, m.tid>>}
      BY <3>3 DEF UniqueTids, Sendings
    <3>5. Used' = Used /\ Nominal' = Nominal /\ (DOMAIN tidAmount)' = DOMAIN tidAmount
      BY <3>1 DEF Used, Nominal
    <3> QED
      BY <3>1, <3>4, <3>5 DEF Explored!Drop, Sendings, Used, Nominal
  <2>2. ASSUME Explored!Drop(<<m.dst, m.tid>>)
        PROVE  UNCHANGED balances
    BY <2>2 DEF Explored!Drop, balances
  <2> QED
    BY <1>4, <2>1, <2>2 DEF Drop
<1> QED
  BY <1>1, <1>2, <1>3, <1>4

-----------------------------------------------------------------------------
(***************************************************************************)
(* The damaged replicas of mutation_distributed.py, whatever is called and *)
(* whichever transfers share an id.  asked says which transfers were       *)
(* debited; ids are looked up there, for the replicas do not know what an  *)
(* id of another stands for.                                               *)
(***************************************************************************)

\* The calls of a class, when they have an effect.
Charges(r, amount, opid) ==
  /\ row.cls = "ChargeNoGuard" \/ Affordable(r, amount)
  /\ row.cls = "ChargeNoIdemp" \/ NotApplied(r, opid)
  /\ Debit(r, amount, opid)

Emits(m) ==
  /\ Affordable(m.src, m.amount)
  /\ row.cls = "IssueNoDedup" \/ m.tid \notin issued[m.src]
  /\ escrow' = [escrow EXCEPT ![m.src] = escrow[m.src] - m.amount]
  /\ issued' = [issued EXCEPT ![m.src] = issued[m.src] \cup {m.tid}]
  /\ tidAmount' = NominalAmount(m)
  /\ net' = [net EXCEPT ![m] = net[m] + 1]
  /\ UNCHANGED <<spent, charges, recvd, receivedTids>>

Credits(m) ==
  /\ net[m] > 0
  /\ row.cls = "RecvNoDedup" \/ m.tid \notin recvd[m.dst]
  /\ escrow' = [escrow EXCEPT ![m.dst] = escrow[m.dst] + m.amount]
  /\ recvd' = [recvd EXCEPT ![m.dst] = recvd[m.dst] \cup {m.tid}]
  /\ receivedTids' = RecordReceipt(m)
  /\ UNCHANGED <<spent, charges, issued, net, tidAmount>>

\* The types of what the classes share; escrow may be negative.
Books ==
  /\ escrow \in [Replicas -> Int] /\ spent \in [Replicas -> Nat]
  /\ issued \in [Replicas -> SUBSET Tids] /\ recvd \in [Replicas -> SUBSET Tids]
  /\ net \in [Transfers -> Nat]
  /\ tidAmount \in [DOMAIN tidAmount -> Nat] /\ IsFiniteSet(DOMAIN tidAmount)
  /\ ReceiptsAgree

\* What is on the network was asked for; ids stand for transfers that were.
AskedFor ==
  /\ asked \in SUBSET Transfers /\ IsFiniteSet(asked)
  /\ \A m \in Transfers : net[m] > 0 => m \in asked
  /\ \A m \in asked : m.tid \in issued[m.src] /\ m.tid \in DOMAIN tidAmount
  /\ \A t \in DOMAIN tidAmount : \E m \in asked : m.tid = t /\ m.amount = tidAmount[t]
  /\ \A r \in Replicas : \A t \in recvd[r] : \E m \in asked : m.tid = t /\ m.dst = r

\* A call has its effect or, where it is refused, none.
LEMMA CallEffect ==
  ASSUME NEW ACTION Effect, NEW record, NEW STATE accepted, Call(record, accepted, Effect)
  PROVE  /\ (accepted /\ Effect) \/ (~accepted /\ UNCHANGED vars)
         /\ row' = row
  BY Zenon DEF Call

\* The methods of the classes have those effects.
LEMMA ClassEffects ==
  ASSUME SenderIdempotent, ReceiverIdempotent
  PROVE  /\ \A r, amount, opid :
              AcceptsCharge(r, amount, opid) /\ Debit(r, amount, opid)
                => Charges(r, amount, opid)
         /\ \A m : AcceptsIssue(m) /\ DebitAndEmit(m) => Emits(m)
         /\ \A m : AcceptsReceive(m) /\ Credit(m) => Credits(m)
<1>1. ASSUME NEW r, NEW amount, NEW opid, AcceptsCharge(r, amount, opid), Debit(r, amount, opid)
      PROVE  Charges(r, amount, opid)
  BY <1>1 DEF AcceptsCharge, Charges
<1>2. ASSUME NEW m, AcceptsIssue(m), DebitAndEmit(m)
      PROVE  Emits(m)
  BY <1>2 DEF AcceptsIssue, MayIssue, DebitAndEmit, NoSenderDedup!Issue,
     NoSenderDedup!NominalAmount, NoSenderDedup!SetDefault, NoSenderDedup!Put,
     NoSenderDedup!charges, NominalAmount, SetDefault, Put, charges, Emits
<1>3. ASSUME NEW m, AcceptsReceive(m), Credit(m)
      PROVE  Credits(m)
  BY <1>3 DEF AcceptsReceive, MayCredit, Credit, NoReceiverDedup!Deliver,
     NoReceiverDedup!CreditAmount, NoReceiverDedup!RecordReceipt, NoReceiverDedup!charges,
     RecordReceipt, charges, Credits
<1> QED
  BY <1>1, <1>2, <1>3

\* The steps of the suite.
SuiteCalls ==
  \/ \E r \in Replicas, amount \in Amounts : \E opid \in Presented[r] :
       Charges(r, amount, opid) /\ asked' = asked
  \/ \E m \in Transfers : Emits(m) /\ asked' = asked \cup {m}
  \/ \E m \in Transfers : Credits(m) /\ asked' = asked
  \/ \E m \in Transfers : Drop(m) /\ asked' = asked
  \/ UNCHANGED vars /\ asked' = asked

LEMMA SuiteSteps ==
  ASSUME SenderIdempotent, ReceiverIdempotent, [MNext]_mvars
  PROVE  SuiteCalls /\ row' = row
<1>1. CASE UNCHANGED mvars
  BY <1>1 DEF mvars, SuiteCalls
<1>2. ASSUME NEW r \in Replicas, NEW amount \in Amounts, NEW opid \in Presented[r],
             Call(ChargeCall(r, amount, opid), AcceptsCharge(r, amount, opid),
                  Debit(r, amount, opid)),
             asked' = asked
      PROVE  SuiteCalls /\ row' = row
  BY <1>2, CallEffect, ClassEffects DEF SuiteCalls
<1>3. ASSUME NEW m \in Transfers, Call(IssueCall(m), AcceptsIssue(m), DebitAndEmit(m)),
             asked' = IF AcceptsIssue(m) THEN asked \cup {m} ELSE asked
      PROVE  SuiteCalls /\ row' = row
  BY <1>3, CallEffect, ClassEffects DEF SuiteCalls
<1>4. ASSUME NEW m \in Transfers, Call(DeliverCall(m), AcceptsReceive(m), Credit(m)),
             asked' = asked
      PROVE  SuiteCalls /\ row' = row
  BY <1>4, CallEffect, ClassEffects DEF SuiteCalls
<1>5. ASSUME NEW m \in Transfers, Call(DropCall(m), TRUE, Drop(m)), asked' = asked
      PROVE  SuiteCalls /\ row' = row
  BY <1>5, CallEffect DEF SuiteCalls
<1> QED
  BY <1>1, <1>2, <1>3, <1>4, <1>5 DEF MNext

\* A new id enters the dictionary of nominal amounts, a known one stays.
LEMMA NominalStep ==
  ASSUME Books, NEW m \in Transfers, tidAmount' = NominalAmount(m)
  PROVE  /\ DOMAIN tidAmount' = DOMAIN tidAmount \cup {m.tid}
         /\ tidAmount' \in [DOMAIN tidAmount' -> Nat] /\ IsFiniteSet(DOMAIN tidAmount')
         /\ \A t \in DOMAIN tidAmount : tidAmount'[t] = tidAmount[t]
         /\ m.tid \notin DOMAIN tidAmount => tidAmount'[m.tid] = m.amount
<1>1. IsFiniteSet(DOMAIN tidAmount \cup {m.tid})
  BY FS_AddElement DEF Books
<1> QED
  BY <1>1, TransferType DEF NominalAmount, SetDefault, Put, Books

\* Every call keeps the types.
LEMMA BooksKept ==
  ASSUME Books, AskedFor, SuiteCalls
  PROVE  Books'
<1>1. ASSUME NEW r \in Replicas, NEW amount \in Amounts, NEW opid \in Presented[r],
             Charges(r, amount, opid)
      PROVE  Books'
  BY <1>1, ConstantsOK DEF Charges, Debit, Books, ReceiptsAgree
<1>2. ASSUME NEW m \in Transfers, Emits(m)
      PROVE  Books'
  <2>1. /\ DOMAIN tidAmount \subseteq DOMAIN tidAmount'
        /\ tidAmount' \in [DOMAIN tidAmount' -> Nat] /\ IsFiniteSet(DOMAIN tidAmount')
    BY <1>2, NominalStep DEF Emits
  <2>2. recvd' = recvd /\ receivedTids' = receivedTids /\ spent' = spent
    BY <1>2 DEF Emits
  <2>3. ReceiptsAgree'
    BY <2>1, <2>2 DEF Books, ReceiptsAgree
  <2>4. /\ escrow' \in [Replicas -> Int] /\ issued' \in [Replicas -> SUBSET Tids]
        /\ net' \in [Transfers -> Nat]
    BY <1>2, TransferType DEF Emits, Books
  <2> QED
    BY <2>1, <2>2, <2>3, <2>4 DEF Books
<1>3. ASSUME NEW m \in Transfers, Credits(m)
      PROVE  Books'
  <2>1. m.tid \in DOMAIN tidAmount
    BY <1>3 DEF Credits, AskedFor
  <2>2. recvd' = [recvd EXCEPT ![m.dst] = recvd[m.dst] \cup {m.tid}]
        /\ receivedTids' = receivedTids \cup {m.tid} /\ tidAmount' = tidAmount
    BY <1>3 DEF Credits, RecordReceipt
  <2>3. ReceiptsAgree'
    BY <2>1, <2>2, TransferType DEF Books, ReceiptsAgree
  <2> QED
    BY <1>3, <2>2, <2>3, TransferType DEF Credits, Books
<1>4. ASSUME NEW m \in Transfers, Drop(m)
      PROVE  Books'
  BY <1>4 DEF Drop, balances, Books, ReceiptsAgree
<1>5. CASE UNCHANGED vars
  BY <1>5 DEF vars, Books, ReceiptsAgree
<1> QED
  BY <1>1, <1>2, <1>3, <1>4, <1>5 DEF SuiteCalls

\* Every call keeps what ids stand for.
LEMMA AskedKept ==
  ASSUME Books, AskedFor, SuiteCalls
  PROVE  AskedFor' /\ asked \subseteq asked'
<1>1. ASSUME NEW r \in Replicas, NEW amount \in Amounts, NEW opid \in Presented[r],
             Charges(r, amount, opid), asked' = asked
      PROVE  AskedFor'
  BY <1>1 DEF Charges, Debit, AskedFor
<1>2. ASSUME NEW m \in Transfers, Emits(m), asked' = asked \cup {m}
      PROVE  AskedFor'
  <2>1. /\ DOMAIN tidAmount' = DOMAIN tidAmount \cup {m.tid}
        /\ \A t \in DOMAIN tidAmount : tidAmount'[t] = tidAmount[t]
        /\ m.tid \notin DOMAIN tidAmount => tidAmount'[m.tid] = m.amount
    BY <1>2, NominalStep DEF Emits
  <2>2. IsFiniteSet(asked') /\ asked' \in SUBSET Transfers
    BY <1>2, FS_AddElement DEF AskedFor
  <2>3. \A n \in Transfers : net'[n] > 0 => n \in asked'
    BY <1>2 DEF Emits, Books, AskedFor
  <2>4. /\ m.tid \in issued'[m.src]
        /\ \A r \in Replicas : issued[r] \subseteq issued'[r]
    BY <1>2, TransferType DEF Emits, Books
  <2>5. \A n \in asked' : n.tid \in issued'[n.src] /\ n.tid \in DOMAIN tidAmount'
    BY <1>2, <2>1, <2>4, TransferType DEF AskedFor
  <2>6. \A t \in DOMAIN tidAmount' : \E n \in asked' : n.tid = t /\ n.amount = tidAmount'[t]
    BY <1>2, <2>1 DEF AskedFor
  <2>7. \A r \in Replicas : \A t \in recvd'[r] : \E n \in asked' : n.tid = t /\ n.dst = r
    BY <1>2 DEF Emits, AskedFor
  <2> QED
    BY <2>2, <2>3, <2>5, <2>6, <2>7 DEF AskedFor
<1>3. ASSUME NEW m \in Transfers, Credits(m), asked' = asked
      PROVE  AskedFor'
  <2>1. m \in asked
    BY <1>3 DEF Credits, AskedFor
  <2>2. \A r \in Replicas : \A t \in recvd'[r] : \E n \in asked' : n.tid = t /\ n.dst = r
    BY <1>3, <2>1 DEF Credits, Books, AskedFor
  <2> QED
    BY <1>3, <2>2 DEF Credits, AskedFor
<1>4. ASSUME NEW m \in Transfers, Drop(m), asked' = asked
      PROVE  AskedFor'
  <2>1. \A n \in Transfers : net'[n] > 0 => net[n] > 0
    BY <1>4 DEF Drop, Books
  <2> QED
    BY <1>4, <2>1 DEF Drop, AskedFor
<1>5. CASE UNCHANGED vars /\ asked' = asked
  BY <1>5 DEF vars, AskedFor
<1> QED
  BY <1>1, <1>2, <1>3, <1>4, <1>5 DEF SuiteCalls

\* What the replicas hold and have spent, overdrafts taken off.
SignedTotal == TotalSpent + SignedEscrow

\* The totals of the suite are integers; what is in flight is natural.
LEMMA SuiteTotals ==
  ASSUME Books
  PROVE  /\ TotalSpent \in Nat /\ SignedEscrow \in Int /\ InFlight \in Nat
         /\ IsFiniteSet(InTransit) /\ NatOn(tidAmount, InTransit)
         /\ InTransit \in SUBSET DOMAIN tidAmount
<1>1. InTransit \in SUBSET DOMAIN tidAmount
  BY DEF InTransit
<1>2. IsFiniteSet(InTransit) /\ NatOn(tidAmount, InTransit)
  BY <1>1, FS_Subset DEF Books, NatOn
<1>3. NatOn(spent, Replicas) /\ IsFiniteSet(Replicas)
  BY ConstantsOK DEF Books, NatOn
<1>4. SignedEscrow \in Int
  BY <1>3, SignedParts DEF SignedEscrow, Books
<1> QED
  BY <1>1, <1>2, <1>3, <1>4, SumType DEF TotalSpent, InFlight

\* The signed total of escrow follows the one replica that changes.
LEMMA UpdateEscrow ==
  ASSUME Books, Books', NEW r \in Replicas,
         \A s \in Replicas \ {r} : escrow'[s] = escrow[s]
  PROVE  SignedEscrow' = SignedEscrow - escrow[r] + escrow'[r]
<1>1. IsFiniteSet(Replicas) /\ \A s \in Replicas : escrow[s] \in Int /\ escrow'[s] \in Int
  BY ConstantsOK DEF Books
<1> QED
  BY <1>1, SignedUpdate DEF SignedEscrow

\* A debit by a charge moves budget from escrow to spent, below zero too.
LEMMA ChargeTotals ==
  ASSUME Books, Books', NEW r \in Replicas, NEW amount \in Amounts, NEW opid \in Presented[r],
         Charges(r, amount, opid)
  PROVE  /\ SignedTotal' = SignedTotal /\ InFlight' = InFlight
         /\ TotalSpent' = TotalSpent + amount
<1>1. /\ amount \in Nat /\ escrow[r] \in Int /\ spent[r] \in Nat
      /\ escrow'[r] = escrow[r] - amount /\ spent'[r] = spent[r] + amount
      /\ \A s \in Replicas \ {r} : escrow'[s] = escrow[s] /\ spent'[s] = spent[s]
  BY ConstantsOK DEF Charges, Debit, Books
<1>2. SignedEscrow' = SignedEscrow - escrow[r] + (escrow[r] - amount)
  BY <1>1, UpdateEscrow
<1>3. TotalSpent' = TotalSpent - spent[r] + (spent[r] + amount)
  <2>1. NatOn(spent, Replicas) /\ NatOn(spent', Replicas) /\ IsFiniteSet(Replicas)
    BY ConstantsOK DEF Books, NatOn
  <2> QED
    BY <1>1, <2>1, SumUpdate DEF TotalSpent
<1>4. InFlight' = InFlight
  BY DEF Charges, Debit, InFlight, InTransit
<1> QED
  BY <1>1, <1>2, <1>3, <1>4, SuiteTotals DEF SignedTotal

\* A debit for a transfer takes its amount from the replicas; it goes into
\* flight if the id is new, and is lost if not.
LEMMA EmitTotals ==
  ASSUME Books, Books', NEW m \in Transfers, Emits(m)
  PROVE  /\ SignedTotal' = SignedTotal - m.amount
         /\ InFlight' = IF m.tid \in DOMAIN tidAmount THEN InFlight ELSE InFlight + m.amount
<1>1. /\ m.src \in Replicas /\ m.amount \in Nat /\ escrow[m.src] \in Int
      /\ escrow'[m.src] = escrow[m.src] - m.amount
      /\ \A s \in Replicas \ {m.src} : escrow'[s] = escrow[s]
  BY TransferType DEF Emits, Books
<1>2. SignedEscrow' = SignedEscrow - escrow[m.src] + (escrow[m.src] - m.amount)
  BY <1>1, UpdateEscrow
<1>3. TotalSpent' = TotalSpent
  BY DEF Emits, TotalSpent
<1>4. tidAmount' = NominalAmount(m) /\ receivedTids' = receivedTids
  BY DEF Emits
<1>5. CASE m.tid \in DOMAIN tidAmount
  <2>1. tidAmount' = tidAmount
    BY <1>4, <1>5 DEF NominalAmount, SetDefault
  <2>2. InFlight' = InFlight
    BY <1>4, <2>1 DEF InFlight, InTransit
  <2> QED
    BY <1>1, <1>2, <1>3, <1>5, <2>2, SuiteTotals DEF SignedTotal
<1>6. CASE m.tid \notin DOMAIN tidAmount
  <2>1. tidAmount' = Put(tidAmount, m.tid, m.amount)
    BY <1>4, <1>6 DEF NominalAmount, SetDefault
  <2>2. DOMAIN tidAmount' = DOMAIN tidAmount \cup {m.tid} /\ m.tid \notin receivedTids
    BY <1>6, <2>1 DEF Put, Books, ReceiptsAgree
  <2>3. InTransit' = InTransit \cup {m.tid}
    BY <1>4, <2>2 DEF InTransit
  <2>4. SumOver(Put(tidAmount, m.tid, m.amount), InTransit \cup {m.tid})
          = SumOver(tidAmount, InTransit) + m.amount
    <3>1. tidAmount \in [DOMAIN tidAmount -> Nat]
      BY DEF Books
    <3> QED
      BY <1>1, <1>6, <3>1, SumPut, SuiteTotals
  <2>5. InFlight' = InFlight + m.amount
    BY <2>1, <2>3, <2>4 DEF InFlight
  <2> QED
    BY <1>1, <1>2, <1>3, <1>6, <2>5, SuiteTotals DEF SignedTotal
<1> QED
  BY <1>5, <1>6

\* A credit gives a replica the amount of the message; the nominal amount of
\* the id leaves flight if nobody had credited the id.
LEMMA CreditTotals ==
  ASSUME Books, Books', AskedFor, NEW m \in Transfers, Credits(m)
  PROVE  /\ m \in asked
         /\ SignedTotal' = SignedTotal + m.amount
         /\ InFlight' = IF m.tid \in receivedTids THEN InFlight
                                                  ELSE InFlight - tidAmount[m.tid]
<1>1. /\ m.dst \in Replicas /\ m.amount \in Nat /\ escrow[m.dst] \in Int
      /\ escrow'[m.dst] = escrow[m.dst] + m.amount
      /\ \A s \in Replicas \ {m.dst} : escrow'[s] = escrow[s]
  BY TransferType DEF Credits, Books
<1>2. SignedEscrow' = SignedEscrow - escrow[m.dst] + (escrow[m.dst] + m.amount)
  BY <1>1, UpdateEscrow
<1>3. TotalSpent' = TotalSpent
  BY DEF Credits, TotalSpent
<1>4. /\ m \in asked /\ m.tid \in DOMAIN tidAmount
      /\ tidAmount' = tidAmount /\ receivedTids' = receivedTids \cup {m.tid}
  BY DEF Credits, AskedFor, RecordReceipt
<1>5. InFlight' = IF m.tid \in receivedTids THEN InFlight ELSE InFlight - tidAmount[m.tid]
  <2>1. CASE m.tid \in receivedTids
    <3>1. InTransit' = InTransit
      BY <1>4, <2>1 DEF InTransit
    <3> QED
      BY <1>4, <2>1, <3>1 DEF InFlight
  <2>2. CASE m.tid \notin receivedTids
    <3>1. m.tid \in InTransit /\ InTransit' = InTransit \ {m.tid}
      BY <1>4, <2>2 DEF InTransit
    <3>2. InFlight = SumOver(tidAmount, InTransit \ {m.tid}) + tidAmount[m.tid]
      BY <3>1, SumRemove, SuiteTotals DEF InFlight
    <3>3. InFlight' = SumOver(tidAmount, InTransit \ {m.tid})
      BY <1>4, <3>1 DEF InFlight
    <3>4. InFlight' \in Nat /\ tidAmount[m.tid] \in Nat
      <4>1. IsFiniteSet(InTransit \ {m.tid}) /\ NatOn(tidAmount, InTransit \ {m.tid})
        BY FS_RemoveElement, SuiteTotals DEF NatOn
      <4> QED
        BY <1>4, <3>3, <4>1, SumType DEF Books
    <3> QED
      BY <2>2, <3>2, <3>3, <3>4
  <2> QED
    BY <2>1, <2>2
<1> QED
  BY <1>1, <1>2, <1>3, <1>4, <1>5, SuiteTotals DEF SignedTotal

\* A drop and a refused call leave all totals as they are.
LEMMA NothingMoves ==
  ASSUME (\E m \in Transfers : Drop(m)) \/ UNCHANGED vars
  PROVE  SignedTotal' = SignedTotal /\ InFlight' = InFlight
  BY DEF Drop, balances, vars, SignedTotal, SignedEscrow, TotalSpent, InFlight, InTransit

\* While the ids of what was debited are unique, an id stands for one transfer
\* everywhere.
LEMMA UniqueMeaning ==
  ASSUME AskedFor, UniqueSoFar, NEW m \in asked
  PROVE  /\ tidAmount[m.tid] = m.amount
         /\ \A r \in Replicas : m.tid \in recvd[r] => r = m.dst
<1>1. \A n \in asked : n.tid = m.tid => n = m
  BY DEF UniqueSoFar
<1> QED
  BY <1>1 DEF AskedFor

\* While ids are unique, a call moves the quantity only by the fault of its
\* class: a debit that the sender made before, a credit that the receiver gave
\* before.
LEMMA FaultsMove ==
  ASSUME Books, AskedFor, SuiteCalls, UniqueSoFar'
  PROVE  \/ SignedQuantity' = SignedQuantity
         \/ \E m \in Transfers : /\ row.cls = "RecvNoDedup" /\ m.tid \in recvd[m.dst]
                                 /\ SignedQuantity' = SignedQuantity + m.amount
         \/ \E m \in Transfers : /\ row.cls = "IssueNoDedup" /\ m.tid \in issued[m.src]
                                 /\ SignedQuantity' = SignedQuantity - m.amount
<1>0. /\ Books' /\ UniqueSoFar
      /\ SignedTotal \in Int /\ InFlight \in Nat
      /\ SignedQuantity = SignedTotal + InFlight /\ SignedQuantity' = SignedTotal' + InFlight'
  BY BooksKept, AskedKept, SuiteTotals DEF UniqueSoFar, SignedTotal, SignedQuantity
<1>1. ASSUME NEW r \in Replicas, NEW amount \in Amounts, NEW opid \in Presented[r],
             Charges(r, amount, opid)
      PROVE  SignedQuantity' = SignedQuantity
  BY <1>0, <1>1, ChargeTotals
<1>2. ASSUME NEW m \in Transfers, Emits(m), asked' = asked \cup {m}
      PROVE  \/ SignedQuantity' = SignedQuantity
             \/ /\ row.cls = "IssueNoDedup" /\ m.tid \in issued[m.src]
                /\ SignedQuantity' = SignedQuantity - m.amount
  <2>1. m.amount \in Nat
    BY TransferType
  <2>2. CASE m.tid \notin DOMAIN tidAmount
    BY <1>0, <1>2, <2>1, <2>2, EmitTotals
  <2>3. CASE m.tid \in DOMAIN tidAmount
    <3>1. m \in asked
      BY <1>2, <2>3 DEF AskedFor, UniqueSoFar
    <3>2. m.tid \in issued[m.src] /\ row.cls = "IssueNoDedup"
      BY <1>2, <3>1 DEF AskedFor, Emits
    <3> QED
      BY <1>0, <1>2, <2>1, <2>3, <3>2, EmitTotals
  <2> QED
    BY <2>2, <2>3
<1>3. ASSUME NEW m \in Transfers, Credits(m)
      PROVE  \/ SignedQuantity' = SignedQuantity
             \/ /\ row.cls = "RecvNoDedup" /\ m.tid \in recvd[m.dst]
                /\ SignedQuantity' = SignedQuantity + m.amount
  <2>1. m.amount \in Nat /\ m.dst \in Replicas
    BY TransferType
  <2>2. m \in asked /\ tidAmount[m.tid] = m.amount
    BY <1>0, <1>3, CreditTotals, UniqueMeaning
  <2>3. CASE m.tid \notin receivedTids
    BY <1>0, <1>3, <2>1, <2>2, <2>3, CreditTotals
  <2>4. CASE m.tid \in receivedTids
    <3>1. m.tid \in recvd[m.dst]
      BY <1>0, <2>2, <2>4, UniqueMeaning DEF Books, ReceiptsAgree
    <3>2. row.cls = "RecvNoDedup"
      BY <1>3, <3>1 DEF Credits
    <3> QED
      BY <1>0, <1>3, <2>1, <2>4, <3>1, <3>2, CreditTotals
  <2> QED
    BY <2>3, <2>4
<1>4. CASE (\E m \in Transfers : Drop(m)) \/ UNCHANGED vars
  BY <1>0, <1>4, NothingMoves
<1> QED
  BY <1>1, <1>2, <1>3, <1>4 DEF SuiteCalls

\* A cluster that nothing was asked of.
LEMMA InitBooks == MInit => Books /\ AskedFor
<1> SUFFICES ASSUME MInit PROVE Books /\ AskedFor
  OBVIOUS
<1>1. /\ DOMAIN tidAmount = {} /\ asked = {}
      /\ \A r \in Replicas : recvd[r] = {} /\ issued[r] = {}
  BY EmptyDictType DEF MInit, Init
<1>2. Books
  <2>1. TypeOK /\ DictsFinite /\ ReceiptsAgree
    BY InitTypeInv DEF MInit, TypeInv
  <2> QED
    BY <2>1, ConstantsOK DEF TypeOK, DictsFinite, Books
<1>3. AskedFor
  BY <1>1, FS_EmptySet DEF MInit, Init, AskedFor
<1> QED
  BY <1>2, <1>3

\* The records of every class agree with what was asked.
LEMMA SuiteRecords ==
  ASSUME SenderIdempotent, ReceiverIdempotent
  PROVE  MSpec => [](Books /\ AskedFor)
<1>1. Books /\ AskedFor /\ [MNext]_mvars => Books' /\ AskedFor'
  BY SuiteSteps, BooksKept, AskedKept
<1> QED
  BY <1>1, InitBooks, PTL DEF MSpec

\* In the suite of mutation_distributed.py, on every sequence of calls and for
\* as long as ids are unique: budget is created by nothing but a second credit
\* of RecvNoDedup and destroyed by nothing but a second debit of IssueNoDedup.
THEOREM FaultsMoveBudget ==
  ASSUME SenderIdempotent, ReceiverIdempotent
  PROVE  MSpec => BudgetMovesByFaultOnly
<1> DEFINE Moves ==
      UniqueSoFar' =>
       /\ SignedQuantity' > SignedQuantity =>
            \E m \in Transfers : /\ row.cls = "RecvNoDedup" /\ m.tid \in recvd[m.dst]
                                 /\ SignedQuantity' = SignedQuantity + m.amount
       /\ SignedQuantity' < SignedQuantity =>
            \E m \in Transfers : /\ row.cls = "IssueNoDedup" /\ m.tid \in issued[m.src]
                                 /\ SignedQuantity' = SignedQuantity - m.amount
<1>1. Books /\ AskedFor /\ [MNext]_mvars => Moves
  <2> SUFFICES ASSUME Books, AskedFor, [MNext]_mvars, UniqueSoFar' PROVE Moves
    OBVIOUS
  <2>1. \/ SignedQuantity' = SignedQuantity
        \/ \E m \in Transfers : /\ row.cls = "RecvNoDedup" /\ m.tid \in recvd[m.dst]
                                /\ SignedQuantity' = SignedQuantity + m.amount
        \/ \E m \in Transfers : /\ row.cls = "IssueNoDedup" /\ m.tid \in issued[m.src]
                                /\ SignedQuantity' = SignedQuantity - m.amount
    BY SuiteSteps, FaultsMove
  <2>2. SignedQuantity \in Int /\ \A m \in Transfers : m.amount \in Nat
    BY SuiteTotals, TransferType DEF SignedQuantity
  <2> QED
    BY <2>1, <2>2
<1> QED
  BY <1>1, SuiteRecords, PTL DEF MSpec, BudgetMovesByFaultOnly

\* What may still be credited: every transfer that was debited and whose id its
\* receiver does not know, for its own amount, whatever the id is nominally
\* worth.
AmountOf    == [m \in Transfers |-> m.amount]
Outstanding == {m \in asked : m.tid \notin recvd[m.dst]}
Potential   == SumOver(AmountOf, Outstanding)

\* Without a second credit, what the replicas have and what they may still be
\* credited is within the cap, however often an id is debited and whatever it
\* names.
PotentialWithinCap == row.cls # "RecvNoDedup" => SignedTotal + Potential <= CAP

\* What else the classes keep: each gives up what its guard is for.
NoOverdraft == row.cls # "ChargeNoGuard" => \A r \in Replicas : escrow[r] >= 0
ChargesCounted ==
  /\ DOMAIN applied = Replicas
  /\ chargeCount \in [Replicas -> [Opids -> Nat]]
  /\ row.cls # "ChargeNoIdemp" => CountsApplied
ConservedWhileUnique ==
  row.cls \notin {"RecvNoDedup", "IssueNoDedup"} /\ UniqueSoFar => SignedQuantity = CAP

\* The rows of the suite, and what they expect.
Expectation ==
  <<row.cls, row.expected>> \in
    {<<"RecvNoDedup", "cap-safety">>, <<"IssueNoDedup", "conservation-only">>,
     <<"ChargeNoGuard", "cap-safety">>, <<"ChargeNoIdemp", "per-request-only">>,
     <<"Replica", "SURVIVED">>}

\* Inductive, when the file's replicas are idempotent.
ReplicaSuiteInv ==
  /\ Books /\ AskedFor
  /\ PotentialWithinCap
  /\ NoOverdraft
  /\ ChargesCounted
  /\ ConservedWhileUnique
  /\ Expectation

\* Potential is a total of naturals.
LEMMA PotentialType ==
  AskedFor => /\ IsFiniteSet(Outstanding) /\ NatOn(AmountOf, Outstanding)
              /\ Potential \in Nat
<1> SUFFICES ASSUME AskedFor
             PROVE  /\ IsFiniteSet(Outstanding) /\ NatOn(AmountOf, Outstanding)
                    /\ Potential \in Nat
  OBVIOUS
<1>1. Outstanding \in SUBSET asked /\ asked \in SUBSET Transfers
  BY DEF Outstanding, AskedFor
<1>2. IsFiniteSet(Outstanding) /\ NatOn(AmountOf, Outstanding)
  BY <1>1, FS_Subset, TransferType DEF AskedFor, NatOn, AmountOf
<1> QED
  BY <1>2, SumType DEF Potential

\* It is before and after every step.
LEMMA PotentialNat ==
  (AskedFor => Potential \in Nat) /\ (AskedFor => Potential \in Nat)'
<1>1. AskedFor => Potential \in Nat
  BY PotentialType
<1> QED
  BY <1>1, PTL

\* A debit may add its amount to the potential, and no more.
LEMMA EmitPotential ==
  ASSUME AskedFor, NEW m \in Transfers, Emits(m), asked' = asked \cup {m}
  PROVE  Potential' <= Potential + m.amount
<1>1. m.amount \in Nat
  BY TransferType
<1>2. recvd' = recvd
  BY DEF Emits
<1>3. CASE m \in Outstanding \/ m.tid \in recvd[m.dst]
  <2>1. Outstanding' = Outstanding
    BY <1>2, <1>3 DEF Outstanding
  <2> QED
    BY <1>1, <2>1, PotentialType DEF Potential, AmountOf
<1>4. CASE m \notin Outstanding /\ m.tid \notin recvd[m.dst]
  <2>1. Outstanding' = Outstanding \cup {m}
    BY <1>2, <1>4 DEF Outstanding
  <2>2. NatOn(AmountOf, Outstanding \cup {m}) /\ AmountOf[m] = m.amount
    BY <1>1, PotentialType DEF NatOn, AmountOf
  <2>3. SumOver(AmountOf, Outstanding \cup {m}) = SumOver(AmountOf, Outstanding) + m.amount
    BY <1>4, <2>2, SumAdd, PotentialType
  <2>4. Potential' = Potential + m.amount
    BY <2>1, <2>3 DEF Potential, AmountOf
  <2> QED
    BY <1>1, <2>4, PotentialType
<1> QED
  BY <1>3, <1>4

\* A first credit takes at least its amount from the potential: with it goes
\* every transfer to the same receiver that shares the id.
LEMMA CreditPotential ==
  ASSUME Books, AskedFor, NEW m \in Transfers, Credits(m), row.cls # "RecvNoDedup", asked' = asked
  PROVE  Potential' <= Potential - m.amount
<1>1. m.amount \in Nat /\ m.dst \in Replicas
  BY TransferType
<1>2. m \in Outstanding
  BY DEF Credits, AskedFor, Outstanding
<1>3. Outstanding' \in SUBSET (Outstanding \ {m})
  <2>1. /\ m.tid \in recvd'[m.dst]
        /\ \A r \in Replicas : recvd[r] \subseteq recvd'[r]
    BY <1>1 DEF Credits, Books
  <2>2. \A n \in asked : n.dst \in Replicas
    BY TransferType DEF AskedFor
  <2> QED
    BY <2>1, <2>2 DEF Outstanding
<1>4. Potential = SumOver(AmountOf, Outstanding \ {m}) + m.amount
  BY <1>2, SumRemove, PotentialType DEF Potential, AmountOf
<1>5. IsFiniteSet(Outstanding \ {m}) /\ NatOn(AmountOf, Outstanding \ {m})
  BY FS_RemoveElement, PotentialType DEF NatOn
<1>6. /\ SumOver(AmountOf, Outstanding') <= SumOver(AmountOf, Outstanding \ {m})
      /\ SumOver(AmountOf, Outstanding') \in Nat
      /\ SumOver(AmountOf, Outstanding \ {m}) \in Nat
  BY <1>3, <1>5, SumSubset, SumType
<1>7. Potential' = SumOver(AmountOf, Outstanding')
  BY DEF Potential, AmountOf
<1> QED
  BY <1>1, <1>4, <1>6, <1>7

\* What is in flight is part of the potential: an id that nobody credited was
\* debited for a transfer of its nominal amount, which is outstanding.
LEMMA InFlightWithinPotential ==
  ASSUME Books, AskedFor
  PROVE  InFlight <= Potential
<1> DEFINE first == [t \in InTransit |->
                       CHOOSE m \in asked : m.tid = t /\ m.amount = tidAmount[t]]
<1>1. ASSUME NEW t \in InTransit
      PROVE  /\ first[t] \in Outstanding
             /\ first[t].tid = t /\ AmountOf[first[t]] = tidAmount[t]
  <2>1. \E m \in asked : m.tid = t /\ m.amount = tidAmount[t]
    BY DEF InTransit, AskedFor
  <2>2. first[t] \in asked /\ first[t].tid = t /\ first[t].amount = tidAmount[t]
    BY <2>1
  <2>3. first[t] \in Transfers /\ first[t].dst \in Replicas
    BY <2>2, TransferType DEF AskedFor
  <2>4. t \notin recvd[first[t].dst]
    BY <2>3 DEF InTransit, Books, ReceiptsAgree
  <2> QED
    BY <2>2, <2>3, <2>4 DEF Outstanding, AmountOf
<1>2. first \in [InTransit -> Outstanding]
  BY <1>1
<1>3. \A t, u \in InTransit : first[t] = first[u] => t = u
  BY <1>1
<1>4. \A t \in InTransit : tidAmount[t] <= AmountOf[first[t]]
  BY <1>1, SuiteTotals DEF NatOn
<1> HIDE DEF first
<1> QED
  BY <1>2, <1>3, <1>4, SumInjection, PotentialType, SuiteTotals DEF InFlight, Potential

\* Every call keeps the potential within the cap.
LEMMA PotentialKept ==
  ASSUME Books, AskedFor, PotentialWithinCap, SuiteCalls, row' = row
  PROVE  PotentialWithinCap'
<1> SUFFICES ASSUME row.cls # "RecvNoDedup" PROVE SignedTotal' + Potential' <= CAP
  BY DEF PotentialWithinCap
<1>0. /\ Books' /\ AskedFor' /\ SignedTotal + Potential <= CAP
      /\ SignedTotal \in Int /\ Potential \in Nat /\ Potential' \in Nat /\ CAP \in Nat
  <2>1. Books' /\ AskedFor'
    BY BooksKept, AskedKept
  <2> QED
    BY <2>1, PotentialNat, SuiteTotals, ConstantsOK DEF SignedTotal, PotentialWithinCap
<1>1. ASSUME NEW r \in Replicas, NEW amount \in Amounts, NEW opid \in Presented[r],
             Charges(r, amount, opid), asked' = asked
      PROVE  SignedTotal' + Potential' <= CAP
  <2>1. Potential' = Potential
    BY <1>1 DEF Charges, Debit, Potential, Outstanding, AmountOf
  <2> QED
    BY <1>0, <1>1, <2>1, ChargeTotals
<1>2. ASSUME NEW m \in Transfers, Emits(m), asked' = asked \cup {m}
      PROVE  SignedTotal' + Potential' <= CAP
  BY <1>0, <1>2, EmitTotals, EmitPotential, TransferType
<1>3. ASSUME NEW m \in Transfers, Credits(m), asked' = asked
      PROVE  SignedTotal' + Potential' <= CAP
  BY <1>0, <1>3, CreditTotals, CreditPotential, TransferType
<1>4. CASE ((\E m \in Transfers : Drop(m)) \/ UNCHANGED vars) /\ asked' = asked
  <2>1. Potential' = Potential
    BY <1>4 DEF Drop, vars, Potential, Outstanding, AmountOf
  <2> QED
    BY <1>0, <1>4, <2>1, NothingMoves
<1> QED
  BY <1>1, <1>2, <1>3, <1>4 DEF SuiteCalls

\* Only ChargeNoGuard overdraws.
LEMMA NoOverdraftKept ==
  ASSUME Books, NoOverdraft, SuiteCalls, row' = row
  PROVE  NoOverdraft'
<1> SUFFICES ASSUME row.cls # "ChargeNoGuard" PROVE \A s \in Replicas : escrow'[s] >= 0
  BY DEF NoOverdraft
<1>0. \A s \in Replicas : escrow[s] \in Int /\ escrow[s] >= 0
  BY DEF NoOverdraft, Books
<1>1. ASSUME NEW r \in Replicas, NEW amount \in Amounts, NEW opid \in Presented[r],
             Charges(r, amount, opid)
      PROVE  \A s \in Replicas : escrow'[s] >= 0
  BY <1>0, <1>1, ConstantsOK DEF Charges, Debit, Affordable, Books
<1>2. ASSUME NEW m \in Transfers, Emits(m)
      PROVE  \A s \in Replicas : escrow'[s] >= 0
  BY <1>0, <1>2, TransferType DEF Emits, Affordable, Books
<1>3. ASSUME NEW m \in Transfers, Credits(m)
      PROVE  \A s \in Replicas : escrow'[s] >= 0
  BY <1>0, <1>3, TransferType DEF Credits, Books
<1>4. CASE (\E m \in Transfers : Drop(m)) \/ UNCHANGED vars
  BY <1>0, <1>4 DEF Drop, balances, vars
<1> QED
  BY <1>1, <1>2, <1>3, <1>4 DEF SuiteCalls

\* Every charge is counted, and only ChargeNoIdemp counts one twice.
LEMMA ChargesCountedKept ==
  ASSUME ChargesCounted, SuiteCalls, row' = row
  PROVE  ChargesCounted'
<1>1. ASSUME NEW r \in Replicas, NEW amount \in Amounts, NEW opid \in Presented[r],
             Charges(r, amount, opid)
      PROVE  ChargesCounted'
  <2>1. /\ opid \in Opids
        /\ applied' = [applied EXCEPT ![r] = Put(applied[r], opid, amount)]
        /\ chargeCount' = [chargeCount EXCEPT ![r][opid] = chargeCount[r][opid] + 1]
        /\ row.cls # "ChargeNoIdemp" => opid \notin DOMAIN applied[r]
    BY <1>1, ConstantsOK DEF Charges, Debit, NotApplied
  <2>2. /\ DOMAIN applied' = Replicas
        /\ DOMAIN applied'[r] = DOMAIN applied[r] \cup {opid}
        /\ \A s \in Replicas \ {r} : applied'[s] = applied[s]
    BY <2>1 DEF ChargesCounted, Put
  <2>3. /\ chargeCount' \in [Replicas -> [Opids -> Nat]]
        /\ chargeCount'[r][opid] = chargeCount[r][opid] + 1
        /\ \A s \in Replicas, o \in Opids :
             s # r \/ o # opid => chargeCount'[s][o] = chargeCount[s][o]
    BY <2>1 DEF ChargesCounted
  <2>4. ASSUME row.cls # "ChargeNoIdemp" PROVE CountsApplied'
    <3>1. CountsApplied /\ chargeCount[r][opid] = 0
      BY <2>1, <2>4 DEF ChargesCounted, CountsApplied
    <3> QED
      BY <2>2, <2>3, <3>1 DEF CountsApplied
  <2> QED
    BY <2>2, <2>3, <2>4 DEF ChargesCounted
<1>2. CASE UNCHANGED charges
  BY <1>2 DEF charges, ChargesCounted, CountsApplied
<1> QED
  BY <1>1, <1>2 DEF SuiteCalls, Emits, Credits, Drop, vars, charges

\* While ids are unique, the guards against second debits and second credits
\* conserve the budget.
LEMMA ConservedKept ==
  ASSUME Books, AskedFor, ConservedWhileUnique, SuiteCalls, row' = row
  PROVE  ConservedWhileUnique'
<1> SUFFICES ASSUME row.cls \notin {"RecvNoDedup", "IssueNoDedup"}, UniqueSoFar'
             PROVE  SignedQuantity' = CAP
  BY DEF ConservedWhileUnique
<1>1. UniqueSoFar
  BY AskedKept DEF UniqueSoFar
<1> QED
  BY <1>1, FaultsMove DEF ConservedWhileUnique

\* Every row says of its class what it expects.
LEMMA RowsExpect == row \in MUTANTS \cup Controls(MUTANTS, "Replica") => Expectation
  BY DEF MUTANTS, Controls, Expectation

\* The suite starts within the cap, with nothing counted.
LEMMA InitReplicaSuite == MInit => ReplicaSuiteInv
<1> SUFFICES ASSUME MInit PROVE ReplicaSuiteInv
  OBVIOUS
<1>1. Init /\ Books /\ AskedFor /\ TypeInv
  BY InitBooks, InitTypeInv DEF MInit
<1>2. NatOn(escrow, Replicas) /\ IsFiniteSet(Replicas)
  BY <1>1, ConstantsOK DEF TypeInv, TypeOK, NatOn
<1>3. SignedQuantity = CAP
  <2>1. SignedEscrow = TotalEscrow
    BY <1>2, SignedIsSum DEF SignedEscrow, TotalEscrow
  <2> QED
    BY <1>1, <2>1, InitConserved DEF Conserved, Quantity, SignedQuantity
<1>4. PotentialWithinCap
  <2>1. Outstanding = {}
    BY DEF MInit, Outstanding
  <2>2. Potential = 0
    BY <2>1, SumEmpty DEF Potential
  <2>3. InFlight = 0
    <3>1. InTransit = {}
      BY <1>1, EmptyDictType DEF Init, InTransit
    <3> QED
      BY <3>1, SumEmpty DEF InFlight
  <2> QED
    BY <1>1, <1>3, <2>2, <2>3, SuiteTotals, ConstantsOK
       DEF PotentialWithinCap, SignedTotal, SignedQuantity
<1>5. NoOverdraft /\ ChargesCounted
  BY <1>1 DEF TypeInv, TypeOK, NoOverdraft, ChargesCounted
<1>6. Expectation
  BY RowsExpect DEF MInit
<1> QED
  BY <1>1, <1>3, <1>4, <1>5, <1>6 DEF ReplicaSuiteInv, ConservedWhileUnique

\* Every call of every class keeps what the class did not lose.
LEMMA NextReplicaSuite ==
  ASSUME SenderIdempotent, ReceiverIdempotent
  PROVE  ReplicaSuiteInv /\ [MNext]_mvars => ReplicaSuiteInv'
<1> SUFFICES ASSUME ReplicaSuiteInv, [MNext]_mvars PROVE ReplicaSuiteInv'
  OBVIOUS
<1>1. SuiteCalls /\ row' = row
  BY SuiteSteps DEF ReplicaSuiteInv
<1>2. Books' /\ AskedFor'
  BY <1>1, BooksKept, AskedKept DEF ReplicaSuiteInv
<1>3. PotentialWithinCap' /\ NoOverdraft' /\ ChargesCounted' /\ ConservedWhileUnique'
  BY <1>1, PotentialKept, NoOverdraftKept, ChargesCountedKept, ConservedKept
     DEF ReplicaSuiteInv
<1>4. Expectation'
  BY <1>1 DEF ReplicaSuiteInv, Expectation
<1> QED
  BY <1>2, <1>3, <1>4 DEF ReplicaSuiteInv

\* The order of the verdicts.
LEMMA Gravity ==
  /\ \A v \in {"SURVIVED", "well-formedness", "per-request-only", "conservation-only",
               "cap-safety"} : AtLeast("cap-safety", v) /\ AtLeast(v, v)
  /\ AtLeast("conservation-only", "SURVIVED")
  /\ AtLeast("conservation-only", "well-formedness")
  /\ AtLeast("conservation-only", "per-request-only")
  /\ AtLeast("per-request-only", "SURVIVED")
  /\ AtLeast("per-request-only", "well-formedness")
<1>1. /\ DOMAIN VERDICTS = 1 .. 5
      /\ VERDICTS[1] = "SURVIVED" /\ VERDICTS[2] = "well-formedness"
      /\ VERDICTS[3] = "per-request-only" /\ VERDICTS[4] = "conservation-only"
      /\ VERDICTS[5] = "cap-safety"
  BY DEF VERDICTS
<1>2. \A i, j \in 1 .. 5 : i >= j => AtLeast(VERDICTS[i], VERDICTS[j])
  BY <1>1 DEF AtLeast
<1> QED
  BY <1>1, <1>2

\* Without a second credit nothing is graver than a loss of budget.
LEMMA WithinCap ==
  ASSUME ReplicaSuiteInv, row.cls \notin {"RecvNoDedup", "ChargeNoGuard"}
  PROVE  TotalSpent <= CAP /\ SignedQuantity <= CAP
<1>1. /\ TotalSpent \in Nat /\ InFlight \in Nat /\ Potential \in Nat /\ CAP \in Nat
      /\ SignedEscrow \in Int /\ InFlight <= Potential /\ SignedTotal + Potential <= CAP
  BY SuiteTotals, PotentialType, InFlightWithinPotential, ConstantsOK
     DEF ReplicaSuiteInv, PotentialWithinCap
<1>2. SignedEscrow >= 0
  <2>1. NatOn(escrow, Replicas) /\ IsFiniteSet(Replicas)
    BY ConstantsOK DEF ReplicaSuiteInv, NoOverdraft, Books, NatOn
  <2> QED
    BY <2>1, SignedIsSum, SumType DEF SignedEscrow
<1> QED
  BY <1>1, <1>2 DEF SignedTotal, SignedQuantity

\* The verdict in every class.
LEMMA VerdictOfClass == ReplicaSuiteInv => NeverWorse
<1> SUFFICES ASSUME ReplicaSuiteInv PROVE NeverWorse
  OBVIOUS
<1>1. Classify \in {"SURVIVED", "well-formedness", "per-request-only", "conservation-only",
                    "cap-safety"}
  BY DEF Classify
<1>2. CASE row.expected = "cap-safety"
  BY <1>1, <1>2, Gravity DEF NeverWorse
<1>3. CASE row.cls = "IssueNoDedup" /\ row.expected = "conservation-only"
  <2>1. Classify # "cap-safety"
    BY <1>3, WithinCap, SuiteTotals, ConstantsOK DEF Classify, ReplicaSuiteInv, SignedQuantity
  <2> QED
    BY <1>1, <1>3, <2>1, Gravity DEF NeverWorse
<1>4. CASE row.cls = "ChargeNoIdemp" /\ row.expected = "per-request-only"
  <2>1. Classify # "cap-safety" /\ (UniqueSoFar => Classify # "conservation-only")
    BY <1>4, WithinCap, SuiteTotals, ConstantsOK
       DEF Classify, ReplicaSuiteInv, ConservedWhileUnique, SignedQuantity
  <2> QED
    BY <1>1, <1>4, <2>1, Gravity DEF NeverWorse
<1>5. CASE row.cls = "Replica" /\ row.expected = "SURVIVED"
  <2>1. PerRequestOk
    BY <1>5 DEF ReplicaSuiteInv, ChargesCounted, CountsApplied, PerRequestOk
  <2>2. \A r \in Replicas : ~(escrow[r] < 0)
    BY <1>5 DEF ReplicaSuiteInv, NoOverdraft, Books
  <2>3. Classify \in {"SURVIVED", "conservation-only"}
    BY <1>5, <2>1, <2>2, WithinCap, SuiteTotals, ConstantsOK
       DEF Classify, ReplicaSuiteInv, SignedQuantity
  <2>4. UniqueSoFar => Classify # "conservation-only"
    BY <1>5, <2>1, <2>2, <2>3, WithinCap, SuiteTotals, ConstantsOK
       DEF Classify, ReplicaSuiteInv, ConservedWhileUnique, SignedQuantity
  <2> QED
    BY <1>5, <2>3, <2>4, Gravity DEF NeverWorse
<1> QED
  BY <1>2, <1>3, <1>4, <1>5 DEF ReplicaSuiteInv, Expectation

\* The verdicts of mutation_distributed.py are facts about its classes and not
\* about its traces: no sequence of calls, ids that name several transfers
\* included, brings out anything graver, except that budget may be lost where
\* ids are not unique.
THEOREM VerdictsAreOfClasses ==
  ASSUME SenderIdempotent, ReceiverIdempotent
  PROVE  MSpec => []NeverWorse
  BY InitReplicaSuite, NextReplicaSuite, VerdictOfClass, PTL DEF MSpec

-----------------------------------------------------------------------------
(* The verdicts of the suite.  On the file's trace only one transfer is    *)
(* debited, so its id is unique; what happened so far says that the next   *)
(* call of a class is accepted, and what it does to the budget.            *)

\* What the traces need of Cluster({"a": 2, "b": 0}, cap=2): the first replica
\* can pay for two calls, and what its four charges ask for is over the cap.
ReplicaSuiteGenesis == InitEscrow["a"] >= 2 /\ CAP < 8

\* The ids of the trace that charges more than there is.
OverdrawingIds == <<"o0", "o1", "o2", "o3">>

\* What the file's trace has done to each class.
TraceSoFar ==
  /\ row.cls = "RecvNoDedup" =>
       /\ ABOne \in asked
       /\ "t1" \in receivedTids <=> place >= 2
       /\ SignedQuantity = IF place = 3 THEN CAP + 1 ELSE CAP
  /\ row.cls = "IssueNoDedup" =>
       /\ ABOne \in asked
       /\ escrow["a"] = InitEscrow["a"] - place
       /\ SignedQuantity = CAP + 1 - place
  /\ row.cls = "ChargeNoGuard" =>
       /\ asked = {}
       /\ DOMAIN applied["a"] \subseteq {OverdrawingIds[i] : i \in 1 .. place}
       /\ TotalSpent = 2 * place
  /\ row.cls = "ChargeNoIdemp" =>
       /\ asked = {}
       /\ escrow["a"] = InitEscrow["a"] - place
       /\ "a" \in Replicas /\ "o1" \in Opids /\ chargeCount["a"]["o1"] = place

\* Inductive, with ReplicaSuiteInv.
VerdictInv ==
  /\ ReplicaSuiteInv
  /\ row \in MUTANTS \cup Controls(MUTANTS, "Replica")
  /\ place \in Int
  /\ place = 0 => Init /\ asked = {}
  /\ place >= 1 => asked \subseteq {ABOne} /\ TraceSoFar

\* The rows of the suite, one by one.
LEMMA SuiteRows ==
  ASSUME NEW x \in MUTANTS \cup Controls(MUTANTS, "Replica")
  PROVE  /\ \/ x.cls = "Replica" /\ x.expected = "SURVIVED"
            \/ /\ x.cls = "RecvNoDedup" /\ x.expected = "cap-safety"
               /\ x.trace = <<IssueCall(ABOne), DeliverCall(ABOne), DeliverCall(ABOne)>>
            \/ /\ x.cls = "IssueNoDedup" /\ x.expected = "conservation-only"
               /\ x.trace = <<IssueCall(ABOne), IssueCall(ABOne)>>
            \/ /\ x.cls = "ChargeNoGuard" /\ x.expected = "cap-safety"
               /\ x.trace = <<ChargeCall("a", 2, "o0"), ChargeCall("a", 2, "o1"),
                              ChargeCall("a", 2, "o2"), ChargeCall("a", 2, "o3")>>
            \/ /\ x.cls = "ChargeNoIdemp" /\ x.expected = "per-request-only"
               /\ x.trace = <<ChargeCall("a", 1, "o1"), ChargeCall("a", 1, "o1")>>
         /\ \/ x.trace = <<IssueCall(ABOne), DeliverCall(ABOne), DeliverCall(ABOne)>>
            \/ x.trace = <<IssueCall(ABOne), IssueCall(ABOne)>>
            \/ x.trace = <<ChargeCall("a", 2, "o0"), ChargeCall("a", 2, "o1"),
                           ChargeCall("a", 2, "o2"), ChargeCall("a", 2, "o3")>>
            \/ x.trace = <<ChargeCall("a", 1, "o1"), ChargeCall("a", 1, "o1")>>
<1>1. CASE x \in MUTANTS
  BY <1>1 DEF MUTANTS
<1>2. CASE x \in Controls(MUTANTS, "Replica")
  <2>1. PICK m \in MUTANTS : x = [cls |-> "Replica", trace |-> m.trace, expected |-> "SURVIVED"]
    BY <1>2 DEF Controls
  <2>2. x.cls = "Replica" /\ x.expected = "SURVIVED" /\ x.trace = m.trace
    BY <2>1
  <2>3. \/ m.trace = <<IssueCall(ABOne), DeliverCall(ABOne), DeliverCall(ABOne)>>
        \/ m.trace = <<IssueCall(ABOne), IssueCall(ABOne)>>
        \/ m.trace = <<ChargeCall("a", 2, "o0"), ChargeCall("a", 2, "o1"),
                       ChargeCall("a", 2, "o2"), ChargeCall("a", 2, "o3")>>
        \/ m.trace = <<ChargeCall("a", 1, "o1"), ChargeCall("a", 1, "o1")>>
    BY DEF MUTANTS
  <2> QED
    BY <2>2, <2>3
<1> QED
  BY <1>1, <1>2

\* Which call it was is read off the trace.
LEMMA CallKinds ==
  /\ \A r, amount, opid : ChargeCall(r, amount, opid).op = "charge"
  /\ \A m : IssueCall(m).op = "issue" /\ DeliverCall(m).op = "deliver" /\ DropCall(m).op = "drop"
  /\ \A m, n : (IssueCall(m) = IssueCall(n) => m = n) /\ (DeliverCall(m) = DeliverCall(n) => m = n)
<1>1. \A r, amount, opid : ChargeCall(r, amount, opid).op = "charge"
  BY DEF ChargeCall
<1>2. \A m : /\ IssueCall(m).op = "issue" /\ IssueCall(m).transfer = m
             /\ DeliverCall(m).op = "deliver" /\ DeliverCall(m).msg = m
             /\ DropCall(m).op = "drop"
  BY DEF IssueCall, DeliverCall, DropCall
<1> QED
  BY <1>1, <1>2

\* No trace asks for another transfer.
LEMMA OneTransfer ==
  ASSUME NEW x \in MUTANTS \cup Controls(MUTANTS, "Replica"), NEW i \in 1 .. Len(x.trace),
         NEW m, x.trace[i] = IssueCall(m)
  PROVE  m = ABOne
<1>1. CASE x.trace = <<IssueCall(ABOne), DeliverCall(ABOne), DeliverCall(ABOne)>>
  <2>1. i \in {1, 2, 3}
    BY <1>1
  <2> QED
    BY <1>1, <2>1, CallKinds
<1>2. CASE x.trace = <<IssueCall(ABOne), IssueCall(ABOne)>>
  <2>1. i \in {1, 2}
    BY <1>2
  <2> QED
    BY <1>2, <2>1, CallKinds
<1>3. CASE x.trace = <<ChargeCall("a", 2, "o0"), ChargeCall("a", 2, "o1"),
                       ChargeCall("a", 2, "o2"), ChargeCall("a", 2, "o3")>>
  <2>1. i \in {1, 2, 3, 4}
    BY <1>3
  <2> QED
    BY <1>3, <2>1, CallKinds
<1>4. CASE x.trace = <<ChargeCall("a", 1, "o1"), ChargeCall("a", 1, "o1")>>
  <2>1. i \in {1, 2}
    BY <1>4
  <2> QED
    BY <1>4, <2>1, CallKinds
<1> QED
  BY <1>1, <1>2, <1>3, <1>4, SuiteRows

\* A call is accepted, or refused.
Answered(accepted, Effect) ==
  (accepted /\ Effect) \/ (~accepted /\ UNCHANGED vars)

\* A sequence of calls that is still on the trace has just made its next call.
OnTheWay ==
  /\ place' = place + 1 /\ place >= 0 /\ place + 1 \in 1 .. Len(row.trace)
  /\ row' = row

LEMMA NextOnTrace ==
  ASSUME NEW record, NEW STATE accepted, NEW ACTION Effect,
         Call(record, accepted, Effect), place \in Int, place' >= 1
  PROVE  OnTheWay /\ row.trace[place + 1] = record /\ Answered(accepted, Effect)
  BY DEF Call, Advance, Off, OnTheWay, Answered

LEMMA CallOnTrace ==
  ASSUME MNext, place \in Int, place' >= 1
  PROVE  /\ OnTheWay
         /\ \/ \E r \in Replicas, amount \in Amounts : \E opid \in Presented[r] :
                 /\ row.trace[place + 1] = ChargeCall(r, amount, opid)
                 /\ Answered(AcceptsCharge(r, amount, opid), Debit(r, amount, opid))
                 /\ asked' = asked
            \/ \E m \in Transfers :
                 /\ row.trace[place + 1] = IssueCall(m)
                 /\ Answered(AcceptsIssue(m), DebitAndEmit(m))
                 /\ asked' = IF AcceptsIssue(m) THEN asked \cup {m} ELSE asked
            \/ \E m \in Transfers : /\ row.trace[place + 1] = DeliverCall(m)
                                    /\ Answered(AcceptsReceive(m), Credit(m))
                                    /\ asked' = asked
            \/ \E m \in Transfers : row.trace[place + 1] = DropCall(m) /\ asked' = asked
<1>1. ASSUME NEW r \in Replicas, NEW amount \in Amounts, NEW opid \in Presented[r],
             Call(ChargeCall(r, amount, opid), AcceptsCharge(r, amount, opid),
                  Debit(r, amount, opid))
      PROVE  /\ OnTheWay /\ row.trace[place + 1] = ChargeCall(r, amount, opid)
             /\ Answered(AcceptsCharge(r, amount, opid), Debit(r, amount, opid))
  BY <1>1, NextOnTrace
<1>2. ASSUME NEW m, Call(IssueCall(m), AcceptsIssue(m), DebitAndEmit(m))
      PROVE  /\ OnTheWay /\ row.trace[place + 1] = IssueCall(m)
             /\ Answered(AcceptsIssue(m), DebitAndEmit(m))
  BY <1>2, NextOnTrace
<1>3. ASSUME NEW m, Call(DeliverCall(m), AcceptsReceive(m), Credit(m))
      PROVE  /\ OnTheWay /\ row.trace[place + 1] = DeliverCall(m)
             /\ Answered(AcceptsReceive(m), Credit(m))
  BY <1>3, NextOnTrace
<1>4. ASSUME NEW m, Call(DropCall(m), TRUE, Drop(m))
      PROVE  OnTheWay /\ row.trace[place + 1] = DropCall(m)
  BY <1>4, NextOnTrace
<1> QED
  BY <1>1, <1>2, <1>3, <1>4 DEF MNext

LEMMA ChargeMade ==
  ASSUME MNext, place \in Int, place' >= 1, NEW r, NEW amount, NEW opid,
         place + 1 \in 1 .. Len(row.trace) => row.trace[place + 1] = ChargeCall(r, amount, opid)
  PROVE  /\ r \in Replicas /\ amount \in Amounts /\ opid \in Presented[r] /\ asked' = asked
         /\ Answered(AcceptsCharge(r, amount, opid), Debit(r, amount, opid))
<1>1. OnTheWay /\ row.trace[place + 1] = ChargeCall(r, amount, opid)
  BY CallOnTrace DEF OnTheWay
<1>2. \E r1 \in Replicas, a1 \in Amounts : \E o1 \in Presented[r1] :
        /\ row.trace[place + 1] = ChargeCall(r1, a1, o1)
        /\ Answered(AcceptsCharge(r1, a1, o1), Debit(r1, a1, o1)) /\ asked' = asked
  BY <1>1, CallOnTrace, CallKinds
<1>3. \A r1, a1, o1 : ChargeCall(r, amount, opid) = ChargeCall(r1, a1, o1)
                        => r1 = r /\ a1 = amount /\ o1 = opid
  BY DEF ChargeCall
<1> QED
  BY <1>1, <1>2, <1>3

LEMMA IssueMade ==
  ASSUME MNext, place \in Int, place' >= 1, NEW m,
         place + 1 \in 1 .. Len(row.trace) => row.trace[place + 1] = IssueCall(m)
  PROVE  /\ m \in Transfers /\ Answered(AcceptsIssue(m), DebitAndEmit(m))
         /\ asked' = IF AcceptsIssue(m) THEN asked \cup {m} ELSE asked
<1>1. OnTheWay /\ row.trace[place + 1] = IssueCall(m)
  BY CallOnTrace DEF OnTheWay
<1>2. PICK n \in Transfers : /\ row.trace[place + 1] = IssueCall(n)
                             /\ Answered(AcceptsIssue(n), DebitAndEmit(n))
                             /\ asked' = IF AcceptsIssue(n) THEN asked \cup {n} ELSE asked
  BY <1>1, CallOnTrace, CallKinds
<1>3. m = n
  BY <1>1, <1>2, CallKinds
<1> QED
  BY <1>2, <1>3

LEMMA DeliveryMade ==
  ASSUME MNext, place \in Int, place' >= 1, NEW m,
         place + 1 \in 1 .. Len(row.trace) => row.trace[place + 1] = DeliverCall(m)
  PROVE  m \in Transfers /\ Answered(AcceptsReceive(m), Credit(m)) /\ asked' = asked
<1>1. OnTheWay /\ row.trace[place + 1] = DeliverCall(m)
  BY CallOnTrace DEF OnTheWay
<1>2. PICK n \in Transfers : /\ row.trace[place + 1] = DeliverCall(n)
                             /\ Answered(AcceptsReceive(n), Credit(n)) /\ asked' = asked
  BY <1>1, CallOnTrace, CallKinds
<1>3. m = n
  BY <1>1, <1>2, CallKinds
<1> QED
  BY <1>2, <1>3

\* On the trace, one transfer at most is debited.
LEMMA AskedOnTrace ==
  ASSUME VerdictInv, MNext, place' >= 1
  PROVE  asked' \subseteq {ABOne}
<1>1. OnTheWay /\ asked \subseteq {ABOne}
  BY CallOnTrace DEF OnTheWay, VerdictInv
<1>2. \A m : row.trace[place + 1] = IssueCall(m) => m = ABOne
  BY <1>1, OneTransfer DEF OnTheWay, VerdictInv
<1>3. asked' = asked \/ \E m : row.trace[place + 1] = IssueCall(m) /\ asked' = asked \cup {m}
  BY CallOnTrace DEF VerdictInv
<1> QED
  BY <1>1, <1>2, <1>3

\* The start of every trace.
LEMMA Start ==
  ASSUME ReplicaSuiteGenesis, Init, Books
  PROVE  /\ escrow = InitEscrow /\ escrow["a"] >= 2 /\ TotalSpent = 0 /\ SignedQuantity = CAP
         /\ DOMAIN tidAmount = {} /\ receivedTids = {}
         /\ \A r \in Replicas : issued[r] = {}
         /\ chargeCount = [r \in Replicas |-> [o \in Opids |-> 0]]
         /\ \A r \in Replicas : DOMAIN applied[r] = {}
<1>1. TotalSpent = 0
  BY SumZero DEF Init, TotalSpent
<1>2. SignedQuantity = CAP
  <2>1. NatOn(escrow, Replicas) /\ IsFiniteSet(Replicas)
    BY ConstantsOK DEF Init, NatOn
  <2>2. SignedEscrow = TotalEscrow
    BY <2>1, SignedIsSum DEF SignedEscrow, TotalEscrow
  <2> QED
    BY <2>2, InitConserved DEF Conserved, Quantity, SignedQuantity
<1>3. DOMAIN tidAmount = {} /\ \A r \in Replicas : DOMAIN applied[r] = {}
  BY EmptyDictType DEF Init
<1> QED
  BY <1>1, <1>2, <1>3 DEF Init, ReplicaSuiteGenesis

\* What the verdict invariant says of a call on the trace.
LEMMA Underway ==
  ASSUME SenderIdempotent, ReceiverIdempotent, VerdictInv, MNext, place' >= 1
  PROVE  /\ OnTheWay /\ place \in Nat /\ ReplicaSuiteInv /\ ReplicaSuiteInv'
         /\ Books /\ Books' /\ AskedFor /\ UniqueSoFar
         /\ SignedTotal \in Int /\ InFlight \in Nat /\ TotalSpent \in Nat /\ CAP \in Nat
         /\ SignedQuantity = SignedTotal + InFlight
         /\ SignedQuantity' = SignedTotal' + InFlight'
<1>1. OnTheWay /\ place \in Nat
  BY CallOnTrace DEF VerdictInv, OnTheWay
<1>2. ReplicaSuiteInv /\ ReplicaSuiteInv'
  BY NextReplicaSuite DEF VerdictInv
<1>3. UniqueSoFar
  BY <1>1 DEF VerdictInv, UniqueSoFar
<1>4. Books /\ Books' /\ AskedFor
  BY <1>2 DEF ReplicaSuiteInv
<1> QED
  BY <1>1, <1>2, <1>3, <1>4, SuiteTotals, ConstantsOK DEF SignedTotal, SignedQuantity

\* The transfer of the traces, where the first replica can pay for it.
LEMMA FirstIssue ==
  ASSUME SenderIdempotent, ReceiverIdempotent, ReplicaSuiteGenesis, VerdictInv, MNext,
         place' >= 1, place = 0, row.trace[1] = IssueCall(ABOne)
  PROVE  /\ ABOne \in asked' /\ receivedTids' = {}
         /\ "a" \in Replicas /\ escrow'["a"] = InitEscrow["a"] - 1
         /\ SignedQuantity' = CAP
<1>0. ABOne.src = "a" /\ ABOne.amount = 1 /\ ABOne.tid = "t1"
  BY DEF ABOne
<1>1. /\ ABOne \in Transfers /\ Answered(AcceptsIssue(ABOne), DebitAndEmit(ABOne))
      /\ asked' = IF AcceptsIssue(ABOne) THEN asked \cup {ABOne} ELSE asked
  BY IssueMade DEF VerdictInv
<1>2. Init /\ "a" \in Replicas
  BY <1>0, <1>1, TransferType DEF VerdictInv
<1>3. AcceptsIssue(ABOne)
  <2>1. escrow["a"] \in Int /\ escrow["a"] >= 2 /\ issued["a"] = {}
    BY <1>2, Underway, Start DEF Books
  <2> QED
    BY <1>0, <2>1 DEF AcceptsIssue, MayIssue, Affordable
<1>4. Emits(ABOne) /\ ABOne \in asked'
  BY <1>1, <1>3, ClassEffects DEF Answered
<1>5. SignedTotal' = SignedTotal - 1 /\ InFlight' = InFlight + 1
  BY <1>0, <1>1, <1>2, <1>4, Underway, Start, EmitTotals
<1>6. receivedTids' = {} /\ escrow'["a"] = InitEscrow["a"] - 1
  BY <1>0, <1>2, <1>4, Underway, Start DEF Emits, Books
<1> QED
  BY <1>2, <1>4, <1>5, <1>6, Underway, Start

\* The class that credits every time: its second credit has no debit.
LEMMA RecvNoDedupStep ==
  ASSUME SenderIdempotent, ReceiverIdempotent, ReplicaSuiteGenesis, VerdictInv, MNext,
         place' >= 1, row.cls = "RecvNoDedup"
  PROVE  TraceSoFar'
<1>0. ABOne.dst = "b" /\ ABOne.amount = 1 /\ ABOne.tid = "t1"
  BY DEF ABOne
<1>1. row.trace = <<IssueCall(ABOne), DeliverCall(ABOne), DeliverCall(ABOne)>> /\ place \in Int
  BY SuiteRows DEF VerdictInv
<1>2. OnTheWay /\ place \in {0, 1, 2}
  BY <1>1, Underway DEF OnTheWay
<1>3. CASE place = 0
  <2>1. ABOne \in asked' /\ receivedTids' = {} /\ SignedQuantity' = CAP
    BY <1>1, <1>3, FirstIssue
  <2> QED
    BY <1>2, <1>3, <2>1 DEF OnTheWay, TraceSoFar
<1>4. CASE place \in {1, 2}
  <2>1. /\ ABOne \in asked /\ ("t1" \in receivedTids <=> place = 2)
        /\ SignedQuantity = CAP
    BY <1>4 DEF VerdictInv, TraceSoFar
  <2>2. row.trace[place + 1] = DeliverCall(ABOne)
    BY <1>1, <1>4
  <2>3. ABOne \in Transfers /\ Answered(AcceptsReceive(ABOne), Credit(ABOne)) /\ asked' = asked
    BY <1>1, <2>2, DeliveryMade
  <2>4. Credits(ABOne)
    BY <2>3, ClassEffects DEF Answered, AcceptsReceive
  <2>5. tidAmount["t1"] = 1
    BY <1>0, <2>1, Underway, UniqueMeaning
  <2>6. /\ SignedTotal' = SignedTotal + 1
        /\ InFlight' = IF place = 2 THEN InFlight ELSE InFlight - 1
    BY <1>0, <2>1, <2>3, <2>4, <2>5, Underway, CreditTotals
  <2>7. SignedQuantity' = IF place = 2 THEN CAP + 1 ELSE CAP
    BY <2>1, <2>6, Underway
  <2>8. "t1" \in receivedTids'
    BY <1>0, <2>4 DEF Credits, RecordReceipt
  <2> QED
    BY <1>2, <1>4, <2>1, <2>3, <2>7, <2>8 DEF OnTheWay, TraceSoFar
<1> QED
  BY <1>2, <1>3, <1>4

\* The class that debits every time: its second debit is for nothing.
LEMMA IssueNoDedupStep ==
  ASSUME SenderIdempotent, ReceiverIdempotent, ReplicaSuiteGenesis, VerdictInv, MNext,
         place' >= 1, row.cls = "IssueNoDedup"
  PROVE  TraceSoFar'
<1>0. ABOne.src = "a" /\ ABOne.amount = 1 /\ ABOne.tid = "t1"
  BY DEF ABOne
<1>1. row.trace = <<IssueCall(ABOne), IssueCall(ABOne)>> /\ place \in Int
  BY SuiteRows DEF VerdictInv
<1>2. OnTheWay /\ place \in {0, 1}
  BY <1>1, Underway DEF OnTheWay
<1>3. CASE place = 0
  <2>1. /\ ABOne \in asked' /\ escrow'["a"] = InitEscrow["a"] - 1
        /\ SignedQuantity' = CAP
    BY <1>1, <1>3, FirstIssue
  <2> QED
    BY <1>2, <1>3, <2>1, Underway DEF OnTheWay, TraceSoFar
<1>4. CASE place = 1
  <2>1. ABOne \in asked /\ escrow["a"] = InitEscrow["a"] - 1 /\ SignedQuantity = CAP
    BY <1>4, Underway DEF VerdictInv, TraceSoFar
  <2>2. row.trace[place + 1] = IssueCall(ABOne)
    BY <1>1, <1>4
  <2>3. /\ ABOne \in Transfers /\ Answered(AcceptsIssue(ABOne), DebitAndEmit(ABOne))
        /\ asked' = IF AcceptsIssue(ABOne) THEN asked \cup {ABOne} ELSE asked
    BY <1>1, <2>2, IssueMade
  <2>4. "a" \in Replicas /\ InitEscrow["a"] \in Nat /\ InitEscrow["a"] >= 2
    BY <1>0, <2>3, TransferType, ConstantsOK DEF ReplicaSuiteGenesis
  <2>5. AcceptsIssue(ABOne)
    BY <1>0, <2>1, <2>4 DEF AcceptsIssue, Affordable
  <2>6. Emits(ABOne) /\ ABOne \in asked'
    BY <2>1, <2>3, <2>5, ClassEffects DEF Answered
  <2>7. "t1" \in DOMAIN tidAmount
    BY <1>0, <2>1, Underway DEF AskedFor
  <2>8. SignedTotal' = SignedTotal - 1 /\ InFlight' = InFlight
    BY <1>0, <2>3, <2>6, <2>7, Underway, EmitTotals
  <2>9. SignedQuantity' = CAP - 1 /\ escrow'["a"] = InitEscrow["a"] - 2
    BY <1>0, <2>1, <2>4, <2>6, <2>8, Underway DEF Emits, Books
  <2> QED
    BY <1>2, <1>4, <2>6, <2>9, Underway DEF OnTheWay, TraceSoFar
<1> QED
  BY <1>2, <1>3, <1>4

\* The class without the guard authorises two at every call of the trace.
LEMMA ChargeNoGuardStep ==
  ASSUME SenderIdempotent, ReceiverIdempotent, ReplicaSuiteGenesis, VerdictInv, MNext,
         place' >= 1, row.cls = "ChargeNoGuard"
  PROVE  TraceSoFar'
<1>1. /\ row.trace = <<ChargeCall("a", 2, "o0"), ChargeCall("a", 2, "o1"),
                       ChargeCall("a", 2, "o2"), ChargeCall("a", 2, "o3")>>
      /\ place \in Int
  BY SuiteRows DEF VerdictInv
<1>2. OnTheWay /\ place \in {0, 1, 2, 3}
  BY <1>1, Underway DEF OnTheWay
<1> DEFINE next == OverdrawingIds[place + 1]
<1>3. row.trace[place + 1] = ChargeCall("a", 2, next)
  BY <1>1, <1>2 DEF OverdrawingIds
<1>4. next \notin {OverdrawingIds[i] : i \in 1 .. place}
  BY <1>2 DEF OverdrawingIds
<1>5. {OverdrawingIds[i] : i \in 1 .. place} \cup {next}
        = {OverdrawingIds[i] : i \in 1 .. place + 1}
  BY <1>2
<1> HIDE DEF next
<1>6. /\ "a" \in Replicas /\ 2 \in Amounts /\ next \in Presented["a"] /\ asked' = asked
      /\ Answered(AcceptsCharge("a", 2, next), Debit("a", 2, next))
  BY <1>1, <1>3, ChargeMade
<1>7. /\ asked = {} /\ TotalSpent = 2 * place
      /\ DOMAIN applied["a"] \subseteq {OverdrawingIds[i] : i \in 1 .. place}
  <2>1. CASE place = 0
    BY <1>6, <2>1, Underway, Start DEF VerdictInv
  <2>2. CASE place >= 1
    BY <2>2 DEF VerdictInv, TraceSoFar
  <2> QED
    BY <1>2, <2>1, <2>2
<1>8. Charges("a", 2, next)
  BY <1>4, <1>6, <1>7, ClassEffects DEF Answered, AcceptsCharge, NotApplied
<1>9. TotalSpent' = 2 * (place + 1)
  BY <1>2, <1>6, <1>7, <1>8, Underway, ChargeTotals
<1>10. DOMAIN applied'["a"] \subseteq {OverdrawingIds[i] : i \in 1 .. place + 1}
  <2>1. DOMAIN applied = Replicas
    BY Underway DEF ReplicaSuiteInv, ChargesCounted
  <2>2. DOMAIN applied'["a"] = DOMAIN applied["a"] \cup {next}
    BY <1>6, <1>8, <2>1 DEF Charges, Debit, Put
  <2> QED
    BY <1>5, <1>7, <2>2
<1> QED
  BY <1>2, <1>6, <1>7, <1>9, <1>10 DEF OnTheWay, TraceSoFar

\* The class that debits a charge id every time: the count of the id follows
\* the trace.
LEMMA ChargeNoIdempStep ==
  ASSUME SenderIdempotent, ReceiverIdempotent, ReplicaSuiteGenesis, VerdictInv, MNext,
         place' >= 1, row.cls = "ChargeNoIdemp"
  PROVE  TraceSoFar'
<1>1. row.trace = <<ChargeCall("a", 1, "o1"), ChargeCall("a", 1, "o1")>> /\ place \in Int
  BY SuiteRows DEF VerdictInv
<1>2. OnTheWay /\ place \in {0, 1}
  BY <1>1, Underway DEF OnTheWay
<1>3. row.trace[place + 1] = ChargeCall("a", 1, "o1")
  BY <1>1, <1>2
<1>4. /\ "a" \in Replicas /\ "o1" \in Opids /\ asked' = asked
      /\ Answered(AcceptsCharge("a", 1, "o1"), Debit("a", 1, "o1"))
  BY <1>1, <1>3, ChargeMade, ConstantsOK
<1>5. /\ InitEscrow["a"] \in Nat /\ InitEscrow["a"] >= 2
      /\ asked = {} /\ escrow["a"] = InitEscrow["a"] - place
      /\ chargeCount["a"]["o1"] = place
  <2>1. CASE place = 0
    BY <1>4, <2>1, Underway, Start, ConstantsOK DEF VerdictInv, ReplicaSuiteGenesis
  <2>2. CASE place >= 1
    BY <1>4, <2>2, ConstantsOK DEF VerdictInv, TraceSoFar, ReplicaSuiteGenesis
  <2> QED
    BY <1>2, <2>1, <2>2
<1>6. Debit("a", 1, "o1")
  BY <1>2, <1>4, <1>5 DEF Answered, AcceptsCharge, Affordable
<1>7. escrow'["a"] = InitEscrow["a"] - place - 1
  BY <1>2, <1>4, <1>5, <1>6, Underway DEF Debit, Books
<1>8. chargeCount'["a"]["o1"] = place + 1
  <2>1. chargeCount \in [Replicas -> [Opids -> Nat]]
    BY Underway DEF ReplicaSuiteInv, ChargesCounted
  <2> QED
    BY <1>4, <1>5, <1>6, <2>1 DEF Debit
<1> QED
  BY <1>2, <1>4, <1>5, <1>7, <1>8 DEF OnTheWay, TraceSoFar

\* Every row starts with the state of the constructor.
LEMMA InitVerdictInv == MInit => VerdictInv
  BY InitReplicaSuite DEF MInit, VerdictInv

\* Every call keeps what the traces have done so far.
LEMMA NextVerdictInv ==
  ASSUME SenderIdempotent, ReceiverIdempotent, ReplicaSuiteGenesis
  PROVE  VerdictInv /\ [MNext]_mvars => VerdictInv'
<1> SUFFICES ASSUME VerdictInv, [MNext]_mvars PROVE VerdictInv'
  OBVIOUS
<1>0. ReplicaSuiteInv'
  BY NextReplicaSuite DEF VerdictInv
<1>1. CASE MNext
  <2>1. row' = row /\ place' \in Int /\ place' # 0
    BY <1>1 DEF MNext, Call, Advance, Off, VerdictInv
  <2>2. ASSUME place' >= 1 PROVE TraceSoFar'
    <3>1. CASE row.cls = "Replica"
      BY <2>1, <3>1 DEF TraceSoFar
    <3>2. CASE row.cls # "Replica"
      <4>1. row.cls \in {"RecvNoDedup", "IssueNoDedup", "ChargeNoGuard", "ChargeNoIdemp"}
        BY <3>2, SuiteRows DEF VerdictInv
      <4> QED
        BY <1>1, <2>2, <4>1, RecvNoDedupStep, IssueNoDedupStep, ChargeNoGuardStep,
           ChargeNoIdempStep
    <3> QED
      BY <3>1, <3>2
  <2>3. place' >= 1 => asked' \subseteq {ABOne}
    BY <1>1, AskedOnTrace
  <2> QED
    BY <1>0, <2>1, <2>2, <2>3 DEF VerdictInv
<1>2. CASE UNCHANGED mvars
  <2>1. UNCHANGED <<escrow, spent, applied, chargeCount, issued, recvd, net, tidAmount,
                    receivedTids, row, place, asked>>
    BY <1>2 DEF mvars, vars
  <2>2. (Init <=> Init') /\ (TraceSoFar <=> TraceSoFar')
    BY <2>1 DEF Init, TraceSoFar, SignedQuantity, SignedEscrow, TotalSpent, InFlight, InTransit
  <2> QED
    BY <1>0, <2>1, <2>2 DEF VerdictInv
<1> QED
  BY <1>1, <1>2

\* At the end of its trace a class has the verdict the file expects.
LEMMA VerdictOfTrace ==
  ASSUME ReplicaSuiteGenesis, VerdictInv, place = Len(row.trace)
  PROVE  Classify = row.expected
<1>0. /\ ReplicaSuiteInv /\ Books /\ CAP \in Nat /\ TotalSpent \in Nat
      /\ SignedEscrow \in Int /\ InFlight \in Nat /\ SignedQuantity \in Int
  BY SuiteTotals, ConstantsOK DEF VerdictInv, ReplicaSuiteInv, SignedQuantity
<1>1. CASE row.cls = "RecvNoDedup"
  <2>1. /\ row.trace = <<IssueCall(ABOne), DeliverCall(ABOne), DeliverCall(ABOne)>>
        /\ row.expected = "cap-safety"
    BY <1>1, SuiteRows DEF VerdictInv
  <2>2. place = 3
    BY <2>1
  <2>3. SignedQuantity = CAP + 1
    BY <1>1, <2>2 DEF VerdictInv, TraceSoFar
  <2> QED
    BY <1>0, <2>1, <2>3 DEF Classify
<1>2. CASE row.cls = "IssueNoDedup"
  <2>1. row.trace = <<IssueCall(ABOne), IssueCall(ABOne)>> /\ row.expected = "conservation-only"
    BY <1>2, SuiteRows DEF VerdictInv
  <2>2. place = 2
    BY <2>1
  <2>3. SignedQuantity = CAP - 1
    BY <1>0, <1>2, <2>2 DEF VerdictInv, TraceSoFar
  <2>4. TotalSpent <= CAP
    BY <1>0, <1>2, WithinCap
  <2> QED
    BY <1>0, <2>1, <2>3, <2>4 DEF Classify
<1>3. CASE row.cls = "ChargeNoGuard"
  <2>1. /\ row.trace = <<ChargeCall("a", 2, "o0"), ChargeCall("a", 2, "o1"),
                         ChargeCall("a", 2, "o2"), ChargeCall("a", 2, "o3")>>
        /\ row.expected = "cap-safety"
    BY <1>3, SuiteRows DEF VerdictInv
  <2>2. place = 4
    BY <2>1
  <2>3. TotalSpent = 8
    BY <1>3, <2>2 DEF VerdictInv, TraceSoFar
  <2> QED
    BY <1>0, <2>1, <2>3 DEF Classify, ReplicaSuiteGenesis
<1>4. CASE row.cls \in {"ChargeNoIdemp", "Replica"}
  <2>1. UniqueSoFar
    <3>1. place = 0 \/ place >= 1
      <4>1. CASE row.cls = "ChargeNoIdemp"
        <5>1. row.trace = <<ChargeCall("a", 1, "o1"), ChargeCall("a", 1, "o1")>>
          BY <4>1, SuiteRows DEF VerdictInv
        <5> QED
          BY <5>1
      <4>2. CASE row.cls = "Replica"
        BY SuiteRows DEF VerdictInv
      <4> QED
        BY <1>4, <4>1, <4>2
    <3> QED
      BY <3>1 DEF VerdictInv, UniqueSoFar
  <2>2. SignedQuantity = CAP
    BY <1>0, <1>4, <2>1 DEF ReplicaSuiteInv, ConservedWhileUnique
  <2>3. TotalSpent <= CAP
    BY <1>0, <1>4, WithinCap
  <2>4. CASE row.cls = "ChargeNoIdemp"
    <3>1. /\ row.trace = <<ChargeCall("a", 1, "o1"), ChargeCall("a", 1, "o1")>>
          /\ row.expected = "per-request-only"
      BY <2>4, SuiteRows DEF VerdictInv
    <3>2. place = 2
      BY <3>1
    <3>3. "a" \in Replicas /\ "o1" \in Opids /\ chargeCount["a"]["o1"] = 2
      BY <2>4, <3>2 DEF VerdictInv, TraceSoFar
    <3>4. ~PerRequestOk
      BY <3>3 DEF PerRequestOk
    <3> QED
      BY <1>0, <2>2, <2>3, <3>1, <3>4 DEF Classify
  <2>5. CASE row.cls = "Replica"
    <3>1. row.expected = "SURVIVED"
      BY <2>5, SuiteRows DEF VerdictInv
    <3>2. PerRequestOk
      <4>1. CountsApplied
        BY <1>0, <2>5 DEF ReplicaSuiteInv, ChargesCounted
      <4> QED
        BY <4>1 DEF CountsApplied, PerRequestOk
    <3>3. \A r \in Replicas : ~(escrow[r] < 0)
      BY <1>0, <2>5 DEF ReplicaSuiteInv, NoOverdraft, Books
    <3> QED
      BY <1>0, <2>2, <2>3, <3>1, <3>2, <3>3 DEF Classify
  <2> QED
    BY <1>4, <2>4, <2>5
<1> QED
  BY <1>1, <1>2, <1>3, <1>4, SuiteRows DEF VerdictInv

\* On the file's traces every damaged replica shows the damage the file says
\* and the undamaged one survives: for every cap below eight, whatever other
\* replicas, ids, amounts and transfers there are, and whatever other calls
\* were made of clusters that left the trace.
THEOREM ReplicaSuiteVerdict ==
  ASSUME SenderIdempotent, ReceiverIdempotent, ReplicaSuiteGenesis
  PROVE  MSpec => []SuiteVerdict
<1>1. VerdictInv => SuiteVerdict
  BY VerdictOfTrace DEF SuiteVerdict
<1> QED
  BY <1>1, InitVerdictInv, NextVerdictInv, PTL DEF MSpec
=============================================================================
