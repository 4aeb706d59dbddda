------------------------- MODULE EscrowServiceProofs ------------------------
(***************************************************************************)
(* The strict check of the reference service never raises, for every       *)
(* finite set of replicas, every set of ids and amounts and every cap.     *)
(*                                                                         *)
(* Quantity = CAP is not inductive: a delivery credits what the message    *)
(* says and takes out of flight what the dictionary sent says, so every    *)
(* message that can still arrive must agree with sent (MessagesBacked).    *)
(*                                                                         *)
(* The last parts are about the damaged services of the mutation suite:    *)
(* what the strict check lets pass on any sequence of calls, and what      *)
(* kills each class on its trace.                                          *)
(***************************************************************************)
EXTENDS ReferenceMutants, SumsProofs

\* TypeOK, finite dictionaries, and messages that agree with sent.
TypeInv == TypeOK /\ IsFiniteSet(DOMAIN applied) /\ MessagesBacked

\* The balances alone.
Balances == escrow \in [Replicas -> Nat] /\ spent \in [Replicas -> Nat]

\* What the strict check and the audit of requests rest on.
ServiceInv ==
  /\ TypeInv
  /\ Quantity = CAP
  /\ SpentIsAuthorised

-----------------------------------------------------------------------------
(* Types, and what the network carries.                                    *)

\* The constructor builds a state of the right type with an empty network.
LEMMA InitTypeInv == Init => TypeInv
  BY ConstantsOK, EmptyDictType DEF Init, TypeInv, TypeOK, MessagesBacked

\* A debit within the escrow keeps the types, for a known charge id too.
LEMMA DebitTypeInv ==
  ASSUME TypeInv, NEW r \in Replicas, NEW amount \in Amounts, NEW opid \in Opids,
         Affordable(r, amount), Debit(r, amount, opid)
  PROVE  TypeInv'
<1> USE ConstantsOK
<1>1. amount \in Nat /\ applied' = Put(applied, opid, amount)
  BY DEF Debit
<1>2. DOMAIN applied' = DOMAIN applied \cup {opid} /\ IsFiniteSet(DOMAIN applied')
  BY <1>1, PutEntry DEF TypeInv
<1>3. applied' \in [DOMAIN applied' -> Amounts]
  BY <1>1, <1>2 DEF Put, TypeInv, TypeOK
<1> QED
  BY <1>1, <1>2, <1>3 DEF Debit, Affordable, TypeInv, TypeOK, MessagesBacked

\* Every operation keeps the types, none debits more than the escrow, and a
\* message is put on the network together with its entry in sent.
LEMMA NextTypeInv == TypeInv /\ [Next]_vars => TypeInv'
<1> SUFFICES ASSUME TypeInv, [Next]_vars PROVE TypeInv'
  OBVIOUS
<1> USE ConstantsOK
<1>1. ASSUME NEW r \in Replicas, NEW amount \in Amounts, NEW opid \in Opids,
             Charge(r, amount, opid)
      PROVE  TypeInv'
  BY <1>1, DebitTypeInv DEF Charge
<1>2. ASSUME NEW src \in Replicas, NEW dst \in Replicas, NEW amount \in Amounts,
             NEW tid \in Tids, SendTransfer(src, dst, amount, tid)
      PROVE  TypeInv'
  <2> DEFINE entry == [dst |-> dst, amount |-> amount]
             msg   == [dst |-> dst, amount |-> amount, tid |-> tid]
  <2>1. /\ amount \in Nat /\ tid \notin DOMAIN sent
        /\ sent' = Put(sent, tid, entry) /\ net' = net \cup {msg}
    BY <1>2 DEF SendTransfer, Emit, NotSent
  <2>2. DOMAIN sent' = DOMAIN sent \cup {tid} /\ IsFiniteSet(DOMAIN sent')
    BY <2>1, PutEntry DEF TypeInv, TypeOK
  <2>3. sent'[tid] = entry /\ \A t \in DOMAIN sent : sent'[t] = sent[t]
    BY <2>1 DEF Put
  <2>4. sent' \in [DOMAIN sent' -> [dst : Replicas, amount : Amounts]]
    BY <2>1, <2>2 DEF Put, TypeInv, TypeOK
  <2>5. MessagesBacked'
    <3>1. /\ msg.tid \in DOMAIN sent'
          /\ sent'[msg.tid] = [dst |-> msg.dst, amount |-> msg.amount]
      BY <2>2, <2>3
    <3>2. \A m \in net : /\ m.tid \in DOMAIN sent'
                         /\ sent'[m.tid] = [dst |-> m.dst, amount |-> m.amount]
      BY <2>2, <2>3 DEF TypeInv, MessagesBacked
    <3> QED
      BY <2>1, <3>1, <3>2 DEF MessagesBacked
  <2>6. net' \subseteq Messages
    BY <2>1 DEF Messages, TypeInv, TypeOK
  <2>7. escrow' \in [Replicas -> Nat]
    BY <1>2, <2>1 DEF SendTransfer, Emit, Affordable, TypeInv, TypeOK
  <2> QED
    BY <1>2, <2>2, <2>4, <2>5, <2>6, <2>7 DEF SendTransfer, Emit, TypeInv, TypeOK
<1>3. ASSUME NEW m \in net, Deliver(m)
      PROVE  TypeInv'
  <2>1. m.dst \in Replicas /\ m.amount \in Nat /\ m.tid \in DOMAIN sent
    BY DEF TypeInv, TypeOK, Messages, MessagesBacked
  <2> QED
    BY <1>3, <2>1 DEF Deliver, Credit, TypeInv, TypeOK, MessagesBacked
<1>4. ASSUME NEW m \in net, Drop(m)
      PROVE  TypeInv'
  BY <1>4 DEF Drop, TypeInv, TypeOK, MessagesBacked
<1>5. CASE UNCHANGED vars
  BY <1>5 DEF vars, TypeInv, TypeOK, MessagesBacked
<1> QED
  BY <1>1, <1>2, <1>3, <1>4, <1>5 DEF Next

-----------------------------------------------------------------------------
(* The conserved quantity.                                                 *)

\* The totals are totals of natural numbers over finite sets.
LEMMA TotalsType ==
  ASSUME TypeInv
  PROVE  /\ IsFiniteSet(InTransit) /\ InTransit \in SUBSET DOMAIN sent
         /\ Owed \in [DOMAIN sent -> Nat] /\ NatOn(Owed, InTransit)
         /\ NatOn(applied, DOMAIN applied)
         /\ TotalEscrow \in Nat /\ TotalSpent \in Nat /\ InFlight \in Nat
<1>1. InTransit \in SUBSET DOMAIN sent /\ IsFiniteSet(DOMAIN sent)
  BY DEF InTransit, TypeInv, TypeOK
<1>2. Owed \in [DOMAIN sent -> Nat]
  BY ConstantsOK DEF Owed, TypeInv, TypeOK
<1>3. IsFiniteSet(InTransit) /\ NatOn(Owed, InTransit)
  BY <1>1, <1>2, FS_Subset DEF NatOn
<1>4. /\ NatOn(escrow, Replicas) /\ NatOn(spent, Replicas)
      /\ NatOn(applied, DOMAIN applied)
  BY ConstantsOK DEF TypeInv, TypeOK, NatOn
<1> QED
  BY <1>1, <1>2, <1>3, <1>4, ConstantsOK, SumType
     DEF TotalEscrow, TotalSpent, InFlight

\* A step that changes the escrow, or the spent, of one replica changes the
\* total by that difference.
LEMMA UpdateTotals ==
  ASSUME Balances, Balances', NEW r \in Replicas
  PROVE  /\ (\A s \in Replicas \ {r} : escrow'[s] = escrow[s]) =>
              TotalEscrow' = TotalEscrow - escrow[r] + escrow'[r]
         /\ (\A s \in Replicas \ {r} : spent'[s] = spent[s]) =>
              TotalSpent' = TotalSpent - spent[r] + spent'[r]
<1>1. IsFiniteSet(Replicas)
  BY ConstantsOK
<1>2. /\ NatOn(escrow, Replicas) /\ NatOn(escrow', Replicas)
      /\ NatOn(spent, Replicas) /\ NatOn(spent', Replicas)
  BY DEF Balances, NatOn
<1>3. ASSUME \A s \in Replicas \ {r} : escrow'[s] = escrow[s]
      PROVE  TotalEscrow' = TotalEscrow - escrow[r] + escrow'[r]
  BY <1>1, <1>2, <1>3, SumUpdate DEF TotalEscrow
<1>4. ASSUME \A s \in Replicas \ {r} : spent'[s] = spent[s]
      PROVE  TotalSpent' = TotalSpent - spent[r] + spent'[r]
  BY <1>1, <1>2, <1>4, SumUpdate DEF TotalSpent
<1> QED
  BY <1>3, <1>4

\* A debit within the escrow moves budget from escrow to spent.
LEMMA DebitQuantity ==
  ASSUME TypeInv, NEW r \in Replicas, NEW amount \in Amounts, NEW opid \in Opids,
         Affordable(r, amount), Debit(r, amount, opid)
  PROVE  Quantity' = Quantity /\ TotalSpent' = TotalSpent + amount
<1>1. /\ amount \in Nat /\ escrow[r] \in Nat /\ spent[r] \in Nat
      /\ escrow'[r] = escrow[r] - amount /\ spent'[r] = spent[r] + amount
      /\ \A s \in Replicas \ {r} : escrow'[s] = escrow[s] /\ spent'[s] = spent[s]
  BY ConstantsOK DEF Debit, TypeInv, TypeOK
<1>2. Balances /\ Balances'
  BY DebitTypeInv DEF Balances, TypeInv, TypeOK
<1>3. TotalEscrow' = TotalEscrow - amount
  BY <1>1, <1>2, UpdateTotals, TotalsType
<1>4. TotalSpent' = TotalSpent + amount
  BY <1>1, <1>2, UpdateTotals, TotalsType
<1>5. InFlight' = InFlight
  BY DEF Debit, InFlight, InTransit, Owed
<1> QED
  BY <1>1, <1>3, <1>4, <1>5, TotalsType DEF Quantity

\* charge records what it spends, once.
LEMMA ChargeAuthorised ==
  ASSUME ServiceInv, NEW r \in Replicas, NEW amount \in Amounts,
         NEW opid \in Opids, Charge(r, amount, opid)
  PROVE  SpentIsAuthorised'
<1>1. amount \in Nat /\ TotalSpent' = TotalSpent + amount
  BY ConstantsOK, DebitQuantity DEF Charge, ServiceInv
<1>2. opid \notin DOMAIN applied /\ applied' = Put(applied, opid, amount)
  BY DEF Charge, Debit, NotApplied
<1>3. IsFiniteSet(DOMAIN applied) /\ applied \in [DOMAIN applied -> Nat]
  BY ConstantsOK DEF ServiceInv, TypeInv, TypeOK
<1>4. SumOver(Put(applied, opid, amount), DOMAIN applied \cup {opid})
        = SumOver(applied, DOMAIN applied) + amount
  BY <1>1, <1>2, <1>3, SumPut
<1>5. DOMAIN applied' = DOMAIN applied \cup {opid}
  BY <1>2 DEF Put
<1> QED
  BY <1>1, <1>2, <1>4, <1>5 DEF SpentIsAuthorised, ServiceInv

\* send_transfer moves budget from escrow into flight.
LEMMA SendTransferQuantity ==
  ASSUME TypeInv, TypeInv', NEW src \in Replicas, NEW dst \in Replicas,
         NEW amount \in Amounts, NEW tid \in Tids, SendTransfer(src, dst, amount, tid)
  PROVE  Quantity' = Quantity
<1>1. /\ amount \in Nat /\ escrow[src] \in Nat
      /\ escrow'[src] = escrow[src] - amount
      /\ \A s \in Replicas \ {src} : escrow'[s] = escrow[s]
  BY ConstantsOK DEF SendTransfer, Emit, TypeInv, TypeOK
<1>2. TotalEscrow' = TotalEscrow - amount
  <2>1. Balances /\ Balances'
    BY DEF Balances, TypeInv, TypeOK
  <2> QED
    BY <1>1, <2>1, UpdateTotals, TotalsType
<1>3. TotalSpent' = TotalSpent
  BY DEF SendTransfer, Emit, TotalSpent
<1>4. /\ tid \notin DOMAIN sent /\ recvd' = recvd
      /\ sent' = Put(sent, tid, [dst |-> dst, amount |-> amount])
  BY DEF SendTransfer, Emit, NotSent
<1>5. Owed' = Put(Owed, tid, amount)
  BY <1>4 DEF Owed, Put
<1>6. InTransit' = InTransit \cup {tid}
  <2>1. DOMAIN sent' = DOMAIN sent \cup {tid}
    BY <1>4 DEF Put
  <2>2. tid \notin recvd
    BY <1>4 DEF TypeInv, TypeOK
  <2> QED
    BY <1>4, <2>1, <2>2 DEF InTransit
<1>7. InFlight' = InFlight + amount
  <2>1. /\ Owed \in [DOMAIN Owed -> Nat] /\ DOMAIN Owed = DOMAIN sent
        /\ InTransit \in SUBSET DOMAIN Owed /\ IsFiniteSet(InTransit)
    BY TotalsType
  <2>2. SumOver(Put(Owed, tid, amount), InTransit \cup {tid})
          = SumOver(Owed, InTransit) + amount
    BY <1>1, <1>4, <2>1, SumPut
  <2> QED
    BY <1>5, <1>6, <2>2 DEF InFlight
<1> QED
  BY <1>1, <1>2, <1>3, <1>7, TotalsType DEF Quantity

\* deliver moves exactly what was debited from flight to the receiver.
LEMMA DeliverQuantity ==
  ASSUME TypeInv, TypeInv', NEW m \in net, Deliver(m)
  PROVE  Quantity' = Quantity
<1>1. /\ m.dst \in Replicas /\ m.amount \in Nat /\ escrow[m.dst] \in Nat
      /\ m.tid \in DOMAIN sent /\ sent[m.tid].amount = m.amount
  <2>1. m.dst \in Replicas /\ m.amount \in Nat
    BY ConstantsOK DEF TypeInv, TypeOK, Messages
  <2>2. m.tid \in DOMAIN sent /\ sent[m.tid] = [dst |-> m.dst, amount |-> m.amount]
    BY DEF TypeInv, MessagesBacked
  <2> QED
    BY <2>1, <2>2 DEF TypeInv, TypeOK
<1>2. /\ escrow'[m.dst] = escrow[m.dst] + m.amount
      /\ \A s \in Replicas \ {m.dst} : escrow'[s] = escrow[s]
  BY <1>1 DEF Deliver, Credit, TypeInv, TypeOK
<1>3. TotalEscrow' = TotalEscrow + m.amount
  <2>1. Balances /\ Balances'
    BY DEF Balances, TypeInv, TypeOK
  <2> QED
    BY <1>1, <1>2, <2>1, UpdateTotals, TotalsType
<1>4. TotalSpent' = TotalSpent
  BY DEF Deliver, Credit, TotalSpent
<1>5. m.tid \in InTransit /\ Owed[m.tid] = m.amount
  BY <1>1 DEF Deliver, Credit, NotReceived, InTransit, Owed
<1>6. InTransit' = InTransit \ {m.tid} /\ Owed' = Owed
  BY DEF Deliver, Credit, InTransit, Owed
<1>7. InFlight = InFlight' + m.amount
  <2>1. SumOver(Owed, InTransit) = SumOver(Owed, InTransit \ {m.tid}) + Owed[m.tid]
    BY <1>5, SumRemove, TotalsType
  <2> QED
    BY <1>5, <1>6, <2>1 DEF InFlight
<1>8. InFlight' \in Nat
  <2>1. IsFiniteSet(InTransit \ {m.tid}) /\ NatOn(Owed, InTransit \ {m.tid})
    BY FS_RemoveElement, TotalsType DEF NatOn
  <2> QED
    BY <1>6, <2>1, SumType DEF InFlight
<1> QED
  BY <1>1, <1>3, <1>4, <1>7, <1>8, TotalsType DEF Quantity

\* No operation changes the quantity; a drop takes a message away and leaves
\* its entry in sent, so its amount stays in flight.
LEMMA NextQuantity == TypeInv /\ [Next]_vars => Quantity' = Quantity
<1> SUFFICES ASSUME TypeInv, [Next]_vars PROVE Quantity' = Quantity
  OBVIOUS
<1>0. TypeInv'
  BY NextTypeInv
<1>1. ASSUME NEW r \in Replicas, NEW amount \in Amounts, NEW opid \in Opids,
             Charge(r, amount, opid)
      PROVE  Quantity' = Quantity
  BY <1>1, DebitQuantity DEF Charge
<1>2. ASSUME NEW src \in Replicas, NEW dst \in Replicas, NEW amount \in Amounts,
             NEW tid \in Tids, SendTransfer(src, dst, amount, tid)
      PROVE  Quantity' = Quantity
  BY <1>0, <1>2, SendTransferQuantity
<1>3. ASSUME NEW m \in net, Deliver(m)
      PROVE  Quantity' = Quantity
  BY <1>0, <1>3, DeliverQuantity
<1>4. CASE UNCHANGED <<escrow, spent, sent, recvd>>
  BY <1>4 DEF Quantity, TotalEscrow, TotalSpent, InFlight, InTransit, Owed
<1> QED
  BY <1>1, <1>2, <1>3, <1>4 DEF Next, Drop, vars

-----------------------------------------------------------------------------
(* The inductive invariant.                                                *)

\* Genesis holds the whole cap and nothing was asked for.
LEMMA InitServiceInv == Init => ServiceInv
<1> SUFFICES ASSUME Init PROVE ServiceInv
  OBVIOUS
<1>1. TypeInv
  BY InitTypeInv
<1>2. DOMAIN applied = {} /\ DOMAIN sent = {}
  BY EmptyDictType DEF Init
<1>3. TotalSpent = 0 /\ InFlight = 0 /\ SumOver(applied, DOMAIN applied) = 0
  <2>1. \A r \in Replicas : spent[r] = 0
    BY DEF Init
  <2>2. InTransit = {}
    BY <1>2 DEF InTransit
  <2> QED
    BY <1>2, <2>1, <2>2, SumZero, SumEmpty DEF TotalSpent, InFlight
<1>4. TotalEscrow = CAP
  <2>1. IsFiniteSet(Replicas) /\ Genesis \in Replicas /\ NatOn(escrow, Replicas)
    BY <1>1, ConstantsOK DEF TypeInv, TypeOK, NatOn
  <2>2. SumOver(escrow, Replicas) = SumOver(escrow, Replicas \ {Genesis}) + escrow[Genesis]
    BY <2>1, SumRemove
  <2>3. escrow[Genesis] = CAP /\ \A r \in Replicas \ {Genesis} : escrow[r] = 0
    BY <2>1 DEF Init
  <2>4. SumOver(escrow, Replicas \ {Genesis}) = 0
    BY <2>3, SumZero
  <2> QED
    BY <2>2, <2>3, <2>4, ConstantsOK DEF TotalEscrow
<1> QED
  BY <1>1, <1>3, <1>4, ConstantsOK DEF ServiceInv, Quantity, SpentIsAuthorised

\* Every operation keeps the invariant; only charge spends.
LEMMA NextServiceInv == ServiceInv /\ [Next]_vars => ServiceInv'
<1> SUFFICES ASSUME ServiceInv, [Next]_vars PROVE SpentIsAuthorised'
  BY NextTypeInv, NextQuantity DEF ServiceInv
<1>1. ASSUME NEW r \in Replicas, NEW amount \in Amounts, NEW opid \in Opids,
             Charge(r, amount, opid)
      PROVE  SpentIsAuthorised'
  BY <1>1, ChargeAuthorised
<1>2. CASE UNCHANGED <<spent, applied>>
  BY <1>2 DEF ServiceInv, SpentIsAuthorised, TotalSpent
<1> QED
  BY <1>1, <1>2 DEF Next, SendTransfer, Emit, Deliver, Credit, Drop, vars

\* The invariant of the reference service.
LEMMA ServiceInvariance == Spec => []ServiceInv
  BY InitServiceInv, NextServiceInv, PTL DEF Spec

-----------------------------------------------------------------------------
(* The theorems.                                                           *)

\* No balance of the reference service is ever negative (the last two tests
\* of _check).
THEOREM ServiceTypeCorrect == Spec => []TypeOK
<1>1. ServiceInv => TypeOK
  BY DEF ServiceInv, TypeInv
<1> QED
  BY <1>1, ServiceInvariance, PTL

\* The strict check of the reference service never raises: after every
\* operation the budget adds up to the cap and the spent is within it.
THEOREM StrictCheckPasses == Spec => []CheckPasses
<1>1. ServiceInv => CheckPasses
  <2> SUFFICES ASSUME ServiceInv PROVE TotalSpent <= CAP
    BY DEF ServiceInv, CheckPasses
  <2>1. TotalSpent \in Nat /\ TotalEscrow \in Nat /\ InFlight \in Nat /\ CAP \in Nat
    BY TotalsType, ConstantsOK DEF ServiceInv
  <2> QED
    BY <2>1 DEF ServiceInv, Quantity
<1> QED
  BY <1>1, ServiceInvariance, PTL

\* What is spent is what was authorised, each charge id once.
THEOREM SpentWasAuthorised == Spec => []SpentIsAuthorised
<1>1. ServiceInv => SpentIsAuthorised
  BY DEF ServiceInv
<1> QED
  BY <1>1, ServiceInvariance, PTL

\* A message still on the network carries what its id was debited for.
THEOREM NetworkBacked == Spec => []MessagesBacked
<1>1. ServiceInv => MessagesBacked
  BY DEF ServiceInv, TypeInv
<1> QED
  BY <1>1, ServiceInvariance, PTL

\* The debit path ran once for an authorised charge id and never for another.
CountsApplied ==
  \A o \in Opids : chargeCount[o] = IF o \in DOMAIN applied THEN 1 ELSE 0

\* Every step keeps the counts.
LEMMA NextCounts == TypeInv /\ CountsApplied /\ [Next]_vars => CountsApplied'
<1> SUFFICES ASSUME TypeInv, CountsApplied, [Next]_vars PROVE CountsApplied'
  OBVIOUS
<1>1. ASSUME NEW r \in Replicas, NEW amount \in Amounts, NEW opid \in Opids,
             Charge(r, amount, opid)
      PROVE  CountsApplied'
  <2>1. /\ opid \notin DOMAIN applied /\ applied' = Put(applied, opid, amount)
        /\ chargeCount' = [chargeCount EXCEPT ![opid] = chargeCount[opid] + 1]
        /\ chargeCount \in [Opids -> Nat]
    BY <1>1 DEF Charge, Debit, NotApplied, TypeInv, TypeOK
  <2>2. DOMAIN applied' = DOMAIN applied \cup {opid}
    BY <2>1 DEF Put
  <2>3. chargeCount'[opid] = 1
    BY <2>1 DEF CountsApplied
  <2>4. \A o \in Opids \ {opid} : chargeCount'[o] = chargeCount[o]
    BY <2>1
  <2> QED
    BY <2>2, <2>3, <2>4 DEF CountsApplied
<1>2. CASE UNCHANGED <<applied, chargeCount>>
  BY <1>2 DEF CountsApplied
<1> QED
  BY <1>1, <1>2 DEF Next, SendTransfer, Emit, Deliver, Credit, Drop, vars

\* per_request_ok(): whatever replicas and amounts a charge id is presented
\* with, the debit path runs for it at most once.
THEOREM NoDoubleCharge == Spec => []PerRequestOk
<1>1. Init => CountsApplied
  BY EmptyDictType DEF Init, CountsApplied
<1>2. CountsApplied => PerRequestOk
  BY DEF CountsApplied, PerRequestOk
<1> QED
  BY <1>1, <1>2, NextCounts, InitTypeInv, NextTypeInv, PTL DEF Spec

-----------------------------------------------------------------------------
(* What a step does to the ids in transit, for the refinements.            *)

\* A new id is in transit.
LEMMA SendInTransit ==
  ASSUME TypeInv, NEW src \in Replicas, NEW dst \in Replicas,
         NEW amount \in Amounts, NEW tid \in Tids, SendTransfer(src, dst, amount, tid)
  PROVE  /\ tid \notin DOMAIN sent
         /\ (DOMAIN sent)' = DOMAIN sent \cup {tid}
         /\ \A t \in DOMAIN sent : sent'[t] = sent[t]
         /\ sent'[tid].amount = amount
         /\ InTransit' = InTransit \cup {tid}
<1>1. /\ tid \notin DOMAIN sent /\ recvd' = recvd
      /\ sent' = Put(sent, tid, [dst |-> dst, amount |-> amount])
  BY DEF SendTransfer, Emit, NotSent
<1>2. /\ (DOMAIN sent)' = DOMAIN sent \cup {tid}
      /\ \A t \in DOMAIN sent : sent'[t] = sent[t]
      /\ sent'[tid].amount = amount
  BY <1>1 DEF Put
<1>3. tid \notin recvd
  BY <1>1 DEF TypeInv, TypeOK
<1> QED
  BY <1>1, <1>2, <1>3 DEF InTransit

\* A credited id was in transit, for the amount its message carries.
LEMMA DeliverInTransit ==
  ASSUME TypeInv, NEW m \in net, Deliver(m)
  PROVE  /\ m.dst \in Replicas /\ m.amount \in Nat
         /\ m.tid \in DOMAIN sent /\ m.tid \notin recvd
         /\ sent[m.tid].amount = m.amount
         /\ m.tid \in InTransit /\ InTransit' = InTransit \ {m.tid}
<1>1. m.dst \in Replicas /\ m.amount \in Nat
  BY ConstantsOK DEF TypeInv, TypeOK, Messages
<1>2. m.tid \in DOMAIN sent /\ sent[m.tid] = [dst |-> m.dst, amount |-> m.amount]
  BY DEF TypeInv, MessagesBacked
<1>3. m.tid \notin recvd /\ recvd' = recvd \cup {m.tid} /\ sent' = sent
  BY DEF Deliver, NotReceived, Credit
<1> QED
  BY <1>1, <1>2, <1>3 DEF InTransit

-----------------------------------------------------------------------------
(* The ledger of rights.                                                   *)

\* The ledger's state, as the refinement mapping computes it.
Held    == [r \in Replicas |-> escrow[r] + spent[r]]
Transit == [t \in InTransit |-> sent[t].amount]

\* The ledger's totals and dictionaries are those of the service.
LEMMA LedgerOperators ==
  ASSUME NEW f, NEW S, NEW k, NEW v
  PROVE  Rights!SumOver(f, S) = SumOver(f, S) /\ Rights!Put(f, k, v) = Put(f, k, v)
  BY DEF Rights!SumOver, Rights!Tokens, Rights!Pile, Rights!Cardinality, Rights!Put,
         SumOver, Tokens, Pile, Cardinality, Put

\* Genesis is a state the ledger may start in.
LEMMA InitRefinesLedger == Init => Rights!RInit
<1> SUFFICES ASSUME Init PROVE Rights!RInit
  OBVIOUS
<1>1. TypeInv /\ Quantity = CAP
  BY InitServiceInv DEF ServiceInv
<1>2. escrow \in [Replicas -> Nat] /\ spent = [r \in Replicas |-> 0]
  BY <1>1 DEF Init, TypeInv, TypeOK
<1>3. Held = escrow
  BY <1>2 DEF Held
<1>4. Held \in [Replicas -> Nat] /\ Rights!SumOver(Held, Replicas) <= CAP
  <2>1. TotalEscrow <= CAP
    BY <1>1, TotalsType, ConstantsOK DEF Quantity
  <2> QED
    BY <1>2, <1>3, <2>1, LedgerOperators DEF TotalEscrow
<1>5. InTransit = {} /\ DOMAIN sent = {}
  BY EmptyDictType DEF Init, InTransit
<1>6. Transit = [t \in {} |-> 0]
  BY <1>5 DEF Transit
<1> QED
  BY <1>2, <1>4, <1>5, <1>6 DEF Held, Transit, Rights!RInit

\* charge: the replica turns a held right into a used one.
LEMMA ChargeRefinesLedger ==
  ASSUME TypeInv, NEW r \in Replicas, NEW amount \in Amounts, NEW opid \in Opids,
         Charge(r, amount, opid)
  PROVE  Rights!Local(r)
<1>1. /\ amount \in Nat
      /\ escrow \in [Replicas -> Nat] /\ spent \in [Replicas -> Nat]
      /\ escrow' = [escrow EXCEPT ![r] = escrow[r] - amount]
      /\ spent'  = [spent EXCEPT ![r] = spent[r] + amount]
      /\ amount <= escrow[r]
  BY ConstantsOK DEF Charge, Debit, Affordable, TypeInv, TypeOK
<1>2. Held' = Held
  BY <1>1 DEF Held
<1>3. Held[r] = escrow[r] + spent[r] /\ spent'[r] = spent[r] + amount
  BY <1>1 DEF Held
<1>4. Held'[r] \in 0 .. Held[r] /\ spent'[r] \in 0 .. Held'[r]
  BY <1>1, <1>2, <1>3
<1>5. /\ Held' = [Held EXCEPT ![r] = Held'[r]]
      /\ spent' = [spent EXCEPT ![r] = spent'[r]]
  BY <1>1, <1>2 DEF Held
<1>6. Transit' = Transit /\ (DOMAIN sent)' = DOMAIN sent
  BY DEF Charge, Debit, Transit, InTransit
<1> QED
  BY <1>4, <1>5, <1>6 DEF Rights!Local, Held, Transit

\* send_transfer: rights leave the sender into a transfer that is new.
LEMMA SendRefinesLedger ==
  ASSUME TypeInv, NEW src \in Replicas, NEW dst \in Replicas,
         NEW amount \in Amounts, NEW tid \in Tids, SendTransfer(src, dst, amount, tid)
  PROVE  Rights!Open(src, tid)
<1>1. /\ amount \in Nat /\ amount <= escrow[src]
      /\ escrow \in [Replicas -> Nat] /\ spent \in [Replicas -> Nat]
      /\ escrow' = [escrow EXCEPT ![src] = escrow[src] - amount]
      /\ spent' = spent
  BY ConstantsOK DEF SendTransfer, Emit, Affordable, TypeInv, TypeOK
<1>2. Held' = [Held EXCEPT ![src] = Held[src] - amount]
  <2>1. \A r \in Replicas : Held[r] = escrow[r] + spent[r]
                          /\ Held'[r] = escrow'[r] + spent[r]
    BY <1>1 DEF Held
  <2>2. Held'[src] = Held[src] - amount
    BY <1>1, <2>1
  <2>3. \A r \in Replicas \ {src} : Held'[r] = Held[r]
    BY <1>1, <2>1
  <2> QED
    BY <2>2, <2>3 DEF Held
<1>3. amount \in 0 .. Held[src] - spent[src]
  BY <1>1 DEF Held
<1>4. Transit' = Rights!Put(Transit, tid, amount)
  <2>1. InTransit \subseteq DOMAIN sent
    BY DEF InTransit
  <2>2. /\ tid \notin DOMAIN sent /\ InTransit' = InTransit \cup {tid}
        /\ sent'[tid].amount = amount
        /\ \A t \in DOMAIN sent : sent'[t].amount = sent[t].amount
    <3>1. \A t \in DOMAIN sent : sent'[t] = sent[t]
      BY SendInTransit
    <3>2. InTransit' = InTransit \cup {tid}
      BY SendInTransit, Zenon
    <3>3. tid \notin DOMAIN sent
      BY SendInTransit
    <3>4. sent'[tid].amount = amount
      BY DEF SendTransfer, Emit, Put
    <3> QED
      BY <3>1, <3>2, <3>3, <3>4
  <2>3. Transit' = Put(Transit, tid, amount)
    <3>1. \A t \in InTransit' : t = tid \/ (t \in InTransit /\ t # tid)
      BY <2>1, <2>2
    <3>2. Transit' = [t \in InTransit \cup {tid} |-> sent'[t].amount]
      BY <2>2 DEF Transit
    <3> QED
      BY <2>1, <2>2, <3>1, <3>2 DEF Transit, Put
  <2> QED
    BY <2>3, LedgerOperators
<1> QED
  BY <1>1, <1>2, <1>3, <1>4, SendInTransit DEF Rights!Open, Held, Transit

\* deliver: the whole transfer lands at the receiver.
LEMMA DeliverRefinesLedger ==
  ASSUME TypeInv, NEW m \in net, Deliver(m)
  PROVE  Rights!Land(m.dst, m.tid)
<1>1. /\ escrow \in [Replicas -> Nat] /\ spent \in [Replicas -> Nat]
      /\ escrow' = [escrow EXCEPT ![m.dst] = escrow[m.dst] + m.amount]
      /\ spent' = spent /\ sent' = sent
  BY DEF Deliver, Credit, TypeInv, TypeOK
<1>2. Held' = [Held EXCEPT ![m.dst] = Held[m.dst] + Transit[m.tid]]
  BY <1>1, DeliverInTransit DEF Held, Transit
<1>3. Transit' = [u \in DOMAIN Transit \ {m.tid} |-> Transit[u]]
  BY <1>1, DeliverInTransit DEF Transit
<1> QED
  BY <1>1, <1>2, <1>3 DEF Rights!Land, Held, Transit

\* Every operation is a step of the ledger, but for a drop, which leaves it as
\* it is.
LEMMA NextRefinesLedger ==
  TypeInv /\ [Next]_vars => [Rights!RNext]_(Rights!rvars)
<1> SUFFICES ASSUME TypeInv, [Next]_vars
             PROVE  Rights!RNext \/ UNCHANGED <<Held, spent, Transit, DOMAIN sent>>
  BY DEF Rights!rvars, Held, Transit
<1>0. DOMAIN Transit = InTransit
  BY DEF Transit
<1>1. ASSUME NEW r \in Replicas, NEW amount \in Amounts, NEW opid \in Opids,
             Charge(r, amount, opid)
      PROVE  Rights!RNext
  BY <1>1, ChargeRefinesLedger DEF Rights!RNext
<1>2. ASSUME NEW src \in Replicas, NEW dst \in Replicas, NEW amount \in Amounts,
             NEW tid \in Tids, SendTransfer(src, dst, amount, tid)
      PROVE  Rights!RNext
  BY <1>2, SendRefinesLedger DEF Rights!RNext
<1>3. ASSUME NEW m \in net, Deliver(m)
      PROVE  Rights!RNext
  BY <1>0, <1>3, DeliverRefinesLedger, DeliverInTransit DEF Rights!RNext, Transit
<1>4. CASE UNCHANGED <<escrow, spent, applied, sent, recvd>>
  BY <1>4 DEF Held, Transit, InTransit
<1> QED
  BY <1>1, <1>2, <1>3, <1>4 DEF Next, Drop, vars

\* impl/escrow.py implements the ledger of rights.
THEOREM ImplementsLedger == Spec => ImplementsRightsLedger
<1>1. ServiceInv => TypeInv
  BY DEF ServiceInv
<1> QED
  BY <1>1, InitRefinesLedger, NextRefinesLedger, ServiceInvariance, PTL
     DEF Spec, ImplementsRightsLedger, Rights!RSpec

-----------------------------------------------------------------------------
(* The transitions that spec_model.py explores.                            *)

\* The explored state, as the refinement mapping computes it.
Sendings == {<<m.dst, m.tid>> : m \in net}
Nominal  == [t \in Tids |-> IF t \in DOMAIN sent THEN sent[t].amount ELSE 0]

\* The constructor's allocation is where the exploration starts.
LEMMA InitExplored == Init => Explored!SInit
<1> SUFFICES ASSUME Init PROVE Explored!SInit
  OBVIOUS
<1>1. DOMAIN sent = {} /\ DOMAIN applied = {}
  BY EmptyDictType DEF Init
<1>2. Sendings = {} /\ Nominal = [t \in Tids |-> 0]
  BY <1>1 DEF Init, Sendings, Nominal
<1> QED
  BY <1>1, <1>2, ConstantsOK DEF Init, Explored!SInit, Sendings, Nominal

\* charge uses up a charge id.
LEMMA ChargeExplored ==
  ASSUME NEW r \in Replicas, NEW amount \in Amounts, NEW opid \in Opids,
         Charge(r, amount, opid)
  PROVE  Explored!Charge(r, opid, amount)
<1>1. (DOMAIN applied)' = DOMAIN applied \cup {opid}
  BY DEF Charge, Debit, Put
<1>2. Sendings' = Sendings /\ Nominal' = Nominal /\ (DOMAIN sent)' = DOMAIN sent
  BY DEF Charge, Debit, Sendings, Nominal
<1> QED
  BY <1>1, <1>2 DEF Charge, Debit, NotApplied, Affordable,
                    Explored!Charge, Sendings, Nominal

\* send_transfer sends a new id.
LEMMA SendExplored ==
  ASSUME TypeInv, NEW src \in Replicas, NEW dst \in Replicas,
         NEW amount \in Amounts, NEW tid \in Tids, SendTransfer(src, dst, amount, tid)
  PROVE  Explored!SendFirst(src, dst, tid, amount)
<1> DEFINE msg == [dst |-> dst, amount |-> amount, tid |-> tid]
<1>1. /\ amount <= escrow[src] /\ net' = net \cup {msg}
      /\ escrow' = [escrow EXCEPT ![src] = escrow[src] - amount]
      /\ UNCHANGED <<spent, applied, recvd>>
  BY DEF SendTransfer, Emit, Affordable
<1>2. Sendings' = Sendings \cup {<<dst, tid>>}
  <2>1. msg.dst = dst /\ msg.tid = tid
    OBVIOUS
  <2> HIDE DEF msg
  <2> QED
    BY <1>1, <2>1 DEF Sendings
<1>3. Nominal' = [Nominal EXCEPT ![tid] = amount]
  <2>1. /\ (DOMAIN sent)' = DOMAIN sent \cup {tid}
        /\ sent'[tid].amount = amount
        /\ \A t \in DOMAIN sent : sent'[t].amount = sent[t].amount
    BY SendInTransit
  <2> QED
    BY <2>1 DEF Nominal
<1> QED
  BY <1>1, <1>2, <1>3, SendInTransit DEF Explored!SendFirst, Sendings, Nominal

\* deliver credits the amount that the explorer looks up for the id.
LEMMA DeliverExplored ==
  ASSUME TypeInv, NEW m \in net, Deliver(m)
  PROVE  <<m.dst, m.tid>> \in Sendings /\ Explored!Recv(m.dst, m.tid)
<1>1. /\ escrow' = [escrow EXCEPT ![m.dst] = escrow[m.dst] + m.amount]
      /\ recvd' = recvd \cup {m.tid}
      /\ UNCHANGED <<spent, applied, sent, net>>
  BY DEF Deliver, Credit
<1>2. Nominal[m.tid] = m.amount
  <2>1. m.tid \in Tids
    BY DEF TypeInv, TypeOK, Messages
  <2> QED
    BY <2>1, DeliverInTransit DEF Nominal
<1>3. Sendings' = Sendings /\ Nominal' = Nominal
      /\ (DOMAIN sent)' = DOMAIN sent /\ (DOMAIN applied)' = DOMAIN applied
  BY <1>1 DEF Sendings, Nominal
<1>4. <<m.dst, m.tid>> \in Sendings
  BY DEF Sendings
<1> QED
  BY <1>1, <1>2, <1>3, <1>4, DeliverInTransit DEF Explored!Recv, Sendings, Nominal

\* drop removes the one message that has its receiver and id.
LEMMA DropExplored ==
  ASSUME TypeInv, NEW m \in net, Drop(m)
  PROVE  <<m.dst, m.tid>> \in Sendings /\ Explored!Drop(<<m.dst, m.tid>>)
<1>1. /\ net' = net \ {m}
      /\ UNCHANGED <<escrow, spent, applied, sent, recvd>>
  BY DEF Drop
<1>2. \A n \in net : <<n.dst, n.tid>> = <<m.dst, m.tid>> => n = m
  <2> SUFFICES ASSUME NEW n \in net, n.dst = m.dst, n.tid = m.tid PROVE n = m
    OBVIOUS
  <2>1. n \in Messages /\ m \in Messages
    BY DEF TypeInv, TypeOK
  <2>2. [dst |-> n.dst, amount |-> n.amount] = [dst |-> m.dst, amount |-> m.amount]
    BY DEF TypeInv, MessagesBacked
  <2>3. n.amount = m.amount
    BY <2>2
  <2> QED
    BY <2>1, <2>3 DEF Messages
<1>3. Sendings' = Sendings \ {<<m.dst, m.tid>>}
  BY <1>1, <1>2 DEF Sendings
<1>4. <<m.dst, m.tid>> \in Sendings
  BY DEF Sendings
<1>5. Nominal' = Nominal
      /\ (DOMAIN sent)' = DOMAIN sent /\ (DOMAIN applied)' = DOMAIN applied
  BY <1>1 DEF Nominal
<1> QED
  BY <1>1, <1>3, <1>4, <1>5 DEF Explored!Drop, Sendings, Nominal

\* Every operation is explored.
LEMMA NextExplored == TypeInv /\ [Next]_vars => [Explored!SNext]_(Explored!svars)
<1> SUFFICES ASSUME TypeInv, [Next]_vars
             PROVE  \/ Explored!SNext
                    \/ UNCHANGED <<escrow, spent, Sendings, DOMAIN applied, DOMAIN sent,
                                   recvd, Nominal>>
  BY DEF Explored!svars, Sendings, Nominal
<1>1. ASSUME NEW r \in Replicas, NEW amount \in Amounts, NEW opid \in Opids,
             Charge(r, amount, opid)
      PROVE  Explored!SNext
  BY <1>1, ChargeExplored DEF Explored!SNext
<1>2. ASSUME NEW src \in Replicas, NEW dst \in Replicas, NEW amount \in Amounts,
             NEW tid \in Tids, SendTransfer(src, dst, amount, tid)
      PROVE  Explored!SNext
  BY <1>2, SendExplored DEF Explored!SNext
<1>3. ASSUME NEW m \in net
      PROVE  <<m.dst, m.tid>>[1] = m.dst /\ <<m.dst, m.tid>>[2] = m.tid
  OBVIOUS
<1>4. ASSUME NEW m \in net, Deliver(m)
      PROVE  Explored!SNext
  <2>1. <<m.dst, m.tid>> \in Sendings /\ Explored!Recv(m.dst, m.tid)
    BY <1>4, DeliverExplored
  <2> QED
    BY <1>3, <2>1 DEF Explored!SNext, Sendings
<1>5. ASSUME NEW m \in net, Drop(m)
      PROVE  Explored!SNext
  <2>1. <<m.dst, m.tid>> \in Sendings /\ Explored!Drop(<<m.dst, m.tid>>)
    BY <1>5, DropExplored
  <2> QED
    BY <2>1 DEF Explored!SNext, Sendings
<1>6. CASE UNCHANGED vars
  BY <1>6 DEF vars, Sendings, Nominal
<1> QED
  BY <1>1, <1>2, <1>4, <1>5, <1>6 DEF Next

\* Every operation of impl/escrow.py that has an effect is a transition that
\* spec_model.py explores, from where its exploration starts.
THEOREM OperationsAreExplored == Spec => ImplementsSpecModel
<1>1. ServiceInv => TypeInv
  BY DEF ServiceInv
<1> QED
  BY <1>1, InitExplored, NextExplored, ServiceInvariance, PTL
     DEF Spec, ImplementsSpecModel, Explored!SSpec

\* And the other way round: from a state of the service, with ids and amounts its
\* callers use, every transition that spec_model.py explores is the effect of a
\* call, the records kept up that the exploration does not have.  The two
\* therefore agree on what is refused, too.  (A message of the exploration is one
\* of the service's, and only one of them has its receiver and id.)
THEOREM TransitionsAreOperations ==
  ASSUME TypeInv
  PROVE  /\ \A r \in Replicas, amount \in Amounts, opid \in Opids :
              Charge(r, amount, opid) <=>
                /\ Explored!Charge(r, opid, amount)
                /\ applied' = Put(applied, opid, amount)
                /\ chargeCount' = [chargeCount EXCEPT ![opid] = chargeCount[opid] + 1]
                /\ UNCHANGED <<sent, net>>
         /\ \A src, dst \in Replicas, amount \in Amounts, tid \in Tids :
              SendTransfer(src, dst, amount, tid) <=>
                /\ Explored!SendFirst(src, dst, tid, amount)
                /\ sent' = Put(sent, tid, [dst |-> dst, amount |-> amount])
                /\ net' = net \cup {[dst |-> dst, amount |-> amount, tid |-> tid]}
                /\ UNCHANGED <<applied, chargeCount>>
         /\ \A m \in net :
              Deliver(m) <=> /\ Explored!Recv(m.dst, m.tid)
                             /\ UNCHANGED <<applied, sent, net, chargeCount>>
         /\ \A m \in net :
              Drop(m) <=> /\ Explored!Drop(<<m.dst, m.tid>>)
                          /\ net' = net \ {m}
                          /\ UNCHANGED <<applied, sent, chargeCount>>
<1>1. ASSUME NEW r \in Replicas, NEW amount \in Amounts, NEW opid \in Opids,
             Explored!Charge(r, opid, amount),
             applied' = Put(applied, opid, amount),
             chargeCount' = [chargeCount EXCEPT ![opid] = chargeCount[opid] + 1],
             UNCHANGED <<sent, net>>
      PROVE  Charge(r, amount, opid)
  BY <1>1 DEF Explored!Charge, Charge, Debit, NotApplied, Affordable
<1>2. ASSUME NEW src \in Replicas, NEW dst \in Replicas, NEW amount \in Amounts,
             NEW tid \in Tids,
             Explored!SendFirst(src, dst, tid, amount),
             sent' = Put(sent, tid, [dst |-> dst, amount |-> amount]),
             net' = net \cup {[dst |-> dst, amount |-> amount, tid |-> tid]},
             UNCHANGED <<applied, chargeCount>>
      PROVE  SendTransfer(src, dst, amount, tid)
  BY <1>2 DEF Explored!SendFirst, SendTransfer, Emit, NotSent, Affordable
<1>3. ASSUME NEW m \in net,
             Explored!Recv(m.dst, m.tid), UNCHANGED <<applied, sent, net, chargeCount>>
      PROVE  Deliver(m)
  <2>1. m.tid \in Tids /\ Nominal[m.tid] = m.amount
    <3>1. m.tid \in Tids /\ m.tid \in DOMAIN sent
          /\ sent[m.tid] = [dst |-> m.dst, amount |-> m.amount]
      BY DEF TypeInv, TypeOK, Messages, MessagesBacked
    <3> QED
      BY <3>1 DEF Nominal
  <2>2. escrow' = [escrow EXCEPT ![m.dst] = escrow[m.dst] + Nominal[m.tid]]
    BY <1>3 DEF Explored!Recv, Nominal
  <2> QED
    BY <1>3, <2>1, <2>2 DEF Explored!Recv, Deliver, Credit, NotReceived
<1>4. ASSUME NEW m \in net,
             Explored!Drop(<<m.dst, m.tid>>), net' = net \ {m},
             UNCHANGED <<applied, sent, chargeCount>>
      PROVE  Drop(m)
  BY <1>4 DEF Explored!Drop, Drop
<1>5. \A r \in Replicas, amount \in Amounts, opid \in Opids :
        Charge(r, amount, opid) =>
          /\ Explored!Charge(r, opid, amount)
          /\ applied' = Put(applied, opid, amount)
          /\ chargeCount' = [chargeCount EXCEPT ![opid] = chargeCount[opid] + 1]
          /\ UNCHANGED <<sent, net>>
  BY ChargeExplored DEF Charge, Debit
<1>6. \A src, dst \in Replicas, amount \in Amounts, tid \in Tids :
        SendTransfer(src, dst, amount, tid) =>
          /\ Explored!SendFirst(src, dst, tid, amount)
          /\ sent' = Put(sent, tid, [dst |-> dst, amount |-> amount])
          /\ net' = net \cup {[dst |-> dst, amount |-> amount, tid |-> tid]}
          /\ UNCHANGED <<applied, chargeCount>>
  BY SendExplored DEF SendTransfer, Emit
<1>7. \A m \in net : Deliver(m) => /\ Explored!Recv(m.dst, m.tid)
                                   /\ UNCHANGED <<applied, sent, net, chargeCount>>
  BY DeliverExplored DEF Deliver, Credit
<1>8. \A m \in net : Drop(m) => /\ Explored!Drop(<<m.dst, m.tid>>)
                                /\ net' = net \ {m}
                                /\ UNCHANGED <<applied, sent, chargeCount>>
  BY DropExplored DEF Drop
<1> QED
  BY <1>1, <1>2, <1>3, <1>4, <1>5, <1>6, <1>7, <1>8

-----------------------------------------------------------------------------
(* The damaged services of mutation_check.py.  A debit, a new message and  *)
(* a credit without one of their guards either are what the undamaged      *)
(* service could have done, or leave the balances and the transfers in     *)
(* flight in disagreement; only a charge id that is debited again moves    *)
(* budget as a charge does.                                                *)

\* What is left of the invariant where charge ids may be debited again.
SoundInv == TypeInv /\ Quantity = CAP

\* A sound state passes every test of the strict check.
LEMMA SoundPasses == SoundInv => StrictCheck
  BY TotalsType, ConstantsOK DEF SoundInv, StrictCheck, TypeInv, TypeOK, Quantity

\* The undamaged service, and a charge id debited again within the escrow,
\* lead from a sound state to a sound state.
LEMMA SoundStep ==
  ASSUME SoundInv, [Next]_vars \/ ChargedAgain
  PROVE  SoundInv'
<1>1. CASE [Next]_vars
  BY <1>1, NextTypeInv, NextQuantity DEF SoundInv
<1>2. CASE ChargedAgain
  <2>1. PICK r \in Replicas, amount \in Amounts, opid \in DOMAIN applied :
          Affordable(r, amount) /\ Debit(r, amount, opid)
    BY <1>2 DEF ChargedAgain
  <2>2. opid \in Opids
    BY DEF SoundInv, TypeInv, TypeOK
  <2> QED
    BY <2>1, <2>2, DebitTypeInv, DebitQuantity DEF SoundInv
<1> QED
  BY <1>1, <1>2

\* A debit that passes was within the escrow.
LEMMA DebitExact ==
  ASSUME SoundInv, NEW r \in Replicas, NEW amount \in Amounts, NEW opid \in Opids,
         Debit(r, amount, opid), StrictCheck'
  PROVE  Next \/ ChargedAgain
<1>1. Affordable(r, amount)
  <2>1. escrow'[r] >= 0
    BY DEF StrictCheck
  <2>2. escrow'[r] = escrow[r] - amount /\ escrow[r] \in Nat /\ amount \in Nat
    BY ConstantsOK DEF Debit, SoundInv, TypeInv, TypeOK
  <2> QED
    BY <2>1, <2>2 DEF Affordable
<1>2. CASE opid \in DOMAIN applied
  BY <1>1, <1>2 DEF ChargedAgain
<1>3. CASE opid \notin DOMAIN applied
  BY <1>1, <1>3 DEF Next, Charge, NotApplied
<1> QED
  BY <1>2, <1>3

\* A message with a known id does not pass: it debits its amount and puts
\* less, or nothing, in flight.
LEMMA ResentFails ==
  ASSUME AmountsAboveZero, SoundInv, NEW src \in Replicas, NEW dst \in Replicas,
         NEW amount \in Amounts, NEW tid \in DOMAIN sent,
         Affordable(src, amount), Emit(src, dst, amount, tid), StrictCheck'
  PROVE  FALSE
<1>1. /\ amount \in Nat /\ amount > 0 /\ escrow[src] \in Nat
      /\ escrow'[src] = escrow[src] - amount
      /\ \A s \in Replicas \ {src} : escrow'[s] = escrow[s]
  BY ConstantsOK DEF AmountsAboveZero, Emit, SoundInv, TypeInv, TypeOK
<1>2. Balances /\ Balances'
  BY <1>1 DEF Emit, Affordable, Balances, SoundInv, TypeInv, TypeOK
<1>3. TotalEscrow' = TotalEscrow - amount /\ TotalSpent' = TotalSpent
  BY <1>1, <1>2, UpdateTotals, TotalsType DEF SoundInv, Emit, TotalSpent
<1>4. sent' = Put(sent, tid, [dst |-> dst, amount |-> amount]) /\ recvd' = recvd
  BY DEF Emit
<1>5. InTransit' = InTransit
  BY <1>4 DEF InTransit, Put
<1>6. Owed'[tid] = amount /\ \A t \in InTransit \ {tid} : Owed'[t] = Owed[t]
  BY <1>4 DEF Owed, InTransit, Put
<1>7. InFlight' < InFlight + amount
  <2>1. CASE tid \in InTransit
    <3>1. Owed[tid] \in Nat /\ Owed[tid] > 0
      BY ConstantsOK DEF AmountsAboveZero, Owed, SoundInv, TypeInv, TypeOK
    <3>2. NatOn(Owed', InTransit)
      BY <1>1, <1>6, TotalsType DEF NatOn, SoundInv
    <3>3. InFlight' = InFlight - Owed[tid] + amount
      BY <1>5, <1>6, <2>1, <3>2, SumUpdate, TotalsType DEF InFlight, SoundInv
    <3> QED
      BY <1>1, <3>1, <3>3, TotalsType DEF SoundInv
  <2>2. CASE tid \notin InTransit
    <3>1. InFlight' = InFlight
      BY <1>5, <1>6, <2>2, SumAgree DEF InFlight
    <3> QED
      BY <1>1, <3>1, TotalsType DEF SoundInv
  <2> QED
    BY <2>1, <2>2
<1>8. InFlight' \in Nat
  <2>1. NatOn(Owed', InTransit')
    BY <1>1, <1>5, <1>6, TotalsType DEF NatOn, SoundInv
  <2> QED
    BY <1>5, <2>1, SumType, TotalsType DEF InFlight, SoundInv
<1> QED
  BY <1>1, <1>3, <1>7, <1>8, TotalsType DEF Quantity, SoundInv, StrictCheck

\* A new message without a debit does not pass.
LEMMA UndebitedFails ==
  ASSUME AmountsAboveZero, SoundInv, NEW m, m.amount \in Amounts,
         m.tid \notin DOMAIN sent, EmitUndebited(m), StrictCheck'
  PROVE  FALSE
<1>1. m.amount \in Nat /\ m.amount > 0
  <2>1. \A amount \in Amounts : amount \in Nat /\ amount > 0
    BY ConstantsOK DEF AmountsAboveZero
  <2> QED
    BY <2>1
<1>2. /\ m.tid \notin DOMAIN sent /\ recvd' = recvd
      /\ sent' = Put(sent, m.tid, [dst |-> m.dst, amount |-> m.amount])
  BY DEF EmitUndebited
<1>3. Owed' = Put(Owed, m.tid, m.amount)
  BY <1>2 DEF Owed, Put
<1>4. InTransit' = InTransit \cup {m.tid}
  BY <1>2 DEF InTransit, Put, SoundInv, TypeInv, TypeOK
<1>5. InFlight' = InFlight + m.amount
  <2>1. /\ Owed \in [DOMAIN Owed -> Nat] /\ DOMAIN Owed = DOMAIN sent
        /\ InTransit \in SUBSET DOMAIN Owed /\ IsFiniteSet(InTransit)
    BY TotalsType DEF SoundInv
  <2>2. SumOver(Put(Owed, m.tid, m.amount), InTransit \cup {m.tid})
          = SumOver(Owed, InTransit) + m.amount
    BY <1>1, <1>2, <2>1, SumPut
  <2> QED
    BY <1>3, <1>4, <2>2 DEF InFlight
<1>6. TotalEscrow' = TotalEscrow /\ TotalSpent' = TotalSpent
  BY DEF EmitUndebited, TotalEscrow, TotalSpent
<1> QED
  BY <1>1, <1>5, <1>6, TotalsType DEF Quantity, SoundInv, StrictCheck

\* A credit that was given before does not pass.
LEMMA CreditedAgainFails ==
  ASSUME AmountsAboveZero, SoundInv, NEW m \in net, m.tid \in recvd, Credit(m), StrictCheck'
  PROVE  FALSE
<1>1. m.dst \in Replicas /\ m.amount \in Nat /\ m.amount > 0
  BY ConstantsOK DEF AmountsAboveZero, SoundInv, TypeInv, TypeOK, Messages
<1>2. /\ escrow[m.dst] \in Nat /\ escrow'[m.dst] = escrow[m.dst] + m.amount
      /\ \A s \in Replicas \ {m.dst} : escrow'[s] = escrow[s]
  BY <1>1 DEF Credit, SoundInv, TypeInv, TypeOK
<1>3. Balances /\ Balances'
  BY <1>1 DEF Credit, Balances, SoundInv, TypeInv, TypeOK
<1>4. TotalEscrow' = TotalEscrow + m.amount /\ TotalSpent' = TotalSpent
  BY <1>1, <1>2, <1>3, UpdateTotals, TotalsType DEF SoundInv, Credit, TotalSpent
<1>5. InFlight' = InFlight
  BY DEF Credit, InFlight, InTransit, Owed
<1> QED
  BY <1>1, <1>4, <1>5, TotalsType DEF Quantity, SoundInv, StrictCheck

\* What a call may do to be judged exactly.
Judged ==
  \/ UNCHANGED vars /\ ~raised'
  \/ /\ raised' <=> ~StrictCheck'
     /\ StrictCheck' => Next \/ ChargedAgain

\* A call that is refused changes nothing, and one that is not is checked.
LEMMA CheckedCall ==
  ASSUME NEW ACTION Effect, NEW record, NEW STATE accepted,
         Call(record, accepted, Effect)
  PROVE  \/ UNCHANGED vars /\ ~raised'
         \/ accepted /\ Effect /\ (raised' <=> ~StrictCheck')
  BY Zenon DEF Call

\* Every call of every class is.
LEMMA CallsJudged == ASSUME AmountsAboveZero, SoundInv, MNext PROVE Judged
<1>1. ASSUME NEW r \in Replicas, NEW amount \in Amounts, NEW opid \in Opids,
             Call(ChargeCall(r, amount, opid), AcceptsCharge(r, amount, opid),
                  Debit(r, amount, opid))
      PROVE  Judged
  <2>1. \/ UNCHANGED vars /\ ~raised'
        \/ Debit(r, amount, opid) /\ (raised' <=> ~StrictCheck')
    BY <1>1, CheckedCall
  <2> QED
    BY <2>1, DebitExact DEF Judged
<1>2. ASSUME NEW src \in Replicas, NEW dst \in Replicas, NEW amount \in Amounts,
             NEW tid \in Tids, NEW m, m = Transfer(src, dst, amount, tid),
             Call(IssueCall(m), AcceptsSend(m), MutSend(m))
      PROVE  Judged
  <2>1. m.src = src /\ m.dst = dst /\ m.amount = amount /\ m.tid = tid
    BY <1>2 DEF Transfer
  <2>2. \/ UNCHANGED vars /\ ~raised'
        \/ AcceptsSend(m) /\ MutSend(m) /\ (raised' <=> ~StrictCheck')
    BY <1>2, CheckedCall
  <2>3. ASSUME AcceptsSend(m), MutSend(m), StrictCheck' PROVE Next
    <3>1. CASE row.cls = "MutNoSendDebit"
      <4>1. m.tid \notin DOMAIN sent /\ EmitUndebited(m)
        BY <2>3, <3>1 DEF AcceptsSend, MutSend, NotSent
      <4> QED
        BY <2>1, <2>3, <4>1, UndebitedFails
    <3>2. CASE row.cls # "MutNoSendDebit"
      <4>1. Affordable(src, amount) /\ Emit(src, dst, amount, tid)
        BY <2>1, <2>3, <3>2 DEF AcceptsSend, MutSend
      <4>2. tid \notin DOMAIN sent
        BY <2>3, <4>1, ResentFails
      <4> QED
        BY <4>1, <4>2 DEF Next, SendTransfer, NotSent
    <3> QED
      BY <3>1, <3>2
  <2> QED
    BY <2>2, <2>3 DEF Judged
<1>3. ASSUME NEW m \in net, Call(DeliverCall(m), AcceptsDelivery(m), Credit(m))
      PROVE  Judged
  <2>1. \/ UNCHANGED vars /\ ~raised'
        \/ Credit(m) /\ (raised' <=> ~StrictCheck')
    BY <1>3, CheckedCall
  <2>2. ASSUME Credit(m), StrictCheck' PROVE Next
    BY <2>2, CreditedAgainFails DEF Next, Deliver, NotReceived
  <2> QED
    BY <2>1, <2>2 DEF Judged
<1>4. ASSUME NEW m \in net, Call(DropCall(m), TRUE, Drop(m))
      PROVE  Judged
  <2>1. \/ UNCHANGED vars /\ ~raised'
        \/ Drop(m) /\ (raised' <=> ~StrictCheck')
    BY <1>4, CheckedCall
  <2> QED
    BY <2>1 DEF Judged, Next
<1> QED
  BY <1>1, <1>2, <1>3, <1>4 DEF MNext

\* Every call of the suite is judged exactly, and the services that were not
\* stopped stay sound.
LEMMA SuiteStep ==
  ASSUME AmountsAboveZero, ~raised => SoundInv, MNext
  PROVE  /\ ~raised' <=> [Next]_vars \/ ChargedAgain
         /\ ~raised' => SoundInv'
<1>1. SoundInv
  BY DEF MNext, Call
<1>2. Judged
  BY <1>1, CallsJudged
<1>3. [Next]_vars \/ ChargedAgain => SoundInv' /\ StrictCheck'
  <2>1. SoundInv' => StrictCheck'
    BY SoundPasses, PTL
  <2> QED
    BY <1>1, <2>1, SoundStep
<1> QED
  BY <1>2, <1>3 DEF Judged

\* _check() over the damaged services, whatever is called: it lets a call pass
\* if and only if the undamaged service could have done it, or it debited a
\* known charge id again.  Its one blind spot is the one the file describes.
THEOREM StrictCheckIsExact == ASSUME AmountsAboveZero PROVE MSpec => CheckIsExact
<1>1. MInit => SoundInv
  BY InitServiceInv DEF MInit, ServiceInv, SoundInv
<1>2. (~raised => SoundInv) /\ [MNext]_mvars => (~raised => SoundInv)'
  <2>1. CASE MNext
    BY <2>1, SuiteStep
  <2>2. CASE UNCHANGED mvars
    BY <2>2 DEF mvars, vars, SoundInv, TypeInv, TypeOK, MessagesBacked, Quantity, TotalEscrow,
                TotalSpent, InFlight, InTransit, Owed
  <2> QED
    BY <2>1, <2>2
<1>3. (~raised => SoundInv) /\ [MNext]_mvars
        => [~raised' <=> [Next]_vars \/ ChargedAgain]_mvars
  BY SuiteStep
<1> QED
  BY <1>1, <1>2, <1>3, PTL DEF MSpec, CheckIsExact

-----------------------------------------------------------------------------
(* The verdicts of the suite.  raised and the counts say what killed a     *)
(* class; what happened on the file's trace so far says that the next call *)
(* of it is accepted, and what it breaks.                                  *)

\* What the traces need of EscrowService(["a", "b"], cap=3, genesis="a"): the
\* first replica holds the cap and can pay for two calls.
SuiteGenesis == Genesis = "a" /\ CAP >= 2

\* The message that trace_deliver_dup delivers twice.
Parcel == [dst |-> "b", amount |-> 1, tid |-> "t1"]

\* What the file's trace has done to each class.
TraceSoFar ==
  /\ row.cls = "MutNoDeliverDedup" =>
       IF place = 3 THEN raised
       ELSE ~raised /\ Parcel \in net /\ (Parcel.tid \in recvd <=> place = 2)
  /\ row.cls \in {"MutNoChargeGuard", "MutNoSendDebit"} => raised
  /\ row.cls = "MutNoChargeIdemp" =>
       ~raised /\ escrow["a"] = CAP - place /\ "op1" \in Opids /\ chargeCount["op1"] = place
  /\ row.cls = "MutNoSendIdemp" =>
       IF place = 2 THEN raised
       ELSE ~raised /\ escrow["a"] = CAP - 1 /\ "t1" \in DOMAIN sent

\* Inductive.  The undamaged service is never stopped and counts every id once.
VerdictInv ==
  /\ row \in MUTANTS \cup Controls(MUTANTS, "EscrowService")
  /\ place \in Int
  /\ ~raised => SoundInv
  /\ row.cls = "EscrowService" => ~raised /\ CountsApplied
  /\ place = 0 => Init /\ ~raised
  /\ place >= 1 => TraceSoFar

\* The rows of the suite, one by one.
LEMMA SuiteRows ==
  ASSUME NEW x \in MUTANTS \cup Controls(MUTANTS, "EscrowService")
  PROVE  \/ x.cls = "EscrowService" /\ x.expected = "SURVIVED"
         \/ /\ x.cls = "MutNoDeliverDedup" /\ x.expected = "invariant"
            /\ x.trace = <<SendABOne, ToB, ToB>>
         \/ /\ x.cls = "MutNoChargeGuard" /\ x.expected = "invariant"
            /\ x.trace = <<ChargeCall("b", 1, "op1")>>
         \/ /\ x.cls = "MutNoSendDebit" /\ x.expected = "invariant"
            /\ x.trace = <<SendABOne>>
         \/ /\ x.cls = "MutNoChargeIdemp" /\ x.expected = "per-request"
            /\ x.trace = <<COne, COne>>
         \/ /\ x.cls = "MutNoSendIdemp" /\ x.expected = "invariant"
            /\ x.trace = <<SendABOne, SendABOne>>
<1>1. CASE x \in MUTANTS
  BY <1>1 DEF MUTANTS
<1>2. CASE x \in Controls(MUTANTS, "EscrowService")
  BY <1>2 DEF Controls
<1> QED
  BY <1>1, <1>2

\* A call is accepted and checked, or refused.
Answered(accepted, Effect) ==
  \/ accepted /\ Effect /\ raised' = ~StrictCheck'
  \/ ~accepted /\ UNCHANGED <<vars, raised>>

\* A sequence of calls that is still on the trace has just made its next call.
OnTheWay ==
  /\ place' = place + 1 /\ place >= 0 /\ place + 1 \in 1 .. Len(row.trace)
  /\ ~raised /\ row' = row

LEMMA NextOnTrace ==
  ASSUME NEW record, NEW STATE accepted, NEW ACTION Effect,
         Call(record, accepted, Effect), place \in Int, place' >= 1
  PROVE  OnTheWay /\ row.trace[place + 1] = record /\ Answered(accepted, Effect)
  BY DEF Call, Advance, Off, OnTheWay, Answered

LEMMA CallOnTrace ==
  ASSUME MNext, place \in Int, place' >= 1
  PROVE  /\ OnTheWay
         /\ \/ \E r \in Replicas, amount \in Amounts, opid \in Opids :
                 /\ row.trace[place + 1] = ChargeCall(r, amount, opid)
                 /\ Answered(AcceptsCharge(r, amount, opid), Debit(r, amount, opid))
            \/ \E src, dst \in Replicas, amount \in Amounts, tid \in Tids :
                 LET m == Transfer(src, dst, amount, tid)
                 IN  /\ row.trace[place + 1] = IssueCall(m)
                     /\ Answered(AcceptsSend(m), MutSend(m))
            \/ \E m \in net : /\ row.trace[place + 1] = DeliverCall(m)
                              /\ Answered(AcceptsDelivery(m), Credit(m))
            \/ \E m \in net : row.trace[place + 1] = DropCall(m)
<1>1. ASSUME NEW r \in Replicas, NEW amount \in Amounts, NEW opid \in Opids,
             Call(ChargeCall(r, amount, opid), AcceptsCharge(r, amount, opid),
                  Debit(r, amount, opid))
      PROVE  /\ OnTheWay /\ row.trace[place + 1] = ChargeCall(r, amount, opid)
             /\ Answered(AcceptsCharge(r, amount, opid), Debit(r, amount, opid))
  BY <1>1, NextOnTrace
<1>2. ASSUME NEW m, Call(IssueCall(m), AcceptsSend(m), MutSend(m))
      PROVE  /\ OnTheWay /\ row.trace[place + 1] = IssueCall(m)
             /\ Answered(AcceptsSend(m), MutSend(m))
  BY <1>2, NextOnTrace
<1>3. ASSUME NEW m \in net, Call(DeliverCall(m), AcceptsDelivery(m), Credit(m))
      PROVE  /\ OnTheWay /\ row.trace[place + 1] = DeliverCall(m)
             /\ Answered(AcceptsDelivery(m), Credit(m))
  BY <1>3, NextOnTrace
<1>4. ASSUME NEW m \in net, Call(DropCall(m), TRUE, Drop(m))
      PROVE  OnTheWay /\ row.trace[place + 1] = DropCall(m)
  BY <1>4, NextOnTrace
<1> QED
  BY <1>1, <1>2, <1>3, <1>4 DEF MNext

\* Which call it was is read off the trace.
LEMMA CallKinds ==
  /\ \A r, amount, opid : ChargeCall(r, amount, opid).op = "charge"
  /\ \A m : IssueCall(m).op = "issue" /\ DeliverCall(m).op = "deliver" /\ DropCall(m).op = "drop"
  BY DEF ChargeCall, IssueCall, DeliverCall, DropCall

LEMMA ChargeMade ==
  ASSUME MNext, place \in Int, place' >= 1, NEW r, NEW amount, NEW opid,
         place + 1 \in 1 .. Len(row.trace) => row.trace[place + 1] = ChargeCall(r, amount, opid)
  PROVE  /\ OnTheWay /\ r \in Replicas /\ amount \in Amounts /\ opid \in Opids
         /\ Answered(AcceptsCharge(r, amount, opid), Debit(r, amount, opid))
<1>1. OnTheWay /\ row.trace[place + 1] = ChargeCall(r, amount, opid)
  BY CallOnTrace DEF OnTheWay
<1>2. PICK r1 \in Replicas, a1 \in Amounts, o1 \in Opids :
        /\ row.trace[place + 1] = ChargeCall(r1, a1, o1)
        /\ Answered(AcceptsCharge(r1, a1, o1), Debit(r1, a1, o1))
  BY <1>1, CallOnTrace, CallKinds
<1>3. r1 = r /\ a1 = amount /\ o1 = opid
  BY <1>1, <1>2 DEF ChargeCall
<1> QED
  BY <1>1, <1>2, <1>3

LEMMA SendMade ==
  ASSUME MNext, place \in Int, place' >= 1, NEW m,
         place + 1 \in 1 .. Len(row.trace) => row.trace[place + 1] = IssueCall(m)
  PROVE  /\ OnTheWay /\ m.src \in Replicas /\ m.dst \in Replicas
         /\ m.amount \in Amounts /\ m.tid \in Tids
         /\ Answered(AcceptsSend(m), MutSend(m))
<1>1. OnTheWay /\ row.trace[place + 1] = IssueCall(m)
  BY CallOnTrace DEF OnTheWay
<1>2. PICK src \in Replicas, dst \in Replicas, amount \in Amounts, tid \in Tids :
        LET n == Transfer(src, dst, amount, tid)
        IN  row.trace[place + 1] = IssueCall(n) /\ Answered(AcceptsSend(n), MutSend(n))
  BY <1>1, CallOnTrace, CallKinds
<1>3. m = Transfer(src, dst, amount, tid)
  BY <1>1, <1>2 DEF IssueCall
<1> QED
  BY <1>1, <1>2, <1>3 DEF Transfer

LEMMA DeliveryMade ==
  ASSUME MNext, place \in Int, place' >= 1, NEW m,
         place + 1 \in 1 .. Len(row.trace) => row.trace[place + 1] = DeliverCall(m)
  PROVE  OnTheWay /\ m \in net /\ Answered(AcceptsDelivery(m), Credit(m))
<1>1. OnTheWay /\ row.trace[place + 1] = DeliverCall(m)
  BY CallOnTrace DEF OnTheWay
<1>2. PICK n \in net :
        row.trace[place + 1] = DeliverCall(n) /\ Answered(AcceptsDelivery(n), Credit(n))
  BY <1>1, CallOnTrace, CallKinds
<1>3. m = n
  BY <1>1, <1>2 DEF DeliverCall
<1> QED
  BY <1>1, <1>2, <1>3

\* The start of every trace: the first replica holds the cap and nothing was
\* sent, authorised or received.
LEMMA Start ==
  ASSUME SuiteGenesis, Init
  PROVE  /\ \A r \in Replicas : escrow[r] = IF r = "a" THEN CAP ELSE 0
         /\ escrow["a"] = CAP /\ CAP \in Nat /\ CAP >= 2
         /\ DOMAIN applied = {} /\ DOMAIN sent = {} /\ recvd = {}
         /\ chargeCount = [o \in Opids |-> 0]
  BY ConstantsOK, EmptyDictType DEF SuiteGenesis, Init

\* The undamaged service does what it always does, and is not stopped.
LEMMA ControlStep ==
  ASSUME AmountsAboveZero, VerdictInv, row.cls = "EscrowService", MNext
  PROVE  ~raised' /\ CountsApplied'
<1>1. SoundInv /\ CountsApplied
  BY DEF VerdictInv
<1>2. [Next]_vars
  <2>1. ASSUME NEW r \in Replicas, NEW amount \in Amounts, NEW opid \in Opids,
               Call(ChargeCall(r, amount, opid), AcceptsCharge(r, amount, opid),
                    Debit(r, amount, opid))
        PROVE  [Next]_vars
    BY <2>1, CheckedCall DEF AcceptsCharge, Next, Charge
  <2>2. ASSUME NEW src \in Replicas, NEW dst \in Replicas, NEW amount \in Amounts,
               NEW tid \in Tids, NEW m, m = Transfer(src, dst, amount, tid),
               Call(IssueCall(m), AcceptsSend(m), MutSend(m))
        PROVE  [Next]_vars
    <3>1. m.src = src /\ m.dst = dst /\ m.amount = amount /\ m.tid = tid
      BY <2>2 DEF Transfer
    <3>2. UNCHANGED vars \/ (AcceptsSend(m) /\ MutSend(m))
      BY <2>2, CheckedCall
    <3>3. AcceptsSend(m) /\ MutSend(m) => SendTransfer(src, dst, amount, tid)
      BY <3>1 DEF AcceptsSend, MutSend, SendTransfer
    <3> QED
      BY <3>2, <3>3 DEF Next
  <2>3. ASSUME NEW m \in net, Call(DeliverCall(m), AcceptsDelivery(m), Credit(m))
        PROVE  [Next]_vars
    BY <2>3, CheckedCall DEF AcceptsDelivery, Next, Deliver
  <2>4. ASSUME NEW m \in net, Call(DropCall(m), TRUE, Drop(m))
        PROVE  [Next]_vars
    BY <2>4, CheckedCall DEF Next
  <2> QED
    BY <2>1, <2>2, <2>3, <2>4 DEF MNext
<1>3. ~raised'
  BY <1>1, <1>2, SuiteStep
<1>4. CountsApplied'
  BY <1>1, <1>2, NextCounts DEF SoundInv
<1> QED
  BY <1>3, <1>4

\* The class that credits every time: the first delivery of the trace is in
\* order, the second one is caught.
LEMMA NoDeliverDedupStep ==
  ASSUME AmountsAboveZero, SuiteGenesis, VerdictInv, MNext, place' >= 1,
         row.cls = "MutNoDeliverDedup"
  PROVE  TraceSoFar'
<1>1. row.trace = <<SendABOne, ToB, ToB>> /\ place \in Int
  BY SuiteRows DEF VerdictInv
<1>2. OnTheWay /\ place \in {0, 1, 2} /\ SoundInv
  BY <1>1, CallOnTrace DEF OnTheWay, VerdictInv
<1>3. CASE place = 0
  <2> DEFINE m == Transfer("a", "b", 1, "t1")
  <2>1. m.src = "a" /\ m.dst = "b" /\ m.amount = 1 /\ m.tid = "t1"
    BY DEF Transfer
  <2>2. row.trace[place + 1] = IssueCall(m)
    BY <1>1, <1>3 DEF SendABOne
  <2>3. /\ "a" \in Replicas /\ "b" \in Replicas /\ 1 \in Amounts /\ "t1" \in Tids
        /\ Answered(AcceptsSend(m), MutSend(m))
    BY <1>1, <2>1, <2>2, SendMade
  <2>4. Init
    BY <1>3 DEF VerdictInv
  <2>5. NotSent("t1") /\ Affordable("a", 1) /\ recvd = {}
    BY <2>4, Start DEF NotSent, Affordable
  <2>6. Emit("a", "b", 1, "t1")
    BY <2>1, <2>3, <2>5 DEF Answered, AcceptsSend, MutSend
  <2>7. Next
    BY <2>3, <2>5, <2>6 DEF Next, SendTransfer
  <2>8. ~raised'
    BY <1>2, <2>7, SuiteStep
  <2>9. Parcel \in net' /\ recvd' = {}
    BY <2>5, <2>6 DEF Emit, Parcel
  <2> QED
    BY <1>2, <1>3, <2>8, <2>9 DEF OnTheWay, TraceSoFar
<1>4. CASE place \in {1, 2}
  <2>1. row.trace[place + 1] = DeliverCall(Parcel)
    BY <1>1, <1>4 DEF ToB, Parcel
  <2>2. Parcel \in net /\ Answered(AcceptsDelivery(Parcel), Credit(Parcel))
    BY <1>1, <2>1, DeliveryMade
  <2>3. Credit(Parcel) /\ raised' = ~StrictCheck'
    BY <2>2 DEF Answered, AcceptsDelivery
  <2>4. net' = net /\ Parcel.tid \in recvd'
    BY <2>3 DEF Credit
  <2>5. CASE place = 1
    <3>1. Parcel.tid \notin recvd
      BY <2>5 DEF VerdictInv, TraceSoFar
    <3>2. Next
      BY <2>2, <2>3, <3>1 DEF Next, Deliver, NotReceived
    <3>3. ~raised'
      BY <1>2, <3>2, SuiteStep
    <3> QED
      BY <1>2, <2>2, <2>4, <2>5, <3>3 DEF OnTheWay, TraceSoFar
  <2>6. CASE place = 2
    <3>1. Parcel.tid \in recvd
      BY <2>6 DEF VerdictInv, TraceSoFar
    <3>2. raised'
      BY <1>2, <2>2, <2>3, <3>1, CreditedAgainFails
    <3> QED
      BY <1>2, <2>6, <3>2 DEF OnTheWay, TraceSoFar
  <2> QED
    BY <1>4, <2>5, <2>6
<1> QED
  BY <1>2, <1>3, <1>4

\* The classes that are stopped at the first call of the trace.
LEMMA StoppedAtOnce ==
  ASSUME AmountsAboveZero, SuiteGenesis, VerdictInv, MNext, place' >= 1,
         row.cls \in {"MutNoChargeGuard", "MutNoSendDebit"}
  PROVE  TraceSoFar'
<1>0. /\ \/ row.cls = "MutNoChargeGuard" /\ row.trace = <<ChargeCall("b", 1, "op1")>>
         \/ row.cls = "MutNoSendDebit" /\ row.trace = <<SendABOne>>
      /\ place \in Int
  BY SuiteRows DEF VerdictInv
<1>1. OnTheWay /\ place = 0
  BY <1>0, CallOnTrace DEF OnTheWay
<1>2. Init /\ SoundInv
  BY <1>1 DEF VerdictInv
<1>3. CASE row.cls = "MutNoChargeGuard"
  <2>1. row.trace[place + 1] = ChargeCall("b", 1, "op1")
    BY <1>0, <1>1, <1>3
  <2>2. "b" \in Replicas /\ Answered(AcceptsCharge("b", 1, "op1"), Debit("b", 1, "op1"))
    BY <1>0, <2>1, ChargeMade
  <2>3. Debit("b", 1, "op1") /\ raised' = ~StrictCheck'
    BY <1>3, <2>2 DEF Answered, AcceptsCharge
  <2>4. escrow["b"] = 0 /\ escrow \in [Replicas -> Nat]
    BY <1>2, <2>2, Start DEF SoundInv, TypeInv, TypeOK
  <2>5. escrow'["b"] = 0 - 1
    BY <2>2, <2>3, <2>4 DEF Debit
  <2>6. ~StrictCheck'
    BY <2>2, <2>5 DEF StrictCheck
  <2> QED
    BY <1>1, <1>3, <2>3, <2>6 DEF OnTheWay, TraceSoFar
<1>4. CASE row.cls = "MutNoSendDebit"
  <2> DEFINE m == Transfer("a", "b", 1, "t1")
  <2>1. m.src = "a" /\ m.dst = "b" /\ m.amount = 1 /\ m.tid = "t1"
    BY DEF Transfer
  <2>2. row.trace[place + 1] = IssueCall(m)
    BY <1>0, <1>1, <1>4 DEF SendABOne
  <2>3. m.amount \in Amounts /\ Answered(AcceptsSend(m), MutSend(m))
    BY <1>0, <2>2, SendMade
  <2>4. m.tid \notin DOMAIN sent
    BY <1>2, Start
  <2>5. EmitUndebited(m) /\ raised' = ~StrictCheck'
    BY <1>4, <2>3, <2>4 DEF Answered, AcceptsSend, MutSend, NotSent
  <2>6. ~StrictCheck'
    BY <1>2, <2>3, <2>4, <2>5, UndebitedFails
  <2> QED
    BY <1>1, <1>4, <2>5, <2>6 DEF OnTheWay, TraceSoFar
<1> QED
  BY <1>3, <1>4

\* The class that debits a charge id every time: no call is stopped, the count
\* of the id follows the trace.
LEMMA NoChargeIdempStep ==
  ASSUME AmountsAboveZero, SuiteGenesis, VerdictInv, MNext, place' >= 1,
         row.cls = "MutNoChargeIdemp"
  PROVE  TraceSoFar'
<1>1. row.trace = <<COne, COne>> /\ place \in Int
  BY SuiteRows DEF VerdictInv
<1>2. OnTheWay /\ place \in {0, 1} /\ SoundInv
  BY <1>1, CallOnTrace DEF OnTheWay, VerdictInv
<1>3. row.trace[place + 1] = ChargeCall("a", 1, "op1")
  BY <1>1, <1>2 DEF COne
<1>4. /\ "a" \in Replicas /\ 1 \in Amounts /\ "op1" \in Opids
      /\ Answered(AcceptsCharge("a", 1, "op1"), Debit("a", 1, "op1"))
  BY <1>1, <1>3, ChargeMade
<1>5. /\ escrow["a"] = CAP - place /\ chargeCount["op1"] = place
      /\ CAP \in Nat /\ CAP >= 2
  <2>1. CASE place = 0
    BY <1>4, <2>1, Start DEF VerdictInv
  <2>2. CASE place = 1
    BY <2>2, ConstantsOK DEF VerdictInv, TraceSoFar, SuiteGenesis
  <2> QED
    BY <1>2, <2>1, <2>2
<1>6. Affordable("a", 1)
  BY <1>2, <1>5 DEF Affordable
<1>7. Debit("a", 1, "op1")
  BY <1>4, <1>6 DEF Answered, AcceptsCharge
<1>8. ~raised'
  <2>1. CASE "op1" \in DOMAIN applied
    BY <1>2, <1>4, <1>6, <1>7, <2>1, SuiteStep DEF ChargedAgain
  <2>2. CASE "op1" \notin DOMAIN applied
    <3>1. Next
      BY <1>4, <1>6, <1>7, <2>2 DEF Next, Charge, NotApplied
    <3> QED
      BY <1>2, <3>1, SuiteStep
  <2> QED
    BY <2>1, <2>2
<1>9. escrow'["a"] = CAP - place - 1 /\ chargeCount'["op1"] = place + 1
  BY <1>2, <1>4, <1>5, <1>7 DEF Debit, SoundInv, TypeInv, TypeOK
<1> QED
  BY <1>2, <1>4, <1>5, <1>8, <1>9 DEF OnTheWay, TraceSoFar

\* The class that sends an id again: the second debit of the trace has nothing
\* in flight to answer for it.
LEMMA NoSendIdempStep ==
  ASSUME AmountsAboveZero, SuiteGenesis, VerdictInv, MNext, place' >= 1,
         row.cls = "MutNoSendIdemp"
  PROVE  TraceSoFar'
<1> DEFINE m == Transfer("a", "b", 1, "t1")
<1>0. m.src = "a" /\ m.dst = "b" /\ m.amount = 1 /\ m.tid = "t1"
  BY DEF Transfer
<1>1. row.trace = <<SendABOne, SendABOne>> /\ place \in Int
  BY SuiteRows DEF VerdictInv
<1>2. OnTheWay /\ place \in {0, 1} /\ SoundInv
  BY <1>1, CallOnTrace DEF OnTheWay, VerdictInv
<1>3. row.trace[place + 1] = IssueCall(m)
  BY <1>1, <1>2 DEF SendABOne
<1>4. /\ "a" \in Replicas /\ "b" \in Replicas /\ 1 \in Amounts /\ "t1" \in Tids
      /\ Answered(AcceptsSend(m), MutSend(m))
  BY <1>0, <1>1, <1>3, SendMade
<1>5. /\ escrow["a"] = CAP - place /\ CAP \in Nat /\ CAP >= 2
      /\ "t1" \in DOMAIN sent <=> place = 1
  <2>1. CASE place = 0
    BY <2>1, Start DEF VerdictInv
  <2>2. CASE place = 1
    BY <2>2, ConstantsOK DEF VerdictInv, TraceSoFar, SuiteGenesis
  <2> QED
    BY <1>2, <2>1, <2>2
<1>6. Affordable("a", 1)
  BY <1>2, <1>5 DEF Affordable
<1>7. Emit("a", "b", 1, "t1") /\ raised' = ~StrictCheck'
  BY <1>0, <1>4, <1>6 DEF Answered, AcceptsSend, MutSend
<1>8. CASE place = 0
  <2>1. Next
    BY <1>4, <1>5, <1>6, <1>7, <1>8 DEF Next, SendTransfer, NotSent
  <2>2. ~raised'
    BY <1>2, <2>1, SuiteStep
  <2>3. escrow'["a"] = CAP - 1
    BY <1>2, <1>4, <1>5, <1>7, <1>8 DEF Emit, SoundInv, TypeInv, TypeOK
  <2>4. "t1" \in DOMAIN sent'
    BY <1>7 DEF Emit, Put
  <2> QED
    BY <1>2, <1>8, <2>2, <2>3, <2>4 DEF OnTheWay, TraceSoFar
<1>9. CASE place = 1
  <2>1. ~StrictCheck'
    BY <1>2, <1>4, <1>5, <1>6, <1>7, <1>9, ResentFails
  <2>2. raised'
    BY <1>7, <2>1
  <2>3. row' = row /\ place' = 2
    BY <1>2, <1>9 DEF OnTheWay
  <2> QED
    BY <2>2, <2>3 DEF TraceSoFar
<1> QED
  BY <1>2, <1>8, <1>9

\* Every row starts with the state of the constructor.
LEMMA InitVerdictInv == MInit => VerdictInv
<1> SUFFICES ASSUME MInit PROVE VerdictInv
  OBVIOUS
<1>1. SoundInv
  BY InitServiceInv DEF MInit, ServiceInv, SoundInv
<1>2. CountsApplied
  BY EmptyDictType DEF MInit, Init, CountsApplied
<1> QED
  BY <1>1, <1>2 DEF MInit, VerdictInv

\* Every call keeps what the traces have done so far.
LEMMA NextVerdictInv ==
  ASSUME AmountsAboveZero, SuiteGenesis
  PROVE  VerdictInv /\ [MNext]_mvars => VerdictInv'
<1> SUFFICES ASSUME VerdictInv, [MNext]_mvars PROVE VerdictInv'
  OBVIOUS
<1>1. CASE MNext
  <2>1. row' = row /\ place' \in Int /\ place' # 0
    BY <1>1 DEF MNext, Call, Advance, Off, VerdictInv
  <2>2. ~raised' => SoundInv'
    BY <1>1, SuiteStep DEF VerdictInv
  <2>3. row.cls = "EscrowService" => ~raised' /\ CountsApplied'
    BY <1>1, ControlStep
  <2>4. ASSUME place' >= 1 PROVE TraceSoFar'
    <3>1. CASE row.cls = "EscrowService"
      BY <2>1, <3>1 DEF TraceSoFar
    <3>2. CASE row.cls # "EscrowService"
      <4>1. row.cls \in {"MutNoDeliverDedup", "MutNoChargeGuard", "MutNoSendDebit",
                         "MutNoChargeIdemp", "MutNoSendIdemp"}
        BY <3>2, SuiteRows DEF VerdictInv
      <4> QED
        BY <1>1, <2>4, <4>1, NoDeliverDedupStep, StoppedAtOnce, NoChargeIdempStep,
           NoSendIdempStep
    <3> QED
      BY <3>1, <3>2
  <2> QED
    BY <2>1, <2>2, <2>3, <2>4 DEF VerdictInv
<1>2. CASE UNCHANGED mvars
  <2>1. UNCHANGED <<escrow, spent, applied, sent, recvd, net, chargeCount, row, place, raised>>
    BY <1>2 DEF mvars, vars
  <2>2. (SoundInv <=> SoundInv') /\ (CountsApplied <=> CountsApplied') /\ (Init <=> Init')
        /\ (TraceSoFar <=> TraceSoFar')
    BY <2>1 DEF SoundInv, TypeInv, TypeOK, MessagesBacked, Quantity, TotalEscrow, TotalSpent,
                InFlight, InTransit, Owed, CountsApplied, Init, TraceSoFar
  <2> QED
    BY <2>1, <2>2 DEF VerdictInv
<1> QED
  BY <1>1, <1>2

\* On the file's traces the strict check, or the audit of requests, kills every
\* damaged service as the file says and the undamaged one survives: for every
\* cap from two upwards and whatever other replicas, ids and amounts there are.
THEOREM ReferenceSuiteVerdict ==
  ASSUME AmountsAboveZero, SuiteGenesis PROVE MSpec => []SuiteVerdict
<1>1. VerdictInv => SuiteVerdict
  <2> SUFFICES ASSUME VerdictInv, place = Len(row.trace) PROVE Killer = row.expected
    BY DEF SuiteVerdict
  <2>1. CASE row.cls = "EscrowService"
    <3>1. ~raised /\ PerRequestOk /\ row.expected = "SURVIVED"
      BY <2>1, SuiteRows DEF VerdictInv, CountsApplied, PerRequestOk
    <3> QED
      BY <3>1 DEF Killer
  <2>2. CASE row.cls = "MutNoChargeIdemp"
    <3>1. place = 2 /\ row.expected = "per-request"
      BY <2>2, SuiteRows DEF VerdictInv
    <3>2. ~raised /\ "op1" \in Opids /\ chargeCount["op1"] = 2
      BY <2>2, <3>1 DEF VerdictInv, TraceSoFar
    <3>3. ~PerRequestOk
      BY <3>2 DEF PerRequestOk
    <3> QED
      BY <3>1, <3>2, <3>3 DEF Killer
  <2>3. CASE row.cls \notin {"EscrowService", "MutNoChargeIdemp"}
    <3>1. row.expected = "invariant" /\ place >= 1
          /\ (row.cls = "MutNoDeliverDedup" => place = 3)
          /\ (row.cls = "MutNoSendIdemp" => place = 2)
          /\ row.cls \in {"MutNoDeliverDedup", "MutNoSendIdemp", "MutNoChargeGuard",
                         "MutNoSendDebit"}
      <4>1. row \in MUTANTS \cup Controls(MUTANTS, "EscrowService")
        BY DEF VerdictInv
      <4>2. \/ row.cls = "MutNoDeliverDedup" /\ row.trace = <<SendABOne, ToB, ToB>>
            \/ row.cls = "MutNoSendIdemp" /\ row.trace = <<SendABOne, SendABOne>>
            \/ row.cls = "MutNoChargeGuard" /\ row.trace = <<ChargeCall("b", 1, "op1")>>
            \/ row.cls = "MutNoSendDebit" /\ row.trace = <<SendABOne>>
        BY <2>3, <4>1, SuiteRows
      <4>3. row.expected = "invariant"
        BY <2>3, <4>1, SuiteRows
      <4>4. CASE row.cls = "MutNoDeliverDedup"
        <5>1. row.trace = <<SendABOne, ToB, ToB>>
          BY <4>2, <4>4
        <5> QED
          BY <4>3, <4>4, <5>1
      <4>5. CASE row.cls = "MutNoSendIdemp"
        <5>1. row.trace = <<SendABOne, SendABOne>>
          BY <4>2, <4>5
        <5> QED
          BY <4>3, <4>5, <5>1
      <4>6. CASE row.cls \in {"MutNoChargeGuard", "MutNoSendDebit"}
        <5>1. PICK call : row.trace = <<call>>
          BY <4>2, <4>6
        <5> QED
          BY <4>3, <4>6, <5>1
      <4> QED
        BY <4>2, <4>4, <4>5, <4>6
    <3>2. raised
      BY <3>1 DEF VerdictInv, TraceSoFar
    <3> QED
      BY <3>1, <3>2 DEF Killer
  <2> QED
    BY <2>1, <2>2, <2>3
<1> QED
  BY <1>1, InitVerdictInv, NextVerdictInv, PTL DEF MSpec

\* Off the traces as well: no sequence of calls stops the undamaged service or
\* makes it debit a charge id twice.
THEOREM UndamagedSurvives ==
  ASSUME AmountsAboveZero, SuiteGenesis
  PROVE  MSpec => [](row.cls = "EscrowService" => Killer = "SURVIVED")
<1>1. VerdictInv => (row.cls = "EscrowService" => Killer = "SURVIVED")
  BY DEF VerdictInv, Killer, CountsApplied, PerRequestOk
<1> QED
  BY <1>1, InitVerdictInv, NextVerdictInv, PTL DEF MSpec
=============================================================================
