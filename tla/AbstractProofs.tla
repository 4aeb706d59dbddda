--------------------------- MODULE AbstractProofs ---------------------------
(***************************************************************************)
(* The explorer of spec_model.py and the ledger of rights, for every       *)
(* instance.                                                               *)
(*                                                                         *)
(* The explorer's envelope is not inductive: a message credits the amount  *)
(* looked up for its id, which must have been debited and must still be in *)
(* flight.  It is proved twice, of the relation (for any finite set of     *)
(* replicas, any ids, natural amounts and any cap) and of the records that *)
(* the search goes through, because the search holds many states at once.  *)
(* That both have the same transitions is SuccessorsAreTransitions.        *)
(*                                                                         *)
(* The ledger of rights never spends more than the cap, however replicas   *)
(* spend, lose, give and receive rights.  Every service that implements    *)
(* it inherits this.                                                       *)
(***************************************************************************)
EXTENDS SpecModel, ExplorerSearch, SumsProofs

-----------------------------------------------------------------------------
(* The explorer's relation.                                                *)

\* What the constants at the head of spec_model.py are an instance of.
Configured == IsFiniteSet(Replicas) /\ Amounts \subseteq Nat /\ CAP \in Nat

\* Types, and messages only of transfers that were debited.
SpecTypeInv ==
  /\ escrow \in [Replicas -> Nat] /\ spent \in [Replicas -> Nat]
  /\ sentT \subseteq Tids /\ IsFiniteSet(sentT)
  /\ recvd \subseteq sentT
  /\ amtOf \in [Tids -> Nat]
  /\ net \subseteq Replicas \X sentT

SpecInv == SpecTypeInv /\ Quantity = CAP

\* The totals are totals of natural numbers over finite sets.
LEMMA SpecTotalsType ==
  ASSUME Configured, SpecTypeInv
  PROVE  /\ IsFiniteSet(sentT \ recvd) /\ NatOn(amtOf, sentT \ recvd)
         /\ NatOn(escrow, Replicas) /\ NatOn(spent, Replicas)
         /\ SumOver(escrow, Replicas) \in Nat /\ SumOver(spent, Replicas) \in Nat
         /\ InFlight \in Nat
<1>1. IsFiniteSet(sentT \ recvd) /\ NatOn(amtOf, sentT \ recvd)
  BY FS_Subset DEF SpecTypeInv, NatOn
<1>2. NatOn(escrow, Replicas) /\ NatOn(spent, Replicas)
  BY DEF SpecTypeInv, NatOn
<1> QED
  BY <1>1, <1>2, SumType DEF Configured, InFlight

\* Genesis holds the whole cap.
LEMMA InitSpecInv == ASSUME Configured, SInit PROVE SpecInv
<1>1. PICK genesis \in Replicas :
        escrow = [r \in Replicas |-> IF r = genesis THEN CAP ELSE 0]
  BY DEF SInit
<1>2. SpecTypeInv
  BY <1>1, FS_EmptySet DEF SInit, SpecTypeInv, Configured
<1>3. SumOver(spent, Replicas) = 0 /\ InFlight = 0
  BY SumZero, SumEmpty DEF SInit, InFlight
<1>4. SumOver(escrow, Replicas) = CAP
  <2>1. SumOver(escrow, Replicas)
          = SumOver(escrow, Replicas \ {genesis}) + escrow[genesis]
    BY <1>2, SpecTotalsType, SumRemove DEF Configured
  <2>2. SumOver(escrow, Replicas \ {genesis}) = 0
    BY <1>1, SumZero
  <2> QED
    BY <1>1, <2>1, <2>2 DEF Configured
<1> QED
  BY <1>2, <1>3, <1>4 DEF SpecInv, Quantity, Configured

\* A charge moves budget from escrow to spent at one replica.
LEMMA ChargeKeepsSpec ==
  ASSUME Configured, SpecInv, NEW r \in Replicas, NEW cid \in Cids,
         NEW amount \in Amounts, Charge(r, cid, amount)
  PROVE  SpecInv'
<1>1. /\ amount \in Nat /\ escrow[r] \in Nat /\ spent[r] \in Nat
      /\ escrow'[r] = escrow[r] - amount /\ spent'[r] = spent[r] + amount
      /\ \A s \in Replicas \ {r} : escrow'[s] = escrow[s] /\ spent'[s] = spent[s]
  BY DEF Charge, SpecInv, SpecTypeInv, Configured
<1>2. SpecTypeInv'
  BY <1>1 DEF Charge, SpecInv, SpecTypeInv
<1>3. SumOver(escrow', Replicas) = SumOver(escrow, Replicas) - amount
  <2>1. NatOn(escrow, Replicas) /\ NatOn(escrow', Replicas)
    BY <1>2 DEF SpecInv, SpecTypeInv, NatOn
  <2> QED
    BY <1>1, <2>1, SpecTotalsType, SumUpdate DEF SpecInv, Configured
<1>4. SumOver(spent', Replicas) = SumOver(spent, Replicas) + amount
  <2>1. NatOn(spent, Replicas) /\ NatOn(spent', Replicas)
    BY <1>2 DEF SpecInv, SpecTypeInv, NatOn
  <2> QED
    BY <1>1, <2>1, SpecTotalsType, SumUpdate DEF SpecInv, Configured
<1>5. InFlight' = InFlight
  BY DEF Charge, InFlight
<1> QED
  BY <1>1, <1>2, <1>3, <1>4, <1>5, SpecTotalsType DEF SpecInv, Quantity

\* A first send moves budget from escrow into flight.
LEMMA SendFirstKeepsSpec ==
  ASSUME Configured, SpecInv, NEW i \in Replicas, NEW j \in Replicas,
         NEW t \in Tids, NEW amount \in Amounts, SendFirst(i, j, t, amount)
  PROVE  SpecInv'
<1>1. /\ amount \in Nat /\ escrow[i] \in Nat
      /\ escrow'[i] = escrow[i] - amount
      /\ \A s \in Replicas \ {i} : escrow'[s] = escrow[s]
  BY DEF SendFirst, SpecInv, SpecTypeInv, Configured
<1>2. SpecTypeInv'
  <2>1. IsFiniteSet(sentT')
    BY FS_AddElement DEF SendFirst, SpecInv, SpecTypeInv
  <2>2. net' \subseteq Replicas \X sentT'
    BY DEF SendFirst, SpecInv, SpecTypeInv
  <2> QED
    BY <1>1, <2>1, <2>2 DEF SendFirst, SpecInv, SpecTypeInv
<1>3. SumOver(escrow', Replicas) = SumOver(escrow, Replicas) - amount
  <2>1. NatOn(escrow, Replicas) /\ NatOn(escrow', Replicas)
    BY <1>2 DEF SpecInv, SpecTypeInv, NatOn
  <2> QED
    BY <1>1, <2>1, SpecTotalsType, SumUpdate DEF SpecInv, Configured
<1>4. InFlight' = InFlight + amount
  <2> DEFINE open == sentT \ recvd
  <2>1. t \notin open /\ sentT' \ recvd' = open \cup {t}
    BY DEF SendFirst, SpecInv, SpecTypeInv
  <2>2. amtOf'[t] = amount /\ \A u \in open : amtOf'[u] = amtOf[u]
    BY <2>1 DEF SendFirst, SpecInv, SpecTypeInv
  <2>3. IsFiniteSet(open) /\ NatOn(amtOf', open \cup {t})
    BY <1>1, <1>2, <2>1, SpecTotalsType DEF SpecInv, SpecTypeInv, NatOn
  <2>4. SumOver(amtOf', open \cup {t}) = SumOver(amtOf', open) + amtOf'[t]
    BY <2>1, <2>3, SumAdd
  <2>5. SumOver(amtOf', open) = SumOver(amtOf, open)
    BY <2>2, SumAgree
  <2> QED
    BY <2>1, <2>2, <2>4, <2>5 DEF InFlight
<1>5. spent' = spent
  BY DEF SendFirst
<1> QED
  BY <1>1, <1>2, <1>3, <1>4, <1>5, SpecTotalsType DEF SpecInv, Quantity

\* A receipt moves what was debited for the id out of flight.
LEMMA RecvKeepsSpec ==
  ASSUME Configured, SpecInv, NEW m \in net, Recv(m[1], m[2])
  PROVE  SpecInv'
<1> DEFINE to == m[1]
           t  == m[2]
<1>1. to \in Replicas /\ t \in sentT /\ t \notin recvd /\ amtOf[t] \in Nat
  BY DEF Recv, SpecInv, SpecTypeInv
<1>2. /\ escrow[to] \in Nat /\ escrow'[to] = escrow[to] + amtOf[t]
      /\ \A s \in Replicas \ {to} : escrow'[s] = escrow[s]
  BY <1>1 DEF Recv, SpecInv, SpecTypeInv
<1>3. SpecTypeInv'
  BY <1>1, <1>2 DEF Recv, SpecInv, SpecTypeInv
<1>4. SumOver(escrow', Replicas) = SumOver(escrow, Replicas) + amtOf[t]
  <2>1. NatOn(escrow, Replicas) /\ NatOn(escrow', Replicas)
    BY <1>3 DEF SpecInv, SpecTypeInv, NatOn
  <2> QED
    BY <1>1, <1>2, <2>1, SpecTotalsType, SumUpdate DEF SpecInv, Configured
<1>5. InFlight = InFlight' + amtOf[t]
  <2>1. t \in sentT \ recvd /\ sentT' \ recvd' = (sentT \ recvd) \ {t}
    BY <1>1 DEF Recv
  <2>2. SumOver(amtOf, sentT \ recvd)
          = SumOver(amtOf, (sentT \ recvd) \ {t}) + amtOf[t]
    BY <2>1, SpecTotalsType, SumRemove DEF SpecInv
  <2> QED
    BY <2>1, <2>2 DEF Recv, InFlight
<1>6. InFlight' \in Nat
  BY <1>3, SpecTotalsType, SumType, FS_Subset DEF SpecTypeInv, InFlight, NatOn
<1>7. spent' = spent
  BY DEF Recv
<1> QED
  BY <1>1, <1>3, <1>4, <1>5, <1>6, <1>7, SpecTotalsType DEF SpecInv, Quantity

\* Every transition keeps the invariant; a drop leaves the id in sentT, so its
\* amount stays in flight.
LEMMA NextSpecInv == ASSUME Configured, SpecInv, [SNext]_svars PROVE SpecInv'
<1>1. ASSUME NEW r \in Replicas, NEW cid \in Cids, NEW amount \in Amounts,
             Charge(r, cid, amount)
      PROVE  SpecInv'
  BY <1>1, ChargeKeepsSpec
<1>2. ASSUME NEW i \in Replicas, NEW j \in Replicas, NEW t \in Tids,
             NEW amount \in Amounts, SendFirst(i, j, t, amount)
      PROVE  SpecInv'
  BY <1>2, SendFirstKeepsSpec
<1>3. ASSUME NEW m \in net, Recv(m[1], m[2])
      PROVE  SpecInv'
  BY <1>3, RecvKeepsSpec
<1>4. CASE net' \subseteq net /\ UNCHANGED <<escrow, spent, sentT, recvd, amtOf>>
  BY <1>4 DEF SpecInv, SpecTypeInv, Quantity, InFlight
<1> QED
  BY <1>1, <1>2, <1>3, <1>4 DEF SNext, Drop, svars

\* The tests of explore() succeed on every state of every instance: the spent
\* is within the cap and the budget adds up to it.
THEOREM EnvelopeHolds == ASSUME Configured PROVE SSpec => []CheckEnvelope
<1>1. SInit => SpecInv
  BY InitSpecInv
<1>2. SpecInv /\ [SNext]_svars => SpecInv'
  BY NextSpecInv
<1>3. SpecInv => CheckEnvelope
  BY SpecTotalsType DEF SpecInv, CheckEnvelope, Quantity, Configured
<1> QED
  BY <1>1, <1>2, <1>3, PTL DEF SSpec

-----------------------------------------------------------------------------
(* The search: what it sees, and that no state it visits fails a test.     *)

\* A state as the search builds it: types, messages only of transfers that were
\* debited, and the budget adds up to the cap.
Shaped(s) ==
  /\ s.escrow \in [Members -> Nat] /\ s.spent \in [Members -> Nat]
  /\ s.sentT \subseteq TIDS /\ IsFiniteSet(s.sentT)
  /\ s.recvd \subseteq s.sentT
  /\ s.amtOf \in [TIDS -> Nat]
  /\ s.net \subseteq Members \X s.sentT

Balanced(s) == Shaped(s) /\ quantity(s) = cap

\* The replicas are finitely many, and the genesis is one of them.
LEMMA MembersFinite == IsFiniteSet(Members) /\ Head(REPLICAS) \in Members
<1> DEFINE places == 1 .. Len(REPLICAS)
<1>1. REPLICAS \in Seq(Members) /\ Len(REPLICAS) \in Nat /\ 1 \in places
  BY SearchOK DEF Members
<1>2. REPLICAS \in [places -> Members] /\ Members = {REPLICAS[i] : i \in places}
  BY <1>1 DEF Members, ToSet
<1>3. REPLICAS \in Surjection(places, Members)
  BY <1>2 DEF Surjection
<1>4. IsFiniteSet(places)
  BY <1>1, FS_Interval
<1>5. Head(REPLICAS) = REPLICAS[1]
  BY <1>1
<1> HIDE DEF places
<1> QED
  BY <1>1, <1>2, <1>3, <1>4, <1>5, FS_Surjection

\* The totals of a state are totals of natural numbers over finite sets.
LEMMA StateTotals ==
  ASSUME NEW s, Shaped(s)
  PROVE  /\ IsFiniteSet(s.sentT \ s.recvd) /\ NatOn(s.amtOf, s.sentT \ s.recvd)
         /\ NatOn(s.escrow, Members) /\ NatOn(s.spent, Members)
         /\ SumOver(s.escrow, Members) \in Nat /\ SumOver(s.spent, Members) \in Nat
         /\ inflight(s) \in Nat
<1>1. IsFiniteSet(s.sentT \ s.recvd) /\ NatOn(s.amtOf, s.sentT \ s.recvd)
  BY FS_Subset DEF Shaped, NatOn
<1>2. NatOn(s.escrow, Members) /\ NatOn(s.spent, Members)
  BY DEF Shaped, NatOn
<1> QED
  BY <1>1, <1>2, SumType, MembersFinite DEF inflight

\* One balance of a state changes.
LEMMA StateUpdate ==
  ASSUME NEW f \in [Members -> Nat], NEW r \in Members, NEW v \in Nat
  PROVE  /\ [f EXCEPT ![r] = v] \in [Members -> Nat]
         /\ SumOver([f EXCEPT ![r] = v], Members) = SumOver(f, Members) - f[r] + v
<1> DEFINE g == [f EXCEPT ![r] = v]
<1>1. /\ g \in [Members -> Nat] /\ g[r] = v
      /\ \A s \in Members \ {r} : g[s] = f[s]
  OBVIOUS
<1>2. NatOn(f, Members) /\ NatOn(g, Members)
  BY <1>1 DEF NatOn
<1> HIDE DEF g
<1>3. SumOver(g, Members) = SumOver(f, Members) - f[r] + g[r]
  BY <1>1, <1>2, SumUpdate, MembersFinite
<1> QED
  BY <1>1, <1>3 DEF g

\* The first state of the search is balanced.
LEMMA StartBalanced == ASSUME cap \in Nat PROVE Balanced(init_state)
<1> DEFINE s == init_state
           genesis == Head(REPLICAS)
<1>1. /\ s.escrow = [r \in Members |-> IF r = genesis THEN cap ELSE 0]
      /\ s.spent = [r \in Members |-> 0] /\ s.net = {} /\ s.sentT = {} /\ s.recvd = {}
      /\ s.amtOf = [t \in TIDS |-> 0]
  BY DEF init_state
<1> HIDE DEF s
<1>2. Shaped(s)
  BY <1>1, FS_EmptySet DEF Shaped
<1>3. SumOver(s.spent, Members) = 0 /\ inflight(s) = 0
  BY <1>1, SumZero, SumEmpty DEF inflight
<1>4. SumOver(s.escrow, Members) = cap
  <2>1. SumOver(s.escrow, Members)
          = SumOver(s.escrow, Members \ {genesis}) + s.escrow[genesis]
    BY <1>2, StateTotals, SumRemove, MembersFinite
  <2>2. SumOver(s.escrow, Members \ {genesis}) = 0
    BY <1>1, SumZero
  <2>3. s.escrow[genesis] = cap
    BY <1>1, MembersFinite
  <2> QED
    BY <2>1, <2>2, <2>3
<1> QED
  BY <1>2, <1>3, <1>4 DEF Balanced, quantity, s

\* A charge moves budget from escrow to spent at one replica.
LEMMA ChargedBalanced ==
  ASSUME NEW s, Balanced(s), NEW r \in Members, NEW cid, NEW a \in affordable(s, r)
  PROVE  Balanced(charged(s, r, cid, a))
<1>0. /\ Shaped(s) /\ quantity(s) = cap
      /\ SumOver(s.escrow, Members) \in Nat /\ SumOver(s.spent, Members) \in Nat
      /\ inflight(s) \in Nat
  BY StateTotals DEF Balanced
<1> DEFINE t == charged(s, r, cid, a)
<1>1. /\ t.escrow = [s.escrow EXCEPT ![r] = s.escrow[r] - a]
      /\ t.spent = [s.spent EXCEPT ![r] = s.spent[r] + a]
      /\ t.net = s.net /\ t.sentT = s.sentT /\ t.recvd = s.recvd /\ t.amtOf = s.amtOf
  BY DEF charged
<1> HIDE DEF t
<1>2. /\ a \in Nat /\ s.escrow[r] \in Nat /\ s.spent[r] \in Nat
      /\ s.escrow[r] - a \in Nat /\ s.spent[r] + a \in Nat
  <2>1. a \in AMOUNTS /\ a <= s.escrow[r]
    BY DEF affordable
  <2>2. s.escrow[r] \in Nat /\ s.spent[r] \in Nat
    BY <1>0 DEF Shaped
  <2> QED
    BY <2>1, <2>2, SearchOK
<1>3. /\ t.escrow \in [Members -> Nat] /\ t.spent \in [Members -> Nat]
      /\ SumOver(t.escrow, Members) = SumOver(s.escrow, Members) - a
      /\ SumOver(t.spent, Members) = SumOver(s.spent, Members) + a
  <2>1. s.escrow \in [Members -> Nat] /\ s.spent \in [Members -> Nat]
    BY <1>0 DEF Shaped
  <2>2. /\ t.escrow \in [Members -> Nat]
        /\ SumOver(t.escrow, Members)
             = SumOver(s.escrow, Members) - s.escrow[r] + (s.escrow[r] - a)
    BY <1>1, <1>2, <2>1, StateUpdate
  <2>3. /\ t.spent \in [Members -> Nat]
        /\ SumOver(t.spent, Members)
             = SumOver(s.spent, Members) - s.spent[r] + (s.spent[r] + a)
    BY <1>1, <1>2, <2>1, StateUpdate
  <2> QED
    BY <1>0, <1>2, <2>2, <2>3
<1>4. inflight(t) = inflight(s)
  BY <1>1 DEF inflight
<1>5. Shaped(t)
  BY <1>0, <1>1, <1>3 DEF Shaped
<1>6. Balanced(t)
  BY <1>0, <1>2, <1>3, <1>4, <1>5 DEF Balanced, quantity
<1> QED
  BY <1>6 DEF t

\* A first send moves budget from escrow into flight.
LEMMA SentBalanced ==
  ASSUME NEW s, Balanced(s), NEW i \in Members, NEW j \in Members,
         NEW tid \in TIDS \ s.sentT, NEW a \in affordable(s, i)
  PROVE  Balanced(sent(s, i, j, tid, a))
<1>0. /\ Shaped(s) /\ quantity(s) = cap
      /\ SumOver(s.escrow, Members) \in Nat /\ SumOver(s.spent, Members) \in Nat
      /\ inflight(s) \in Nat
  BY StateTotals DEF Balanced
<1> DEFINE t == sent(s, i, j, tid, a)
           open == s.sentT \ s.recvd
<1>1. /\ t.escrow = [s.escrow EXCEPT ![i] = s.escrow[i] - a] /\ t.spent = s.spent
      /\ t.net = s.net \cup {<<j, tid>>} /\ t.sentT = s.sentT \cup {tid}
      /\ t.recvd = s.recvd /\ t.amtOf = [s.amtOf EXCEPT ![tid] = a]
  BY DEF sent
<1> HIDE DEF t, open
<1>2. a \in Nat /\ s.escrow[i] \in Nat /\ s.escrow[i] - a \in Nat
  <2>1. a \in AMOUNTS /\ a <= s.escrow[i]
    BY DEF affordable
  <2>2. s.escrow[i] \in Nat
    BY <1>0 DEF Shaped
  <2> QED
    BY <2>1, <2>2, SearchOK
<1> USE DEF open
<1>3. /\ t.escrow \in [Members -> Nat]
      /\ SumOver(t.escrow, Members) = SumOver(s.escrow, Members) - a
  <2>1. s.escrow \in [Members -> Nat]
    BY <1>0 DEF Shaped
  <2>2. /\ t.escrow \in [Members -> Nat]
        /\ SumOver(t.escrow, Members)
             = SumOver(s.escrow, Members) - s.escrow[i] + (s.escrow[i] - a)
    BY <1>1, <1>2, <2>1, StateUpdate
  <2> QED
    BY <1>0, <1>2, <2>2
<1>4. Shaped(t)
  <2>1. IsFiniteSet(t.sentT)
    BY <1>0, <1>1, FS_AddElement DEF Shaped
  <2>2. t.net \subseteq Members \X t.sentT
    BY <1>0, <1>1 DEF Shaped
  <2>3. t.amtOf \in [TIDS -> Nat] /\ t.sentT \subseteq TIDS /\ t.recvd \subseteq t.sentT
    BY <1>0, <1>1, <1>2 DEF Shaped
  <2> QED
    BY <1>0, <1>1, <1>3, <2>1, <2>2, <2>3 DEF Shaped
<1>5. inflight(t) = inflight(s) + a
  <2>1. tid \notin open /\ t.sentT \ t.recvd = open \cup {tid}
    BY <1>0, <1>1 DEF Shaped
  <2>2. t.amtOf[tid] = a /\ \A u \in open : t.amtOf[u] = s.amtOf[u]
    BY <1>0, <1>1, <2>1 DEF Shaped
  <2>3. IsFiniteSet(open) /\ NatOn(t.amtOf, open \cup {tid})
    BY <1>4, <2>1, StateTotals DEF Balanced
  <2>4. SumOver(t.amtOf, open \cup {tid}) = SumOver(t.amtOf, open) + t.amtOf[tid]
    BY <2>1, <2>3, SumAdd
  <2>5. SumOver(t.amtOf, open) = SumOver(s.amtOf, open)
    BY <2>2, SumAgree
  <2> QED
    BY <2>1, <2>2, <2>4, <2>5 DEF inflight
<1>6. Balanced(t)
  BY <1>0, <1>1, <1>2, <1>3, <1>4, <1>5 DEF Balanced, quantity
<1> QED
  BY <1>6 DEF t

\* A receipt moves what was debited for the id out of flight.
LEMMA ReceivedBalanced ==
  ASSUME NEW s, Balanced(s), NEW m \in s.net, m[2] \notin s.recvd
  PROVE  Balanced(received(s, m))
<1>0. /\ Shaped(s) /\ quantity(s) = cap
      /\ SumOver(s.escrow, Members) \in Nat /\ SumOver(s.spent, Members) \in Nat
      /\ inflight(s) \in Nat
  BY StateTotals DEF Balanced
<1> DEFINE t == received(s, m)
           open == s.sentT \ s.recvd
<1>1. /\ t.escrow = [s.escrow EXCEPT ![m[1]] = s.escrow[m[1]] + s.amtOf[m[2]]]
      /\ t.spent = s.spent /\ t.net = s.net /\ t.sentT = s.sentT
      /\ t.recvd = s.recvd \cup {m[2]} /\ t.amtOf = s.amtOf
  BY DEF received
<1>2. /\ m[1] \in Members /\ m[2] \in open /\ s.amtOf[m[2]] \in Nat
      /\ s.escrow[m[1]] \in Nat /\ s.escrow[m[1]] + s.amtOf[m[2]] \in Nat
  BY <1>0 DEF Shaped
<1> HIDE DEF t
<1>3. /\ t.escrow \in [Members -> Nat]
      /\ SumOver(t.escrow, Members) = SumOver(s.escrow, Members) + s.amtOf[m[2]]
  <2>1. s.escrow \in [Members -> Nat]
    BY <1>0 DEF Shaped
  <2>2. /\ t.escrow \in [Members -> Nat]
        /\ SumOver(t.escrow, Members)
             = SumOver(s.escrow, Members) - s.escrow[m[1]] + (s.escrow[m[1]] + s.amtOf[m[2]])
    BY <1>1, <1>2, <2>1, StateUpdate
  <2> QED
    BY <1>0, <1>2, <2>2
<1>4. Shaped(t)
  BY <1>0, <1>1, <1>2, <1>3 DEF Shaped
<1>5. inflight(s) = inflight(t) + s.amtOf[m[2]] /\ inflight(t) \in Nat
  <2>1. t.sentT \ t.recvd = open \ {m[2]}
    BY <1>1
  <2>2. SumOver(s.amtOf, open) = SumOver(s.amtOf, open \ {m[2]}) + s.amtOf[m[2]]
    BY <1>2, StateTotals, SumRemove DEF Balanced
  <2> QED
    BY <1>1, <1>4, <2>1, <2>2, StateTotals DEF inflight
<1>6. Balanced(t)
  BY <1>0, <1>1, <1>2, <1>3, <1>4, <1>5 DEF Balanced, quantity
<1> QED
  BY <1>6 DEF t

\* A loss leaves the id in sentT, so its amount stays in flight.
LEMMA DroppedBalanced ==
  ASSUME NEW s, Balanced(s), NEW m \in s.net
  PROVE  Balanced(dropped(s, m))
  BY DEF dropped, Balanced, Shaped, quantity, inflight

\* All successors of a balanced state are balanced, and none of them fails.
LEMMA SuccessorsBalanced ==
  ASSUME NEW s, Balanced(s)
  PROVE  \A t \in successors(s) : Balanced(t)
<1>1. \A t \in Charges(s) : Balanced(t)
  BY ChargedBalanced DEF Charges
<1>2. \A t \in Sends(s) : Balanced(t)
  BY SentBalanced DEF Sends
<1>3. \A t \in Recvs(s) : Balanced(t)
  BY ReceivedBalanced DEF Recvs
<1>4. \A t \in Drops(s) : Balanced(t)
  BY DroppedBalanced DEF Drops
<1> QED
  BY <1>1, <1>2, <1>3, <1>4 DEF successors

LEMMA BalancedPasses == ASSUME cap \in Nat, NEW s, Balanced(s) PROVE ~Fails(s)
<1>1. Shaped(s) /\ quantity(s) = cap
  BY DEF Balanced
<1>2. /\ SumOver(s.escrow, Members) \in Nat /\ SumOver(s.spent, Members) \in Nat
      /\ inflight(s) \in Nat
  BY <1>1, StateTotals
<1>3. SumOver(s.spent, Members) <= cap
  BY <1>1, <1>2 DEF quantity
<1> QED
  BY <1>1, <1>3 DEF Fails

\* What a queue contains after popleft and after append.
LEMMA QueueContents ==
  ASSUME NEW S, NEW queue \in Seq(S)
  PROVE  /\ ToSet(queue) \subseteq S
         /\ queue # <<>> =>
              /\ Head(queue) \in S /\ Tail(queue) \in Seq(S)
              /\ ToSet(queue) \subseteq {Head(queue)} \cup ToSet(Tail(queue))
              /\ ToSet(Tail(queue)) \subseteq ToSet(queue)
         /\ \A s : ToSet(Append(queue, s)) = ToSet(queue) \cup {s}
<1>1. ToSet(queue) \subseteq S
  BY DEF ToSet
<1>2. ASSUME queue # <<>>
      PROVE  /\ Head(queue) \in S /\ Tail(queue) \in Seq(S)
             /\ ToSet(queue) \subseteq {Head(queue)} \cup ToSet(Tail(queue))
             /\ ToSet(Tail(queue)) \subseteq ToSet(queue)
  <2>1. /\ Len(queue) \in Nat /\ Len(queue) > 0 /\ DOMAIN queue = 1 .. Len(queue)
        /\ Head(queue) = queue[1] /\ Tail(queue) \in Seq(S)
        /\ DOMAIN Tail(queue) = 1 .. (Len(queue) - 1)
        /\ \A i \in 1 .. (Len(queue) - 1) : Tail(queue)[i] = queue[i + 1]
    BY <1>2
  <2>2. \A i \in 2 .. Len(queue) :
          i - 1 \in DOMAIN Tail(queue) /\ Tail(queue)[i - 1] = queue[i]
    BY <2>1
  <2>3. ToSet(queue) \subseteq {Head(queue)} \cup ToSet(Tail(queue))
    <3> SUFFICES ASSUME NEW i \in 1 .. Len(queue)
                 PROVE  queue[i] \in {Head(queue)} \cup ToSet(Tail(queue))
      BY <2>1 DEF ToSet
    <3>1. CASE i = 1
      BY <2>1, <3>1
    <3>2. CASE i \in 2 .. Len(queue)
      BY <2>2, <3>2 DEF ToSet
    <3> QED
      BY <2>1, <3>1, <3>2
  <2>4. ToSet(Tail(queue)) \subseteq ToSet(queue)
    BY <2>1 DEF ToSet
  <2> QED
    BY <2>1, <2>3, <2>4
<1>3. ASSUME NEW s
      PROVE  ToSet(Append(queue, s)) = ToSet(queue) \cup {s}
  <2>1. /\ Len(queue) \in Nat /\ DOMAIN queue = 1 .. Len(queue)
        /\ DOMAIN Append(queue, s) = 1 .. (Len(queue) + 1)
        /\ Append(queue, s)[Len(queue) + 1] = s
        /\ \A i \in 1 .. Len(queue) : Append(queue, s)[i] = queue[i]
    OBVIOUS
  <2> QED
    BY <2>1 DEF ToSet
<1> QED
  BY <1>1, <1>2, <1>3

\* The search has seen what is queued, and expands what it takes off the queue.
QueueInv == q \in Seq(seen) /\ NothingMissed

LEMMA InitQueueInv == XInit => QueueInv
<1> SUFFICES ASSUME XInit PROVE QueueInv
  OBVIOUS
<1>1. q \in Seq(seen) /\ ToSet(q) = seen
  BY DEF XInit, ToSet
<1> QED
  BY <1>1 DEF QueueInv, NothingMissed

LEMMA NextQueueInv == QueueInv /\ [XNext]_xvars => QueueInv'
<1> SUFFICES ASSUME QueueInv, [XNext]_xvars PROVE QueueInv'
  OBVIOUS
<1>1. CASE Visit
  <2>1. /\ seen' = seen /\ todo = {} /\ q # <<>> /\ q' = Tail(q)
        /\ todo' = successors(Head(q))
    BY <1>1 DEF Visit, PoppedQueue
  <2>2. /\ q' \in Seq(seen) /\ ToSet(q') \subseteq seen
        /\ ToSet(q) \subseteq {Head(q)} \cup ToSet(q')
    BY <2>1, QueueContents DEF QueueInv
  <2> QED
    BY <2>1, <2>2 DEF QueueInv, NothingMissed
<1>2. ASSUME NEW s \in todo, Look(s) PROVE QueueInv'
  <2>1. CASE s \in seen
    <3>1. seen' = seen /\ q' = q /\ seen' \cup todo' = seen \cup todo
      BY <1>2, <2>1 DEF Look
    <3> QED
      BY <3>1 DEF QueueInv, NothingMissed
  <2>2. CASE s \notin seen
    <3>1. /\ seen' = seen \cup {s} /\ q' = Append(q, s)
          /\ seen' \cup todo' = seen \cup todo
      BY <1>2, <2>2 DEF Look, Appended
    <3>2. ToSet(q') = ToSet(q) \cup {s}
      BY <3>1, QueueContents DEF QueueInv
    <3>3. q' \in Seq(seen')
      <4>1. q \in Seq(seen \cup {s})
        BY DEF QueueInv
      <4> QED
        BY <3>1, <4>1
    <3> QED
      BY <3>1, <3>2, <3>3 DEF QueueInv, NothingMissed
  <2> QED
    BY <2>1, <2>2
<1>3. CASE UNCHANGED xvars
  BY <1>3 DEF xvars, QueueInv, NothingMissed
<1> QED
  BY <1>1, <1>2, <1>3 DEF XNext

\* The search misses nothing, whichever order its loops go through sets in:
\* what was seen is queued, or its successors were seen or are looked at next.
THEOREM SearchMissesNothing == XSpec => []NothingMissed
<1>1. QueueInv => NothingMissed
  BY DEF QueueInv
<1> QED
  BY <1>1, InitQueueInv, NextQueueInv, PTL DEF XSpec

\* Everything the search finds is balanced.
FoundInv ==
  /\ cap \in Nat /\ q \in Seq(seen)
  /\ \A s \in seen \cup todo : Balanced(s)
  /\ violations = {}

LEMMA NextFoundInv ==
  FoundInv /\ QueueInv /\ [XNext]_xvars /\ QueueInv' => FoundInv'
<1> SUFFICES ASSUME FoundInv, QueueInv, [XNext]_xvars, QueueInv' PROVE FoundInv'
  OBVIOUS
<1>1. CASE Visit
  <2>1. /\ q # <<>> /\ cap' = cap /\ seen' = seen /\ todo' = successors(Head(q))
        /\ violations' = IF Fails(Head(q)) THEN violations \cup {Head(q)} ELSE violations
    BY <1>1 DEF Visit
  <2>2. Head(q) \in seen
    BY <2>1, QueueContents DEF FoundInv
  <2>3. ~Fails(Head(q)) /\ \A s \in todo' : Balanced(s)
    BY <2>1, <2>2, BalancedPasses, SuccessorsBalanced DEF FoundInv
  <2>4. \A s : Balanced(s) => Balanced(s)'
    BY <2>1 DEF Balanced
  <2> QED
    BY <2>1, <2>3, <2>4 DEF FoundInv, QueueInv
<1>2. ASSUME NEW s \in todo, Look(s) PROVE FoundInv'
  <2>1. /\ cap' = cap /\ violations' = violations
        /\ seen' \cup todo' = seen \cup todo
    BY <1>2 DEF Look
  <2>2. \A t : Balanced(t) => Balanced(t)'
    BY <2>1 DEF Balanced
  <2> QED
    BY <2>1, <2>2 DEF FoundInv, QueueInv
<1>3. CASE UNCHANGED xvars
  BY <1>3 DEF xvars, FoundInv, Balanced
<1> QED
  BY <1>1, <1>2, <1>3 DEF XNext

\* No state the search visits makes a test of its loop fail: for any replicas,
\* ids and natural amounts, and any budget.
THEOREM SearchFindsNoViolation == XSpec => []NoViolations
<1>1. XInit => FoundInv
  <2> SUFFICES ASSUME XInit PROVE FoundInv
    OBVIOUS
  <2>1. cap \in Nat /\ seen \cup todo = {init_state} /\ violations = {} /\ q \in Seq(seen)
    BY SearchOK DEF XInit
  <2> QED
    BY <2>1, StartBalanced DEF FoundInv
<1>2. FoundInv => NoViolations
  BY DEF FoundInv, NoViolations
<1> QED
  BY <1>1, <1>2, NextFoundInv, InitQueueInv, NextQueueInv, PTL DEF XSpec

\* What holds the first state and the successors of all its states.
Closed(T) == init_state \in T /\ \A s \in T : successors(s) \subseteq T

\* The search makes up no states.
FoundReachable == \A T : Closed(T) => seen \cup todo \subseteq T

LEMMA NextFoundReachable ==
  FoundReachable /\ QueueInv /\ [XNext]_xvars => FoundReachable'
<1> SUFFICES ASSUME FoundReachable, QueueInv, [XNext]_xvars, NEW T, Closed(T)'
             PROVE  (seen \cup todo)' \subseteq T
  BY DEF FoundReachable
<1>1. cap' = cap
  BY DEF XNext, Visit, Look, xvars
<1>2. Closed(T)
  BY <1>1 DEF Closed, init_state
<1>3. seen \cup todo \subseteq T
  BY <1>2 DEF FoundReachable
<1>4. CASE Visit
  <2>1. q # <<>> /\ seen' = seen /\ todo' = successors(Head(q))
    BY <1>4 DEF Visit
  <2>2. Head(q) \in seen
    BY <2>1, QueueContents DEF QueueInv
  <2> QED
    BY <1>2, <1>3, <2>1, <2>2 DEF Closed
<1>5. ASSUME NEW s \in todo, Look(s) PROVE (seen \cup todo)' \subseteq T
  BY <1>3, <1>5 DEF Look
<1>6. CASE UNCHANGED xvars
  BY <1>3, <1>6 DEF xvars
<1> QED
  BY <1>4, <1>5, <1>6 DEF XNext

\* When the search ends it has seen the reachable states, all of them and no
\* others: the smallest set that holds the first state and its successors.
THEOREM SearchIsExact ==
  XSpec => [](Done => Closed(seen) /\ \A T : Closed(T) => seen \subseteq T)
<1> DEFINE Begun == init_state \in seen
<1>1. XInit => Begun /\ FoundReachable
  BY DEF XInit, FoundReachable, Closed
<1>2. Begun /\ [XNext]_xvars => Begun'
  <2> SUFFICES ASSUME Begun, [XNext]_xvars PROVE Begun'
    OBVIOUS
  <2>1. cap' = cap /\ seen \subseteq seen'
    BY DEF XNext, Visit, Look, xvars
  <2> QED
    BY <2>1 DEF init_state
<1>3. Begun /\ FoundReachable /\ QueueInv =>
        (Done => Closed(seen) /\ \A T : Closed(T) => seen \subseteq T)
  <2> SUFFICES ASSUME Begun, FoundReachable, QueueInv, Done
               PROVE  Closed(seen) /\ \A T : Closed(T) => seen \subseteq T
    OBVIOUS
  <2>1. todo = {} /\ ToSet(q) = {}
    BY DEF Done, ToSet
  <2> QED
    BY <2>1 DEF FoundReachable, QueueInv, NothingMissed, Closed
<1> HIDE DEF Begun
<1> QED
  BY <1>1, <1>2, <1>3, NextFoundReachable, InitQueueInv, NextQueueInv, PTL DEF XSpec

\* The run checks one order of the search, which is one of its orders.
LEMMA OneOrder == FirstSpec => XSpec
<1>1. FirstNext => XNext
  <2> SUFFICES ASSUME todo # {} PROVE (CHOOSE s \in todo : TRUE) \in todo
    BY DEF FirstNext, XNext
  <2> QED
    OBVIOUS
<1> QED
  BY <1>1, PTL DEF FirstSpec, XSpec

-----------------------------------------------------------------------------
(* The search and the relation: with the same constants, the successors of *)
(* a state are what SNext allows.                                          *)

SameConstants ==
  Replicas = Members /\ Cids = CIDS /\ Tids = TIDS /\ Amounts = AMOUNTS

\* The state of the relation, as the search stores it.
Stored ==
  [escrow |-> escrow, spent |-> spent, net |-> net, applied |-> applied,
   sentT |-> sentT, recvd |-> recvd, amtOf |-> amtOf]

\* Two stored states are equal field by field.
LEMMA StoredNext ==
  ASSUME NEW e, NEW s, NEW n, NEW a, NEW st, NEW rc, NEW am
  PROVE  Stored' = [escrow |-> e, spent |-> s, net |-> n, applied |-> a,
                    sentT |-> st, recvd |-> rc, amtOf |-> am]
           <=> /\ escrow' = e /\ spent' = s /\ net' = n /\ applied' = a
               /\ sentT' = st /\ recvd' = rc /\ amtOf' = am
  BY DEF Stored

\* Each kind of transition, and the kind of successor that it is.
LEMMA TransitionIsSuccessor ==
  ASSUME SameConstants
  PROVE  /\ (\E r \in Replicas, cid \in Cids, amount \in Amounts : Charge(r, cid, amount))
              <=> Stored' \in Charges(Stored)
         /\ (\E i, j \in Replicas, t \in Tids, amount \in Amounts :
               SendFirst(i, j, t, amount))
              <=> Stored' \in Sends(Stored)
         /\ (\E m \in net : Recv(m[1], m[2])) <=> Stored' \in Recvs(Stored)
         /\ (\E m \in net : Drop(m)) <=> Stored' \in Drops(Stored)
<1>0. /\ Stored.escrow = escrow /\ Stored.spent = spent /\ Stored.net = net
      /\ Stored.applied = applied /\ Stored.sentT = sentT /\ Stored.recvd = recvd
      /\ Stored.amtOf = amtOf
  BY DEF Stored
<1>1. ASSUME NEW r \in Replicas, NEW cid \in Cids, NEW amount \in Amounts
      PROVE  Charge(r, cid, amount) <=>
               /\ cid \in CIDS \ Stored.applied /\ amount \in affordable(Stored, r)
               /\ Stored' = charged(Stored, r, cid, amount)
  BY <1>0, StoredNext DEF Charge, SameConstants, affordable, charged
<1>2. ASSUME NEW i \in Replicas, NEW j \in Replicas, NEW t \in Tids, NEW amount \in Amounts
      PROVE  SendFirst(i, j, t, amount) <=>
               /\ t \in TIDS \ Stored.sentT /\ amount \in affordable(Stored, i)
               /\ Stored' = sent(Stored, i, j, t, amount)
  BY <1>0, StoredNext DEF SendFirst, SameConstants, affordable, sent
<1>3. ASSUME NEW m \in net
      PROVE  /\ Recv(m[1], m[2]) <=> m[2] \notin Stored.recvd /\ Stored' = received(Stored, m)
             /\ Drop(m) <=> Stored' = dropped(Stored, m)
  BY <1>0, StoredNext DEF Recv, Drop, received, dropped
<1>4. (\E r \in Replicas, cid \in Cids, amount \in Amounts : Charge(r, cid, amount))
        <=> Stored' \in Charges(Stored)
  BY <1>1 DEF Charges, SameConstants, affordable
<1>5. (\E i, j \in Replicas, t \in Tids, amount \in Amounts : SendFirst(i, j, t, amount))
        <=> Stored' \in Sends(Stored)
  BY <1>2 DEF Sends, SameConstants, affordable
<1>6. (\E m \in net : Recv(m[1], m[2])) <=> Stored' \in Recvs(Stored)
  BY <1>0, <1>3 DEF Recvs
<1>7. (\E m \in net : Drop(m)) <=> Stored' \in Drops(Stored)
  BY <1>0, <1>3 DEF Drops
<1> QED
  BY <1>4, <1>5, <1>6, <1>7

\* The successors the search computes are the transitions of the relation that
\* the services are shown to follow: neither has one that the other has not.
THEOREM SuccessorsAreTransitions ==
  ASSUME SameConstants
  PROVE  SNext <=> Stored' \in successors(Stored)
  BY TransitionIsSuccessor DEF SNext, successors

\* What the search has seen when it ends (any set of states that has the
\* successors of its members) is not left by the relation.
THEOREM SeenIsNeverLeft ==
  ASSUME SameConstants, NEW T, \A s \in T : successors(s) \subseteq T
  PROVE  Stored \in T /\ [][SNext]_svars => [](Stored \in T)
<1>1. Stored \in T /\ [SNext]_svars => (Stored \in T)'
  <2> SUFFICES ASSUME Stored \in T, [SNext]_svars PROVE Stored' \in T
    OBVIOUS
  <2>1. CASE SNext
    BY <2>1, SuccessorsAreTransitions
  <2>2. CASE UNCHANGED svars
    BY <2>2 DEF svars, Stored
  <2> QED
    BY <2>1, <2>2
<1> QED
  BY <1>1, PTL

-----------------------------------------------------------------------------
(* The search takes finitely many steps.                                   *)

\* Records the search can build: what fits within its budget.
States ==
  [escrow : [Members -> 0 .. cap], spent : [Members -> 0 .. cap],
   net : SUBSET (Members \X TIDS), applied : SUBSET CIDS, sentT : SUBSET TIDS,
   recvd : SUBSET TIDS, amtOf : [TIDS -> 0 .. cap]]

\* How many steps are left at most: each state is queued once and visited once,
\* and a visit looks at no more successors than there are states.
StepsLeft ==
  (Cardinality(States) + 1) * (Cardinality(States \ seen) + Len(q)) + Cardinality(todo)

FiniteIds == IsFiniteSet(CIDS) /\ IsFiniteSet(TIDS)

\* Records with fields from finite sets are finitely many.
LEMMA RecordsFinite ==
  ASSUME NEW A, NEW B, NEW C, NEW D, NEW E, NEW F, NEW G,
         IsFiniteSet(A), IsFiniteSet(B), IsFiniteSet(C), IsFiniteSet(D), IsFiniteSet(E),
         IsFiniteSet(F), IsFiniteSet(G)
  PROVE  IsFiniteSet([escrow : A, spent : B, net : C, applied : D, sentT : E, recvd : F,
                      amtOf : G])
<1> DEFINE Records == [escrow : A, spent : B, net : C, applied : D, sentT : E, recvd : F,
                       amtOf : G]
           Tuples  == (A \X B) \X ((C \X D) \X ((E \X F) \X G))
           tuple   == [s \in Records |-> <<<<s.escrow, s.spent>>,
                        <<<<s.net, s.applied>>, <<<<s.sentT, s.recvd>>, s.amtOf>>>>>>]
<1>1. IsFiniteSet(A \X B) /\ IsFiniteSet(C \X D) /\ IsFiniteSet((E \X F) \X G)
  BY FS_Product
<1>2. IsFiniteSet(Tuples)
  BY <1>1, FS_Product
<1>3. ASSUME NEW s \in Records PROVE tuple[s] \in Tuples
  OBVIOUS
<1>4. ASSUME NEW s \in Records, NEW t \in Records, tuple[s] = tuple[t] PROVE s = t
  <2>1. /\ s.escrow = t.escrow /\ s.spent = t.spent /\ s.net = t.net
        /\ s.applied = t.applied /\ s.sentT = t.sentT /\ s.recvd = t.recvd
        /\ s.amtOf = t.amtOf
    BY <1>4
  <2> QED
    BY <2>1
<1>5. tuple \in [Records -> Tuples]
  BY <1>3
<1> HIDE DEF tuple, Tuples
<1>6. tuple \in Injection(Records, Tuples)
  BY <1>4, <1>5, Fun_IsInj
<1> QED
  BY <1>2, <1>6, FS_Injection

\* With finitely many ids there are finitely many such records, whatever the amounts.
LEMMA StatesFinite == ASSUME FiniteIds, cap \in Nat PROVE IsFiniteSet(States)
<1>1. IsFiniteSet(0 .. cap)
  BY FS_Interval
<1>2. IsFiniteSet([Members -> 0 .. cap]) /\ IsFiniteSet([TIDS -> 0 .. cap])
  BY <1>1, MembersFinite, FunctionsFinite DEF FiniteIds
<1>3. /\ IsFiniteSet(SUBSET (Members \X TIDS))
      /\ IsFiniteSet(SUBSET CIDS) /\ IsFiniteSet(SUBSET TIDS)
  BY MembersFinite, FS_Product, FS_SUBSET DEF FiniteIds
<1> QED
  BY <1>2, <1>3, RecordsFinite DEF States

\* In a balanced state nobody has more than the budget.
LEMMA BalancedBounds ==
  ASSUME cap \in Nat, NEW s, Balanced(s)
  PROVE  s.escrow \in [Members -> 0 .. cap] /\ s.spent \in [Members -> 0 .. cap]
<1>1. /\ s.escrow \in [Members -> Nat] /\ s.spent \in [Members -> Nat]
      /\ NatOn(s.escrow, Members) /\ NatOn(s.spent, Members)
      /\ SumOver(s.escrow, Members) \in Nat /\ SumOver(s.spent, Members) \in Nat
      /\ SumOver(s.escrow, Members) <= cap /\ SumOver(s.spent, Members) <= cap
  <2>1. /\ SumOver(s.escrow, Members) \in Nat /\ SumOver(s.spent, Members) \in Nat
        /\ inflight(s) \in Nat
        /\ NatOn(s.escrow, Members) /\ NatOn(s.spent, Members)
    BY StateTotals DEF Balanced
  <2>2. SumOver(s.spent, Members) + SumOver(s.escrow, Members) + inflight(s) = cap
    BY DEF Balanced, quantity
  <2> QED
    BY <2>1, <2>2 DEF Balanced, Shaped
<1>2. ASSUME NEW f \in [Members -> Nat], NatOn(f, Members), SumOver(f, Members) <= cap,
             NEW r \in Members
      PROVE  f[r] <= cap
  <2>1. SumOver(f, Members) = SumOver(f, Members \ {r}) + f[r]
    BY <1>2, MembersFinite, SumRemove
  <2>2. SumOver(f, Members \ {r}) \in Nat
    <3>1. IsFiniteSet(Members \ {r}) /\ NatOn(f, Members \ {r})
      BY <1>2, MembersFinite, FS_RemoveElement DEF NatOn
    <3> QED
      BY <3>1, SumType
  <2> QED
    BY <1>2, <2>1, <2>2
<1> QED
  BY <1>1, <1>2

\* A successor of a record the search can build is one.
LEMMA SuccessorsAreStates ==
  ASSUME cap \in Nat, NEW s \in States, Balanced(s), NEW t \in successors(s)
  PROVE  t \in States
<1>1. Balanced(t)
  BY SuccessorsBalanced
<1>2. /\ t.escrow \in [Members -> 0 .. cap] /\ t.spent \in [Members -> 0 .. cap]
      /\ t.sentT \subseteq TIDS /\ t.recvd \subseteq TIDS
      /\ t.net \subseteq Members \X TIDS
  BY <1>1, BalancedBounds DEF Balanced, Shaped
<1>3. /\ t = [escrow |-> t.escrow, spent |-> t.spent, net |-> t.net,
              applied |-> t.applied, sentT |-> t.sentT, recvd |-> t.recvd,
              amtOf |-> t.amtOf]
      /\ t.applied \subseteq CIDS /\ t.amtOf \in [TIDS -> 0 .. cap]
  <2>0. s.applied \subseteq CIDS /\ s.amtOf \in [TIDS -> 0 .. cap]
    BY DEF States
  <2>1. CASE t \in Charges(s)
    BY <2>0, <2>1 DEF Charges, charged
  <2>2. CASE t \in Sends(s)
    <3>1. PICK i \in Members, j \in Members, u \in TIDS \ s.sentT :
            \E a \in affordable(s, i) : t = sent(s, i, j, u, a)
      BY <2>2 DEF Sends
    <3>2. PICK a \in affordable(s, i) : t = sent(s, i, j, u, a)
      BY <3>1
    <3>3. a \in 0 .. cap
      <4>1. a \in Nat /\ a <= s.escrow[i]
        BY SearchOK DEF affordable
      <4>2. s.escrow[i] \in 0 .. cap
        BY DEF States
      <4> QED
        BY <4>1, <4>2
    <3> QED
      BY <2>0, <3>2, <3>3 DEF sent
  <2>3. CASE t \in Recvs(s)
    BY <2>0, <2>3 DEF Recvs, received
  <2>4. CASE t \in Drops(s)
    BY <2>0, <2>4 DEF Drops, dropped
  <2> QED
    BY <2>1, <2>2, <2>3, <2>4 DEF successors
<1> QED
  BY <1>2, <1>3 DEF States

\* The search finds and looks at nothing else.
FoundStates == seen \cup todo \subseteq States

LEMMA InitFoundStates == ASSUME XInit PROVE FoundStates
<1>1. cap \in Nat /\ seen \cup todo = {init_state}
  BY SearchOK DEF XInit
<1>2. Balanced(init_state)
  BY <1>1, StartBalanced
<1>3. init_state.escrow \in [Members -> 0 .. cap] /\ init_state.spent \in [Members -> 0 .. cap]
  BY <1>1, <1>2, BalancedBounds
<1>4. init_state \in States
  BY <1>1, <1>3 DEF init_state, States
<1> QED
  BY <1>1, <1>4 DEF FoundStates

LEMMA NextFoundStates ==
  FoundStates /\ FoundInv /\ QueueInv /\ [XNext]_xvars => FoundStates'
<1> SUFFICES ASSUME FoundStates, FoundInv, QueueInv, [XNext]_xvars PROVE FoundStates'
  OBVIOUS
<1>1. States' = States
  BY DEF XNext, Visit, Look, xvars, States
<1>2. CASE Visit
  <2>1. q # <<>> /\ seen' = seen /\ todo' = successors(Head(q))
    BY <1>2 DEF Visit
  <2>2. Head(q) \in seen
    BY <2>1, QueueContents DEF QueueInv
  <2>3. \A t \in successors(Head(q)) : t \in States
    BY <2>2, SuccessorsAreStates DEF FoundStates, FoundInv
  <2> QED
    BY <1>1, <2>1, <2>3 DEF FoundStates
<1>3. ASSUME NEW s \in todo, Look(s) PROVE FoundStates'
  BY <1>1, <1>3 DEF Look, FoundStates
<1>4. CASE UNCHANGED xvars
  BY <1>1, <1>4 DEF xvars, FoundStates
<1> QED
  BY <1>2, <1>3, <1>4 DEF XNext

\* The cardinalities that the bound is made of.
LEMMA StepsLeftType ==
  ASSUME FiniteIds, FoundStates, FoundInv
  PROVE  /\ IsFiniteSet(States) /\ IsFiniteSet(todo) /\ IsFiniteSet(States \ seen)
         /\ Cardinality(States) \in Nat /\ Cardinality(todo) \in Nat
         /\ Cardinality(States \ seen) \in Nat /\ Len(q) \in Nat
         /\ StepsLeft \in Nat
<1>1. IsFiniteSet(States)
  BY StatesFinite DEF FoundInv
<1>2. IsFiniteSet(todo) /\ IsFiniteSet(States \ seen)
  BY <1>1, FS_Subset DEF FoundStates
<1>3. /\ Cardinality(States) \in Nat /\ Cardinality(todo) \in Nat
      /\ Cardinality(States \ seen) \in Nat /\ Len(q) \in Nat
  BY <1>1, <1>2, FS_CardinalityType DEF FoundInv
<1>4. \A n, k, c \in Nat : (n + 1) * k + c \in Nat
  OBVIOUS
<1>5. StepsLeft \in Nat
  BY <1>3, <1>4 DEF StepsLeft
<1> QED
  BY <1>1, <1>2, <1>3, <1>5

\* Every pass of a loop, outer or inner, lowers the bound.
LEMMA StepsGoDown ==
  ASSUME FiniteIds, FoundStates, FoundInv, QueueInv, FoundStates', FoundInv', XNext
  PROVE  StepsLeft' < StepsLeft
<1> DEFINE N    == Cardinality(States)
           Rest == Cardinality(States \ seen)
<1>1. States' = States
  BY DEF XNext, Visit, Look, States
<1>2. N \in Nat /\ Rest \in Nat /\ Len(q) \in Nat /\ Cardinality(todo) \in Nat
  BY StepsLeftType
<1>3. CASE Visit
  <2>1. /\ seen' = seen /\ todo = {} /\ q # <<>> /\ q' = Tail(q)
        /\ todo' \subseteq States
    BY <1>1, <1>3 DEF Visit, PoppedQueue, FoundStates
  <2>2. Len(q') = Len(q) - 1 /\ Len(q) > 0
    BY <2>1 DEF FoundInv
  <2>3. Cardinality(todo) = 0
    BY <2>1, FS_EmptySet
  <2>4. Cardinality(todo') \in Nat /\ Cardinality(todo') <= N
    BY <2>1, StepsLeftType, FS_Subset, FS_CardinalityType
  <2>5. (N + 1) * (Rest + Len(q)) = (N + 1) * (Rest + (Len(q) - 1)) + (N + 1)
    BY <1>2, <2>2
  <2>6. (N + 1) * (Rest + (Len(q) - 1)) \in Nat
    BY <1>2, <2>2
  <2>7. /\ StepsLeft' = (N + 1) * (Rest + (Len(q) - 1)) + Cardinality(todo')
        /\ StepsLeft = (N + 1) * (Rest + Len(q)) + 0
    BY <1>1, <2>1, <2>2, <2>3 DEF StepsLeft
  <2> DEFINE Later == (N + 1) * (Rest + (Len(q) - 1))
             Now   == (N + 1) * (Rest + Len(q))
  <2> HIDE DEF Later, Now, N, Rest
  <2>8. Now = Later + (N + 1) /\ Later \in Nat
    BY <2>5, <2>6 DEF Later, Now
  <2>9. StepsLeft' = Later + Cardinality(todo') /\ StepsLeft = Now + 0
    BY <2>7 DEF Later, Now, N, Rest
  <2> QED
    BY <1>2, <2>4, <2>8, <2>9
<1>4. ASSUME NEW s \in todo, Look(s) PROVE StepsLeft' < StepsLeft
  <2>1. todo' = todo \ {s} /\ seen' = seen \cup {s}
    BY <1>4 DEF Look
  <2>2. Cardinality(todo') = Cardinality(todo) - 1
    BY <2>1, StepsLeftType, FS_RemoveElement
  <2>3. CASE s \in seen
    <3>1. seen' = seen /\ q' = q
      BY <1>4, <2>1, <2>3 DEF Look
    <3>2. (N + 1) * (Rest + Len(q)) \in Nat
      BY <1>2
    <3>3. /\ StepsLeft' = (N + 1) * (Rest + Len(q)) + Cardinality(todo')
          /\ StepsLeft = (N + 1) * (Rest + Len(q)) + Cardinality(todo)
      BY <1>1, <3>1 DEF StepsLeft
    <3> DEFINE Now == (N + 1) * (Rest + Len(q))
    <3> HIDE DEF Now
    <3>4. Now \in Nat /\ StepsLeft' = Now + Cardinality(todo')
          /\ StepsLeft = Now + Cardinality(todo)
      BY <3>2, <3>3 DEF Now
    <3> QED
      BY <1>2, <2>2, <3>4
  <2>4. CASE s \notin seen
    <3>1. q' = Append(q, s) /\ s \in States \ seen
      BY <1>4, <2>4 DEF Look, Appended, FoundStates
    <3>2. Len(q') = Len(q) + 1
      BY <3>1 DEF FoundInv
    <3>3. States \ seen' = (States \ seen) \ {s}
      BY <2>1
    <3>4. Cardinality(States \ seen') = Rest - 1
      BY <3>1, <3>3, StepsLeftType, FS_RemoveElement
    <3>5. /\ StepsLeft' = (N + 1) * ((Rest - 1) + (Len(q) + 1)) + Cardinality(todo')
          /\ StepsLeft = (N + 1) * (Rest + Len(q)) + Cardinality(todo)
      BY <1>1, <3>2, <3>4 DEF StepsLeft
    <3>6. (Rest - 1) + (Len(q) + 1) = Rest + Len(q) /\ (N + 1) * (Rest + Len(q)) \in Nat
      BY <1>2
    <3> DEFINE Now == (N + 1) * (Rest + Len(q))
    <3>7. Now \in Nat /\ StepsLeft' = Now + Cardinality(todo')
          /\ StepsLeft = Now + Cardinality(todo)
      BY <3>5, <3>6
    <3> HIDE DEF Now
    <3> QED
      BY <1>2, <2>2, <3>7
  <2> QED
    BY <2>3, <2>4
<1> QED
  BY <1>3, <1>4 DEF XNext

\* The search cannot go on for ever, whichever order its loops go through sets in:
\* with finitely many ids, and amounts of any number, each pass of a loop lowers a
\* number of steps that never falls below zero.  That it ends needs only that
\* somebody runs it.
THEOREM SearchIsFinite ==
  ASSUME FiniteIds
  PROVE  XSpec => [](StepsLeft \in Nat) /\ [][StepsLeft' < StepsLeft]_xvars
<1> DEFINE SearchInv == FoundStates /\ FoundInv /\ QueueInv
<1>1. XInit => SearchInv
  <2> SUFFICES ASSUME XInit PROVE FoundStates /\ FoundInv /\ QueueInv
    OBVIOUS
  <2>1. cap \in Nat /\ seen \cup todo = {init_state} /\ violations = {} /\ q \in Seq(seen)
    BY SearchOK DEF XInit
  <2> QED
    BY <2>1, StartBalanced, InitFoundStates, InitQueueInv DEF FoundInv
<1>2. SearchInv /\ [XNext]_xvars => SearchInv'
  BY NextFoundStates, NextFoundInv, NextQueueInv
<1>3. SearchInv => StepsLeft \in Nat
  BY StepsLeftType
<1>4. SearchInv /\ SearchInv' /\ [XNext]_xvars => [StepsLeft' < StepsLeft]_xvars
  BY StepsGoDown
<1> HIDE DEF SearchInv
<1> QED
  BY <1>1, <1>2, <1>3, <1>4, PTL DEF XSpec

-----------------------------------------------------------------------------
(* The ledger of rights, with variables of its own.                        *)

VARIABLES held, used, transit, opened

Ledger == INSTANCE RightsLedger

\* The ledger's totals and dictionaries are those of Sums.
LEMMA LedgerOperators ==
  ASSUME NEW f, NEW S, NEW k, NEW v
  PROVE  Ledger!SumOver(f, S) = SumOver(f, S) /\ Ledger!Put(f, k, v) = Put(f, k, v)
  BY DEF Ledger!SumOver, Ledger!Tokens, Ledger!Pile, Ledger!Cardinality, Ledger!Put,
         SumOver, Tokens, Pile, Cardinality, Put

\* All the rights there are.
Rights == SumOver(held, Replicas) + SumOver(transit, DOMAIN transit)

LedgerInv ==
  /\ held \in [Replicas -> Nat] /\ used \in [Replicas -> Nat]
  /\ \A r \in Replicas : used[r] <= held[r]
  /\ transit \in [DOMAIN transit -> Nat] /\ IsFiniteSet(DOMAIN transit)
  /\ DOMAIN transit \subseteq opened
  /\ Rights <= CAP

\* The two totals are natural numbers.
LEMMA RightsType ==
  ASSUME IsFiniteSet(Replicas), LedgerInv
  PROVE  /\ SumOver(held, Replicas) \in Nat
         /\ SumOver(transit, DOMAIN transit) \in Nat
<1>1. NatOn(held, Replicas) /\ NatOn(transit, DOMAIN transit)
  BY DEF LedgerInv, NatOn
<1> QED
  BY <1>1, SumType DEF LedgerInv

\* A closed transfer takes its rights out of transit.
LEMMA CloseTransfer ==
  ASSUME LedgerInv, NEW t \in DOMAIN transit,
         transit' = [u \in DOMAIN transit \ {t} |-> transit[u]]
  PROVE  /\ DOMAIN transit' = DOMAIN transit \ {t}
         /\ IsFiniteSet(DOMAIN transit')
         /\ transit' \in [DOMAIN transit' -> Nat]
         /\ SumOver(transit', DOMAIN transit') \in Nat
         /\ SumOver(transit, DOMAIN transit)
              = SumOver(transit', DOMAIN transit') + transit[t]
<1>1. DOMAIN transit' = DOMAIN transit \ {t} /\ IsFiniteSet(DOMAIN transit \ {t})
  BY FS_RemoveElement DEF LedgerInv
<1>2. transit' \in [DOMAIN transit' -> Nat]
  BY <1>1 DEF LedgerInv
<1>3. SumOver(transit', DOMAIN transit') \in Nat
  BY <1>1, <1>2, SumType DEF NatOn
<1>4. SumOver(transit, DOMAIN transit) = SumOver(transit, DOMAIN transit \ {t}) + transit[t]
  BY SumRemove DEF LedgerInv, NatOn
<1>5. SumOver(transit', DOMAIN transit \ {t}) = SumOver(transit, DOMAIN transit \ {t})
  BY SumAgree
<1> QED
  BY <1>1, <1>2, <1>3, <1>4, <1>5

\* No step of the ledger creates rights.
LEMMA RNextLedgerInv ==
  ASSUME IsFiniteSet(Replicas), CAP \in Nat
  PROVE  LedgerInv /\ [Ledger!RNext]_(Ledger!rvars) => LedgerInv'
<1> SUFFICES ASSUME LedgerInv, [Ledger!RNext]_(Ledger!rvars) PROVE LedgerInv'
  OBVIOUS
<1>0. /\ NatOn(held, Replicas)
      /\ SumOver(held, Replicas) \in Nat /\ SumOver(transit, DOMAIN transit) \in Nat
      /\ SumOver(held, Replicas) + SumOver(transit, DOMAIN transit) <= CAP
  BY RightsType DEF LedgerInv, NatOn, Rights
<1>a. ASSUME NEW r \in Replicas, held' \in [Replicas -> Nat],
             \A s \in Replicas \ {r} : held'[s] = held[s]
      PROVE  SumOver(held', Replicas) = SumOver(held, Replicas) - held[r] + held'[r]
  <2>1. NatOn(held', Replicas)
    BY <1>a DEF NatOn
  <2> QED
    BY <1>0, <1>a, <2>1, SumUpdate
<1>1. ASSUME NEW r \in Replicas, Ledger!Local(r)
      PROVE  LedgerInv'
  <2>1. held'[r] \in 0 .. held[r] /\ used'[r] \in 0 .. held'[r] /\ held[r] \in Nat
    BY <1>1 DEF Ledger!Local, LedgerInv
  <2>2. held' \in [Replicas -> Nat] /\ used' \in [Replicas -> Nat]
    BY <1>1, <2>1 DEF Ledger!Local, LedgerInv
  <2>3. \A s \in Replicas \ {r} : held'[s] = held[s] /\ used'[s] = used[s]
    BY <1>1 DEF Ledger!Local, LedgerInv
  <2>4. SumOver(held', Replicas) <= SumOver(held, Replicas)
    BY <1>0, <1>a, <2>1, <2>2, <2>3
  <2>5. SumOver(held', Replicas) \in Nat
    BY <2>2, SumType DEF NatOn
  <2>6. \A s \in Replicas : used'[s] <= held'[s]
    BY <2>1, <2>3 DEF LedgerInv
  <2>7. transit' = transit /\ opened' = opened
    BY <1>1 DEF Ledger!Local
  <2>8. Rights' <= CAP
    BY <1>0, <2>4, <2>5, <2>7 DEF Rights
  <2> QED
    BY <2>2, <2>6, <2>7, <2>8 DEF LedgerInv
<1>2. ASSUME NEW r \in Replicas, NEW t \in Tids, Ledger!Open(r, t)
      PROVE  LedgerInv'
  <2>1. PICK amount \in 0 .. held[r] - used[r] :
          /\ held' = [held EXCEPT ![r] = held[r] - amount]
          /\ transit' = Put(transit, t, amount)
    BY <1>2, LedgerOperators DEF Ledger!Open
  <2>2. /\ amount \in Nat /\ held[r] \in Nat /\ used[r] \in Nat
        /\ amount <= held[r] - used[r]
    BY <2>1 DEF LedgerInv
  <2>3. /\ held' \in [Replicas -> Nat] /\ held'[r] = held[r] - amount
        /\ \A s \in Replicas \ {r} : held'[s] = held[s]
    BY <2>1, <2>2 DEF LedgerInv
  <2>4. SumOver(held', Replicas) = SumOver(held, Replicas) - amount
    BY <1>0, <1>a, <2>2, <2>3
  <2>5. t \notin opened /\ opened' = opened \cup {t} /\ used' = used
    BY <1>2 DEF Ledger!Open
  <2>6. t \notin DOMAIN transit
    BY <2>5 DEF LedgerInv
  <2>7. DOMAIN transit' = DOMAIN transit \cup {t} /\ IsFiniteSet(DOMAIN transit')
    BY <2>1, PutEntry DEF LedgerInv
  <2>8. transit' \in [DOMAIN transit' -> Nat]
    BY <2>1, <2>2, <2>7 DEF Put, LedgerInv
  <2>9. SumOver(transit', DOMAIN transit') = SumOver(transit, DOMAIN transit) + amount
    <3>1. SumOver(Put(transit, t, amount), DOMAIN transit \cup {t})
            = SumOver(transit, DOMAIN transit) + amount
      BY <2>2, <2>6, SumPut DEF LedgerInv
    <3> QED
      BY <2>1, <2>7, <3>1
  <2>10. Rights' <= CAP
    BY <1>0, <2>2, <2>4, <2>9 DEF Rights
  <2>11. \A s \in Replicas : used'[s] <= held'[s]
    BY <2>2, <2>3, <2>5 DEF LedgerInv
  <2>12. DOMAIN transit' \subseteq opened'
    BY <2>5, <2>7 DEF LedgerInv
  <2> QED
    BY <2>3, <2>5, <2>7, <2>8, <2>10, <2>11, <2>12 DEF LedgerInv
<1>3. ASSUME NEW r \in Replicas, NEW t \in DOMAIN transit, Ledger!Land(r, t)
      PROVE  LedgerInv'
  <2>1. /\ transit[t] \in Nat /\ held[r] \in Nat
        /\ transit' = [u \in DOMAIN transit \ {t} |-> transit[u]]
        /\ used' = used /\ opened' = opened
    BY <1>3 DEF Ledger!Land, LedgerInv
  <2>2. /\ held' \in [Replicas -> Nat] /\ held'[r] = held[r] + transit[t]
        /\ \A s \in Replicas \ {r} : held'[s] = held[s]
    BY <1>3, <2>1 DEF Ledger!Land, LedgerInv
  <2>3. SumOver(held', Replicas) = SumOver(held, Replicas) + transit[t]
    BY <1>0, <1>a, <2>1, <2>2
  <2>4. Rights' <= CAP
    <3>1. /\ SumOver(transit', DOMAIN transit') \in Nat
          /\ SumOver(transit, DOMAIN transit)
               = SumOver(transit', DOMAIN transit') + transit[t]
      BY <2>1, CloseTransfer
    <3> QED
      BY <1>0, <2>1, <2>3, <3>1 DEF Rights
  <2>5. \A s \in Replicas : used'[s] <= held'[s]
    BY <2>1, <2>2 DEF LedgerInv
  <2> QED
    BY <2>1, <2>2, <2>4, <2>5, CloseTransfer DEF LedgerInv
<1>4. ASSUME NEW t \in DOMAIN transit, Ledger!Vanish(t)
      PROVE  LedgerInv'
  <2>1. /\ transit[t] \in Nat
        /\ transit' = [u \in DOMAIN transit \ {t} |-> transit[u]]
        /\ held' = held /\ used' = used /\ opened' = opened
    BY <1>4 DEF Ledger!Vanish, LedgerInv
  <2>2. Rights' <= CAP
    BY <1>0, <2>1, CloseTransfer DEF Rights
  <2> QED
    BY <2>1, <2>2, CloseTransfer DEF LedgerInv
<1>5. CASE UNCHANGED Ledger!rvars
  BY <1>5 DEF Ledger!rvars, LedgerInv, Rights
<1> QED
  BY <1>1, <1>2, <1>3, <1>4, <1>5 DEF Ledger!RNext

\* No more than the cap is ever spent: the promise a service takes over by
\* implementing the ledger.
THEOREM LedgerWithinCap ==
  ASSUME IsFiniteSet(Replicas), CAP \in Nat
  PROVE  Ledger!RSpec => [](SumOver(used, Replicas) <= CAP)
<1>1. Ledger!RInit => LedgerInv
  <2> SUFFICES ASSUME Ledger!RInit PROVE LedgerInv
    OBVIOUS
  <2>1. DOMAIN transit = {} /\ IsFiniteSet(DOMAIN transit)
    BY FS_EmptySet DEF Ledger!RInit
  <2>2. SumOver(transit, DOMAIN transit) = 0
    BY <2>1, SumEmpty
  <2>3. SumOver(held, Replicas) \in Nat /\ SumOver(held, Replicas) <= CAP
    BY SumType, LedgerOperators DEF Ledger!RInit, NatOn
  <2>4. Rights <= CAP
    BY <2>2, <2>3 DEF Rights
  <2> QED
    BY <2>1, <2>4 DEF Ledger!RInit, LedgerInv
<1>2. LedgerInv /\ [Ledger!RNext]_(Ledger!rvars) => LedgerInv'
  BY RNextLedgerInv
<1>3. LedgerInv => SumOver(used, Replicas) <= CAP
  <2> SUFFICES ASSUME LedgerInv PROVE SumOver(used, Replicas) <= CAP
    OBVIOUS
  <2>1. /\ NatOn(used, Replicas) /\ NatOn(held, Replicas)
        /\ \A r \in Replicas : used[r] <= held[r]
    BY DEF LedgerInv, NatOn
  <2>2. SumOver(used, Replicas) <= SumOver(held, Replicas)
    BY <2>1, SumMonotone
  <2>3. SumOver(used, Replicas) \in Nat
    BY <2>1, SumType
  <2> QED
    BY <2>2, <2>3, RightsType DEF LedgerInv, Rights
<1> QED
  BY <1>1, <1>2, <1>3, PTL DEF Ledger!RSpec
=============================================================================
