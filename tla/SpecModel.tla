----------------------------- MODULE SpecModel ------------------------------
(***************************************************************************)
(* impl/spec_model.py: the successor relation that its breadth-first       *)
(* search explores, and that the services are said to implement exactly.   *)
(*                                                                         *)
(* A charge id is used up for all replicas together, and so is a transfer  *)
(* id.  A message is a pair: receiver and id; the amount is looked up.     *)
(* Here TLC visits what the relation reaches; the search of the file is    *)
(* ExplorerSearch.                                                         *)
(***************************************************************************)
EXTENDS Sums

CONSTANTS Replicas, Cids, Tids, Amounts, CAP

VARIABLES
  escrow, spent,  \* per replica
  net,            \* messages, pairs <<receiver, id>>
  applied,        \* charge ids used up
  sentT,          \* transfer ids used up
  recvd,          \* transfer ids credited
  amtOf           \* per transfer id: its amount, 0 while it is not sent

svars == <<escrow, spent, net, applied, sentT, recvd, amtOf>>

InFlight == SumOver(amtOf, sentT \ recvd)
Quantity == SumOver(spent, Replicas) + SumOver(escrow, Replicas) + InFlight

SInit ==
  /\ \E genesis \in Replicas :
       escrow = [r \in Replicas |-> IF r = genesis THEN CAP ELSE 0]
  /\ spent = [r \in Replicas |-> 0]
  /\ net = {} /\ applied = {} /\ sentT = {} /\ recvd = {}
  /\ amtOf = [t \in Tids |-> 0]

Charge(r, cid, amount) ==
  /\ cid \notin applied
  /\ amount <= escrow[r]
  /\ escrow' = [escrow EXCEPT ![r] = escrow[r] - amount]
  /\ spent' = [spent EXCEPT ![r] = spent[r] + amount]
  /\ applied' = applied \cup {cid}
  /\ UNCHANGED <<net, sentT, recvd, amtOf>>

SendFirst(i, j, t, amount) ==
  /\ t \notin sentT
  /\ amount <= escrow[i]
  /\ escrow' = [escrow EXCEPT ![i] = escrow[i] - amount]
  /\ net' = net \cup {<<j, t>>}
  /\ sentT' = sentT \cup {t}
  /\ amtOf' = [amtOf EXCEPT ![t] = amount]
  /\ UNCHANGED <<spent, applied, recvd>>

Recv(to, t) ==
  /\ t \notin recvd
  /\ escrow' = [escrow EXCEPT ![to] = escrow[to] + amtOf[t]]
  /\ recvd' = recvd \cup {t}
  /\ UNCHANGED <<spent, net, applied, sentT, amtOf>>

Drop(m) ==
  /\ net' = net \ {m}
  /\ UNCHANGED <<escrow, spent, applied, sentT, recvd, amtOf>>

SNext ==
  \/ \E r \in Replicas, cid \in Cids, amount \in Amounts : Charge(r, cid, amount)
  \/ \E i, j \in Replicas, t \in Tids, amount \in Amounts : SendFirst(i, j, t, amount)
  \/ \E m \in net : Recv(m[1], m[2])
  \/ \E m \in net : Drop(m)

SSpec == SInit /\ [][SNext]_svars

\* explore(): the three tests made on every state that is visited.
CheckEnvelope ==
  /\ SumOver(spent, Replicas) <= CAP
  /\ Quantity = CAP
=============================================================================
