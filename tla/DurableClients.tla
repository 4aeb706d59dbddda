--------------------------- MODULE DurableClients ---------------------------
(***************************************************************************)
(* The clients of DurableCluster.  A client that charge() answered True    *)
(* has been authorised, and no crash takes the answer back: granted counts *)
(* those answers, which no variable of the code records.  crashes counts   *)
(* the crashes; MaxCrashes bounds it, because an undisciplined cluster can *)
(* create budget, and any cluster can be charged again, at every crash.    *)
(***************************************************************************)
EXTENDS DurableCluster

CONSTANT MaxCrashes
ASSUME MaxCrashesOK == MaxCrashes \in Nat

VARIABLES
  granted,  \* per replica: total of the charges it answered True
  crashes   \* number of crashes so far

cvars == <<vars, granted, crashes>>

CInit == Init /\ granted = [r \in Replicas |-> 0] /\ crashes = 0

\* charge(name, amount) answered True to a client.
ClientCharge(r, amount) ==
  /\ Charge(r, amount)
  /\ granted' = [granted EXCEPT ![r] = granted[r] + amount]
  /\ UNCHANGED crashes

CountedCrash(r) ==
  /\ crashes < MaxCrashes
  /\ Crash(r)
  /\ crashes' = crashes + 1
  /\ UNCHANGED granted

ClusterStep ==
  /\ \/ \E src, dst \in Replicas, amount \in Amounts, tid \in Tids :
          Issue(src, dst, amount, tid)
     \/ \E m \in sentMsgs : Deliver(m) \/ Drop(m)
     \/ \E r \in Replicas : Persist(r)
  /\ UNCHANGED <<granted, crashes>>

CNext ==
  \/ \E r \in Replicas, amount \in Amounts : ClientCharge(r, amount)
  \/ \E r \in Replicas : CountedCrash(r)
  \/ ClusterStep

CSpec == CInit /\ [][CNext]_cvars

TotalGranted == SumOver(granted, Replicas)

-----------------------------------------------------------------------------
(* Properties.                                                             *)

\* No replica ever records, or comes back from a crash with, more spent than
\* it authorised to clients.
SpentIsGranted ==
  \A r \in Replicas : spent[r] <= granted[r] /\ dSpent[r] <= granted[r]

\* What a disciplined cluster authorises, un-persisted charges that crashes
\* reverted included, is within one cap per crash and one more.
GrantedWithinCrashes == TotalGranted <= (1 + crashes) * CAP

-----------------------------------------------------------------------------
(* A claim of the repository that the code does not keep.                  *)

\* Aggregate authorised spending cannot exceed the global cap, including
\* under disciplined crash/recovery (README.md).
AuthorisedWithinCap == TotalGranted <= CAP
=============================================================================
