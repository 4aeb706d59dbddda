# escrow-budget in TLA+

A verification project for the escrow budget of this repository: a global
budget `CAP` divided among replicas that charge their own share without
coordination and move shares to each other by messages. The modules are
translated from the Python of `impl/`, model-checked with TLC on small
instances, and the central results are proved with TLAPS for every instance.

The repository has its own TLA+ in `spec/` and a Lean development in `lean/`.
Neither is used here: the modules below are written from the code, and where
code and documents part, the runs say so.

## 1. The system

| Part | State it keeps | Operations | Concurrency and failure |
|---|---|---|---|
| Reference service, `impl/escrow.py` | per replica `escrow`, `spent`; for all replicas together `applied`, `sent`, `recvd`, `net`, `charge_count` | `charge`, `send_transfer`, `deliver`, `drop`, `_check` after each | messages are retained (duplicates), reordered, lost |
| Message-passing cluster, `impl/distributed.py` | per replica `escrow`, `spent`, `applied`, `charge_count`, `issued`, `recvd`; cluster `net`, `tid_amount`, `received_tids` | `charge`, `issue`, `deliver`, `drop`, `check` | as above, and retries by senders, ids that collide; either idempotency can be switched off |
| Crash/recovery cluster, `impl/durable.py` | per replica a volatile and a durable `escrow`, `spent`, `recvd`; network `sentMsgs`, `amtOf` | `charge`, `issue`, `deliver`, `drop`, `persist`, `crash`, `check` | as above, and each replica crashes on its own at any time; either durability discipline can be switched off |
| Recovery ledger, `impl/recovery.py` | per replica `escrow` (may be negative), `spent`; `stranded` | `charge`, `lose`, `reclaim` | the order of calls; each guard can be switched off per call |
| Explorer, `impl/spec_model.py` | states with ids and messages of all replicas together; the queue, the seen states and the violations of the search | `successors`, `explore`, `run` | none; the search must end and miss nothing |
| Fault harness, `impl/fault_harness.py` | a `DurableCluster`, the transfers it asked for and the next id | one rule per fault; four rules make several calls in a loop | delivery storms, repeated and simultaneous crashes, retried sends |
| Mutation suites, `impl/mutation_*.py` | a damaged service on a fixed trace of calls | the damaged methods, `classify`, `run` | those of the services |
| Tests, `impl/test_*.py` | none | drive the services | none |
| Lean and TLA+ of the repository, scripts | none | - | - |

**How the parts interact.** A client calls `charge` at a replica. A caller asks
one replica to give part of its escrow to another (`send_transfer`/`issue`);
the message enters a list that belongs to the network, not to any replica, and
`deliver(idx)` may be called on any entry of it, any number of times, in any
order, also after the replicas at either end crashed. `drop(idx)` takes an
entry away. The replicas share no other state. There are no threads, timers or
callbacks: all concurrency is the order in which the environment makes these
calls, and each call runs to its end. One operation is therefore one action.

**What is hard.** (a) Duplicates and late copies of a message, after the
credited budget was spent or sent on. (b) A crash of one replica while the
others go on and its messages are still on the network: its old image must fit
their new ones. (c) The durable image of a replica is not a snapshot: `credit`
and `debit_for_send` write `d_escrow` but not `d_spent`, so a crash restores a
mixture of two moments. (d) Retries whose first attempt succeeded. (e) Ids that
name two things. The `hazards` of `PROJECT.json` list each at its line.

**What makes each part correct.** The reference service: budget adds up to the
cap after every call, each charge id is debited once. The cluster: no budget is
created while receivers are idempotent, none is lost while senders are too and
ids are unique. The crash/recovery cluster: no budget is created by any step,
recovery included, while both disciplines hold. The recovery ledger: a reclaim
brings back no more than was stranded, and a ledger without overdrafts is safe.
All services: rights to spend are never created (`RightsLedger`).

## 2. The modules

| Module | Models | Notes |
|---|---|---|
| `Sums` | `sum()` over a dictionary, dictionary update and `setdefault` | totals count tokens, without recursion, so that they can be proved about |
| `RightsLedger` | what every service promises | abstract: rights held, used, and travelling in transfers |
| `DurableCluster` | `impl/durable.py` | both discipline flags are constants |
| `DurableClients` | the answers the crash/recovery cluster gives to clients | composes with `DurableCluster`; `granted` and `crashes` are history the code does not record |
| `EscrowService` | `impl/escrow.py` | one action per operation |
| `Cluster` | `impl/distributed.py` | both idempotency flags are constants, and so is the set of transfers callers ask for, because ids may collide |
| `RecoveryLedger` | `impl/recovery.py` | which flags callers pass is a constant |
| `SpecModel` | `impl/spec_model.py` | the explorer's successor relation; `EscrowService` and `Cluster` are checked to take only its transitions |
| `Harness` | `impl/fault_harness.py` over `DurableClients` | a rule that loops makes its calls one step at a time |
| `Suites`, `ReferenceMutants`, `ReplicaMutants`, `DurableMutants` | `impl/mutation_check.py`, `mutation_distributed.py`, `mutation_durable.py` | the damaged classes over `EscrowService`, `Cluster`, `DurableCluster`; `Suites` is what they share |
| `ExplorerSearch` | the breadth-first search of `impl/spec_model.py` | one pass of a loop, outer or inner, is one step; the only module with fairness |
| `MC...` | small instances of the above | constants only |
| `SumsProofs` | lemmas about totals and dictionaries | proofs |
| `AbstractProofs` | the ledger never spends more than the cap; the explorer's tests hold on every instance, and its search is exact and finite | proofs |
| `DurableClusterProofs` | safety and refinement of `DurableCluster` | proofs |
| `HarnessProofs` | the clients' bounds, and what the driver's loops do | proofs |
| `DurableMutantsProofs` | what the damaged crash/recovery classes cannot do; their suite's verdicts | proofs |
| `EscrowServiceProofs` | the strict check never raises; refinement to ledger and explorer; what the check sees of damaged services, and their suite's verdicts | proofs |
| `ClusterProofs` | conservation, safety and refinement of `Cluster`; the verdicts on its damaged replicas | proofs |
| `RecoveryLedgerProofs` | all authority is accounted for; what the two certificates are worth | proofs |

**Correspondence.** Variables carry the code's names (`dEscrow` is `d_escrow`,
`tidAmount` is `tid_amount`). A per-replica attribute is a function of the
replica, a Python dict a function on the keys it has, a Python set a set.
Calls that return `False`, duplicates that are ignored, and a charge whose id
is known change nothing in the code; here they are stuttering steps, and an
action is the call that has an effect. The retained network list is a set in
`DurableCluster` and `EscrowService`, where no two messages have the same id
(`issue` and `send_transfer` refuse a known one), and counts copies in
`Cluster`, where a retrying sender appends an equal message. Nothing in the
code looks at the order of the list. `escrow`, `spent` and amounts are unbounded
integers in Python and in the modules.

How the composed modules use the others: `Harness` extends `DurableClients`, which
extends `DurableCluster`, and calls their actions. A rule that loops
(`deliver_storm`, `crash_repeat`, `crash_all`) puts the calls it drew into `todo`
and `Continue` makes them one by one, refused ones included; `begun` remembers
the cluster as it was when the rule began. `issue_retry` is one such call. In a
suite, `row` is the line of the file's `MUTANTS` that is run: class, trace, and
expected verdict. A damaged method is written as the tests it has left (`AcceptsCharge`,
`AcceptsIssue`) and the effect it has when they pass, and `Call` makes the call or
refuses it. An effect that equals the code's own with a flag switched off is that
action of an instance of the module with the flag `FALSE` (`NoSenderDedup!Issue`).
`place` says how far the calls made so far follow the file's trace,
and all other sequences of calls are explored as well. Rows with the undamaged
class (`Controls`) are run beside the damaged ones.

Two pieces of state are left out because nothing reads them: the amounts in
`issued` (distributed.py) and the labels of the test drivers. The assertions of
`check()` and `_check()` are properties, not actions; only in `ReferenceMutants`, where
`_check` does raise, it ends the sequence of calls (`raised`).

The modules of the code have a section of *seeded faults*: damaged forms of one of its
definitions, with the same parameters. No action uses them. Each property is
checked to be violated when a seeded fault takes its definition's place, so that
no property is one which damaged code would satisfy too.

## 3. The runs

| Run | Question | States |
|---|---|---|
| `durable_disciplined` | under the fault harness, does the disciplined crash/recovery cluster keep the cap, remember, and implement the ledger; what can its clients have been authorised, at most; is a storm worth one delivery each and a loop of crashes one simultaneous crash? | 298253 |
| `durable_drop` (violation) | does `drop` leave the quantity alone, as the documents say? | - |
| `suite_durable` | do the damaged crash/recovery clusters get their verdicts, and which steps create budget in them? | 20830 |
| `clients_authorised` (violation) | is what was authorised within the cap, as the documents say? | - |
| `escrow_reference` | does the strict check ever raise, is each request debited once, are the steps the explorer's? | 9063 |
| `suite_reference` | are the damaged reference services killed by what the file says, and what does the strict check let pass? | 45136 |
| `cluster_exact` | is budget conserved with unique ids and both idempotencies, and are the steps the explorer's? | 429 |
| `suite_distributed` | do the damaged replicas get their verdicts, and can another sequence of calls, colliding ids included, bring out anything graver? | 12307 |
| `cluster_charge_ids` (violation) | is a charge id debited once in the cluster? | - |
| `cluster_collision_credit` (violation) | are transfers that share an id credited once? | - |
| `recovery_guarded` | do losses, guarded reclaims and overdrafts account for all authority? | 155 |
| `explorer_search` | does the search end, miss nothing, and say OK? | 1007 |

**What the properties say.** Besides one type invariant per module (which
includes that no escrow is negative), the runs ask for the following.

- `SafetyLe`: what is spent, held and in flight is within the cap. No part of it is
  negative, so the cap theorem of the documents (`Safety`, on spent alone) follows.
- `CrashCutSafe`: for *every* set of replicas, if exactly these crashed now, the
  budget after the restart is within the cap. It is what hazard (b) needs, and
  stronger than the certificate of the fault harness, which looks at the current
  state only.
- `HoldingGrowsByCreditOnly`: the only way a replica's holding grows is by the
  whole amount of a transfer that is addressed to it and that nobody credited
  before. A recovery gives nothing.
- `PersistedSpendKept`, `CreditKept`: what was checkpointed as spent, and what
  was credited, is never forgotten.
- `StormCreditsOnce`, `CrashesAreSimultaneous`: what a loop of the harness has done
  when it ends, against the cluster before it began. The second is what the file
  relies on when it calls a loop of crashes simultaneous, and it makes
  the per-replica crashes here cover a crash of all.
- `SpentIsGranted`, `GrantedWithinCrashes`: clients of a disciplined cluster hold at
  least what is recorded as spent, and at most one cap and one more per crash.
- `SuiteVerdict`: on the file's trace each damaged class gets the verdict the file
  expects, and the undamaged class survives.
- `NeverWorse`, `DestructionIsSafe`: the verdict is a fact about the class and not
  about its trace. Retried debits, retried charges and messages lost in crashes
  never lead above the cap, whatever is called. `NeverWorse` for `IssueNoDedup` is
  `safety_le` with the sender's idempotency off and colliding ids of different
  amounts, senders and receivers.
- `BudgetMovesByFaultOnly`: while ids are unique, a second credit is the only step that
  creates budget and a second debit the only one that destroys any.
- `OnlyCrashCreates`: a lost durability discipline shows at a crash and at no other
  call; the later credit only moves what the crash created.
- `CheckIsExact`: the strict check lets a call of a damaged service pass if and only
  if the undamaged service could have made the step, or the step debits a known
  charge id again: the blind spot the file describes is the only one. (With
  amounts above zero: a transfer of zero sent again with another amount is a second
  blind spot of `_check`, which no caller of the suite reaches.)
- `NothingMissed`, `NoViolations`, `CountAgrees`, `Terminates`: the search expands
  everything it saw, finds no violation, counts the 66 states the file expects, and
  ends.
- `Conserved`: nothing appears and nothing is lost, dropped messages included.
- `SpentIsAuthorised`, `MessagesBacked`, `ReceiptsAgree`: two records of the same
  fact agree (spent and `applied`, `net` and `sent`, `recvd` and `received_tids`).
- `AuthorityAccounted`, `SolventIsSafe`: nothing is minted by guarded reclaims, and
  a ledger which overdrew and was refilled is safe as soon as no replica owes.
- `ImplementsRightsLedger`: each service, under the refinement mapping given in
  its module, does only what the abstract ledger can do.
- `ImplementsSpecModel`: the reference service, and the cluster while callers send
  each charge id to one replica, take no step the explorer of spec_model.py does
  not explore. (The cluster's message carries an amount, the explorer's does not:
  that both agree is part of it.)

**Bounds, and why they are enough.** Two replicas give both ends of a transfer,
a bystander of a crash, and a transfer to oneself. Two or three transfer ids
give a transfer there and one back, two in flight at once, and the late
duplicate of one after the other. Amounts 1 and 2 (0 as well in the reference
service; 3 in the collision and recovery runs) tell amounts apart, so that a
credit of the wrong one shows. `CAP` is small enough for every guard to be hit
exactly and missed by one. `MaxCopies` = 2 (copies of a message) allows a
genuine duplicate of a re-issued message; `MaxCrashes` = 3 lets a crash meet the
effects of two earlier ones and lets a loop of three, or a crash of all and
another, happen (2 in `clients_authorised`); `MaxStorm` = 3 (6 in the code) is more
deliveries than messages, so that storms repeat and interleave; `MaxRepeat` = 3 (4
in the code). `MaxDebt` = 2 bounds overdrafts, which the code lets grow without end.
`Presented` says which charge ids reach which replica: one each in `cluster_exact`
(`Routed`), any at both in the other cluster runs (`Anyhow`).

The suites run the instance of their file (replicas a and b, cap 2 or 3) with its
ids and one or two more, so that the trace is one of many sequences of calls. Once
a sequence that has left the trace is above the cap, nothing more is called
(`Going`): the verdict is then the gravest there is. After a raised violation
the code calls nothing more either. The search is run with the file's constants
and caps 0 to 4 around its own 2. The state spaces of `DurableCluster`,
`EscrowService` and the search are finite without any bound on steps. For the
results of section 4 the bounds do not matter.

In most runs the environment can drop every message, use every id and be refused
everything else; the configurations of these runs say `CHECK_DEADLOCK FALSE`.
In `durable_disciplined` a persist is always possible and deadlock is checked.

**Fairness and liveness.** Fairness is assumed in one place, weak fairness of the
steps of `ExplorerSearch`: `explore` is two nested sequential loops, nothing runs beside it
and nothing can stop it before its queue is empty. Under it `Terminates` holds; it
is not obvious, because the outer loop has no counter and ends only because no
state is queued twice. For the services none is assumed and none is claimed: they have no
scheduler, retry loop or timer, whether a message is ever delivered or a replica
ever persists is entirely up to the caller, and `SCOPE.md` disclaims liveness.
All their temporal properties are about single steps or are refinements.

## 4. What is proved

All statements are for every finite set of replicas, any sets of ids and natural
amounts, every cap and every genesis within it (`ConstantsOK`,
`GenesisWithinCap`: assumption 1 of `SCOPE.md`; for the search `SearchOK`, any replicas
in any order). What else a theorem assumes is
in its statement, and is a setting of the code or an obligation of its callers:

| Assumption | Meaning | Run that satisfies it |
|---|---|---|
| `Disciplined` | both durability flags of durable.py are on | `durable_disciplined`, `suite_durable` |
| `SenderIdempotent`, `ReceiverIdempotent` | the idempotency flags of distributed.py | `cluster_exact`, `suite_distributed` |
| `UniqueTids` | callers give each transfer an id of its own | `cluster_exact` |
| `OneReplicaPerCharge` | callers send a charge id to one replica | `cluster_exact` |
| `OneGenesis` | the whole cap starts at one replica, as in `__init__` | `cluster_exact` |
| `AmountsAboveZero` | no call is for an amount of zero, as in the suite | `suite_reference` |
| `SuiteGenesis` (reference) | the cap is two or more and starts at replica a | `suite_reference` |
| `SuiteGenesis` (durable) | the whole cap is given out, some of it to replica a | `suite_durable` |
| `ReplicaSuiteGenesis` | replica a starts with two or more, and the cap is below eight | `suite_distributed` |
| `FiniteIds` | callers have finitely many charge and transfer ids | `explorer_search` |
| `Guarded`, `Strict` | no caller switches off the reclaim guard, the charge guard | `Guarded`: `recovery_guarded`; `Strict`: the defaults of recovery.py |

**Totals** (`SumsProofs`). A total is the number of tokens lying on the entries.
From the library's facts about cardinalities: totals are naturals, change by the
difference when one entry changes, add up pointwise, and are monotone; a total
over one set is at most that over another if each entry has one of its own there
that is no smaller (`SumInjection`). The total of balances that may be overdrawn
(`SignedSum`) is a difference of two such totals, and changes the same way
(`SignedUpdate`). No induction over data is needed, and no recursive operator.

**Abstract ledger and explorer** (`AbstractProofs`). `LedgerWithinCap`: the ledger
never lets more than the cap be spent. `EnvelopeHolds`: what `explore()` tests on the
66 states of its one instance holds on every instance of the relation.

*Its search.* For every instance and budget, and whichever order the loops go
through sets in (Python does not say; TLC checks one of them):

- `SearchMissesNothing`; `SearchFindsNoViolation`. The search holds many states at once, so
  the envelope is proved of records: `Balanced` is kept by the successors.
- `SearchIsExact`: when the search ends, what it has seen is the smallest set that holds
  the first state and is closed under successors.
- `SearchIsFinite`: no run of the search goes on for ever. The outer loop has no counter,
  so the proof needs one: `StepsLeft` counts the records of a finite set, fixed before the
  search starts, that are not seen yet, and what is queued or about to be looked at. Amounts
  may be infinitely many; what is finite is that records bind each id once or not at all.
  What is left to `Terminates` is fairness: that somebody makes the passes.
- `SuccessorsAreTransitions`: what `successors` computes are the transitions of
  `SpecModel`, which the services are shown to follow (`OperationsAreExplored`);
  they do not leave what the search has seen (`SeenIsNeverLeft`). So the chain from
  a call on a service to the verdict of `run()` is proved, but for the number of
  states.

**Crash/recovery cluster** (`DurableClusterProofs`).

- In every configuration: `TypeCorrect` (no overdraft) and `PersistedSpendSurvives`.
- Disciplined: `BudgetWithinCap`, `SpentWithinCap`, `TransferCreditedOnce`,
  `NothingCreated`, `CreditRemembered`, `EveryCrashCutSafe`, `HoldingGrows`, and
  `ImplementsLedger`: each step is a ledger step or a stutter.

`SafetyLe` is not inductive. The invariant `DurableInv` adds what each action
needs:

- a crash replaces a replica's holding by that of its durable image, which must
  be worth no more: `Lag`, `dEscrow + dSpent <= escrow + spent`;
- `credit` overwrites `dEscrow` by the current escrow and leaves `dSpent`, which
  keeps `Lag` only if `dSpent <= spent`: the other half of `Lag`. This is why the
  mixture of two moments (hazard c) is harmless, and it does not hold for an
  arbitrary protocol that writes balances separately;
- a crash must not un-credit: `DedupDurable`, the durable dedup set is the
  current one;
- a delivery may credit only what is in transit, which the receiver cannot see
  (it knows its own set only): `CreditedAtDst`, what was credited was credited
  at the addressee of the message that is still there, `CreditedOnce`, and
  `Network`, one message per id.

Without `DebitDurableBeforeSend`, `issue` breaks `Lag`; without `RecvdDurable`,
`deliver` breaks `DedupDurable`. These are the places where the two disciplines
enter the proof, and the only ones.

**Clients and fault harness** (`HarnessProofs`). The theorems about the cluster
carry over to what is driven by clients and by the harness, because these add no
behaviour: `ClientsImplementCluster` and `DriverImplementsClients`. The second is
not immediate. A loop makes calls that were drawn when it began, and each must
still be a call the clients could make when its turn comes: `CallsCurrent` (the
messages to deliver are still there, the transfers to retry still known). From
them: `CertificateHolds`, disciplined, the certificate the file evaluates at the end
of a run holds in every state of every run, in the middle of a loop too.

- `SpentWasGranted`, in every configuration.
- `AuthorisedWithinCrashes`, disciplined. `GrantedWithinCrashes` itself is not inductive,
  as it does not say what may still be charged after a crash. The invariant is
  `ForgottenWithinCrashes`: answers exceed recorded spent by at most one cap per
  crash, because what one crash un-records was recorded within the cap.
- `StormsCreditOnce`, `CrashLoopsAreSimultaneous`, in every configuration and for loops
  of any length. Their loop invariants, `StormSoFar` and `CrashesSoFar`, compare the
  cluster with the one before the rule began; the crash loop also needs
  `RestoredIsDurable`: without `RecvdDurable` a replica restarts with an empty
  dedup set, which its durable set then is as well.

**Durable suite** (`DurableMutantsProofs`). The suite's classes on any sequence of
calls, with `Disciplined` for the clusters they are derived from:
`DestructionNeverCreates`, `ClassesCreditOnce`, `DamageShowsAtCrashes`. A class that forgets
credits in a crash can credit a transfer again, but only at the replica that
credited it first: this is `Remembering`, about `recvd` and `dRecvd` together,
which holds in the damaged classes where `DurableInv` does not.

`DurableSuiteVerdict`: on its trace each class gets its verdict, from `TraceSoFar` again.
It needs to say where the one message is (`OnItsWay`) and how each replica differs from
its durable image, if at all (`Mirrored`), so that the crash of the trace brings back
exactly the amount of the message or takes it away. Where some of the cap is not given out at the
start the verdict does not hold: creating less than the rest stays within the cap.

**Reference service** (`EscrowServiceProofs`). `StrictCheckPasses`: `_check` never
raises. The invariant adds `MessagesBacked`, because `deliver` credits what the
message says while the in-flight total falls by what `sent` says.
`SpentWasAuthorised`, `NoDoubleCharge`, `NetworkBacked`. `ImplementsLedger`, and
`OperationsAreExplored`: each call is a transition of spec_model.py, so that
its verdict, which `EnvelopeHolds` extends to every size, is about the service.
`TransitionsAreOperations` is the other direction: what the explorer explores with the
callers' ids and amounts is the effect of a call, so neither refuses what the other
allows, and the explorer's reachable states are not of a larger system.

*Its suite.* `StrictCheckIsExact`: of the calls of a damaged service, whatever came
before, exactly those pass the check that the undamaged service could have made, or
that debit a known charge id again. While nothing was raised every call passed, so
the service is one that an undamaged one could be, charge counts apart: `SoundInv`.
From there each damaged method is shown to leave the budget off the cap or an
escrow negative exactly where the lost guard would have refused. With an amount of
zero this fails, and the proof shows where: a transfer of zero debited again
under its id with another amount moves what is in transit by what it takes.

`ReferenceSuiteVerdict`: each row of the suite gets its killer. The invariant
`TraceSoFar` says, for each class and each number of calls of the trace that were
made, what the service looks like: what was sent, credited and counted, and that the
budget is still the cap. The last call of a trace then takes it off the cap, or an
escrow below zero, by the amount of the call, and the check raises. `UndamagedSurvives` holds on
every sequence of calls.

**Message-passing cluster** (`ClusterProofs`).

- In every configuration, colliding ids included: `TypeCorrect`, `SpendIsAuthorised`,
  `NoDoubleCharge`, `ReceiptsAreCredits`. They need that messages were debited and
  debited ids have a nominal amount (`MessagesIssued`), and that counters agree
  with `applied` (`CountsApplied`).
- `BudgetConserved`: with unique ids and both idempotencies, budget is the cap.
- `BudgetWithinCap`, `SpentWithinCap`, `ImplementsLedger`: unique ids and an idempotent
  receiver are enough for safety; a sender that debits a retry again
  only destroys. This is the claim of the file's configurations.
- `OperationsAreExplored`: with `OneReplicaPerCharge` and `OneGenesis` as well, each
  step is a transition of spec_model.py. `TransitionsAreOperations`: and each such
  transition, with a call the callers make, is a step of the cluster. (The explorer has one
  copy of a message; the loss of one of two copies is a step that it does not see.)

The invariant is `IdsInv`. A credit adds the message's amount while the in-flight
total falls by the nominal amount of its id: `NominalIsAmount`. The receiver checks
its own set, the total looks at all of them: `CreditedAtDst`. A sender opens a
transfer if *it* does not know the id, the total if nobody does: `KnownAtSrc`.
Each holds only because ids are unique; `cluster_collision_credit` is what
happens without.

*Its suite*, with the file's flags and on every sequence of calls, until a call
leads above the cap:

- `FaultsMoveBudget`. While ids are unique, an id that a replica does not know is
  known to no other; so a step that creates budget credits an id for the second time
  and one that destroys any debits an id for the second time.
- `VerdictsAreOfClasses`. With ids that collide the conserved quantity is of no
  use: in-flight is the total of nominal amounts, which later debits under the id
  do not change, and an id credited at one receiver is gone for all. What the
  invariant `ReplicaSuiteInv` bounds instead is `Potential`, the total of the
  transfers that were debited and whose receiver did not credit their id. What the
  replicas hold and have spent, plus `Potential`, is within the cap in every class
  but the one that credits twice (`PotentialWithinCap`): a debit takes the amount
  from the sender and adds at most that amount; a credit gives the amount to the receiver
  and settles at least that transfer. And what the code reports as in flight is never
  more than `Potential`, because each id in transit stands for an outstanding
  transfer of its own (`InFlightWithinPotential`). So double debits and colliding ids
  can only lose budget, which is the verdict the file gives for one trace.
- `ReplicaSuiteVerdict`: on its trace each class does get the verdict. `VerdictInv` adds
  `TraceSoFar` to what holds in every configuration. Four charges of two are above
  the cap only if it is below eight, which is why the assumption says so: with a
  larger cap, and as much at replica a, the trace of `ChargeNoGuard` would show nothing.

**Recovery ledger** (`RecoveryLedgerProofs`). `TypeCorrect`; `NothingMinted` and
`SolventLedgerSafe` with guarded reclaims, overdrafts allowed: the account is over
the signed sum of escrows, and only where no replica owes does it bound what was
spent. `StrictLedgerSafe`: callers that keep both guards never leave `WF` and
`Safety`. The file has two certificates of safety, the signed bound with `WF` and the
floored bound. `CertificatesAreLostByOverspending`, in every configuration, also where
callers overspend and mint: only a reclaim raises the signed quantity, only a reclaim or
a charge past the escrow the floored one, only such a charge ends solvency, and from a
state that either certificate vouches for, no other call leads above the cap. These are
the classes of transitions of SCOPE.md:165-171, with what they do to the floored quantity.
`FlooredBoundSeesDebt`: the certificates differ in what they see. With
guarded reclaims the signed bound holds through any overdraft, and the floored one
fails exactly while the replicas owe more than was stranded.

**Only model-checked.**

- `Terminates`: liveness under fairness, which the provers here do not prove. That
  no run of the search is infinite is proved (`SearchIsFinite`).
- `CountAgrees`: a number (66), of one instance.

## 5. Where documents and code part

Four runs end in a violation; each checks a statement of the repository.

1. `clients_authorised`. README.md and SCOPE.md say that *authorised* consumption
   never exceeds the cap, crashes included. `charge` in durable.py answers `True`
   after a volatile update only; a crash before `persist` reverts it and the same
   budget is authorised again. What is proved is about the spent that replicas
   record. `GrantedWithinCrashes` is the bound that holds for answers.
2. `durable_drop`. The documents say a dropped message's right stays represented
   as in flight. durable.py computes in-flight from `sentMsgs`, from which `drop`
   removes the message, so the quantity falls. (In escrow.py and distributed.py
   the documents are right.) Safe, but not conserving.
3. `cluster_charge_ids`. Charge idempotency is global in escrow.py and
   spec_model.py, per replica in distributed.py. With callers that send a charge
   id to one replica only, the cluster does conform (`cluster_exact`).
4. `cluster_collision_credit`. SCOPE.md and a test say that of two transfers that
   share an id one is credited. With different receivers both are, each receiver
   having its own set; the test stops before any delivery.

Elsewhere the documents admit the loss of finding 2 (SCOPE.md:156-157). About the other
two services they disagree with each other: README.md:46-47 says that exact conservation
holds only without loss, SCOPE.md:16-17 counts lost transfers as in flight, and the code
and test_distributed.py:130-134 do as SCOPE.md says. `CheckPasses` and `Conserved` are
about the code, losses included.

Three more have no run of their own. The docstring of `CrashDropsInflightCluster`
(mutation_durable.py:44) says a crash loses "this replica's in-flight sent messages";
the code removes the messages addressed to the replica. `DurableMutants` follows the
code. The comments of distributed.py (lines
117-118) and durable.py (lines 15-17) say that `check()` asserts no more than
the configuration guarantees, and both assert `total_spent <= cap` with the
flags off, when it can fail: without receiver idempotency, or without a durable
dedup set, a transfer credited twice can be spent twice.

## 6. What is not modelled

- Of `fault_harness.py` the drawing of random values and its settings, of the
  suites and the explorer what they print and the exit codes. The harness's negative
  control (`HostileVolatileRecvd`) is the class `VolatileRecvd` of `suite_durable`,
  without the rules that loop.
- The tests drive the modelled services; they were read for the inputs and
  states callers use (whole cap at one replica, unique ids, naturals).
- `lean/`, `spec/`, scripts and documents hold no program state.
- Negative amounts: escrow.py and distributed.py reject them, durable.py and
  recovery.py do not; no caller passes any, and `ConstantsOK` excludes them.
- A non-strict reference service (`strict=False`): it skips `_check`, which by
  `StrictCheckPasses` never has an effect.
- Out of the provers' reach: liveness under fairness (claimed for the search
  only), `ENABLED` (which nothing but that fairness uses), and induction over data.

## 7. Plan

In order of importance; all are done.

1. Crash/recovery cluster, its clients, the ledger of rights; safety and
   refinement proved.
2. Reference service; strict check proved.
3. Message-passing cluster and recovery ledger, model-checked.
4. The explorer's relation; its envelope proved, the services checked against it.
5. The fault harness composed with the crash/recovery cluster and its clients.
6. The mutation suites over the three services.
7. The explorer's search, with its termination.
8. Proofs about the cluster and the recovery ledger: conservation, safety, and
   the refinements to ledger and explorer; the same refinements of the
   reference service.
9. Proofs about the clients and the harness: what was authorised, storms, crash
   loops.
10. Proofs about the damaged crash/recovery classes.
11. Proofs about the damaged classes of the other two suites.
12. Proofs about the search: it misses nothing, makes up nothing, and its
    successors are the relation's.
13. Proofs of the suites' verdicts, of what the certificates of the recovery ledger
    are worth, that the search is finite, and that the explorer's transitions are
    calls of the services.

What could follow: the global-crash protocol of the Lean development as an abstract
specification, which `CrashesAreSimultaneous` prepares; and `Terminates` as a proof from
`SearchIsFinite`, once a prover for fairness is at hand.
