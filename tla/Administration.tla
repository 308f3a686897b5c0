--------------------------- MODULE Administration ---------------------------
(***************************************************************************)
(* What happens to the contracts once they are deployed: the hand-over of  *)
(* their ownership to a multisig wallet (deployments/change-owners.js),    *)
(* upgrades (deployments/upgrade-contracts.js) and the price feed that is  *)
(* replaced by a mock on test networks (deployments/deploy-mock-price-     *)
(* feed.js), with the proposals of utils/multisig.js.                      *)
(*                                                                         *)
(* The scripts run one at a time with one wallet.  Its transactions wait   *)
(* in the node, which mines them in the order of their nonces and may drop *)
(* one; a script that dies leaves the ones it has sent.  The hand-over     *)
(* chooses its nonces itself, from the number of mined transactions, and   *)
(* waits for them in batches.                                              *)
(***************************************************************************)
EXTENDS Integers, Sequences, SequencesExt, FiniteSets

CONSTANTS
    contractNames,   \* in the order in which the hand-over goes through them
    BatchSize,       \* transactions after which the hand-over waits, 10
    UpgradeNames,    \* UPGRADE_CONTRACTS, the names given to an upgrade
    MaxUpgrades,     \* bound on the runs of the two upgrade scripts
    MaxFaults        \* bound on crashes and dropped transactions

Names == ToSet(contractNames)

ASSUME contractNamesAssumption == contractNames \in Seq(STRING) /\ "priceFeed" \in Names
ASSUME BatchSizeAssumption == BatchSize \in Nat \ {0}
ASSUME UpgradeNamesAssumption == UpgradeNames \in Seq(Names)

VARIABLES
    owner,       \* contract -> owner
    adminOwner,  \* the owner of the ProxyAdmin
    version,     \* contract -> its implementation
    aggregator,  \* whether the mock price feed was given its aggregator
    outputs,     \* whether the file has the mock aggregator
    mined,       \* the wallet's next nonce on the chain
    pending,     \* nonce -> transaction that waits in the node
    reverted,    \* nonces whose transaction was mined and reverted
    proposals,   \* what the multisig's owners may execute
    script,      \* the running script and its locals
    upgrades,    \* runs of the upgrade scripts
    faults       \* crashes and dropped transactions

chain == <<owner, adminOwner, version, aggregator>>
wallet == <<mined, pending, reverted>>
vars == <<chain, wallet, outputs, proposals, script, upgrades, faults>>

NotRunning == [name |-> "none", pc |-> "idle", next |-> 1, nonce |-> 0,
               txs |-> {}, calls |-> <<>>]

Init ==
    /\ owner = [c \in Names |-> "deployer"]
    /\ adminOwner = "deployer"
    /\ version = [c \in Names |-> "original"]
    /\ aggregator = FALSE
    /\ outputs = FALSE
    /\ mined = 0
    /\ pending = [n \in {} |-> [kind |-> "none", to |-> "none"]]
    /\ reverted = {}
    /\ proposals = {}
    /\ script = NotRunning
    /\ upgrades = 0
    /\ faults = 0

-----------------------------------------------------------------------------
(* The wallet and the chain.                                               *)

Kinds == {"own", "ownAdmin", "implementation", "aggregator", "upgrade", "set"}

Sends(nonce, tx) ==
    pending' = [n \in DOMAIN pending \cup {nonce} |->
                    IF n = nonce THEN tx ELSE pending[n]]

\* The node knows a transaction with this nonce, or mined one.
Taken(nonce) == nonce < mined \/ nonce \in DOMAIN pending

\* The nonce a transaction gets if the script gives it none.
NextNonce == CHOOSE n \in mined .. mined + Cardinality(DOMAIN pending) :
                /\ n \notin DOMAIN pending
                /\ mined .. n - 1 \subseteq DOMAIN pending

\* What a call changes, by whoever makes it; it reverts if the caller may not.
Allowed(call, caller) ==
    CASE call.kind = "own" -> owner[call.to] = caller
      [] call.kind = "ownAdmin" -> adminOwner = caller
      [] call.kind = "upgrade" -> adminOwner = caller
      [] call.kind = "set" -> owner["priceFeed"] = caller
                              /\ version["priceFeed"] = "mock"
      [] OTHER -> TRUE

Execute(call) ==
    /\ owner' = IF call.kind = "own" THEN [owner EXCEPT ![call.to] = "multisig"]
                                     ELSE owner
    /\ adminOwner' = IF call.kind = "ownAdmin" THEN "multisig" ELSE adminOwner
    /\ version' = IF call.kind = "upgrade"
                    THEN [version EXCEPT ![call.to] = call.version] ELSE version
    /\ aggregator' = (aggregator \/ call.kind = "set")

\* The node's transactions without the one it mines.
NoLongerPending == [n \in DOMAIN pending \ {mined} |-> pending[n]]

Mine ==
    /\ mined \in DOMAIN pending
    /\ LET tx == pending[mined]
       IN IF Allowed(tx, "deployer")
            THEN Execute(tx) /\ UNCHANGED reverted
            ELSE reverted' = reverted \cup {mined} /\ UNCHANGED chain
    /\ pending' = NoLongerPending
    /\ mined' = mined + 1
    /\ UNCHANGED <<outputs, proposals, script, upgrades, faults>>

\* The owners of the multisig execute a proposal: all of its calls, or none.
\* A proposal that would revert stays.
ExecuteProposal ==
    \E p \in proposals :
        /\ adminOwner = "multisig"
        /\ "set" \in p.kinds => owner["priceFeed"] = "multisig"
        /\ version' = [c \in Names |->
                          IF c \in DOMAIN p.versions THEN p.versions[c] ELSE version[c]]
        /\ aggregator' = (aggregator \/ "set" \in p.kinds)
        /\ proposals' = proposals \ {p}
        /\ UNCHANGED <<owner, adminOwner, wallet, outputs, script, upgrades, faults>>

\* The node forgets a transaction.
Drop ==
    /\ faults < MaxFaults
    /\ \E n \in DOMAIN pending :
        pending' = [k \in DOMAIN pending \ {n} |-> pending[k]]
    /\ faults' = faults + 1
    /\ UNCHANGED <<chain, mined, reverted, outputs, proposals, script, upgrades>>

-----------------------------------------------------------------------------
(* Waiting for transactions.                                               *)

Goto(pc) == script' = [script EXCEPT !.pc = pc, !.txs = {}]
Exit == script' = NotRunning

\* All of txs are mined; the script throws if one of them reverted.
Awaited == script.txs \subseteq 0 .. mined - 1
AfterWait(pc) ==
    /\ Awaited
    /\ IF script.txs \cap reverted = {} THEN Goto(pc) ELSE Exit

\* Nothing is going to happen to a transaction the script waits for: somebody
\* stops it.
Hangs ==
    \E n \in script.txs : n >= mined /\ \E k \in mined .. n : k \notin DOMAIN pending

-----------------------------------------------------------------------------
(* change-owners.js.                                                       *)

\* mutant: the ProxyAdmin comes first.
StartHandoverAtAdmin ==
    /\ script.name = "none"
    /\ ~(adminOwner = "multisig" /\ \A c \in Names : owner[c] = "multisig")
    /\ script' = [NotRunning EXCEPT !.name = "handover", !.pc = "admin",
                    !.nonce = mined]
    /\ UNCHANGED <<chain, wallet, outputs, proposals, upgrades, faults>>

\* The script is run as long as something is left to hand over.
StartHandover ==
    /\ script.name = "none"
    /\ ~(adminOwner = "multisig" /\ \A c \in Names : owner[c] = "multisig")
    /\ script' = [NotRunning EXCEPT !.name = "handover", !.pc = "transfer",
                    !.nonce = mined]
    /\ UNCHANGED <<chain, wallet, outputs, proposals, upgrades, faults>>

OwnedByMultisig(name) == owner[name] = "multisig"

\* One contract: its owner is read, and a transaction sent if it is not yet
\* the multisig.  A nonce that is taken is refused, and the script throws.
Transfer ==
    /\ script.name = "handover" /\ script.pc = "transfer"
    /\ script.next <= Len(contractNames)
    /\ Cardinality(script.txs) < BatchSize
    /\ LET name == contractNames[script.next]
       IN IF OwnedByMultisig(name)
            THEN script' = [script EXCEPT !.next = @ + 1] /\ UNCHANGED pending
          ELSE IF Taken(script.nonce)
            THEN Exit /\ UNCHANGED pending
          ELSE /\ Sends(script.nonce, [kind |-> "own", to |-> name])
               /\ script' = [script EXCEPT !.next = @ + 1, !.nonce = @ + 1,
                                !.txs = @ \cup {script.nonce}]
    /\ UNCHANGED <<chain, mined, reverted, outputs, proposals, upgrades, faults>>

WaitForBatch ==
    /\ script.name = "handover" /\ script.pc = "transfer"
    /\ Cardinality(script.txs) >= BatchSize
    /\ AfterWait("transfer")
    /\ UNCHANGED <<chain, wallet, outputs, proposals, upgrades, faults>>

\* The transactions of the last batch, if it is not full.
WaitForRest ==
    /\ script.name = "handover" /\ script.pc = "transfer"
    /\ script.next > Len(contractNames)
    /\ Cardinality(script.txs) < BatchSize
    /\ AfterWait("admin")
    /\ UNCHANGED <<chain, wallet, outputs, proposals, upgrades, faults>>

\* mutant: the owner of the first contract is read instead.
AdminHandedOverByName == owner[contractNames[1]] = "multisig"

AdminHandedOver == adminOwner = "multisig"

TransferAdmin ==
    /\ script.name = "handover" /\ script.pc = "admin"
    /\ IF AdminHandedOver \/ Taken(script.nonce)
         THEN Exit /\ UNCHANGED pending
         ELSE /\ Sends(script.nonce, [kind |-> "ownAdmin", to |-> "proxyAdmin"])
              /\ script' = [script EXCEPT !.pc = "end", !.txs = {script.nonce}]
    /\ UNCHANGED <<chain, mined, reverted, outputs, proposals, upgrades, faults>>

-----------------------------------------------------------------------------
(* upgrade-contracts.js and deploy-mock-price-feed.js.                     *)

\* The names the running script upgrades, and what it makes of them.
Upgraded == IF script.name = "mock" THEN <<"priceFeed">> ELSE UpgradeNames
NewVersion == IF script.name = "mock" THEN "mock" ELSE "new"

StartUpgrade ==
    /\ script.name = "none"
    /\ upgrades < MaxUpgrades
    /\ upgrades' = upgrades + 1
    /\ \/ script' = [NotRunning EXCEPT !.name = "upgrade", !.pc = "owner"]
       \/ script' = [NotRunning EXCEPT !.name = "mock", !.pc = "aggregator"]
    /\ UNCHANGED <<chain, wallet, outputs, proposals, faults>>

\* A transaction whose nonce the node chooses, awaited at the next step.
Send(kind, to, ver, pc) ==
    /\ Sends(NextNonce, [kind |-> kind, to |-> to, version |-> ver])
    /\ script' = [script EXCEPT !.pc = pc, !.txs = {NextNonce}]

\* loadOrDeploy of the mock aggregator.
DeployAggregator ==
    /\ script.name = "mock" /\ script.pc = "aggregator"
    /\ \/ outputs /\ Goto("owner") /\ UNCHANGED pending
       \/ ~outputs /\ Send("aggregator", "none", "none", "recorded")
    /\ UNCHANGED <<chain, mined, reverted, outputs, proposals, upgrades, faults>>

RecordAggregator ==
    /\ script.name = "mock" /\ script.pc = "recorded"
    /\ AfterWait("owner")   \* a deployment does not revert
    /\ outputs' = TRUE
    /\ UNCHANGED <<chain, wallet, proposals, upgrades, faults>>

\* The owner of the ProxyAdmin is read for each contract: if it is the
\* multisig the implementation is deployed and a call is added to the
\* proposal, otherwise the script upgrades the contract itself.
ReadAdminOwner ==
    /\ script.name \in {"upgrade", "mock"} /\ script.pc = "owner"
    /\ IF script.next > Len(Upgraded)
         THEN Goto("submit") /\ UNCHANGED pending
         ELSE Send("implementation", "none", "none",
                   IF adminOwner = "multisig" THEN "add" ELSE "upgrade")
    /\ UNCHANGED <<chain, mined, reverted, outputs, proposals, upgrades, faults>>

\* prepareUpgradeProxy is mined: proposal.add.
AddCall ==
    /\ script.pc = "add"
    /\ Awaited
    /\ script' = [script EXCEPT !.pc = "owner", !.txs = {}, !.next = @ + 1,
                    !.calls = Append(@, Upgraded[script.next])]
    /\ UNCHANGED <<chain, wallet, outputs, proposals, upgrades, faults>>

\* upgradeProxy: the second transaction is the upgrade itself.
UpgradeProxy ==
    /\ script.pc = "upgrade"
    /\ Awaited
    /\ Send("upgrade", Upgraded[script.next], NewVersion, "upgraded")
    /\ UNCHANGED <<chain, mined, reverted, outputs, proposals, upgrades, faults>>

AwaitUpgrade ==
    /\ script.pc = "upgraded"
    /\ Awaited
    /\ script' = IF script.txs \cap reverted # {} THEN NotRunning
                 ELSE [script EXCEPT !.txs = {}, !.next = @ + 1,
                          !.pc = IF script.name = "mock" THEN "set" ELSE "owner"]
    /\ UNCHANGED <<chain, wallet, outputs, proposals, upgrades, faults>>

\* The aggregator is given to the mock in a transaction of its own.
SetPriceAggregator ==
    /\ script.pc = "set"
    /\ Send("set", "priceFeed", "none", "end")
    /\ UNCHANGED <<chain, mined, reverted, outputs, proposals, upgrades, faults>>

\* The calls of the proposal: the mock is given its aggregator in the same one.
ProposalKinds == IF script.name = "mock" THEN {"upgrade", "set"} ELSE {"upgrade"}

\* proposal.submit: nothing is proposed if nothing was added.
Submit ==
    /\ script.pc = "submit"
    /\ proposals' = IF script.calls = <<>> THEN proposals
                    ELSE proposals \cup
                        {[kinds |-> ProposalKinds,
                          versions |-> [c \in ToSet(script.calls) |-> NewVersion]]}
    /\ Exit
    /\ UNCHANGED <<chain, wallet, outputs, upgrades, faults>>

\* The end of the hand-over and of the mock's script.
End ==
    /\ script.pc = "end"
    /\ Awaited
    /\ Exit
    /\ UNCHANGED <<chain, wallet, outputs, proposals, upgrades, faults>>

-----------------------------------------------------------------------------
Crash ==
    /\ script.name # "none"
    /\ \/ Hangs /\ UNCHANGED faults
       \/ faults < MaxFaults /\ faults' = faults + 1
    /\ Exit
    /\ UNCHANGED <<chain, wallet, outputs, proposals, upgrades>>

StopHanging == Crash /\ Hangs

HandoverStep ==
    \/ StartHandover \/ Transfer \/ WaitForBatch \/ WaitForRest \/ TransferAdmin

UpgradeStep ==
    \/ DeployAggregator \/ RecordAggregator \/ ReadAdminOwner \/ AddCall
    \/ UpgradeProxy \/ AwaitUpgrade \/ SetPriceAggregator \/ Submit

Next ==
    \/ HandoverStep
    \/ StartUpgrade
    \/ UpgradeStep
    \/ End
    \/ Mine
    \/ ExecuteProposal
    \/ Drop
    \/ Crash

Spec == Init /\ [][Next]_vars

\* The operators see the hand-over through, stopping a script that hangs, and
\* the node mines what it can.
FairSpec ==
    /\ Spec
    /\ WF_vars(HandoverStep) /\ WF_vars(UpgradeStep) /\ WF_vars(End)
    /\ WF_vars(Mine) /\ WF_vars(StopHanging)

-----------------------------------------------------------------------------
(* Properties.                                                             *)

TypeOK ==
    /\ owner \in [Names -> {"deployer", "multisig"}]
    /\ adminOwner \in {"deployer", "multisig"}
    /\ version \in [Names -> {"original", "new", "mock"}]
    /\ mined \in Nat
    /\ \A n \in DOMAIN pending : n >= mined /\ pending[n].kind \in Kinds
    /\ reverted \subseteq 0 .. mined - 1
    /\ script.name \in {"none", "handover", "upgrade", "mock"}
    /\ \A n \in script.txs : n \in Nat
    /\ upgrades \in 0 .. MaxUpgrades
    /\ faults \in 0 .. MaxFaults

\* The ProxyAdmin is handed over after all contracts: as long as it belongs to
\* the deployer a hand-over that failed can be mended with an upgrade, and once
\* it does not, nothing is left with the deployer.  The wait for every batch,
\* the order of the nonces and the order of the contracts in a later run keep
\* this whatever is dropped (change-owners.js:54-101).
ProxyAdminLast ==
    adminOwner = "multisig" => \A c \in Names : owner[c] = "multisig"

\* The hand-over can be run until everything belongs to the multisig, whatever
\* was dropped, refused or interrupted.
HandoverCompletes ==
    <>[](adminOwner = "multisig" /\ \A c \in Names : owner[c] = "multisig")
=============================================================================
