----------------------------- MODULE Deployment -----------------------------
(***************************************************************************)
(* The deployment script (deployments/deploy.js) with the helper it calls  *)
(* (utils/hardhatDeploymentHelpers.js).                                    *)
(*                                                                         *)
(* The contracts refer to one another in a cycle, so the script gives each *)
(* proxy, at its initialization, the addresses the others are going to     *)
(* have: an address follows from the deployer's nonce.  A proxy takes two  *)
(* transactions, its implementation and itself, and the first one ever     *)
(* also deploys the ProxyAdmin.  What was deployed is recorded in a file,  *)
(* and a script that is run again loads what it finds there.               *)
(*                                                                         *)
(* The address of a contract is represented by the nonce that created it.  *)
(* Between any two awaits the script may die, a transaction may be mined   *)
(* and revert, and somebody may use the wallet for something else.         *)
(***************************************************************************)
EXTENDS Integers, Sequences, SequencesExt, FiniteSets

CONSTANTS
    NoAddress,         \* a name that is not in the file
    UniswapExists,     \* whether a Uniswap factory is configured
    AdminNonces,       \* transactions the plugin sends for a ProxyAdmin
    MaxInterruptions   \* bound on crashes, reverts and foreign transactions

ASSUME NoAddressAssumption == NoAddress \notin Nat
ASSUME UniswapExistsAssumption == UniswapExists \in BOOLEAN
ASSUME AdminNoncesAssumption == AdminNonces \in Nat
ASSUME MaxInterruptionsAssumption == MaxInterruptions \in Nat

-----------------------------------------------------------------------------
(* What is deployed, in which order, and with which addresses.             *)

OracleWrappers == <<"pythCaller", "tellorCaller">>

\* The order in which the script hands out addresses.
proxyContractList ==
    <<"priceFeed", "sortedTroves", "troveManager", "activePool",
      "stabilityPool", "gasPool", "defaultPool", "collSurplusPool",
      "borrowerOperations", "hintHelpers", "debtToken", "unipool",
      "protocolTokenStaking", "lockupContractFactory", "communityIssuance",
      "protocolToken">>

\* The order in which the helper deploys, by the part after which the
\* script checks addresses.
CoreContracts ==
    <<"priceFeed", "sortedTroves", "troveManager", "activePool",
      "stabilityPool", "gasPool", "defaultPool", "collSurplusPool",
      "borrowerOperations", "hintHelpers", "debtToken">>
ProtocolTokenContracts ==
    <<"protocolTokenStaking", "lockupContractFactory", "communityIssuance",
      "protocolToken">>
\* mutant: the debt token deployed before the hint helpers.
PartsInAnotherOrder ==
    <<OracleWrappers, <<"priceFeed", "sortedTroves", "troveManager",
        "activePool", "stabilityPool", "gasPool", "defaultPool",
        "collSurplusPool", "borrowerOperations", "debtToken", "hintHelpers">>,
      <<"unipool">>, ProtocolTokenContracts, <<"multiTroveGetter">> >>
Parts == <<OracleWrappers, CoreContracts, <<"unipool">>,
           ProtocolTokenContracts, <<"multiTroveGetter">> >>

Proxies == ToSet(proxyContractList)
Names == Proxies \cup ToSet(OracleWrappers) \cup {"multiTroveGetter"}

CoreInitializationArgs ==
    [priceFeed |-> {"pythCaller", "tellorCaller"},
     sortedTroves |-> {"troveManager", "borrowerOperations"},
     troveManager |-> {"borrowerOperations", "activePool", "defaultPool",
        "stabilityPool", "gasPool", "collSurplusPool", "priceFeed",
        "debtToken", "sortedTroves", "protocolTokenStaking"},
     activePool |-> {"borrowerOperations", "troveManager", "stabilityPool",
        "defaultPool"},
     stabilityPool |-> {"borrowerOperations", "troveManager", "activePool",
        "debtToken", "sortedTroves", "priceFeed", "communityIssuance"},
     gasPool |-> {},
     defaultPool |-> {"troveManager", "activePool"},
     collSurplusPool |-> {"borrowerOperations", "troveManager", "activePool"},
     borrowerOperations |-> {"troveManager", "activePool", "defaultPool",
        "stabilityPool", "gasPool", "collSurplusPool", "priceFeed",
        "sortedTroves", "debtToken", "protocolTokenStaking"},
     hintHelpers |-> {"sortedTroves", "troveManager"},
     debtToken |-> {"troveManager", "stabilityPool", "borrowerOperations"}]
TokenInitializationArgs ==
    [protocolTokenStaking |-> {"protocolToken", "debtToken", "troveManager",
        "borrowerOperations", "activePool"},
     lockupContractFactory |-> {"protocolToken"},
     communityIssuance |-> {"protocolToken", "stabilityPool"},
     protocolToken |-> {"protocolTokenStaking"}]
OtherArgs ==
    [n \in {"pythCaller", "tellorCaller", "unipool"} |-> {}]
MultiTroveGetterArgs == {"troveManager", "sortedTroves"}

Args(name) ==
    CASE name \in DOMAIN CoreInitializationArgs -> CoreInitializationArgs[name]
      [] name \in DOMAIN TokenInitializationArgs -> TokenInitializationArgs[name]
      [] name \in DOMAIN OtherArgs -> OtherArgs[name]
      [] OTHER -> MultiTroveGetterArgs

-----------------------------------------------------------------------------
VARIABLES
    nonce,          \* transactions the deployer's wallet has sent
    contracts,      \* on the chain: address -> name and addresses given to it
    manifestAdmin,  \* whether the plugin knows a ProxyAdmin of the network
    outputs,        \* deployments/outputs/<network>.json: name -> address
    script,         \* the running script: where it is, and its locals
    newNetwork,     \* whether the network had no ProxyAdmin at the beginning
    firstNonce,     \* history: the nonce when addresses were first computed
    runs,           \* history: starts of the script, counted up to 2
    pairs,          \* debt tokens that Uniswap has a pair with WFIL for
    interruptions   \* how often something went wrong

world == <<nonce, contracts, manifestAdmin, outputs, pairs>>
history == <<newNetwork, firstNonce, runs>>
vars == <<world, script, history, interruptions>>

Stopped == [pc |-> "stopped", part |-> 1, next |-> 1, address |-> NoAddress,
            cp |-> [n \in Proxies |-> NoAddress]]

TypeOK ==
    /\ nonce \in Nat
    /\ DOMAIN contracts \subseteq 0 .. nonce - 1
    /\ \A a \in DOMAIN contracts : contracts[a].name \in Names
    /\ manifestAdmin \in BOOLEAN
    /\ outputs \in [Names -> Nat \cup {NoAddress}]
    /\ script.pc \in {"stopped", "count", "contract", "admin", "proxy", "save",
                      "check", "mismatch", "getPair", "createPair", "done"}
    /\ script.part \in 1 .. Len(Parts)
    /\ script.next \in Nat
    /\ script.address \in Nat \cup {NoAddress}
    /\ script.cp \in [Proxies -> Nat \cup {NoAddress}]
    /\ newNetwork \in BOOLEAN
    /\ firstNonce \in Nat \cup {NoAddress}
    /\ runs \in 0 .. 2
    /\ pairs \subseteq DOMAIN contracts
    /\ interruptions \in 0 .. MaxInterruptions

Init ==
    /\ nonce = 0
    /\ contracts = [a \in {} |-> 0]
    /\ newNetwork \in BOOLEAN
    /\ manifestAdmin = ~newNetwork
    /\ outputs = [n \in Names |-> NoAddress]
    /\ script = Stopped
    /\ firstNonce = NoAddress
    /\ runs = 0
    /\ pairs = {}
    /\ interruptions = 0

-----------------------------------------------------------------------------
(* The script.                                                             *)

Recorded(name) == outputs[name] # NoAddress

\* Starting the script loads the file; the state in memory and the file are
\* changed together from then on.
Start ==
    /\ script.pc \in {"stopped", "mismatch"}
    /\ script' = [Stopped EXCEPT !.pc = "contract"]
    /\ runs' = IF runs < 2 THEN runs + 1 ELSE runs
    /\ UNCHANGED <<world, newNetwork, firstNonce, interruptions>>

\* mutant: two are skipped whatever the plugin knows.
AddressListSkipped == nonce + 2

\* Addresses from the current nonce on, past those of a ProxyAdmin if the
\* plugin has none yet: the script skips two.
AddressList == IF manifestAdmin THEN nonce ELSE nonce + 2

\* mutant: the addresses of recorded contracts are computed as well.
ComputedAfresh(i) == AddressList + 2 * (i - 1) + 1

\* The address of the i-th contract of the list: two nonces for each that has
\* to be deployed, the second of which creates the proxy.
ComputedAddress(i) ==
    LET missing(j) == ~Recorded(proxyContractList[j])
        before == Cardinality({j \in 1 .. i - 1 : missing(j)})
    IN IF missing(i) THEN AddressList + 2 * before + 1
                     ELSE outputs[proxyContractList[i]]

IndexOf(name) ==
    CHOOSE i \in 1 .. Len(proxyContractList) : proxyContractList[i] = name

\* cpContracts, computed after the oracle wrappers are deployed.
ComputeContractAddresses ==
    /\ script.pc = "count"
    /\ script' = [script EXCEPT !.pc = "contract",
                    !.cp = [n \in Proxies |-> ComputedAddress(IndexOf(n))]]
    /\ firstNonce' = IF firstNonce = NoAddress THEN nonce ELSE firstNonce
    /\ UNCHANGED <<world, newNetwork, runs, interruptions>>

Current == Parts[script.part][script.next]

\* After the last contract of a part: the wrappers are followed by the
\* computation of addresses, the getter by the pair, any other by a check.
AfterContract ==
    IF script.next < Len(Parts[script.part])
      THEN [script EXCEPT !.pc = "contract", !.next = @ + 1]
    ELSE IF script.part = 1
      THEN [script EXCEPT !.pc = "count", !.part = 2, !.next = 1]
    ELSE IF script.part = Len(Parts)
      THEN [script EXCEPT !.pc = IF UniswapExists THEN "getPair" ELSE "done"]
    ELSE [script EXCEPT !.pc = "check"]

LoadPrevious ==
    /\ script.pc = "contract"
    /\ Recorded(Current)
    /\ script' = AfterContract
    /\ UNCHANGED <<world, history, interruptions>>

\* The wrappers' addresses are those of the contracts, the proxies' computed.
AddressGiven(name) == IF name \in Proxies THEN script.cp[name] ELSE outputs[name]

Deployed == [name |-> Current, args |-> [d \in Args(Current) |-> AddressGiven(d)]]

\* A contract that is no proxy takes one transaction.
DeployContract ==
    /\ script.pc = "contract"
    /\ ~Recorded(Current)
    /\ Current \notin Proxies
    /\ contracts' = [a \in DOMAIN contracts \cup {nonce} |->
                        IF a = nonce THEN Deployed ELSE contracts[a]]
    /\ nonce' = nonce + 1
    /\ script' = [script EXCEPT !.pc = "save", !.address = nonce]
    /\ UNCHANGED <<manifestAdmin, outputs, pairs, history, interruptions>>

\* deployProxy with redeployImplementation "always": first the implementation,
DeployImplementation ==
    /\ script.pc = "contract"
    /\ ~Recorded(Current)
    /\ Current \in Proxies
    /\ nonce' = nonce + 1
    /\ script' = [script EXCEPT !.pc = IF manifestAdmin THEN "proxy" ELSE "admin"]
    /\ UNCHANGED <<contracts, manifestAdmin, outputs, pairs, history, interruptions>>

\* then the ProxyAdmin, if the network has none,
DeployProxyAdmin ==
    /\ script.pc = "admin"
    /\ nonce' = nonce + AdminNonces
    /\ manifestAdmin' = TRUE
    /\ script' = [script EXCEPT !.pc = "proxy"]
    /\ UNCHANGED <<contracts, outputs, pairs, history, interruptions>>

\* then the proxy, initialized with the addresses computed for the others.
DeployProxy ==
    /\ script.pc = "proxy"
    /\ contracts' = [a \in DOMAIN contracts \cup {nonce} |->
                        IF a = nonce THEN Deployed ELSE contracts[a]]
    /\ nonce' = nonce + 1
    /\ script' = [script EXCEPT !.pc = "save", !.address = nonce]
    /\ UNCHANGED <<manifestAdmin, outputs, pairs, history, interruptions>>

\* Once the transaction is mined, its contract is recorded in the file.
SaveDeployment ==
    /\ script.pc = "save"
    /\ outputs' = [outputs EXCEPT ![Current] = script.address]
    /\ script' = AfterContract
    /\ UNCHANGED <<nonce, contracts, manifestAdmin, pairs, history, interruptions>>

\* mutant: a mismatch is only logged.
UncheckedContractAddresses ==
    /\ script.pc = "check"
    /\ script' = [script EXCEPT !.pc = "contract", !.part = @ + 1, !.next = 1]
    /\ UNCHANGED <<world, history, interruptions>>

\* The contracts of a part are where they were computed to be, or the script
\* throws.
CheckContractAddresses ==
    /\ script.pc = "check"
    /\ script' =
        IF \A n \in ToSet(Parts[script.part]) : outputs[n] = script.cp[n]
          THEN [script EXCEPT !.pc = "contract", !.part = @ + 1, !.next = 1]
          ELSE [Stopped EXCEPT !.pc = "mismatch"]
    /\ UNCHANGED <<world, history, interruptions>>

\* The pair of the debt token with WFIL is created if there is none.
GetPair ==
    /\ script.pc = "getPair"
    /\ script' = [script EXCEPT
                    !.pc = IF outputs["debtToken"] \in pairs THEN "done"
                                                             ELSE "createPair"]
    /\ UNCHANGED <<world, history, interruptions>>

CreatePair ==
    /\ script.pc = "createPair"
    /\ outputs["debtToken"] \notin pairs
    /\ pairs' = pairs \cup {outputs["debtToken"]}
    /\ nonce' = nonce + 1
    /\ script' = [script EXCEPT !.pc = "done"]
    /\ UNCHANGED <<contracts, manifestAdmin, outputs, history, interruptions>>

\* Somebody else was faster: the factory reverts, and the script exits.
CreatePairReverts ==
    /\ script.pc = "createPair"
    /\ outputs["debtToken"] \in pairs
    /\ nonce' = nonce + 1
    /\ script' = Stopped
    /\ UNCHANGED <<contracts, manifestAdmin, outputs, pairs, history, interruptions>>

-----------------------------------------------------------------------------
(* What may go wrong around it.                                            *)

Running == script.pc \notin {"stopped", "mismatch", "done"}

Interrupt ==
    /\ interruptions < MaxInterruptions
    /\ interruptions' = interruptions + 1
    /\ UNCHANGED <<contracts, manifestAdmin, outputs, history>>

\* The process dies, and its memory with it.
Crash ==
    /\ Interrupt
    /\ Running
    /\ script' = Stopped
    /\ UNCHANGED <<nonce, pairs>>

\* A transaction is mined and reverts: it takes a nonce, and the script exits.
TransactionReverts ==
    /\ Interrupt
    /\ \/ script.pc \in {"admin", "proxy", "createPair"}
       \/ script.pc = "contract" /\ ~Recorded(Current)
    /\ nonce' = nonce + 1
    /\ script' = Stopped
    /\ UNCHANGED pairs

\* The wallet is used for something else.
ForeignTransaction ==
    /\ Interrupt
    /\ nonce' = nonce + 1
    /\ UNCHANGED <<script, pairs>>

\* Anybody may create the pair of a debt token that is deployed.
SomebodyCreatesPair ==
    /\ Interrupt
    /\ UniswapExists
    /\ \E a \in DOMAIN contracts \ pairs :
        contracts[a].name = "debtToken" /\ pairs' = pairs \cup {a}
    /\ UNCHANGED <<nonce, script>>

ScriptStep ==
    \/ Start
    \/ ComputeContractAddresses
    \/ LoadPrevious
    \/ DeployContract
    \/ DeployImplementation
    \/ DeployProxyAdmin
    \/ DeployProxy
    \/ SaveDeployment
    \/ CheckContractAddresses
    \/ GetPair
    \/ CreatePair
    \/ CreatePairReverts

Next ==
    \/ ScriptStep
    \/ Crash
    \/ TransactionReverts
    \/ ForeignTransaction
    \/ SomebodyCreatesPair

Spec == Init /\ [][Next]_vars

\* The script runs as long as nothing stops it, and somebody starts it again.
FairSpec == Spec /\ WF_vars(ScriptStep)

-----------------------------------------------------------------------------
(* Properties.                                                             *)

\* A contract refers to the contracts in the file.
IsWired(name) ==
    LET given == contracts[outputs[name]].args
    IN \A d \in DOMAIN given : given[d] = outputs[d]

AllWired == \A n \in Names : Recorded(n) /\ IsWired(n)

\* Since addresses were first computed, the wallet was used for nothing but
\* the proxies in the file.
NoNonceLost ==
    {outputs[n] : n \in Proxies} =
        {firstNonce + 2 * i - 1 : i \in 1 .. Cardinality(Proxies)}

\* A deployment that was resumed, however often, is wired correctly if no
\* nonce of the wallet was lost since addresses were first computed: those
\* that a later run computes then are those that earlier runs gave to the
\* contracts they deployed (deploy.js:50-86).
ResumedWithoutLossIsWired ==
    script.pc = "done" /\ ~newNetwork /\ NoNonceLost => AllWired

\* A deployment that the script made in one run is wired correctly, on any
\* network, whatever else the wallet was used for meanwhile and however many
\* nonces the plugin took for a ProxyAdmin: the addresses that contracts were
\* given before they existed are compared with those that they have before the
\* script goes on (deploy.js:89-99).
CheckedDeploymentIsWired == script.pc = "done" /\ runs = 1 => AllWired

\* On a network that has a ProxyAdmin, a script that was not interrupted ends
\* without a mismatch, that is, the list of addresses counts the nonces that
\* the deployment consumes (deploy.js:64).
MismatchMeansInterference ==
    script.pc = "mismatch" /\ ~newNetwork => interruptions > 0

\* The same on a network that has none, where the script skips two nonces "for
\* ProxyAdmin" (deploy.js:67-71).
NewNetworkMismatchMeansInterference ==
    script.pc = "mismatch" /\ newNetwork => interruptions > 0

\* The script can be run until it is done, whatever interrupted it.
DeploymentCompletes == <>[](script.pc = "done")

\* The claim of the comment at deploy.js:29: the order of the list is what
\* is needed for the addresses to be right.
ResumedIsWired == script.pc = "done" => AllWired
=============================================================================
