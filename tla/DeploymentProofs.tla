--------------------------- MODULE DeploymentProofs ---------------------------
(***************************************************************************)
(* Proofs about the deployment script (Deployment).                        *)
(*                                                                         *)
(* The contracts are numbered in the order in which they are deployed, and *)
(* the argument is about one number: the base of an address a that the     *)
(* contract at position p has or is given, a - 2 * p.  Each proxy takes    *)
(* two transactions, so that the base of the addresses that contracts get  *)
(* never decreases, and stays what it is unless a nonce is lost.  Of a     *)
(* deployment made by one run, on any network, no counting is needed: what *)
(* the script gave was what it later compares.                             *)
(***************************************************************************)
EXTENDS Deployment, FiniteSetTheorems, WellFoundedInduction, TLAPS

-----------------------------------------------------------------------------
(* Positions.                                                              *)

\* All contracts in the order of their deployment.
Order ==
    <<"pythCaller", "tellorCaller", "priceFeed", "sortedTroves",
      "troveManager", "activePool", "stabilityPool", "gasPool", "defaultPool",
      "collSurplusPool", "borrowerOperations", "hintHelpers", "debtToken",
      "unipool", "protocolTokenStaking", "lockupContractFactory",
      "communityIssuance", "protocolToken", "multiTroveGetter">>

Positions == 1 .. 19
ProxyPositions == 3 .. 18

\* The contracts before each part, and the position of a script.
Before == <<0, 2, 13, 14, 18>>
Position(s) == Before[s.part] + s.next

\* The contracts a script has found in the file or put there.
Behind(s) == IF s.pc \in {"check", "getPair", "createPair", "done"}
               THEN Position(s) ELSE Position(s) - 1

\* A script that has computed addresses.
Counted(s) == s.part >= 2 /\ s.pc # "count"

Place(p) == outputs[Order[p]]
Has(p) == Place(p) # NoAddress

-----------------------------------------------------------------------------
(* The inductive invariant.                                                *)

Scripts ==
    [pc : {"stopped", "count", "contract", "admin", "proxy", "save", "check",
           "mismatch", "getPair", "createPair", "done"},
     part : 1 .. 5, next : Nat, address : Nat \cup {NoAddress},
     cp : [Proxies -> Nat \cup {NoAddress}]]

\* A script is at a contract, which is a proxy where the proxy is deployed
\* and not in the file where it is deployed; addresses are checked after a
\* part of proxies.
ScriptShape ==
    /\ script \in Scripts
    /\ script.next \in 1 .. Len(Parts[script.part])
    /\ script.pc \in {"stopped", "mismatch"} => script.part = 1 /\ script.next = 1
    /\ script.pc = "count" => script.part = 2 /\ script.next = 1
    /\ script.pc \in {"admin", "proxy", "check"} => script.part \in 2 .. 4
    /\ script.pc = "check" => script.next = Len(Parts[script.part])
    /\ script.pc \in {"getPair", "createPair", "done"} => script.part = 5
    /\ script.pc \in {"admin", "proxy", "save"} => ~Recorded(Current)
    /\ script.pc = "save" => script.address \in DOMAIN contracts

\* The file holds the contracts up to some position, those the script has
\* passed among them.
FileIsPrefix ==
    /\ \A p, q \in Positions : p < q /\ Has(q) => Has(p)
    /\ \A p \in Positions : p <= Behind(script) => Has(p)

\* A contract in the file is on the chain.
OnChain ==
    /\ \A p \in Positions : Has(p) =>
        /\ Place(p) \in DOMAIN contracts
        /\ DOMAIN contracts[Place(p)].args = Args(Order[p])
    /\ script.pc = "save" =>
        DOMAIN contracts[script.address].args = Args(Current)

\* The lowest address the next proxy may get.
Earliest == IF script.pc = "save" /\ script.part \in 2 .. 4 THEN script.address
            ELSE IF script.pc = "proxy" THEN nonce
            ELSE nonce + 1

\* No proxy that is still to be recorded will have a base below b.
Ahead(b) ==
    \A p \in ProxyPositions : ~Has(p) /\ Has(p - 1) => b <= Earliest - 2 * p

\* The base of the first computation of addresses.
FirstBase == firstNonce - 5

\* Addresses are computed once the wrappers are in the file, and bases begin
\* with the first computation.
FirstComputation ==
    /\ firstNonce \in Nat => Has(2) /\ Ahead(FirstBase)
    /\ firstNonce = NoAddress => \A p \in ProxyPositions : ~Has(p)
    /\ Counted(script) => firstNonce \in Nat

\* Bases do not decrease along the file.
BasesGrow ==
    \A p \in ProxyPositions : Has(p) =>
        /\ FirstBase <= Place(p) - 2 * p
        /\ Ahead(Place(p) - 2 * p)
        /\ \A q \in ProxyPositions :
            p < q /\ Has(q) => Place(p) - 2 * p <= Place(q) - 2 * q

\* The addresses a run computes for what is missing have one base, b.
ComputedWith(b) ==
    /\ FirstBase <= b
    /\ Ahead(b)
    /\ \A p \in ProxyPositions :
        \/ Has(p) /\ script.cp[Order[p]] = Place(p)
        \/ script.cp[Order[p]] = b + 2 * p
ComputedWithOneBase == Counted(script) => \E b \in Int : ComputedWith(b)

\* The contracts of a part that was checked are where they were computed.
CheckedParts ==
    Counted(script) =>
        \A p \in ProxyPositions :
            p <= Before[script.part] => script.cp[Order[p]] = Place(p)

\* What the contract at position p with address a was given for another: its
\* address in the file, or one with a base no higher than that of a.
Given(given, p, a) ==
    \A q \in 1 .. 18 : Order[q] \in DOMAIN given =>
        \/ Has(q) /\ given[Order[q]] = Place(q)
        \/ /\ q \in ProxyPositions
           /\ given[Order[q]] \in Nat
           /\ FirstBase <= given[Order[q]] - 2 * q
           /\ given[Order[q]] - 2 * q <= a - 2 * p
ProxiesGiven ==
    /\ \A p \in ProxyPositions :
        Has(p) => Given(contracts[Place(p)].args, p, Place(p))
    /\ script.pc = "save" /\ script.part \in 2 .. 4 =>
        Given(contracts[script.address].args, Position(script), script.address)

\* The getter was given addresses that had been checked.
GivenRecorded(given) ==
    \A q \in ProxyPositions :
        Order[q] \in DOMAIN given => given[Order[q]] = Place(q)
GetterGiven ==
    /\ Has(19) => GivenRecorded(contracts[Place(19)].args)
    /\ script.pc = "save" /\ script.part = 5 =>
        GivenRecorded(contracts[script.address].args)

\* On a network that has a ProxyAdmin.
ResumeInv ==
    /\ manifestAdmin
    /\ script.pc # "admin"
    /\ FirstComputation
    /\ BasesGrow
    /\ ComputedWithOneBase
    /\ CheckedParts
    /\ ProxiesGiven
    /\ GetterGiven

\* A run that nothing interferes with: what is recorded is what the script has
\* passed, and every address has the same base.
Undisturbed ==
    /\ script.pc # "mismatch"
    /\ script.pc # "done" => pairs = {}
    /\ \A p \in Positions : Has(p) => p <= Behind(script)
    /\ script.pc = "stopped" => nonce = 0
    /\ script.part = 1 /\ script.pc = "contract" => nonce = script.next - 1
    /\ script.part = 1 /\ script.pc = "save" => nonce = script.next
    /\ script.pc = "count" => nonce = 2
    /\ Counted(script) =>
        /\ \A p \in ProxyPositions : script.cp[Order[p]] = 2 * p - 3
        /\ \A p \in ProxyPositions : Has(p) => Place(p) = 2 * p - 3
        /\ \A p \in ProxyPositions :
            ~Has(p) /\ Has(p - 1) => Earliest = 2 * p - 3
        /\ script.pc = "save" /\ script.part <= 4 => nonce = script.address + 1

Inv ==
    /\ TypeOK
    /\ ScriptShape
    /\ FileIsPrefix
    /\ OnChain
    /\ ~newNetwork => ResumeInv
    /\ ~newNetwork /\ interruptions = 0 => Undisturbed

-----------------------------------------------------------------------------
(* The order of deployment.                                                *)

\* The parts, one after the other, are the order.
LEMMA PartPositions ==
    ASSUME NEW k \in 1 .. 5, NEW n \in 1 .. Len(Parts[k])
    PROVE  /\ Len(Parts) = 5
           /\ Before[k] \in Nat
           /\ Before[k] + n \in Positions
           /\ Parts[k][n] = Order[Before[k] + n]
           /\ k = 1 <=> Before[k] + n <= 2
           /\ k = 5 <=> Before[k] + n = 19
<1>1. Len(Parts) = 5
  BY DEF Parts
<1>2. CASE k = 1
  <2>1. Parts[k] = OracleWrappers /\ Before[k] = 0
    BY <1>2 DEF Parts, Before
  <2>2. n \in 1 .. 2
    BY <2>1 DEF OracleWrappers
  <2> QED
    BY <1>1, <1>2, <2>1, <2>2 DEF OracleWrappers, Order, Positions
<1>3. CASE k = 2
  <2>1. Parts[k] = CoreContracts /\ Before[k] = 2
    BY <1>3 DEF Parts, Before
  <2>2. n \in 1 .. 11
    BY <2>1 DEF CoreContracts
  <2> QED
    BY <1>1, <1>3, <2>1, <2>2 DEF CoreContracts, Order, Positions
<1>4. CASE k = 3
  <2>1. Parts[k] = <<"unipool">> /\ Before[k] = 13
    BY <1>4 DEF Parts, Before
  <2>2. n = 1
    BY <2>1
  <2> QED
    BY <1>1, <1>4, <2>1, <2>2 DEF Order, Positions
<1>5. CASE k = 4
  <2>1. Parts[k] = ProtocolTokenContracts /\ Before[k] = 14
    BY <1>5 DEF Parts, Before
  <2>2. n \in 1 .. 4
    BY <2>1 DEF ProtocolTokenContracts
  <2> QED
    BY <1>1, <1>5, <2>1, <2>2 DEF ProtocolTokenContracts, Order, Positions
<1>6. CASE k = 5
  <2>1. Parts[k] = <<"multiTroveGetter">> /\ Before[k] = 18
    BY <1>6 DEF Parts, Before
  <2>2. n = 1
    BY <2>1
  <2> QED
    BY <1>1, <1>6, <2>1, <2>2 DEF Order, Positions
<1> QED
  BY <1>2, <1>3, <1>4, <1>5, <1>6

\* A part begins where the one before it ends.
LEMMA PartEnds ==
    ASSUME NEW k \in 1 .. 4
    PROVE  /\ Len(Parts[k]) \in Nat \ {0}
           /\ 1 \in 1 .. Len(Parts[k + 1])
           /\ Before[k + 1] = Before[k] + Len(Parts[k])
<1>1. CASE k = 1
  <2>1. k + 1 = 2
    BY <1>1
  <2>2. Len(Parts[k]) = 2 /\ Len(Parts[k + 1]) = 11
    BY <1>1, <2>1 DEF Parts, OracleWrappers, CoreContracts, ProtocolTokenContracts
  <2>3. Before[k] = 0 /\ Before[k + 1] = 2
    BY <1>1, <2>1 DEF Before
  <2> QED
    BY <2>2, <2>3
<1>2. CASE k = 2
  <2>1. k + 1 = 3
    BY <1>2
  <2>2. Len(Parts[k]) = 11 /\ Len(Parts[k + 1]) = 1
    BY <1>2, <2>1 DEF Parts, OracleWrappers, CoreContracts, ProtocolTokenContracts
  <2>3. Before[k] = 2 /\ Before[k + 1] = 13
    BY <1>2, <2>1 DEF Before
  <2> QED
    BY <2>2, <2>3
<1>3. CASE k = 3
  <2>1. k + 1 = 4
    BY <1>3
  <2>2. Len(Parts[k]) = 1 /\ Len(Parts[k + 1]) = 4
    BY <1>3, <2>1 DEF Parts, OracleWrappers, CoreContracts, ProtocolTokenContracts
  <2>3. Before[k] = 13 /\ Before[k + 1] = 14
    BY <1>3, <2>1 DEF Before
  <2> QED
    BY <2>2, <2>3
<1>4. CASE k = 4
  <2>1. k + 1 = 5
    BY <1>4
  <2>2. Len(Parts[k]) = 4 /\ Len(Parts[k + 1]) = 1
    BY <1>4, <2>1 DEF Parts, OracleWrappers, CoreContracts, ProtocolTokenContracts
  <2>3. Before[k] = 14 /\ Before[k + 1] = 18
    BY <1>4, <2>1 DEF Before
  <2> QED
    BY <2>2, <2>3
<1> QED
  BY <1>1, <1>2, <1>3, <1>4

\* No contract is deployed twice.
LEMMA OrderInjective ==
    \A p, q \in Positions : Order[p] = Order[q] => p = q
  BY DEF Positions, Order

\* The list of proxies is the order without the wrappers and the getter.
LEMMA ListPositions ==
    /\ Len(proxyContractList) = 16
    /\ \A i \in 1 .. 16 : proxyContractList[i] = Order[i + 2]
  BY DEF proxyContractList, Order

\* The names are those of the order.
LEMMA OrderNames ==
    /\ Names = {Order[p] : p \in Positions}
    /\ Proxies = {Order[p] : p \in ProxyPositions}
<1>1. Proxies = {Order[p] : p \in ProxyPositions}
  <2>1. DOMAIN proxyContractList = 1 .. 16
    BY DEF proxyContractList
  <2>2. Proxies = {proxyContractList[i] : i \in 1 .. 16}
    BY <2>1 DEF Proxies, ToSet
  <2>3. \A p \in ProxyPositions : p - 2 \in 1 .. 16 /\ Order[p] = proxyContractList[p - 2]
    BY ListPositions DEF ProxyPositions
  <2>4. \A i \in 1 .. 16 : i + 2 \in ProxyPositions
    BY DEF ProxyPositions
  <2> QED
    BY <2>2, <2>3, <2>4, ListPositions
<1>2. ToSet(OracleWrappers) = {Order[1], Order[2]}
  BY DEF OracleWrappers, ToSet, Order
<1>3. Order[19] = "multiTroveGetter"
  BY DEF Order
<1>4. Positions = ProxyPositions \cup {1, 2, 19}
  BY DEF Positions, ProxyPositions
<1> QED
  BY <1>1, <1>2, <1>3, <1>4 DEF Names

\* The address of a proxy is looked up at its place in the list.
LEMMA ProxyIndex ==
    ASSUME NEW p \in ProxyPositions
    PROVE  IndexOf(Order[p]) = p - 2
<1>1. p - 2 \in 1 .. 16 /\ proxyContractList[p - 2] = Order[p]
  BY ListPositions DEF ProxyPositions
<1>2. ASSUME NEW i \in 1 .. 16, proxyContractList[i] = Order[p]
      PROVE  i = p - 2
  <2>1. Order[i + 2] = Order[p]
    BY <1>2, ListPositions
  <2>2. i + 2 \in Positions /\ p \in Positions
    BY DEF Positions, ProxyPositions
  <2>3. i + 2 = p
    BY <2>1, <2>2, OrderInjective
  <2> QED
    BY <2>3 DEF ProxyPositions
<1> QED
  BY <1>1, <1>2, ListPositions DEF IndexOf

\* What a contract is given: a wrapper nothing, another proxies and wrappers,
\* and the getter proxies.
LEMMA ArgsPositions ==
    /\ \A p \in 1 .. 2 : Args(Order[p]) = {}
    /\ \A p \in ProxyPositions : Args(Order[p]) \subseteq {Order[q] : q \in 1 .. 18}
    /\ Args(Order[19]) \subseteq {Order[q] : q \in ProxyPositions}
  BY DEF Order, Args, ProxyPositions, CoreInitializationArgs, TokenInitializationArgs, OtherArgs, MultiTroveGetterArgs

-----------------------------------------------------------------------------
(* The script.                                                             *)

\* Where a script is.
LEMMA CurrentPosition ==
    ASSUME ScriptShape
    PROVE  /\ Position(script) \in Positions
           /\ Current = Order[Position(script)]
           /\ script.part = 1 <=> Position(script) <= 2
           /\ script.part = 5 <=> Position(script) = 19
           /\ Position(script) \in ProxyPositions <=> script.part \in 2 .. 4
           /\ Current \in Names
           /\ Current \in Proxies <=> script.part \in 2 .. 4
<1>1. script.part \in 1 .. 5 /\ script.next \in 1 .. Len(Parts[script.part])
  BY DEF ScriptShape, Scripts
<1> DEFINE P == Before[script.part] + script.next
<1>2. /\ P \in Positions
      /\ Current = Order[P]
      /\ script.part = 1 <=> P <= 2
      /\ script.part = 5 <=> P = 19
  BY <1>1, PartPositions DEF Current
<1>3. P \in ProxyPositions <=> script.part \in 2 .. 4
  BY <1>1, <1>2 DEF Positions, ProxyPositions
<1>4. Current \in Names
  BY <1>2, OrderNames
<1>5. Current \in Proxies <=> P \in ProxyPositions
  BY <1>2, OrderNames, OrderInjective DEF Positions, ProxyPositions
<1> QED
  BY <1>2, <1>3, <1>4, <1>5 DEF Position

\* Where it is after a contract.
LEMMA AfterPosition ==
    ASSUME ScriptShape, NEW s, s = AfterContract
    PROVE  /\ s \in Scripts
           /\ s.next \in 1 .. Len(Parts[s.part])
           /\ s.cp = script.cp /\ s.address = script.address
           /\ Behind(s) = Position(script)
           /\ \/ /\ s.pc = "contract" /\ s.part = script.part
                 /\ Position(s) = Position(script) + 1
                 /\ s.next = script.next + 1
              \/ s.pc = "count" /\ script.part = 1 /\ s.part = 2 /\ s.next = 1
              \/ /\ s.pc = "check" /\ s.part = script.part /\ script.part \in 2 .. 4
                 /\ s.next = Len(Parts[s.part])
              \/ s.pc \in {"getPair", "done"} /\ script.part = 5 /\ s.part = 5
<1>1. script \in Scripts /\ script.part \in 1 .. 5 /\ script.next \in 1 .. Len(Parts[script.part])
  BY DEF ScriptShape, Scripts
<1>2. Before[script.part] \in Nat /\ Len(Parts) = 5
  BY <1>1, PartPositions
<1>3. CASE script.next < Len(Parts[script.part])
  <2>1. s = [script EXCEPT !.pc = "contract", !.next = @ + 1]
    BY <1>3 DEF AfterContract
  <2>2. /\ s.pc = "contract" /\ s.part = script.part /\ s.next = script.next + 1
        /\ s.cp = script.cp /\ s.address = script.address /\ s \in Scripts
    <3>1. ASSUME NEW n \in Nat, NEW t, t = [script EXCEPT !.pc = "contract", !.next = n]
          PROVE  /\ t.pc = "contract" /\ t.part = script.part /\ t.next = n
                 /\ t.cp = script.cp /\ t.address = script.address /\ t \in Scripts
      BY <1>1, <3>1 DEF Scripts
    <3>2. script.next + 1 \in Nat
      BY <1>1
    <3> QED
      BY <2>1, <3>1, <3>2
  <2>3. script.next + 1 \in 1 .. Len(Parts[script.part])
    BY <1>1, <1>3
  <2>4. Position(s) = Position(script) + 1 /\ Position(script) \in Int
    BY <1>1, <1>2, <2>2 DEF Position
  <2> QED
    BY <2>2, <2>3, <2>4 DEF Behind
<1>4. CASE ~(script.next < Len(Parts[script.part])) /\ script.part = 1
  <2>1. s = [script EXCEPT !.pc = "count", !.part = 2, !.next = 1]
    BY <1>4 DEF AfterContract
  <2>2. /\ s.pc = "count" /\ s.part = 2 /\ s.next = 1
        /\ s.cp = script.cp /\ s.address = script.address /\ s \in Scripts
    <3>1. /\ s.pc = "count" /\ s.part = 2 /\ s.next = 1
          /\ s.cp = script.cp /\ s.address = script.address
      BY <1>1, <2>1 DEF Scripts
    <3>2. s = [pc |-> "count", part |-> 2, next |-> 1,
               address |-> script.address, cp |-> script.cp]
      BY <1>1, <2>1 DEF Scripts
    <3>3. script.address \in Nat \cup {NoAddress}
          /\ script.cp \in [Proxies -> Nat \cup {NoAddress}]
      BY <1>1 DEF Scripts
    <3>4. s \in Scripts
      BY <3>2, <3>3 DEF Scripts
    <3> QED
      BY <3>1, <3>4
  <2>3. /\ Len(Parts[1]) \in Nat \ {0} /\ 1 \in 1 .. Len(Parts[1 + 1])
        /\ Before[1 + 1] = Before[1] + Len(Parts[1])
    BY PartEnds
  <2>4. script.next = Len(Parts[1])
    BY <1>1, <1>4, <2>3
  <2>5. Position(s) = Position(script) + 1 /\ Position(script) \in Int
    BY <1>1, <1>2, <1>4, <2>2, <2>3, <2>4 DEF Position
  <2> QED
    BY <1>4, <2>2, <2>3, <2>5 DEF Behind
<1>5. CASE ~(script.next < Len(Parts[script.part])) /\ script.part = 5
  <2>1. s = [script EXCEPT !.pc = IF UniswapExists THEN "getPair" ELSE "done"]
    BY <1>2, <1>5 DEF AfterContract
  <2>2. /\ s.pc \in {"getPair", "done"} /\ s.part = 5 /\ s.next = script.next
        /\ s.cp = script.cp /\ s.address = script.address /\ s \in Scripts
    BY <1>1, <1>5, <2>1 DEF Scripts
  <2> QED
    BY <1>1, <1>5, <2>2 DEF Behind, Position
<1>6. CASE ~(script.next < Len(Parts[script.part])) /\ script.part \in 2 .. 4
  <2>1. s = [script EXCEPT !.pc = "check"]
    BY <1>2, <1>6 DEF AfterContract
  <2>2. /\ s.pc = "check" /\ s.part = script.part /\ s.next = script.next
        /\ s.cp = script.cp /\ s.address = script.address /\ s \in Scripts
    BY <1>1, <2>1 DEF Scripts
  <2>3. Len(Parts[script.part]) \in Nat
    BY <1>6, PartEnds
  <2>4. script.next = Len(Parts[script.part])
    BY <1>1, <1>6, <2>3
  <2> QED
    BY <1>1, <1>6, <2>2, <2>4 DEF Behind, Position
<1> QED
  BY <1>1, <1>3, <1>4, <1>5, <1>6

\* A script that has just been started, or stopped, is at the beginning.
LEMMA StoppedScript ==
    /\ Stopped \in Scripts
    /\ \A c \in {"stopped", "contract", "mismatch"} :
        LET s == [Stopped EXCEPT !.pc = c]
        IN s \in Scripts /\ s.pc = c /\ s.part = 1 /\ s.next = 1
    /\ Stopped.pc = "stopped" /\ Stopped.part = 1 /\ Stopped.next = 1
    /\ 1 \in 1 .. Len(Parts[1]) /\ Before[1] = 0
<1>1. 1 \in 1 .. Len(Parts[1]) /\ Before[1] = 0
  BY DEF Parts, OracleWrappers, Before
<1>2. [n \in Proxies |-> NoAddress] \in [Proxies -> Nat \cup {NoAddress}]
  OBVIOUS
<1>3. Stopped \in Scripts
  BY <1>2 DEF Stopped, Scripts
<1>4. Stopped.pc = "stopped" /\ Stopped.part = 1 /\ Stopped.next = 1
  BY DEF Stopped
<1>5. ASSUME NEW c \in {"stopped", "contract", "mismatch"}, NEW s, s = [Stopped EXCEPT !.pc = c]
      PROVE  s \in Scripts /\ s.pc = c /\ s.part = 1 /\ s.next = 1
  BY <1>3, <1>4, <1>5 DEF Scripts
<1> QED
  BY <1>1, <1>3, <1>4, <1>5

\* A step of the script within a contract.
LEMMA ScriptMoves ==
    ASSUME ScriptShape,
           NEW c \in {"count", "contract", "proxy", "save", "check", "getPair",
                      "createPair", "done"},
           NEW a \in Nat \cup {NoAddress}, NEW s,
           s = [script EXCEPT !.pc = c] \/ s = [script EXCEPT !.pc = c, !.address = a]
    PROVE  /\ s \in Scripts
           /\ s.pc = c /\ s.part = script.part /\ s.next = script.next
           /\ s.cp = script.cp
           /\ s.address \in {a, script.address}
           /\ s = [script EXCEPT !.pc = c, !.address = a] => s.address = a
           /\ Position(s) = Position(script)
<1>1. script \in Scripts
  BY DEF ScriptShape
<1>2. CASE s = [script EXCEPT !.pc = c]
  BY <1>1, <1>2 DEF Scripts, Position
<1>3. CASE s = [script EXCEPT !.pc = c, !.address = a]
  BY <1>1, <1>3 DEF Scripts, Position
<1> QED
  BY <1>2, <1>3

\* The step that computes addresses.
LEMMA CountMoves ==
    ASSUME TypeOK, ScriptShape, ComputeContractAddresses
    PROVE  /\ script' \in Scripts
           /\ script'.pc = "contract" /\ script'.part = 2 /\ script'.next = 1
           /\ \A p \in ProxyPositions :
                script'.cp[Order[p]] = ComputedAddress(p - 2)
<1> DEFINE f == [n \in Proxies |-> ComputedAddress(IndexOf(n))]
<1>1. script \in Scripts /\ script.part = 2 /\ script.next = 1
  BY DEF ScriptShape, ComputeContractAddresses
<1>2. \A p \in ProxyPositions :
        Order[p] \in Proxies /\ IndexOf(Order[p]) = p - 2
  BY ProxyIndex, OrderNames
<1>3. \A i \in 1 .. 16 : ComputedAddress(i) \in Nat \cup {NoAddress}
  <2> SUFFICES ASSUME NEW i \in 1 .. 16
               PROVE  ComputedAddress(i) \in Nat \cup {NoAddress}
    OBVIOUS
  <2>1. proxyContractList[i] \in Names
    <3>1. i + 2 \in Positions /\ proxyContractList[i] = Order[i + 2]
      BY ListPositions DEF Positions
    <3> QED
      BY <3>1, OrderNames
  <2>2. outputs[proxyContractList[i]] \in Nat \cup {NoAddress}
    BY <2>1 DEF TypeOK
  <2> DEFINE S == {j \in 1 .. i - 1 : ~Recorded(proxyContractList[j])}
  <2>3. Cardinality(S) \in Nat
    <3>1. IsFiniteSet(1 .. i - 1)
      BY FS_Interval
    <3>2. IsFiniteSet(S)
      BY <3>1, FS_Subset
    <3> QED
      BY <3>2, FS_CardinalityType
  <2>4. AddressList \in Nat
    BY DEF AddressList, TypeOK
  <2>5. i - 1 \in Nat
    OBVIOUS
  <2>6. AddressList + 2 * Cardinality(S) + 1 \in Nat
    <3> HIDE DEF S
    <3> QED
      BY <2>3, <2>4
  <2> QED
    BY <2>2, <2>6 DEF ComputedAddress
<1>4. f \in [Proxies -> Nat \cup {NoAddress}]
  <2> SUFFICES ASSUME NEW n \in Proxies
               PROVE  ComputedAddress(IndexOf(n)) \in Nat \cup {NoAddress}
    OBVIOUS
  <2>1. PICK p \in ProxyPositions : n = Order[p]
    BY OrderNames
  <2>2. p - 2 \in 1 .. 16
    BY DEF ProxyPositions
  <2> QED
    BY <1>2, <1>3, <2>1, <2>2
<1>5. script' = [script EXCEPT !.pc = "contract", !.cp = f]
  BY DEF ComputeContractAddresses
<1>6. \A p \in ProxyPositions : f[Order[p]] = ComputedAddress(p - 2)
  BY <1>2
<1>7. /\ script' \in Scripts
      /\ script'.pc = "contract" /\ script'.part = 2 /\ script'.next = 1
      /\ script'.cp = f
  <2> HIDE DEF f
  <2> QED
    BY <1>1, <1>4, <1>5 DEF Scripts
<1> QED
  BY <1>6, <1>7

\* The steps of the script that leave it at the beginning, those that move it
\* within a contract, and those that take it past one.
LEMMA ScriptSteps ==
    ASSUME TypeOK, ScriptShape, Next
    PROVE  \/ /\ script' \in Scripts
              /\ script'.pc \in {"stopped", "contract", "mismatch"}
              /\ script'.part = 1 /\ script'.next = 1
              /\ Start \/ CreatePairReverts \/ Crash \/ TransactionReverts \/ CheckContractAddresses
           \/ script' = script /\ (ForeignTransaction \/ SomebodyCreatesPair)
           \/ ComputeContractAddresses
           \/ script' = AfterContract /\ (LoadPrevious \/ SaveDeployment)
           \/ /\ script' = [script EXCEPT !.pc = "contract", !.part = @ + 1, !.next = 1]
              /\ CheckContractAddresses
              /\ \A n \in ToSet(Parts[script.part]) : outputs[n] = script.cp[n]
           \/ DeployContract
           \/ DeployImplementation
           \/ DeployProxyAdmin
           \/ DeployProxy
           \/ GetPair
           \/ CreatePair
<1>1. CASE Start
  BY <1>1, StoppedScript DEF Start
<1>2. CASE CreatePairReverts
  BY <1>2, StoppedScript DEF CreatePairReverts
<1>3. CASE Crash
  BY <1>3, StoppedScript DEF Crash
<1>4. CASE TransactionReverts
  BY <1>4, StoppedScript DEF TransactionReverts
<1>5. CASE CheckContractAddresses
  BY <1>5, StoppedScript DEF CheckContractAddresses
<1>6. CASE ForeignTransaction \/ SomebodyCreatesPair
  BY <1>6 DEF ForeignTransaction, SomebodyCreatesPair
<1>7. CASE LoadPrevious \/ SaveDeployment
  BY <1>7 DEF LoadPrevious, SaveDeployment
<1> QED
  BY <1>1, <1>2, <1>3, <1>4, <1>5, <1>6, <1>7 DEF Next, ScriptStep

\* What the steps do to the file and the chain: the file is changed when a
\* deployment is saved, where one of its names gets the address of a
\* contract, and contracts are added at the nonce.
LEMMA WorldSteps ==
    ASSUME TypeOK, ScriptShape, Next
    PROVE  /\ outputs' = outputs
              \/ /\ script.pc = "save"
                 /\ script' = AfterContract
                 /\ outputs' = [outputs EXCEPT ![Current] = script.address]
                 /\ contracts' = contracts /\ nonce' = nonce
           /\ contracts' = contracts
              \/ /\ DeployContract \/ DeployProxy
                 /\ nonce' = nonce + 1
                 /\ script' = [script EXCEPT !.pc = "save", !.address = nonce]
                 /\ contracts' = [a \in DOMAIN contracts \cup {nonce} |->
                                    IF a = nonce THEN Deployed ELSE contracts[a]]
           /\ nonce' \in Nat /\ nonce <= nonce'
           /\ newNetwork' = newNetwork
<1> USE DEF TypeOK, world, history
<1>1. CASE Start
  BY <1>1 DEF Start
<1>2. CASE ComputeContractAddresses
  BY <1>2 DEF ComputeContractAddresses
<1>3. CASE LoadPrevious
  BY <1>3 DEF LoadPrevious
<1>4. CASE DeployContract
  BY <1>4 DEF DeployContract
<1>5. CASE DeployImplementation
  BY <1>5 DEF DeployImplementation
<1>6. CASE DeployProxyAdmin
  BY <1>6, AdminNoncesAssumption DEF DeployProxyAdmin
<1>7. CASE DeployProxy
  BY <1>7 DEF DeployProxy
<1>8. CASE SaveDeployment
  BY <1>8 DEF SaveDeployment
<1>9. CASE CheckContractAddresses
  BY <1>9 DEF CheckContractAddresses
<1>10. CASE GetPair
  BY <1>10 DEF GetPair
<1>11. CASE CreatePair
  BY <1>11 DEF CreatePair
<1>12. CASE CreatePairReverts
  BY <1>12 DEF CreatePairReverts
<1>13. CASE Crash
  BY <1>13 DEF Crash, Interrupt
<1>14. CASE TransactionReverts
  BY <1>14 DEF TransactionReverts, Interrupt
<1>15. CASE ForeignTransaction
  BY <1>15 DEF ForeignTransaction, Interrupt
<1>16. CASE SomebodyCreatesPair
  BY <1>16 DEF SomebodyCreatesPair, Interrupt
<1> QED
  BY <1>1, <1>2, <1>3, <1>4, <1>5, <1>6, <1>7, <1>8, <1>9, <1>10, <1>11,
     <1>12, <1>13, <1>14, <1>15, <1>16 DEF Next, ScriptStep

\* Contracts stay where they are.
LEMMA ContractsStay ==
    ASSUME TypeOK, ScriptShape, Next
    PROVE  \A a \in DOMAIN contracts :
                a \in DOMAIN contracts' /\ contracts'[a] = contracts[a]
<1>1. nonce \notin DOMAIN contracts
  BY DEF TypeOK
<1> QED
  BY <1>1, WorldSteps

\* The shape of a script is kept.
LEMMA ShapeStep ==
    ASSUME TypeOK, ScriptShape, Next
    PROVE  ScriptShape'
<1> DEFINE Shape(s) ==
        /\ s \in Scripts
        /\ s.next \in 1 .. Len(Parts[s.part])
        /\ s.pc \in {"stopped", "mismatch"} => s.part = 1 /\ s.next = 1
        /\ s.pc = "count" => s.part = 2 /\ s.next = 1
        /\ s.pc \in {"admin", "proxy", "check"} => s.part \in 2 .. 4
        /\ s.pc = "check" => s.next = Len(Parts[s.part])
        /\ s.pc \in {"getPair", "createPair", "done"} => s.part = 5
<1>1. SUFFICES /\ Shape(script')
               /\ script'.pc \in {"admin", "proxy", "save"} =>
                    outputs'[Parts[script'.part][script'.next]] = NoAddress
               /\ script'.pc = "save" => script'.address \in DOMAIN contracts'
  BY DEF ScriptShape, Recorded, Current
<1>2. Shape(script)
  BY DEF ScriptShape
<1>3. script.pc \in {"admin", "proxy", "save"} =>
        outputs[Parts[script.part][script.next]] = NoAddress
  BY DEF ScriptShape, Recorded, Current
<1>4. script.part \in 1 .. 5 /\ nonce \in Nat
  BY <1>2 DEF Scripts, TypeOK
<1>5. CASE /\ script' \in Scripts
           /\ script'.pc \in {"stopped", "contract", "mismatch"}
           /\ script'.part = 1 /\ script'.next = 1
  BY <1>5, StoppedScript
<1>6. CASE script' = script /\ (ForeignTransaction \/ SomebodyCreatesPair)
  <2>1. outputs' = outputs /\ contracts' = contracts
    BY <1>6 DEF ForeignTransaction, SomebodyCreatesPair, Interrupt
  <2> QED
    BY <1>2, <1>3, <1>6, <2>1 DEF ScriptShape
<1>7. CASE ComputeContractAddresses
  <2>1. /\ script' \in Scripts
        /\ script'.pc = "contract" /\ script'.part = 2 /\ script'.next = 1
    BY <1>7, CountMoves
  <2>2. 1 \in 1 .. Len(Parts[2])
    <3>1. 1 \in 1 .. 4 /\ 1 + 1 = 2
      OBVIOUS
    <3> QED
      BY <3>1, PartEnds
  <2> QED
    BY <2>1, <2>2
<1>8. CASE script' = AfterContract
  BY <1>8, AfterPosition
<1>9. CASE script' = [script EXCEPT !.pc = "contract", !.part = @ + 1, !.next = 1]
           /\ CheckContractAddresses
  <2>1. script.part \in 2 .. 4 /\ script.part + 1 \in 1 .. 5
    BY <1>2, <1>9 DEF CheckContractAddresses
  <2>2. ASSUME NEW k \in 1 .. 5,
               script' = [script EXCEPT !.pc = "contract", !.part = k, !.next = 1]
        PROVE  /\ script' \in Scripts
               /\ script'.pc = "contract" /\ script'.part = k /\ script'.next = 1
    BY <1>2, <2>2 DEF Scripts
  <2>3. /\ script' \in Scripts
        /\ script'.pc = "contract" /\ script'.part = script.part + 1 /\ script'.next = 1
    BY <1>9, <2>1, <2>2
  <2>4. 1 \in 1 .. Len(Parts[script.part + 1])
    BY <2>1, PartEnds
  <2> QED
    BY <2>3, <2>4
<1>10. CASE DeployContract \/ DeployProxy
  <2>1. script' = [script EXCEPT !.pc = "save", !.address = nonce]
        /\ nonce \in DOMAIN contracts' /\ outputs' = outputs
    BY <1>10 DEF DeployContract, DeployProxy
  <2>2. /\ script' \in Scripts
        /\ script'.pc = "save" /\ script'.part = script.part
        /\ script'.next = script.next /\ script'.address = nonce
    BY <1>2, <1>4, <2>1 DEF Scripts
  <2>3. outputs[Parts[script.part][script.next]] = NoAddress
    BY <1>3, <1>10 DEF DeployContract, DeployProxy, Recorded, Current
  <2> QED
    BY <1>2, <2>1, <2>2, <2>3
<1>11. CASE DeployImplementation \/ DeployProxyAdmin
  <2>1. outputs' = outputs /\ outputs[Parts[script.part][script.next]] = NoAddress
    BY <1>3, <1>11 DEF DeployImplementation, DeployProxyAdmin, Recorded, Current
  <2>2. script.part \in 2 .. 4
    BY <1>2, <1>11, CurrentPosition DEF DeployImplementation, DeployProxyAdmin
  <2>3. \E c \in {"proxy", "admin"} : script' = [script EXCEPT !.pc = c]
    BY <1>11 DEF DeployImplementation, DeployProxyAdmin
  <2>4. /\ script' \in Scripts
        /\ script'.pc \in {"proxy", "admin"} /\ script'.part = script.part
        /\ script'.next = script.next
    BY <1>2, <2>3 DEF Scripts
  <2> QED
    BY <1>2, <2>1, <2>2, <2>4
<1>12. CASE GetPair \/ CreatePair
  <2>1. script.part = 5
    BY <1>2, <1>12 DEF GetPair, CreatePair
  <2>2. \E c \in {"createPair", "done"} : script' = [script EXCEPT !.pc = c]
    BY <1>12 DEF GetPair, CreatePair
  <2>3. /\ script' \in Scripts
        /\ script'.pc \in {"createPair", "done"} /\ script'.part = script.part
        /\ script'.next = script.next
    BY <1>2, <2>2 DEF Scripts
  <2> QED
    BY <1>2, <2>1, <2>3
<1> QED
  BY <1>5, <1>6, <1>7, <1>8, <1>9, <1>10, <1>11, <1>12, ScriptSteps

\* A position in the file is a contract's, or it is empty.
LEMMA PlaceType ==
    ASSUME TypeOK
    PROVE  \A p \in Positions : /\ Order[p] \in Names
                                /\ Place(p) \in Nat \cup {NoAddress}
                                /\ Has(p) <=> Place(p) \in Nat
  BY OrderNames, NoAddressAssumption DEF TypeOK, Place, Has

\* What saving a deployment does to the file.
LEMMA SavedPlace ==
    ASSUME TypeOK, ScriptShape, script.pc = "save",
           outputs' = [outputs EXCEPT ![Current] = script.address]
    PROVE  /\ script.address \in Nat /\ script.address < nonce
           /\ ~Has(Position(script))
           /\ \A p \in Positions :
                /\ Place(p)' = IF p = Position(script) THEN script.address ELSE Place(p)
                /\ Has(p)' <=> p = Position(script) \/ Has(p)
<1>1. /\ Position(script) \in Positions
      /\ Current = Order[Position(script)] /\ Current \in Names
  BY CurrentPosition
<1>2. script.address \in Nat /\ script.address < nonce
  BY DEF ScriptShape, TypeOK
<1>3. ~Has(Position(script))
  BY <1>1 DEF ScriptShape, Recorded, Has, Place
<1>4. ASSUME NEW p \in Positions
      PROVE  Place(p)' = IF p = Position(script) THEN script.address ELSE Place(p)
  <2>1. Order[p] \in Names /\ (Order[p] = Current <=> p = Position(script))
    BY <1>1, OrderInjective, OrderNames
  <2> QED
    BY <2>1 DEF Place, TypeOK
<1>5. script.address # NoAddress
  BY <1>2, NoAddressAssumption
<1> QED
  BY <1>2, <1>3, <1>4, <1>5 DEF Has

-----------------------------------------------------------------------------
(* Types, the file and the chain.                                          *)

\* The debt token is recorded once everything is.
LEMMA DebtTokenRecorded ==
    ASSUME TypeOK, ScriptShape, FileIsPrefix, OnChain,
           script.pc \in {"getPair", "createPair", "done"}
    PROVE  outputs["debtToken"] \in DOMAIN contracts
<1>1. Behind(script) = 19
  BY CurrentPosition DEF ScriptShape, Behind, Positions
<1>2. 13 \in Positions /\ 13 <= Behind(script)
  BY <1>1 DEF Positions
<1>3. Place(13) \in DOMAIN contracts
  BY <1>2 DEF FileIsPrefix, OnChain
<1>4. Order[13] = "debtToken"
  BY DEF Order
<1> QED
  BY <1>3, <1>4 DEF Place

\* Types are kept.
LEMMA TypeStep ==
    ASSUME TypeOK, ScriptShape, FileIsPrefix, OnChain, Next
    PROVE  TypeOK'
<1>1. nonce' \in Nat /\ nonce <= nonce' /\ nonce \in Nat
  BY WorldSteps DEF TypeOK
<1>2. /\ DOMAIN contracts' \subseteq 0 .. nonce' - 1
      /\ \A a \in DOMAIN contracts' : contracts'[a].name \in Names
  <2>1. CASE contracts' = contracts
    BY <1>1, <2>1 DEF TypeOK
  <2>2. CASE /\ nonce' = nonce + 1
             /\ contracts' = [a \in DOMAIN contracts \cup {nonce} |->
                                IF a = nonce THEN Deployed ELSE contracts[a]]
    <3>1. Deployed.name \in Names
      BY CurrentPosition DEF Deployed
    <3>2. DOMAIN contracts' = DOMAIN contracts \cup {nonce}
      BY <2>2
    <3>3. \A a \in DOMAIN contracts' :
            contracts'[a] = IF a = nonce THEN Deployed ELSE contracts[a]
      BY <2>2
    <3>4. DOMAIN contracts' \subseteq 0 .. nonce' - 1
      BY <1>1, <2>2, <3>2 DEF TypeOK
    <3> QED
      BY <3>1, <3>2, <3>3, <3>4 DEF TypeOK
  <2> QED
    BY <2>1, <2>2, WorldSteps
<1>3. outputs' \in [Names -> Nat \cup {NoAddress}]
  <2>1. script.pc = "save" => script.address \in Nat
    BY DEF ScriptShape, TypeOK
  <2> QED
    BY <2>1, WorldSteps, CurrentPosition DEF TypeOK
<1>4. ScriptShape'
  BY ShapeStep
<1>5. /\ script'.pc \in {"stopped", "count", "contract", "admin", "proxy", "save",
                         "check", "mismatch", "getPair", "createPair", "done"}
      /\ script'.part \in 1 .. 5
      /\ script'.next \in Nat
      /\ script'.address \in Nat \cup {NoAddress}
      /\ script'.cp \in [Proxies -> Nat \cup {NoAddress}]
  BY <1>4 DEF ScriptShape, Scripts
<1>6. Len(Parts) = 5
  BY DEF Parts
<1>7. /\ manifestAdmin' \in BOOLEAN
      /\ newNetwork' \in BOOLEAN
      /\ firstNonce' \in Nat \cup {NoAddress}
      /\ runs' \in 0 .. 2
      /\ interruptions' \in 0 .. MaxInterruptions
      /\ pairs' \subseteq DOMAIN contracts \cup (pairs' \ pairs)
  <2> USE MaxInterruptionsAssumption DEF TypeOK, world, history
  <2>1. CASE Start
    BY <2>1 DEF Start
  <2>2. CASE ComputeContractAddresses
    BY <2>2 DEF ComputeContractAddresses
  <2>3. CASE LoadPrevious
    BY <2>3 DEF LoadPrevious
  <2>4. CASE DeployContract
    BY <2>4 DEF DeployContract
  <2>5. CASE DeployImplementation
    BY <2>5 DEF DeployImplementation
  <2>6. CASE DeployProxyAdmin
    BY <2>6 DEF DeployProxyAdmin
  <2>7. CASE DeployProxy
    BY <2>7 DEF DeployProxy
  <2>8. CASE SaveDeployment
    BY <2>8 DEF SaveDeployment
  <2>9. CASE CheckContractAddresses
    BY <2>9 DEF CheckContractAddresses
  <2>10. CASE GetPair
    BY <2>10 DEF GetPair
  <2>11. CASE CreatePair
    BY <2>11 DEF CreatePair
  <2>12. CASE CreatePairReverts
    BY <2>12 DEF CreatePairReverts
  <2>13. CASE Crash
    BY <2>13 DEF Crash, Interrupt
  <2>14. CASE TransactionReverts
    BY <2>14 DEF TransactionReverts, Interrupt
  <2>15. CASE ForeignTransaction
    BY <2>15 DEF ForeignTransaction, Interrupt
  <2>16. CASE SomebodyCreatesPair
    BY <2>16 DEF SomebodyCreatesPair, Interrupt
  <2> QED
    BY <2>1, <2>2, <2>3, <2>4, <2>5, <2>6, <2>7, <2>8, <2>9, <2>10, <2>11,
       <2>12, <2>13, <2>14, <2>15, <2>16 DEF Next, ScriptStep
<1>8. pairs' \subseteq DOMAIN contracts
  <2>1. CASE CreatePair
    <3>1. outputs["debtToken"] \in DOMAIN contracts
      BY <2>1, DebtTokenRecorded DEF CreatePair
    <3> QED
      BY <2>1, <3>1 DEF CreatePair, TypeOK
  <2>2. CASE SomebodyCreatesPair
    BY <2>2 DEF SomebodyCreatesPair, TypeOK
  <2>3. CASE ~CreatePair /\ ~SomebodyCreatesPair
    <3>1. pairs' = pairs
      BY <2>3 DEF Next, ScriptStep, Start, ComputeContractAddresses, LoadPrevious,
         DeployContract, DeployImplementation, DeployProxyAdmin, DeployProxy,
         SaveDeployment, CheckContractAddresses, GetPair, CreatePairReverts,
         Crash, TransactionReverts, ForeignTransaction, world
    <3> QED
      BY <3>1 DEF TypeOK
  <2> QED
    BY <2>1, <2>2, <2>3
<1>9. pairs' \subseteq DOMAIN contracts'
  BY <1>8, ContractsStay
<1> QED
  BY <1>1, <1>2, <1>3, <1>5, <1>6, <1>7, <1>9 DEF TypeOK

\* What a script has passed after a step, it had passed before, or it is in
\* the file.
LEMMA BehindSteps ==
    ASSUME TypeOK, ScriptShape, Next
    PROVE  /\ Behind(script') \in Int
           /\ \/ /\ Behind(script') <= Behind(script)
                 /\ Start \/ script'.pc \in {"stopped", "mismatch"}
              \/ Behind(script') = Behind(script)
              \/ /\ Behind(script') = Position(script)
                 /\ Behind(script) = Position(script) - 1
                 /\ outputs'[Current] # NoAddress
<1>1. ScriptShape'
  BY ShapeStep
<1>2. /\ Position(script) \in Positions
      /\ Current = Order[Position(script)]
  BY CurrentPosition
<1>3. Position(script') \in Positions
  <2>1. script'.part \in 1 .. 5 /\ script'.next \in 1 .. Len(Parts[script'.part])
    BY <1>1 DEF ScriptShape, Scripts
  <2> QED
    BY <2>1, PartPositions DEF Position
<1>4. Behind(script') \in Int /\ Behind(script) \in Int /\ 0 <= Behind(script)
  BY <1>2, <1>3 DEF Behind, Positions
<1>5. CASE /\ script'.pc \in {"stopped", "contract", "mismatch"}
           /\ script'.part = 1 /\ script'.next = 1
           /\ Start \/ CreatePairReverts \/ Crash \/ TransactionReverts \/ CheckContractAddresses
  <2>1. Start \/ script'.pc \in {"stopped", "mismatch"}
    <3>1. CASE CreatePairReverts \/ Crash \/ TransactionReverts
      BY <3>1, StoppedScript DEF CreatePairReverts, Crash, TransactionReverts
    <3>2. CASE CheckContractAddresses
      <4>1. script.part \in 2 .. 4 /\ script \in Scripts
        BY <3>2 DEF CheckContractAddresses, ScriptShape
      <4>2. CASE script' = [script EXCEPT !.pc = "contract", !.part = @ + 1, !.next = 1]
        BY <1>5, <4>1, <4>2 DEF Scripts
      <4>3. CASE script' = [Stopped EXCEPT !.pc = "mismatch"]
        BY <4>3, StoppedScript
      <4> QED
        BY <3>2, <4>2, <4>3 DEF CheckContractAddresses
    <3> QED
      BY <1>5, <3>1, <3>2
  <2> QED
    BY <1>4, <1>5, <2>1, StoppedScript DEF Behind, Position
<1>6. CASE script' = script
  BY <1>4, <1>6
<1>7. CASE ComputeContractAddresses
  <2>1. script'.pc = "contract" /\ script'.part = 2 /\ script'.next = 1
    BY <1>7, CountMoves
  <2>2. script.pc = "count" /\ script.part = 2 /\ script.next = 1
    BY <1>7 DEF ComputeContractAddresses, ScriptShape
  <2>3. Behind(script') = Behind(script)
    BY <2>1, <2>2 DEF Behind, Position
  <2> QED
    BY <1>4, <2>3
<1>8. CASE script' = AfterContract /\ (LoadPrevious \/ SaveDeployment)
  <2>1. Behind(script') = Position(script)
    BY <1>8, AfterPosition
  <2>2. Behind(script) = Position(script) - 1
    BY <1>8 DEF Behind, LoadPrevious, SaveDeployment
  <2>3. CASE LoadPrevious
    <3>1. outputs[Current] # NoAddress /\ outputs' = outputs
      BY <2>3 DEF LoadPrevious, Recorded, world
    <3> QED
      BY <1>4, <2>1, <2>2, <3>1
  <2>4. CASE SaveDeployment
    <3>1. outputs' = [outputs EXCEPT ![Current] = script.address]
      BY <2>4 DEF SaveDeployment
    <3>2. script.address \in Nat /\ Current \in Names
      BY <2>4, SavedPlace, CurrentPosition DEF SaveDeployment
    <3>3. outputs'[Current] = script.address
      BY <3>1, <3>2 DEF TypeOK
    <3> QED
      BY <1>4, <2>1, <2>2, <3>2, <3>3, NoAddressAssumption
  <2> QED
    BY <1>8, <2>3, <2>4
<1>9. CASE script' = [script EXCEPT !.pc = "contract", !.part = @ + 1, !.next = 1]
           /\ CheckContractAddresses
  <2>1. /\ script.part \in 2 .. 4 /\ script.next = Len(Parts[script.part])
        /\ script \in Scripts /\ script.pc = "check"
    BY <1>9 DEF CheckContractAddresses, ScriptShape
  <2>2. script'.pc = "contract" /\ script'.part = script.part + 1 /\ script'.next = 1
    BY <1>9, <2>1 DEF Scripts
  <2>3. Before[script.part + 1] = Before[script.part] + Len(Parts[script.part])
    BY <2>1, PartEnds
  <2>4. Behind(script') = Behind(script)
    <3>1. Position(script') = Position(script) + 1
      BY <2>1, <2>2, <2>3 DEF Position
    <3> QED
      BY <1>2, <2>1, <2>2, <3>1 DEF Behind, Positions
  <2> QED
    BY <1>4, <2>4
<1>10. CASE \/ DeployContract \/ DeployProxy \/ DeployImplementation
            \/ DeployProxyAdmin \/ GetPair \/ CreatePair
  <2>1. /\ script'.part = script.part /\ script'.next = script.next
        /\ \/ script'.pc \in {"proxy", "admin", "save"} /\ script.pc \in {"contract", "proxy", "admin"}
           \/ script'.pc \in {"createPair", "done"} /\ script.pc \in {"getPair", "createPair"}
    <3>1. script \in Scripts
      BY DEF ScriptShape
    <3>2. \/ /\ script.pc \in {"contract", "proxy", "admin"}
             /\ \E c \in {"proxy", "admin"} : script' = [script EXCEPT !.pc = c]
          \/ /\ script.pc \in {"contract", "proxy"}
             /\ script' = [script EXCEPT !.pc = "save", !.address = nonce]
          \/ /\ script.pc \in {"getPair", "createPair"}
             /\ \E c \in {"createPair", "done"} : script' = [script EXCEPT !.pc = c]
      BY <1>10 DEF DeployContract, DeployProxy, DeployImplementation,
         DeployProxyAdmin, GetPair, CreatePair
    <3> QED
      BY <3>1, <3>2 DEF Scripts
  <2>2. Behind(script') = Behind(script)
    BY <2>1 DEF Behind, Position
  <2> QED
    BY <1>4, <2>2
<1> QED
  BY <1>4, <1>5, <1>6, <1>7, <1>8, <1>9, <1>10, ScriptSteps

\* The file is a prefix of the order, and holds what the script has passed.
LEMMA PrefixStep ==
    ASSUME TypeOK, ScriptShape, FileIsPrefix, Next
    PROVE  FileIsPrefix'
<1> DEFINE P == Position(script)
<1>1. /\ Behind(script') \in Int
      /\ \/ Behind(script') <= Behind(script)
         \/ /\ Behind(script') = P
            /\ Behind(script) = P - 1
            /\ outputs'[Current] # NoAddress
  BY BehindSteps
<1>2. P \in Positions /\ Current = Order[P] /\ Behind(script) \in {P, P - 1}
  BY CurrentPosition DEF Behind
<1>3. Behind(script)' = Behind(script')
  BY DEF Behind, Position
<1>4. \/ \A p \in Positions : Has(p)' <=> Has(p)
      \/ /\ script.pc = "save"
         /\ \A p \in Positions : Has(p)' <=> p = P \/ Has(p)
  <2>1. CASE outputs' = outputs
    BY <2>1 DEF Has, Place
  <2>2. CASE script.pc = "save" /\ outputs' = [outputs EXCEPT ![Current] = script.address]
    BY <2>2, SavedPlace
  <2> QED
    BY <2>1, <2>2, WorldSteps
<1>5. script.pc = "save" => Behind(script) = P - 1
  BY DEF Behind
<1> HIDE DEF P
<1>6. \A p, q \in Positions : p < q /\ Has(q)' => Has(p)'
  <2> SUFFICES ASSUME NEW p \in Positions, NEW q \in Positions, p < q, Has(q)'
               PROVE  Has(p)'
    OBVIOUS
  <2>1. CASE \A r \in Positions : Has(r)' <=> Has(r)
    BY <2>1 DEF FileIsPrefix
  <2>2. CASE /\ script.pc = "save"
             /\ \A r \in Positions : Has(r)' <=> r = P \/ Has(r)
    <3>1. CASE q = P
      <4>1. p <= Behind(script)
        BY <1>2, <1>5, <2>2, <3>1 DEF Positions
      <4> QED
        BY <2>2, <4>1 DEF FileIsPrefix
    <3>2. CASE Has(q)
      BY <2>2, <3>2 DEF FileIsPrefix
    <3> QED
      BY <2>2, <3>1, <3>2
  <2> QED
    BY <1>4, <2>1, <2>2
<1>7. \A p \in Positions : p <= Behind(script') => Has(p)'
  <2> SUFFICES ASSUME NEW p \in Positions, p <= Behind(script')
               PROVE  Has(p)'
    OBVIOUS
  <2>1. p <= Behind(script) \/ (p = P /\ outputs'[Order[p]] # NoAddress)
    BY <1>1, <1>2 DEF Positions
  <2>2. p <= Behind(script) => Has(p)
    BY DEF FileIsPrefix
  <2> QED
    BY <1>4, <2>1, <2>2 DEF Has, Place
<1> QED
  BY <1>3, <1>6, <1>7 DEF FileIsPrefix

\* Every contract in the file is on the chain.
LEMMA ChainStep ==
    ASSUME TypeOK, ScriptShape, OnChain, Next
    PROVE  OnChain'
<1> DEFINE P == Position(script)
<1>1. P \in Positions /\ Current = Order[P]
  BY CurrentPosition
<1>2. \A a \in DOMAIN contracts : a \in DOMAIN contracts' /\ contracts'[a] = contracts[a]
  BY ContractsStay
<1>3. \A p \in Positions : Has(p)' =>
        /\ Place(p)' \in DOMAIN contracts'
        /\ DOMAIN contracts'[Place(p)'].args = Args(Order[p])
  <2> SUFFICES ASSUME NEW p \in Positions, Has(p)'
               PROVE  /\ Place(p)' \in DOMAIN contracts'
                      /\ DOMAIN contracts'[Place(p)'].args = Args(Order[p])
    OBVIOUS
  <2>1. CASE Has(p) /\ Place(p)' = Place(p)
    BY <1>2, <2>1 DEF OnChain
  <2>2. CASE p = P /\ Place(p)' = script.address /\ script.pc = "save"
    <3>1. script.address \in DOMAIN contracts
      BY <2>2 DEF ScriptShape
    <3>2. DOMAIN contracts[script.address].args = Args(Order[p])
      BY <1>1, <2>2 DEF OnChain
    <3> QED
      BY <1>2, <2>2, <3>1, <3>2
  <2>3. CASE outputs' = outputs
    BY <2>1, <2>3 DEF Has, Place
  <2>4. CASE script.pc = "save" /\ outputs' = [outputs EXCEPT ![Current] = script.address]
    BY <2>1, <2>2, <2>4, SavedPlace
  <2> QED
    BY <2>3, <2>4, WorldSteps
<1>4. ASSUME script'.pc = "save"
      PROVE  DOMAIN contracts'[script'.address].args = Args(Current')
  <2>1. CASE DeployContract \/ DeployProxy
    <3>1. /\ script' = [script EXCEPT !.pc = "save", !.address = nonce]
          /\ contracts' = [a \in DOMAIN contracts \cup {nonce} |->
                              IF a = nonce THEN Deployed ELSE contracts[a]]
      BY <2>1 DEF DeployContract, DeployProxy
    <3>2. /\ script'.address = nonce
          /\ script'.part = script.part /\ script'.next = script.next
      BY <3>1 DEF ScriptShape, Scripts
    <3>3. contracts'[script'.address] = Deployed
      BY <3>1, <3>2
    <3>4. DOMAIN Deployed.args = Args(Current)
      BY DEF Deployed
    <3> QED
      BY <3>2, <3>3, <3>4 DEF Current
  <2>2. CASE script' = script /\ contracts' = contracts
    BY <1>4, <2>2 DEF OnChain, Current
  <2>3. CASE ForeignTransaction \/ SomebodyCreatesPair
    <3>1. script' = script /\ contracts' = contracts
      BY <2>3 DEF ForeignTransaction, SomebodyCreatesPair, Interrupt
    <3> QED
      BY <2>2, <3>1
  <2>4. script'.pc # "save" \/ DeployContract \/ DeployProxy \/ ForeignTransaction \/ SomebodyCreatesPair
    <3>1. script \in Scripts
      BY DEF ScriptShape
    <3>2. CASE script' = AfterContract
      BY <3>2, AfterPosition
    <3>3. CASE ComputeContractAddresses
      BY <3>3, CountMoves
    <3>4. CASE DeployImplementation \/ DeployProxyAdmin \/ GetPair \/ CreatePair
      <4>1. \E c \in {"proxy", "admin", "createPair", "done"} : script' = [script EXCEPT !.pc = c]
        BY <3>4 DEF DeployImplementation, DeployProxyAdmin, GetPair, CreatePair
      <4> QED
        BY <3>1, <4>1 DEF Scripts
    <3>5. CASE script' = [script EXCEPT !.pc = "contract", !.part = @ + 1, !.next = 1]
      BY <3>1, <3>5 DEF Scripts
    <3> QED
      BY <3>2, <3>3, <3>4, <3>5, ScriptSteps
  <2> QED
    BY <1>4, <2>1, <2>3, <2>4
<1> QED
  BY <1>3, <1>4 DEF OnChain, Has, Place

-----------------------------------------------------------------------------
(* Bases.                                                                  *)

\* Where the script is after a step that deploys or idles.
LEMMA SavingSteps ==
    ASSUME TypeOK, ScriptShape, Next
    PROVE  \/ script'.pc \notin {"save", "proxy"}
           \/ /\ script' = script
              /\ ForeignTransaction \/ SomebodyCreatesPair
           \/ /\ DeployImplementation \/ DeployProxyAdmin
              /\ script'.part = script.part /\ script'.next = script.next
              /\ script'.cp = script.cp /\ script'.pc = "proxy"
           \/ /\ DeployContract \/ DeployProxy
              /\ script'.part = script.part /\ script'.next = script.next
              /\ script'.cp = script.cp /\ script'.pc = "save"
              /\ script'.address = nonce
<1>1. script \in Scripts /\ nonce \in Nat
  BY DEF ScriptShape, TypeOK
<1>2. CASE script' = AfterContract
  BY <1>2, AfterPosition
<1>3. CASE ComputeContractAddresses
  BY <1>3, CountMoves
<1>4. CASE GetPair \/ CreatePair
  <2>1. \E c \in {"createPair", "done"} : script' = [script EXCEPT !.pc = c]
    BY <1>4 DEF GetPair, CreatePair
  <2> QED
    BY <1>1, <2>1 DEF Scripts
<1>5. CASE DeployImplementation \/ DeployProxyAdmin
  <2>1. \E c \in {"admin", "proxy"} : script' = [script EXCEPT !.pc = c]
    BY <1>5 DEF DeployImplementation, DeployProxyAdmin
  <2> QED
    BY <1>1, <1>5, <2>1 DEF Scripts
<1>6. CASE DeployContract \/ DeployProxy
  <2>1. script' = [script EXCEPT !.pc = "save", !.address = nonce]
    BY <1>6 DEF DeployContract, DeployProxy
  <2> QED
    BY <1>1, <1>6, <2>1 DEF Scripts
<1>7. CASE script' = [script EXCEPT !.pc = "contract", !.part = @ + 1, !.next = 1]
  BY <1>1, <1>7 DEF Scripts
<1> QED
  BY <1>2, <1>3, <1>4, <1>5, <1>6, <1>7, ScriptSteps

\* On a network that has a ProxyAdmin, none is deployed.
LEMMA AdminStep ==
    ASSUME TypeOK, ScriptShape, Next, manifestAdmin, script.pc # "admin"
    PROVE  manifestAdmin' /\ script'.pc # "admin" /\ ~DeployProxyAdmin
<1>1. ~DeployProxyAdmin
  BY DEF DeployProxyAdmin
<1>2. manifestAdmin' = manifestAdmin
  BY <1>1 DEF Next, ScriptStep, Start, ComputeContractAddresses, LoadPrevious,
     DeployContract, DeployImplementation, DeployProxy, SaveDeployment,
     CheckContractAddresses, GetPair, CreatePair, CreatePairReverts, Crash,
     TransactionReverts, ForeignTransaction, SomebodyCreatesPair, Interrupt, world
<1>3. script'.pc # "admin"
  <2>1. script \in Scripts
    BY DEF ScriptShape
  <2>2. CASE DeployImplementation
    BY <2>1, <2>2 DEF DeployImplementation, Scripts
  <2>3. CASE script' = AfterContract
    BY <2>3, AfterPosition
  <2>4. CASE ComputeContractAddresses
    BY <2>4, CountMoves
  <2>5. CASE GetPair \/ CreatePair
    <3>1. \E c \in {"createPair", "done"} : script' = [script EXCEPT !.pc = c]
      BY <2>5 DEF GetPair, CreatePair
    <3> QED
      BY <2>1, <3>1 DEF Scripts
  <2>6. CASE DeployContract \/ DeployProxy
    <3>1. script' = [script EXCEPT !.pc = "save", !.address = nonce]
      BY <2>6 DEF DeployContract, DeployProxy
    <3> QED
      BY <2>1, <3>1 DEF Scripts
  <2>7. CASE script' = [script EXCEPT !.pc = "contract", !.part = @ + 1, !.next = 1]
    BY <2>1, <2>7 DEF Scripts
  <2> QED
    BY <1>1, <2>2, <2>3, <2>4, <2>5, <2>6, <2>7, ScriptSteps
<1> QED
  BY <1>1, <1>2, <1>3

\* The lowest address the next proxy may get never gets lower.
LEMMA EarliestGrows ==
    ASSUME TypeOK, ScriptShape, Next, manifestAdmin, script.pc # "admin",
           NEW e, e = Earliest, NEW f, f = Earliest'
    PROVE  e \in Int /\ f \in Int /\ e <= f
<1>0. PICK n : n = nonce'
  OBVIOUS
<1>1. nonce \in Nat /\ n \in Nat /\ nonce <= n
  BY <1>0, WorldSteps DEF TypeOK
<1>2. script.pc = "save" => script.address \in Nat /\ script.address < nonce
  BY DEF ScriptShape, TypeOK
<1>3. e \in Int /\ e <= nonce + 1
  BY <1>1, <1>2 DEF Earliest
<1>4. CASE script'.pc \notin {"save", "proxy"}
  <2>1. f = n + 1
    BY <1>0, <1>4 DEF Earliest
  <2> QED
    BY <1>1, <1>3, <2>1
<1>5. CASE script' = script
  <2>1. \/ e = script.address /\ f = e /\ script.pc = "save"
        \/ e = nonce /\ f = n
        \/ e = nonce + 1 /\ f = n + 1
    BY <1>0, <1>5 DEF Earliest
  <2> QED
    BY <1>1, <1>2, <2>1
<1>6. CASE DeployImplementation /\ script'.pc = "proxy"
  <2>1. e = nonce + 1 /\ f = n /\ n = nonce + 1
    BY <1>0, <1>6 DEF DeployImplementation, Earliest
  <2> QED
    BY <1>1, <2>1
<1>7. CASE DeployContract /\ script'.pc = "save" /\ script'.part = script.part
  <2>1. script.part \notin 2 .. 4
    BY <1>7, CurrentPosition DEF DeployContract
  <2>2. e = nonce + 1 /\ f = n + 1
    BY <1>0, <1>7, <2>1 DEF DeployContract, Earliest
  <2> QED
    BY <1>1, <2>2
<1>8. CASE DeployProxy /\ script'.pc = "save" /\ script'.part = script.part
           /\ script'.address = nonce
  <2>1. script.part \in 2 .. 4 /\ script.pc = "proxy"
    BY <1>8 DEF DeployProxy, ScriptShape
  <2>2. e = nonce /\ f = nonce
    BY <1>8, <2>1 DEF Earliest
  <2> QED
    BY <1>1, <2>2
<1> QED
  BY <1>4, <1>5, <1>6, <1>7, <1>8, SavingSteps, AdminStep

\* What is below every base to come stays below.
LEMMA AheadStep ==
    ASSUME TypeOK, ScriptShape, FileIsPrefix, Next, manifestAdmin,
           script.pc # "admin", NEW b \in Int, Has(2), Ahead(b)
    PROVE  Ahead(b)'
<1> DEFINE P == Position(script)
<1>0. PICK e, f : e = Earliest /\ f = Earliest'
  OBVIOUS
<1>1. e \in Int /\ f \in Int /\ e <= f
  BY <1>0, EarliestGrows
<1>2. SUFFICES ASSUME NEW p \in ProxyPositions, ~Has(p)', Has(p - 1)'
               PROVE  b <= f - 2 * p
  BY <1>0 DEF Ahead
<1>3. p \in Positions /\ p - 1 \in Positions
  BY DEF Positions, ProxyPositions
<1>4. CASE ~Has(p) /\ Has(p - 1)
  <2>1. b <= e - 2 * p
    BY <1>0, <1>4 DEF Ahead
  <2> QED
    BY <1>1, <2>1 DEF ProxyPositions
<1>5. CASE outputs' = outputs
  BY <1>2, <1>4, <1>5 DEF Has, Place
<1>6. CASE /\ script.pc = "save" /\ script' = AfterContract /\ nonce' = nonce
           /\ outputs' = [outputs EXCEPT ![Current] = script.address]
  <2>1. ~Has(p) /\ (p - 1 = P \/ Has(p - 1))
    BY <1>2, <1>3, <1>6, SavedPlace
  <2>2. CASE p - 1 = P
    <3>1. ~Has(P) /\ P # 2
      BY <1>6, SavedPlace
    <3>2. P \in ProxyPositions /\ script.part \in 2 .. 4
      BY <2>2, <3>1, CurrentPosition DEF ProxyPositions, Positions
    <3>3. Has(P - 1)
      <4>1. P - 1 \in Positions /\ P - 1 <= Behind(script)
        BY <1>6, <3>2 DEF Behind, Positions, ProxyPositions
      <4> QED
        BY <4>1 DEF FileIsPrefix
    <3>4. b <= script.address - 2 * P
      BY <1>6, <3>1, <3>2, <3>3 DEF Ahead, Earliest
    <3>5. script'.pc \notin {"save", "proxy"}
      BY <1>6, AfterPosition
    <3>6. f = nonce + 1
      BY <1>0, <1>6, <3>5 DEF Earliest
    <3>7. script.address \in Nat /\ script.address < nonce /\ nonce \in Nat
      BY <1>6, SavedPlace DEF TypeOK
    <3>8. P \in Int /\ p = P + 1
      BY <2>2, <3>2 DEF ProxyPositions
    <3> HIDE DEF P
    <3> QED
      BY <3>4, <3>6, <3>7, <3>8
  <2> QED
    BY <1>4, <2>1, <2>2
<1> QED
  BY <1>5, <1>6, WorldSteps

\* What is recorded stays where it is, and what a step records is what it
\* saves.
LEMMA FileGrows ==
    ASSUME TypeOK, ScriptShape, Next
    PROVE  /\ \A p \in Positions : Has(p) => Has(p)' /\ Place(p)' = Place(p)
           /\ \A p \in Positions : Has(p)' /\ ~Has(p) =>
                /\ script.pc = "save" /\ p = Position(script)
                /\ Place(p)' = script.address
                /\ script' = AfterContract
<1>1. CASE outputs' = outputs
  BY <1>1 DEF Has, Place
<1>2. CASE /\ script.pc = "save" /\ script' = AfterContract
           /\ outputs' = [outputs EXCEPT ![Current] = script.address]
  BY <1>2, SavedPlace
<1> QED
  BY <1>1, <1>2, WorldSteps

\* What a script is about to deploy is the first that is missing.
LEMMA NextMissing ==
    ASSUME ScriptShape, FileIsPrefix, script.pc \in {"proxy", "save"},
           NEW p \in ProxyPositions, p = Position(script)
    PROVE  /\ ~Has(p) /\ Has(p - 1)
           /\ \A q \in ProxyPositions : ~Has(q) /\ Has(q - 1) => q = p
           /\ \A q \in Positions : Has(q) => q < p
<1>1. p \in Positions /\ p - 1 \in Positions /\ Current = Order[p]
  BY CurrentPosition DEF Positions, ProxyPositions
<1>2. ~Has(p)
  BY <1>1 DEF ScriptShape, Recorded, Has, Place
<1>3. Has(p - 1)
  BY <1>1 DEF FileIsPrefix, Behind, ProxyPositions
<1>4. ASSUME NEW q \in Positions, Has(q)
      PROVE  q < p
  BY <1>1, <1>2, <1>4 DEF FileIsPrefix, Positions
<1>5. ASSUME NEW q \in ProxyPositions, ~Has(q), Has(q - 1)
      PROVE  q = p
  <2>1. q - 1 \in Positions /\ q \in Positions
    BY DEF Positions, ProxyPositions
  <2>2. q - 1 < p
    BY <1>4, <1>5, <2>1
  <2>3. ~(q < p)
    BY <1>1, <1>3, <1>5, <2>1 DEF FileIsPrefix, Positions
  <2> QED
    BY <2>2, <2>3 DEF ProxyPositions
<1> QED
  BY <1>2, <1>3, <1>4, <1>5

\* The first nonce is noted when addresses are first computed.
LEMMA FirstNonceSteps ==
    ASSUME Next
    PROVE  \/ firstNonce' = firstNonce
           \/ /\ ComputeContractAddresses
              /\ firstNonce = NoAddress /\ firstNonce' = nonce
  BY DEF Next, ScriptStep, Start, ComputeContractAddresses, LoadPrevious,
     DeployContract, DeployImplementation, DeployProxyAdmin, DeployProxy,
     SaveDeployment, CheckContractAddresses, GetPair, CreatePair,
     CreatePairReverts, Crash, TransactionReverts, ForeignTransaction,
     SomebodyCreatesPair, Interrupt, history

\* A script that has computed addresses keeps them, and goes on to the next
\* part after a check.
LEMMA CountedSteps ==
    ASSUME TypeOK, ScriptShape, Next, Counted(script')
    PROVE  \/ ComputeContractAddresses
           \/ /\ Counted(script) /\ script'.cp = script.cp
              /\ \/ script'.part = script.part
                 \/ /\ script.part \in 2 .. 4 /\ script'.part = script.part + 1
                    /\ CheckContractAddresses
                    /\ \A n \in ToSet(Parts[script.part]) : outputs[n] = script.cp[n]
<1>1. script \in Scripts
  BY DEF ScriptShape
<1>2. CASE script' = AfterContract /\ (LoadPrevious \/ SaveDeployment)
  <2>1. script.pc \in {"contract", "save"}
    BY <1>2 DEF LoadPrevious, SaveDeployment
  <2> QED
    BY <1>2, <2>1, AfterPosition DEF Counted
<1>3. CASE /\ script' = [script EXCEPT !.pc = "contract", !.part = @ + 1, !.next = 1]
           /\ CheckContractAddresses
           /\ \A n \in ToSet(Parts[script.part]) : outputs[n] = script.cp[n]
  <2>1. script.pc = "check" /\ script.part \in 2 .. 4
    BY <1>3 DEF CheckContractAddresses, ScriptShape
  <2>2. script'.part = script.part + 1 /\ script'.cp = script.cp
    BY <1>1, <1>3 DEF Scripts
  <2> QED
    BY <1>3, <2>1, <2>2 DEF Counted
<1>4. CASE DeployContract \/ DeployProxy
  <2>1. script' = [script EXCEPT !.pc = "save", !.address = nonce]
        /\ script.pc \in {"contract", "proxy"}
    BY <1>4 DEF DeployContract, DeployProxy
  <2> QED
    BY <1>1, <2>1 DEF Scripts, Counted
<1>5. CASE DeployImplementation \/ DeployProxyAdmin \/ GetPair \/ CreatePair
  <2>1. /\ \E c \in {"proxy", "admin", "createPair", "done"} : script' = [script EXCEPT !.pc = c]
        /\ script.pc \in {"contract", "admin", "getPair", "createPair"}
    BY <1>5 DEF DeployImplementation, DeployProxyAdmin, GetPair, CreatePair
  <2> QED
    BY <1>1, <2>1 DEF Scripts, Counted
<1> QED
  BY <1>2, <1>3, <1>4, <1>5, ScriptSteps DEF Counted

\* A script that is to save a proxy has computed addresses.
LEMMA SavingCounted ==
    ASSUME ScriptShape, script.pc \in {"proxy", "save"},
           NEW p \in ProxyPositions, p = Position(script)
    PROVE  Counted(script) /\ script.part \in 2 .. 4
  BY CurrentPosition DEF Counted

\* Bases begin with the first computation of addresses.
LEMMA FirstComputationStep ==
    ASSUME TypeOK, ScriptShape, FileIsPrefix, FirstComputation, Next,
           manifestAdmin, script.pc # "admin"
    PROVE  FirstComputation'
<1>1. CASE firstNonce' = firstNonce
  <2>1. firstNonce' \in Nat => Has(2)' /\ Ahead(FirstBase)'
    <3> SUFFICES ASSUME firstNonce \in Nat
                 PROVE  Has(2)' /\ Ahead(FirstBase)'
      BY <1>1
    <3>1. PICK b \in Int : b = firstNonce - 5
      OBVIOUS
    <3>2. Has(2) /\ Ahead(b)
      BY <3>1 DEF FirstComputation, FirstBase
    <3>3. Ahead(b)'
      BY <3>1, <3>2, AheadStep
    <3>4. Has(2)'
      BY <3>2, FileGrows DEF Positions
    <3> QED
      BY <1>1, <3>1, <3>3, <3>4 DEF FirstBase, Ahead
  <2>2. firstNonce' = NoAddress => \A p \in ProxyPositions : ~Has(p)'
    <3> SUFFICES ASSUME firstNonce = NoAddress, NEW p \in ProxyPositions, Has(p)'
                 PROVE  FALSE
      BY <1>1
    <3>1. p \in Positions /\ ~Has(p)
      BY DEF FirstComputation, Positions, ProxyPositions
    <3>2. script.pc = "save" /\ p = Position(script)
      BY <3>1, FileGrows
    <3>3. firstNonce \in Nat
      BY <3>2, SavingCounted DEF FirstComputation
    <3> QED
      BY <3>3, NoAddressAssumption
  <2>3. Counted(script') => firstNonce' \in Nat
    <3> SUFFICES ASSUME Counted(script')
                 PROVE  firstNonce \in Nat
      BY <1>1
    <3>1. CASE ComputeContractAddresses
      <4>1. firstNonce # NoAddress
        BY <1>1, <3>1, NoAddressAssumption DEF ComputeContractAddresses, TypeOK
      <4> QED
        BY <4>1 DEF TypeOK
    <3>2. CASE Counted(script)
      BY <3>2 DEF FirstComputation
    <3> QED
      BY <3>1, <3>2, CountedSteps
  <2>4. Counted(script)' <=> Counted(script')
    BY DEF Counted
  <2> QED
    BY <2>1, <2>2, <2>3, <2>4 DEF FirstComputation
<1>2. CASE ComputeContractAddresses /\ firstNonce = NoAddress /\ firstNonce' = nonce
  <2>1. nonce \in Nat /\ outputs' = outputs /\ nonce' = nonce /\ script.pc = "count"
    BY <1>2 DEF TypeOK, ComputeContractAddresses, world
  <2>2. Has(2)'
    <3>1. script.part = 2 /\ script.next = 1
      BY <2>1 DEF ScriptShape
    <3>2. Behind(script) = 2
      BY <2>1, <3>1 DEF Behind, Position, Before
    <3> QED
      BY <2>1, <3>2 DEF FileIsPrefix, Positions, Has, Place
  <2>3. Ahead(FirstBase)'
    <3>1. script'.pc = "contract"
      BY <1>2, CountMoves
    <3>2. PICK b \in Int, f \in Int : b = nonce - 5 /\ f = nonce + 1
      BY <2>1
    <3>3. f = Earliest'
      BY <2>1, <3>1, <3>2 DEF Earliest
    <3>4. ASSUME NEW p \in ProxyPositions, ~Has(p)', Has(p - 1)'
          PROVE  b <= f - 2 * p
      <4>1. Has(p - 1)
        BY <2>1, <3>4 DEF Has, Place
      <4>2. CASE p - 1 \in ProxyPositions
        BY <1>2, <4>1, <4>2 DEF FirstComputation
      <4>3. CASE p - 1 \notin ProxyPositions
        <5>1. p = 3
          BY <4>3 DEF ProxyPositions
        <5> QED
          BY <2>1, <3>2, <5>1
      <4> QED
        BY <4>2, <4>3
    <3>5. Ahead(b)'
      BY <3>3, <3>4 DEF Ahead
    <3> QED
      BY <1>2, <3>2, <3>5 DEF FirstBase, Ahead
  <2> QED
    BY <1>2, <2>1, <2>2, <2>3, NoAddressAssumption DEF FirstComputation
<1> QED
  BY <1>1, <1>2, FirstNonceSteps

\* What the last two wrappers' nonces are good for: once a proxy is in the
\* file, or a script has computed addresses, the first nonce is noted.
LEMMA FirstNonceNoted ==
    ASSUME TypeOK, FirstComputation, Next,
           Counted(script) \/ \E p \in ProxyPositions : Has(p)
    PROVE  firstNonce \in Nat /\ firstNonce' = firstNonce /\ Has(2)
<1>1. firstNonce \in Nat /\ Has(2)
  BY DEF FirstComputation, TypeOK
<1> QED
  BY <1>1, FirstNonceSteps, NoAddressAssumption

\* Bases do not decrease along the file.
LEMMA BasesGrowStep ==
    ASSUME TypeOK, ScriptShape, FileIsPrefix, FirstComputation, BasesGrow, Next,
           manifestAdmin, script.pc # "admin"
    PROVE  BasesGrow'
<1> SUFFICES ASSUME NEW p \in ProxyPositions, Has(p)'
             PROVE  /\ FirstBase' <= Place(p)' - 2 * p
                    /\ Ahead(Place(p) - 2 * p)'
                    /\ \A q \in ProxyPositions :
                        p < q /\ Has(q)' => Place(p)' - 2 * p <= Place(q)' - 2 * q
  BY DEF BasesGrow
<1>1. p \in Positions /\ \A q \in ProxyPositions : q \in Positions /\ q \in Int
  BY DEF Positions, ProxyPositions
<1>2. CASE Has(p)
  <2>1. Place(p)' = Place(p)
    BY <1>1, <1>2, FileGrows
  <2>2. firstNonce \in Nat /\ firstNonce' = firstNonce /\ Has(2)
    BY <1>2, FirstNonceNoted
  <2>3. Place(p) \in Nat
    BY <1>1, <1>2, PlaceType
  <2>4. PICK b \in Int : b = Place(p) - 2 * p
    BY <1>1, <2>3
  <2>5. Ahead(b) /\ FirstBase <= b
    BY <1>2, <2>4 DEF BasesGrow
  <2>6. Ahead(b)'
    BY <2>2, <2>5, AheadStep
  <2>7. Ahead(Place(p) - 2 * p)'
    BY <2>1, <2>4, <2>6 DEF Ahead
  <2>8. FirstBase' <= Place(p)' - 2 * p
    BY <2>1, <2>2, <2>4, <2>5 DEF FirstBase
  <2>9. ASSUME NEW q \in ProxyPositions, p < q, Has(q)'
        PROVE  Place(p)' - 2 * p <= Place(q)' - 2 * q
    <3>1. CASE Has(q)
      BY <1>1, <1>2, <2>1, <2>9, <3>1, FileGrows DEF BasesGrow
    <3>2. CASE ~Has(q)
      <4>1. /\ script.pc = "save" /\ q = Position(script)
            /\ Place(q)' = script.address
        BY <1>1, <2>9, <3>2, FileGrows
      <4>2. ~Has(q) /\ Has(q - 1) /\ script.part \in 2 .. 4
        BY <4>1, NextMissing, SavingCounted
      <4>3. b <= script.address - 2 * q
        BY <2>5, <4>1, <4>2 DEF Ahead, Earliest
      <4> QED
        BY <2>1, <2>4, <4>1, <4>3
    <3> QED
      BY <3>1, <3>2
  <2> QED
    BY <2>7, <2>8, <2>9
<1>3. CASE ~Has(p)
  <2>1. /\ script.pc = "save" /\ p = Position(script)
        /\ Place(p)' = script.address
    BY <1>1, <1>3, FileGrows
  <2>2. /\ Has(p - 1) /\ Counted(script) /\ script.part \in 2 .. 4
        /\ \A q \in ProxyPositions : ~Has(q) /\ Has(q - 1) => q = p
        /\ \A q \in Positions : Has(q) => q < p
    BY <2>1, NextMissing, SavingCounted
  <2>3. firstNonce \in Nat /\ firstNonce' = firstNonce /\ Has(2)
    BY <2>2, FirstNonceNoted
  <2>4. script.address \in Nat /\ Earliest = script.address
    BY <2>1, <2>2 DEF ScriptShape, TypeOK, Earliest
  <2>5. PICK b \in Int : b = script.address - 2 * p
    BY <1>1, <2>4
  <2>6. Ahead(b)
    BY <2>2, <2>4, <2>5 DEF Ahead
  <2>7. Ahead(b)'
    BY <2>3, <2>6, AheadStep
  <2>8. Ahead(Place(p) - 2 * p)'
    BY <2>1, <2>5, <2>7 DEF Ahead
  <2>9. FirstBase <= b
    BY <1>3, <2>2, <2>3, <2>4, <2>5 DEF FirstComputation, Ahead
  <2>10. FirstBase' <= Place(p)' - 2 * p
    BY <2>1, <2>3, <2>5, <2>9 DEF FirstBase
  <2>11. ASSUME NEW q \in ProxyPositions, p < q, Has(q)'
         PROVE  FALSE
    <3>1. Has(q) \/ q = Position(script)
      BY <1>1, <2>11, FileGrows
    <3>2. Has(q)
      BY <1>1, <2>1, <2>11, <3>1
    <3> QED
      BY <1>1, <2>2, <2>11, <3>2
  <2> QED
    BY <2>8, <2>10, <2>11
<1> QED
  BY <1>2, <1>3

\* A contract that is missing, with the others before it recorded.
LEMMA SomeMissing ==
    ASSUME TypeOK, FileIsPrefix, Has(2), NEW p \in ProxyPositions, ~Has(p)
    PROVE  \E m \in ProxyPositions :
                /\ ~Has(m) /\ Has(m - 1) /\ m <= p
                /\ \A q \in Positions : Has(q) <=> q < m
<1> DEFINE missing == {q \in ProxyPositions : ~Has(q)}
<1>1. missing \subseteq Nat /\ missing # {}
  BY DEF ProxyPositions
<1>2. PICK m \in missing : \A q \in missing : ~(<<q, m>> \in OpToRel(<, Nat))
  <2> HIDE DEF missing
  <2> QED
    BY <1>1, NatLessThanWellFounded, WFMin
<1>3. \A q \in missing : m <= q
  <2>1. \A q \in missing : ~(q < m)
    BY <1>1, <1>2 DEF OpToRel
  <2> HIDE DEF missing
  <2> QED
    BY <1>1, <2>1
<1>4. m \in ProxyPositions /\ ~Has(m) /\ m <= p
  BY <1>3
<1>5. Has(m - 1)
  <2>1. CASE m = 3
    BY <2>1
  <2>2. CASE m # 3
    <3>1. m - 1 \in ProxyPositions
      BY <1>4, <2>2 DEF ProxyPositions
    <3> QED
      BY <1>3, <3>1 DEF ProxyPositions
  <2> QED
    BY <2>1, <2>2
<1>6. ASSUME NEW q \in Positions
      PROVE  Has(q) <=> q < m
  <2>1. m \in Positions /\ m - 1 \in Positions
    BY <1>4 DEF Positions, ProxyPositions
  <2>2. CASE q < m
    <3>1. q = m - 1 \/ q < m - 1
      BY <2>1, <2>2 DEF Positions
    <3> QED
      BY <1>5, <2>1, <2>2, <3>1 DEF FileIsPrefix
  <2>3. CASE ~(q < m)
    <3>1. q = m \/ m < q
      BY <2>1, <2>3 DEF Positions
    <3> QED
      BY <1>4, <2>1, <2>3, <3>1 DEF FileIsPrefix
  <2> QED
    BY <2>2, <2>3
<1> QED
  BY <1>4, <1>5, <1>6

\* The addresses that are computed: those in the file, and two nonces apart
\* for what is missing from position m on.
LEMMA ComputedPlaces ==
    ASSUME TypeOK, manifestAdmin, NEW p \in ProxyPositions
    PROVE  /\ Has(p) => ComputedAddress(p - 2) = Place(p)
           /\ \A m \in ProxyPositions :
                (m <= p /\ \A q \in Positions : Has(q) <=> q < m)
                    => ComputedAddress(p - 2) = nonce + 2 * (p - m) + 1
<1>1. p - 2 \in 1 .. 16 /\ proxyContractList[p - 2] = Order[p]
  BY ListPositions DEF ProxyPositions
<1>2. Has(p) => ComputedAddress(p - 2) = Place(p)
  BY <1>1 DEF ComputedAddress, Recorded, Has, Place
<1>3. ASSUME NEW m \in ProxyPositions, m <= p,
             \A q \in Positions : Has(q) <=> q < m
      PROVE  ComputedAddress(p - 2) = nonce + 2 * (p - m) + 1
  <2> DEFINE S == {j \in 1 .. p - 2 - 1 : ~Recorded(proxyContractList[j])}
  <2>1. S = m - 2 .. p - 3
    <3>1. \A j \in 1 .. p - 3 : /\ j + 2 \in Positions
                               /\ proxyContractList[j] = Order[j + 2]
      BY ListPositions DEF ProxyPositions, Positions
    <3>2. \A j \in 1 .. p - 3 : ~Recorded(proxyContractList[j]) <=> ~(j + 2 < m)
      BY <1>3, <3>1 DEF Recorded, Has, Place
    <3>3. p - 2 - 1 = p - 3 /\ p \in Int /\ m \in Int /\ m >= 3
      BY DEF ProxyPositions
    <3>4. \A j \in 1 .. p - 3 : ~(j + 2 < m) <=> j \in m - 2 .. p - 3
      BY <3>3
    <3>5. m - 2 .. p - 3 \subseteq 1 .. p - 3
      BY <3>3
    <3> QED
      BY <3>2, <3>3, <3>4, <3>5
  <2>2. Cardinality(S) = p - m
    <3>1. m - 2 \in Int /\ p - 3 \in Int /\ p - m \in Nat
      BY <1>3 DEF ProxyPositions
    <3>2. Cardinality(m - 2 .. p - 3) = IF m - 2 > p - 3 THEN 0 ELSE (p - 3) - (m - 2) + 1
      BY <3>1, FS_Interval
    <3>3. (IF m - 2 > p - 3 THEN 0 ELSE (p - 3) - (m - 2) + 1) = p - m
      BY <1>3 DEF ProxyPositions
    <3> QED
      BY <2>1, <3>2, <3>3
  <2>3. ~Recorded(proxyContractList[p - 2])
    BY <1>1, <1>3 DEF Recorded, Has, Place, Positions, ProxyPositions
  <2>4. AddressList = nonce
    BY DEF AddressList
  <2>5. ComputedAddress(p - 2) = AddressList + 2 * Cardinality(S) + 1
    BY <2>3 DEF ComputedAddress
  <2> HIDE DEF S
  <2> QED
    BY <2>2, <2>4, <2>5
<1> QED
  BY <1>2, <1>3

\* The addresses of one run have one base.
LEMMA OneBaseStep ==
    ASSUME TypeOK, ScriptShape, FileIsPrefix, FirstComputation,
           ComputedWithOneBase, Next, manifestAdmin, script.pc # "admin"
    PROVE  ComputedWithOneBase'
<1> SUFFICES ASSUME Counted(script')
             PROVE  \E b \in Int : /\ FirstBase' <= b
                                   /\ Ahead(b)'
                                   /\ \A p \in ProxyPositions :
                                        \/ Has(p)' /\ script'.cp[Order[p]] = Place(p)'
                                        \/ script'.cp[Order[p]] = b + 2 * p
  BY DEF ComputedWithOneBase, ComputedWith, Counted
<1>1. \A p \in ProxyPositions : p \in Positions /\ p \in Int
  BY DEF Positions, ProxyPositions
<1>2. CASE Counted(script) /\ script'.cp = script.cp
  <2>1. firstNonce \in Nat /\ firstNonce' = firstNonce /\ Has(2)
    BY <1>2, FirstNonceNoted
  <2>2. PICK b \in Int : ComputedWith(b)
    BY <1>2 DEF ComputedWithOneBase
  <2>3. Ahead(b)'
    BY <2>1, <2>2, AheadStep DEF ComputedWith
  <2>4. FirstBase' <= b
    BY <2>1, <2>2 DEF ComputedWith, FirstBase
  <2>5. \A p \in ProxyPositions : \/ Has(p)' /\ script'.cp[Order[p]] = Place(p)'
                                  \/ script'.cp[Order[p]] = b + 2 * p
    <3> SUFFICES ASSUME NEW p \in ProxyPositions
                 PROVE  \/ Has(p)' /\ script'.cp[Order[p]] = Place(p)'
                        \/ script'.cp[Order[p]] = b + 2 * p
      OBVIOUS
    <3>1. CASE Has(p) /\ script.cp[Order[p]] = Place(p)
      BY <1>1, <1>2, <3>1, FileGrows
    <3>2. CASE script.cp[Order[p]] = b + 2 * p
      BY <1>2, <3>2
    <3> QED
      BY <2>2, <3>1, <3>2 DEF ComputedWith
  <2> QED
    BY <2>3, <2>4, <2>5
<1>3. CASE ComputeContractAddresses
  <2>1. nonce \in Nat /\ outputs' = outputs /\ nonce' = nonce /\ script.pc = "count"
    BY <1>3 DEF TypeOK, ComputeContractAddresses, world
  <2>2. /\ script'.pc = "contract"
        /\ \A p \in ProxyPositions : script'.cp[Order[p]] = ComputedAddress(p - 2)
    BY <1>3, CountMoves
  <2>3. PICK f \in Int : f = nonce + 1
    BY <2>1
  <2>4. f = Earliest' /\ f = Earliest
    BY <2>1, <2>2, <2>3 DEF Earliest
  <2>5. \A p \in Positions : (Has(p)' <=> Has(p)) /\ Place(p)' = Place(p)
    BY <2>1 DEF Has, Place
  <2>6. FirstComputation'
    BY FirstComputationStep
  <2>7. firstNonce' \in Nat /\ Has(2) /\ Ahead(FirstBase)'
    <3>1. firstNonce' \in Nat
      BY <2>6 DEF FirstComputation, Counted
    <3>2. Has(2)' /\ Ahead(FirstBase)'
      BY <2>6, <3>1 DEF FirstComputation
    <3> QED
      BY <2>5, <3>1, <3>2 DEF Positions
  <2>8. PICK a \in Int : a = FirstBase'
    <3>1. PICK c \in Nat : c = firstNonce'
      BY <2>7
    <3>2. c - 5 = FirstBase' /\ c - 5 \in Int
      BY <3>1 DEF FirstBase
    <3> QED
      BY <3>2
  <2>9. \A p \in ProxyPositions : ~Has(p) /\ Has(p - 1) => a <= f - 2 * p
    <3>1. Ahead(a)'
      BY <2>7, <2>8 DEF Ahead
    <3>2. \A p \in ProxyPositions : (Has(p - 1)' <=> Has(p - 1))
      BY <2>5 DEF Positions, ProxyPositions
    <3> QED
      BY <1>1, <2>4, <2>5, <3>1, <3>2 DEF Ahead
  <2>10. CASE \A p \in ProxyPositions : Has(p)
    <3>1. Ahead(a)'
      BY <2>7, <2>8 DEF Ahead
    <3>2. \A p \in ProxyPositions : Has(p)' /\ script'.cp[Order[p]] = Place(p)'
      BY <1>1, <2>2, <2>5, <2>10, ComputedPlaces
    <3> QED
      BY <2>8, <3>1, <3>2
  <2>11. CASE \E p \in ProxyPositions : ~Has(p)
    <3>1. PICK m \in ProxyPositions :
                /\ ~Has(m) /\ Has(m - 1)
                /\ \A q \in Positions : Has(q) <=> q < m
      BY <2>7, <2>11, SomeMissing
    <3>2. PICK b \in Int : b = f - 2 * m
      BY <1>1
    <3>3. a <= b
      BY <2>9, <3>1, <3>2
    <3>4. \A p \in ProxyPositions : ~Has(p) /\ Has(p - 1) => p = m
      <4> SUFFICES ASSUME NEW p \in ProxyPositions, ~Has(p), Has(p - 1)
                   PROVE  p = m
        OBVIOUS
      <4>1. p - 1 \in Positions /\ p \in Positions
        BY DEF Positions, ProxyPositions
      <4>2. p - 1 < m /\ ~(p < m)
        BY <3>1, <4>1
      <4> QED
        BY <1>1, <4>2
    <3>5. Ahead(b)'
      <4>1. \A p \in ProxyPositions : (Has(p - 1)' <=> Has(p - 1)) /\ (Has(p)' <=> Has(p))
        BY <2>5 DEF Positions, ProxyPositions
      <4>2. \A p \in ProxyPositions : ~Has(p)' /\ Has(p - 1)' => b <= f - 2 * p
        BY <3>2, <3>4, <4>1
      <4> QED
        BY <2>4, <4>2 DEF Ahead
    <3>6. ASSUME NEW p \in ProxyPositions
          PROVE  \/ Has(p)' /\ script'.cp[Order[p]] = Place(p)'
                 \/ script'.cp[Order[p]] = b + 2 * p
      <4>1. CASE Has(p)
        BY <1>1, <2>2, <2>5, <4>1, ComputedPlaces
      <4>2. CASE ~Has(p)
        <5>1. m <= p
          BY <1>1, <3>1, <4>2
        <5>2. ComputedAddress(p - 2) = nonce + 2 * (p - m) + 1
          BY <3>1, <5>1, ComputedPlaces
        <5>3. nonce + 2 * (p - m) + 1 = b + 2 * p
          BY <1>1, <2>1, <2>3, <3>2
        <5> QED
          BY <2>2, <5>2, <5>3
      <4> QED
        BY <4>1, <4>2
    <3> QED
      BY <2>8, <3>3, <3>5, <3>6
  <2> QED
    BY <2>10, <2>11
<1> QED
  BY <1>2, <1>3, CountedSteps

\* A part whose contracts were checked is where it was computed to be.
LEMMA CheckedStep ==
    ASSUME TypeOK, ScriptShape, FileIsPrefix, CheckedParts, Next
    PROVE  CheckedParts'
<1> SUFFICES ASSUME Counted(script'), NEW p \in ProxyPositions,
                    p <= Before[script'.part]
             PROVE  script'.cp[Order[p]] = Place(p)'
  BY DEF CheckedParts, Counted
<1>1. p \in Positions /\ p \in Int
  BY DEF Positions, ProxyPositions
<1>2. script.part \in 1 .. 5 /\ script.next \in 1 .. Len(Parts[script.part])
  BY DEF ScriptShape, Scripts
<1>3. CASE ComputeContractAddresses
  <2>1. script'.part = 2
    BY <1>3, CountMoves
  <2> QED
    BY <2>1 DEF Before, ProxyPositions
<1>4. CASE Counted(script) /\ script'.cp = script.cp
  <2>1. CASE p <= Before[script.part]
    <3>1. script.cp[Order[p]] = Place(p)
      BY <1>4, <2>1 DEF CheckedParts
    <3>2. Has(p)
      <4>1. Before[script.part] \in Nat
        BY <1>2, PartPositions
      <4>2. p <= Position(script) - 1 /\ Position(script) \in Int
        BY <1>1, <1>2, <2>1, <4>1 DEF Position
      <4>3. p <= Behind(script)
        BY <1>1, <4>2 DEF Behind
      <4> QED
        BY <1>1, <4>3 DEF FileIsPrefix
    <3> QED
      BY <1>1, <1>4, <3>1, <3>2, FileGrows
  <2>2. CASE /\ script.part \in 2 .. 4 /\ script'.part = script.part + 1
             /\ \A n \in ToSet(Parts[script.part]) : outputs[n] = script.cp[n]
             /\ CheckContractAddresses
             /\ ~(p <= Before[script.part])
    <3>1. /\ Before[script.part + 1] = Before[script.part] + Len(Parts[script.part])
          /\ Len(Parts[script.part]) \in Nat
      BY <2>2, PartEnds
    <3>2. Before[script.part] \in Nat
      BY <1>2, PartPositions
    <3>3. PICK k \in Int : k = p - Before[script.part]
      BY <1>1, <3>2
    <3>4. k \in 1 .. Len(Parts[script.part])
      BY <1>1, <2>2, <3>1, <3>2, <3>3
    <3>5. Parts[script.part][k] = Order[p]
      <4>1. Before[script.part] + k = p
        BY <1>1, <3>2, <3>3
      <4>2. Parts[script.part][k] = Order[Before[script.part] + k]
        BY <1>2, <3>4, PartPositions
      <4> QED
        BY <4>1, <4>2
    <3>6. Order[p] \in ToSet(Parts[script.part])
      <4>1. DOMAIN Parts[script.part] = 1 .. Len(Parts[script.part])
        BY <2>2 DEF Parts, CoreContracts, ProtocolTokenContracts
      <4> QED
        BY <3>4, <3>5, <4>1 DEF ToSet
    <3>7. script.cp[Order[p]] = Place(p)
      BY <2>2, <3>6 DEF Place
    <3>8. Place(p)' = Place(p)
      BY <2>2 DEF CheckContractAddresses, world, Place
    <3> QED
      BY <1>4, <3>7, <3>8
  <2> QED
    BY <1>3, <1>4, <2>1, <2>2, CountedSteps
<1> QED
  BY <1>3, <1>4, CountedSteps

-----------------------------------------------------------------------------
(* What contracts were given.                                              *)

\* What a contract was given stays as good as it was.
LEMMA GivenStays ==
    ASSUME TypeOK, ScriptShape, Next, firstNonce' = firstNonce,
           NEW g, NEW p, NEW a, Given(g, p, a)
    PROVE  Given(g, p, a)'
<1>1. \A q \in 1 .. 18 : q \in Positions
  BY DEF Positions
<1>2. FirstBase' = FirstBase
  BY DEF FirstBase
<1> SUFFICES ASSUME NEW q \in 1 .. 18, Order[q] \in DOMAIN g
             PROVE  \/ Has(q)' /\ g[Order[q]] = Place(q)'
                    \/ /\ q \in ProxyPositions
                       /\ g[Order[q]] \in Nat
                       /\ FirstBase' <= g[Order[q]] - 2 * q
                       /\ g[Order[q]] - 2 * q <= a - 2 * p
  BY DEF Given
<1>3. CASE Has(q) /\ g[Order[q]] = Place(q)
  BY <1>1, <1>3, FileGrows
<1>4. CASE ~(Has(q) /\ g[Order[q]] = Place(q))
  BY <1>2, <1>4 DEF Given
<1> QED
  BY <1>3, <1>4

\* The contract that is on its way to the file.
LEMMA SavedContract ==
    ASSUME TypeOK, ScriptShape, Next, script'.pc = "save"
    PROVE  \/ script' = script /\ contracts' = contracts
           \/ /\ DeployContract \/ DeployProxy
              /\ script'.part = script.part /\ script'.next = script.next
              /\ script'.address = nonce
              /\ contracts'[nonce] = Deployed
              /\ outputs' = outputs
<1>1. CASE ForeignTransaction \/ SomebodyCreatesPair
  BY <1>1 DEF ForeignTransaction, SomebodyCreatesPair, Interrupt
<1>2. CASE /\ DeployContract \/ DeployProxy
           /\ script'.part = script.part /\ script'.next = script.next
           /\ script'.address = nonce
  <2>1. contracts' = [a \in DOMAIN contracts \cup {nonce} |->
                        IF a = nonce THEN Deployed ELSE contracts[a]]
        /\ outputs' = outputs
    BY <1>2 DEF DeployContract, DeployProxy
  <2> QED
    BY <1>2, <2>1
<1> QED
  BY <1>1, <1>2, SavingSteps

\* A proxy is given addresses in the file, or such as have the base of the
\* run, which its own address has as well or exceeds.
LEMMA ProxyGiven ==
    ASSUME TypeOK, ScriptShape, FileIsPrefix, FirstComputation,
           ComputedWithOneBase, script.pc = "proxy",
           NEW p \in ProxyPositions, p = Position(script)
    PROVE  Given(Deployed.args, p, nonce)
<1>1. /\ ~Has(p) /\ Has(p - 1) /\ Counted(script) /\ Current = Order[p]
      /\ p \in Int /\ p \in Positions
  BY NextMissing, SavingCounted, CurrentPosition DEF ProxyPositions, Positions
<1>2. firstNonce \in Nat
  BY <1>1 DEF FirstComputation
<1>3. PICK b \in Int : ComputedWith(b)
  BY <1>1 DEF ComputedWithOneBase
<1>4. b <= nonce - 2 * p
  BY <1>1, <1>3 DEF ComputedWith, Ahead, Earliest
<1>5. PICK F \in Int : F = firstNonce - 5 /\ F = FirstBase /\ F >= -5 /\ F <= b
  BY <1>2, <1>3 DEF FirstBase, ComputedWith
<1> SUFFICES ASSUME NEW q \in 1 .. 18, Order[q] \in Args(Current)
             PROVE  \/ Has(q) /\ AddressGiven(Order[q]) = Place(q)
                    \/ /\ q \in ProxyPositions
                       /\ AddressGiven(Order[q]) \in Nat
                       /\ F <= AddressGiven(Order[q]) - 2 * q
                       /\ AddressGiven(Order[q]) - 2 * q <= nonce - 2 * p
  BY <1>5 DEF Given, Deployed
<1>6. CASE q \in ProxyPositions
  <2>1. AddressGiven(Order[q]) = script.cp[Order[q]]
    BY <1>6, OrderNames DEF AddressGiven
  <2>2. CASE script.cp[Order[q]] = b + 2 * q
    <3>1. b + 2 * q \in Nat /\ b + 2 * q - 2 * q = b
      BY <1>5, <1>6 DEF ProxyPositions
    <3> QED
      BY <1>4, <1>5, <1>6, <2>1, <2>2, <3>1
  <2> QED
    BY <1>3, <1>6, <2>1, <2>2 DEF ComputedWith
<1>7. CASE q \notin ProxyPositions
  <2>1. q \in Positions /\ q <= 2
    BY <1>7 DEF Positions, ProxyPositions
  <2>2. Order[q] \notin Proxies
    BY <1>7, <2>1, OrderNames, OrderInjective DEF ProxyPositions, Positions
  <2>3. AddressGiven(Order[q]) = Place(q)
    BY <2>2 DEF AddressGiven, Place
  <2>4. q < p /\ p - 1 \in Positions /\ (q = p - 1 \/ q < p - 1)
    BY <2>1 DEF ProxyPositions, Positions
  <2>5. Has(q)
    BY <1>1, <2>1, <2>4 DEF FileIsPrefix
  <2> QED
    BY <2>3, <2>5
<1> QED
  BY <1>6, <1>7

\* Every proxy was given addresses in the file, or such as have no higher base
\* than its own.
LEMMA ProxiesGivenStep ==
    ASSUME TypeOK, ScriptShape, FileIsPrefix, OnChain, FirstComputation,
           ComputedWithOneBase, ProxiesGiven, Next
    PROVE  ProxiesGiven'
<1>1. \A p \in ProxyPositions : p \in Positions
  BY DEF Positions, ProxyPositions
<1>2. ASSUME NEW p \in ProxyPositions, Has(p)'
      PROVE  Given(contracts[Place(p)].args, p, Place(p))'
  <2>1. PICK a : a = Place(p)'
    OBVIOUS
  <2>2. /\ a \in DOMAIN contracts
        /\ Given(contracts[a].args, p, a)
        /\ Has(p) \/ Counted(script)
    <3>1. CASE Has(p)
      <4>1. a = Place(p)
        BY <1>1, <2>1, <3>1, FileGrows
      <4> QED
        BY <1>1, <3>1, <4>1 DEF ProxiesGiven, OnChain
    <3>2. CASE ~Has(p)
      <4>1. script.pc = "save" /\ p = Position(script) /\ a = script.address
        BY <1>1, <1>2, <2>1, <3>2, FileGrows
      <4>2. Counted(script) /\ script.part \in 2 .. 4
        BY <4>1, SavingCounted
      <4> QED
        BY <4>1, <4>2 DEF ProxiesGiven, ScriptShape
    <3> QED
      BY <3>1, <3>2
  <2>3. firstNonce' = firstNonce
    BY <2>2, FirstNonceNoted
  <2>4. PICK g : g = contracts[a].args /\ g = contracts'[a].args
    BY <2>2, ContractsStay
  <2>5. Given(g, p, a)'
    BY <2>2, <2>3, <2>4, GivenStays
  <2> QED
    BY <2>1, <2>4, <2>5 DEF Given
<1>3. ASSUME script'.pc = "save", script'.part \in 2 .. 4
      PROVE  Given(contracts[script.address].args, Position(script), script.address)'
  <2>1. CASE script' = script /\ contracts' = contracts
    <3>1. PICK p, a, g : p = Position(script) /\ a = script.address /\ g = contracts[script.address].args
      OBVIOUS
    <3>2. p \in ProxyPositions
      BY <1>3, <2>1, <3>1, CurrentPosition
    <3>3. Counted(script) /\ Given(g, p, a)
      BY <1>3, <2>1, <3>1, <3>2, SavingCounted DEF ProxiesGiven
    <3>4. firstNonce' = firstNonce
      BY <3>3, FirstNonceNoted
    <3>5. Given(g, p, a)'
      BY <3>3, <3>4, GivenStays
    <3> QED
      BY <2>1, <3>1, <3>5 DEF Given, Position
  <2>2. CASE /\ DeployContract \/ DeployProxy
             /\ script'.part = script.part /\ script'.next = script.next
             /\ script'.address = nonce
             /\ contracts'[nonce] = Deployed
    <3>1. PICK p, a, g : p = Position(script) /\ a = nonce /\ g = Deployed.args
      OBVIOUS
    <3>2. p \in ProxyPositions /\ Current \in Proxies
      BY <1>3, <2>2, <3>1, CurrentPosition
    <3>3. DeployProxy
      BY <2>2, <3>2 DEF DeployContract
    <3>4. script.pc = "proxy"
      BY <3>3 DEF DeployProxy
    <3>5. Counted(script) /\ Given(g, p, a)
      BY <3>1, <3>2, <3>4, ProxyGiven, SavingCounted
    <3>6. firstNonce' = firstNonce
      BY <3>5, FirstNonceNoted
    <3>7. Given(g, p, a)'
      BY <3>5, <3>6, GivenStays
    <3>8. /\ g = contracts'[script'.address].args
          /\ p = Position(script') /\ a = script'.address
      BY <2>2, <3>1 DEF Position
    <3> QED
      BY <3>7, <3>8 DEF Given, Position
  <2> QED
    BY <1>3, <2>1, <2>2, SavedContract
<1> QED
  BY <1>2, <1>3 DEF ProxiesGiven

\* The getter was given addresses in the file.
LEMMA GetterStep ==
    ASSUME TypeOK, ScriptShape, FileIsPrefix, OnChain, CheckedParts,
           GetterGiven, Next
    PROVE  GetterGiven'
<1>1. \A p \in ProxyPositions : p \in Positions /\ p < 19 /\ p <= 18
  BY DEF Positions, ProxyPositions
<1>2. ASSUME NEW g, GivenRecorded(g), \A p \in ProxyPositions : Has(p)
      PROVE  GivenRecorded(g)'
  BY <1>1, <1>2, FileGrows DEF GivenRecorded
<1>3. 19 \in Positions
  BY DEF Positions
<1>4. ASSUME script.part = 5
      PROVE  \A p \in ProxyPositions : Has(p)
  <2>1. Position(script) = 19
    BY <1>4, CurrentPosition
  <2>2. 18 <= Behind(script) /\ Behind(script) \in Int
    BY <2>1 DEF Behind
  <2> QED
    BY <1>1, <2>2 DEF FileIsPrefix, ProxyPositions
<1>5. ASSUME Has(19)'
      PROVE  GivenRecorded(contracts[Place(19)].args)'
  <2>1. PICK a : a = Place(19)'
    OBVIOUS
  <2>2. /\ a \in DOMAIN contracts
        /\ GivenRecorded(contracts[a].args)
        /\ \A p \in ProxyPositions : Has(p)
    <3>1. CASE Has(19)
      <4>1. a = Place(19)
        BY <1>3, <2>1, <3>1, FileGrows
      <4> QED
        BY <1>1, <1>3, <3>1, <4>1 DEF GetterGiven, OnChain, FileIsPrefix
    <3>2. CASE ~Has(19)
      <4>1. script.pc = "save" /\ 19 = Position(script) /\ a = script.address
        BY <1>3, <1>5, <2>1, <3>2, FileGrows
      <4>2. script.part = 5
        BY <4>1, CurrentPosition
      <4> QED
        BY <1>4, <4>1, <4>2 DEF GetterGiven, ScriptShape
    <3> QED
      BY <3>1, <3>2
  <2>3. PICK g : g = contracts[a].args /\ g = contracts'[a].args
    BY <2>2, ContractsStay
  <2>4. GivenRecorded(g)'
    BY <1>2, <2>2, <2>3
  <2> QED
    BY <2>1, <2>3, <2>4 DEF GivenRecorded
<1>6. ASSUME script'.pc = "save", script'.part = 5
      PROVE  GivenRecorded(contracts[script.address].args)'
  <2>1. CASE script' = script /\ contracts' = contracts
    <3>1. PICK g : g = contracts[script.address].args
      OBVIOUS
    <3>2. GivenRecorded(g) /\ \A p \in ProxyPositions : Has(p)
      BY <1>4, <1>6, <2>1, <3>1 DEF GetterGiven
    <3>3. GivenRecorded(g)'
      BY <1>2, <3>2
    <3> QED
      BY <2>1, <3>1, <3>3 DEF GivenRecorded
  <2>2. CASE /\ DeployContract \/ DeployProxy
             /\ script'.part = script.part /\ script'.next = script.next
             /\ script'.address = nonce
             /\ contracts'[nonce] = Deployed
    <3>1. PICK g : g = Deployed.args
      OBVIOUS
    <3>2. script.part = 5 /\ script.pc \in {"contract", "proxy"}
      BY <1>6, <2>2 DEF DeployContract, DeployProxy
    <3>3. Counted(script) /\ Before[script.part] = 18
      BY <3>2 DEF Counted, Before
    <3>4. GivenRecorded(g)
      <4> SUFFICES ASSUME NEW q \in ProxyPositions, Order[q] \in Args(Current)
                   PROVE  AddressGiven(Order[q]) = Place(q)
        BY <3>1 DEF GivenRecorded, Deployed
      <4>1. AddressGiven(Order[q]) = script.cp[Order[q]]
        BY OrderNames DEF AddressGiven
      <4>2. script.cp[Order[q]] = Place(q)
        BY <1>1, <3>3 DEF CheckedParts
      <4> QED
        BY <4>1, <4>2
    <3>5. GivenRecorded(g)'
      BY <1>2, <1>4, <3>2, <3>4
    <3>6. g = contracts'[script'.address].args
      BY <2>2, <3>1
    <3> QED
      BY <3>5, <3>6 DEF GivenRecorded
  <2> QED
    BY <1>6, <2>1, <2>2, SavedContract
<1> QED
  BY <1>5, <1>6 DEF GetterGiven

-----------------------------------------------------------------------------
(* A run that nothing interferes with.                                     *)

\* What a script without interruptions does next.
LEMMA UninterruptedSteps ==
    ASSUME TypeOK, ScriptShape, FileIsPrefix, OnChain, Undisturbed, Next,
           interruptions' = 0, manifestAdmin, script.pc # "admin"
    PROVE  \/ Start /\ script.pc = "stopped"
           \/ ComputeContractAddresses
           \/ DeployContract
           \/ DeployImplementation
           \/ DeployProxy
           \/ SaveDeployment
           \/ CheckContractAddresses
           \/ GetPair
           \/ CreatePair
<1>1. /\ ~Crash /\ ~TransactionReverts
      /\ ~ForeignTransaction /\ ~SomebodyCreatesPair
  <2>1. SUFFICES ASSUME Interrupt PROVE FALSE
    BY DEF Crash, TransactionReverts, ForeignTransaction, SomebodyCreatesPair
  <2>2. interruptions \in Nat /\ interruptions' = interruptions + 1
    BY <2>1, MaxInterruptionsAssumption DEF TypeOK, Interrupt
  <2> QED
    BY <2>2
<1>2. ~LoadPrevious
  <2>1. SUFFICES ASSUME LoadPrevious PROVE FALSE
    OBVIOUS
  <2>2. Position(script) \in Positions /\ Has(Position(script))
    BY <2>1, CurrentPosition DEF LoadPrevious, Recorded, Has, Place
  <2>3. Behind(script) = Position(script) - 1
    BY <2>1 DEF LoadPrevious, Behind
  <2> QED
    BY <2>2, <2>3 DEF Undisturbed, Positions
<1>3. ~CreatePairReverts
  BY DEF CreatePairReverts, Undisturbed
<1>4. Start => script.pc = "stopped"
  BY DEF Start, Undisturbed
<1> QED
  BY <1>1, <1>2, <1>3, <1>4, AdminStep DEF Next, ScriptStep

\* Without interruptions a script stays on its way, and finds at every check
\* what it has computed.
LEMMA UndisturbedStep ==
    ASSUME TypeOK, ScriptShape, FileIsPrefix, OnChain, FirstComputation,
           Undisturbed, Next, interruptions' = 0, manifestAdmin,
           script.pc # "admin"
    PROVE  Undisturbed'
<1>0. PICK s, n, e : s = script' /\ n = nonce' /\ e = Earliest'
  OBVIOUS
<1> DEFINE Counting ==
        /\ \A p \in ProxyPositions : s.cp[Order[p]] = 2 * p - 3
        /\ \A p \in ProxyPositions : Has(p)' => Place(p)' = 2 * p - 3
        /\ \A p \in ProxyPositions : ~Has(p)' /\ Has(p - 1)' => e = 2 * p - 3
        /\ s.pc = "save" /\ s.part <= 4 => n = s.address + 1
<1>1. SUFFICES /\ s.pc # "mismatch"
               /\ s.pc # "done" => pairs' = {}
               /\ \A p \in Positions : Has(p)' => p <= Behind(s)
               /\ s.pc = "stopped" => n = 0
               /\ s.part = 1 /\ s.pc = "contract" => n = s.next - 1
               /\ s.part = 1 /\ s.pc = "save" => n = s.next
               /\ s.pc = "count" => n = 2
               /\ Counted(s) => Counting
  BY <1>0 DEF Undisturbed, Behind, Position, Counted
<1>2. /\ Position(script) \in Positions /\ Current = Order[Position(script)]
      /\ script.part = 1 <=> Position(script) <= 2
      /\ script.part = 5 <=> Position(script) = 19
      /\ Position(script) \in ProxyPositions <=> script.part \in 2 .. 4
      /\ Current \in Proxies <=> script.part \in 2 .. 4
  BY CurrentPosition
<1>3. /\ script \in Scripts /\ script.part \in 1 .. 5 /\ nonce \in Nat
      /\ script.next \in 1 .. Len(Parts[script.part]) /\ script.next \in Nat
  BY DEF ScriptShape, Scripts, TypeOK
<1>4. \A p \in ProxyPositions : p \in Positions /\ p - 1 \in Positions /\ p \in Int
  BY DEF ProxyPositions, Positions
<1>5. CASE Start /\ script.pc = "stopped"
  <2>1. s.pc = "contract" /\ s.part = 1 /\ s.next = 1
    BY <1>0, <1>5, StoppedScript DEF Start
  <2>2. outputs' = outputs /\ n = nonce /\ pairs' = pairs
    BY <1>0, <1>5 DEF Start, world
  <2>3. nonce = 0 /\ pairs = {} /\ \A p \in Positions : Has(p) => p <= Behind(script)
    BY <1>5 DEF Undisturbed
  <2>4. Behind(script) = 0 /\ Behind(s) = 0
    BY <1>5, <2>1, StoppedScript DEF ScriptShape, Behind, Position
  <2> QED
    BY <2>1, <2>2, <2>3, <2>4 DEF Has, Place, Counted
<1>6. CASE ComputeContractAddresses
  <2>1. /\ s.pc = "contract" /\ s.part = 2 /\ s.next = 1
        /\ \A p \in ProxyPositions : s.cp[Order[p]] = ComputedAddress(p - 2)
    BY <1>0, <1>6, CountMoves
  <2>2. /\ outputs' = outputs /\ n = nonce /\ pairs' = pairs
        /\ script.pc = "count"
    BY <1>0, <1>6 DEF ComputeContractAddresses, world
  <2>3. nonce = 2 /\ pairs = {} /\ \A p \in Positions : Has(p) => p <= Behind(script)
    BY <2>2 DEF Undisturbed
  <2>4. Behind(script) = 2 /\ Behind(s) = 2
    BY <2>1, <2>2 DEF ScriptShape, Behind, Position, Before
  <2>5. \A p \in Positions : (Has(p)' <=> Has(p)) /\ (Has(p) <=> p < 3)
    BY <2>2, <2>3, <2>4 DEF Has, Place, FileIsPrefix, Positions
  <2>6. ASSUME NEW p \in ProxyPositions
        PROVE  s.cp[Order[p]] = 2 * p - 3
    <3>1. 3 \in ProxyPositions /\ 3 <= p
      BY DEF ProxyPositions
    <3>2. ComputedAddress(p - 2) = nonce + 2 * (p - 3) + 1
      BY <2>5, <3>1, ComputedPlaces
    <3> QED
      BY <1>4, <2>1, <2>3, <3>2
  <2>7. e = 3
    BY <1>0, <2>1, <2>2, <2>3 DEF Earliest
  <2>8. \A p \in ProxyPositions : ~Has(p)' /\ (Has(p - 1)' => p = 3)
    BY <1>4, <2>5 DEF ProxyPositions
  <2> QED
    BY <2>1, <2>2, <2>3, <2>4, <2>5, <2>6, <2>7, <2>8 DEF Positions
<1>7. CASE DeployContract \/ DeployImplementation \/ DeployProxy
  <2>1. outputs' = outputs /\ n = nonce + 1 /\ pairs' = pairs /\ script.pc \in {"contract", "proxy"}
    BY <1>0, <1>7 DEF DeployContract, DeployImplementation, DeployProxy
  <2>2. /\ pairs = {} /\ \A p \in Positions : Has(p) => p <= Behind(script)
        /\ script.part = 1 /\ script.pc = "contract" => nonce = script.next - 1
        /\ Counted(script) =>
            /\ \A p \in ProxyPositions : script.cp[Order[p]] = 2 * p - 3
            /\ \A p \in ProxyPositions : Has(p) => Place(p) = 2 * p - 3
            /\ \A p \in ProxyPositions : ~Has(p) /\ Has(p - 1) => Earliest = 2 * p - 3
    BY <2>1 DEF Undisturbed
  <2>3. \A p \in Positions : (Has(p)' <=> Has(p)) /\ Place(p)' = Place(p)
    BY <2>1 DEF Has, Place
  <2>4. /\ s.part = script.part /\ s.next = script.next /\ s.cp = script.cp
        /\ \/ DeployImplementation /\ s.pc = "proxy"
           \/ (DeployContract \/ DeployProxy) /\ s.pc = "save" /\ s.address = nonce
    <3>1. CASE DeployImplementation
      <4>1. script' = [script EXCEPT !.pc = "proxy"]
        BY <3>1 DEF DeployImplementation
      <4> QED
        BY <1>0, <1>3, <3>1, <4>1 DEF Scripts
    <3>2. CASE DeployContract \/ DeployProxy
      <4>1. script' = [script EXCEPT !.pc = "save", !.address = nonce]
        BY <3>2 DEF DeployContract, DeployProxy
      <4> QED
        BY <1>0, <1>3, <3>2, <4>1 DEF Scripts
    <3> QED
      BY <1>7, <3>1, <3>2
  <2>5. Behind(s) = Behind(script) /\ (Counted(s) <=> Counted(script))
    BY <2>1, <2>4 DEF Behind, Position, Counted
  <2>6. s.part = 1 /\ s.pc = "save" => n = s.next
    BY <1>3, <2>1, <2>2, <2>4 DEF DeployProxy, ScriptShape
  <2>7. ASSUME Counted(s)
        PROVE  Counting
    <3>1. CASE script.part \in 2 .. 4
      <4>1. e = Earliest
        <5>1. CASE DeployImplementation /\ s.pc = "proxy"
          <6>1. script.pc = "contract"
            BY <5>1 DEF DeployImplementation
          <6> QED
            BY <1>0, <2>1, <5>1, <6>1 DEF Earliest
        <5>2. CASE (DeployContract \/ DeployProxy) /\ s.pc = "save" /\ s.address = nonce
          <6>1. script.pc = "proxy"
            BY <1>2, <3>1, <5>2 DEF DeployContract, DeployProxy
          <6> QED
            BY <1>0, <2>4, <3>1, <5>2, <6>1 DEF Earliest
        <5> QED
          BY <2>4, <5>1, <5>2
      <4> QED
        BY <1>4, <2>1, <2>2, <2>3, <2>4, <2>5, <2>7, <4>1
    <3>2. CASE script.part = 5
      <4>1. \A p \in ProxyPositions : Has(p)
        <5>1. Behind(script) = 18
          BY <1>2, <2>1, <3>2 DEF Behind
        <5> QED
          BY <1>4, <5>1 DEF FileIsPrefix, ProxyPositions
      <4> QED
        BY <1>4, <2>2, <2>3, <2>4, <2>5, <2>7, <3>2, <4>1
    <3> QED
      BY <1>3, <2>4, <2>7, <3>1, <3>2 DEF Counted
  <2> QED
    BY <2>1, <2>2, <2>3, <2>4, <2>5, <2>6, <2>7
<1>8. CASE SaveDeployment
  <2>1. /\ script.pc = "save" /\ s = AfterContract /\ n = nonce /\ pairs' = pairs
        /\ outputs' = [outputs EXCEPT ![Current] = script.address]
    BY <1>0, <1>8 DEF SaveDeployment
  <2>2. /\ pairs = {} /\ \A p \in Positions : Has(p) => p <= Behind(script)
        /\ script.part = 1 => nonce = script.next
        /\ Counted(script) =>
            /\ \A p \in ProxyPositions : script.cp[Order[p]] = 2 * p - 3
            /\ \A p \in ProxyPositions : Has(p) => Place(p) = 2 * p - 3
            /\ \A p \in ProxyPositions : ~Has(p) /\ Has(p - 1) => Earliest = 2 * p - 3
            /\ script.part <= 4 => nonce = script.address + 1
    BY <2>1 DEF Undisturbed
  <2>3. PICK P : P = Position(script)
    OBVIOUS
  <2>4. /\ ~Has(P) /\ script.address \in Nat
        /\ \A p \in Positions :
            /\ Place(p)' = IF p = P THEN script.address ELSE Place(p)
            /\ Has(p)' <=> p = P \/ Has(p)
    BY <2>1, <2>3, SavedPlace
  <2>5. /\ s.cp = script.cp
        /\ Behind(s) = P
        /\ \/ s.pc = "contract" /\ s.part = script.part /\ s.next = script.next + 1
           \/ s.pc = "count" /\ script.part = 1 /\ s.part = 2 /\ s.next = 1
           \/ s.pc = "check" /\ s.part = script.part /\ script.part \in 2 .. 4
           \/ s.pc \in {"getPair", "done"} /\ script.part = 5 /\ s.part = 5
    BY <2>1, <2>3, AfterPosition
  <2>6. Behind(script) = P - 1
    BY <2>1, <2>3 DEF Behind
  <2>7. \A p \in Positions : Has(p)' => p <= Behind(s)
    BY <1>2, <2>2, <2>3, <2>4, <2>5, <2>6 DEF Positions
  <2>8. s.part = 1 /\ s.pc = "contract" => n = s.next - 1
    BY <1>3, <2>1, <2>2, <2>5
  <2>9. s.pc = "count" => n = 2
    <3> SUFFICES ASSUME s.pc = "count" PROVE n = 2
      OBVIOUS
    <3>1. script.part = 1 /\ s.part = 2 /\ s.next = 1
      BY <2>5
    <3>2. P = 2
      BY <2>5, <3>1 DEF Behind, Position, Before
    <3>3. P = script.next
      BY <1>3, <2>3, <3>1 DEF Position, Before
    <3> QED
      BY <2>1, <2>2, <3>1, <3>2, <3>3
  <2>10. ASSUME Counted(s)
         PROVE  Counting
    <3>1. Counted(script) /\ s.pc # "save"
      BY <2>1, <2>5, <2>10 DEF Counted
    <3>2. \A p \in ProxyPositions : s.cp[Order[p]] = 2 * p - 3
      BY <2>2, <2>5, <3>1
    <3>3. CASE script.part \in 2 .. 4
      <4>1. P \in ProxyPositions /\ ~Has(P) /\ Has(P - 1)
        BY <1>2, <2>1, <2>3, <3>3, NextMissing
      <4>2. script.address = 2 * P - 3
        BY <2>1, <2>2, <3>1, <3>3, <4>1 DEF Earliest
      <4>3. e = nonce + 1
        BY <1>0, <2>1, <2>5 DEF Earliest
      <4>4. e = 2 * (P + 1) - 3
        BY <1>4, <2>2, <2>4, <3>1, <3>3, <4>1, <4>2, <4>3
      <4>5. \A p \in ProxyPositions : Has(p)' => Place(p)' = 2 * p - 3
        BY <1>4, <2>2, <2>4, <3>1, <4>2
      <4>6. ASSUME NEW p \in ProxyPositions, ~Has(p)', Has(p - 1)'
            PROVE  p = P + 1
        <5>1. p - 1 = P \/ Has(p - 1)
          BY <1>4, <2>4, <4>6
        <5>2. ~Has(p) /\ p # P
          BY <1>4, <2>4, <4>6
        <5>3. ~Has(p - 1)
          BY <2>1, <2>3, <4>1, <5>2, NextMissing
        <5> QED
          BY <1>4, <4>1, <5>1, <5>3
      <4> QED
        BY <3>1, <3>2, <4>4, <4>5, <4>6
    <3>4. CASE script.part = 5
      <4>1. P = 19
        BY <1>2, <2>3, <3>4
      <4>2. \A p \in ProxyPositions : Has(p) /\ p # P
        BY <1>4, <2>6, <4>1 DEF FileIsPrefix, ProxyPositions
      <4> QED
        BY <1>4, <2>2, <2>4, <3>1, <3>2, <4>2
    <3> QED
      BY <1>3, <3>1, <3>3, <3>4 DEF Counted
  <2> QED
    BY <2>1, <2>2, <2>5, <2>7, <2>8, <2>9, <2>10
<1>9. CASE CheckContractAddresses
  <2>1. /\ outputs' = outputs /\ n = nonce /\ pairs' = pairs /\ script.pc = "check"
        /\ script.part \in 2 .. 4 /\ script.next = Len(Parts[script.part])
    BY <1>0, <1>9 DEF CheckContractAddresses, world, ScriptShape
  <2>2. /\ pairs = {} /\ \A p \in Positions : Has(p) => p <= Behind(script)
        /\ \A p \in ProxyPositions : script.cp[Order[p]] = 2 * p - 3
        /\ \A p \in ProxyPositions : Has(p) => Place(p) = 2 * p - 3
        /\ \A p \in ProxyPositions : ~Has(p) /\ Has(p - 1) => Earliest = 2 * p - 3
    BY <2>1 DEF Undisturbed, Counted
  <2>3. \A m \in ToSet(Parts[script.part]) : outputs[m] = script.cp[m]
    <3> SUFFICES ASSUME NEW m \in ToSet(Parts[script.part])
                 PROVE  outputs[m] = script.cp[m]
      OBVIOUS
    <3>1. DOMAIN Parts[script.part] = 1 .. Len(Parts[script.part])
      BY <2>1 DEF Parts, CoreContracts, ProtocolTokenContracts
    <3>2. PICK k \in 1 .. Len(Parts[script.part]) : m = Parts[script.part][k]
      BY <3>1 DEF ToSet
    <3>3. PICK p : p = Before[script.part] + k
      OBVIOUS
    <3>4. /\ p \in Positions /\ m = Order[p] /\ Before[script.part] \in Nat
          /\ ~(p <= 2) /\ p # 19
      BY <1>3, <2>1, <3>2, <3>3, PartPositions
    <3>5. p \in ProxyPositions
      BY <3>4 DEF Positions, ProxyPositions
    <3>6. p <= Behind(script)
      BY <1>3, <2>1, <3>2, <3>3, <3>4 DEF Behind, Position
    <3>7. Has(p)
      BY <3>4, <3>6 DEF FileIsPrefix
    <3> QED
      BY <2>2, <3>4, <3>5, <3>7 DEF Place
  <2>4. script' = [script EXCEPT !.pc = "contract", !.part = @ + 1, !.next = 1]
    BY <1>9, <2>3 DEF CheckContractAddresses
  <2>5. /\ s.pc = "contract" /\ s.part = script.part + 1 /\ s.next = 1
        /\ s.cp = script.cp
    BY <1>0, <1>3, <2>4 DEF Scripts
  <2>6. Before[script.part + 1] = Before[script.part] + Len(Parts[script.part])
    BY <2>1, PartEnds
  <2>7. Behind(s) = Behind(script)
    <3>1. Position(s) = Position(script) + 1
      BY <2>1, <2>5, <2>6 DEF Position
    <3> QED
      BY <1>2, <2>1, <2>5, <3>1 DEF Behind, Positions
  <2>8. \A p \in Positions : (Has(p)' <=> Has(p)) /\ Place(p)' = Place(p)
    BY <2>1 DEF Has, Place
  <2>9. e = Earliest
    BY <1>0, <2>1, <2>5 DEF Earliest
  <2>10. Counting
    BY <1>4, <2>2, <2>5, <2>8, <2>9
  <2> QED
    BY <2>1, <2>2, <2>5, <2>7, <2>8, <2>10
<1>10. CASE GetPair \/ CreatePair
  <2>1. /\ outputs' = outputs /\ script.pc \in {"getPair", "createPair"}
        /\ \E c \in {"createPair", "done"} : script' = [script EXCEPT !.pc = c]
    BY <1>10 DEF GetPair, CreatePair, world
  <2>2. script.part = 5
    BY <2>1 DEF ScriptShape
  <2>3. /\ s.pc \in {"createPair", "done"}
        /\ s.part = script.part /\ s.next = script.next /\ s.cp = script.cp
    BY <1>0, <1>3, <2>1 DEF Scripts
  <2>4. s.pc # "done" => pairs' = {}
    <3>1. CASE GetPair
      BY <2>1, <3>1 DEF GetPair, world, Undisturbed
    <3>2. CASE CreatePair
      <4>1. script' = [script EXCEPT !.pc = "done"]
        BY <3>2 DEF CreatePair
      <4>2. s.pc = "done"
        BY <1>0, <1>3, <4>1 DEF Scripts
      <4> QED
        BY <4>2
    <3> QED
      BY <1>10, <3>1, <3>2
  <2>5. Behind(s) = Behind(script) /\ Behind(script) = 19
    BY <1>2, <2>1, <2>2, <2>3 DEF Behind, Position
  <2>6. \A p \in Positions : (Has(p)' <=> Has(p)) /\ Place(p)' = Place(p)
    BY <2>1 DEF Has, Place
  <2>7. \A p \in Positions : Has(p) /\ p <= 19
    BY <2>5 DEF FileIsPrefix, Positions
  <2>8. /\ \A p \in ProxyPositions : script.cp[Order[p]] = 2 * p - 3
        /\ \A p \in ProxyPositions : Has(p) => Place(p) = 2 * p - 3
    BY <2>1, <2>2 DEF Undisturbed, Counted
  <2>9. Counting
    BY <1>4, <2>3, <2>6, <2>7, <2>8
  <2> QED
    BY <2>2, <2>3, <2>4, <2>5, <2>6, <2>7, <2>9
<1> QED
  BY <1>5, <1>6, <1>7, <1>8, <1>9, <1>10, UninterruptedSteps

-----------------------------------------------------------------------------
(* The theorems.                                                           *)

\* Nothing is deployed at the beginning.
LEMMA InitInv == Init => Inv
<1> SUFFICES ASSUME Init PROVE Inv
  OBVIOUS
<1> USE DEF Init
<1>1. script = Stopped /\ Stopped \in Scripts /\ Stopped.pc = "stopped"
      /\ Stopped.part = 1 /\ Stopped.next = 1
      /\ 1 \in 1 .. Len(Parts[1]) /\ Before[1] = 0
  BY StoppedScript
<1>2. TypeOK
  <2>1. outputs \in [Names -> Nat \cup {NoAddress}]
    OBVIOUS
  <2>2. DOMAIN contracts = {}
    OBVIOUS
  <2>3. /\ script.pc = "stopped" /\ script.part \in 1 .. 5 /\ script.next \in Nat
        /\ script.address \in Nat \cup {NoAddress}
        /\ script.cp \in [Proxies -> Nat \cup {NoAddress}]
    BY <1>1 DEF Scripts
  <2>4. Len(Parts) = 5
    BY DEF Parts
  <2>5. interruptions \in 0 .. MaxInterruptions /\ runs \in 0 .. 2
    BY MaxInterruptionsAssumption
  <2> QED
    BY <2>1, <2>2, <2>3, <2>4, <2>5 DEF TypeOK
<1>3. \A p \in Positions : ~Has(p)
  BY OrderNames DEF Has, Place
<1>4. Behind(script) = 0
  BY <1>1 DEF Behind, Position
<1>5. ScriptShape
  BY <1>1 DEF ScriptShape
<1>6. FileIsPrefix /\ OnChain
  BY <1>1, <1>3, <1>4 DEF FileIsPrefix, OnChain, Positions
<1>7. ~Counted(script)
  BY <1>1 DEF Counted
<1>8. \A p \in ProxyPositions : ~Has(p)
  BY <1>3 DEF Positions, ProxyPositions
<1>9. FirstComputation /\ BasesGrow /\ ComputedWithOneBase /\ CheckedParts
  BY <1>7, <1>8, NoAddressAssumption DEF FirstComputation, BasesGrow, ComputedWithOneBase, CheckedParts
<1>10. ProxiesGiven /\ GetterGiven
  BY <1>1, <1>3, <1>8 DEF ProxiesGiven, GetterGiven, Positions
<1>11. ~newNetwork => ResumeInv
  BY <1>1, <1>9, <1>10 DEF ResumeInv
<1>12. Undisturbed
  BY <1>1, <1>3, <1>7 DEF Undisturbed
<1> QED
  BY <1>2, <1>5, <1>6, <1>11, <1>12 DEF Inv

\* The invariant is inductive.
LEMMA InvStep == Inv /\ [Next]_vars => Inv'
<1> SUFFICES ASSUME Inv, [Next]_vars PROVE Inv'
  OBVIOUS
<1>1. /\ TypeOK /\ ScriptShape /\ FileIsPrefix /\ OnChain
      /\ ~newNetwork => ResumeInv
      /\ ~newNetwork /\ interruptions = 0 => Undisturbed
  BY DEF Inv
<1>2. CASE Next
  <2>1. TypeOK' /\ ScriptShape' /\ FileIsPrefix' /\ OnChain' /\ newNetwork' = newNetwork
    BY <1>1, <1>2, TypeStep, ShapeStep, PrefixStep, ChainStep, WorldSteps
  <2>2. ASSUME ~newNetwork
        PROVE  ResumeInv'
    <3>1. /\ manifestAdmin /\ script.pc # "admin"
          /\ FirstComputation /\ BasesGrow /\ ComputedWithOneBase
          /\ CheckedParts /\ ProxiesGiven /\ GetterGiven
      BY <1>1, <2>2 DEF ResumeInv
    <3>2. manifestAdmin' /\ (script.pc # "admin")'
      BY <1>1, <1>2, <3>1, AdminStep
    <3>3. FirstComputation' /\ BasesGrow'
      BY <1>1, <1>2, <3>1, FirstComputationStep, BasesGrowStep
    <3>4. ComputedWithOneBase' /\ CheckedParts'
      BY <1>1, <1>2, <3>1, OneBaseStep, CheckedStep
    <3>5. ProxiesGiven' /\ GetterGiven'
      BY <1>1, <1>2, <3>1, ProxiesGivenStep, GetterStep
    <3> QED
      BY <3>2, <3>3, <3>4, <3>5 DEF ResumeInv
  <2>3. ASSUME ~newNetwork, interruptions' = 0
        PROVE  Undisturbed'
    <3>1. interruptions' = interruptions \/ interruptions' = interruptions + 1
      BY <1>2 DEF Next, ScriptStep, Start, ComputeContractAddresses,
         LoadPrevious, DeployContract, DeployImplementation, DeployProxyAdmin,
         DeployProxy, SaveDeployment, CheckContractAddresses, GetPair,
         CreatePair, CreatePairReverts, Crash, TransactionReverts,
         ForeignTransaction, SomebodyCreatesPair, Interrupt
    <3>2. interruptions \in Nat
      BY <1>1, MaxInterruptionsAssumption DEF TypeOK
    <3>3. interruptions = 0
      BY <2>3, <3>1, <3>2
    <3>4. manifestAdmin /\ script.pc # "admin" /\ FirstComputation
      BY <1>1, <2>3 DEF ResumeInv
    <3> QED
      BY <1>1, <1>2, <2>3, <3>3, <3>4, UndisturbedStep
  <2> QED
    BY <2>1, <2>2, <2>3 DEF Inv
<1>3. CASE UNCHANGED vars
  <2>1. /\ nonce' = nonce /\ contracts' = contracts
        /\ manifestAdmin' = manifestAdmin /\ outputs' = outputs
        /\ script' = script /\ newNetwork' = newNetwork
        /\ firstNonce' = firstNonce /\ runs' = runs /\ pairs' = pairs
        /\ interruptions' = interruptions
    BY <1>3 DEF vars, world, history
  <2>2. TypeOK'
    BY <1>1, <2>1 DEF TypeOK
  <2>3. ScriptShape'
    BY <1>1, <2>1 DEF ScriptShape, Recorded, Current
  <2>4. \A p : Place(p)' = Place(p) /\ (Has(p)' <=> Has(p))
    BY <2>1 DEF Has, Place
  <2>5. Earliest' = Earliest /\ FirstBase' = FirstBase
    BY <2>1 DEF Earliest, FirstBase
  <2>6. \A b : Ahead(b)' <=> Ahead(b)
    BY <2>4, <2>5 DEF Ahead
  <2>7. FileIsPrefix'
    BY <1>1, <2>1, <2>4 DEF FileIsPrefix, Behind, Position
  <2>8. OnChain'
    BY <1>1, <2>1, <2>4 DEF OnChain, Current
  <2>9. ASSUME ~newNetwork
        PROVE  ResumeInv'
    <3>1. /\ manifestAdmin /\ script.pc # "admin"
          /\ FirstComputation /\ BasesGrow /\ ComputedWithOneBase
          /\ CheckedParts /\ ProxiesGiven /\ GetterGiven
      BY <1>1, <2>9 DEF ResumeInv
    <3>2. FirstComputation'
      BY <2>1, <2>4, <2>5, <2>6, <3>1 DEF FirstComputation, Counted
    <3>3. BasesGrow'
      BY <2>1, <2>4, <2>5, <2>6, <3>1 DEF BasesGrow
    <3>4. ComputedWithOneBase'
      BY <2>1, <2>4, <2>5, <2>6, <3>1 DEF ComputedWithOneBase, ComputedWith, Counted
    <3>5. CheckedParts'
      BY <2>1, <2>4, <3>1 DEF CheckedParts, Counted
    <3>6. \A g, p, a : Given(g, p, a)' <=> Given(g, p, a)
      BY <2>4, <2>5 DEF Given
    <3>7. ProxiesGiven'
      BY <2>1, <2>4, <3>1, <3>6 DEF ProxiesGiven, Position
    <3>8. GetterGiven'
      BY <2>1, <2>4, <3>1 DEF GetterGiven, GivenRecorded
    <3> QED
      BY <2>1, <3>1, <3>2, <3>3, <3>4, <3>5, <3>7, <3>8 DEF ResumeInv
  <2>10. ASSUME ~newNetwork, interruptions = 0
         PROVE  Undisturbed'
    BY <1>1, <2>1, <2>4, <2>5, <2>10 DEF Undisturbed, Behind, Position, Counted
  <2> QED
    BY <2>1, <2>2, <2>3, <2>7, <2>8, <2>9, <2>10 DEF Inv
<1> QED
  BY <1>2, <1>3

\* The invariant holds in every state.
LEMMA Invariant == Spec => []Inv
  BY InitInv, InvStep, PTL DEF Spec

\* The script, the file and the chain have their types: in particular, the
\* pairs are of contracts that exist (deploy.js:229-247).
THEOREM TypesAreCorrect == Spec => []TypeOK
<1>1. Inv => TypeOK
  BY DEF Inv
<1> QED
  BY <1>1, Invariant, PTL

\* A mismatch of addresses (deploy.js:89-99) is the work of somebody else: a
\* script that nothing interrupts finds every contract where it was computed
\* to be, on a network that has a ProxyAdmin.
THEOREM MismatchNeedsInterference == Spec => []MismatchMeansInterference
<1>1. Inv => MismatchMeansInterference
  <2>1. TypeOK => interruptions \in Nat
    BY MaxInterruptionsAssumption DEF TypeOK
  <2> QED
    BY <2>1 DEF Inv, Undisturbed, MismatchMeansInterference
<1> QED
  BY <1>1, Invariant, PTL

\* There are as many proxies as the list has places.
LEMMA ProxyCount == Cardinality(Proxies) = 16
<1> DEFINE f == [i \in 1 .. 16 |-> Order[i + 2]]
<1>1. f \in Bijection(1 .. 16, Proxies)
  <2>1. \A i \in 1 .. 16 : i + 2 \in Positions /\ i + 2 \in ProxyPositions
    BY DEF Positions, ProxyPositions
  <2>2. f \in [1 .. 16 -> Proxies]
    BY <2>1, OrderNames
  <2>3. \A i, j \in 1 .. 16 : f[i] = f[j] => i = j
    BY <2>1, OrderInjective
  <2>4. \A n \in Proxies : \E i \in 1 .. 16 : f[i] = n
    <3> SUFFICES ASSUME NEW n \in Proxies
                 PROVE  \E i \in 1 .. 16 : f[i] = n
      OBVIOUS
    <3>1. PICK p \in ProxyPositions : n = Order[p]
      BY OrderNames
    <3>2. p - 2 \in 1 .. 16 /\ (p - 2) + 2 = p
      BY DEF ProxyPositions
    <3> QED
      BY <3>1, <3>2
  <2> HIDE DEF f
  <2> QED
    BY <2>2, <2>3, <2>4 DEF Bijection, Injection, Surjection, IsInjective
<1>2. ExistsBijection(1 .. 16, Proxies)
  BY <1>1 DEF ExistsBijection
<1> QED
  BY <1>2, FS_CountingElements

\* Without a loss, the contract at position p has the base of the first
\* computation.
LEMMA PlacesWithoutLoss ==
    ASSUME TypeOK, BasesGrow, firstNonce \in Nat, NoNonceLost,
           \A p \in Positions : Has(p)
    PROVE  \A p \in ProxyPositions : Place(p) - 2 * p = FirstBase
<1>1. \A p \in ProxyPositions : p \in Positions /\ p \in Int /\ p <= 18
  BY DEF Positions, ProxyPositions
<1>2. 18 \in ProxyPositions /\ Order[18] \in Proxies
  BY OrderNames DEF ProxyPositions
<1>3. Place(18) \in {outputs[n] : n \in Proxies}
  BY <1>2 DEF Place
<1>4. PICK i \in 1 .. 16 : Place(18) = firstNonce + 2 * i - 1
  BY <1>3, ProxyCount DEF NoNonceLost
<1>5. PICK F \in Int : F = FirstBase /\ F = firstNonce - 5
  BY DEF FirstBase
<1>6. Place(18) - 2 * 18 <= F
  BY <1>4, <1>5
<1> SUFFICES ASSUME NEW p \in ProxyPositions
             PROVE  Place(p) - 2 * p = F
  BY <1>5
<1>7. Place(p) \in Nat /\ Place(18) \in Nat
  BY <1>1, <1>2, PlaceType
<1>8. F <= Place(p) - 2 * p
  BY <1>1, <1>5 DEF BasesGrow
<1>9. Place(p) - 2 * p <= Place(18) - 2 * 18
  <2>1. CASE p = 18
    BY <1>7, <2>1
  <2>2. CASE p # 18
    BY <1>1, <1>2, <2>2 DEF BasesGrow
  <2> QED
    BY <2>1, <2>2
<1> QED
  BY <1>1, <1>6, <1>7, <1>8, <1>9

\* A deployment that was resumed, however often, is wired correctly unless a
\* nonce of the wallet was lost since addresses were first computed: the base
\* of what a contract was given lies between that of the first computation
\* and its own, which are the same (deploy.js:50-86).
THEOREM ResumedDeploymentIsWired == Spec => []ResumedWithoutLossIsWired
<1>1. ASSUME Inv, script.pc = "done", ~newNetwork, NoNonceLost
      PROVE  AllWired
  <2>1. TypeOK /\ ScriptShape /\ FileIsPrefix /\ OnChain /\ ResumeInv
    BY <1>1 DEF Inv
  <2>2. /\ FirstComputation /\ BasesGrow /\ ProxiesGiven /\ GetterGiven
    BY <2>1 DEF ResumeInv
  <2>3. script.part = 5
    BY <1>1, <2>1 DEF ScriptShape
  <2>4. Behind(script) = 19
    BY <1>1, <2>1, <2>3, CurrentPosition DEF Behind
  <2>5. \A p \in Positions : Has(p)
    BY <2>1, <2>4 DEF FileIsPrefix, Positions
  <2>6. firstNonce \in Nat
    BY <1>1, <2>2, <2>3 DEF FirstComputation, Counted
  <2>7. \A p \in ProxyPositions : Place(p) - 2 * p = FirstBase
    BY <1>1, <2>1, <2>2, <2>5, <2>6, PlacesWithoutLoss
  <2>8. FirstBase \in Int
    BY <2>6 DEF FirstBase
  <2> SUFFICES ASSUME NEW m \in Names
               PROVE  Recorded(m) /\ IsWired(m)
    BY DEF AllWired
  <2>9. PICK p \in Positions : m = Order[p]
    BY OrderNames
  <2>10. Recorded(m)
    BY <2>5, <2>9 DEF Recorded, Has, Place
  <2>11. PICK g : g = contracts[Place(p)].args
    OBVIOUS
  <2>12. DOMAIN g = Args(m)
    BY <2>1, <2>5, <2>9, <2>11 DEF OnChain
  <2>13. ASSUME NEW d \in DOMAIN g
         PROVE  g[d] = outputs[d]
    <3>1. CASE p \in 1 .. 2
      BY <2>9, <2>12, <2>13, <3>1, ArgsPositions
    <3>2. CASE p \in ProxyPositions
      <4>1. PICK q \in 1 .. 18 : d = Order[q]
        BY <2>9, <2>12, <2>13, <3>2, ArgsPositions
      <4>2. Given(g, p, Place(p))
        BY <2>2, <2>5, <2>9, <2>11, <3>2 DEF ProxiesGiven
      <4>3. CASE Has(q) /\ g[d] = Place(q)
        BY <4>1, <4>3 DEF Place
      <4>4. CASE /\ q \in ProxyPositions /\ g[d] \in Nat
                 /\ FirstBase <= g[d] - 2 * q
                 /\ g[d] - 2 * q <= Place(p) - 2 * p
        <5>1. g[d] - 2 * q = FirstBase
          <6>1. q \in Int
            OBVIOUS
          <6>2. g[d] - 2 * q \in Int
            BY <4>4, <6>1
          <6> QED
            BY <2>7, <2>8, <3>2, <4>4, <6>2
        <5>2. Place(q) - 2 * q = FirstBase /\ Place(q) \in Nat
          BY <2>1, <2>5, <2>7, <4>4, PlaceType DEF Positions, ProxyPositions
        <5>3. g[d] = Place(q)
          BY <4>4, <5>1, <5>2
        <5> QED
          BY <4>1, <5>3 DEF Place
      <4> QED
        BY <2>13, <4>1, <4>2, <4>3, <4>4 DEF Given
    <3>3. CASE p = 19
      <4>1. PICK q \in ProxyPositions : d = Order[q]
        BY <2>9, <2>12, <2>13, <3>3, ArgsPositions
      <4>2. GivenRecorded(g)
        BY <2>2, <2>5, <2>9, <2>11, <3>3 DEF GetterGiven
      <4> QED
        BY <2>13, <4>1, <4>2 DEF GivenRecorded, Place
    <3> QED
      BY <3>1, <3>2, <3>3 DEF Positions, ProxyPositions
  <2> QED
    BY <2>9, <2>10, <2>11, <2>13 DEF IsWired, Place
<1>2. Inv => ResumedWithoutLossIsWired
  BY <1>1 DEF ResumedWithoutLossIsWired
<1> QED
  BY <1>2, Invariant, PTL

-----------------------------------------------------------------------------
(* A deployment made by one run of the script.                             *)

\* Contract name, given g, was given what the script would give it now.
GivenByScript(g, name) == \A d \in Args(name) : g[d] = AddressGiven(d)

\* The first run finds nothing in the file, so that it has itself deployed
\* what is recorded, and with the addresses that it has computed.
DeployedByScript ==
    /\ \A p \in Positions : Has(p) => p <= Behind(script)
    /\ CheckedParts
    /\ Counted(script) =>
        /\ \A p \in 3 .. 19 :
            Has(p) => GivenByScript(contracts[Place(p)].args, Order[p])
        /\ script.pc = "save" =>
            GivenByScript(contracts[script.address].args, Current)

FirstRun ==
    /\ runs = 0 => script.pc = "stopped" /\ \A p \in Positions : ~Has(p)
    /\ runs = 1 /\ script.pc \notin {"stopped", "mismatch"} => DeployedByScript

\* The script's idea of the addresses changes when they are computed only, as
\* the wrappers are in the file by then.
LEMMA GivenByScriptStays ==
    ASSUME TypeOK, ScriptShape, FileIsPrefix, Next, Counted(script),
           script'.cp = script.cp,
           NEW g, NEW p \in Positions, GivenByScript(g, Order[p])
    PROVE  GivenByScript(g, Order[p])'
<1>1. 1 \in Positions /\ 2 \in Positions
  BY DEF Positions
<1>2. Has(1) /\ Has(2)
  <2>1. script.part # 1
    BY DEF Counted
  <2>2. Position(script) \in Positions /\ ~(Position(script) <= 2)
    BY <2>1, CurrentPosition
  <2>3. 2 <= Behind(script)
    BY <2>2 DEF Behind, Positions
  <2>4. Behind(script) \in Int
    BY <2>2 DEF Behind, Positions
  <2> QED
    BY <1>1, <2>3, <2>4 DEF FileIsPrefix
<1>3. Place(1)' = Place(1) /\ Place(2)' = Place(2)
  BY <1>1, <1>2, FileGrows
<1> SUFFICES ASSUME NEW d \in Args(Order[p])
             PROVE  g[d] = AddressGiven(d)'
  BY DEF GivenByScript
<1>4. g[d] = AddressGiven(d)
  BY DEF GivenByScript
<1>5. CASE d \in Proxies
  BY <1>4, <1>5 DEF AddressGiven
<1>6. CASE d \notin Proxies
  <2>1. PICK q \in 1 .. 18 : d = Order[q]
    <3>1. p \in 1 .. 2 \/ p \in ProxyPositions \/ p = 19
      BY DEF Positions, ProxyPositions
    <3>2. ProxyPositions \subseteq 1 .. 18
      BY DEF ProxyPositions
    <3> QED
      BY <3>1, <3>2, ArgsPositions
  <2>2. q \notin ProxyPositions
    BY <1>6, <2>1, OrderNames
  <2>3. q = 1 \/ q = 2
    BY <2>2 DEF ProxyPositions
  <2>4. outputs'[d] = outputs[d]
    BY <1>3, <2>1, <2>3 DEF Place
  <2> QED
    BY <1>4, <1>6, <2>4 DEF AddressGiven
<1> QED
  BY <1>5, <1>6

\* A running script that is not started has deployed what is in the file.
LEMMA DeployedByScriptStep ==
    ASSUME TypeOK, ScriptShape, FileIsPrefix, OnChain, DeployedByScript, Next,
           ~Start, script'.pc \notin {"stopped", "mismatch"}
    PROVE  DeployedByScript'
<1>1. /\ Position(script) \in Positions /\ Current = Order[Position(script)]
      /\ script.part = 1 <=> Position(script) <= 2
  BY CurrentPosition
<1>2. \A p \in Positions : Has(p)' => p <= Behind(script')
  <2> SUFFICES ASSUME NEW p \in Positions, Has(p)'
               PROVE  p <= Behind(script')
    OBVIOUS
  <2>1. /\ Behind(script') \in Int
        /\ \/ Behind(script') = Behind(script)
           \/ /\ Behind(script') = Position(script)
              /\ Behind(script) = Position(script) - 1
    BY BehindSteps
  <2>2. p \in Int /\ Position(script) \in Int
    BY <1>1 DEF Positions
  <2>3. CASE Has(p)
    <3>1. p <= Behind(script)
      BY <2>3 DEF DeployedByScript
    <3> QED
      BY <2>1, <2>2, <3>1
  <2>4. CASE ~Has(p)
    <3>1. p = Position(script) /\ script' = AfterContract
      BY <2>4, FileGrows
    <3>2. Behind(script') = Position(script)
      BY <3>1, AfterPosition
    <3> QED
      BY <2>2, <3>1, <3>2
  <2> QED
    BY <2>3, <2>4
<1>3. CheckedParts'
  BY CheckedStep DEF DeployedByScript
<1>4. ASSUME Counted(script')
      PROVE  /\ \A p \in 3 .. 19 : Has(p)' =>
                    GivenByScript(contracts[Place(p)].args, Order[p])'
             /\ script'.pc = "save" =>
                    GivenByScript(contracts[script.address].args, Current)'
  <2>1. CASE ComputeContractAddresses
    <3>1. script.pc = "count" /\ Position(script) = 3 /\ outputs' = outputs
      BY <2>1 DEF ComputeContractAddresses, ScriptShape, Position, Before, world
    <3>2. \A p \in Positions : Has(p) => p <= 2
      BY <3>1 DEF DeployedByScript, Behind
    <3>3. \A p \in 3 .. 19 : ~Has(p)'
      BY <3>1, <3>2 DEF Positions, Has, Place
    <3>4. script'.pc = "contract"
      BY <2>1, CountMoves
    <3> QED
      BY <3>3, <3>4
  <2>2. CASE Counted(script) /\ script'.cp = script.cp
    <3>1. \A p \in 3 .. 19 : p \in Positions
      BY DEF Positions
    <3>2. Position(script) \in 3 .. 19
      BY <1>1, <2>2 DEF Counted, Positions
    <3>3. ASSUME NEW p \in 3 .. 19, Has(p)'
          PROVE  GivenByScript(contracts[Place(p)].args, Order[p])'
      <4>1. PICK a : a = Place(p)'
        OBVIOUS
      <4>2. a \in DOMAIN contracts /\ GivenByScript(contracts[a].args, Order[p])
        <5>1. CASE Has(p)
          <6>1. a = Place(p)
            BY <3>1, <4>1, <5>1, FileGrows
          <6> QED
            BY <2>2, <3>1, <5>1, <6>1 DEF DeployedByScript, OnChain
        <5>2. CASE ~Has(p)
          <6>1. script.pc = "save" /\ p = Position(script) /\ a = script.address
            BY <3>1, <3>3, <4>1, <5>2, FileGrows
          <6> QED
            BY <1>1, <2>2, <6>1 DEF DeployedByScript, ScriptShape
        <5> QED
          BY <5>1, <5>2
      <4>3. PICK g : g = contracts[a].args /\ g = contracts'[a].args
        BY <4>2, ContractsStay
      <4>4. GivenByScript(g, Order[p])'
        BY <2>2, <3>1, <4>2, <4>3, GivenByScriptStays
      <4> QED
        BY <4>1, <4>3, <4>4 DEF GivenByScript
    <3>4. ASSUME script'.pc = "save"
          PROVE  GivenByScript(contracts[script.address].args, Current)'
      <4> PICK q \in Positions : q = Position(script) /\ Current = Order[q]
        BY <1>1
      <4>1. CASE script' = script /\ contracts' = contracts
        <5>1. PICK g : g = contracts[script.address].args
          OBVIOUS
        <5>2. GivenByScript(g, Order[q])
          BY <2>2, <3>4, <4>1, <5>1 DEF DeployedByScript
        <5>3. GivenByScript(g, Order[q])'
          BY <2>2, <5>2, GivenByScriptStays
        <5>4. Current' = Order[q] /\ g = contracts'[script'.address].args
          BY <4>1, <5>1 DEF Current
        <5> QED
          BY <5>3, <5>4 DEF GivenByScript
      <4>2. CASE /\ DeployContract \/ DeployProxy
                 /\ script'.part = script.part /\ script'.next = script.next
                 /\ script'.address = nonce
                 /\ contracts'[nonce] = Deployed
        <5>1. PICK g : g = Deployed.args
          OBVIOUS
        <5>2. GivenByScript(g, Order[q])
          BY <5>1 DEF GivenByScript, Deployed
        <5>3. GivenByScript(g, Order[q])'
          BY <2>2, <5>2, GivenByScriptStays
        <5>4. g = contracts'[script'.address].args
          BY <4>2, <5>1
        <5>5. Current' = Order[q]
          BY <4>2 DEF Current
        <5> QED
          BY <5>3, <5>4, <5>5 DEF GivenByScript
      <4> QED
        BY <3>4, <4>1, <4>2, SavedContract
    <3> QED
      BY <3>3, <3>4
  <2> QED
    BY <1>4, <2>1, <2>2, CountedSteps
<1> QED
  BY <1>2, <1>3, <1>4 DEF DeployedByScript, Counted, Behind, Position

\* Starts of the script are counted.
LEMMA RunSteps ==
    ASSUME TypeOK, ScriptShape, Next
    PROVE  \/ Start /\ runs' = (IF runs < 2 THEN runs + 1 ELSE runs)
           \/ ~Start /\ runs' = runs
<1>1. CASE Start
  BY <1>1 DEF Start
<1>2. CASE ~Start
  BY <1>2 DEF Next, ScriptStep, ComputeContractAddresses, LoadPrevious,
     DeployContract, DeployImplementation, DeployProxyAdmin, DeployProxy,
     SaveDeployment, CheckContractAddresses, GetPair, CreatePair,
     CreatePairReverts, Crash, TransactionReverts, ForeignTransaction,
     SomebodyCreatesPair, Interrupt, history
<1> QED
  BY <1>1, <1>2

\* A script that does not run does not start by itself.
LEMMA StoppedSteps ==
    ASSUME TypeOK, ScriptShape, Next, ~Start,
           script.pc \in {"stopped", "mismatch"}
    PROVE  script' = script /\ outputs' = outputs
<1>1. ~Crash /\ ~TransactionReverts
  BY DEF Crash, Running, TransactionReverts
<1>2. ~ScriptStep
  BY DEF ScriptStep, ComputeContractAddresses, LoadPrevious, DeployContract,
     DeployImplementation, DeployProxyAdmin, DeployProxy, SaveDeployment,
     CheckContractAddresses, GetPair, CreatePair, CreatePairReverts
<1> QED
  BY <1>1, <1>2 DEF Next, ForeignTransaction, SomebodyCreatesPair, Interrupt

\* The first run deploys everything itself.
LEMMA FirstRunStep ==
    ASSUME TypeOK, ScriptShape, FileIsPrefix, OnChain, FirstRun, Next
    PROVE  FirstRun'
<1>1. runs \in 0 .. 2
  BY DEF TypeOK
<1>2. CASE Start
  <2>1. runs' = (IF runs < 2 THEN runs + 1 ELSE runs)
    BY <1>2 DEF Start
  <2>2. ASSUME runs' = 1
        PROVE  DeployedByScript'
    <3>1. runs = 0
      BY <1>1, <2>1, <2>2
    <3>2. \A p \in Positions : ~Has(p)'
      BY <1>2, <3>1 DEF FirstRun, Start, world, Has, Place
    <3>3. script'.part = 1
      BY <1>2, StoppedScript DEF Start
    <3>4. ~Counted(script')
      BY <3>3 DEF Counted
    <3> QED
      BY <3>2, <3>4 DEF DeployedByScript, CheckedParts, Counted, Behind, Position
  <2> QED
    BY <1>1, <2>1, <2>2 DEF FirstRun
<1>3. CASE ~Start
  <2>1. runs' = runs
    BY <1>3, RunSteps
  <2>2. ASSUME runs = 0
        PROVE  script'.pc = "stopped" /\ \A p \in Positions : ~Has(p)'
    <3>1. script.pc = "stopped" /\ \A p \in Positions : ~Has(p)
      BY <2>2 DEF FirstRun
    <3>2. script' = script /\ outputs' = outputs
      BY <1>3, <3>1, StoppedSteps
    <3> QED
      BY <3>1, <3>2 DEF Has, Place
  <2>3. ASSUME runs = 1, script'.pc \notin {"stopped", "mismatch"}
        PROVE  DeployedByScript'
    <3>1. script.pc \notin {"stopped", "mismatch"}
      BY <1>3, <2>3, StoppedSteps
    <3>2. DeployedByScript
      BY <2>3, <3>1 DEF FirstRun
    <3> QED
      BY <1>3, <2>3, <3>2, DeployedByScriptStep
  <2> QED
    BY <2>1, <2>2, <2>3 DEF FirstRun
<1> QED
  BY <1>2, <1>3

\* A deployment made by one run of the script is wired correctly, on any
\* network and whatever else used the wallet's nonces: what the contracts were
\* given is what the script had computed, which it compares with what it
\* deployed before it is done (deploy.js:89-99).
THEOREM DeploymentByOneRunIsWired == Spec => []CheckedDeploymentIsWired
<1>1. Init => FirstRun
  <2> SUFFICES ASSUME Init PROVE FirstRun
    OBVIOUS
  <2>1. \A p \in Positions : ~Has(p)
    BY OrderNames DEF Init, Has, Place
  <2> QED
    BY <2>1, StoppedScript DEF Init, FirstRun
<1>2. Inv /\ FirstRun /\ [Next]_vars => FirstRun'
  <2> SUFFICES ASSUME Inv, FirstRun, [Next]_vars PROVE FirstRun'
    OBVIOUS
  <2>1. TypeOK /\ ScriptShape /\ FileIsPrefix /\ OnChain
    BY DEF Inv
  <2>2. CASE Next
    BY <2>1, <2>2, FirstRunStep
  <2>3. CASE UNCHANGED vars
    <3>1. /\ contracts' = contracts /\ outputs' = outputs
          /\ script' = script /\ runs' = runs
      BY <2>3 DEF vars, world, history
    <3>2. DeployedByScript => DeployedByScript'
      BY <3>1 DEF DeployedByScript, CheckedParts, GivenByScript, AddressGiven,
         Counted, Behind, Position, Has, Place, Current
    <3> QED
      BY <3>1, <3>2 DEF FirstRun, Has, Place
  <2> QED
    BY <2>2, <2>3
<1>3. Inv /\ FirstRun => CheckedDeploymentIsWired
  <2> SUFFICES ASSUME Inv, FirstRun, script.pc = "done", runs = 1
               PROVE  AllWired
    BY DEF CheckedDeploymentIsWired
  <2>1. TypeOK /\ ScriptShape /\ FileIsPrefix /\ OnChain /\ DeployedByScript
    BY DEF Inv, FirstRun
  <2>2. script.part = 5 /\ Behind(script) = 19
    BY <2>1, CurrentPosition DEF ScriptShape, Behind
  <2>3. \A p \in Positions : Has(p)
    BY <2>1, <2>2 DEF FileIsPrefix, Positions
  <2>4. Counted(script) /\ Before[5] = 18
    BY <2>2 DEF Counted, Before
  <2>5. \A d \in Proxies : AddressGiven(d) = outputs[d]
    BY <2>1, <2>2, <2>4, OrderNames DEF DeployedByScript, CheckedParts,
       AddressGiven, Place, ProxyPositions
  <2>6. \A d : AddressGiven(d) = outputs[d]
    BY <2>5 DEF AddressGiven
  <2> SUFFICES ASSUME NEW m \in Names
               PROVE  Recorded(m) /\ IsWired(m)
    BY DEF AllWired
  <2>7. PICK p \in Positions : m = Order[p]
    BY OrderNames
  <2>8. Recorded(m)
    BY <2>3, <2>7 DEF Recorded, Has, Place
  <2>9. PICK g : g = contracts[Place(p)].args
    OBVIOUS
  <2>10. DOMAIN g = Args(m)
    BY <2>1, <2>3, <2>7, <2>9 DEF OnChain
  <2>11. ASSUME NEW d \in DOMAIN g
         PROVE  g[d] = outputs[d]
    <3>1. CASE p \in 1 .. 2
      BY <2>7, <2>10, <2>11, <3>1, ArgsPositions
    <3>2. CASE p \in 3 .. 19
      <4>1. GivenByScript(g, m)
        BY <2>1, <2>3, <2>4, <2>7, <2>9, <3>2 DEF DeployedByScript
      <4> QED
        BY <2>6, <2>10, <2>11, <4>1 DEF GivenByScript
    <3> QED
      BY <3>1, <3>2 DEF Positions
  <2> QED
    BY <2>7, <2>8, <2>9, <2>11 DEF IsWired, Place
<1> QED
  BY <1>1, <1>2, <1>3, Invariant, PTL DEF Spec

=============================================================================
