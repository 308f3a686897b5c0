------------------------ MODULE AdministrationProofs ------------------------
(***************************************************************************)
(* Proof that the ProxyAdmin is handed over last, for every list of        *)
(* contracts, every size of a batch and any number of faults.              *)
(*                                                                         *)
(* What carries it from one step of the script to the next is that each    *)
(* contract the loop has passed belongs to the multisig or has a           *)
(* transaction in the batch that nothing but itself can take the nonce of. *)
(* Neither the wait for the batch nor the miner gets past a nonce the node *)
(* has dropped, and a transfer that reverts finds the contract handed over *)
(* already.                                                                *)
(***************************************************************************)
EXTENDS Administration, TLAPS

AllHanded == \A c \in Names : owner[c] = "multisig"

\* A transfer the running hand-over still waits for: it is in the node, or the node has
\* dropped it and its nonce is free.
Underway(c) ==
    \E n \in script.txs :
      /\ n >= mined
      /\ n \in DOMAIN pending => pending[n] = [kind |-> "own", to |-> c]

\* The contracts the loop has passed.
Seen == {contractNames[i] : i \in {j \in 1 .. Len(contractNames) : j < script.next}}

\* Each of them is handed over or is about to be.
Passed == \A c \in Seen : owner[c] = "multisig" \/ Underway(c)

\* The steps a script goes through, by its name.
Places ==
    [none     |-> {"idle"},
     handover |-> {"transfer", "admin", "end"},
     upgrade  |-> {"owner", "add", "upgrade", "upgraded", "submit"},
     mock     |-> {"aggregator", "recorded", "owner", "add", "upgrade", "upgraded", "set",
                   "submit", "end"}]

ScriptInv ==
    /\ DOMAIN script = {"name", "pc", "next", "nonce", "txs", "calls"}
    /\ script.name \in {"none", "handover", "upgrade", "mock"}
    /\ script.pc \in Places[script.name]
    /\ script.next \in Nat /\ script.nonce \in Nat

OwnerType == owner \in [Names -> {"deployer", "multisig"}] /\ mined \in Nat

\* Transferring and AtAdmin: where a running hand-over is.
Transferring == script.name = "handover" /\ script.pc = "transfer"
AtAdmin      == script.name = "handover" /\ script.pc = "admin"

BatchInv == Transferring => Passed /\ \A n \in script.txs : n \in Nat /\ n < script.nonce

\* The ProxyAdmin's transfer is sent and mined when nothing is left.
AdminInv ==
    /\ AtAdmin => AllHanded
    /\ \A n \in DOMAIN pending : pending[n].kind = "ownAdmin" => AllHanded
    /\ adminOwner = "multisig" => AllHanded

HandoverInv == ScriptInv /\ OwnerType /\ BatchInv /\ AdminInv

-----------------------------------------------------------------------------
\* A contract once passed is one of the names, and past the end of the list all are.
LEMMA SeenNames ==
    ASSUME script.next \in Nat
    PROVE  /\ Seen \subseteq Names
           /\ script.next > Len(contractNames) => Seen = Names
<1>1. contractNames \in Seq(STRING) /\ Len(contractNames) \in Nat
      /\ DOMAIN contractNames = 1 .. Len(contractNames)
  BY contractNamesAssumption
<1>2. Names = {contractNames[i] : i \in 1 .. Len(contractNames)}
  BY <1>1 DEF Names, ToSet
<1>. QED
  BY <1>1, <1>2 DEF Seen

\* The batch is mined: nothing is underway any more.
LEMMA AwaitedIsHanded ==
    ASSUME HandoverInv, Transferring, Awaited
    PROVE  \A c \in Seen : owner[c] = "multisig"
<1>1. \A c : ~Underway(c)
  BY DEF HandoverInv, BatchInv, OwnerType, Underway, Awaited
<1>. QED
  BY <1>1 DEF HandoverInv, BatchInv, Passed

\* A script that does not run and one that is at another place than the hand-over's own
\* have nothing to show but that nobody was given anything back.
LEMMA OtherScript ==
    ASSUME HandoverInv, ScriptInv', ~Transferring', ~AtAdmin',
           UNCHANGED <<owner, adminOwner, mined>>,
           \A n \in DOMAIN pending' :
             \/ pending'[n].kind # "ownAdmin"
             \/ n \in DOMAIN pending /\ pending'[n] = pending[n]
    PROVE  HandoverInv'
<1>1. AllHanded' = AllHanded
  BY DEF AllHanded
<1>. QED
  BY <1>1 DEF HandoverInv, OwnerType, BatchInv, AdminInv

-----------------------------------------------------------------------------
(* The chain.                                                              *)

\* No owner gives a contract back, and the miner takes the nonces in their order.
LEMMA MineKeeps ==
    ASSUME HandoverInv, Mine
    PROVE  HandoverInv'
<1>. DEFINE tx == pending[mined]
<1>1. /\ mined \in DOMAIN pending /\ mined' = mined + 1 /\ mined \in Nat
      /\ pending' = [n \in DOMAIN pending \ {mined} |-> pending[n]]
      /\ script' = script
  BY DEF Mine, NoLongerPending, HandoverInv, OwnerType
<1>2. /\ owner' \in [Names -> {"deployer", "multisig"}]
      /\ \A c \in Names : owner[c] = "multisig" => owner'[c] = "multisig"
  <2>1. owner \in [Names -> {"deployer", "multisig"}]
    BY DEF HandoverInv, OwnerType
  <2>2. \/ owner' = owner
        \/ owner' = [owner EXCEPT ![tx.to] = "multisig"]
    BY DEF Mine, Execute, chain
  <2>. QED
    BY <2>1, <2>2
<1>3. \A c \in Names : tx = [kind |-> "own", to |-> c] => owner'[c] = "multisig"
  <2>. SUFFICES ASSUME NEW c \in Names, tx = [kind |-> "own", to |-> c]
                PROVE  owner'[c] = "multisig"
    OBVIOUS
  <2>1. owner \in [Names -> {"deployer", "multisig"}] /\ tx.kind = "own" /\ tx.to = c
    BY DEF HandoverInv, OwnerType
  <2>2. CASE Allowed(tx, "deployer")
    <3>1. owner' = [owner EXCEPT ![c] = "multisig"]
      BY <2>1, <2>2 DEF Mine, Execute
    <3>. QED
      BY <2>1, <3>1
  <2>3. CASE ~Allowed(tx, "deployer")
    <3>1. owner[c] # "deployer"
      BY <2>1, <2>3 DEF Allowed
    <3>. QED
      BY <1>2, <2>1, <3>1
  <2>. QED
    BY <2>2, <2>3
<1>4. AllHanded => AllHanded'
  BY <1>2 DEF AllHanded
<1>5. adminOwner' = "multisig" => adminOwner = "multisig" \/ tx.kind = "ownAdmin"
  BY DEF Mine, Execute, chain
<1>6. AdminInv'
  BY <1>1, <1>4, <1>5 DEF AdminInv, HandoverInv, AtAdmin
<1>7. BatchInv'
  <2>. SUFFICES ASSUME Transferring
                PROVE  Passed' /\ \A n \in script.txs : n \in Nat /\ n < script.nonce
    BY <1>1 DEF BatchInv, Transferring
  <2>1. Passed /\ \A n \in script.txs : n \in Nat /\ n < script.nonce
    BY DEF HandoverInv, BatchInv
  <2>2. Seen' = Seen /\ Seen \subseteq Names
    BY <1>1, SeenNames DEF Seen, HandoverInv, ScriptInv
  <2>3. ASSUME NEW c \in Seen, Underway(c)
        PROVE  owner'[c] = "multisig" \/ Underway(c)'
    <3>1. PICK n \in script.txs :
            n >= mined /\ (n \in DOMAIN pending => pending[n] = [kind |-> "own", to |-> c])
      BY <2>3 DEF Underway
    <3>2. CASE n = mined
      BY <1>1, <1>3, <2>2, <3>1, <3>2
    <3>3. CASE n # mined
      <4>1. n >= mined'
        BY <1>1, <2>1, <3>1, <3>3
      <4>. QED
        BY <1>1, <3>1, <3>3, <4>1 DEF Underway
    <3>. QED
      BY <3>2, <3>3
  <2>. QED
    BY <1>2, <2>1, <2>2, <2>3 DEF Passed
<1>. QED
  BY <1>1, <1>2, <1>6, <1>7 DEF HandoverInv, ScriptInv, OwnerType

\* A transaction the node forgets leaves its nonce free.
LEMMA DropKeeps ==
    ASSUME HandoverInv, Drop
    PROVE  HandoverInv'
<1>1. PICK m \in DOMAIN pending : pending' = [k \in DOMAIN pending \ {m} |-> pending[k]]
  BY DEF Drop
<1>2. UNCHANGED <<owner, adminOwner, mined, script>>
  BY DEF Drop, chain
<1>3. AllHanded' = AllHanded /\ Seen' = Seen
  BY <1>2 DEF AllHanded, Seen
<1>4. ASSUME NEW c, Underway(c)
      PROVE  Underway(c)'
  BY <1>1, <1>2, <1>4 DEF Underway
<1>5. BatchInv'
  BY <1>2, <1>3, <1>4 DEF HandoverInv, BatchInv, Transferring, Passed
<1>6. AdminInv'
  BY <1>1, <1>2, <1>3 DEF HandoverInv, AdminInv, AtAdmin
<1>. QED
  BY <1>2, <1>5, <1>6 DEF HandoverInv, ScriptInv, OwnerType

-----------------------------------------------------------------------------
(* The hand-over.                                                          *)

LEMMA StartHandoverKeeps ==
    ASSUME HandoverInv, StartHandover
    PROVE  HandoverInv'
<1>1. /\ script' = [name |-> "handover", pc |-> "transfer", next |-> 1, nonce |-> mined,
                    txs |-> {}, calls |-> <<>>]
      /\ UNCHANGED <<owner, adminOwner, mined, pending>>
  BY DEF StartHandover, NotRunning, chain, wallet
<1>2. AllHanded' = AllHanded
  BY <1>1 DEF AllHanded
<1>3. ScriptInv'
  BY <1>1 DEF ScriptInv, Places, HandoverInv, OwnerType
<1>4. Seen' = {}
  BY <1>1 DEF Seen
<1>. QED
  BY <1>1, <1>2, <1>3, <1>4 DEF HandoverInv, OwnerType, BatchInv, Passed, AdminInv, AtAdmin

\* The loop: the contract is the multisig's, or its transfer goes to a free nonce beyond
\* those of the batch, so that it replaces none of them.
LEMMA TransferKeeps ==
    ASSUME HandoverInv, Transfer
    PROVE  HandoverInv'
<1>0. PICK name : name = contractNames[script.next]
  OBVIOUS
<1>1. Transferring /\ script.next <= Len(contractNames) /\ UNCHANGED <<owner, adminOwner, mined>>
  BY DEF Transfer, Transferring, chain
<1>2. /\ ScriptInv /\ Passed /\ \A n \in script.txs : n \in Nat /\ n < script.nonce
      /\ script.next \in Nat /\ script.nonce \in Nat /\ mined \in Nat
  BY <1>1 DEF HandoverInv, BatchInv, OwnerType, ScriptInv
<1>3. AllHanded' = AllHanded
  BY <1>1 DEF AllHanded
<1>4. CASE script' = NotRunning /\ pending' = pending
  <2>1. ScriptInv' /\ ~Transferring' /\ ~AtAdmin'
    BY <1>4 DEF NotRunning, ScriptInv, Places, Transferring, AtAdmin
  <2>. QED
    BY <1>1, <1>4, <2>1, OtherScript
<1>5. ASSUME script'.next = script.next + 1
      PROVE  \A c \in Seen' : c \in Seen \/ c = name
  BY <1>0, <1>2, <1>5 DEF Seen
<1>6. CASE /\ owner[name] = "multisig"
           /\ script' = [script EXCEPT !.next = @ + 1]
           /\ pending' = pending
  <2>1. /\ ScriptInv' /\ Transferring' /\ ~AtAdmin'
        /\ script'.next = script.next + 1 /\ script'.txs = script.txs
        /\ script'.nonce = script.nonce
    BY <1>1, <1>2, <1>6 DEF ScriptInv, Places, Transferring, AtAdmin
  <2>2. \A c : Underway(c) => Underway(c)'
    BY <1>1, <1>6, <2>1 DEF Underway
  <2>3. Passed'
    BY <1>1, <1>2, <1>5, <1>6, <2>1, <2>2 DEF Passed
  <2>4. BatchInv'
    BY <1>2, <2>1, <2>3 DEF BatchInv
  <2>. QED
    BY <1>1, <1>3, <1>6, <2>1, <2>4 DEF HandoverInv, OwnerType, AdminInv
<1>7. CASE /\ ~Taken(script.nonce)
           /\ Sends(script.nonce, [kind |-> "own", to |-> name])
           /\ script' = [script EXCEPT !.next = @ + 1, !.nonce = @ + 1,
                            !.txs = @ \cup {script.nonce}]
  <2>1. /\ ScriptInv' /\ Transferring' /\ ~AtAdmin'
        /\ script'.next = script.next + 1 /\ script'.txs = script.txs \cup {script.nonce}
        /\ script'.nonce = script.nonce + 1
    BY <1>1, <1>2, <1>7 DEF ScriptInv, Places, Transferring, AtAdmin
  <2>2. /\ script.nonce >= mined
        /\ DOMAIN pending' = DOMAIN pending \cup {script.nonce}
        /\ pending'[script.nonce] = [kind |-> "own", to |-> name]
        /\ \A n \in DOMAIN pending : n # script.nonce => pending'[n] = pending[n]
    BY <1>2, <1>7 DEF Taken, Sends
  <2>3. Underway(name)'
    <3>1. script.nonce \in script'.txs /\ script.nonce >= mined'
      BY <1>1, <2>1, <2>2
    <3>. QED
      BY <2>2, <3>1 DEF Underway
  <2>4. ASSUME NEW c, Underway(c)
        PROVE  Underway(c)'
    <3>1. PICK n \in script.txs :
            n >= mined /\ (n \in DOMAIN pending => pending[n] = [kind |-> "own", to |-> c])
      BY <2>4 DEF Underway
    <3>2. n # script.nonce
      BY <1>2
    <3>. QED
      BY <1>1, <2>1, <2>2, <3>1, <3>2 DEF Underway
  <2>5. Passed'
    <3>. SUFFICES ASSUME NEW c \in Seen'
                  PROVE  owner'[c] = "multisig" \/ Underway(c)'
      BY DEF Passed
    <3>1. CASE c = name
      BY <2>3, <3>1
    <3>2. CASE c \in Seen
      <4>1. owner[c] = "multisig" \/ Underway(c)
        BY <1>2, <3>2 DEF Passed
      <4>. QED
        BY <1>1, <2>4, <4>1
    <3>. QED
      BY <1>5, <2>1, <3>1, <3>2
  <2>6. BatchInv'
    <3>1. \A n \in script'.txs : n \in Nat /\ n < script'.nonce
      BY <1>2, <2>1
    <3>. QED
      BY <2>5, <3>1 DEF BatchInv
  <2>7. \A n \in DOMAIN pending' : pending'[n].kind = "ownAdmin" =>
           n \in DOMAIN pending /\ pending[n].kind = "ownAdmin"
    BY <2>2
  <2>. QED
    BY <1>1, <1>3, <2>1, <2>6, <2>7 DEF HandoverInv, OwnerType, AdminInv
<1>. QED
  BY <1>0, <1>4, <1>6, <1>7 DEF Transfer, OwnedByMultisig, Exit

\* The wait for a batch and the wait for the rest, after which everything is handed over.
LEMMA WaitKeeps ==
    ASSUME HandoverInv, WaitForBatch \/ WaitForRest
    PROVE  HandoverInv'
<1>1. Transferring /\ Awaited /\ UNCHANGED <<owner, adminOwner, mined, pending>>
  BY DEF WaitForBatch, WaitForRest, AfterWait, Transferring, chain, wallet
<1>2. ScriptInv /\ \A c \in Seen : owner[c] = "multisig"
  BY <1>1, AwaitedIsHanded DEF HandoverInv
<1>3. AllHanded' = AllHanded
  BY <1>1 DEF AllHanded
<1>4. CASE Exit
  <2>1. ScriptInv' /\ ~Transferring' /\ ~AtAdmin'
    BY <1>4 DEF Exit, NotRunning, ScriptInv, Places, Transferring, AtAdmin
  <2>. QED
    BY <1>1, <2>1, OtherScript
<1>5. CASE WaitForBatch /\ Goto("transfer")
  <2>1. ScriptInv' /\ ~AtAdmin' /\ script'.txs = {} /\ script'.next = script.next
    BY <1>1, <1>2, <1>5 DEF Goto, ScriptInv, Places, Transferring, AtAdmin
  <2>2. Passed'
    BY <1>1, <1>2, <2>1 DEF Passed, Seen
  <2>. QED
    BY <1>1, <1>3, <2>1, <2>2 DEF HandoverInv, OwnerType, BatchInv, AdminInv
<1>6. CASE WaitForRest /\ Goto("admin")
  <2>1. ScriptInv' /\ ~Transferring'
    BY <1>1, <1>2, <1>6 DEF Goto, ScriptInv, Places, Transferring
  <2>2. AllHanded
    BY <1>2, <1>6, SeenNames DEF WaitForRest, AllHanded, ScriptInv
  <2>. QED
    BY <1>1, <1>3, <2>1, <2>2 DEF HandoverInv, OwnerType, BatchInv, AdminInv
<1>. QED
  BY <1>4, <1>5, <1>6 DEF WaitForBatch, WaitForRest, AfterWait

\* The ProxyAdmin's transfer is sent when everything else is handed over.
LEMMA TransferAdminKeeps ==
    ASSUME HandoverInv, TransferAdmin
    PROVE  HandoverInv'
<1>1. AtAdmin /\ AllHanded /\ ScriptInv /\ UNCHANGED <<owner, adminOwner, mined>>
  BY DEF TransferAdmin, HandoverInv, AdminInv, AtAdmin, chain
<1>2. AllHanded'
  BY <1>1 DEF AllHanded
<1>3. ScriptInv' /\ ~Transferring'
  <2>1. CASE Exit
    BY <2>1 DEF Exit, NotRunning, ScriptInv, Places, Transferring
  <2>2. CASE script' = [script EXCEPT !.pc = "end", !.txs = {script.nonce}]
    BY <1>1, <2>2 DEF ScriptInv, Places, Transferring, AtAdmin
  <2>. QED
    BY <2>1, <2>2 DEF TransferAdmin
<1>. QED
  BY <1>1, <1>2, <1>3 DEF HandoverInv, OwnerType, BatchInv, AdminInv

-----------------------------------------------------------------------------
(* The other scripts.                                                      *)

\* Whatever another script does next, it has not begun a hand-over.
LEMMA OtherPlace ==
    ASSUME HandoverInv, script.name \in {"upgrade", "mock"},
           DOMAIN script' = DOMAIN script, script'.name = script.name,
           script'.pc \in Places[script.name],
           script'.next \in Nat, script'.nonce = script.nonce
    PROVE  ScriptInv' /\ ~Transferring' /\ ~AtAdmin'
BY DEF HandoverInv, ScriptInv, Transferring, AtAdmin

\* It sends transactions of another kind than the ProxyAdmin's transfer.
LEMMA SendKeeps ==
    ASSUME HandoverInv, NEW kind, NEW to, NEW ver, NEW pc, Send(kind, to, ver, pc),
           kind # "ownAdmin", script.name \in {"upgrade", "mock"}, pc \in Places[script.name],
           UNCHANGED <<owner, adminOwner, mined>>
    PROVE  HandoverInv'
<1>1. script' = [script EXCEPT !.pc = pc, !.txs = {NextNonce}]
  BY DEF Send
<1>2. \A n \in DOMAIN pending' :
        \/ pending'[n].kind # "ownAdmin"
        \/ n \in DOMAIN pending /\ pending'[n] = pending[n]
  <2>. DEFINE tx == [kind |-> kind, to |-> to, version |-> ver]
  <2>1. tx.kind # "ownAdmin"
    OBVIOUS
  <2>2. pending' = [n \in DOMAIN pending \cup {NextNonce} |->
                        IF n = NextNonce THEN tx ELSE pending[n]]
    BY DEF Send, Sends
  <2>. HIDE DEF tx
  <2>. QED
    BY <2>1, <2>2
<1>3. ScriptInv' /\ ~Transferring' /\ ~AtAdmin'
  BY <1>1, OtherPlace DEF HandoverInv, ScriptInv
<1>. QED
  BY <1>2, <1>3, OtherScript

\* It goes on, with nothing sent.
LEMMA GoOnKeeps ==
    ASSUME HandoverInv, script.name \in {"upgrade", "mock"},
           DOMAIN script' = DOMAIN script, script'.name = script.name,
           script'.pc \in Places[script.name],
           script'.next \in Nat, script'.nonce = script.nonce,
           UNCHANGED <<owner, adminOwner, mined, pending>>
    PROVE  HandoverInv'
<1>1. ScriptInv' /\ ~Transferring' /\ ~AtAdmin'
  BY OtherPlace
<1>. QED
  BY <1>1, OtherScript

\* It ends, or is stopped.
LEMMA ExitKeeps ==
    ASSUME HandoverInv, Exit, UNCHANGED <<owner, adminOwner, mined, pending>>
    PROVE  HandoverInv'
<1>1. ScriptInv' /\ ~Transferring' /\ ~AtAdmin'
  BY DEF Exit, NotRunning, ScriptInv, Places, Transferring, AtAdmin
<1>. QED
  BY <1>1, OtherScript

LEMMA UpgradeKeeps ==
    ASSUME HandoverInv, StartUpgrade \/ UpgradeStep \/ End \/ Crash
    PROVE  HandoverInv'
<1>1. /\ DOMAIN script = {"name", "pc", "next", "nonce", "txs", "calls"}
      /\ script.pc \in Places[script.name] /\ script.next \in Nat
      /\ script.name \in {"none", "handover", "upgrade", "mock"}
  BY DEF HandoverInv, ScriptInv
<1>2. ASSUME Goto("owner") \/ Goto("submit"), script.name \in {"upgrade", "mock"},
             UNCHANGED <<owner, adminOwner, mined, pending>>
      PROVE  HandoverInv'
  <2>1. "owner" \in Places[script.name] /\ "submit" \in Places[script.name]
    BY <1>2 DEF Places
  <2>2. /\ DOMAIN script' = DOMAIN script /\ script'.name = script.name
        /\ script'.pc \in Places[script.name]
        /\ script'.next \in Nat /\ script'.nonce = script.nonce
    BY <1>1, <1>2, <2>1 DEF Goto
  <2>. QED
    BY <1>2, <2>2, GoOnKeeps
<1>3. CASE StartUpgrade
  <2>1. UNCHANGED <<owner, adminOwner, mined, pending>>
    BY <1>3 DEF StartUpgrade, chain, wallet
  <2>2. \/ script' = [NotRunning EXCEPT !.name = "upgrade", !.pc = "owner"]
        \/ script' = [NotRunning EXCEPT !.name = "mock", !.pc = "aggregator"]
    BY <1>3 DEF StartUpgrade
  <2>3. /\ DOMAIN script' = {"name", "pc", "next", "nonce", "txs", "calls"}
        /\ script'.next = 1 /\ script'.nonce = 0
        /\ \/ script'.name = "upgrade" /\ script'.pc = "owner"
           \/ script'.name = "mock" /\ script'.pc = "aggregator"
    BY <2>2 DEF NotRunning
  <2>4. ScriptInv' /\ ~Transferring' /\ ~AtAdmin'
    BY <2>3 DEF ScriptInv, Places, Transferring, AtAdmin
  <2>. QED
    BY <2>1, <2>4, OtherScript
<1>4. CASE DeployAggregator
  <2>1. UNCHANGED <<owner, adminOwner, mined>> /\ script.name = "mock"
    BY <1>4 DEF DeployAggregator, chain
  <2>2. "recorded" \in Places[script.name]
    BY <2>1 DEF Places
  <2>. QED
    BY <1>2, <1>4, <2>1, <2>2, SendKeeps DEF DeployAggregator
<1>5. CASE RecordAggregator
  <2>1. UNCHANGED <<owner, adminOwner, mined, pending>> /\ script.name = "mock"
    BY <1>5 DEF RecordAggregator, chain, wallet
  <2>. QED
    BY <1>2, <1>5, <2>1, ExitKeeps DEF RecordAggregator, AfterWait
<1>6. CASE ReadAdminOwner
  <2>1. UNCHANGED <<owner, adminOwner, mined>> /\ script.name \in {"upgrade", "mock"}
    BY <1>6 DEF ReadAdminOwner, chain
  <2>2. "add" \in Places[script.name] /\ "upgrade" \in Places[script.name]
    BY <2>1 DEF Places
  <2>. QED
    BY <1>2, <1>6, <2>1, <2>2, SendKeeps DEF ReadAdminOwner
<1>7. CASE AddCall
  <2>1. UNCHANGED <<owner, adminOwner, mined, pending>> /\ script.pc = "add"
    BY <1>7 DEF AddCall, chain, wallet
  <2>2. script.name \in {"upgrade", "mock"} /\ "owner" \in Places[script.name]
    BY <1>1, <2>1 DEF Places
  <2>3. /\ DOMAIN script' = DOMAIN script /\ script'.name = script.name
        /\ script'.pc = "owner" /\ script'.next = script.next + 1
        /\ script'.nonce = script.nonce
    BY <1>1, <1>7 DEF AddCall
  <2>. QED
    BY <1>1, <2>1, <2>2, <2>3, GoOnKeeps
<1>8. CASE UpgradeProxy
  <2>1. UNCHANGED <<owner, adminOwner, mined>> /\ script.pc = "upgrade"
    BY <1>8 DEF UpgradeProxy, chain
  <2>2. script.name \in {"upgrade", "mock"} /\ "upgraded" \in Places[script.name]
    BY <1>1, <2>1 DEF Places
  <2>. QED
    BY <1>8, <2>1, <2>2, SendKeeps DEF UpgradeProxy
<1>9. CASE AwaitUpgrade
  <2>1. UNCHANGED <<owner, adminOwner, mined, pending>> /\ script.pc = "upgraded"
    BY <1>9 DEF AwaitUpgrade, chain, wallet
  <2>2. CASE script' = NotRunning
    BY <2>1, <2>2, ExitKeeps DEF Exit
  <2>3. CASE script' # NotRunning
    <3>1. PICK pc : pc = IF script.name = "mock" THEN "set" ELSE "owner"
      OBVIOUS
    <3>2. script.name \in {"upgrade", "mock"} /\ pc \in Places[script.name]
      BY <1>1, <2>1, <3>1 DEF Places
    <3>3. /\ DOMAIN script' = DOMAIN script /\ script'.name = script.name
          /\ script'.pc = pc /\ script'.next = script.next + 1
          /\ script'.nonce = script.nonce
      BY <1>1, <1>9, <2>3, <3>1 DEF AwaitUpgrade
    <3>. QED
      BY <1>1, <2>1, <3>2, <3>3, GoOnKeeps
  <2>. QED
    BY <2>2, <2>3
<1>10. CASE SetPriceAggregator
  <2>1. UNCHANGED <<owner, adminOwner, mined>> /\ script.pc = "set"
    BY <1>10 DEF SetPriceAggregator, chain
  <2>2. script.name \in {"upgrade", "mock"} /\ "end" \in Places[script.name]
    BY <1>1, <2>1 DEF Places
  <2>. QED
    BY <1>10, <2>1, <2>2, SendKeeps DEF SetPriceAggregator
<1>11. CASE Submit \/ End \/ Crash
  BY <1>11, ExitKeeps DEF Submit, End, Crash, chain, wallet
<1>. QED
  BY <1>3, <1>4, <1>5, <1>6, <1>7, <1>8, <1>9, <1>10, <1>11 DEF UpgradeStep

-----------------------------------------------------------------------------
(* The theorem.                                                            *)

\* Nothing is handed over and no script runs when the deployment ends.
LEMMA InitHandover == Init => HandoverInv
<1>. SUFFICES ASSUME Init PROVE HandoverInv
  OBVIOUS
<1>1. ScriptInv /\ ~Transferring /\ ~AtAdmin
  BY DEF Init, NotRunning, ScriptInv, Places, Transferring, AtAdmin
<1>. QED
  BY <1>1 DEF Init, HandoverInv, OwnerType, BatchInv, AdminInv

LEMMA NextHandover ==
    ASSUME HandoverInv, [Next]_vars
    PROVE  HandoverInv'
<1>1. CASE UNCHANGED <<owner, adminOwner, mined, pending, script>>
  BY <1>1 DEF HandoverInv, ScriptInv, OwnerType, BatchInv, AdminInv, Transferring, AtAdmin,
              Passed, Seen, Underway, AllHanded
<1>2. CASE ExecuteProposal
  BY <1>1, <1>2 DEF ExecuteProposal, wallet
<1>3. CASE UNCHANGED vars
  BY <1>1, <1>3 DEF vars, chain, wallet
<1>. QED
  BY <1>2, <1>3, MineKeeps, DropKeeps, StartHandoverKeeps, TransferKeeps, WaitKeeps,
     TransferAdminKeeps, UpgradeKeeps DEF Next, HandoverStep

\* Whatever is dropped, refused or interrupted, and however often the hand-over is run,
\* the ProxyAdmin is the multisig's only when every contract is.
THEOREM AdminIsLast == Spec => []ProxyAdminLast
<1>1. HandoverInv => ProxyAdminLast
  BY DEF HandoverInv, AdminInv, AllHanded, ProxyAdminLast
<1>. QED
  BY <1>1, InitHandover, NextHandover, PTL DEF Spec

=============================================================================
