------------------------------ MODULE EvmCalls ------------------------------
(***************************************************************************)
(* The contract lifecycle of evm/core/vm/vm.go: Create, Create2, Call,     *)
(* StaticCall, DelegateCall and CallCode over the StateDB interface, and   *)
(* the transaction helpers EffectiveGasPrice and ValidateTransaction.      *)
(*                                                                         *)
(* No instruction is a CALL or CREATE, so these are entry points only and  *)
(* one runs at a time: each is one step.  The child EVM a call makes runs  *)
(* the interpreter of module Evm on a fresh Stack, Memory, Storage and gas *)
(* meter and touches nothing of the StateDB; all a call sees of it is how  *)
(* Run ended (ChildEnds).                                                  *)
(*                                                                         *)
(* generateCreateAddress and generateCreate2Address copy the caller's 20   *)
(* bytes: the new contract's address is the caller's own.                  *)
(*                                                                         *)
(* No type under src/ implements vm.StateDB (MemoryStateDB has no Exist    *)
(* and takes common.Address), so its methods follow the world-state table  *)
(* of the spec, as MemoryStateDB implements the ones it has: writes create *)
(* the account, reads do not, balances are big.Ints with no floor.         *)
(***************************************************************************)
EXTENDS Integers, Functions

CONSTANTS
    Addrs,      \* 20-byte addresses
    Values,     \* call values, value.Sign() >= 0
    MaxBalance, \* bound: initial balances are 0 .. MaxBalance
    MaxCalls,   \* bound: calls in a behaviour
    Fees,       \* gas prices, fee caps, tips and base fees of transactions
    None

\* How childEVM.Run ended: STOP or the end of the code (no return data),
\* RETURN of at most 24576 bytes, RETURN of more, or an error.
ChildEnds == {"stop", "return", "returnHuge", "error"}

VARIABLES
    live,     \* the addresses Exist reports
    balance,  \* GetBalance
    nonce,    \* GetNonce
    hasCode,  \* len(GetCode(a)) > 0
    calls,    \* calls made so far
    ret       \* the last call: [op, err] (err: it returned a non-nil error)

vars == <<live, balance, nonce, hasCode, calls, ret>>

\* A StateDB some earlier transactions left: any accounts and balances, and
\* code only at existing accounts.
Init ==
    /\ live \in SUBSET Addrs
    /\ balance \in [Addrs -> 0 .. MaxBalance]
    /\ \A a \in Addrs \ live : balance[a] = 0
    /\ nonce = [a \in Addrs |-> 0]
    /\ hasCode \in [Addrs -> BOOLEAN]
    /\ \A a \in Addrs \ live : ~hasCode[a]
    /\ calls = 0
    /\ ret = None

\* `if value.Sign() > 0 { SubBalance(from, value); AddBalance(to, value) }`:
\* both create their account.
Transfer(from, to, v) ==
    IF v > 0
    THEN [b |-> [[balance EXCEPT ![from] = @ - v] EXCEPT ![to] = @ + v],
          l |-> live \cup {from, to}]
    ELSE [b |-> balance, l |-> live]

Return(op, err) ==
    /\ calls' = calls + 1
    /\ ret' = [op |-> op, err |-> err]

\* The address check of Create and Create2: an existing address fails
\* before anything is written.
AddressTaken(op, addr) ==
    /\ addr \in live
    /\ Return(op, TRUE)
    /\ UNCHANGED <<live, balance, nonce, hasCode>>

\* CreateAccount, the value transfer, (Create only) SetNonce(caller,
\* GetNonce(caller)+1), the init code run, and SetCode of the return data
\* when the run succeeded with some; more than 24576 bytes is an error.
\* Nothing written before an error is undone.
Deploy(op, caller, addr, v, end) ==
    LET t == Transfer(caller, addr, v) IN
    /\ addr \notin live
    /\ live' = t.l \cup {addr}
    /\ balance' = t.b
    /\ nonce' = IF op = "create" THEN [nonce EXCEPT ![caller] = @ + 1] ELSE nonce
    /\ hasCode' = IF end = "return" THEN [hasCode EXCEPT ![addr] = TRUE] ELSE hasCode
    /\ Return(op, end \in {"returnHuge", "error"})

\* generateCreateAddress and generateCreate2Address: 20 bytes with the
\* caller's copied in; the nonce, salt and init code are not used.
GenerateCreateAddress(caller, n) == caller
GenerateCreate2Address(caller, salt, initCode) == caller

\* Create: address = generateCreateAddress(caller, GetNonce(caller)).
Create(caller, v, end) ==
    LET addr == GenerateCreateAddress(caller, nonce[caller]) IN
    \/ AddressTaken("create", addr)
    \/ Deploy("create", caller, addr, v, end)

\* Create2: address = generateCreate2Address(caller, salt, code).
Create2(caller, v, end) ==
    LET addr == GenerateCreate2Address(caller, "salt", "code") IN
    \/ AddressTaken("create2", addr)
    \/ Deploy("create2", caller, addr, v, end)

\* Call: `to` must exist; the value moves before GetCode, so a call to an
\* account without code fails after the transfer; then the code runs.
Call(caller, to, v, end) ==
    LET t == Transfer(caller, to, v) IN
    \/ /\ to \notin live
       /\ Return("call", TRUE)
       /\ UNCHANGED <<live, balance, nonce, hasCode>>
    \/ /\ to \in live
       /\ live' = t.l /\ balance' = t.b
       /\ Return("call", ~hasCode[to] \/ end = "error")
       /\ UNCHANGED <<nonce, hasCode>>

\* StaticCall and DelegateCall: `to` must exist and have code; no value
\* moves and the child writes nothing the StateDB holds.
NoTransferCall(op, to, end) ==
    /\ Return(op, to \notin live \/ ~hasCode[to] \/ end = "error")
    /\ UNCHANGED <<live, balance, nonce, hasCode>>

\* CallCode: SubBalance(caller) and AddBalance(caller), then as Call.
CallCode(caller, to, v, end) ==
    LET t == Transfer(caller, caller, v) IN
    \/ /\ to \notin live
       /\ Return("callcode", TRUE)
       /\ UNCHANGED <<live, balance, nonce, hasCode>>
    \/ /\ to \in live
       /\ live' = t.l /\ balance' = t.b
       /\ Return("callcode", ~hasCode[to] \/ end = "error")
       /\ UNCHANGED <<nonce, hasCode>>

Next ==
    /\ calls < MaxCalls
    /\ \E caller, to \in Addrs, v \in Values, end \in ChildEnds :
          \/ Create(caller, v, end)
          \/ Create2(caller, v, end)
          \/ Call(caller, to, v, end)
          \/ NoTransferCall("staticcall", to, end)
          \/ NoTransferCall("delegatecall", to, end)
          \/ CallCode(caller, to, v, end)

Spec == Init /\ [][Next]_vars

-----------------------------------------------------------------------------
(* Transactions.  Every fork's activation block is 0 (params), so          *)
(* IsHardForkActive holds for every fork at every block.                   *)

\* params.HomesteadBlock .. params.EIP1559Block.
ForkBlock == [f \in {"homestead", "tangerineWhistle", "spuriousDragon", "byzantium",
                      "constantinople", "petersburg", "istanbul", "berlin", "london",
                      "eip1559"} |-> 0]

\* IsHardForkActive: the header's number is at or past the fork's block;
\* an unknown fork name is never active.
IsHardForkActive(fork, blockNumber) ==
    fork \in DOMAIN ForkBlock /\ blockNumber >= ForkBlock[fork]

\* CalculateBaseFee: the header's base fee once EIP-1559 is active, else 0.
CalculateBaseFee(blockNumber, headerBaseFee) ==
    IF IsHardForkActive("eip1559", blockNumber) THEN headerBaseFee ELSE 0

\* The transactions the Fees can spell; a fee cap or tip of None is a nil
\* *big.Int.
Txs == [gasPrice : Fees, feeCap : Fees \cup {None}, tipCap : Fees \cup {None},
        gasLimit : {0, 1}]

IsEIP1559Transaction(tx) == tx.feeCap # None /\ tx.tipCap # None

\* max(tip, feeCap - baseFee) for an EIP-1559 transaction, else GasPrice.
EffectiveGasPrice(tx, baseFee) ==
    IF IsEIP1559Transaction(tx)
    THEN IF tx.feeCap - baseFee < tx.tipCap THEN tx.tipCap ELSE tx.feeCap - baseFee
    ELSE tx.gasPrice

\* ValidateTransaction: once EIP-1559 is active, an EIP-1559 transaction
\* needs feeCap >= tipCap; every transaction needs a non-zero gas limit.
ValidTransaction(tx, blockNumber) ==
    /\ IsHardForkActive("eip1559", blockNumber) /\ IsEIP1559Transaction(tx)
       => tx.feeCap >= tx.tipCap
    /\ tx.gasLimit # 0
-----------------------------------------------------------------------------

TypeOK ==
    /\ live \subseteq Addrs
    /\ balance \in [Addrs -> Int]
    /\ nonce \in [Addrs -> Nat]
    /\ hasCode \in [Addrs -> BOOLEAN]
    /\ \A a \in Addrs \ live : ~hasCode[a]
    /\ calls \in 0 .. MaxCalls
    /\ ret \in {None} \cup [op : {"create", "create2", "call", "staticcall",
                                   "delegatecall", "callcode"}, err : BOOLEAN]

\* No call creates or destroys value: every SubBalance of a transfer is
\* matched by an AddBalance of the same amount, CallCode's and a Create
\* at the caller's own address included.
ValueConserved == [][SumFunction(balance') = SumFunction(balance)]_vars

\* A call that returns an error leaves the balances and accounts as they
\* were: its frame's state reverts to the snapshot taken at entry (spec
\* 4.3, "Failure semantics", and 7).
FailedCallReverts ==
    [][ret' # None /\ ret'.err => balance' = balance /\ live' = live]_vars

\* A transaction ValidateTransaction accepts never pays more per gas than
\* its fee cap nor less than its tip, at any base fee: EffectiveGasPrice
\* relies on the feeCap >= tipCap check ValidateTransaction makes.
PriceWithinCaps ==
    \A tx \in Txs, headerBaseFee \in Fees, n \in {0, 1} :
        LET baseFee == CalculateBaseFee(n, headerBaseFee) IN
        IsEIP1559Transaction(tx) /\ ValidTransaction(tx, n) =>
            tx.tipCap <= EffectiveGasPrice(tx, baseFee)
            /\ EffectiveGasPrice(tx, baseFee) <= tx.feeCap
=============================================================================
