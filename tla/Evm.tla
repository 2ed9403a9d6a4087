-------------------------------- MODULE Evm --------------------------------
(***************************************************************************)
(* The EVM interpreter of evm/core/vm: EVM.Run and executeOpcode (vm.go),  *)
(* the registered instructions (opcodes.go), and the packages they use:    *)
(* the gas meter and base-gas table (gas/gas.go), the stack                *)
(* (stack/stack.go), the memory (memory/memory.go) and the storage         *)
(* (storage/storage.go).                                                   *)
(*                                                                         *)
(* The program is not fixed in advance: each step either ends the code or  *)
(* appends one instruction drawn from small sets and executes it.  Run     *)
(* only ever reads code[pc .. pc+size] and there are no jumps, so the      *)
(* behaviours are exactly those of Run over every program those sets can   *)
(* spell, up to MaxCode bytes.                                             *)
(*                                                                         *)
(* A stack word is a *big.Int: a sign and a big-endian magnitude without   *)
(* leading zero bytes, exactly what big.Int.Bytes returns.  Nothing        *)
(* reduces words modulo 2^256, because the code never does.                *)
(***************************************************************************)
EXTENDS Integers, Sequences, SequencesExt

CONSTANTS
    GasLimit,       \* Context.GasLimit, the gas meter's limit
    StackLimit,     \* Stack.limit (1024 in NewStack)
    MaxCode,        \* bound: the longest program explored, in bytes
    PlainOps,       \* opcode bytes drawn as instructions without immediate data
    PushData        \* the immediate data PUSHn instructions may carry

\* A memory expansion to any size >= 2^16 costs at least
\* 3 * 2048 * 2048 / 512 = 24576 gas, more than the whole limit.
ASSUME GasLimit \in 1 .. 24575

-----------------------------------------------------------------------------
(***************************************************************************)
(* math/big on magnitudes: sequences of bytes, most significant first,     *)
(* with no leading zero; zero is << >>.                                    *)
(***************************************************************************)
RECURSIVE Strip(_)
Strip(s) == IF s # << >> /\ s[1] = 0 THEN Strip(Tail(s)) ELSE s

RECURSIVE NatOf(_)
NatOf(m) == IF m = << >> THEN 0 ELSE NatOf(Front(m)) * 256 + Last(m)

RECURSIVE MagOf(_)
MagOf(n) == IF n = 0 THEN << >> ELSE Append(MagOf(n \div 256), n % 256)

\* The last byte of a magnitude and the rest, treating << >> as zero.
Low(m)  == IF m = << >> THEN 0 ELSE Last(m)
High(m) == IF m = << >> THEN << >> ELSE Front(m)

MagLess(a, b) ==
    \/ Len(a) < Len(b)
    \/ /\ Len(a) = Len(b)
       /\ \E i \in DOMAIN a : a[i] < b[i] /\ \A j \in 1 .. i - 1 : a[j] = b[j]

RECURSIVE AddC(_, _, _)
AddC(a, b, c) ==
    IF a = << >> /\ b = << >> THEN (IF c = 0 THEN << >> ELSE << c >>)
    ELSE LET x == Low(a) + Low(b) + c
         IN  Append(AddC(High(a), High(b), x \div 256), x % 256)

MagAdd(a, b) == AddC(a, b, 0)

\* a - b for b <= a.
RECURSIVE SubB(_, _, _)
SubB(a, b, c) ==
    IF a = << >> THEN << >>
    ELSE LET x == Last(a) - Low(b) - c
         IN  Append(SubB(Front(a), High(b), IF x < 0 THEN 1 ELSE 0), (x + 256) % 256)

MagSub(a, b) == Strip(SubB(a, b, 0))

\* a * d for one byte d.
RECURSIVE MulC(_, _, _)
MulC(a, d, c) ==
    IF a = << >> THEN (IF c = 0 THEN << >> ELSE << c >>)
    ELSE LET x == Last(a) * d + c
         IN  Append(MulC(Front(a), d, x \div 256), x % 256)

MulDigit(a, d) == IF d = 0 THEN << >> ELSE MulC(a, d, 0)

\* a * b = (a * High(b)) * 256 + a * Low(b).
RECURSIVE MagMul(_, _)
MagMul(a, b) ==
    IF b = << >> \/ a = << >> THEN << >>
    ELSE LET hi == MagMul(a, Front(b))
         IN  MagAdd(IF hi = << >> THEN hi ELSE Append(hi, 0), MulDigit(a, Last(b)))

\* Schoolbook long division of a by b # << >>: [q, r].
RECURSIVE DivLoop(_, _, _, _)
DivLoop(a, b, q, r) ==
    IF a = << >> THEN [q |-> Strip(q), r |-> r]
    ELSE LET r1 == Strip(Append(r, Head(a)))
             Fits(d) == ~MagLess(r1, MulDigit(b, d))
             d == CHOOSE d \in 0 .. 255 : Fits(d) /\ (d = 255 \/ ~Fits(d + 1))
         IN  DivLoop(Tail(a), b, Append(q, d), MagSub(r1, MulDigit(b, d)))

MagDivMod(a, b) == DivLoop(a, b, << >>, << >>)

-----------------------------------------------------------------------------
(***************************************************************************)
(* big.Int values and the methods the instructions call.                   *)
(***************************************************************************)
Word(neg, mag) == [neg |-> neg /\ mag # << >>, mag |-> mag]

Zero == Word(FALSE, << >>)

\* big.NewInt(n) for n >= 0, and new(big.Int).SetBytes(bytes).
IntWord(n)   == Word(FALSE, MagOf(n))
SetBytes(bs) == Word(FALSE, Strip(bs))

\* Int.Add: equal signs add magnitudes, else the larger absorbs the smaller.
WordAdd(x, y) ==
    IF x.neg = y.neg THEN Word(x.neg, MagAdd(x.mag, y.mag))
    ELSE IF MagLess(x.mag, y.mag) THEN Word(y.neg, MagSub(y.mag, x.mag))
    ELSE Word(x.neg, MagSub(x.mag, y.mag))

WordSub(x, y) == WordAdd(x, Word(~y.neg, y.mag))

WordMul(x, y) == Word(x.neg # y.neg, MagMul(x.mag, y.mag))

\* Int.Div for y # 0 is Euclidean: the remainder is never negative.
WordDiv(x, y) ==
    LET qr == MagDivMod(x.mag, y.mag)
        q  == IF x.neg /\ qr.r # << >> THEN MagAdd(qr.q, << 1 >>) ELSE qr.q
    IN  Word(x.neg # y.neg, q)

\* int(x.Uint64()): the low 64 bits of |x| read as a Go int.  The model
\* keeps values below 2^16 exact and sorts the others by what the code
\* does with them: "mid" below 2^32 (any memory expansion to it runs out
\* of gas), "neg" with bit 63 set, "huge" for the rest.
GoInt(x) ==
    LET l == Strip(SubSeq(x.mag, IF Len(x.mag) > 8 THEN Len(x.mag) - 7 ELSE 1,
                          Len(x.mag)))
    IN  CASE Len(l) <= 2                 -> [cls |-> "int", v |-> NatOf(l)]
          [] Len(l) = 8 /\ l[1] >= 128   -> [cls |-> "neg", v |-> 0]
          [] Len(l) <= 4                 -> [cls |-> "mid", v |-> 0]
          [] OTHER                       -> [cls |-> "huge", v |-> 0]

\* byte(x.Uint64()).
LowByte(x) == Low(x.mag)
-----------------------------------------------------------------------------
(***************************************************************************)
(* The machine: one EVM value.  Stack.data[0 .. used-1] is the sequence    *)
(* stack (top last), Memory.data is mem (its capacity is Len(mem)),        *)
(* Storage.data is store, keyed by key.Bytes().  err is EVM.Err, with      *)
(* "panic" for a Go runtime panic escaping Run.                            *)
(***************************************************************************)
VARIABLE vm

Errors == {"none", "outOfGas", "stackUnderflow", "stackOverflow",
           "insufficientCode", "unknownOpcode", "panic", "beyondBound"}

Fail(m, e) == [m EXCEPT !.err = e]

\* gas.CalculateBaseGas for the registered opcodes.
BaseGas(op) ==
    CASE op \in {0, 243}          -> 0          \* STOP, RETURN
      [] op \in {2, 4}            -> 5          \* MUL, DIV
      [] op \in {80, 88, 89, 90}  -> 2          \* POP, PC, MSIZE, GAS
      [] op = 84                  -> 800        \* SLOAD
      [] op = 85                  -> 20000      \* SSTORE
      [] OTHER                    -> 3          \* ADD, SUB, MLOAD, MSTORE(8), PUSH, DUP, SWAP

\* The opcodes init registers: STOP..DIV, POP..SSTORE, PC, MSIZE, GAS,
\* RETURN, PUSH1..32, DUP1..16, SWAP1..16.
Registered(op) == op \in (0 .. 4) \cup (80 .. 85) \cup (88 .. 90) \cup {243} \cup (96 .. 159)

\* GasMeter.GetGasLeft: GasLimit - GasUsed, never negative since ConsumeGas
\* refuses to pass the limit.
GetGasLeft(m) == GasLimit - m.gasUsed

\* GasMeter.ConsumeGas.
Charge(m, c) ==
    IF m.gasUsed + c > GasLimit THEN Fail(m, "outOfGas")
    ELSE [m EXCEPT !.gasUsed = @ + c]

(***************************************************************************)
(* The rest of the gas package and the schedule helpers of params.  No     *)
(* code calls them: Run charges BaseGas and MemGasCost only.  A meter is a *)
(* record [GasLimit, GasUsed, GasRefund].                                  *)
(***************************************************************************)
NewGasMeter(limit) == [GasLimit |-> limit, GasUsed |-> 0, GasRefund |-> 0]
RefundGas(g, amount) == [g EXCEPT !.GasRefund = @ + amount]
SetGasLimit(g, limit) == [g EXCEPT !.GasLimit = limit]
Reset(g) == [g EXCEPT !.GasUsed = 0, !.GasRefund = 0]

\* ApplyRefund caps the refund at half the gas used and credits nothing.
ApplyRefund(g) ==
    IF g.GasRefund > g.GasUsed \div 2 THEN [g EXCEPT !.GasRefund = g.GasUsed \div 2] ELSE g

IsZeroValue(value) == \A i \in DOMAIN value : value[i] = 0

\* CalculateSstoreGas: only a non-zero current value is charged the reset
\* price; zero to zero pays the set price.
CalculateSstoreGas(current, new) ==
    IF IsZeroValue(current) THEN 20000 ELSE 5000

\* CalculateCallGasWithValue and CalculateCallGas: the forwarded gas limit
\* is added to the call's own price.
CalculateCallGasWithValue(gasLimit, value, isNewAccount) ==
    700 + (IF value > 0 THEN 9000 ELSE 0) + (IF isNewAccount THEN 25000 ELSE 0)
        + (IF gasLimit > 0 THEN gasLimit ELSE 0)
CalculateCallGas(gasLimit) == CalculateCallGasWithValue(gasLimit, 0, FALSE)
CalculateCreateGas == 32000
CalculateLogGas(topics, dataSize) == 375 + topics * 375 + dataSize * 8
CalculateSha3Gas(dataSize) == 30 + ((dataSize + 31) \div 32) * 6

\* big.Int.BitLen of a non-negative exponent; CalculateExpGas charges
\* BitLen/8 bytes, rounded down.
RECURSIVE BitLen(_)
BitLen(x) == IF x = 0 THEN 0 ELSE 1 + BitLen(x \div 2)
CalculateExpGas(exponent) == 10 + (BitLen(exponent) \div 8) * 10

\* gas.CalculateMemoryGas: 3 * words^2 / 512 in int.
CalculateMemoryGas(size) ==
    IF size <= 0 THEN 0 ELSE (3 * ((size + 31) \div 32)^2) \div 512

\* params: the same helpers with the constants of the schedule.
\* CalculateDataGas charges 4 per zero byte and 16 per other byte, with or
\* without EIP-2028 (TxDataNonZeroGasEIP2028 = TxDataNonZeroGas = 16).
ParamsCalculateDataGas(data, isEIP2028) ==
    4 * Cardinality({i \in DOMAIN data : data[i] = 0})
    + 16 * Cardinality({i \in DOMAIN data : data[i] # 0})
ParamsCalculateMemoryGas(size) ==
    IF size = 0 THEN 0
    ELSE LET w == (size + 31) \div 32 IN 3 * w + (w * w) \div 512
ParamsCalculateLogGas(topics, dataSize) == CalculateLogGas(topics, dataSize)
ParamsCalculateSha3Gas(dataSize) == CalculateSha3Gas(dataSize)

\* Stack.Push, and dropping n popped words.
PushWord(m, w) ==
    IF Len(m.stack) >= StackLimit THEN Fail(m, "stackOverflow")
    ELSE [m EXCEPT !.stack = Append(@, w)]
Top(m, i) == m.stack[Len(m.stack) - i]
Drop(m, n) == [m EXCEPT !.stack = SubSeq(@, 1, Len(@) - n)]

\* Popping k words from a stack of fewer: Stack.Pop returns
\* ErrStackUnderflow after the words that were there have been popped.
Underflow(m, k) == Len(m.stack) < k
PopFail(m)      == Fail(Drop(m, Len(m.stack)), "stackUnderflow")

Zeros(n) == [i \in 1 .. n |-> 0]

\* Memory.CalculateGasCost: only the quadratic term, only above capacity.
MemGasCost(cap, size) ==
    IF size <= cap THEN 0
    ELSE LET n == (size + 31) \div 32
             o == cap \div 32
         IN  (3 * n * n) \div 512 - (IF o > 0 THEN (3 * o * o) \div 512 ELSE 0)

\* Memory.Resize: at least size, twice the capacity, and 32 bytes.
Resize(mem, size) ==
    IF size <= Len(mem) THEN mem
    ELSE LET c == Len(mem)
             n == IF size >= 2 * c /\ size >= 32 THEN size
                  ELSE IF 2 * c >= 32 THEN 2 * c ELSE 32
         IN  mem \o Zeros(n - c)

\* Memory.Set: copy data to [o, o + Len(data)), growing first if needed.
MemSet(mem, o, data) ==
    LET m1 == Resize(mem, o + Len(data))
    IN  [i \in DOMAIN m1 |-> IF i > o /\ i <= o + Len(data) THEN data[i - o] ELSE m1[i]]

\* Memory.SetByte.
MemSetByte(mem, o, b) ==
    LET m1 == IF o >= Len(mem) THEN Resize(mem, o + 1) ELSE mem
    IN  [m1 EXCEPT ![o + 1] = b]

\* Memory.Get for o, s >= 0: past the end it zero-fills.
MemGet(mem, o, s) == [i \in 1 .. s |-> IF o + i <= Len(mem) THEN mem[o + i] ELSE 0]

\* Storage.Set pads or truncates the value to 32 bytes, keeping its first
\* bytes; Storage.Get answers 32 zero bytes for a missing key.
Pad32(bs) == [i \in 1 .. 32 |-> IF i <= Len(bs) THEN bs[i] ELSE 0]
StoreGet(st, k) == IF k \in DOMAIN st THEN st[k] ELSE Zeros(32)
StoreSet(st, k, v) == [x \in DOMAIN st \cup {k} |-> IF x = k THEN Pad32(v) ELSE st[x]]
-----------------------------------------------------------------------------
(***************************************************************************)
(* The instructions' Execute methods, each after its ConsumeGas of         *)
(* BaseGas has succeeded.                                                  *)
(***************************************************************************)
\* ADD, MUL, SUB, DIV (one Execute each, alike but for the operation):
\* pop a, pop b, push the result; SUB is b - a, DIV b / a (0 for a = 0).
Arith(m, op) ==
    IF Underflow(m, 2) THEN PopFail(m)
    ELSE LET a == Top(m, 0)
             b == Top(m, 1)
             r == CASE op = 1 -> WordAdd(a, b)
                    [] op = 2 -> WordMul(a, b)
                    [] op = 3 -> WordSub(b, a)
                    [] op = 4 -> IF a.mag = << >> THEN Zero ELSE WordDiv(b, a)
         IN  PushWord(Drop(m, 2), r)

\* Charge the memory expansion to size (a Go int of class sz).  Sizes of
\* class "mid" cost at least 24576 (see the ASSUME); a "neg" offset plus
\* a few bytes is at most a few words, and CalculateGasCost charges
\* nothing below 14 words.
MemCharge(m, sz) ==
    CASE sz.cls = "int" -> Charge(m, MemGasCost(Len(m.mem), sz.v))
      [] sz.cls = "mid" -> Fail(m, "outOfGas")
      [] OTHER          -> m

\* MLOAD: Memory.Get(off, 32) read with SetBytes.  A negative offset
\* slices m.data[off:...] and panics.
MLoad(m) ==
    IF Underflow(m, 1) THEN PopFail(m)
    ELSE LET off == GoInt(Top(m, 0))
             m1  == Drop(m, 1)
             c   == MemCharge(m1, [off EXCEPT !.v = @ + 32])
         IN  CASE off.cls = "huge" -> Fail(m1, "beyondBound")
               [] c.err # "none"   -> c
               [] off.cls = "neg"  -> Fail(c, "panic")
               [] OTHER            -> PushWord(c, SetBytes(MemGet(c.mem, off.v, 32)))

\* MSTORE: Memory.Set(off, value.Bytes()), the value's minimal bytes.
MStore(m) ==
    IF Underflow(m, 2) THEN PopFail(m)
    ELSE LET off  == GoInt(Top(m, 0))
             data == Top(m, 1).mag
             m1   == Drop(m, 2)
             c    == MemCharge(m1, [off EXCEPT !.v = @ + Len(data)])
         IN  CASE off.cls = "huge" -> Fail(m1, "beyondBound")
               [] c.err # "none"   -> c
               [] off.cls = "neg"  -> Fail(c, "panic")
               [] OTHER            -> [c EXCEPT !.mem = MemSet(@, off.v, data)]

\* MSTORE8: Memory.SetByte(off, byte(value.Uint64())).
MStore8(m) ==
    IF Underflow(m, 2) THEN PopFail(m)
    ELSE LET off == GoInt(Top(m, 0))
             m1  == Drop(m, 2)
             c   == MemCharge(m1, [off EXCEPT !.v = @ + 1])
         IN  CASE off.cls = "huge" -> Fail(m1, "beyondBound")
               [] c.err # "none"   -> c
               [] off.cls = "neg"  -> Fail(c, "panic")
               [] OTHER            -> [c EXCEPT !.mem = MemSetByte(@, off.v, LowByte(Top(m, 1)))]

\* RETURN: no memory gas; Memory.Get(off, size) becomes the return data
\* and Run stops.  A negative offset or size panics in the slice or in
\* make; an offset past the memory yields size zero bytes.
Return(m) ==
    IF Underflow(m, 2) THEN PopFail(m)
    ELSE LET off == GoInt(Top(m, 0))
             sz  == GoInt(Top(m, 1))
             m1  == Drop(m, 2)
         IN  CASE off.cls = "neg" \/ sz.cls = "neg"     -> Fail(m1, "panic")
               [] off.cls = "huge" \/ sz.cls # "int"    -> Fail(m1, "beyondBound")
               [] off.cls = "mid"  -> [m1 EXCEPT !.ret = Zeros(sz.v), !.running = FALSE]
               [] OTHER            -> [m1 EXCEPT !.ret = MemGet(m1.mem, off.v, sz.v),
                                                 !.running = FALSE]

\* SLOAD and SSTORE on Storage, keyed by key.Bytes().
SLoad(m) ==
    IF Underflow(m, 1) THEN PopFail(m)
    ELSE PushWord(Drop(m, 1), SetBytes(StoreGet(m.store, Top(m, 0).mag)))

SStore(m) ==
    IF Underflow(m, 2) THEN PopFail(m)
    ELSE [Drop(m, 2) EXCEPT !.store = StoreSet(@, Top(m, 0).mag, Top(m, 1).mag)]

\* DUPi: PeekN(i - 1) then Push.  SWAPi: Swap(i), top with stack[used-i-1].
Dup(m, i) ==
    IF Underflow(m, i) THEN Fail(m, "stackUnderflow") ELSE PushWord(m, Top(m, i - 1))

SwapN(m, i) ==
    IF Underflow(m, i + 1) THEN Fail(m, "stackUnderflow")
    ELSE LET t == Len(m.stack) IN
         [m EXCEPT !.stack = [@ EXCEPT ![t] = m.stack[t - i], ![t - i] = m.stack[t]]]

\* PUSHn: the n bytes after the opcode, or an error when the code ends first.
PushN(m, data, truncated) ==
    IF truncated THEN Fail(m, "insufficientCode") ELSE PushWord(m, SetBytes(data))

\* STOP, POP, PC, MSIZE and GAS.
StopOp(m)  == [m EXCEPT !.running = FALSE]
PopOp(m)   == IF Underflow(m, 1) THEN PopFail(m) ELSE Drop(m, 1)
PcOp(m)    == PushWord(m, IntWord(m.pc))
MSizeOp(m) == PushWord(m, IntWord(Len(m.mem)))
GasOp(m)   == PushWord(m, IntWord(GetGasLeft(m)))

\* executeOpcode's dispatch: GetInstruction, ConsumeGas, Execute.
Execute(m, op, data, truncated) ==
    LET c == Charge(m, BaseGas(op)) IN
    CASE ~Registered(op)       -> Fail(m, "unknownOpcode")
      [] c.err # "none"        -> c
      [] op = 0                -> StopOp(c)
      [] op \in 1 .. 4         -> Arith(c, op)
      [] op = 80               -> PopOp(c)
      [] op = 81               -> MLoad(c)
      [] op = 82               -> MStore(c)
      [] op = 83               -> MStore8(c)
      [] op = 84               -> SLoad(c)
      [] op = 85               -> SStore(c)
      [] op = 88               -> PcOp(c)
      [] op = 89               -> MSizeOp(c)
      [] op = 90               -> GasOp(c)
      [] op = 243              -> Return(c)
      [] op \in 96 .. 127      -> PushN(c, data, truncated)
      [] op \in 128 .. 143     -> Dup(c, op - 127)
      [] op \in 144 .. 159     -> SwapN(c, op - 143)

-----------------------------------------------------------------------------
\* NewEVM: empty stack, memory and storage, a fresh gas meter, Running.
Init ==
    vm = [stack |-> << >>, mem |-> << >>, store |-> [k \in {} |-> << >>],
          gasUsed |-> 0, pc |-> 0, running |-> TRUE, err |-> "none", ret |-> << >>]

\* One iteration of Run's loop that finds pc >= len(code): Stop.
CodeEnds ==
    /\ vm.running
    /\ vm' = [vm EXCEPT !.running = FALSE]

\* One iteration of Run's loop on the instruction at pc, whose bytes take
\* the code to length vm.pc + size: executeOpcode advances pc by 1, or by
\* 1 + n for PUSHn (also on error), and an error is stored in Err and
\* stops the loop.  A panic leaves Run at once.
Step(op, data, truncated, size) ==
    /\ vm.running
    /\ vm.pc + size <= MaxCode
    /\ LET m == Execute(vm, op, data, truncated) IN
       /\ m.err # "beyondBound"
       /\ vm' = IF m.err = "panic" THEN [m EXCEPT !.running = FALSE]
                ELSE [m EXCEPT !.pc = vm.pc + 1 + Len(data),
                               !.running = m.running /\ m.err = "none"]

Next ==
    \/ CodeEnds
    \/ \E op \in PlainOps : Step(op, << >>, FALSE, 1)
    \/ \E d \in PushData : Step(95 + Len(d), d, FALSE, 1 + Len(d))
    \/ \E d \in PushData : \E k \in 0 .. Len(d) - 1 : Step(95 + Len(d), d, TRUE, 1 + k)

Spec == Init /\ [][Next]_vm

-----------------------------------------------------------------------------
Bytes == 0 .. 255

TypeOK ==
    /\ vm.stack \in Seq([neg : BOOLEAN, mag : Seq(Bytes)])
    /\ Len(vm.stack) <= StackLimit
    /\ vm.mem \in Seq(Bytes)
    /\ \A k \in DOMAIN vm.store : vm.store[k] \in [1 .. 32 -> Bytes]
    /\ vm.gasUsed \in 0 .. GasLimit
    /\ vm.pc \in 0 .. MaxCode + 32
    /\ vm.running \in BOOLEAN /\ vm.err \in Errors \ {"beyondBound"}
    /\ vm.err # "none" => ~vm.running
    /\ vm.ret \in Seq(Bytes)

\* Spec 4.3, failure semantics: a frame ends stopped, reverted or with a
\* named error.  Every program Run executes ends with Run returning; no
\* instruction lets a Go runtime panic (a negative offset from
\* int(offset.Uint64()) in MLOAD, MSTORE, MSTORE8 or RETURN) escape.
NoRuntimePanic == vm.err # "panic"
=============================================================================
