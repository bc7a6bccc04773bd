--------------------------------- MODULE Alu ---------------------------------
(***************************************************************************)
(* The arithmetic unit (machine/alu.cpp): alu_operate for words of W bits,  *)
(* 32 in the code.  A byte is a quarter of a word and a half word is a      *)
(* half.  A register, HI and LO too, is twice as wide as a word and holds a *)
(* word as it is or, after a shift, an extension or a load that is signed,  *)
(* with its sign extended.  "undefined" marks operands for which C++ leaves *)
(* the result open.                                                         *)
(***************************************************************************)
EXTENDS Integers, FiniteSets, FiniteSetsExt, TLC

CONSTANT W

ASSUME AluAssumption == W \in Nat /\ W % 4 = 0 /\ W > 0

\* the powers of two up to the double words
Pow2[k \in 0 .. 2 * W] == IF k = 0 THEN 1 ELSE 2 * Pow2[k - 1]

Words     == 0 .. (Pow2[W] - 1)
u32(n)    == n % Pow2[W]
as_int(n, w) == LET m == n % Pow2[w] IN IF m < Pow2[w - 1] THEN m ELSE m - Pow2[w]
as_i32(n) == as_int(n, W)

\* the register a signed number makes
Reg(n) == n % Pow2[2 * W]
RegisterValues == Words \cup {Reg(n) : n \in -Pow2[W - 1] .. -1}

BitSet(n)  == {b \in 0 .. W - 1 : (n \div Pow2[b]) % 2 = 1}
Number(bs) ==
    LET Upto[k \in 0 .. W] ==
          IF k = 0 THEN 0 ELSE Upto[k - 1] + (IF k - 1 \in bs THEN Pow2[k - 1] ELSE 0)
    IN Upto[W]
Bitwise2(op(_, _), s, t) == Number(op(BitSet(s), BitSet(t)))
And(s, t) == Bitwise2(LAMBDA a, b : a \cap b, s, t)
Or(s, t)  == Bitwise2(LAMBDA a, b : a \cup b, s, t)
Xor(s, t) == Bitwise2(SymDiff, s, t)
Not(s)    == Pow2[W] - 1 - s

Shl(n, k) == u32(n * Pow2[k])
Shr(n, k) == n \div Pow2[k]

\* fault: the sign is not shifted in
SarLogical(n, k) == n \div Pow2[k]

Sar(n, k) == Reg(as_i32(n) \div Pow2[k])

Rotr(n, k) == IF k = 0 THEN n ELSE Or(Shr(n, k), Shl(n, W - k))

\* C++ division, which rounds towards zero
Magnitude(n)   == IF n < 0 THEN -n ELSE n
TruncDiv(s, t) == LET q == Magnitude(s) \div Magnitude(t) IN IF (s < 0) = (t < 0) THEN q ELSE -q
TruncMod(s, t) == s - t * TruncDiv(s, t)

Clz(n) == IF n = 0 THEN W ELSE W - 1 - Max(BitSet(n))

\* the signs are equal (differ) and the sign of the result is another
Sign(n) == Shr(n, W - 1) = 1
AddOverflows(s, t) == Sign(s) = Sign(t) /\ Sign(u32(s + t)) # Sign(s)
SubOverflows(s, t) == Sign(s) # Sign(t) /\ Sign(u32(s - t)) # Sign(s)

-----------------------------------------------------------------------------
(* The result: a value, the registers HI and LO, whether the result is      *)
(* discarded, the exception.                                                *)

Result(val, hi, lo) ==
    [val |-> val, hi |-> hi, lo |-> lo, discard |-> FALSE, excause |-> "NONE", undefined |-> FALSE]
HiLo(n) == Result(0, (n \div Pow2[W]) % Pow2[W], n % Pow2[W])
Undefined(res) == [res EXCEPT !.undefined = TRUE]

\* HI and LO as one number: LO is not cut to a word, so that the upper half of a
\* register with its sign extended falls on HI
ReadHiLo(hi, lo) == Or(u32(hi), lo \div Pow2[W]) * Pow2[W] + u32(lo)

ValueOps ==
    {"NOP", "SLL", "SRL", "ROTR", "SRA", "SLLV", "SRLV", "ROTRV", "SRAV", "ADD", "ADDU", "SUB",
     "SUBU", "AND", "OR", "XOR", "NOR", "SLT", "SLTU", "MUL", "LUI", "WSBH", "SEB", "SEH", "CLZ",
     "CLO"}

\* the operations that compute a value of two words; a product of MUL that overflows
\* keeps its low word in every build
ValueOf(op, s, t, sa) ==
    CASE op = "NOP"   -> 0
      [] op = "SLL"   -> Shl(t, sa)
      [] op = "SRL"   -> Shr(t, sa)
      [] op = "ROTR"  -> Rotr(t, sa)
      [] op = "SRA"   -> Sar(t, sa)
      [] op = "SLLV"  -> Shl(t, s % W)
      [] op = "SRLV"  -> Shr(t, s % W)
      [] op = "ROTRV" -> Rotr(t, s % W)
      [] op = "SRAV"  -> Sar(t, s % W)
      [] op \in {"ADD", "ADDU"} -> u32(s + t)
      [] op \in {"SUB", "SUBU"} -> u32(s - t)
      [] op = "AND"   -> And(s, t)
      [] op = "OR"    -> Or(s, t)
      [] op = "XOR"   -> Xor(s, t)
      [] op = "NOR"   -> Not(Or(s, t))
      [] op = "SLT"   -> IF as_i32(s) < as_i32(t) THEN 1 ELSE 0
      [] op = "SLTU"  -> IF s < t THEN 1 ELSE 0
      [] op = "MUL"   -> u32(as_i32(s) * as_i32(t))
      [] op = "LUI"   -> Shl(t, W \div 2)
      [] op = "WSBH"  -> LET b == Pow2[W \div 4]
                             lowbytes == Number({x \in 0 .. W - 1 : (x \div (W \div 4)) % 2 = 0})
                         IN  Or(And(u32(t * b), Not(lowbytes)), And(t \div b, lowbytes))
      [] op = "SEB"   -> Reg(as_int(t, W \div 4))
      [] op = "SEH"   -> Reg(as_int(t, W \div 2))
      [] op = "CLZ"   -> Clz(s)
      [] op = "CLO"   -> Clz(Not(s))

\* the operations that pass a register on as it is; MOVZ and MOVN test a word
PassOps == {"PASS_T", "MFHI", "MFLO", "MTHI", "MTLO", "MOVZ", "MOVN"}

Passed(op, s, t, hi, lo) ==
    LET discard == (u32(t) = 0) # (op = "MOVZ")
    IN  CASE op = "PASS_T" -> Result(t, hi, lo)
          [] op = "MFHI"   -> Result(hi, hi, lo)
          [] op = "MFLO"   -> Result(lo, hi, lo)
          [] op = "MTHI"   -> Result(0, s, lo)
          [] op = "MTLO"   -> Result(0, hi, s)
          [] op \in {"MOVZ", "MOVN"} ->
                [Result(IF discard THEN 0 ELSE s, hi, lo) EXCEPT !.discard = discard]

\* the operations that compute HI and LO; the most negative word divided by -1 and
\* the signed accumulation beyond 64 bits are undefined
HiLoOps == {"MULT", "MULTU", "DIV", "DIVU", "MADD", "MADDU", "MSUB", "MSUBU"}

HiLoOf(op, s, t, hi, lo) ==
    LET acc     == ReadHiLo(hi, lo)
        product == as_i32(s) * as_i32(t)
        sacc    == as_int(acc, 2 * W)
        signed(n) == IF n = as_int(n, 2 * W) THEN HiLo(n) ELSE Undefined(HiLo(n))
    IN  CASE op = "MULT"  -> HiLo(product)
          [] op = "MULTU" -> HiLo(s * t)
          [] op \in {"DIV", "DIVU"} /\ t = 0 -> Result(0, 0, 0)
          [] op = "DIV" /\ t # 0 ->
                LET res == Result(0, u32(TruncMod(as_i32(s), as_i32(t))),
                                     u32(TruncDiv(as_i32(s), as_i32(t))))
                IN  IF s = Pow2[W - 1] /\ as_i32(t) = -1 THEN Undefined(res) ELSE res
          [] op = "DIVU" /\ t # 0 -> Result(0, s % t, s \div t)
          [] op = "MADD"  -> signed(sacc + product)
          [] op = "MADDU" -> HiLo(acc + s * t)
          [] op = "MSUB"  -> signed(sacc - product)
          [] op = "MSUBU" -> HiLo(acc - s * t)

TrapOps == {"TGE", "TGEU", "TLT", "TLTU", "TEQ", "TNE"}

Traps(op, s, t) ==
    CASE op = "TGE"  -> as_i32(s) >= as_i32(t)
      [] op = "TGEU" -> s >= t
      [] op = "TLT"  -> as_i32(s) < as_i32(t)
      [] op = "TLTU" -> s < t
      [] op = "TEQ"  -> s = t
      [] op = "TNE"  -> s # t

\* the mask of sz + 1 bits; 1 << W is undefined
ExtInsOf(op, s, t, sa, sz, hi, lo) ==
    LET mask == u32(Pow2[sz + 1]) - 1
        res  == IF op = "EXT" THEN Result(And(Shr(s, sa), mask), hi, lo)
                ELSE Result(Or(Shl(And(s, mask), sa), And(t, Not(Shl(mask, sa)))), hi, lo)
    IN  IF sz = W - 1 THEN Undefined([res EXCEPT !.val = 0]) ELSE res

AluOps == ValueOps \cup PassOps \cup HiLoOps \cup TrapOps \cup {"EXT", "INS"}

\* the operations on the words of the registers
OnWords(op, s, t, sa, sz, hi, lo) ==
    CASE op \in ValueOps ->
            [Result(ValueOf(op, s, t, sa), hi, lo) EXCEPT
                !.excause = IF \/ op = "ADD" /\ AddOverflows(s, t)
                               \/ op = "SUB" /\ SubOverflows(s, t)
                            THEN "OVERFLOW" ELSE "NONE"]
      [] op \in HiLoOps -> HiLoOf(op, s, t, hi, lo)
      [] op \in TrapOps -> [Result(0, hi, lo) EXCEPT
                               !.excause = IF Traps(op, s, t) THEN "TRAP" ELSE "NONE"]
      [] op \in {"EXT", "INS"} -> ExtInsOf(op, s, t, sa, sz, hi, lo)
      [] OTHER -> Result(0, hi, lo)

alu_operate(op, s, t, sa, sz, hi, lo) ==
    IF op \in PassOps THEN Passed(op, s, t, hi, lo)
    ELSE OnWords(op, u32(s), u32(t), sa, sz, hi, lo)

-----------------------------------------------------------------------------
(* One operation of the unit on HI, LO and its operands.                    *)

VARIABLE alu    \* the operation, its operands and its result

AluIdle == alu = [done |-> TRUE, op |-> "idle"]

\* shift amount, size, HI and LO matter to a few operations only
AluInit(operands, hilo) ==
    \E op \in AluOps, st \in operands, sa \in 0 .. W - 1, sz \in 0 .. W - 1, h \in hilo :
        /\ op \notin {"SLL", "SRL", "ROTR", "SRA", "EXT", "INS"} => sa = 0
        /\ op \notin {"EXT", "INS"} => sz = 0
        /\ op \in {"EXT", "INS"} => sa + sz < W
        /\ op \notin HiLoOps \cup {"MFHI", "MFLO"} => h = <<0, 0>>
        /\ alu = [done |-> FALSE, op |-> op, s |-> st[1], t |-> st[2], sa |-> sa, sz |-> sz,
                  hi |-> h[1], lo |-> h[2], res |-> Result(0, 0, 0)]

Operate ==
    /\ ~alu.done
    /\ alu' = [alu EXCEPT
                   !.done = TRUE,
                   !.res  = alu_operate(alu.op, alu.s, alu.t, alu.sa, alu.sz, alu.hi, alu.lo)]

\* one operation of any kind on given pairs of registers
AluSpec(operands, hilo) == AluInit(operands, hilo) /\ [][Operate]_alu

-----------------------------------------------------------------------------
(* What the operations should compute, said bit by bit and over the integers. *)

\* the bit of the result that each bit of a shift, a swap, an extension or a
\* bit field comes from
SourceBit(op, b, s, t, sa, sz) ==
    LET k == IF op \in {"SLLV", "SRLV", "ROTRV", "SRAV"} THEN s % W ELSE sa
        T == BitSet(t)   S == BitSet(s)   byte == W \div 4
    IN  CASE op \in {"SLL", "SLLV"}   -> b >= k /\ b - k \in T
          [] op \in {"SRL", "SRLV"}   -> b + k \in T
          [] op \in {"ROTR", "ROTRV"} -> (b + k) % W \in T
          [] op \in {"SRA", "SRAV"}   -> Min({b + k, W - 1}) \in T
          [] op = "LUI"  -> b >= W \div 2 /\ b - W \div 2 \in T
          [] op = "SEB"  -> Min({b, byte - 1}) \in T
          [] op = "SEH"  -> Min({b, 2 * byte - 1}) \in T
          [] op = "WSBH" -> (IF (b \div byte) % 2 = 0 THEN b + byte ELSE b - byte) \in T
          [] op = "EXT"  -> b <= sz /\ b + sa \in S
          [] op = "INS"  -> IF b \in sa .. sa + sz THEN b - sa \in S ELSE b \in T

Fits(n) == -(Pow2[W - 1]) <= n /\ n < Pow2[W - 1]

\* what an accumulation adds to: HI above LO, where HI counts as all ones when LO
\* holds a negative word with its sign extended (alu.cpp:79, 135)
Accumulated(hi, lo) ==
    (IF lo \in Words THEN u32(hi) ELSE Pow2[W] - 1) * Pow2[W] + u32(lo)

\* Every operation computes, from the words in its registers, what the instruction set
\* says: shifts, rotations, extensions, byte swaps and bit fields move the right bits; a
\* sum or a difference traps exactly when the signed result does not fit; a product and
\* a division put the right double word, quotient and remainder into HI and LO; and so
\* does an accumulation, but for the HI it sees when the sign of LO was extended.
AluMatchesReference ==
    alu.done /\ alu.op # "idle" =>
        LET a == alu   r == alu.res   su == u32(a.s)   tu == u32(a.t)
            s == as_i32(su)   t == as_i32(tu)
            acc == Accumulated(a.hi, a.lo)   out == r.hi * Pow2[W] + r.lo
            same(n) == out = n % Pow2[2 * W]
        IN  r.undefined \/
            CASE a.op \in {"SLL", "SLLV", "SRL", "SRLV", "ROTR", "ROTRV", "SRA", "SRAV", "LUI",
                          "SEB", "SEH", "WSBH", "EXT", "INS"} ->
                    BitSet(r.val) = {b \in 0 .. W - 1 : SourceBit(a.op, b, su, tu, a.sa, a.sz)}
              [] a.op \in {"ADD", "SUB"} ->
                    LET n == IF a.op = "ADD" THEN s + t ELSE s - t
                    IN  /\ (r.excause = "OVERFLOW") = ~Fits(n)
                        /\ Fits(n) => as_i32(r.val) = n
              [] a.op = "MULT"  -> same(s * t)
              [] a.op = "MULTU" -> same(su * tu)
              [] a.op = "MADD"  -> same(acc + s * t)
              [] a.op = "MADDU" -> same(acc + su * tu)
              [] a.op = "MSUB"  -> same(acc - s * t)
              [] a.op = "MSUBU" -> same(acc - su * tu)
              [] a.op = "DIV" /\ t # 0 ->
                    LET q == as_i32(r.lo)   m == as_i32(r.hi)
                    IN  s = q * t + m /\ Magnitude(m) < Magnitude(t) /\ m * s >= 0
              [] a.op = "DIVU" /\ t # 0 -> su = r.lo * tu + r.hi /\ r.hi < tu
              [] a.op \in {"CLZ", "CLO"} ->
                    LET bs == BitSet(IF a.op = "CLZ" THEN su ELSE Not(su))
                    IN  bs \subseteq 0 .. W - 1 - r.val /\ (r.val = W \/ W - 1 - r.val \in bs)
              [] OTHER -> TRUE
=============================================================================
