--------------------------- MODULE InstructionCodec ---------------------------
(***************************************************************************)
(* Finding a word in the tables, disassembling, assembling and relocating   *)
(* it (machine/instruction.cpp).  A word is the set of its bits.  Addresses *)
(* and the operands of branches and jumps are counted in words of 4 bytes,  *)
(* with the remainder in "low", so that they fit TLC's integers.  A text is *)
(* a name and, for each operand, the tokens it is made of.                  *)
(***************************************************************************)
EXTENDS InstructionTable, FiniteSets, SequencesExt

Bits(lsb, n)      == lsb .. (lsb + n - 1)
FieldBits(d)      == Bits(d.lsb, d.bits)
Field(w, lsb, n)  == LET bit(i) == IF lsb + i \in w THEN 2^i ELSE 0
                     IN  FoldLeftDomain(LAMBDA acc, i : acc + bit(i - 1), 0, [i \in 1 .. n |-> i])
PutField(v, lsb, n) == {lsb + i : i \in {j \in 0 .. n - 1 : (v \div 2^j) % 2 = 1}}

\* fault: the field of a sub-table is taken one bit too high
MapFindHigh(w) ==
    LET at(e) == LET i == Field(w, e.shift + 1, e.bits)
                 IN  IF i \in DOMAIN e.table THEN e.table[i] ELSE IM_UNKNOWN
        e1    == at(Sub(instruction_map, 6, 26))
        e2    == IF e1.sub THEN at(e1) ELSE e1
    IN  IF e2.sub THEN at(e2) ELSE e2

\* the walk down the tables; none is nested deeper than three
InstructionMapFind(w) ==
    LET at(e) == LET i == Field(w, e.shift, e.bits)
                 IN  IF i \in DOMAIN e.table THEN e.table[i] ELSE IM_UNKNOWN
        e1    == at(Sub(instruction_map, 6, 26))
        e2    == IF e1.sub THEN at(e1) ELSE e1
    IN  IF e2.sub THEN at(e2) ELSE e2

\* flags_alu_op_mem_ctl: a word outside the mask of its entry is unsupported
flags(w) ==
    LET im == InstructionMapFind(w)
    IN  IF SymDiff(w, im.code) \cap im.mask = {} THEN im.flags ELSE im.flags \ {"SUPPORTED"}

\* the entries the assembler knows: supported, and with the code of their place
RECURSIVE BuildBase(_, _, _, _)
BuildBase(table, bits, shift, base) ==
    UNION {LET im   == table[i]
               code == base \cup PutField(i, shift, bits)
           IN  IF im.sub THEN BuildBase(im.table, im.bits, im.shift, code)
               ELSE IF "SUPPORTED" \in im.flags /\ im.code = code THEN {im} ELSE {}
           : i \in DOMAIN table}

str_to_instruction_code_map == BuildBase(instruction_map, 6, 26, {})

-----------------------------------------------------------------------------
(* Texts.  A number is v, or v + 2^32 when it is marked as high: in 32 bits   *)
(* the two are the same, in the 64 bits of an expression they are not.       *)

Token(kind, v, low) == [kind |-> kind, v |-> v, low |-> low, high |-> FALSE]
High(token)         == [token EXCEPT !.high = TRUE]

Chars(arg) == CASE arg = "o(b)" -> <<"o", "(", "b", ")">>
                [] arg \in {"+A", "+B", "+C"} -> <<"+", "letter">>
                [] OTHER -> <<arg>>
Known(c) == c \in DOMAIN argdeslist

WordsInSpace == 2^30
WordsInRegion == 2^26
RegionOf(a) == (a \div WordsInRegion) * WordsInRegion

\* what to_str prints for the letter c of a template
ToStrToken(w, addr, c) ==
    LET d   == argdeslist[c]
        raw == Field(w, d.lsb, d.bits)
        v   == IF d.min < 0 /\ raw >= 2^(d.bits - 1) THEN raw - 2^d.bits ELSE raw
    IN  IF ~Known(c) THEN Token("char", c, 0)
        ELSE CASE d.kind = "g" -> Token("reg", v, 0)
               [] d.kind = "p" -> Token("num", (v + addr + 1) % WordsInSpace, 0)
               [] d.kind = "a" -> Token("num", RegionOf(addr) + raw, 0)
               [] OTHER        -> Token("num", v, 0)

to_str(w, addr) ==
    LET im == InstructionMapFind(w)
    IN  IF w = {} THEN [name |-> "NOP", operands |-> <<>>]
        ELSE [name |-> im.name,
              operands |-> [i \in DOMAIN im.args |->
                               LET cs == Chars(im.args[i])
                               IN  [j \in DOMAIN cs |-> ToStrToken(w, addr, cs[j])]]]

-----------------------------------------------------------------------------
(* code_from_string.  A symbol, and with relocations a negative number, is   *)
(* left to update(); options are silent, which drops the checks, and a shift.*)

\* fault: the address after the branch is not taken into account
BaseOfBranch(d, addr) ==
    CASE d.kind = "p" -> addr [] d.kind = "a" -> RegionOf(addr + 1) [] OTHER -> 0

\* what is subtracted from the operand
BaseOf(d, addr) ==
    CASE d.kind = "p" -> addr + 1 [] d.kind = "a" -> RegionOf(addr + 1) [] OTHER -> 0

\* a token, of which v is what goes into the field; 2^32 is beyond every range
Fitting(token, v, d)         == token.low = 0 /\ d.min <= v /\ v <= d.max
InRange(token, v, d, silent) == silent \/ (Fitting(token, v, d) /\ ~token.high)

\* the relocations of a line that fails stay in the list
Fail(res) == [res EXCEPT !.ok = FALSE]

\* one token for one letter, added to what was assembled before
ParseToken(res, token, c, addr, relocs, silent, shift_right) ==
    LET d    == argdeslist[c]
        reg  == Known(c) /\ d.kind = "g"
        v    == IF reg THEN token.v ELSE (token.v - BaseOf(d, addr)) \div 2^shift_right
        late == \/ token.kind = "sym"
                \/ relocs /\ token.kind = "num" /\ token.v < 0 /\ ~token.high
    IN  CASE ~res.ok -> res
          [] res.ok /\ ~Known(c) -> IF token = Token("char", c, 0) THEN res ELSE Fail(res)
          [] res.ok /\ reg -> IF token.kind # "reg" \/ v > 31 THEN Fail(res)
                              ELSE [res EXCEPT !.code = @ \cup PutField(v, d.lsb, d.bits)]
          [] res.ok /\ Known(c) /\ ~reg /\ late ->
                IF ~relocs THEN Fail(res)
                ELSE [res EXCEPT !.reloc = Append(@,
                         [d |-> d, value |-> token, offset |-> -BaseOf(d, addr),
                          silent |-> silent, shift |-> shift_right])]
          [] OTHER ->
                IF token.kind # "num" \/ ~InRange(token, v, d, silent) THEN Fail(res)
                ELSE [res EXCEPT !.code = @ \cup PutField(v % 2^d.bits, d.lsb, d.bits)]

ParseOperand(res, operand, arg, addr, relocs, silent, shift_right) ==
    LET cs == Chars(arg)
    IN  IF Len(operand) # Len(cs) THEN Fail(res)
        ELSE FoldLeftDomain(LAMBDA r, j : ParseToken(r, operand[j], cs[j], addr, relocs,
                                                     silent, shift_right), res, operand)

FromTable(text, addr, relocs, silent, shift_right) ==
    LET ims  == {im \in str_to_instruction_code_map : im.name = text.name}
        im   == CHOOSE i \in ims : TRUE
        args == IF ims = {} THEN <<>> ELSE im.args
        both == {i \in DOMAIN args : i \in DOMAIN text.operands}
    IN  IF ims = {} THEN [ok |-> FALSE, code |-> {}, reloc |-> <<>>]
        ELSE FoldLeftDomain(
                 LAMBDA r, i : ParseOperand(r, text.operands[i], args[i], addr, relocs,
                                            silent, shift_right),
                 [ok |-> Len(args) = Len(text.operands), code |-> im.code, reloc |-> <<>>],
                 [i \in both |-> i])

\* fault: the lower half is not split off
LiHalves(text, addr, relocs) ==
    <<FromTable([text EXCEPT !.name = "LUI"], addr, relocs, TRUE, 16),
      FromTable([name |-> "ORI", operands |-> <<text.operands[1]>> \o text.operands],
                addr + 1, relocs, TRUE, 16)>>

\* the pseudo instructions LA and LI: LUI and ORI of one operand
LaLi(text, addr, relocs) ==
    <<FromTable([text EXCEPT !.name = "LUI"], addr, relocs, TRUE, 16),
      FromTable([name |-> "ORI", operands |-> <<text.operands[1]>> \o text.operands],
                addr + 1, relocs, TRUE, 0)>>

\* the instructions a text assembles to
code_from_string(text, addr, relocs) ==
    LET one == FromTable(text, addr, relocs, FALSE, 0)
    IN  IF one.ok THEN <<one>>
        ELSE IF text = [name |-> "NOP", operands |-> <<>>]
             THEN <<[ok |-> TRUE, code |-> {}, reloc |-> <<>>]>>
        ELSE IF text.name \in {"LA", "LI"} /\ Len(text.operands) = 2
             THEN LaLi(text, addr, relocs)
        ELSE <<one>>

\* update() takes 2^32 from a value that a signed field has no room for
InRangeLate(token, v, d, silent) ==
    InRange(token, v, d, silent) \/ (d.min < 0 /\ Fitting(token, v, d))

PutLate(w, r, v) ==
    LET rest == w \ FieldBits(r.d)
    IN  IF ~InRangeLate(r.value, v, r.d, r.silent) THEN [ok |-> FALSE, code |-> rest]
        ELSE [ok |-> TRUE, code |-> rest \cup PutField(v % 2^r.d.bits, r.d.lsb, r.d.bits)]

\* fault: the half of the value that was asked for is not taken
UpdateUnshifted(w, r) == PutLate(w, r, r.value.v + r.offset)

\* update: put the value of an expression into the instruction.  A value that
\* is refused leaves the field cleared
update(w, r) == PutLate(w, r, (r.value.v + r.offset) \div 2^r.shift)

\* an instruction with all its relocations made, as finish() does
Relocated(i) ==
    FoldLeft(LAMBDA acc, r : LET u == update(acc.code, r)
                             IN  [ok |-> acc.ok /\ u.ok, code |-> u.code],
             [ok |-> i.ok, code |-> i.code], i.reloc)
=============================================================================
