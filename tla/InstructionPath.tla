---------------------------- MODULE InstructionPath ----------------------------
(***************************************************************************)
(* An instruction on its way through the program: a word is disassembled to *)
(* a text, as the program view shows it, and a text is assembled, once with *)
(* its numbers and once with symbols whose values are put in later, as the  *)
(* assembler does for an operand it does not know yet.                      *)
(***************************************************************************)
EXTENDS InstructionCodec

CONSTANTS Addrs,      \* instruction addresses, in words
          Constants   \* operands of LI and LA

VARIABLES phase,      \* "word", "text", "assembled", "linked", "idle"
          entry,      \* the entry of the table the word is of
          addr, word, text,
          direct,     \* what the text, and the text it is taken for, assemble to
          linked      \* what the text assembles to when its numbers are symbols

codec == <<phase, entry, addr, word, text, direct, linked>>

Letters(im) == {c \in UNION {Range(Chars(a)) : a \in Range(im.args)} : Known(c)}

FieldSamples(d) ==
    CASE d.bits = 3 -> {0, 7} [] d.bits = 5 -> {1, 31} [] d.bits = 16 -> {0, 32767, 32768}
      [] d.bits = 26 -> {1, 2^26 - 1}

\* the words of an entry: its code and values in the fields of its arguments
WordsOf(im) ==
    LET ls == Letters(im)
        choices == {f \in [ls -> UNION {FieldSamples(argdeslist[c]) : c \in ls}] :
                        \A c \in ls : f[c] \in FieldSamples(argdeslist[c])}
    IN  {im.code \cup UNION {PutField(f[c], argdeslist[c].lsb, argdeslist[c].bits) : c \in ls} :
            f \in choices}

\* tokens for a letter: registers, numbers about the ends of the range, and with 2^32
\* added a number inside of it and, where 2^32 may be taken away, one outside
TokensFor(c, a) ==
    LET d == argdeslist[c]
    IN  IF ~Known(c) THEN {Token("char", c, 0)}
        ELSE IF d.kind = "g" THEN {Token("reg", r, 0) : r \in {9, 32}}
        ELSE {Token("num", v + BaseOf(d, a), low) :
                 v \in {d.min - 1, d.min, d.max, d.max + 1}, low \in IF d.shift > 0 THEN {0, 1} ELSE {0}}
             \cup {High(Token("num", v + BaseOf(d, a), 0)) :
                         v \in IF d.min < 0 THEN {d.min, d.max + 1} ELSE {d.min}}

TextsOf(im, a) ==
    LET cs(i) == Chars(im.args[i])
        ops(i) == {o \in [DOMAIN cs(i) -> UNION {TokensFor(c, a) : c \in Range(cs(i))}] :
                       \A j \in DOMAIN o : o[j] \in TokensFor(cs(i)[j], a)}
    IN  {[name |-> im.name, operands |-> os] :
            os \in {o \in [DOMAIN im.args -> UNION {ops(i) : i \in DOMAIN im.args}] :
                        \A i \in DOMAIN o : o[i] \in ops(i)}}

LoadTexts == {[name |-> n, operands |-> <<<<Token("reg", 9, 0)>>, <<v>>>>] :
                 n \in {"LA", "LI"},
                 v \in UNION {{Token("num", c, 0), High(Token("num", c, 0))} : c \in Constants}}

CodecInit ==
    /\ addr \in Addrs
    /\ direct = <<>> /\ linked = <<>>
    /\ \/ /\ phase = "word" /\ text = [name |-> "", operands |-> <<>>]
          /\ entry \in str_to_instruction_code_map
          /\ word \in WordsOf(entry)
       \/ /\ phase = "text" /\ word = {}
          /\ entry \in str_to_instruction_code_map
          /\ text \in TextsOf(entry, addr)
       \/ phase = "text" /\ word = {} /\ entry = IM_UNKNOWN /\ text \in LoadTexts

CodecIdle == /\ phase = "idle" /\ addr = 0 /\ direct = <<>> /\ linked = <<>> /\ word = {}
             /\ text = [name |-> "", operands |-> <<>>] /\ entry = IM_UNKNOWN

Disassemble ==
    /\ phase = "word" /\ phase' = "text"
    /\ text' = to_str(word, addr)
    /\ UNCHANGED <<entry, addr, word, direct, linked>>

Symbolic(t) ==
    [t EXCEPT !.operands = [i \in DOMAIN @ |-> [j \in DOMAIN @[i] |->
        IF @[i][j].kind = "num" THEN [@[i][j] EXCEPT !.kind = "sym"] ELSE @[i][j]]]]

\* the text with every number n + 2^32 of a signed field replaced by n
Wrapped(t) ==
    LET signed(i, j) == /\ i \in DOMAIN entry.args
                        /\ LET c == Chars(entry.args[i])[j]
                           IN  Known(c) /\ argdeslist[c].min < 0
    IN  [t EXCEPT !.operands = [i \in DOMAIN @ |-> [j \in DOMAIN @[i] |->
            IF signed(i, j) THEN [@[i][j] EXCEPT !.high = FALSE] ELSE @[i][j]]]]

Assemble ==
    /\ phase = "text" /\ phase' = "assembled"
    /\ direct' = [t \in {text, Wrapped(text)} |-> code_from_string(t, addr, FALSE)]
    /\ linked' = code_from_string(Symbolic(text), addr, TRUE)
    /\ UNCHANGED <<entry, addr, word, text>>

\* finish(): the values of the symbols are known
Link ==
    /\ phase = "assembled" /\ phase' = "linked"
    /\ linked' = [i \in DOMAIN linked |-> Relocated(linked[i])]
    /\ UNCHANGED <<entry, addr, word, text, direct>>

CodecNext == Disassemble \/ Assemble \/ Link

-----------------------------------------------------------------------------
(* Properties.                                                              *)

\* InstructionMapFind and the tables agree: the code of an entry leads back to
\* the entry with all its flags, the mask holds every bit that selects it, and the
\* fields of its arguments overlap neither the mask nor one another, so that the
\* sum in code_from_string never carries.
TablesAgree ==
    phase # "idle" /\ entry.type # "UNKNOWN" =>
        /\ InstructionMapFind(entry.code) = entry
        /\ flags(entry.code) = entry.flags
        /\ entry.code \subseteq entry.mask
        /\ \A c \in Letters(entry) :
              /\ FieldBits(argdeslist[c]) \cap entry.mask = {}
              /\ \A e \in Letters(entry) \ {c} :
                    FieldBits(argdeslist[c]) \cap FieldBits(argdeslist[e]) = {}

\* a branch over the end of the address space and a jump in the last word of a
\* 256 MB region are printed with an address that code_from_string refuses
AtEdge ==
    \/ "p" \in Letters(entry) /\ LET d == argdeslist["p"]
                                     v == Field(word, d.lsb, d.bits)
                                     t == addr + 1 + (IF v >= 2^15 THEN v - 2^16 ELSE v)
                                 IN  t < 0 \/ t >= WordsInSpace
    \/ "a" \in Letters(entry) /\ RegionOf(addr) # RegionOf(addr + 1)

\* Editing an instruction in the program view without a change gives the same
\* word: what to_str prints, code_from_string turns into the word it was.
RoundTrip ==
    phase = "linked" /\ word # {} /\ ~AtEdge =>
        LET given == direct[text]
        IN  Len(given) = 1 /\ given[1].ok /\ given[1].code = word

\* An operand put in by update() when the symbol is known gives the word, or the
\* refusal, that the number itself gives.  The exception is a number n + 2^32 for a
\* signed field: typed directly it is refused, put in by update() it gives what n
\* gives, and that may be refused too (instruction.cpp:2403).
RelocationAgrees ==
    phase = "linked" =>
        LET given == direct[Wrapped(text)]
        IN  /\ Wrapped(text) # text => \A i \in DOMAIN direct[text] : ~direct[text][i].ok
            /\ Len(given) = Len(linked)
            /\ \A i \in DOMAIN given :
                  /\ given[i].ok = linked[i].ok
                  /\ given[i].ok => given[i].code = linked[i].code

\* LI and LA load exactly the low 32 bits of the constant, the upper half by LUI and
\* the lower half by ORI.
LoadsConstant ==
    phase = "linked" /\ text.name \in {"LA", "LI"} =>
        LET v == text.operands[2][1].v
        IN  /\ Len(linked) = 2 /\ linked[1].ok /\ linked[2].ok
            /\ Field(linked[1].code, 0, 16) = (v \div 2^16) % 2^16
            /\ Field(linked[2].code, 0, 16) = v % 2^16
            /\ InstructionMapFind(linked[1].code).name = "LUI"
            /\ InstructionMapFind(linked[2].code).name = "ORI"

SReaders == {"SLLV", "SRLV", "ROTRV", "SRAV", "MOVZ", "MOVN", "MTHI", "MTLO", "MULT", "MULTU", "DIV",
             "DIVU", "ADD", "ADDU", "SUB", "SUBU", "AND", "OR", "XOR", "NOR", "SLT", "SLTU", "MUL",
             "MADD", "MADDU", "MSUB", "MSUBU", "TGE", "TGEU", "TLT", "TLTU", "TEQ", "TNE", "EXT",
             "INS", "CLZ", "CLO"}
TReaders == (SReaders \ {"MTHI", "MTLO", "EXT", "CLZ", "CLO"}) \cup
            {"SRL", "ROTR", "SRA", "SLLV", "WSBH", "SEB", "SEH", "PASS_T", "MTC0"}

\* The flags that make the pipeline forward or stall are complete: whenever the
\* ALU operation, the memory access or the branch of an entry uses a register, the
\* entry asks for it.  Exempt are the cache operations, whose address is not used,
\* and MFMC0 (DI, EI).
OperandsFlagged ==
    phase # "idle" /\ entry.mem_ctl # "CACHE_OP" /\ entry.alu # "MFMC0" =>
        LET f == entry.flags
            from_pc == {"PC_TO_R31", "PC8_TO_RT"} \cap f # {}
        IN  /\ entry.alu \in SReaders => "ALU_REQ_RS" \in f
            /\ entry.alu \in TReaders /\ "ALUSRC" \notin f /\ ~from_pc => "ALU_REQ_RT" \in f
            /\ "MEMWRITE" \in f \/ entry.mem_ctl \in {"WORD_LEFT", "WORD_RIGHT"}
                  => "ALU_REQ_RT" \in f
            /\ "BRANCH" \in f \/ ("JUMP" \in f /\ entry.type = "R") => "BJR_REQ_RS" \in f
            /\ "t" \in Letters(entry) /\ "BRANCH" \in f => "BJR_REQ_RT" \in f

\* The table, the decoding tree, the disassembler, the assembler, the linker of late
\* operands and the flags the hazard unit reads say the same of every instruction
\* (instruction.cpp).
InstructionsAgree ==
    TablesAgree /\ RoundTrip /\ RelocationAgrees /\ LoadsConstant /\ OperandsFlagged
=============================================================================
