--------------------------- MODULE InstructionTable ---------------------------
(***************************************************************************)
(* The instruction tables of machine/instruction.cpp, entry by entry: name, *)
(* type, ALU operation, memory control, argument templates, code, mask and  *)
(* flags, and the descriptors of the argument letters.  A 32-bit constant   *)
(* is the pair of its halves.                                               *)
(***************************************************************************)
EXTENDS Integers, Sequences, TLC

\* name |-> kind, bits and lowest bit of the field, least and greatest value, shift
ArgDesc(kind, bits, lsb, min, max, shift) ==
    [kind |-> kind, bits |-> bits, lsb |-> lsb, min |-> min, max |-> max, shift |-> shift]

argdeslist ==
    "1" :> ArgDesc("n", 5, 6, 0, 31, 0) @@ "<" :> ArgDesc("n", 5, 6, 0, 31, 0) @@
    ">" :> ArgDesc("n", 5, 6, 32, 63, 0) @@ "a" :> ArgDesc("a", 26, 0, 0, \h3ffffff, 2) @@
    "b" :> ArgDesc("g", 5, 21, 0, 31, 0) @@ "c" :> ArgDesc("g", 10, 16, 0, \h3ff, 0) @@
    "d" :> ArgDesc("g", 5, 11, 0, 31, 0) @@ "h" :> ArgDesc("h", 5, 11, 0, 31, 0) @@
    "H" :> ArgDesc("n", 3, 0, 0, 7, 0) @@ "i" :> ArgDesc("n", 16, 0, 0, \hffff, 0) @@
    "j" :> ArgDesc("n", 16, 0, -\h8000, \h7fff, 0) @@ "k" :> ArgDesc("n", 5, 16, 0, 31, 0) @@
    "o" :> ArgDesc("o", 16, 0, -\h8000, \h7fff, 0) @@ "p" :> ArgDesc("p", 16, 0, -\h8000, \h7fff, 2) @@
    "q" :> ArgDesc("n", 10, 6, 0, \h3ff, 0) @@ "r" :> ArgDesc("g", 5, 21, 0, 31, 0) @@
    "s" :> ArgDesc("g", 5, 21, 0, 31, 0) @@ "t" :> ArgDesc("g", 5, 16, 0, 31, 0) @@
    "u" :> ArgDesc("n", 16, 0, 0, \hffff, 0) @@ "v" :> ArgDesc("g", 5, 21, 0, 31, 0) @@
    "w" :> ArgDesc("g", 5, 16, 0, 31, 0) @@ "U" :> ArgDesc("g", 5, 11, 0, 31, 0) @@
    "G" :> ArgDesc("g", 5, 11, 0, 31, 0) @@ "C" :> ArgDesc("n", 25, 0, 0, \h1ffffff, 0) @@
    "B" :> ArgDesc("n", 20, 6, 0, \hfffff, 0) @@ "J" :> ArgDesc("n", 19, 6, 0, \h7ffff, 0) @@
    "x" :> ArgDesc("g", 0, 0, 0, 31, 0) @@ "z" :> ArgDesc("n", 0, 0, 0, 0, 0)

-----------------------------------------------------------------------------
(* Flags, without the IMF_ prefix.                                          *)

FLAGS_ALU_I_NO_RS   == {"SUPPORTED", "ALUSRC", "REGWRITE"}
FLAGS_ALU_I         == FLAGS_ALU_I_NO_RS \cup {"ALU_REQ_RS"}
FLAGS_ALU_I_ZE      == FLAGS_ALU_I \cup {"ZERO_EXTEND"}
FLAGS_ALU_I_LOAD    == FLAGS_ALU_I \cup {"MEMREAD", "MEM"}
FLAGS_ALU_I_STORE   == {"SUPPORTED", "ALUSRC", "MEMWRITE", "MEM", "ALU_REQ_RS", "ALU_REQ_RT"}
FLAGS_ALU_T_R_D     == {"SUPPORTED", "REGD", "REGWRITE"}
\* fault: the second operand is not waited for
FLAGS_ALU_T_R_SD_ONLY == FLAGS_ALU_T_R_D \cup {"ALU_REQ_RS"}
FLAGS_ALU_T_R_STD   == FLAGS_ALU_T_R_D \cup {"ALU_REQ_RS", "ALU_REQ_RT"}
FLAGS_ALU_T_R_STD_SHV  == FLAGS_ALU_T_R_STD \cup {"ALU_SHIFT"}
FLAGS_ALU_T_R_TD    == FLAGS_ALU_T_R_D \cup {"ALU_REQ_RT"}
FLAGS_ALU_T_R_TD_SHAMT == FLAGS_ALU_T_R_TD \cup {"ALU_SHIFT"}
FLAGS_ALU_T_R_S     == {"SUPPORTED", "ALU_REQ_RS"}
FLAGS_ALU_T_R_SD    == FLAGS_ALU_T_R_D \cup {"ALU_REQ_RS"}
FLAGS_ALU_T_R_ST    == {"SUPPORTED", "ALU_REQ_RS", "ALU_REQ_RT"}
FLAGS_ALU_TRAP_ST   == {"SUPPORTED", "ALU_REQ_RS", "ALU_REQ_RT"}
FLAGS_ALU_TRAP_SI   == {"SUPPORTED", "ALU_REQ_RS", "ALUSRC"}
FLAGS_J_B_PC_TO_R31 == {"SUPPORTED", "PC_TO_R31", "REGWRITE"}

NOALU == "SLL"
NOMEM == "NONE"

\* the bit numbers of a pair of halves
BitsOf(h) == {b \in 0 .. 31 : ((IF b < 16 THEN h[2] ELSE h[1]) \div (2^(b % 16))) % 2 = 1}

Im(name, type, alu, mem_ctl, args, code, mask, flags) ==
    [sub |-> FALSE, name |-> name, type |-> type, alu |-> alu, mem_ctl |-> mem_ctl,
     args |-> args, code |-> BitsOf(code), mask |-> BitsOf(mask), flags |-> flags]

\* an entry that selects in another table by "bits" bits from bit "shift" on
Sub(table, bits, shift) == [sub |-> TRUE, table |-> table, bits |-> bits, shift |-> shift]

IM_UNKNOWN == Im("UNKNOWN", "UNKNOWN", NOALU, NOMEM, <<>>, <<0, 0>>, <<0, 0>>, {})

-----------------------------------------------------------------------------
(* The tables; what they do not list is IM_UNKNOWN.                         *)

srl_rotr_instruction_map ==
    0 :> Im("SRL", "R", "SRL", NOMEM, <<"d","w","<">>, <<\h0000,\h0002>>, <<\hffe0,\h003f>>,
          FLAGS_ALU_T_R_TD_SHAMT) @@
    1 :> Im("ROTR", "R", "ROTR", NOMEM, <<"d","w","<">>, <<\h0020,\h0002>>, <<\hffe0,\h003f>>,
          FLAGS_ALU_T_R_TD_SHAMT)

srlv_rotrv_instruction_map ==
    0 :> Im("SRLV", "R", "SRLV", NOMEM, <<"d","t","s">>, <<\h0000,\h0006>>, <<\hfc00,\h07ff>>,
          FLAGS_ALU_T_R_STD_SHV) @@
    1 :> Im("ROTRV", "R", "ROTRV", NOMEM, <<"d","t","s">>, <<\h0000,\h0046>>, <<\hfc00,\h07ff>>,
          FLAGS_ALU_T_R_STD_SHV)

alu_instruction_map_1 ==
    0 :> Im("SLL", "R", "SLL", NOMEM, <<"d","w","<">>, <<\h0000,\h0000>>, <<\hffe0,\h003f>>,
          FLAGS_ALU_T_R_TD_SHAMT) @@
    2 :> Sub(srl_rotr_instruction_map, 1, 21) @@
    3 :> Im("SRA", "R", "SRA", NOMEM, <<"d","w","<">>, <<\h0000,\h0003>>, <<\hffe0,\h003f>>,
          FLAGS_ALU_T_R_TD_SHAMT) @@
    4 :> Im("SLLV", "R", "SLLV", NOMEM, <<"d","t","s">>, <<\h0000,\h0004>>, <<\hfc00,\h07ff>>,
          FLAGS_ALU_T_R_STD_SHV) @@
    6 :> Sub(srlv_rotrv_instruction_map, 1, 6) @@
    7 :> Im("SRAV", "R", "SRAV", NOMEM, <<"d","t","s">>, <<\h0000,\h0007>>, <<\hfc00,\h07ff>>,
          FLAGS_ALU_T_R_STD_SHV) @@
    8 :> Im("JR", "R", "NOP", NOMEM, <<"s">>, <<\h0000,\h0008>>, <<\hfc1f,\hffff>>,
          {"SUPPORTED", "BJR_REQ_RS", "JUMP"}) @@
    9 :> Im("JALR", "R", "PASS_T", NOMEM, <<"d","s">>, <<\h0000,\h0009>>, <<\hfc1f,\h07ff>>,
          {"SUPPORTED", "REGD", "REGWRITE", "BJR_REQ_RS", "PC8_TO_RT", "JUMP"}) @@
    10 :> Im("MOVZ", "R", "MOVZ", NOMEM, <<"d","v","t">>, <<\h0000,\h000a>>, <<\hfc00,\h07ff>>,
          FLAGS_ALU_T_R_STD) @@
    11 :> Im("MOVN", "R", "MOVN", NOMEM, <<"d","v","t">>, <<\h0000,\h000b>>, <<\hfc00,\h07ff>>,
          FLAGS_ALU_T_R_STD) @@
    12 :> Im("SYSCALL", "R", "SYSCALL", NOMEM, <<>>, <<\h0000,\h000c>>, <<\hfc00,\h003f>>,
          {"SUPPORTED", "EXCEPTION"}) @@
    13 :> Im("BREAK", "R", "BREAK", NOMEM, <<>>, <<\h0000,\h000d>>, <<\hfc00,\h003f>>,
          {"SUPPORTED", "EXCEPTION"}) @@
    15 :> Im("SYNC", "I", NOALU, NOMEM, <<>>, <<\h0000,\h000f>>, <<\hffff,\hf83f>>,
          {"SUPPORTED"}) @@
    16 :> Im("MFHI", "R", "MFHI", NOMEM, <<"d">>, <<\h0000,\h0010>>, <<\hffff,\h07ff>>,
          FLAGS_ALU_T_R_D \cup {"READ_HILO"}) @@
    17 :> Im("MTHI", "R", "MTHI", NOMEM, <<"s">>, <<\h0000,\h0011>>, <<\hfc1f,\hffff>>,
          FLAGS_ALU_T_R_S \cup {"WRITE_HILO"}) @@
    18 :> Im("MFLO", "R", "MFLO", NOMEM, <<"d">>, <<\h0000,\h0012>>, <<\hffff,\h07ff>>,
          FLAGS_ALU_T_R_D \cup {"READ_HILO"})

alu_instruction_map_2 ==
    19 :> Im("MTLO", "R", "MTLO", NOMEM, <<"s">>, <<\h0000,\h0013>>, <<\hfc1f,\hffff>>,
          FLAGS_ALU_T_R_S \cup {"WRITE_HILO"}) @@
    24 :> Im("MULT", "R", "MULT", NOMEM, <<"s","t">>, <<\h0000,\h0018>>, <<\hfc00,\hffff>>,
          FLAGS_ALU_T_R_ST \cup {"WRITE_HILO"}) @@
    25 :> Im("MULTU", "R", "MULTU", NOMEM, <<"s","t">>, <<\h0000,\h0019>>, <<\hfc00,\hffff>>,
          FLAGS_ALU_T_R_ST \cup {"WRITE_HILO"}) @@
    26 :> Im("DIV", "R", "DIV", NOMEM, <<"s","t">>, <<\h0000,\h001a>>, <<\hfc00,\hffff>>,
          FLAGS_ALU_T_R_ST \cup {"WRITE_HILO"}) @@
    27 :> Im("DIVU", "R", "DIVU", NOMEM, <<"s","t">>, <<\h0000,\h001b>>, <<\hfc00,\hffff>>,
          FLAGS_ALU_T_R_ST \cup {"WRITE_HILO"}) @@
    32 :> Im("ADD", "R", "ADD", NOMEM, <<"d","v","t">>, <<\h0000,\h0020>>, <<\hfc00,\h07ff>>,
          FLAGS_ALU_T_R_STD) @@
    33 :> Im("ADDU", "R", "ADDU", NOMEM, <<"d","v","t">>, <<\h0000,\h0021>>, <<\hfc00,\h07ff>>,
          FLAGS_ALU_T_R_STD) @@
    34 :> Im("SUB", "R", "SUB", NOMEM, <<"d","v","t">>, <<\h0000,\h0022>>, <<\hfc00,\h07ff>>,
          FLAGS_ALU_T_R_STD) @@
    35 :> Im("SUBU", "R", "SUBU", NOMEM, <<"d","v","t">>, <<\h0000,\h0023>>, <<\hfc00,\h07ff>>,
          FLAGS_ALU_T_R_STD) @@
    36 :> Im("AND", "R", "AND", NOMEM, <<"d","v","t">>, <<\h0000,\h0024>>, <<\hfc00,\h07ff>>,
          FLAGS_ALU_T_R_STD) @@
    37 :> Im("OR", "R", "OR", NOMEM, <<"d","v","t">>, <<\h0000,\h0025>>, <<\hfc00,\h07ff>>,
          FLAGS_ALU_T_R_STD) @@
    38 :> Im("XOR", "R", "XOR", NOMEM, <<"d","v","t">>, <<\h0000,\h0026>>, <<\hfc00,\h07ff>>,
          FLAGS_ALU_T_R_STD) @@
    39 :> Im("NOR", "R", "NOR", NOMEM, <<"d","v","t">>, <<\h0000,\h0027>>, <<\hfc00,\h07ff>>,
          FLAGS_ALU_T_R_STD) @@
    42 :> Im("SLT", "R", "SLT", NOMEM, <<"d","v","t">>, <<\h0000,\h002a>>, <<\hfc00,\h07ff>>,
          FLAGS_ALU_T_R_STD) @@
    43 :> Im("SLTU", "R", "SLTU", NOMEM, <<"d","v","t">>, <<\h0000,\h002b>>, <<\hfc00,\h07ff>>,
          FLAGS_ALU_T_R_STD)

alu_instruction_map_3 ==
    48 :> Im("TGE", "I", "TGE", NOMEM, <<"s","t">>, <<\h0000,\h0030>>, <<\hfc00,\h003f>>,
          FLAGS_ALU_TRAP_ST) @@
    49 :> Im("TGEU", "I", "TGEU", NOMEM, <<"s","t">>, <<\h0000,\h0031>>, <<\hfc00,\h003f>>,
          FLAGS_ALU_TRAP_ST) @@
    50 :> Im("TLT", "I", "TLT", NOMEM, <<"s","t">>, <<\h0000,\h0032>>, <<\hfc00,\h003f>>,
          FLAGS_ALU_TRAP_ST) @@
    51 :> Im("TLTU", "I", "TGEU", NOMEM, <<"s","t">>, <<\h0000,\h0033>>, <<\hfc00,\h003f>>,
          FLAGS_ALU_TRAP_ST) @@
    52 :> Im("TEQ", "I", "TEQ", NOMEM, <<"s","t">>, <<\h0000,\h0034>>, <<\hfc00,\h003f>>,
          FLAGS_ALU_TRAP_ST) @@
    54 :> Im("TNE", "I", "TNE", NOMEM, <<"s","t">>, <<\h0000,\h0036>>, <<\hfc00,\h003f>>,
          FLAGS_ALU_TRAP_ST)

alu_instruction_map == alu_instruction_map_1 @@ alu_instruction_map_2 @@ alu_instruction_map_3

special2_instruction_map ==
    0 :> Im("MADD", "R", "MADD", NOMEM, <<"s","t">>, <<\h7000,\h0000>>, <<\hfc00,\hffff>>,
          FLAGS_ALU_T_R_ST \cup {"READ_HILO", "WRITE_HILO"}) @@
    1 :> Im("MADDU", "R", "MADDU", NOMEM, <<"s","t">>, <<\h7000,\h0001>>, <<\hfc00,\hffff>>,
          FLAGS_ALU_T_R_ST \cup {"READ_HILO", "WRITE_HILO"}) @@
    2 :> Im("MUL", "R", "MUL", NOMEM, <<"d","v","t">>, <<\h7000,\h0002>>, <<\hfc00,\h07ff>>,
          FLAGS_ALU_T_R_STD) @@
    4 :> Im("MSUB", "R", "MSUB", NOMEM, <<"s","t">>, <<\h7000,\h0004>>, <<\hfc00,\hffff>>,
          FLAGS_ALU_T_R_ST \cup {"READ_HILO", "WRITE_HILO"}) @@
    5 :> Im("MSUBU", "R", "MSUBU", NOMEM, <<"s","t">>, <<\h7000,\h0005>>, <<\hfc00,\hffff>>,
          FLAGS_ALU_T_R_ST \cup {"READ_HILO", "WRITE_HILO"}) @@
    32 :> Im("CLZ", "R", "CLZ", NOMEM, <<"U","s">>, <<\h7000,\h0020>>, <<\hfc00,\h07ff>>,
          FLAGS_ALU_T_R_SD) @@
    33 :> Im("CLO", "R", "CLO", NOMEM, <<"U","s">>, <<\h7000,\h0021>>, <<\hfc00,\h07ff>>,
          FLAGS_ALU_T_R_SD)

bshfl_instruction_map ==
    2 :> Im("WSBH", "R", "WSBH", NOMEM, <<"d","w">>, <<\h7c00,\h00a0>>, <<\hffe0,\h07ff>>,
          FLAGS_ALU_T_R_TD) @@
    16 :> Im("SEB", "R", "SEB", NOMEM, <<"d","w">>, <<\h7c00,\h0420>>, <<\hffe0,\h07ff>>,
          FLAGS_ALU_T_R_TD) @@
    24 :> Im("SEH", "R", "SEH", NOMEM, <<"d","w">>, <<\h7c00,\h0620>>, <<\hffe0,\h07ff>>,
          FLAGS_ALU_T_R_TD)

special3_instruction_map ==
    0 :> Im("EXT", "I", "EXT", NOMEM, <<"t","r","+A","+C">>, <<\h7c00,\h0000>>, <<\hfc00,\h003f>>,
          {"SUPPORTED", "REGWRITE", "ALU_REQ_RS"}) @@
    4 :> Im("INS", "I", "EXT", NOMEM, <<"t","r","+A","+B">>, <<\h7c00,\h0004>>, <<\hfc00,\h003f>>,
          {"SUPPORTED", "REGWRITE", "ALU_REQ_RS", "ALU_REQ_RT"}) @@
    32 :> Sub(bshfl_instruction_map, 5, 6) @@
    59 :> Im("RDHWR", "R", "RDHWR", NOMEM, <<"t","K">>, <<\h7c00,\h003b>>, <<\hffe0,\h07ff>>,
          {"SUPPORTED", "REGWRITE"})

regimm_instruction_map_1 ==
    0 :> Im("BLTZ", "I", NOALU, NOMEM, <<"s","p">>, <<\h0400,\h0000>>, <<\hfc1f,\h0000>>,
          {"SUPPORTED", "BJR_REQ_RS", "BRANCH"}) @@
    1 :> Im("BGEZ", "I", NOALU, NOMEM, <<"s","p">>, <<\h0401,\h0000>>, <<\hfc1f,\h0000>>,
          {"SUPPORTED", "BJR_REQ_RS", "BRANCH", "BJ_NOT"}) @@
    2 :> Im("BLTZL", "I", NOALU, NOMEM, <<"s","p">>, <<\h0402,\h0000>>, <<\hfc1f,\h0000>>,
          {"SUPPORTED", "BJR_REQ_RS", "BRANCH", "NB_SKIP_DS"}) @@
    3 :> Im("BGEZL", "I", NOALU, NOMEM, <<"s","p">>, <<\h0403,\h0000>>, <<\hfc1f,\h0000>>,
          {"SUPPORTED", "BJR_REQ_RS", "BRANCH", "NB_SKIP_DS", "BJ_NOT"}) @@
    8 :> Im("TGEI", "I", "TGE", NOMEM, <<"s","j">>, <<\h0408,\h0000>>, <<\hfc1f,\h0000>>,
          FLAGS_ALU_TRAP_SI) @@
    9 :> Im("TGEIU", "I", "TGEU", NOMEM, <<"s","j">>, <<\h0409,\h0000>>, <<\hfc1f,\h0000>>,
          FLAGS_ALU_TRAP_SI) @@
    10 :> Im("TLTI", "I", "TLT", NOMEM, <<"s","j">>, <<\h040a,\h0000>>, <<\hfc1f,\h0000>>,
          FLAGS_ALU_TRAP_SI) @@
    11 :> Im("TLTIU", "I", "TGEU", NOMEM, <<"s","j">>, <<\h040b,\h0000>>, <<\hfc1f,\h0000>>,
          FLAGS_ALU_TRAP_SI) @@
    12 :> Im("TEQI", "I", "TEQ", NOMEM, <<"s","j">>, <<\h040c,\h0000>>, <<\hfc1f,\h0000>>,
          FLAGS_ALU_TRAP_SI) @@
    14 :> Im("TNEI", "I", "TNE", NOMEM, <<"s","j">>, <<\h040e,\h0000>>, <<\hfc1f,\h0000>>,
          FLAGS_ALU_TRAP_SI) @@
    16 :> Im("BLTZAL", "I", "PASS_T", NOMEM, <<"s","p">>, <<\h0410,\h0000>>, <<\hfc1f,\h0000>>,
          FLAGS_J_B_PC_TO_R31 \cup {"BJR_REQ_RS", "BRANCH"}) @@
    17 :> Im("BGEZAL", "I", "PASS_T", NOMEM, <<"s","p">>, <<\h0411,\h0000>>, <<\hfc1f,\h0000>>,
          FLAGS_J_B_PC_TO_R31 \cup {"BJR_REQ_RS", "BRANCH", "BJ_NOT"}) @@
    18 :> Im("BLTZALL", "I", "PASS_T", NOMEM, <<"s","p">>, <<\h0412,\h0000>>, <<\hfc1f,\h0000>>,
          FLAGS_J_B_PC_TO_R31 \cup {"BJR_REQ_RS", "BRANCH", "NB_SKIP_DS"}) @@
    19 :> Im("BGEZALL", "I", "PASS_T", NOMEM, <<"s","p">>, <<\h0413,\h0000>>, <<\hfc1f,\h0000>>,
          FLAGS_J_B_PC_TO_R31 \cup {"BJR_REQ_RS", "BRANCH", "NB_SKIP_DS", "BJ_NOT"})

regimm_instruction_map_2 ==
    31 :> Im("SYNCI", "I", "ADDU", "CACHE_OP", <<"o(b)">>, <<\h041f,\h0000>>, <<\hfc1f,\h0000>>,
          {"SUPPORTED", "STOP_IF", "BJR_REQ_RS"})

regimm_instruction_map == regimm_instruction_map_1 @@ regimm_instruction_map_2

cop0_func_instruction_map ==
    24 :> Im("ERET", "I", "ERET", NOMEM, <<>>, <<\h4200,\h0018>>, <<\hffff,\hffff>>,
          {"SUPPORTED", "STOP_IF"})

cop0_c0_map == [i \in 16 .. 31 |-> Sub(cop0_func_instruction_map, 6, 0)]

cop0_instruction_map ==
    0 :> Im("MFC0", "I", "MFC0", NOMEM, <<"t","G","H">>, <<\h4000,\h0000>>, <<\hffe0,\h07f8>>,
          {"SUPPORTED", "REGWRITE"}) @@
    4 :> Im("MTC0", "I", "MTC0", NOMEM, <<"t","G","H">>, <<\h4080,\h0000>>, <<\hffe0,\h07f8>>,
          {"SUPPORTED", "ALU_REQ_RT"}) @@
    11 :> Im("MFMC0", "I", "MFMC0", NOMEM, <<"t">>, <<\h4160,\h0000>>, <<\hffe0,\hffdf>>,
          {"SUPPORTED", "REGWRITE"}) @@
    cop0_c0_map

instruction_map_1 ==
    0 :> Sub(alu_instruction_map, 6, 0) @@
    1 :> Sub(regimm_instruction_map, 5, 16) @@
    2 :> Im("J", "J", NOALU, NOMEM, <<"a">>, <<\h0800,\h0000>>, <<\hfc00,\h0000>>,
          {"SUPPORTED", "JUMP"}) @@
    3 :> Im("JAL", "J", "PASS_T", NOMEM, <<"a">>, <<\h0c00,\h0000>>, <<\hfc00,\h0000>>,
          FLAGS_J_B_PC_TO_R31 \cup {"JUMP"}) @@
    4 :> Im("BEQ", "I", NOALU, NOMEM, <<"s","t","p">>, <<\h1000,\h0000>>, <<\hfc00,\h0000>>,
          {"SUPPORTED", "BJR_REQ_RS", "BJR_REQ_RT", "BRANCH"}) @@
    5 :> Im("BNE", "I", NOALU, NOMEM, <<"s","t","p">>, <<\h1400,\h0000>>, <<\hfc00,\h0000>>,
          {"SUPPORTED", "BJR_REQ_RS", "BJR_REQ_RT", "BRANCH", "BJ_NOT"}) @@
    6 :> Im("BLEZ", "I", NOALU, NOMEM, <<"s","p">>, <<\h1800,\h0000>>, <<\hfc1f,\h0000>>,
          {"SUPPORTED", "BJR_REQ_RS", "BRANCH", "BGTZ_BLEZ"}) @@
    7 :> Im("BGTZ", "I", NOALU, NOMEM, <<"s","p">>, <<\h1c00,\h0000>>, <<\hfc1f,\h0000>>,
          {"SUPPORTED", "BJR_REQ_RS", "BRANCH", "BGTZ_BLEZ", "BJ_NOT"}) @@
    8 :> Im("ADDI", "I", "ADD", NOMEM, <<"t","r","j">>, <<\h2000,\h0000>>, <<\hfc00,\h0000>>,
          FLAGS_ALU_I) @@
    9 :> Im("ADDIU", "I", "ADDU", NOMEM, <<"t","r","j">>, <<\h2400,\h0000>>, <<\hfc00,\h0000>>,
          FLAGS_ALU_I) @@
    10 :> Im("SLTI", "I", "SLT", NOMEM, <<"t","r","j">>, <<\h2800,\h0000>>, <<\hfc00,\h0000>>,
          FLAGS_ALU_I) @@
    11 :> Im("SLTIU", "I", "SLTU", NOMEM, <<"t","r","j">>, <<\h2c00,\h0000>>, <<\hfc00,\h0000>>,
          FLAGS_ALU_I) @@
    12 :> Im("ANDI", "I", "AND", NOMEM, <<"t","r","i">>, <<\h3000,\h0000>>, <<\hfc00,\h0000>>,
          FLAGS_ALU_I_ZE) @@
    13 :> Im("ORI", "I", "OR", NOMEM, <<"t","r","i">>, <<\h3400,\h0000>>, <<\hfc00,\h0000>>,
          FLAGS_ALU_I_ZE) @@
    14 :> Im("XORI", "I", "XOR", NOMEM, <<"t","r","i">>, <<\h3800,\h0000>>, <<\hfc00,\h0000>>,
          FLAGS_ALU_I_ZE) @@
    15 :> Im("LUI", "I", "LUI", NOMEM, <<"t","u">>, <<\h3c00,\h0000>>, <<\hffe0,\h0000>>,
          FLAGS_ALU_I_NO_RS)

instruction_map_2 ==
    16 :> Sub(cop0_instruction_map, 5, 21) @@
    20 :> Im("BEQL", "I", NOALU, NOMEM, <<"s","t","p">>, <<\h5000,\h0000>>, <<\hfc00,\h0000>>,
          {"SUPPORTED", "BJR_REQ_RS", "BJR_REQ_RT", "BRANCH", "NB_SKIP_DS"}) @@
    21 :> Im("BNEL", "I", NOALU, NOMEM, <<"s","t","p">>, <<\h5400,\h0000>>, <<\hfc00,\h0000>>,
          {"SUPPORTED", "BJR_REQ_RS", "BJR_REQ_RT", "BRANCH", "NB_SKIP_DS", "BJ_NOT"}) @@
    22 :> Im("BLEZL", "I", NOALU, NOMEM, <<"s","p">>, <<\h5800,\h0000>>, <<\hfc1f,\h0000>>,
          {"SUPPORTED", "BJR_REQ_RS", "BRANCH", "NB_SKIP_DS", "BGTZ_BLEZ"}) @@
    23 :> Im("BGTZL", "I", NOALU, NOMEM, <<"s","p">>, <<\h5c00,\h0000>>, <<\hfc1f,\h0000>>,
          {"SUPPORTED", "BJR_REQ_RS", "BRANCH", "NB_SKIP_DS", "BGTZ_BLEZ", "BJ_NOT"}) @@
    28 :> Sub(special2_instruction_map, 6, 0) @@
    31 :> Sub(special3_instruction_map, 6, 0) @@
    32 :> Im("LB", "I", "ADDU", "I8", <<"t","o(b)">>, <<\h8000,\h0000>>, <<\hfc00,\h0000>>,
          FLAGS_ALU_I_LOAD) @@
    33 :> Im("LH", "I", "ADDU", "I16", <<"t","o(b)">>, <<\h8400,\h0000>>, <<\hfc00,\h0000>>,
          FLAGS_ALU_I_LOAD) @@
    34 :> Im("LWL", "I", "ADDU", "WORD_LEFT", <<"t","o(b)">>, <<\h8800,\h0000>>, <<\hfc00,\h0000>>,
          FLAGS_ALU_I_LOAD \cup {"ALU_REQ_RT"}) @@
    35 :> Im("LW", "I", "ADDU", "U32", <<"t","o(b)">>, <<\h8c00,\h0000>>, <<\hfc00,\h0000>>,
          FLAGS_ALU_I_LOAD) @@
    36 :> Im("LBU", "I", "ADDU", "U8", <<"t","o(b)">>, <<\h9000,\h0000>>, <<\hfc00,\h0000>>,
          FLAGS_ALU_I_LOAD) @@
    37 :> Im("LHU", "I", "ADDU", "U16", <<"t","o(b)">>, <<\h9400,\h0000>>, <<\hfc00,\h0000>>,
          FLAGS_ALU_I_LOAD) @@
    38 :> Im("LWR", "I", "ADDU", "WORD_RIGHT", <<"t","o(b)">>, <<\h9800,\h0000>>, <<\hfc00,\h0000>>,
          FLAGS_ALU_I_LOAD \cup {"ALU_REQ_RT"}) @@
    40 :> Im("SB", "I", "ADDU", "I8", <<"t","o(b)">>, <<\ha000,\h0000>>, <<\hfc00,\h0000>>,
          FLAGS_ALU_I_STORE)

instruction_map_3 ==
    41 :> Im("SH", "I", "ADDU", "I16", <<"t","o(b)">>, <<\ha400,\h0000>>, <<\hfc00,\h0000>>,
          FLAGS_ALU_I_STORE) @@
    42 :> Im("SWL", "I", "ADDU", "WORD_LEFT", <<"t","o(b)">>, <<\ha800,\h0000>>, <<\hfc00,\h0000>>,
          FLAGS_ALU_I_STORE) @@
    43 :> Im("SW", "I", "ADDU", "U32", <<"t","o(b)">>, <<\hac00,\h0000>>, <<\hfc00,\h0000>>,
          FLAGS_ALU_I_STORE) @@
    46 :> Im("SWR", "I", "ADDU", "WORD_RIGHT", <<"t","o(b)">>, <<\hb800,\h0000>>, <<\hfc00,\h0000>>,
          FLAGS_ALU_I_STORE) @@
    47 :> Im("CACHE", "I", "ADDU", "CACHE_OP", <<"k","o(b)">>, <<\hbc00,\h0000>>, <<\hfc00,\h0000>>,
          {"SUPPORTED", "ALUSRC", "MEM"}) @@
    48 :> Im("LL", "I", "ADDU", "LOAD_LINKED", <<"t","o(b)">>, <<\hc000,\h0000>>, <<\hfc00,\h0000>>,
          FLAGS_ALU_I_LOAD) @@
    49 :> Im("LWC1", "I", NOALU, NOMEM, <<"T","o(b)">>, <<\hc400,\h0000>>, <<\hfc00,\h0000>>,
          {"SUPPORTED"}) @@
    51 :> Im("PREF", "I", NOALU, NOMEM, <<"k","o(b)">>, <<\hcc00,\h0000>>, <<\hfc00,\h0000>>,
          {"SUPPORTED"}) @@
    53 :> Im("LWD1", "I", NOALU, NOMEM, <<"T","o(b)">>, <<\hd400,\h0000>>, <<\hfc00,\h0000>>,
          {"SUPPORTED"}) @@
    56 :> Im("SC", "I", "ADDU", "STORE_CONDITIONAL", <<"t","o(b)">>, <<\he000,\h0000>>, <<\hfc00,\h0000>>,
          FLAGS_ALU_I_STORE \cup {"MEMREAD", "REGWRITE"}) @@
    57 :> Im("SWC1", "I", NOALU, NOMEM, <<"T","o(b)">>, <<\he400,\h0000>>, <<\hfc00,\h0000>>,
          {"SUPPORTED"}) @@
    61 :> Im("SDC1", "I", NOALU, NOMEM, <<"T","o(b)">>, <<\hf400,\h0000>>, <<\hfc00,\h0000>>,
          {"SUPPORTED"})

instruction_map == instruction_map_1 @@ instruction_map_2 @@ instruction_map_3
=============================================================================
