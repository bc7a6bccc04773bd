----------------------------- MODULE MCToolchain ------------------------------
(***************************************************************************)
(* From a source line to what the ALU does: splitting lines of up to 6      *)
(* characters, expressions of up to 6 tokens, sources of up to 3 lines out  *)
(* of 17 with a second file, every supported instruction with the ends of   *)
(* its fields and ranges at addresses about the ends of a region and of the *)
(* address space, and every ALU operation on all words of 4 bits and on a   *)
(* few with their sign extended.  A behaviour is about one of the five.     *)
(***************************************************************************)
EXTENDS SimpleAsm, InstructionPath, Alu

MCAddrs     == {0, 2^26 - 1}
MCConstants == {0, 1, 65535, 65536, 1234567890, 2^30, -1}
MCHiLo      == {<<0, 0>>, <<255, 15>>, <<7, 250>>}

\* all words, and the ends of the numbers with their sign extended
MCOperands == (Words \X Words) \cup {<<Reg(s), Reg(t)>> : s, t \in {-8, -1, 7}}

MCSymbols == ("2" :> 2) @@ ("x" :> 5)

L(label, op, args) == [label |-> label, op |-> op, args |-> args]
N(n) == [sym |-> "", n |-> n]
S(s, n) == [sym |-> s, n |-> n]

MCLines ==
    { L("x", "", <<>>),
      L("x", ".WORD", <<S("y", 0)>>), L("", ".WORD", <<N(300), S("x", 1)>>),
      L("y", ".BYTE", <<N(7)>>), L("", ".BYTE", <<S("x", 2), S("y", 0)>>),
      L("", ".ORG", <<N(9)>>), L("", ".ORG", <<S("y", 0)>>), L("", ".SPACE", <<S("x", 1)>>),
      L("", ".EQU", <<"y", N(3)>>), L("", ".EQU", <<"y", S("x", 1)>>),
      L("", ".ASCII", << <<65, 66>>, FALSE>>), L("", ".ASCII", << <<65>>, TRUE>>),
      L("y", "INST", <<S("x", 0), FALSE>>), L("", "INST", <<N(5), FALSE>>),
      L("", "INST", <<S("y", 0), TRUE>>),
      L("x", "#INCLUDE", <<"a">>), L("", "#INCLUDE", <<"b">>) }

\* the second file: empty, a label, or an include of the first
MCIncluded == { <<>>, <<L("y", ".BYTE", <<N(1)>>)>>, <<L("", "#INCLUDE", <<"a">>)>> }

MCSources ==
    { [f \in {"a", "b"} |-> IF f = "a" THEN main ELSE other] :
        main \in UNION {[1 .. n -> MCLines] : n \in 0 .. 3}, other \in MCIncluded }

NoTok  == tok = [status |-> "idle"]
NoExpr == expr = ExprStart

Init == \/ CodecInit /\ AluIdle /\ NoTok /\ NoExpr /\ AsmIdle
        \/ CodecIdle /\ AluInit(MCOperands, MCHiLo) /\ NoTok /\ NoExpr /\ AsmIdle
        \/ CodecIdle /\ AluIdle /\ tok = TokStart /\ NoExpr /\ AsmIdle
        \/ CodecIdle /\ AluIdle /\ NoTok /\ expr = ExprStart /\ AsmIdle
        \/ CodecIdle /\ AluIdle /\ NoTok /\ NoExpr /\ AsmInit

vars == <<codec, alu, tok, expr, asm>>

Next == \/ CodecNext /\ UNCHANGED <<alu, tok, expr, asm>>
        \/ Operate /\ UNCHANGED <<codec, tok, expr, asm>>
        \/ TokNext /\ UNCHANGED <<codec, alu, expr, asm>>
        \/ tok.status = "idle" /\ phase = "idle" /\ alu.op = "idle" /\ stage = "idle"
           /\ ExprNext /\ UNCHANGED <<codec, alu, tok, asm>>
        \/ AsmNext /\ UNCHANGED <<codec, alu, tok, expr>>

\* the assembler does not stop between two lines
Spec == Init /\ [][Next]_vars /\ WF_vars(AsmNext /\ UNCHANGED <<codec, alu, tok, expr>>)

\* The assembler does what is written, from characters to bytes: process_line finds the
\* operands of a line, fixmatheval.cpp their values, and finish() leaves in memory what
\* the lines say with every symbol at its final value.
AssemblerFaithful == LineKept /\ ExpressionValue /\ AssembledAsWritten
=============================================================================
