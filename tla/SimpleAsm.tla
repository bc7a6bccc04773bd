------------------------------ MODULE SimpleAsm ------------------------------
(***************************************************************************)
(* The assembler (assembler/simpleasm.cpp, fixmatheval.cpp): how a line is  *)
(* split, how an expression is read, and how a source becomes memory.       *)
(***************************************************************************)
EXTENDS Integers, Sequences, FiniteSets, FiniteSetsExt, SequencesExt, TLC

-----------------------------------------------------------------------------
(***************************************************************************)
(* How the assembler splits a line into label, operation and operands (the  *)
(* first loop of SimpleAsm::process_line).  A character is one of           *)
(*   "x"  ordinary     " "  space      ":"  ","      "q"  a double quote    *)
(*   "b"  backslash    ";"  the start of a comment: ;  //  or #             *)
(*   "p"  the word #pragma, a space or the end behind it: from there on      *)
(*        spaces separate operands                                          *)
(* and the end of the line is "end".                                        *)
(***************************************************************************)

CONSTANTS MaxLine        \* bound: characters in a line

VARIABLE tok             \* the local variables of the loop, and the line so far

LineChars == {"x", " ", ":", ",", "q", "b", ";", "p"}

NoText == <<>>
TokStart ==
    [line |-> <<>>, in_quotes |-> FALSE, backslash |-> FALSE, maybe_label |-> TRUE,
     space_separated |-> FALSE, beg |-> 0, last |-> 0, operand_num |-> -1,
     label |-> NoText, op |-> NoText, operands |-> <<>>, status |-> "scan"]

TokFail(t) == [t EXCEPT !.status = "error"]

\* the text of the token that ends before the current character
TokenText(t) == IF t.beg = 0 THEN NoText ELSE SubSeq(t.line, t.beg, t.last)
IsSpace(ch) == ch \in {" ", "end"}

\* inside quotes only the closing quote is looked for
Quoted(t, ch, pos) ==
    IF ch = "end" THEN TokFail(t)
    ELSE [t EXCEPT !.line = Append(@, ch), !.last = pos,
                   !.in_quotes = ~(ch = "q" /\ ~t.backslash),
                   !.backslash = ch = "b" /\ ~t.backslash]

\* the token that a separator or a new token ends: a label, the operation, an operand
Close(t, ch, pos, final, separator) ==
    IF t.maybe_label /\ ch = ":"
    THEN IF t.beg = 0 THEN TokFail(t)
         ELSE [t EXCEPT !.label = TokenText(t), !.beg = 0, !.maybe_label = FALSE]
    ELSE IF t.operand_num = -1 /\ (final \/ (~IsSpace(ch) /\ t.beg # 0 /\ t.last < pos - 1))
    THEN IF ch = "," THEN TokFail(t)
         ELSE [t EXCEPT !.op = TokenText(t), !.beg = 0, !.operand_num = 0, !.maybe_label = FALSE]
    ELSE IF ~separator THEN t
    ELSE IF t.beg = 0 THEN TokFail(t)
    ELSE [t EXCEPT !.operands = Append(@, TokenText(t)), !.beg = 0, !.operand_num = @ + 1]

\* a character that belongs to a token starts or extends it
Extend(t, ch, pos, separator) ==
    IF ch = "q" /\ t.operand_num = -1 THEN TokFail(t)
    ELSE LET in == ~IsSpace(ch) /\ ~separator
         IN  [t EXCEPT !.line = Append(@, ch), !.beg = IF in /\ @ = 0 THEN pos ELSE @,
                       !.last = IF in THEN pos ELSE @, !.backslash = FALSE, !.in_quotes = ch = "q"]

\* fault: a comma separates inside of quotes, too
UnquotedComma(t, ch, pos) ==
    LET u == [t EXCEPT !.space_separated = @ \/ ch = "p"]
        final == ch \in {"end", ";"}
        separator == final \/ (t.maybe_label /\ ch = ":") \/ (t.operand_num >= 0 /\ ch = ",")
        closed == Close(u, ch, pos, final, separator)
    IN  IF t.in_quotes /\ ch # "," THEN Quoted(t, ch, pos)
        ELSE IF closed.status = "error" THEN closed
        ELSE IF final THEN [closed EXCEPT !.status = "done"]
        ELSE Extend(closed, ch, pos, separator)

\* one turn of the loop
Character(t, ch, pos) ==
    LET u == [t EXCEPT !.space_separated = @ \/ ch = "p"]
        final == ch \in {"end", ";"}
        separator == \/ final
                     \/ t.maybe_label /\ ch = ":"
                     \/ t.operand_num >= 0 /\ (ch = "," \/ (u.space_separated /\ ch = " " /\ t.beg # 0))
        closed == Close(u, ch, pos, final, separator)
    IN  IF t.in_quotes THEN Quoted(t, ch, pos)
        ELSE IF closed.status = "error" THEN closed
        ELSE IF final THEN [closed EXCEPT !.status = "done"]
        ELSE Extend(closed, ch, pos, separator)

TokNext ==
    /\ tok.status = "scan"
    /\ \E ch \in LineChars \cup {"end"} :
         /\ Len(tok.line) < MaxLine \/ ch = "end"
         /\ tok.line # <<>> /\ Last(tok.line) = "p" /\ ~tok.in_quotes => IsSpace(ch)
         /\ tok' = Character(tok, ch, Len(tok.line) + 1)

-----------------------------------------------------------------------------
Glue(ss) == FoldLeft(LAMBDA acc, s : acc \o s, <<>>, ss)

\* the quotes of a line pair up: is character i inside a quoted text
RECURSIVE InQuotes(_, _)
InQuotes(s, i) ==
    IF i = 0 THEN [in |-> FALSE, esc |-> FALSE]
    ELSE LET before == InQuotes(s, i - 1)
         IN  IF ~before.in THEN [in |-> s[i] = "q", esc |-> FALSE]
             ELSE [in |-> ~(s[i] = "q" /\ ~before.esc), esc |-> s[i] = "b" /\ ~before.esc]

Outside(s, i) == ~InQuotes(s, i - 1).in

\* A line that is accepted loses nothing: its label, operation and operands, put
\* together again, hold every character of it but the spaces outside of tokens, the
\* colon of the label and the commas between operands, in order; quoted text stays
\* in one operand whatever it contains.
LineKept ==
    tok.status = "done" =>
        /\ LET s == tok.line
               all == tok.label \o tok.op \o Glue(tok.operands)
               cut(c) == c \in {" ", ":", ","}
           IN  SelectSeq(all, LAMBDA c : ~cut(c)) = SelectSeq(s, LAMBDA c : ~cut(c))
        /\ \A o \in Range(tok.operands) :
              o # NoText /\ (\A i \in DOMAIN o : o[i] = "," => ~Outside(o, i))
                         /\ ~InQuotes(o, Len(o)).in

-----------------------------------------------------------------------------
(***************************************************************************)
(* The expressions of the assembler (assembler/fixmatheval.cpp).  parse     *)
(* reads the text once, from left to right, and keeps a tree whose right    *)
(* spine is ordered by priority; an operator is put into the spine where    *)
(* the priorities end to be lower than its own.  A text is a sequence of    *)
(* tokens: words (numbers or names of symbols), operators and brackets.     *)
(***************************************************************************)

CONSTANTS ExprWords,    \* the numbers and symbols of an expression
          ExprOps,      \* the operators and brackets used
          Symbols,      \* the values of the numbers and of the defined symbols
          MaxExpr       \* bound: tokens in an expression

VARIABLE expr           \* [text, tree, base_prio, is_unary, ok]

INT_MAX == 1000
NoNode == [kind |-> "none"]

Word(w) == [kind |-> "word", prio |-> INT_MAX, word |-> w]

\* the priority of an operator above base_prio
Priority(op, unary) ==
    CASE op = "~" \/ unary -> 90
      [] op \in {"*", "/"} -> 30
      [] op \in {"+", "-"} -> 20
      [] op \in {"&", "^"} -> 15
      [] op = "|" -> 10

\* FmeNode::insert of a word under the last child; a word takes no child
RECURSIVE InsertWord(_, _)
InsertWord(t, w) ==
    CASE t.kind = "none" -> Word(w)
      [] t.kind = "word" -> [kind |-> "stuck"]
      [] OTHER -> [t EXCEPT !.b = InsertWord(t.b, w)]

\* fault: an operator of the same priority goes below, not above
RECURSIVE InsertBelow(_, _, _, _)
InsertBelow(t, op, prio, unary) ==
    IF t.kind = "none" \/ t.prio > prio
    THEN [kind |-> IF unary THEN "unary" ELSE "binary", op |-> op, prio |-> prio,
          a |-> IF unary THEN NoNode ELSE t, b |-> NoNode]
    ELSE [t EXCEPT !.b = InsertBelow(t.b, op, prio, unary)]

\* the walk down the right spine; a unary operator drops what was in its place
RECURSIVE InsertOp(_, _, _, _)
InsertOp(t, op, prio, unary) ==
    IF t.kind = "none" \/ t.prio >= prio
    THEN [kind |-> IF unary THEN "unary" ELSE "binary", op |-> op, prio |-> prio,
          a |-> IF unary THEN NoNode ELSE t, b |-> NoNode]
    ELSE [t EXCEPT !.b = InsertOp(t.b, op, prio, unary)]

\* the operations of the nodes; "/" by zero is undefined and not given a value
BitOp(op, a, b) ==
    LET bit(x, i) == (x \div 2^i) % 2
        one(i) == CASE op = "&" -> bit(a, i) * bit(b, i)
                    [] op = "|" -> bit(a, i) + bit(b, i) - bit(a, i) * bit(b, i)
                    [] op = "^" -> (bit(a, i) + bit(b, i)) % 2
        low == FoldLeftDomain(LAMBDA acc, i : acc + one(i - 1) * 2^(i - 1), 0, [i \in 1 .. 12 |-> i])
    IN  IF one(12) = 1 THEN low - 2^12 ELSE low
Quotient(a, b) ==
    LET abs(x) == IF x < 0 THEN -x ELSE x
        q == abs(a) \div abs(b)
    IN  IF (a < 0) # (b < 0) THEN -q ELSE q
Apply2(op, a, b) ==
    CASE op = "+" -> a + b [] op = "-" -> a - b [] op = "*" -> a * b [] op = "/" -> Quotient(a, b)
      [] OTHER -> BitOp(op, a, b)
Apply1(op, a) == IF op = "-" THEN -a ELSE -a - 1

Bad == [ok |-> FALSE, v |-> 0]
Good(v) == [ok |-> TRUE, v |-> v]
WordValue(w) == IF w \in DOMAIN Symbols THEN Good(Symbols[w]) ELSE Bad

\* eval: a missing operand or an unknown symbol fails the whole
RECURSIVE Eval(_)
Eval(t) ==
    CASE t.kind = "none" -> Bad
      [] t.kind = "word" -> WordValue(t.word)
      [] t.kind = "unary" -> LET b == Eval(t.b) IN IF b.ok THEN Good(Apply1(t.op, b.v)) ELSE Bad
      [] t.kind = "binary" ->
            LET a == Eval(t.a)
                b == Eval(t.b)
            IN  IF a.ok /\ b.ok /\ ~(t.op = "/" /\ b.v = 0) THEN Good(Apply2(t.op, a.v, b.v)) ELSE Bad

RECURSIVE Stuck(_)
Stuck(t) == t.kind = "stuck" \/ (t.kind \in {"unary", "binary"} /\ Stuck(t.b))

ExprStart == [text |-> <<>>, tree |-> NoNode, base_prio |-> 100, is_unary |-> TRUE, ok |-> TRUE]

\* one token of the loop in parse
ParseWord(w) ==
    /\ w \in ExprWords
    /\ LET t == InsertWord(expr.tree, w)
       IN  expr' = [expr EXCEPT !.text = Append(@, w), !.tree = t, !.is_unary = FALSE, !.ok = ~Stuck(t)]

ParseBracket(c) ==
    /\ c \in ExprOps \cap {"(", ")"}
    /\ LET base == expr.base_prio + (IF c = "(" THEN 100 ELSE -100)
       IN  expr' = [expr EXCEPT !.text = Append(@, c), !.base_prio = base, !.ok = base > 0]

ParseOp(op) ==
    /\ op \in ExprOps \ {"(", ")"}
    /\ LET unary == op = "~" \/ (op = "-" /\ expr.is_unary)
           skip  == op = "+" /\ expr.is_unary
           prio  == expr.base_prio + Priority(op, unary)
       IN  expr' = [expr EXCEPT !.text = Append(@, op),
                                !.tree = IF skip THEN @ ELSE InsertOp(@, op, prio, unary),
                                !.is_unary = @ \/ ~unary]

ExprNext ==
    /\ expr.ok /\ Len(expr.text) < MaxExpr
    /\ \E c \in ExprWords \cup ExprOps : ParseWord(c) \/ ParseBracket(c) \/ ParseOp(c)

\* parse of the text so far: the loop can end only behind a word
Parsed == expr.ok /\ expr.text # <<>> /\ Last(expr.text) \in ExprWords
ParseResult == IF Parsed THEN Eval(expr.tree) ELSE Bad

-----------------------------------------------------------------------------
(* The reference: the grammar of the expressions, with the usual priorities *)
(* and operators of equal priority from the left.                           *)

IsOperandEnd(c) == c \in ExprWords \cup {")"}
Depth(e, i) == Cardinality({j \in 1 .. i : e[j] = "("}) - Cardinality({j \in 1 .. i : e[j] = ")"})
BinaryAt(e, i) == i > 1 /\ IsOperandEnd(e[i - 1]) /\ e[i] \in ExprOps \ {"~", "(", ")"} /\ Depth(e, i) = 0

\* an expression of the grammar; its closing brackets may be left out at the end
WellFormed(e) ==
    /\ e # <<>> /\ IsOperandEnd(Last(e))
    /\ \A i \in 1 .. Len(e) : Depth(e, i) >= 0
    /\ \A i \in 1 .. Len(e) :
         LET before == IF i = 1 THEN "(" ELSE e[i - 1]
         IN  CASE e[i] \in ExprWords \cup {"("} -> ~IsOperandEnd(before)
               [] e[i] = ")" -> IsOperandEnd(before)
               [] e[i] = "~" -> before \notin {"~", "-"} /\ ~IsOperandEnd(before)
               [] e[i] \in {"-", "+"} -> \/ IsOperandEnd(before)
                                         \/ before = "(" 
                                         \/ before # "~" /\ i > 2 /\ IsOperandEnd(e[i - 2])
               [] OTHER -> IsOperandEnd(before)

Closed(e) == e \o [i \in 1 .. Depth(e, Len(e)) |-> ")"]

RECURSIVE Reference(_)
Reference(e) ==
    LET bins == {i \in 1 .. Len(e) : BinaryAt(e, i)}
        least == {i \in bins : \A j \in bins : Priority(e[i], FALSE) =< Priority(e[j], FALSE)}
        at == Max(least)
        rest == Reference(Tail(e))
    IN  IF Len(e) = 1 THEN WordValue(e[1])
        ELSE IF bins # {}
             THEN LET a == Reference(SubSeq(e, 1, at - 1))
                      b == Reference(SubSeq(e, at + 1, Len(e)))
                  IN  IF a.ok /\ b.ok /\ ~(e[at] = "/" /\ b.v = 0) THEN Good(Apply2(e[at], a.v, b.v)) ELSE Bad
        ELSE IF e[1] = "+" THEN rest
        ELSE IF e[1] \in {"-", "~"} THEN IF rest.ok THEN Good(Apply1(e[1], rest.v)) ELSE Bad
        ELSE Reference(SubSeq(e, 2, Len(e) - 1))

\* Every expression of the grammar that ends with a word is parsed and has the
\* value its priorities and brackets give it; brackets open at the end count as
\* closed.  (Texts that end with a bracket are refused by parse, and of two unary
\* operators in a row it keeps the last: WellFormed leaves those out.)
ExpressionValue ==
    WellFormed(expr.text) /\ Last(expr.text) \in ExprWords =>
        Parsed /\ ParseResult = Reference(Closed(expr.text))

-----------------------------------------------------------------------------
(***************************************************************************)
(* The passes: process_file reads the lines of                              *)
(* a source and of the files it includes, process_line puts their bytes     *)
(* into memory, and finish fills in the values that depend on symbols.      *)
(*                                                                          *)
(* A line is [label, op, args].  An expression is [sym, n]: the value of    *)
(* the symbol, or 0 for "", plus n; it is what parse and eval (FixMathEval) *)
(* make of a text, "?" being a text parse refuses.  An instruction is one   *)
(* word with one relocated field of FieldMax + 1 values in its low bits.    *)
(***************************************************************************)

CONSTANTS Sources,     \* the programs: functions from file names to lines
          Main,        \* the file that is compiled
          MaxAddr,     \* bound: the memory
          MaxNesting,  \* bound: files that are open at a time
          FieldMax     \* largest value of an instruction's relocated field

VARIABLES source, include_stack, cursors, address, symtab, memory, reloc,
          error_occured, fatal_occured, stage, result

asm == <<source, include_stack, cursors, address, symtab, memory, reloc, error_occured,
         fatal_occured, stage, result>>

InstCode == 16 * (FieldMax + 1)       \* the opcode part of an instruction

\* eval of an expression in a symbol table; "none" when it fails
Evaluates(e, tab) == e.sym \in DOMAIN tab \cup {""}
Evaluate(e, tab) == e.n + (IF e.sym = "" THEN 0 ELSE tab[e.sym])
IsNumber(e) == e.sym = ""

read_u32(m, a) == m[a] + 256 * m[a + 1] + 65536 * m[a + 2] + 16777216 * m[a + 3]

Bind(tab, name, v) == [n \in DOMAIN tab \cup {name} |-> IF n = name THEN v ELSE tab[n]]

\* The state process_line works on.
Now == [address |-> address, symtab |-> symtab, memory |-> memory, reloc |-> reloc,
        error |-> error_occured, fatal |-> fatal_occured, ok |-> TRUE]
Error(s) == [s EXCEPT !.error = TRUE, !.ok = FALSE]
Fatal(s) == [Error(s) EXCEPT !.fatal = TRUE]

\* write bytes, unless a fatal error occured, and step over them
EmitBytes(s, bytes) ==
    LET span == s.address .. s.address + Len(bytes) - 1
    IN  [s EXCEPT !.memory = IF s.fatal THEN @
                             ELSE [a \in span |-> bytes[a - s.address + 1] % 256] @@ @,
                  !.address = @ + Len(bytes)]
WordBytes(v) == [i \in 1 .. 4 |-> (v \div 256 ^ (i - 1)) % 256]
EmitWord(s, v) == EmitBytes(s, WordBytes(v))

Align(s) == EmitBytes(s, [i \in 1 .. (-s.address) % 4 |-> 0])

AddReloc(s, e, min, max) ==
    [s EXCEPT !.reloc = Append(@, [location |-> s.address, e |-> e, min |-> min, max |-> max])]

DoOrg(s, e) == IF Evaluates(e, s.symtab) THEN [s EXCEPT !.address = Evaluate(e, s.symtab)] ELSE Fatal(s)

DoSpace(s, e) ==
    IF Evaluates(e, s.symtab) THEN EmitBytes(s, [i \in 1 .. Evaluate(e, s.symtab) |-> 0]) ELSE Fatal(s)

\* a value .equ cannot find is an error, but not a fatal one
DoEqu(s, name, e) ==
    IF Evaluates(e, s.symtab) THEN [s EXCEPT !.symtab = Bind(@, name, Evaluate(e, s.symtab))] ELSE Error(s)

\* .ascii writes up to a bad escape sequence
DoAscii(s, bytes, bad) == LET t == EmitBytes(s, bytes) IN IF bad THEN Error(t) ELSE t

DoByte(s, e) ==
    IF ~s.ok THEN s
    ELSE IF Evaluates(e, s.symtab) THEN EmitBytes(s, <<Evaluate(e, s.symtab)>>) ELSE Fatal(s)

\* fault: the place of the relocation is taken behind the word
DoWordLate(s, e) == IF IsNumber(e) THEN EmitWord(s, e.n) ELSE AddReloc(EmitWord(s, 0), e, 1, 256 * 256)

\* a word that is not a number is left to finish; the smallest value the relocation
\* takes is -0xffffffff, an unsigned 1
DoWord(s, e) ==
    IF IsNumber(e) THEN EmitWord(s, e.n) ELSE EmitWord(AddReloc(s, e, 1, 256 * 256), 0)

\* an operand that is refused leaves the relocations of the operands before it
DoInst(s, e, bad) ==
    LET t == IF IsNumber(e) THEN s ELSE AddReloc(s, e, 0, FieldMax)
        v == IF IsNumber(e) THEN e.n ELSE 0
    IN  IF bad \/ v \notin 0 .. FieldMax THEN Error(t) ELSE EmitWord(t, InstCode + v)

\* the directives and the instruction, after the label
Operation(s, l) ==
    CASE l.op = "" -> s
      [] l.op = ".ORG" -> DoOrg(s, l.args[1])
      [] l.op = ".SPACE" -> DoSpace(s, l.args[1])
      [] l.op = ".EQU" -> DoEqu(s, l.args[1], l.args[2])
      [] l.op = ".ASCII" -> DoAscii(s, l.args[1], l.args[2])
      [] l.op = ".BYTE" -> FoldLeft(DoByte, s, l.args)
      [] l.op = ".WORD" -> FoldLeft(DoWord, Align(s), l.args)
      [] l.op = "INST" -> DoInst(Align(s), l.args[1], l.args[2])

Labelled(s, l) == IF l.label = "" THEN s ELSE [s EXCEPT !.symtab = Bind(@, l.label, s.address)]

process_line(s, l) == Operation(Labelled(s, l), l)

Become(new) == \E s \in {new} :
    /\ address' = s.address /\ symtab' = s.symtab /\ memory' = s.memory /\ reloc' = s.reloc
    /\ error_occured' = s.error /\ fatal_occured' = s.fatal

-----------------------------------------------------------------------------
\* cursors: the stack of process_file calls, [file, line]; the last is the current.
Cursor == Last(cursors)
AtEnd == Cursor.line > Len(source[Cursor.file])
Line == source[Cursor.file][Cursor.line]
Advanced == [cursors EXCEPT ![Len(cursors)].line = @ + 1]

setup ==
    /\ stage = "setup" /\ stage' = "lines"
    /\ cursors' = <<[file |-> Main, line |-> 1]>>
    /\ UNCHANGED <<source, include_stack, address, symtab, memory, reloc, error_occured,
                   fatal_occured, result>>

ProcessLine ==
    /\ stage = "lines" /\ ~AtEnd /\ Line.op # "#INCLUDE"
    /\ Become(process_line(Now, Line))
    /\ cursors' = Advanced
    /\ UNCHANGED <<source, include_stack, stage, result>>

\* fault: only a file that includes itself is found
IncludesItself(file) == file = Cursor.file

IsRecursive(file) == file \in Range(Append(include_stack, Cursor.file))

\* an include of a file that is being read, or that cannot be opened, is an error
Include ==
    /\ stage = "lines" /\ ~AtEnd /\ Line.op = "#INCLUDE"
    /\ Become(Labelled(Now, Line))
    /\ Len(cursors) < MaxNesting
    /\ include_stack' = Append(include_stack, Cursor.file)
    /\ ~IsRecursive(Line.args[1]) /\ Line.args[1] \in DOMAIN source
    /\ cursors' = Append(Advanced, [file |-> Line.args[1], line |-> 1])
    /\ UNCHANGED <<source, stage, result>>

IncludeFails ==
    /\ stage = "lines" /\ ~AtEnd /\ Line.op = "#INCLUDE"
    /\ IsRecursive(Line.args[1]) \/ Line.args[1] \notin DOMAIN source
    /\ Become(Error(Labelled(Now, Line)))
    /\ cursors' = Advanced
    /\ UNCHANGED <<source, include_stack, stage, result>>

EndOfFile ==
    /\ stage = "lines" /\ AtEnd
    /\ IF Len(cursors) > 1
       THEN cursors' = Front(cursors) /\ include_stack' = Front(include_stack) /\ UNCHANGED stage
       ELSE stage' = "finish" /\ UNCHANGED <<cursors, include_stack>>
    /\ UNCHANGED <<source, address, symtab, memory, reloc, error_occured, fatal_occured, result>>

\* one relocation: parse, eval and update of the word at its place, which is written
\* back with the field cleared when the value is refused
FinishReloc ==
    /\ stage = "finish" /\ reloc # <<>>
    /\ LET r == Head(reloc)
           v == Evaluate(r.e, symtab)
           w == read_u32(memory, r.location)
           base == IF r.max = FieldMax THEN w - (w % (FieldMax + 1)) ELSE 0
           fits == v \in r.min .. r.max
       IN IF ~Evaluates(r.e, symtab)
          THEN error_occured' = TRUE /\ UNCHANGED memory
          ELSE /\ error_occured' = (error_occured \/ ~fits)
               /\ memory' = EmitWord([Now EXCEPT !.address = r.location],
                                     IF fits THEN base + v ELSE base).memory
    /\ reloc' = Tail(reloc)
    /\ UNCHANGED <<source, include_stack, cursors, address, symtab, fatal_occured, stage, result>>

finish ==
    /\ stage = "finish" /\ reloc = <<>>
    /\ stage' = "done" /\ result' = ~error_occured
    /\ UNCHANGED <<source, include_stack, cursors, address, symtab, memory, reloc,
                   error_occured, fatal_occured>>

AsmInit ==
    /\ source \in Sources
    /\ include_stack = <<>> /\ cursors = <<>>
    /\ address = 0 /\ symtab = [n \in {} |-> 0] /\ memory = [a \in 0 .. MaxAddr |-> 0]
    /\ reloc = <<>> /\ error_occured = FALSE /\ fatal_occured = FALSE
    /\ stage = "setup" /\ result = FALSE

AsmIdle ==
    /\ source = [f \in {} |-> <<>>] /\ include_stack = <<>> /\ cursors = <<>>
    /\ address = 0 /\ symtab = [n \in {} |-> 0] /\ memory = [a \in {} |-> 0]
    /\ reloc = <<>> /\ error_occured = FALSE /\ fatal_occured = FALSE
    /\ stage = "idle" /\ result = FALSE

AsmNext == setup \/ ProcessLine \/ Include \/ IncludeFails \/ EndOfFile \/ FinishReloc \/ finish

-----------------------------------------------------------------------------
(* The reference: what a source means, as two passes over its lines with    *)
(* the included files in place.                                             *)

RECURSIVE Flat(_, _)
Flat(file, open) ==
    IF file \in open \/ file \notin DOMAIN source THEN <<[label |-> "", op |-> "cycle", args |-> <<>>]>>
    ELSE FoldLeft(LAMBDA acc, l : IF l.op = "#INCLUDE"
                                  THEN acc \o <<[l EXCEPT !.op = ""]>> \o Flat(l.args[1], open \cup {file})
                                  ELSE Append(acc, l), <<>>, source[file])

Lines == Flat(Main, {})

Aligned(a) == a + ((-a) % 4)

\* pass one: the address of each line and the symbols before it.  Place gives the
\* address behind a line, from the address before it and the symbols so far.
Place(l, at, tab) ==
    CASE l.op = ".ORG" -> Evaluate(l.args[1], tab)
      [] l.op = ".SPACE" -> at + Evaluate(l.args[1], tab)
      [] l.op = ".ASCII" -> at + Len(l.args[1])
      [] l.op = ".BYTE" -> at + Len(l.args)
      [] l.op = ".WORD" -> Aligned(at) + 4 * Len(l.args)
      [] l.op = "INST" -> Aligned(at) + 4
      [] OTHER -> at

\* what must be known where the line stands
Early(l) ==
    CASE l.op \in {".ORG", ".SPACE"} -> {l.args[1]} [] l.op = ".EQU" -> {l.args[2]}
      [] l.op = ".BYTE" -> Range(l.args) [] OTHER -> {}

Broken(l, tab) ==
    \/ l.op = "cycle"
    \/ l.op \in {".ASCII", "INST"} /\ l.args[2]
    \/ \E e \in Early(l) : ~Evaluates(e, tab)

FirstPass(lines) ==
    LET P[k \in 1 .. Len(lines) + 1] ==
          IF k = 1 THEN [at |-> 0, tab |-> [n \in {} |-> 0], ok |-> TRUE]
          ELSE LET b == P[k - 1]
                   l == lines[k - 1]
                   tab == IF l.label = "" THEN b.tab ELSE Bind(b.tab, l.label, b.at)
               IN  IF ~b.ok \/ Broken(l, tab) THEN [b EXCEPT !.ok = FALSE]
                   ELSE [at |-> Place(l, b.at, tab), ok |-> TRUE,
                         tab |-> IF l.op = ".EQU"
                                 THEN Bind(tab, l.args[1], Evaluate(l.args[2], tab)) ELSE tab]
    IN  P

\* pass two: words and instructions take the final symbols.  A word that is not a
\* number must not become 0: finish refuses it.
Relocates(l, tab) ==
    CASE l.op = ".WORD" -> \A e \in Range(l.args) :
                               Evaluates(e, tab) /\ (IsNumber(e) \/ Evaluate(e, tab) > 0)
      [] l.op = "INST" -> Evaluates(l.args[1], tab) /\ Evaluate(l.args[1], tab) \in 0 .. FieldMax
      [] OTHER -> TRUE

\* the bytes of a line, with the symbols known behind it and the final ones
BytesOfLine(l, tab, final) ==
    CASE l.op = ".SPACE" -> [i \in 1 .. Evaluate(l.args[1], tab) |-> 0]
      [] l.op = ".ASCII" -> l.args[1]
      [] l.op = ".BYTE" -> [i \in DOMAIN l.args |-> Evaluate(l.args[i], tab) % 256]
      [] l.op = ".WORD" -> FlattenSeq([i \in DOMAIN l.args |-> WordBytes(Evaluate(l.args[i], final))])
      [] l.op = "INST" -> WordBytes(InstCode + Evaluate(l.args[1], final))
      [] OTHER -> <<>>

\* the bytes of all lines: <<from, at, bytes>>, from being the start of the padding
SecondPass(lines, p) ==
    LET final == p[Len(lines) + 1].tab
        at(k) == IF lines[k].op \in {".WORD", "INST"} THEN Aligned(p[k].at) ELSE p[k].at
    IN  [k \in DOMAIN lines |-> [from |-> p[k].at, at |-> at(k),
                                 bytes |-> BytesOfLine(lines[k], p[k + 1].tab, final)]]

Footprint(c) == IF c.bytes = <<>> THEN {} ELSE c.from .. c.at + Len(c.bytes) - 1

\* The assembler accepts exactly the sources whose expressions can be evaluated
\* where they stand (.org, .space, .equ, .byte) or at the end (words and
\* instructions), and then, if no .org makes lines overlap, the bytes of every line
\* are in memory at its place, references to later labels filled in.
AssembledAsWritten ==
    stage = "done" =>
        LET lines == Lines
            p == FirstPass(lines)
            last == p[Len(lines) + 1]
            valid == last.ok /\ \A k \in DOMAIN lines : Relocates(lines[k], last.tab)
            code == SecondPass(lines, p)
            overlap == \E j, k \in DOMAIN code :
                          j # k /\ Footprint(code[j]) \cap Footprint(code[k]) # {}
        IN  /\ result = valid
            /\ valid /\ ~overlap =>
                 \A k \in DOMAIN code : \A i \in DOMAIN code[k].bytes :
                     memory[code[k].at + i - 1] = code[k].bytes[i]

\* Every source comes to an end, the ones whose files include each other too.
AssemblyEnds == <>(stage \in {"done", "idle"})
=============================================================================
