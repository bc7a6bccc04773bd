------------------------------ MODULE MCSession -------------------------------
(***************************************************************************)
(* The two front ends, one part per behaviour: the window driving up to 2   *)
(* machines with 2 builds and 2 message boxes; 2 editors with 2 edits of    *)
(* one file that has two names; 3 changes in the New machine dialog; the    *)
(* command line with options about each check and each default; 3 moves in  *)
(* a memory or program view of 24 rows; 4 symbols; and 3 uses of registers  *)
(* with the docks that show them.                                           *)
(***************************************************************************)
EXTENDS MainWindow, SourceEditors, NewDialog, CommandLine, TableView, SymbolTable, Docks

VARIABLE part

vars == <<part, winvars, edvars, dlgvars, clivars, view, symtab, docks>>

MCCop0Values == {{}, {0, 1, 8}}
MCCanon == [n \in FileNames |-> "F"]

Plain == [files |-> 1, hazard |-> "", dcache |-> <<>>, pipelined |-> FALSE, no_delay_slot |-> FALSE,
          gps |-> <<>>, trace |-> {}, fail |-> <<>>, expect |-> FALSE,
          range |-> [start |-> 0, len |-> 0], serin |-> <<>>, serout |-> <<>>, asm |-> FALSE]

Word(w) == [word |-> w, n |-> 0]
Num(n)  == [word |-> "", n |-> n]

MCCliOptions ==
    {[Plain EXCEPT !.fail = f, !.expect = e, !.asm = a] :
        f \in {<<>>, <<{}>>, <<{"I"}, {"O", "J"}>>, <<{"X"}>>}, e \in BOOLEAN, a \in BOOLEAN}
    \cup {[Plain EXCEPT !.gps = g, !.trace = t, !.pipelined = p] :
        g \in {<<>>, <<Num(1)>>, <<Num(1), Num(1)>>, <<Word("*"), Num(2)>>, <<Num(32)>>,
               <<Num(33)>>, <<Num(-1), Num(33)>>, <<Num(-255), Word("x")>>, <<Num(-256)>>, <<Word("x"), Num(32)>>},
        t \in SUBSET {"decode", "lo", "hi"}, p \in BOOLEAN}
    \cup {[Plain EXCEPT !.range = [start |-> s, len |-> n]] : s \in 0 .. 6, n \in 0 .. 9}
    \cup {[Plain EXCEPT !.serin = i, !.serout = o] :
        i \in {<<>>, <<"a">>, <<"b", "a">>, <<"missing">>},
        o \in {<<>>, <<"a">>, <<"b">>, <<"b", "a">>}}
    \cup {[Plain EXCEPT !.dcache = c, !.hazard = h, !.no_delay_slot = (h = ""), !.files = f] :
        c \in {<<>>, <<Num(4), Num(2)>>, <<Num(4), Num(0), Num(2)>>, <<Word("lru"), Num(4), Num(2)>>,
               <<Word("lru"), Num(4), Num(2), Word("x"), Word("wb")>>,
               <<Word("x"), Num(4), Num(2), Num(2)>>, <<Num(4), Num(2), Num(2), Word("x")>>},
        h \in {"", "none", "stall-forward", "x"}, f \in {1, 2}}

Init == /\ part \in {"window", "editors", "dialog", "cli", "view", "symbols", "docks"}
        /\ WinInit /\ EdInit /\ DlgInit /\ CliInit /\ ViewInit /\ SymInit /\ DockInit
        /\ part # "window"  => reset_at_compile
        /\ part # "editors" => disk = [f \in DOMAIN disk |-> NoFile]
        /\ part # "cli"     => opts = Plain
        /\ part # "view"    => view = ViewStart("memory")

Win(A)  == part = "window" /\ A /\ UNCHANGED <<part, edvars, dlgvars, clivars, view, symtab, docks>>
View(A) == part = "view" /\ A /\ UNCHANGED <<part, winvars, edvars, dlgvars, clivars, symtab, docks>>

Next == \/ Win(WinNext)
        \/ part = "editors" /\ EdNext /\ UNCHANGED <<part, winvars, dlgvars, clivars, view, symtab, docks>>
        \/ part = "dialog" /\ DlgNext /\ UNCHANGED <<part, winvars, edvars, clivars, view, symtab, docks>>
        \/ part = "cli" /\ CliNext /\ UNCHANGED <<part, winvars, edvars, dlgvars, view, symtab, docks>>
        \/ View(ViewNext)
        \/ part = "symbols" /\ SymNext /\ UNCHANGED <<part, winvars, edvars, dlgvars, clivars, view, docks>>
        \/ part = "docks" /\ DockNext /\ UNCHANGED <<part, winvars, edvars, dlgvars, clivars, view, symtab>>

\* Qt's event loop serves the run timer and queued calls, and the core finishes its step
Spec == /\ Init /\ [][Next]_vars
        /\ WF_vars(Win(Timeout)) /\ WF_vars(Win(CoreStep)) /\ WF_vars(View(adjust_scroll_pos_process))
=============================================================================
