----------------------------- MODULE SymbolTable ------------------------------
(***************************************************************************)
(* The symbol table of a machine (symboltable.cpp): two maps to the same    *)
(* entries.  The loader adds the symbols of an executable, whose names may  *)
(* repeat; the assembler sets symbols.  The map by value owns the entries   *)
(* and keeps several per value, the one inserted last first.                *)
(***************************************************************************)
EXTENDS Naturals

CONSTANTS SymbolNames, SymbolValues, MaxSymbols

\* by_name: [name -> number of an entry]; by_value: the owned entries, numbered in
\* the order of their insertion
VARIABLE symtab

SymInit == symtab = [by_name |-> [n \in {} |-> 0], by_value |-> {}, next |-> 1]

Removed(f, name) == [n \in DOMAIN f \ {name} |-> f[n]]

add_symbol(t, name, value) ==
    [by_name |-> [n \in DOMAIN t.by_name \cup {name} |-> IF n = name THEN t.next ELSE t.by_name[n]],
     by_value |-> {[id |-> t.next, name |-> name, value |-> value]} \cup t.by_value,
     next |-> t.next + 1]

\* the entry a name leads to, and the first entry of a value
NamedEntry(t, name) == CHOOSE e \in t.by_value : e.id = t.by_name[name]
FirstEntry(t, value) ==
    CHOOSE e \in t.by_value : /\ e.value = value
                              /\ \A f \in t.by_value : f.value = value => f.id =< e.id

\* a bug: the first entry of the value is removed, whichever symbol it is of
RemoveAnyOf(t, name) ==
    IF name \notin DOMAIN t.by_name THEN t
    ELSE [t EXCEPT !.by_name = Removed(@, name),
                   !.by_value = @ \ {FirstEntry(t, NamedEntry(t, name).value)}]

remove_symbol(t, name) ==
    IF name \notin DOMAIN t.by_name THEN t
    ELSE [t EXCEPT !.by_name = Removed(@, name),
                   !.by_value = {e \in @ : e.id # t.by_name[name]}]

name_to_value(t, name) == NamedEntry(t, name).value

location_to_name(t, value) == FirstEntry(t, value).name

\* get_symbol_table of the loader
AddSymbol == /\ symtab.next <= MaxSymbols
             /\ \E n \in SymbolNames, v \in SymbolValues : symtab' = add_symbol(symtab, n, v)

set_symbol == /\ symtab.next <= MaxSymbols
              /\ \E n \in SymbolNames, v \in SymbolValues :
                   symtab' = add_symbol(remove_symbol(symtab, n), n, v)

RemoveSymbol == \E n \in DOMAIN symtab.by_name : symtab' = remove_symbol(symtab, n)

SymNext == AddSymbol \/ set_symbol \/ RemoveSymbol

-----------------------------------------------------------------------------

\* No name leads to an entry that was deleted, however often names and values repeat; and
\* the symbol found at a name's value has that value too.
SymbolsLive ==
    \A n \in DOMAIN symtab.by_name :
        /\ \E e \in symtab.by_value : e.id = symtab.by_name[n] /\ e.name = n
        /\ \E e \in symtab.by_value : /\ e.name = location_to_name(symtab, name_to_value(symtab, n))
                                      /\ e.value = name_to_value(symtab, n)
=============================================================================
